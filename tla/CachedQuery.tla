---------------------------- MODULE CachedQuery -----------------------------
(***************************************************************************)
(* scaling/function_query.go: CachedFunctionQuery.Get looks into a cache   *)
(* whose entries expire (function_cache.go), has one call per function     *)
(* query the provider for all who miss at the time, each of whom stores    *)
(* the response and reads it back from the cache.                          *)
(*                                                                         *)
(* What the provider says of a function is a member of States; it may      *)
(* change at any time.  Time is abstracted: an entry may expire at any     *)
(* moment.                                                                 *)
(***************************************************************************)
EXTENDS Integers

CONSTANTS
  Clients, Queried,     \* who asks, and the functions they ask for
  States,               \* responses of a query
  Failed,               \* an error of the query
  Zero                  \* ServiceQueryResponse{}, also: nothing is cached

ASSUME QueryAssumption ==
  /\ Failed \notin States
  /\ Zero \notin States \cup {Failed}

VARIABLES
  stage,       \* how far each client has come in Get
  wants,       \* the function it asks for
  got,         \* the response it has in hands
  cached,      \* the live entry of each function, or Zero
  group,       \* the single-flight call of key GetReplicas-f, if there is one
  says,        \* what the provider would answer
  said         \* history: what it has answered

clientVars == <<stage, wants, got>>
queryVars  == <<clientVars, cached, group, says, said>>

Idle == [at |-> "free", reply |-> Failed]

QueryTypeOK ==
  /\ stage \in [Clients -> {"out", "lookup", "call", "wait", "ended", "check",
                            "answered", "refused"}]
  /\ wants \in [Clients -> Queried]
  /\ got \in [Clients -> States \cup {Failed, Zero}]
  /\ cached \in [Queried -> States \cup {Zero}]
  /\ group \in [Queried -> [at : {"free", "sent", "replied"}, reply : States \cup {Failed}]]
  /\ says \in [Queried -> States]
  /\ said \in [Queried -> SUBSET States]

QueryInit ==
  /\ stage = [c \in Clients |-> "out"]
  /\ wants \in [Clients -> Queried]
  /\ got = [c \in Clients |-> Zero]
  /\ cached = [f \in Queried |-> Zero]
  /\ group = [f \in Queried |-> Idle]
  /\ says \in [Queried -> States]
  /\ said = [f \in Queried |-> {}]

Step(c, from, to) ==
  /\ stage[c] = from
  /\ stage' = [stage EXCEPT ![c] = to]
  /\ UNCHANGED <<wants, says, said>>

------------------------------------------------------------------------------
(* Get *)

Look(c) ==
  /\ stage[c] = "out"
  /\ stage' = [stage EXCEPT ![c] = "lookup"]
  /\ \E f \in Queried : wants' = [wants EXCEPT ![c] = f]
  /\ UNCHANGED <<got, cached, group, says, said>>

Hit(c) ==
  /\ cached[wants[c]] # Zero
  /\ Step(c, "lookup", "answered")
  /\ got' = [got EXCEPT ![c] = cached[wants[c]]]
  /\ UNCHANGED <<cached, group>>

Miss(c) ==
  /\ cached[wants[c]] = Zero
  /\ Step(c, "lookup", "call")
  /\ UNCHANGED <<got, cached, group>>

LeadQuery(c) ==
  /\ Step(c, "call", "wait")
  /\ group[wants[c]].at = "free"
  /\ group' = [group EXCEPT ![wants[c]].at = "sent"]
  /\ UNCHANGED <<got, cached>>

FollowQuery(c) ==
  /\ Step(c, "call", "wait")
  /\ group[wants[c]].at # "free"
  /\ UNCHANGED <<got, cached, group>>

QueryRefused(c) ==
  /\ got[c] = Failed
  /\ Step(c, "ended", "refused")
  /\ UNCHANGED <<got, cached, group>>

(* The error is looked at after the response has been stored. *)
FillAlsoFailed(c) ==
  /\ Step(c, "ended", "check")
  /\ cached' = [cached EXCEPT ![wants[c]] = got[c]]
  /\ UNCHANGED <<got, group>>

(* Every client that shared the call stores its response. *)
Fill(c) ==
  /\ got[c] # Failed
  /\ Step(c, "ended", "check")
  /\ cached' = [cached EXCEPT ![wants[c]] = got[c]]
  /\ UNCHANGED <<got, group>>

(* hit is not looked at: the entry has expired, and Get returns Zero.      *)
RecheckAnyway(c) ==
  /\ Step(c, "check", "answered")
  /\ got' = [got EXCEPT ![c] = cached[wants[c]]]
  /\ UNCHANGED <<cached, group>>

(* What the second look finds is returned, whoever stored it. *)
Recheck(c) ==
  /\ cached[wants[c]] # Zero
  /\ Step(c, "check", "answered")
  /\ got' = [got EXCEPT ![c] = cached[wants[c]]]
  /\ UNCHANGED <<cached, group>>

RecheckMissed(c) ==
  /\ cached[wants[c]] = Zero
  /\ Step(c, "check", "refused")
  /\ UNCHANGED <<got, cached, group>>

Finished(c) ==
  /\ stage[c] \in {"answered", "refused"}
  /\ stage' = [stage EXCEPT ![c] = "out"]
  /\ got' = [got EXCEPT ![c] = Zero]
  /\ UNCHANGED <<wants, cached, group, says, said>>

------------------------------------------------------------------------------
(* The shared call, the cache and the provider *)

ProviderAnswers(f) ==
  /\ group[f].at = "sent"
  /\ group' = [group EXCEPT ![f] = [at |-> "replied", reply |-> says[f]]]
  /\ said' = [said EXCEPT ![f] = @ \cup {says[f]}]
  /\ UNCHANGED <<clientVars, cached, says>>

QueryLost(f) ==
  /\ group[f].at = "sent"
  /\ group' = [group EXCEPT ![f].at = "replied"]
  /\ UNCHANGED <<clientVars, cached, says, said>>

Sharers(f) == {c \in Clients : stage[c] = "wait" /\ wants[c] = f}

(* Only one of those who wait is told. *)
EndCallOfLeader(f) ==
  /\ group[f].at = "replied"
  /\ \E c \in Sharers(f) :
       /\ stage' = [stage EXCEPT ![c] = "ended"]
       /\ got' = [got EXCEPT ![c] = group[f].reply]
  /\ group' = [group EXCEPT ![f] = Idle]
  /\ UNCHANGED <<wants, cached, says, said>>

(* doCall's deferred function and the return of all who waited. *)
EndCall(f) ==
  /\ group[f].at = "replied"
  /\ stage' = [c \in Clients |-> IF c \in Sharers(f) THEN "ended" ELSE stage[c]]
  /\ got' = [c \in Clients |-> IF c \in Sharers(f) THEN group[f].reply ELSE got[c]]
  /\ group' = [group EXCEPT ![f] = Idle]
  /\ UNCHANGED <<wants, cached, says, said>>

EntryExpires(f) ==
  /\ cached[f] # Zero
  /\ cached' = [cached EXCEPT ![f] = Zero]
  /\ UNCHANGED <<clientVars, group, says, said>>

FunctionChanges(f) ==
  /\ \E s \in States \ {says[f]} : says' = [says EXCEPT ![f] = s]
  /\ UNCHANGED <<clientVars, cached, group, said>>

------------------------------------------------------------------------------
Get(c) ==
  \/ Hit(c) \/ Miss(c) \/ LeadQuery(c) \/ FollowQuery(c)
  \/ QueryRefused(c) \/ Fill(c) \/ Recheck(c) \/ RecheckMissed(c)

SharedQuery(f) == ProviderAnswers(f) \/ QueryLost(f) \/ EndCall(f)

QueryNext ==
  \/ \E c \in Clients : Look(c) \/ Get(c) \/ Finished(c)
  \/ \E f \in Queried : SharedQuery(f) \/ EntryExpires(f) \/ FunctionChanges(f)

------------------------------------------------------------------------------
(* Properties *)

(* An answer without an error is one the provider has given for this very  *)
(* function: neither a failed query, nor an entry that expired between     *)
(* filling and reading (function_query.go 85), nor another client's call   *)
(* makes Get return anything else.                                         *)
AnswersWereSaid ==
  \A c \in Clients : stage[c] = "answered" => got[c] \in said[wants[c]]

(* The group of golang.org/x/sync, as it is used here, implements          *)
(* CallSharing.                                                            *)
QuerySharing == INSTANCE CallSharing WITH
  Callers <- Clients,
  Keys <- Queried,
  NoResult <- Zero,
  party <- [f \in Queried |-> Sharers(f)],
  result <- [c \in Clients |-> IF stage[c] = "ended" THEN got[c] ELSE Zero]

SharesQueries == QuerySharing!Spec
=============================================================================
