----------------------- MODULE SharedQueries_proofs ------------------------
(***************************************************************************)
(* For any number of callers and keys: SingleFlight runs f once at a time  *)
(* for a key and hands out no missing result, CachedFunctionQuery answers  *)
(* with what the provider has said, and both implement CallSharing.        *)
(***************************************************************************)
EXTENDS SharedQueries, TLAPS

Active == {"calling", "returned", "stored", "woken"}

(* The map holds exactly the calls whose goroutine is not done with it.    *)
MapInv ==
  /\ \A k \in Keys : calls[k] # Nil => run[calls[k]] # "none" /\ runKey[calls[k]] = k
  /\ \A o \in Objects : run[o] # "none" => calls[runKey[o]] = o

(* What a goroutine has done so far: it holds s.lock from the result to    *)
(* the map, and wakes the callers in between.                              *)
ProgressInv ==
  \A o \in Objects :
    /\ run[o] \in {"stored", "woken"} <=> lock = o
    /\ run[o] \in {"calling", "returned", "stored"} <=> wg[o] = 1
    /\ run[o] = "returned" => value[o] # Nil
    /\ run[o] \in {"stored", "woken"} => res[o] # Nil

(* Who holds a call waits for its key, and finds a result in it when it is *)
(* over; a call that is not over has its leader waiting.                   *)
HolderInv ==
  /\ \A c \in Callers :
       /\ at[c] = "waiting" <=> held[c] # Nil
       /\ at[c] = "waiting" /\ wg[held[c]] = 0 => res[held[c]] # Nil
       /\ at[c] = "waiting" /\ wg[held[c]] # 0 => runKey[held[c]] = key[c]
  /\ \A o \in Objects : wg[o] = 1 => \E c \in Callers : held[c] = o

FlightInv == FlightTypeOK /\ MapInv /\ ProgressInv /\ HolderInv

LEMMA FlightInitially == FlightInit => FlightInv
BY FlightAssumption
DEF FlightInit, FlightInv, FlightTypeOK, MapInv, ProgressInv, HolderInv

------------------------------------------------------------------------------
(* The steps of a caller *)

LEMMA AskInv ==
  ASSUME FlightInv, NEW c \in Callers, Ask(c) PROVE FlightInv'
<1> USE DEF FlightInv, FlightTypeOK, Ask, callVars
<1>1. FlightTypeOK'
  OBVIOUS
<1>2. MapInv' /\ ProgressInv'
  BY DEF MapInv, ProgressInv
<1>3. HolderInv'
  BY DEF HolderInv
<1> QED
  BY <1>1, <1>2, <1>3

(* Whoever finds a call finds it with wg raised: the lock is free. *)
LEMMA FoundIsRunning ==
  ASSUME FlightInv, NEW c \in Callers, lock = Nil, calls[key[c]] # Nil
  PROVE  /\ calls[key[c]] \in Objects /\ wg[calls[key[c]]] = 1
         /\ runKey[calls[key[c]]] = key[c]
<1> DEFINE o == calls[key[c]]
<1>1. o \in Objects /\ o # lock
  BY FlightAssumption DEF FlightInv, FlightTypeOK
<1>2. run[o] # "none" /\ runKey[o] = key[c]
  BY DEF FlightInv, FlightTypeOK, MapInv
<1>3. run[o] \in {"calling", "returned"}
  <2> HIDE DEF o
  <2> QED
    BY <1>1, <1>2 DEF FlightInv, FlightTypeOK, ProgressInv
<1>4. wg[o] = 1
  <2> HIDE DEF o
  <2> QED
    BY <1>1, <1>3 DEF FlightInv, ProgressInv
<1> QED
  BY <1>1, <1>2, <1>4

LEMMA FollowInv ==
  ASSUME FlightInv, NEW c \in Callers, Follow(c) PROVE FlightInv'
<1> USE DEF FlightInv, FlightTypeOK, Follow, callVars
<1>1. FlightTypeOK'
  OBVIOUS
<1>2. MapInv' /\ ProgressInv'
  BY DEF MapInv, ProgressInv
<1>3. HolderInv'
  <2>1. held[c] = Nil
    BY DEF HolderInv
  <2> QED
    BY <2>1, FoundIsRunning, FlightAssumption DEF HolderInv
<1> QED
  BY <1>1, <1>2, <1>3

LEMMA LeadInv ==
  ASSUME FlightInv, NEW c \in Callers, Lead(c) PROVE FlightInv'
<1> USE DEF FlightInv, FlightTypeOK
<1>1. PICK o \in Objects : Unused(o) /\ NewCall(c, o, 1)
  BY DEF Lead, Allocated
<1>2. at[c] = "asking" /\ lock = Nil /\ calls[key[c]] = Nil /\ o # Nil
  BY FlightAssumption DEF Lead
<1>3. FlightTypeOK'
  BY <1>1 DEF NewCall
<1>4. MapInv'
  <2>1. ASSUME NEW k \in Keys, calls'[k] # Nil
        PROVE  run'[calls'[k]] # "none" /\ runKey'[calls'[k]] = k
    <3>1. CASE k = key[c]
      BY <1>1, <3>1 DEF NewCall
    <3>2. CASE k # key[c]
      <4>1. calls'[k] = calls[k] /\ calls[k] \in Objects /\ calls[k] # o
        BY <1>1, <2>1, <3>2 DEF NewCall, Unused
      <4> QED
        BY <1>1, <2>1, <4>1 DEF NewCall, MapInv
    <3> QED
      BY <3>1, <3>2
  <2>2. ASSUME NEW p \in Objects, run'[p] # "none"
        PROVE  calls'[runKey'[p]] = p
    <3>1. CASE p = o
      BY <1>1, <3>1 DEF NewCall
    <3>2. CASE p # o
      <4>1. run[p] # "none" /\ runKey'[p] = runKey[p]
        BY <1>1, <2>2, <3>2 DEF NewCall
      <4>2. calls[runKey[p]] = p /\ p # Nil
        BY <4>1, FlightAssumption DEF MapInv
      <4> QED
        BY <1>1, <1>2, <4>1, <4>2 DEF NewCall
    <3> QED
      BY <3>1, <3>2
  <2> QED
    BY <2>1, <2>2 DEF MapInv
<1>5. ProgressInv'
  BY <1>1, <1>2 DEF NewCall, Unused, ProgressInv
<1>6. HolderInv'
  <2>1. held[c] = Nil
    BY <1>2 DEF HolderInv
  <2>2. \A b \in Callers : held[b] # o
    BY <1>1 DEF Unused
  <2>3. /\ at' = [at EXCEPT ![c] = "waiting"] /\ held' = [held EXCEPT ![c] = o]
        /\ wg' = [wg EXCEPT ![o] = 1] /\ runKey' = [runKey EXCEPT ![o] = key[c]]
        /\ res' = [res EXCEPT ![o] = Nil] /\ UNCHANGED key
    BY <1>1 DEF NewCall
  <2>4. ASSUME NEW b \in Callers
        PROVE  /\ at'[b] = "waiting" <=> held'[b] # Nil
               /\ at'[b] = "waiting" /\ wg'[held'[b]] = 0 => res'[held'[b]] # Nil
               /\ at'[b] = "waiting" /\ wg'[held'[b]] # 0 => runKey'[held'[b]] = key'[b]
    <3>1. CASE b = c
      BY <1>2, <2>3, <3>1
    <3>2. CASE b # c
      <4>1. at'[b] = at[b] /\ held'[b] = held[b] /\ held[b] # o
        BY <2>2, <2>3, <3>2
      <4> QED
        BY <2>3, <4>1 DEF HolderInv
    <3> QED
      BY <3>1, <3>2
  <2>5. ASSUME NEW p \in Objects, wg'[p] = 1
        PROVE  \E b \in Callers : held'[b] = p
    <3>1. CASE p = o
      BY <2>3, <3>1
    <3>2. CASE p # o
      <4>1. PICK b \in Callers : held[b] = p
        BY <2>3, <2>5, <3>2 DEF HolderInv
      <4>2. b # c
        BY <2>1, <4>1, FlightAssumption
      <4> QED
        BY <2>3, <4>1, <4>2
    <3> QED
      BY <3>1, <3>2
  <2> QED
    BY <2>4, <2>5 DEF HolderInv
<1> QED
  BY <1>3, <1>4, <1>5, <1>6

LEMMA ReturnInv ==
  ASSUME FlightInv, NEW c \in Callers, Return(c) PROVE FlightInv'
<1> USE DEF FlightInv, FlightTypeOK, Return, callVars
<1>1. FlightTypeOK'
  OBVIOUS
<1>2. MapInv' /\ ProgressInv'
  BY DEF MapInv, ProgressInv
<1>3. HolderInv'
  BY FlightAssumption DEF HolderInv
<1> QED
  BY <1>1, <1>2, <1>3

------------------------------------------------------------------------------
(* The steps of a goroutine *)

LEMMA GoroutineInv ==
  ASSUME FlightInv, NEW o \in Objects, Goroutine(o) PROVE FlightInv'
<1> USE FlightAssumption DEF FlightInv, FlightTypeOK, callerVars
<1>1. CASE FReturns(o)
  <2>1. FlightTypeOK'
    BY <1>1 DEF FReturns
  <2>2. MapInv' /\ HolderInv'
    BY <1>1 DEF FReturns, MapInv, HolderInv
  <2>3. ProgressInv'
    BY <1>1 DEF FReturns, ProgressInv
  <2> QED
    BY <2>1, <2>2, <2>3
<1>2. CASE FPanics(o)
  <2>1. FlightTypeOK'
    BY <1>2 DEF FPanics
  <2>2. MapInv' /\ HolderInv'
    BY <1>2 DEF FPanics, MapInv, HolderInv
  <2>3. ProgressInv'
    BY <1>2 DEF FPanics, ProgressInv
  <2> QED
    BY <2>1, <2>2, <2>3
<1>3. CASE StoreResult(o)
  <2>1. FlightTypeOK'
    BY <1>3 DEF StoreResult
  <2>2. MapInv'
    BY <1>3 DEF StoreResult, MapInv
  <2>3. HolderInv'
    BY <1>3 DEF StoreResult, HolderInv, ProgressInv
  <2>4. ProgressInv'
    BY <1>3 DEF StoreResult, ProgressInv
  <2> QED
    BY <2>1, <2>2, <2>3, <2>4
<1>4. CASE Wake(o)
  <2>1. FlightTypeOK'
    BY <1>4 DEF Wake
  <2>2. MapInv'
    BY <1>4 DEF Wake, MapInv
  <2>3. HolderInv'
    BY <1>4 DEF Wake, HolderInv, ProgressInv
  <2>4. ProgressInv'
    BY <1>4 DEF Wake, ProgressInv
  <2> QED
    BY <2>1, <2>2, <2>3, <2>4
<1>5. CASE Forget(o)
  <2>1. FlightTypeOK'
    BY <1>5 DEF Forget
  <2>2. MapInv'
    BY <1>5 DEF Forget, MapInv
  <2>3. HolderInv'
    BY <1>5 DEF Forget, HolderInv
  <2>4. ProgressInv'
    BY <1>5 DEF Forget, ProgressInv
  <2> QED
    BY <2>1, <2>2, <2>3, <2>4
<1> QED
  BY <1>1, <1>2, <1>3, <1>4, <1>5 DEF Goroutine

LEMMA FlightUnchanged == FlightInv /\ UNCHANGED flightVars => FlightInv'
BY DEF FlightInv, FlightTypeOK, MapInv, ProgressInv, HolderInv,
       flightVars, callVars, callerVars

LEMMA FlightStep == FlightInv /\ [FlightNext]_flightVars => FlightInv'
BY FlightUnchanged, AskInv, FollowInv, LeadInv, ReturnInv, GoroutineInv DEF FlightNext, Do

------------------------------------------------------------------------------
(* CachedFunctionQuery *)

(* What is cached, shared or in hands has been said by the provider.       *)
SaidInv ==
  /\ \A f \in Queried :
       /\ cached[f] # Zero => cached[f] \in said[f]
       /\ group[f].at # "replied" => group[f].reply = Failed
       /\ group[f].reply # Failed => group[f].reply \in said[f]
  /\ \A c \in Clients :
       /\ stage[c] = "ended" => got[c] \in said[wants[c]] \cup {Failed}
       /\ stage[c] = "answered" => got[c] \in said[wants[c]]

(* A call that has not ended has someone who waits for it. *)
WaitedInv == \A f \in Queried : group[f].at # "free" => Sharers(f) # {}

QueryInv == QueryTypeOK /\ SaidInv /\ WaitedInv

LEMMA QueryInitially == QueryInit => QueryInv
BY QueryAssumption DEF QueryInit, QueryInv, QueryTypeOK, SaidInv, WaitedInv, Idle

LEMMA ClientInv ==
  ASSUME QueryInv, NEW c \in Clients, Look(c) \/ Get(c) \/ Finished(c)
  PROVE  QueryInv'
<1> USE QueryAssumption DEF QueryInv, QueryTypeOK, Step, Sharers
<1>1. CASE Look(c)
  BY <1>1 DEF Look, SaidInv, WaitedInv
<1>2. CASE Hit(c)
  BY <1>2 DEF Hit, SaidInv, WaitedInv
<1>3. CASE Miss(c)
  BY <1>3 DEF Miss, SaidInv, WaitedInv
<1>4. CASE LeadQuery(c)
  <2> DEFINE g == group[wants[c]]
  <2>1. QueryTypeOK'
    <3>1. wants[c] \in Queried /\ group' = [group EXCEPT ![wants[c]] = [g EXCEPT !.at = "sent"]]
      BY <1>4 DEF LeadQuery
    <3>2. [g EXCEPT !.at = "sent"] \in [at : {"free", "sent", "replied"}, reply : States \cup {Failed}]
      BY <3>1
    <3>3. UNCHANGED <<wants, got, cached, says, said>>
      BY <1>4 DEF LeadQuery
    <3>4. stage' = [stage EXCEPT ![c] = "wait"]
      BY <1>4 DEF LeadQuery
    <3> QED
      BY <3>1, <3>2, <3>3, <3>4
  <2>2. SaidInv'
    BY <1>4 DEF LeadQuery, SaidInv
  <2>3. WaitedInv'
    BY <1>4 DEF LeadQuery, WaitedInv
  <2> QED
    BY <2>1, <2>2, <2>3
<1>5. CASE FollowQuery(c)
  BY <1>5 DEF FollowQuery, SaidInv, WaitedInv
<1>6. CASE QueryRefused(c)
  BY <1>6 DEF QueryRefused, SaidInv, WaitedInv
<1>7. CASE Fill(c)
  <2>1. QueryTypeOK'
    BY <1>7 DEF Fill, SaidInv
  <2>2. SaidInv'
    <3>1. got[c] \in said[wants[c]] /\ wants[c] \in Queried
      BY <1>7 DEF Fill, SaidInv
    <3>2. /\ cached' = [cached EXCEPT ![wants[c]] = got[c]]
          /\ stage' = [stage EXCEPT ![c] = "check"]
          /\ UNCHANGED <<got, group, wants, says, said>>
      BY <1>7 DEF Fill
    <3>3. ASSUME NEW f \in Queried, cached'[f] # Zero PROVE cached'[f] \in said'[f]
      <4>1. CASE f = wants[c]
        BY <3>1, <3>2, <4>1
      <4>2. CASE f # wants[c]
        BY <3>2, <3>3, <4>2 DEF SaidInv
      <4> QED
        BY <4>1, <4>2
    <3>4. ASSUME NEW b \in Clients
          PROVE  /\ stage'[b] = "ended" => got'[b] \in said'[wants'[b]] \cup {Failed}
                 /\ stage'[b] = "answered" => got'[b] \in said'[wants'[b]]
      BY <3>2 DEF SaidInv
    <3>5. \A f \in Queried :
            /\ group'[f].at # "replied" => group'[f].reply = Failed
            /\ group'[f].reply # Failed => group'[f].reply \in said'[f]
      BY <3>2 DEF SaidInv
    <3> QED
      BY <3>3, <3>4, <3>5 DEF SaidInv
  <2>3. WaitedInv'
    BY <1>7 DEF Fill, WaitedInv
  <2> QED
    BY <2>1, <2>2, <2>3
<1>8. CASE Recheck(c)
  BY <1>8 DEF Recheck, SaidInv, WaitedInv
<1>9. CASE RecheckMissed(c)
  BY <1>9 DEF RecheckMissed, SaidInv, WaitedInv
<1>10. CASE Finished(c)
  BY <1>10 DEF Finished, SaidInv, WaitedInv
<1> QED
  BY <1>1, <1>2, <1>3, <1>4, <1>5, <1>6, <1>7, <1>8, <1>9, <1>10 DEF Get

LEMMA SharedQueryInv ==
  ASSUME QueryInv, NEW f \in Queried, SharedQuery(f) \/ EntryExpires(f) \/ FunctionChanges(f)
  PROVE  QueryInv'
<1> USE QueryAssumption DEF QueryInv, QueryTypeOK, Sharers, clientVars
<1>1. CASE ProviderAnswers(f)
  <2>1. QueryTypeOK'
    BY <1>1 DEF ProviderAnswers
  <2>2. SaidInv'
    BY <1>1 DEF ProviderAnswers, SaidInv
  <2>3. WaitedInv'
    BY <1>1 DEF ProviderAnswers, WaitedInv
  <2> QED
    BY <2>1, <2>2, <2>3
<1>2. CASE QueryLost(f)
  BY <1>2 DEF QueryLost, SaidInv, WaitedInv
<1>3. CASE EndCall(f)
  <2>1. QueryTypeOK'
    BY <1>3 DEF EndCall, Idle
  <2>2. SaidInv'
    BY <1>3 DEF EndCall, SaidInv, Idle
  <2>3. WaitedInv'
    BY <1>3 DEF EndCall, WaitedInv, Idle
  <2> QED
    BY <2>1, <2>2, <2>3
<1>4. CASE EntryExpires(f)
  BY <1>4 DEF EntryExpires, SaidInv, WaitedInv
<1>5. CASE FunctionChanges(f)
  BY <1>5 DEF FunctionChanges, SaidInv, WaitedInv
<1> QED
  BY <1>1, <1>2, <1>3, <1>4, <1>5 DEF SharedQuery

LEMMA QueryUnchanged == QueryInv /\ UNCHANGED queryVars => QueryInv'
BY DEF QueryInv, QueryTypeOK, SaidInv, WaitedInv, Sharers, queryVars, clientVars

LEMMA QueryStep == QueryInv /\ [QueryNext]_queryVars => QueryInv'
BY QueryUnchanged, ClientInv, SharedQueryInv DEF QueryNext

------------------------------------------------------------------------------
(* Both layers *)

LEMMA LayerSteps ==
  [Next]_layerVars => [FlightNext]_flightVars /\ [QueryNext]_queryVars
BY DEF Next, OnFlight, OnQuery, layerVars

LEMMA LayerInvariance == Spec => [](FlightInv /\ QueryInv)
<1>1. Init => FlightInv /\ QueryInv
  BY FlightInitially, QueryInitially DEF Init
<1>2. (FlightInv /\ QueryInv) /\ [Next]_layerVars => (FlightInv /\ QueryInv)'
  BY LayerSteps, FlightStep, QueryStep
<1> QED
  BY <1>1, <1>2, PTL DEF Spec

(* Both layers keep their types, whatever the numbers of callers, keys and *)
(* Call objects.                                                           *)
THEOREM LayersTypeCorrect == Spec => []LayerTypeOK
<1>1. FlightInv /\ QueryInv => LayerTypeOK
  BY DEF FlightInv, QueryInv, LayerTypeOK
<1> QED
  BY <1>1, LayerInvariance, PTL

(* Of single.go 37: f does not run twice at a time for a key.              *)
THEOREM RunsOncePerKey == Spec => []OneRunPerKey
<1>1. FlightInv => OneRunPerKey
  <2> SUFFICES ASSUME FlightInv, NEW o \in Objects, NEW p \in Objects,
                      run[o] = "calling", run[p] = "calling", runKey[o] = runKey[p]
               PROVE  o = p
    BY DEF OneRunPerKey
  <2>1. calls[runKey[o]] = o /\ calls[runKey[p]] = p
    BY DEF FlightInv, MapInv
  <2> QED
    BY <2>1
<1> QED
  BY <1>1, LayerInvariance, PTL

(* Of single.go 50 and 90: the result that Do dereferences is there.       *)
THEOREM ResultIsThere == Spec => []NoNilResult
<1>1. FlightInv => NoNilResult
  BY DEF FlightInv, HolderInv, NoNilResult
<1> QED
  BY <1>1, LayerInvariance, PTL

(* Of function_query.go 57-91: Get answers with something the provider has *)
(* said of the function it was asked for.                                  *)
THEOREM AnswersAreSaid == Spec => []AnswersWereSaid
<1>1. QueryInv => AnswersWereSaid
  BY DEF QueryInv, SaidInv, AnswersWereSaid
<1> QED
  BY <1>1, LayerInvariance, PTL

------------------------------------------------------------------------------
(* Both implement CallSharing *)

LEMMA FlightSharesInitially == FlightInit => Sharing!Init
BY DEF FlightInit, Sharing!Init

(* What the abstract variables stand for. *)
Party(k) == {c \in Callers : at[c] = "waiting" /\ key[c] = k /\ wg[held[c]] # 0}

Given(c) == IF at[c] = "waiting" /\ wg[held[c]] = 0 THEN res[held[c]] ELSE Nil

LEMMA FlightStutters ==
  ASSUME \A c \in Callers : Given(c)' = Given(c), \A k \in Keys : Party(k)' = Party(k)
  PROVE  UNCHANGED Sharing!sharingVars
BY DEF Sharing!sharingVars, Given, Party

LEMMA FlightJoins ==
  ASSUME FlightInv, NEW c \in Callers, NEW j \in Keys, key[c] = j, Follow(c) \/ Lead(c)
  PROVE  Sharing!Join(c, j)
<1> USE DEF FlightInv, FlightTypeOK
<1>1. at[c] = "asking" /\ at' = [at EXCEPT ![c] = "waiting"] /\ UNCHANGED key
  BY DEF Follow, Lead, NewCall, callVars
<1>2. /\ \E o \in Objects : held' = [held EXCEPT ![c] = o] /\ wg'[o] = 1
      /\ \A b \in Callers \ {c} : at[b] = "waiting" =>
           wg'[held[b]] = wg[held[b]] /\ res'[held[b]] = res[held[b]]
  <2>1. CASE Follow(c)
    BY <2>1, FoundIsRunning DEF Follow, callVars
  <2>2. CASE Lead(c)
    <3>1. PICK o \in Objects : Unused(o) /\ NewCall(c, o, 1)
      BY <2>2 DEF Lead, Allocated
    <3>2. \A b \in Callers : held[b] # o /\ (at[b] = "waiting" => held[b] \in Objects)
      BY <3>1 DEF Unused, HolderInv
    <3>3. /\ held' = [held EXCEPT ![c] = o] /\ wg' = [wg EXCEPT ![o] = 1]
          /\ res' = [res EXCEPT ![o] = Nil]
      BY <3>1 DEF NewCall
    <3> QED
      BY <3>2, <3>3
  <2> QED
    BY <2>1, <2>2
<1>3. /\ \A b \in Callers \ {c} : at'[b] = at[b] /\ held'[b] = held[b] /\ key'[b] = key[b]
      /\ at'[c] = "waiting" /\ wg'[held'[c]] = 1 /\ key'[c] = key[c]
  BY <1>1, <1>2
<1>4. \A b \in Callers : Given(b)' = Given(b)
  BY <1>1, <1>2, <1>3 DEF Given
<1>5. \A k \in Keys : Party(k)' = IF k = j THEN Party(k) \cup {c} ELSE Party(k)
  BY <1>1, <1>2, <1>3 DEF Party
<1>6. Given(c) = Nil /\ \A k \in Keys : c \notin Party(k)
  BY <1>1 DEF Given, Party
<1>7. [k \in Keys |-> Party(k)]' = [[k \in Keys |-> Party(k)] EXCEPT ![j] = @ \cup {c}]
  BY <1>5
<1> QED
  BY <1>4, <1>6, <1>7 DEF Sharing!Join, Given, Party

LEMMA FlightLeaves ==
  ASSUME FlightInv, NEW c \in Callers, Return(c)
  PROVE  Sharing!Leave(c)
<1> USE DEF FlightInv, FlightTypeOK, Return, callVars
<1>1. Given(c) # Nil
  BY DEF Given, HolderInv
<1>2. \A b \in Callers : Given(b)' = IF b = c THEN Nil ELSE Given(b)
  BY DEF Given
<1>3. \A k \in Keys : Party(k)' = Party(k)
  BY DEF Party
<1>4. [b \in Callers |-> Given(b)]' = [[b \in Callers |-> Given(b)] EXCEPT ![c] = Nil]
  BY <1>2
<1> HIDE DEF FlightInv, FlightTypeOK, Return, callVars
<1> QED
  BY <1>1, <1>3, <1>4 DEF Sharing!Leave, Given, Party

(* wg.Done gives the result of a call to all its callers. *)
LEMMA FlightFinishes ==
  ASSUME FlightInv, NEW o \in Objects, Wake(o), NEW k \in Keys, k = runKey[o]
  PROVE  /\ Party(k) # {} /\ res[o] # Nil
         /\ \A c \in Callers : Given(c)' = IF c \in Party(k) THEN res[o] ELSE Given(c)
         /\ \A j \in Keys : Party(j)' = IF j = k THEN {} ELSE Party(j)
<1> USE FlightAssumption DEF FlightInv, FlightTypeOK, Wake, callerVars
<1>1. wg[o] = 1 /\ res[o] # Nil /\ wg' = [wg EXCEPT ![o] = 0]
  BY DEF ProgressInv
<1>2. \A c \in Callers : c \in Party(k) <=> held[c] = o
  <2>1. ASSUME NEW c \in Callers, held[c] = o PROVE c \in Party(k)
    BY <1>1, <2>1 DEF HolderInv, Party
  <2>2. ASSUME NEW c \in Party(k) PROVE held[c] = o
    <3>1. c \in Callers /\ at[c] = "waiting" /\ held[c] \in Objects /\ wg[held[c]] # 0
      BY DEF HolderInv, Party
    <3>a. wg[held[c]] = 1 /\ key[c] = k
      BY <3>1 DEF Party
    <3>2. runKey[held[c]] = k /\ run[held[c]] # "none"
      BY <3>1, <3>a DEF HolderInv, ProgressInv
    <3>3. calls[k] = held[c] /\ calls[k] = o
      BY <3>1, <3>2 DEF MapInv
    <3> QED
      BY <3>3
  <2> QED
    BY <2>1, <2>2
<1>3. Party(k) # {}
  <2>1. PICK c \in Callers : held[c] = o
    BY <1>1 DEF HolderInv
  <2> QED
    BY <1>2, <2>1
<1>4. \A c \in Callers : Given(c)' = IF c \in Party(k) THEN res[o] ELSE Given(c)
  BY <1>1, <1>2 DEF Given, HolderInv
<1>5. \A j \in Keys : Party(j)' = IF j = k THEN {} ELSE Party(j)
  BY <1>1, <1>2 DEF Party, HolderInv
<1> QED
  BY <1>1, <1>3, <1>4, <1>5

(* Whoever led a call that panics still waits for it.                      *)
LEMMA FlightCollapses ==
  ASSUME FlightInv, NEW o \in Objects, FPanics(o)
  PROVE  Sharing!Collapse
<1>1. PICK k \in Keys : k = runKey[o]
  BY DEF FlightInv, FlightTypeOK
<1>2. wg[o] = 1
  BY DEF FPanics, FlightInv, ProgressInv
<1>3. PICK c \in Callers : held[c] = o
  BY <1>2 DEF FlightInv, HolderInv
<1>4. at[c] = "waiting" /\ runKey[o] = key[c]
  BY <1>2, <1>3, FlightAssumption DEF FlightInv, HolderInv
<1>5. c \in Party(k)
  BY <1>1, <1>2, <1>3, <1>4 DEF Party
<1>6. [j \in Keys |-> Party(j)][k] # {}
  BY <1>5
<1>7. /\ \A j \in Keys : Party(j)' = {}
      /\ \A b \in Callers : Given(b)' = Nil
  BY DEF FPanics, Party, Given
<1> QED
  BY <1>6, <1>7 DEF Sharing!Collapse, Party, Given

LEMMA FlightShares ==
  FlightInv /\ [FlightNext]_flightVars =>
    [Sharing!Next \/ Sharing!Collapse]_(Sharing!sharingVars)
<1> SUFFICES ASSUME FlightInv, [FlightNext]_flightVars
             PROVE  [Sharing!Next \/ Sharing!Collapse]_(Sharing!sharingVars)
  OBVIOUS
<1> USE DEF FlightInv, FlightTypeOK
<1>1. CASE UNCHANGED flightVars
  BY <1>1, FlightStutters DEF flightVars, callVars, callerVars, Given, Party
<1>2. ASSUME NEW c \in Callers, Ask(c) PROVE UNCHANGED Sharing!sharingVars
  BY <1>2, FlightStutters DEF Ask, callVars, Given, Party
<1>3. ASSUME NEW c \in Callers, Follow(c) \/ Lead(c) PROVE Sharing!Next
  <2>1. PICK j \in Keys : j = key[c]
    OBVIOUS
  <2>2. Sharing!Join(c, j)
    BY <1>3, <2>1, FlightJoins
  <2> QED
    BY <2>2 DEF Sharing!Next
<1>4. ASSUME NEW c \in Callers, Return(c) PROVE Sharing!Next
  BY <1>4, FlightLeaves DEF Sharing!Next
<1>5. ASSUME NEW o \in Objects, FReturns(o) \/ StoreResult(o) \/ Forget(o)
      PROVE  UNCHANGED Sharing!sharingVars
  <2>1. CASE FReturns(o) \/ Forget(o)
    BY <2>1, FlightStutters DEF FReturns, Forget, callerVars, Given, Party
  <2>2. CASE StoreResult(o)
    <3>1. wg[o] = 1 /\ res' = [res EXCEPT ![o] = value[o]] /\ UNCHANGED <<wg, callerVars>>
      BY <2>2 DEF StoreResult, ProgressInv
    <3> QED
      BY <3>1, FlightStutters DEF callerVars, Given, Party
  <2> QED
    BY <1>5, <2>1, <2>2
<1>6. ASSUME NEW o \in Objects, FPanics(o) PROVE Sharing!Collapse
  BY <1>6, FlightCollapses
<1>7. ASSUME NEW o \in Objects, Wake(o) PROVE Sharing!Next
  <2> DEFINE given == [c \in Callers |-> Given(c)]
             party == [j \in Keys |-> Party(j)]
  <2>1. PICK k \in Keys : k = runKey[o]
    OBVIOUS
  <2>2. /\ Party(k) # {} /\ res[o] # Nil
        /\ \A c \in Callers : Given(c)' = IF c \in Party(k) THEN res[o] ELSE Given(c)
        /\ \A j \in Keys : Party(j)' = IF j = k THEN {} ELSE Party(j)
    BY <1>7, <2>1, FlightFinishes
  <2>3. PICK c \in Callers : c \in party[k]
    BY <2>2 DEF Party
  <2>4. given' = [b \in Callers |-> IF b \in party[k] THEN given'[c] ELSE given[b]]
    BY <2>2, <2>3
  <2>5. party' = [party EXCEPT ![k] = {}] /\ party[k] # {} /\ given'[c] # Nil
    BY <2>2, <2>3
  <2> QED
    BY <2>3, <2>4, <2>5 DEF Sharing!Next, Sharing!Finish, Given, Party
<1> QED
  BY <1>1, <1>2, <1>3, <1>4, <1>5, <1>6, <1>7 DEF FlightNext, Do, Goroutine

(* Of single.go: SingleFlight is a single-flight group, but for a panic of *)
(* f, which ends the process while some caller waits for that call.        *)
THEOREM FlightImplementsSharing == Spec => SharesCalls
<1>1. Init => Sharing!Init
  BY FlightSharesInitially DEF Init
<1>2. (FlightInv /\ QueryInv) /\ [Next]_layerVars =>
        [Sharing!Next \/ Sharing!Collapse]_(Sharing!sharingVars)
  BY LayerSteps, FlightShares
<1> QED
  BY <1>1, <1>2, LayerInvariance, PTL DEF Spec, SharesCalls, Sharing!FallibleSpec

LEMMA QuerySharesInitially == QueryInit => QuerySharing!Init
BY DEF QueryInit, QuerySharing!Init, Sharers

Told(c) == IF stage[c] = "ended" THEN got[c] ELSE Zero

LEMMA QueryStutters ==
  ASSUME \A c \in Clients : Told(c)' = Told(c),
         \A f \in Queried : Sharers(f)' = Sharers(f)
  PROVE  UNCHANGED QuerySharing!sharingVars
BY DEF QuerySharing!sharingVars, Told

LEMMA QueryJoins ==
  ASSUME QueryInv, NEW c \in Clients, NEW f \in Queried, f = wants[c],
         LeadQuery(c) \/ FollowQuery(c)
  PROVE  QuerySharing!Join(c, f)
<1> USE DEF QueryInv, QueryTypeOK, LeadQuery, FollowQuery, Step
<1>1. Told(c) = Zero /\ \A g \in Queried : c \notin Sharers(g)
  BY DEF Told, Sharers
<1>2. \A b \in Clients : Told(b)' = Told(b)
  BY DEF Told
<1>3. \A g \in Queried : Sharers(g)' = IF g = f THEN Sharers(g) \cup {c} ELSE Sharers(g)
  BY DEF Sharers
<1>4. [g \in Queried |-> Sharers(g)]' =
        [[g \in Queried |-> Sharers(g)] EXCEPT ![f] = @ \cup {c}]
  BY <1>3
<1> HIDE DEF QueryInv, QueryTypeOK, LeadQuery, FollowQuery, Step
<1> QED
  BY <1>1, <1>2, <1>4 DEF QuerySharing!Join, Told

LEMMA QueryLeaves ==
  ASSUME QueryInv, NEW c \in Clients, QueryRefused(c) \/ Fill(c)
  PROVE  QuerySharing!Leave(c)
<1> USE QueryAssumption DEF QueryInv, QueryTypeOK, QueryRefused, Fill, Step
<1>1. Told(c) # Zero
  <2>1. stage[c] = "ended" /\ wants[c] \in Queried
    OBVIOUS
  <2>2. got[c] \in said[wants[c]] \cup {Failed}
    BY <2>1 DEF SaidInv
  <2> QED
    BY <2>1, <2>2 DEF Told
<1>2. \A b \in Clients : Told(b)' = IF b = c THEN Zero ELSE Told(b)
  BY DEF Told
<1>3. \A f \in Queried : Sharers(f)' = Sharers(f)
  BY DEF Sharers
<1>4. [b \in Clients |-> Told(b)]' = [[b \in Clients |-> Told(b)] EXCEPT ![c] = Zero]
  BY <1>2
<1> HIDE DEF QueryInv, QueryTypeOK, QueryRefused, Fill, Step
<1> QED
  BY <1>1, <1>3, <1>4 DEF QuerySharing!Leave, Told

LEMMA QueryFinishes ==
  ASSUME QueryInv, NEW f \in Queried, EndCall(f)
  PROVE  QuerySharing!Next
<1> USE DEF QueryInv, QueryTypeOK
<1> DEFINE told == [c \in Clients |-> Told(c)]
           sharers == [g \in Queried |-> Sharers(g)]
<1>1. /\ \A c \in Clients : Told(c)' = IF c \in Sharers(f) THEN group[f].reply ELSE Told(c)
      /\ \A g \in Queried : Sharers(g)' = IF g = f THEN {} ELSE Sharers(g)
  BY DEF EndCall, Told, Sharers
<1>2. group[f].reply # Zero /\ Sharers(f) # {}
  BY QueryAssumption DEF EndCall, WaitedInv
<1>3. PICK c \in Clients : c \in sharers[f]
  BY <1>2 DEF Sharers
<1>4. told' = [b \in Clients |-> IF b \in sharers[f] THEN told'[c] ELSE told[b]]
  BY <1>1, <1>3
<1>5. sharers' = [sharers EXCEPT ![f] = {}] /\ sharers[f] # {} /\ told'[c] # Zero
  BY <1>1, <1>2, <1>3
<1> HIDE DEF QueryInv, QueryTypeOK
<1> QED
  BY <1>3, <1>4, <1>5 DEF QuerySharing!Next, QuerySharing!Finish, Told

LEMMA QueryShares ==
  QueryInv /\ [QueryNext]_queryVars => [QuerySharing!Next]_(QuerySharing!sharingVars)
<1> SUFFICES ASSUME QueryInv, [QueryNext]_queryVars
             PROVE  [QuerySharing!Next]_(QuerySharing!sharingVars)
  OBVIOUS
<1> USE DEF QueryInv, QueryTypeOK
<1>1. CASE UNCHANGED queryVars
  BY <1>1, QueryStutters DEF queryVars, clientVars, Told, Sharers
<1>2. ASSUME NEW c \in Clients, LeadQuery(c) \/ FollowQuery(c) PROVE QuerySharing!Next
  <2>1. PICK f \in Queried : f = wants[c]
    OBVIOUS
  <2>2. QuerySharing!Join(c, f)
    BY <1>2, <2>1, QueryJoins
  <2> QED
    BY <2>2 DEF QuerySharing!Next
<1>3. ASSUME NEW c \in Clients, QueryRefused(c) \/ Fill(c) PROVE QuerySharing!Next
  BY <1>3, QueryLeaves DEF QuerySharing!Next
<1>4. ASSUME NEW c \in Clients,
             Look(c) \/ Hit(c) \/ Miss(c) \/ Recheck(c) \/ RecheckMissed(c) \/ Finished(c)
      PROVE  UNCHANGED QuerySharing!sharingVars
  BY <1>4, QueryStutters
     DEF Look, Hit, Miss, Recheck, RecheckMissed, Finished, Step, Told, Sharers
<1>5. ASSUME NEW f \in Queried,
             ProviderAnswers(f) \/ QueryLost(f) \/ EntryExpires(f) \/ FunctionChanges(f)
      PROVE  UNCHANGED QuerySharing!sharingVars
  BY <1>5, QueryStutters
     DEF ProviderAnswers, QueryLost, EntryExpires, FunctionChanges, clientVars, Told, Sharers
<1>6. ASSUME NEW f \in Queried, EndCall(f) PROVE QuerySharing!Next
  BY <1>6, QueryFinishes
<1> QED
  BY <1>1, <1>2, <1>3, <1>4, <1>5, <1>6 DEF QueryNext, Get, SharedQuery

(* Of function_query.go: the group of x/sync, as Get uses it, is a         *)
(* single-flight group.                                                    *)
THEOREM QueriesImplementSharing == Spec => SharesQueries
<1>1. Init => QuerySharing!Init
  BY QuerySharesInitially DEF Init
<1>2. (FlightInv /\ QueryInv) /\ [Next]_layerVars
        => [QuerySharing!Next]_(QuerySharing!sharingVars)
  BY LayerSteps, QueryShares
<1> QED
  BY <1>1, <1>2, LayerInvariance, PTL DEF Spec, SharesQueries, QuerySharing!Spec
=============================================================================
