--------------------------- MODULE FunctionScaler ---------------------------
(***************************************************************************)
(* Scale from zero: MakeScalingHandler (handlers/scaling.go) runs          *)
(* FunctionScaler.Scale (scaling/function_scaler.go) before it forwards a  *)
(* request.  Concurrent requests share the replica cache and the           *)
(* single-flight group; each request is one goroutine.                     *)
(*                                                                         *)
(* stage[r] is where request r is in Scale:                                *)
(*   lookup  line 48, the cache       first  line 60, the first query      *)
(*   retry   line 105, a retry's query   set  line 125, its SetReplicas    *)
(*   poll    line 156, waiting for a replica   done  answered              *)
(* and step[r] where it is in the call that stage makes: about to call     *)
(* singleflight.Do, waiting in it, or holding what it returned.            *)
(*                                                                         *)
(* Time is abstracted: a cache entry may expire at any moment, and sleeps  *)
(* take no step.                                                           *)
(***************************************************************************)
EXTENDS Provider

CONSTANTS
  Requests,
  MaxPollCount,      \* ScalingConfig, main.go
  SetScaleRetries

ASSUME ScalerAssumption ==
  /\ MaxPollCount \in Nat \ {0}
  /\ SetScaleRetries \in Nat \ {0}

VARIABLES
  stage, step,
  target,      \* the function a request is for
  tries,       \* Retry's attempt, then the poll loop's i
  floor,       \* minReplicas, captured from the first reading
  got,         \* the response a query returned to the request
  answer,      \* what the handler did with the request
  cache,       \* FunctionCache: cached AvailableReplicas, or NotCached
  getCall,     \* single-flight slot of key GetReplicas-f
  setCall      \* single-flight slot of key SetReplicas-f

requestVars == <<stage, step, target, tries, floor, got, answer>>
flightVars  == <<getCall, setCall>>
vars == <<providerVars, requestVars, cache, flightVars>>

NotCached == -1

Stages   == {"idle", "lookup", "first", "retry", "set", "poll", "done"}
Queries  == {"first", "retry", "poll"}
Outcomes == {"accepted", "refused", "broken"}
Steps    == {"call", "wait", "got"} \cup Outcomes
Answers  == {"none", "forwarded", "notFound", "failed", "aborted", "silent"}

GetSlot == [at : {"free", "sent", "answered"}, reply : Response]
SetSlot == [at : {"free", "sent", "answered"}, count : Nat, outcome : Outcomes]

FreeGet == [at |-> "free", reply |-> EmptyResponse]
FreeSet == [at |-> "free", count |-> 0, outcome |-> "refused"]

ScalerTypes ==
  /\ ProviderTypeOK
  /\ stage \in [Requests -> Stages]
  /\ step \in [Requests -> Steps]
  /\ target \in [Requests -> Functions]
  /\ tries \in [Requests -> Nat]
  /\ floor \in [Requests -> Nat]
  /\ got \in [Requests -> Response]
  /\ answer \in [Requests -> Answers]
  /\ cache \in [Functions -> Nat \cup {NotCached}]
  /\ getCall \in [Functions -> GetSlot]
  /\ setCall \in [Functions -> SetSlot]

(* Each loop starts from zero and keeps to its own limit: a counter that   *)
(* has reached it belongs to a request that is about to find out, and that *)
(* makes no further call (retry.go 24, function_scaler.go 154).            *)
LoopsWithinLimits ==
  \A r \in Requests :
    /\ stage[r] \in {"lookup", "first"} => tries[r] = 0
    /\ stage[r] = "retry" => tries[r] <= SetScaleRetries
    /\ stage[r] = "poll" => tries[r] <= MaxPollCount
    /\ stage[r] = "retry" /\ step[r] # "call" => tries[r] < SetScaleRetries
    /\ stage[r] = "poll" /\ step[r] # "call" => tries[r] < MaxPollCount
    /\ stage[r] = "set" => tries[r] < SetScaleRetries

(* The types, loop counters included: those of the retry loop and of the   *)
(* poll loop each by the limit of that loop.                               *)
TypeOK == ScalerTypes /\ LoopsWithinLimits

Init ==
  /\ ProviderInit
  /\ stage = [r \in Requests |-> "idle"]
  /\ step = [r \in Requests |-> "call"]
  /\ target \in [Requests -> Functions]
  /\ tries = [r \in Requests |-> 0]
  /\ floor = [r \in Requests |-> 0]
  /\ got = [r \in Requests |-> EmptyResponse]
  /\ answer = [r \in Requests |-> "none"]
  /\ cache = [f \in Functions |-> NotCached]
  /\ getCall = [f \in Functions |-> FreeGet]
  /\ setCall = [f \in Functions |-> FreeSet]

------------------------------------------------------------------------------
(* Moves of one request: none of them touches the provider or a slot. *)

(* On to a stage whose first act is a single-flight call. *)
Enter(r, s, n) ==
  /\ stage' = [stage EXCEPT ![r] = s]
  /\ step' = [step EXCEPT ![r] = "call"]
  /\ got' = [got EXCEPT ![r] = EmptyResponse]
  /\ tries' = [tries EXCEPT ![r] = n]
  /\ UNCHANGED <<providerVars, flightVars>>

Finish(r, what) ==
  /\ Enter(r, "done", tries[r])
  /\ answer' = [answer EXCEPT ![r] = what]
  /\ UNCHANGED <<target, floor>>

(* What MakeScalingHandler does with a FunctionScaleResult. *)
HandlerAnswer(found, err, isAvailable) ==
  IF ~found THEN "notFound"
  ELSE IF err THEN "failed"
  ELSE IF isAvailable THEN "forwarded" ELSE "silent"

Return(r, found, err, isAvailable) ==
  Finish(r, HandlerAnswer(found, err, isAvailable))

(* Caches the desired replicas. *)
CacheSetReplicas(r) == cache' = [cache EXCEPT ![target[r]] = got[r].replicas]

CacheSet(r) == cache' = [cache EXCEPT ![target[r]] = got[r].available]

(* r holds the response of its stage's query; a good one. *)
Holds(r, s) == stage[r] = s /\ step[r] = "got"
Read(r, s)  == Holds(r, s) /\ ~got[r].err

------------------------------------------------------------------------------
(* Arrival and the cache *)

Arrive(r) ==
  /\ stage[r] = "idle"
  /\ \E f \in Functions : target' = [target EXCEPT ![r] = f]
  /\ Enter(r, "lookup", 0)
  /\ UNCHANGED <<floor, answer, cache>>

(* Any live entry is a hit. *)
CacheHitAnyEntry(r) ==
  /\ stage[r] = "lookup"
  /\ cache[target[r]] # NotCached
  /\ Return(r, TRUE, FALSE, TRUE)
  /\ UNCHANGED cache

CacheHit(r) ==
  /\ stage[r] = "lookup"
  /\ cache[target[r]] > 0
  /\ Return(r, TRUE, FALSE, TRUE)
  /\ UNCHANGED cache

CacheMiss(r) ==
  /\ stage[r] = "lookup"
  /\ cache[target[r]] <= 0
  /\ Enter(r, "first", 0)
  /\ UNCHANGED <<target, floor, answer, cache>>

(* FunctionMeta.Expired becomes true of the entry. *)
Expire(f) ==
  /\ cache[f] # NotCached
  /\ cache' = [cache EXCEPT ![f] = NotCached]
  /\ UNCHANGED <<providerVars, requestVars, flightVars>>

(* The client has its answer; the goroutine is gone. *)
Leave(r) ==
  /\ stage[r] = "done"
  /\ Enter(r, "idle", 0)
  /\ answer' = [answer EXCEPT ![r] = "none"]
  /\ floor' = [floor EXCEPT ![r] = 0]
  /\ UNCHANGED <<target, cache>>

------------------------------------------------------------------------------
(* singleflight.Group.Do with key GetReplicas-f *)

Wait(r) ==
  /\ step' = [step EXCEPT ![r] = "wait"]
  /\ UNCHANGED <<providerVars, stage, target, tries, floor, got, answer, cache>>

(* A loop condition of i <= limit. *)
AboutToQueryOnceMore(r) ==
  /\ stage[r] \in Queries
  /\ step[r] = "call"
  /\ ~(stage[r] = "retry" /\ tries[r] > SetScaleRetries)
  /\ ~(stage[r] = "poll" /\ tries[r] > MaxPollCount)

AboutToQuery(r) ==
  /\ stage[r] \in Queries
  /\ step[r] = "call"
  /\ ~(stage[r] = "retry" /\ tries[r] = SetScaleRetries)
  /\ ~(stage[r] = "poll" /\ tries[r] = MaxPollCount)

LeadGet(r) ==
  /\ AboutToQuery(r)
  /\ getCall[target[r]].at = "free"
  /\ getCall' = [getCall EXCEPT ![target[r]] = [at |-> "sent", reply |-> EmptyResponse]]
  /\ Wait(r)
  /\ UNCHANGED setCall

FollowGet(r) ==
  /\ AboutToQuery(r)
  /\ getCall[target[r]].at # "free"
  /\ Wait(r)
  /\ UNCHANGED flightVars

AnswerGet(f) ==
  /\ getCall[f].at = "sent"
  /\ getCall' = [getCall EXCEPT ![f] = [at |-> "answered", reply |-> GetReplicas(f)]]
  /\ UNCHANGED <<providerVars, requestVars, cache, setCall>>

(* The request, or its response, is lost; or the provider is in error. *)
DropGet(f) ==
  /\ getCall[f].at = "sent"
  /\ getCall' = [getCall EXCEPT ![f] = [at |-> "answered", reply |-> EmptyResponse]]
  /\ UNCHANGED <<providerVars, requestVars, cache, setCall>>

GetWaiters(f) == {r \in Requests : stage[r] \in Queries /\ step[r] = "wait" /\ target[r] = f}

(* doCall, 150-180: every waiter gets the value and the key is deleted. *)
ReturnGetToLeaderOnly(f) ==
  /\ getCall[f].at = "answered"
  /\ \E r \in GetWaiters(f) :
       /\ step' = [step EXCEPT ![r] = "got"]
       /\ got' = [got EXCEPT ![r] = getCall[f].reply]
  /\ getCall' = [getCall EXCEPT ![f] = FreeGet]
  /\ UNCHANGED <<providerVars, stage, target, tries, floor, answer, cache, setCall>>

ReturnGet(f) ==
  /\ getCall[f].at = "answered"
  /\ step' = [r \in Requests |-> IF r \in GetWaiters(f) THEN "got" ELSE step[r]]
  /\ got' = [r \in Requests |-> IF r \in GetWaiters(f) THEN getCall[f].reply ELSE got[r]]
  /\ getCall' = [getCall EXCEPT ![f] = FreeGet]
  /\ UNCHANGED <<providerVars, stage, target, tries, floor, answer, cache, setCall>>

------------------------------------------------------------------------------
(* The first reading, lines 64-100 *)

FirstFailed(r) ==
  /\ Holds(r, "first")
  /\ got[r].err
  /\ Return(r, FALSE, TRUE, FALSE)
  /\ UNCHANGED cache

FirstReady(r) ==
  /\ Read(r, "first")
  /\ got[r].available > 0
  /\ Return(r, TRUE, FALSE, TRUE)
  /\ UNCHANGED cache

FirstStarting(r) ==
  /\ Read(r, "first")
  /\ got[r].available = 0
  /\ got[r].replicas > 0
  /\ CacheSet(r)
  /\ Enter(r, "poll", 0)
  /\ UNCHANGED <<target, floor, answer>>

FirstZero(r) ==
  /\ Read(r, "first")
  /\ got[r].available = 0
  /\ got[r].replicas = 0
  /\ CacheSet(r)
  /\ floor' = [floor EXCEPT ![r] = ScaleFromZeroTarget(got[r].min)]
  /\ Enter(r, "retry", 0)
  /\ UNCHANGED <<target, answer>>

------------------------------------------------------------------------------
(* The retry loop, lines 103-149 and types.Retry *)

RetryFailed(r) ==
  /\ Holds(r, "retry")
  /\ got[r].err
  /\ Enter(r, "retry", tries[r] + 1)
  /\ UNCHANGED <<target, floor, answer, cache>>

RetryScaled(r) ==
  /\ Read(r, "retry")
  /\ got[r].replicas > 0
  /\ CacheSet(r)
  /\ Enter(r, "poll", 0)
  /\ UNCHANGED <<target, floor, answer>>

RetryStillZero(r) ==
  /\ Read(r, "retry")
  /\ got[r].replicas = 0
  /\ CacheSet(r)
  /\ Enter(r, "set", tries[r])
  /\ UNCHANGED <<target, floor, answer>>

RetriesExhausted(r) ==
  /\ stage[r] = "retry"
  /\ step[r] = "call"
  /\ tries[r] = SetScaleRetries
  /\ Return(r, TRUE, TRUE, FALSE)
  /\ UNCHANGED cache

------------------------------------------------------------------------------
(* SetReplicas, through singleflight.Group.Do with key SetReplicas-f *)

LeadSet(r) ==
  /\ stage[r] = "set"
  /\ step[r] = "call"
  /\ setCall[target[r]].at = "free"
  /\ setCall' = [setCall EXCEPT ![target[r]] =
                    [at |-> "sent", count |-> floor[r], outcome |-> "refused"]]
  /\ Wait(r)
  /\ UNCHANGED getCall

FollowSet(r) ==
  /\ stage[r] = "set"
  /\ step[r] = "call"
  /\ setCall[target[r]].at # "free"
  /\ Wait(r)
  /\ UNCHANGED flightVars

SettleSet(f, outcome) ==
  /\ setCall[f].at = "sent"
  /\ setCall' = [setCall EXCEPT ![f] =
                    [at |-> "answered", count |-> setCall[f].count, outcome |-> outcome]]
  /\ UNCHANGED <<requestVars, cache, getCall>>

AcceptSet(f) == ApplyScale(f, setCall[f].count) /\ SettleSet(f, "accepted")

(* Nothing is known of the effect of a call that was not accepted. *)
PerhapsScaled(f) == UNCHANGED providerVars \/ ApplyScale(f, setCall[f].count)

(* Any status but 200 and 202: external.go 201-203. *)
RefuseSet(f) == PerhapsScaled(f) /\ SettleSet(f, "refused")

(* The connection fails before the response: res is nil and line 201 of    *)
(* external.go panics.                                                     *)
BreakSet(f) == PerhapsScaled(f) /\ SettleSet(f, "broken")

SetWaiters(f) == {r \in Requests : stage[r] = "set" /\ step[r] = "wait" /\ target[r] = f}

(* A panic that leaves the key in the group's map. *)
ReturnSetUnlessBroken(f) ==
  /\ setCall[f].at = "answered"
  /\ setCall[f].outcome # "broken"
  /\ step' = [r \in Requests |-> IF r \in SetWaiters(f) THEN setCall[f].outcome ELSE step[r]]
  /\ setCall' = [setCall EXCEPT ![f] = FreeSet]
  /\ UNCHANGED <<providerVars, stage, target, tries, floor, got, answer, cache, getCall>>

ReturnSet(f) ==
  /\ setCall[f].at = "answered"
  /\ step' = [r \in Requests |-> IF r \in SetWaiters(f) THEN setCall[f].outcome ELSE step[r]]
  /\ setCall' = [setCall EXCEPT ![f] = FreeSet]
  /\ UNCHANGED <<providerVars, stage, target, tries, floor, got, answer, cache, getCall>>

SetAccepted(r) ==
  /\ stage[r] = "set"
  /\ step[r] = "accepted"
  /\ Enter(r, "poll", 0)
  /\ UNCHANGED <<target, floor, answer, cache>>

SetRefused(r) ==
  /\ stage[r] = "set"
  /\ step[r] = "refused"
  /\ Enter(r, "retry", tries[r] + 1)
  /\ UNCHANGED <<target, floor, answer, cache>>

(* The panic is raised again in the leader and in every follower; net/http *)
(* recovers it and drops the connection.                                   *)
SetPanicked(r) ==
  /\ stage[r] = "set"
  /\ step[r] = "broken"
  /\ Finish(r, "aborted")
  /\ UNCHANGED cache

------------------------------------------------------------------------------
(* The poll loop, lines 154-196 *)

PollFailed(r) ==
  /\ Holds(r, "poll")
  /\ got[r].err
  /\ Return(r, TRUE, TRUE, FALSE)
  /\ UNCHANGED cache

(* Takes desired replicas for available ones. *)
PollReadyOnReplicas(r) ==
  /\ Read(r, "poll")
  /\ got[r].replicas > 0
  /\ CacheSet(r)
  /\ Return(r, TRUE, FALSE, TRUE)

PollReady(r) ==
  /\ Read(r, "poll")
  /\ got[r].available > 0
  /\ CacheSet(r)
  /\ Return(r, TRUE, FALSE, TRUE)

PollAgain(r) ==
  /\ Read(r, "poll")
  /\ got[r].available = 0
  /\ CacheSet(r)
  /\ Enter(r, "poll", tries[r] + 1)
  /\ UNCHANGED <<target, floor, answer>>

PollsExhausted(r) ==
  /\ stage[r] = "poll"
  /\ step[r] = "call"
  /\ tries[r] = MaxPollCount
  /\ Return(r, TRUE, FALSE, TRUE)
  /\ UNCHANGED cache

------------------------------------------------------------------------------
(* The goroutine that serves request r, once it has arrived. *)
Serve(r) ==
  \/ CacheHit(r) \/ CacheMiss(r)
  \/ LeadGet(r) \/ FollowGet(r)
  \/ FirstFailed(r) \/ FirstReady(r) \/ FirstStarting(r) \/ FirstZero(r)
  \/ RetryFailed(r) \/ RetryScaled(r) \/ RetryStillZero(r) \/ RetriesExhausted(r)
  \/ LeadSet(r) \/ FollowSet(r) \/ SetAccepted(r) \/ SetRefused(r) \/ SetPanicked(r)
  \/ PollFailed(r) \/ PollReady(r) \/ PollAgain(r) \/ PollsExhausted(r)

ScalerOnly == UNCHANGED <<requestVars, cache, flightVars>>

(* Calls in progress, without faults and with them. *)
GetCall(f) == AnswerGet(f) \/ ReturnGet(f)
SetCall(f) == AcceptSet(f) \/ ReturnSet(f)
Fault(f)   == DropGet(f) \/ RefuseSet(f) \/ BreakSet(f)

(* No faults, and the scaler is the only writer: a replica that is asked   *)
(* for may still take any time to start.                                   *)
CalmNext ==
  \/ \E r \in Requests : Arrive(r) \/ Serve(r) \/ Leave(r)
  \/ \E f \in Functions : Expire(f) \/ GetCall(f) \/ SetCall(f)
  \/ \E f \in Functions : PodReady(f) /\ ScalerOnly

(* Calls fail and replicas crash; nobody else changes the functions. *)
UnattendedNext ==
  \/ CalmNext
  \/ \E f \in Functions : Fault(f)
  \/ \E f \in Functions : PodGone(f) /\ ScalerOnly

Next ==
  \/ UnattendedNext
  \/ \E f \in Functions : Operator(f) /\ ScalerOnly

(* Goroutines are scheduled, and every call to the provider ends, one way  *)
(* or the other: ProxyClient has no response timeout, so that is a promise *)
(* of the provider's.                                                      *)
Fairness ==
  /\ \A r \in Requests : WF_vars(Serve(r))
  /\ \A f \in Functions :
       /\ WF_vars(GetCall(f) \/ DropGet(f))
       /\ WF_vars(SetCall(f) \/ RefuseSet(f) \/ BreakSet(f))

Spec     == Init /\ [][Next]_vars
FairSpec == Spec /\ Fairness
CalmSpec == Init /\ [][CalmNext]_vars /\ Fairness

------------------------------------------------------------------------------
(* Properties *)

(* A request that is forwarded before the poll loop runs out is forwarded  *)
(* to a function that has had an available replica: neither the cache nor  *)
(* a response shared by the single-flight group ever invents one.          *)
ForwardedWasReady ==
  \A r \in Requests :
    answer[r] = "forwarded" /\ tries[r] < MaxPollCount => target[r] \in seenReady

(* A single-flight slot is in use exactly while some request waits for it: *)
(* no request waits for a call nobody makes, and no finished call keeps    *)
(* its key (singleflight.go 150-180), even when SetReplicas panics.        *)
NoOrphanedCall ==
  \A f \in Functions :
    /\ getCall[f].at # "free" <=> GetWaiters(f) # {}
    /\ setCall[f].at # "free" <=> SetWaiters(f) # {}

(* Every SetReplicas call of scale from zero asks for a replica, whoever   *)
(* leads it and however long ago it read the minimum it asks for           *)
(* (function_scaler.go 95-99 and 125): joining one never leaves a function *)
(* at zero.                                                                *)
AsksForReplicas ==
  \A f \in Functions : setCall[f].at # "free" => setCall[f].count > 0

(* The queries of all requests, in every stage, share their calls as       *)
(* CallSharing has it: all who have joined a call are given its reply, and *)
(* nobody else.                                                            *)
QuerySharing == INSTANCE CallSharing WITH
  Callers <- Requests,
  Keys <- Functions,
  NoResult <- <<>>,
  party <- [f \in Functions |-> GetWaiters(f)],
  result <- [r \in Requests |-> IF step[r] = "got" THEN <<got[r]>> ELSE <<>>]

SharesQueries == QuerySharing!Spec

(* When no call fails and nobody else scales, every answered request was   *)
(* forwarded, and unless the poll loop ran out its function is available.  *)
CalmForwardsToReady ==
  \A r \in Requests :
    stage[r] = "done" =>
      /\ answer[r] = "forwarded"
      /\ tries[r] < MaxPollCount => available[target[r]] > 0

(* Every request is answered, whatever fails, however many others share    *)
(* its calls, and whether or not the function ever starts.                 *)
EveryRequestAnswered ==
  \A r \in Requests : stage[r] = "lookup" ~> stage[r] = "done"

(* When nothing fails, a request for a function at zero gets it scaled.    *)
ScaledFromZero ==
  \A r \in Requests, f \in Functions :
    stage[r] = "lookup" /\ target[r] = f ~> replicas[f] > 0

(* Scale implements the promise of ScaleGate. *)
Gate == INSTANCE ScaleGate WITH
  ready <- seenReady,
  wants <- target,
  outcome <- [r \in Requests |->
    CASE stage[r] = "idle" -> "absent"
      [] stage[r] = "done" ->
           IF answer[r] = "forwarded"
           THEN IF tries[r] < MaxPollCount THEN "admitted" ELSE "gaveUp"
           ELSE answer[r]
      [] OTHER -> "pending"]

KeepsPromise == Gate!Spec

(* scaling.go 19: a function that is not ready in time is an error to the  *)
(* client.  The code forwards (function_scaler.go 191-196).                *)
ForwardedOnlyIfReady ==
  \A r \in Requests : answer[r] = "forwarded" => target[r] \in seenReady
=============================================================================
