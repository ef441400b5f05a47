----------------------- MODULE FunctionScaler_proofs ------------------------
(***************************************************************************)
(* Type correctness and the safety properties of FunctionScaler, for any   *)
(* set of requests and functions and any loop limits, and the abstract     *)
(* specifications that it implements: CallSharing, and ScaleGate but for   *)
(* its fairness.                                                           *)
(***************************************************************************)
EXTENDS FunctionScaler, TLAPS

(* Evidence of an available replica, wherever it is kept, is true.         *)
EvidenceInv ==
  /\ \A f \in Functions :
       /\ available[f] > 0 => f \in seenReady
       /\ cache[f] > 0 => f \in seenReady
       /\ getCall[f].reply.available > 0 => f \in seenReady
  /\ \A r \in Requests :
       /\ got[r].available > 0 => target[r] \in seenReady
       /\ answer[r] # "none" => stage[r] = "done"

(* What a request will ask for has been settled before it can ask.         *)
FloorInv ==
  /\ \A r \in Requests : stage[r] \in {"retry", "set"} => floor[r] > 0
  /\ AsksForReplicas

------------------------------------------------------------------------------
(* The provider: its responses, and its own steps *)

(* What a query returns has the type of a response. *)
LEMMA GetReplicasType ==
  ASSUME ProviderTypeOK, NEW f \in Functions
  PROVE  GetReplicas(f) \in Response
<1>1. labels[f] \in Labels
  BY ProviderAssumption DEF ProviderTypeOK
<1>2. /\ MinReplicasOf(labels[f]) \in Nat
      /\ MaxReplicasOf(labels[f]) \in Nat
      /\ ScalingFactorOf(labels[f]) \in Nat
  BY <1>1, RulesAssumption
     DEF Labels, RawLabel, ExtractLabelValue, MinReplicasOf, MaxReplicasOf,
         ScalingFactorOf
<1>3. replicas[f] \in Nat /\ available[f] \in Nat
  BY DEF ProviderTypeOK
<1> QED
  BY <1>2, <1>3 DEF GetReplicas, EmptyResponse, Response

LEMMA EmptyResponseType == EmptyResponse \in Response
BY DEF EmptyResponse, Response

(* What the provider does by itself, or is told by others. *)
LEMMA OperatorType ==
  ASSUME ProviderTypeOK, NEW f \in Functions,
         PodReady(f) \/ PodGone(f) \/ Operator(f)
  PROVE  ProviderTypeOK'
<1> USE DEF ProviderTypeOK
<1>1. CASE PodGone(f)
  <2>1. available[f] \in Nat /\ available[f] > 0
    BY <1>1 DEF PodGone
  <2>2. available[f] - 1 \in Nat
    BY <2>1
  <2> QED
    BY <1>1, <2>2 DEF PodGone
<1>2. CASE PodReady(f) \/ Operator(f)
  BY <1>2 DEF PodReady, Operator, Deploy, Delete, Relabel, ScaledToZero, ApplyScale
<1> QED
  BY <1>1, <1>2

LEMMA ApplyType ==
  ASSUME ProviderTypeOK, NEW f, NEW n \in Nat, ApplyScale(f, n)
  PROVE  ProviderTypeOK'
BY DEF ProviderTypeOK, ApplyScale

------------------------------------------------------------------------------
(* Helpers *)

(* The part of ScalerTypes a request's own step can disturb. *)
RequestTypeOK ==
  /\ stage \in [Requests -> Stages]
  /\ step \in [Requests -> Steps]
  /\ target \in [Requests -> Functions]
  /\ tries \in [Requests -> Nat]
  /\ floor \in [Requests -> Nat]
  /\ got \in [Requests -> Response]
  /\ answer \in [Requests -> Answers]

SlotTypeOK ==
  /\ getCall \in [Functions -> GetSlot]
  /\ setCall \in [Functions -> SetSlot]

LEMMA EnterType ==
  ASSUME ScalerTypes, NEW r \in Requests, NEW s \in Stages, NEW n \in Nat,
         Enter(r, s, n)
  PROVE  /\ stage' \in [Requests -> Stages]
         /\ step' \in [Requests -> Steps]
         /\ got' \in [Requests -> Response]
         /\ tries' \in [Requests -> Nat]
         /\ ProviderTypeOK'
         /\ SlotTypeOK'
<1>1. ProviderTypeOK'
  BY DEF ScalerTypes, Enter, ProviderTypeOK, providerVars
<1>2. SlotTypeOK'
  BY DEF ScalerTypes, Enter, SlotTypeOK, flightVars
<1> QED
  BY <1>1, <1>2, EmptyResponseType DEF ScalerTypes, Enter, Steps

LEMMA FinishType ==
  ASSUME ScalerTypes, NEW r \in Requests, NEW what \in Answers, Finish(r, what)
  PROVE  RequestTypeOK' /\ ProviderTypeOK' /\ SlotTypeOK'
<1>1. Enter(r, "done", tries[r]) /\ "done" \in Stages /\ tries[r] \in Nat
  BY DEF Finish, ScalerTypes, Stages
<1>2. /\ stage' \in [Requests -> Stages]
      /\ step' \in [Requests -> Steps]
      /\ got' \in [Requests -> Response]
      /\ tries' \in [Requests -> Nat]
      /\ ProviderTypeOK'
      /\ SlotTypeOK'
  BY <1>1, EnterType
<1> QED
  BY <1>2 DEF Finish, ScalerTypes, RequestTypeOK

LEMMA ReturnType ==
  ASSUME ScalerTypes, NEW r \in Requests,
         NEW found \in BOOLEAN, NEW err \in BOOLEAN, NEW ready \in BOOLEAN,
         Return(r, found, err, ready)
  PROVE  RequestTypeOK' /\ ProviderTypeOK' /\ SlotTypeOK'
<1>1. HandlerAnswer(found, err, ready) \in Answers
  BY DEF HandlerAnswer, Answers
<1> QED
  BY <1>1, FinishType DEF Return

LEMMA CacheSetType ==
  ASSUME ScalerTypes, NEW r \in Requests, CacheSet(r)
  PROVE  cache' \in [Functions -> Nat \cup {NotCached}]
BY DEF ScalerTypes, CacheSet, Response

------------------------------------------------------------------------------
(* Type correctness *)

LEMMA ServeType ==
  ASSUME ScalerTypes, LoopsWithinLimits, NEW r \in Requests, Serve(r) \/ Arrive(r) \/ Leave(r)
  PROVE  ScalerTypes'
<1> USE ScalerAssumption
<1>1. CASE Arrive(r)
  <2>1. Enter(r, "lookup", 0) /\ "lookup" \in Stages
    BY <1>1 DEF Arrive, Stages
  <2>2. 0 \in Nat
    BY <1>1 DEF Arrive, Holds, Read, LoopsWithinLimits, ScalerTypes
  <2> QED
    BY <1>1, <2>1, <2>2, EnterType DEF Arrive, ScalerTypes, SlotTypeOK
<1>2. CASE CacheMiss(r)
  <2>1. Enter(r, "first", 0) /\ "first" \in Stages
    BY <1>2 DEF CacheMiss, Stages
  <2>2. 0 \in Nat
    BY <1>2 DEF CacheMiss, Holds, Read, LoopsWithinLimits, ScalerTypes
  <2> QED
    BY <1>2, <2>1, <2>2, EnterType DEF CacheMiss, ScalerTypes, SlotTypeOK
<1>3. CASE Leave(r)
  <2>1. Enter(r, "idle", 0) /\ "idle" \in Stages
    BY <1>3 DEF Leave, Stages
  <2>2. 0 \in Nat
    BY <1>3 DEF Leave, Holds, Read, LoopsWithinLimits, ScalerTypes
  <2> QED
    BY <1>3, <2>1, <2>2, EnterType DEF Leave, ScalerTypes, SlotTypeOK, Answers
<1>4. CASE FirstStarting(r)
  <2>1. Enter(r, "poll", 0) /\ "poll" \in Stages
    BY <1>4 DEF FirstStarting, Stages
  <2>2. 0 \in Nat
    BY <1>4 DEF FirstStarting, Holds, Read, LoopsWithinLimits, ScalerTypes
  <2>3. cache' \in [Functions -> Nat \cup {NotCached}]
    BY <1>4, CacheSetType DEF FirstStarting
  <2> QED
    BY <1>4, <2>1, <2>2, <2>3, EnterType DEF FirstStarting, ScalerTypes, SlotTypeOK
<1>5. CASE FirstZero(r)
  <2>1. Enter(r, "retry", 0) /\ "retry" \in Stages
    BY <1>5 DEF FirstZero, Stages
  <2>2. 0 \in Nat
    BY <1>5 DEF FirstZero, Holds, Read, LoopsWithinLimits, ScalerTypes
  <2>3. cache' \in [Functions -> Nat \cup {NotCached}]
    BY <1>5, CacheSetType DEF FirstZero
  <2> QED
    BY <1>5, <2>1, <2>2, <2>3, EnterType
       DEF FirstZero, ScalerTypes, SlotTypeOK, ScaleFromZeroTarget, Response
<1>6. CASE RetryFailed(r)
  <2>1. Enter(r, "retry", tries[r] + 1) /\ "retry" \in Stages
    BY <1>6 DEF RetryFailed, Stages
  <2>2. tries[r] + 1 \in Nat
    BY <1>6 DEF RetryFailed, Holds, Read, LoopsWithinLimits, ScalerTypes
  <2> QED
    BY <1>6, <2>1, <2>2, EnterType DEF RetryFailed, ScalerTypes, SlotTypeOK
<1>7. CASE RetryScaled(r)
  <2>1. Enter(r, "poll", 0) /\ "poll" \in Stages
    BY <1>7 DEF RetryScaled, Stages
  <2>2. 0 \in Nat
    BY <1>7 DEF RetryScaled, Holds, Read, LoopsWithinLimits, ScalerTypes
  <2>3. cache' \in [Functions -> Nat \cup {NotCached}]
    BY <1>7, CacheSetType DEF RetryScaled
  <2> QED
    BY <1>7, <2>1, <2>2, <2>3, EnterType DEF RetryScaled, ScalerTypes, SlotTypeOK
<1>8. CASE RetryStillZero(r)
  <2>1. Enter(r, "set", tries[r]) /\ "set" \in Stages
    BY <1>8 DEF RetryStillZero, Stages
  <2>2. tries[r] \in Nat
    BY <1>8 DEF RetryStillZero, Holds, Read, LoopsWithinLimits, ScalerTypes
  <2>3. cache' \in [Functions -> Nat \cup {NotCached}]
    BY <1>8, CacheSetType DEF RetryStillZero
  <2> QED
    BY <1>8, <2>1, <2>2, <2>3, EnterType DEF RetryStillZero, ScalerTypes, SlotTypeOK
<1>9. CASE SetAccepted(r)
  <2>1. Enter(r, "poll", 0) /\ "poll" \in Stages
    BY <1>9 DEF SetAccepted, Stages
  <2>2. 0 \in Nat
    BY <1>9 DEF SetAccepted, Holds, Read, LoopsWithinLimits, ScalerTypes
  <2> QED
    BY <1>9, <2>1, <2>2, EnterType DEF SetAccepted, ScalerTypes, SlotTypeOK
<1>10. CASE SetRefused(r)
  <2>1. Enter(r, "retry", tries[r] + 1) /\ "retry" \in Stages
    BY <1>10 DEF SetRefused, Stages
  <2>2. tries[r] + 1 \in Nat
    BY <1>10 DEF SetRefused, Holds, Read, LoopsWithinLimits, ScalerTypes
  <2> QED
    BY <1>10, <2>1, <2>2, EnterType DEF SetRefused, ScalerTypes, SlotTypeOK
<1>11. CASE PollAgain(r)
  <2>1. Enter(r, "poll", tries[r] + 1) /\ "poll" \in Stages
    BY <1>11 DEF PollAgain, Stages
  <2>2. tries[r] + 1 \in Nat
    BY <1>11 DEF PollAgain, Holds, Read, LoopsWithinLimits, ScalerTypes
  <2>3. cache' \in [Functions -> Nat \cup {NotCached}]
    BY <1>11, CacheSetType DEF PollAgain
  <2> QED
    BY <1>11, <2>1, <2>2, <2>3, EnterType DEF PollAgain, ScalerTypes, SlotTypeOK
<1>12. CASE CacheHit(r)
  BY <1>12, ReturnType DEF CacheHit, ScalerTypes, RequestTypeOK, SlotTypeOK
<1>13. CASE FirstFailed(r)
  BY <1>13, ReturnType DEF FirstFailed, ScalerTypes, RequestTypeOK, SlotTypeOK
<1>14. CASE FirstReady(r)
  BY <1>14, ReturnType DEF FirstReady, ScalerTypes, RequestTypeOK, SlotTypeOK
<1>15. CASE RetriesExhausted(r)
  BY <1>15, ReturnType DEF RetriesExhausted, ScalerTypes, RequestTypeOK, SlotTypeOK
<1>16. CASE PollFailed(r)
  BY <1>16, ReturnType DEF PollFailed, ScalerTypes, RequestTypeOK, SlotTypeOK
<1>17. CASE PollReady(r)
  <2>1. cache' \in [Functions -> Nat \cup {NotCached}]
    BY <1>17, CacheSetType DEF PollReady
  <2> QED
    BY <1>17, <2>1, ReturnType DEF PollReady, ScalerTypes, RequestTypeOK, SlotTypeOK
<1>18. CASE PollsExhausted(r)
  BY <1>18, ReturnType DEF PollsExhausted, ScalerTypes, RequestTypeOK, SlotTypeOK
<1>19. CASE SetPanicked(r)
  <2>1. "aborted" \in Answers
    BY DEF Answers
  <2> QED
    BY <1>19, <2>1, FinishType DEF SetPanicked, ScalerTypes, RequestTypeOK, SlotTypeOK
<1>20. CASE LeadGet(r)
  BY <1>20, EmptyResponseType
     DEF LeadGet, Wait, ScalerTypes, ProviderTypeOK, providerVars, flightVars, GetSlot,
         SetSlot, Steps
<1>21. CASE FollowGet(r)
  BY <1>21
     DEF FollowGet, Wait, ScalerTypes, ProviderTypeOK, providerVars, flightVars, GetSlot,
         SetSlot, Steps
<1>22. CASE LeadSet(r)
  BY <1>22
     DEF LeadSet, Wait, Outcomes, ScalerTypes, ProviderTypeOK, providerVars, flightVars,
         GetSlot, SetSlot, Steps
<1>23. CASE FollowSet(r)
  BY <1>23
     DEF FollowSet, Wait, ScalerTypes, ProviderTypeOK, providerVars, flightVars, GetSlot,
         SetSlot, Steps
<1> QED
  BY <1>1, <1>2, <1>3, <1>4, <1>5, <1>6, <1>7, <1>8, <1>9, <1>10, <1>11, <1>12, <1>13, <1>14,
     <1>15, <1>16, <1>17, <1>18, <1>19, <1>20, <1>21, <1>22, <1>23
     DEF Serve


(* The provider and the calls in progress. *)
LEMMA OutsideType ==
  ASSUME ScalerTypes, NEW f \in Functions,
         \/ Expire(f) \/ GetCall(f) \/ SetCall(f) \/ Fault(f)
         \/ (PodReady(f) \/ PodGone(f) \/ Operator(f)) /\ ScalerOnly
  PROVE  ScalerTypes'
<1> USE DEF ScalerTypes, GetSlot, SetSlot
<1>1. CASE Expire(f)
  BY <1>1 DEF Expire, requestVars, providerVars, flightVars, ProviderTypeOK
<1>2. CASE AnswerGet(f)
  BY <1>2, GetReplicasType DEF AnswerGet, requestVars, providerVars, ProviderTypeOK
<1>3. CASE DropGet(f)
  BY <1>3, EmptyResponseType DEF DropGet, requestVars, providerVars, ProviderTypeOK
<1>4. CASE ReturnGet(f)
  BY <1>4, EmptyResponseType
     DEF ReturnGet, GetWaiters, FreeGet, Steps, providerVars, ProviderTypeOK
<1>5. CASE ReturnSet(f)
  BY <1>5 DEF ReturnSet, SetWaiters, FreeSet, Steps, Outcomes, providerVars, ProviderTypeOK
<1>6. ASSUME NEW outcome \in Outcomes, SettleSet(f, outcome),
             UNCHANGED providerVars \/ ApplyScale(f, setCall[f].count)
      PROVE  ScalerTypes'
  <2>1. CASE UNCHANGED providerVars
    BY <1>6, <2>1 DEF SettleSet, requestVars, providerVars, ProviderTypeOK
  <2>2. CASE ApplyScale(f, setCall[f].count)
    <3>1. setCall[f].count \in Nat
      OBVIOUS
    <3>2. ProviderTypeOK'
      BY <2>2, <3>1, ApplyType
    <3> QED
      BY <1>6, <3>2 DEF SettleSet, requestVars
  <2> QED
    BY <1>6, <2>1, <2>2
<1>7. CASE AcceptSet(f) \/ RefuseSet(f) \/ BreakSet(f)
  BY <1>6, <1>7 DEF AcceptSet, RefuseSet, BreakSet, PerhapsScaled, Outcomes
<1>8. CASE (PodReady(f) \/ PodGone(f) \/ Operator(f)) /\ ScalerOnly
  <2>1. ProviderTypeOK
    BY DEF ScalerTypes
  <2>2. ProviderTypeOK'
    BY <1>8, <2>1, OperatorType
  <2> QED
    BY <1>8, <2>2 DEF ScalerOnly, requestVars, flightVars
<1> QED
  BY <1>1, <1>2, <1>3, <1>4, <1>5, <1>7, <1>8 DEF GetCall, SetCall, Fault

------------------------------------------------------------------------------
(* The loops *)

LEMMA EnterLoop ==
  ASSUME ScalerTypes, LoopsWithinLimits, NEW r \in Requests, NEW s \in Stages, NEW n \in Int,
         Enter(r, s, n),
         s = "retry" => n <= SetScaleRetries,
         s = "set" => n < SetScaleRetries,
         s = "poll" => n <= MaxPollCount,
         s \in {"lookup", "first"} => n = 0
  PROVE  LoopsWithinLimits'
BY DEF ScalerTypes, LoopsWithinLimits, Enter

LEMMA ServeLoop ==
  ASSUME ScalerTypes, LoopsWithinLimits, NEW r \in Requests, Serve(r) \/ Arrive(r) \/ Leave(r)
  PROVE  LoopsWithinLimits'
<1>1. tries[r] \in Int /\ MaxPollCount \in Nat \ {0} /\ SetScaleRetries \in Nat \ {0}
  BY ScalerAssumption DEF ScalerTypes
<1>2. CASE Arrive(r)
  <2>1. Enter(r, "lookup", 0) /\ "lookup" \in Stages
    BY <1>2 DEF Arrive, Stages
  <2> QED
    BY <1>1, <1>2, <2>1, EnterLoop DEF Arrive, Holds, Read, LoopsWithinLimits
<1>3. CASE CacheMiss(r)
  <2>1. Enter(r, "first", 0) /\ "first" \in Stages
    BY <1>3 DEF CacheMiss, Stages
  <2> QED
    BY <1>1, <1>3, <2>1, EnterLoop DEF CacheMiss, Holds, Read, LoopsWithinLimits
<1>4. CASE Leave(r)
  <2>1. Enter(r, "idle", 0) /\ "idle" \in Stages
    BY <1>4 DEF Leave, Stages
  <2> QED
    BY <1>1, <1>4, <2>1, EnterLoop DEF Leave, Holds, Read, LoopsWithinLimits
<1>5. CASE FirstStarting(r)
  <2>1. Enter(r, "poll", 0) /\ "poll" \in Stages
    BY <1>5 DEF FirstStarting, Stages
  <2> QED
    BY <1>1, <1>5, <2>1, EnterLoop DEF FirstStarting, Holds, Read, LoopsWithinLimits
<1>6. CASE FirstZero(r)
  <2>1. Enter(r, "retry", 0) /\ "retry" \in Stages
    BY <1>6 DEF FirstZero, Stages
  <2> QED
    BY <1>1, <1>6, <2>1, EnterLoop DEF FirstZero, Holds, Read, LoopsWithinLimits
<1>7. CASE RetryFailed(r)
  <2>1. Enter(r, "retry", tries[r] + 1) /\ "retry" \in Stages
    BY <1>7 DEF RetryFailed, Stages
  <2> QED
    BY <1>1, <1>7, <2>1, EnterLoop DEF RetryFailed, Holds, Read, LoopsWithinLimits
<1>8. CASE RetryScaled(r)
  <2>1. Enter(r, "poll", 0) /\ "poll" \in Stages
    BY <1>8 DEF RetryScaled, Stages
  <2> QED
    BY <1>1, <1>8, <2>1, EnterLoop DEF RetryScaled, Holds, Read, LoopsWithinLimits
<1>9. CASE RetryStillZero(r)
  <2>1. Enter(r, "set", tries[r]) /\ "set" \in Stages
    BY <1>9 DEF RetryStillZero, Stages
  <2> QED
    BY <1>1, <1>9, <2>1, EnterLoop DEF RetryStillZero, Holds, Read, LoopsWithinLimits
<1>10. CASE SetAccepted(r)
  <2>1. Enter(r, "poll", 0) /\ "poll" \in Stages
    BY <1>10 DEF SetAccepted, Stages
  <2> QED
    BY <1>1, <1>10, <2>1, EnterLoop DEF SetAccepted, Holds, Read, LoopsWithinLimits
<1>11. CASE SetRefused(r)
  <2>1. Enter(r, "retry", tries[r] + 1) /\ "retry" \in Stages
    BY <1>11 DEF SetRefused, Stages
  <2> QED
    BY <1>1, <1>11, <2>1, EnterLoop DEF SetRefused, Holds, Read, LoopsWithinLimits
<1>12. CASE PollAgain(r)
  <2>1. Enter(r, "poll", tries[r] + 1) /\ "poll" \in Stages
    BY <1>12 DEF PollAgain, Stages
  <2> QED
    BY <1>1, <1>12, <2>1, EnterLoop DEF PollAgain, Holds, Read, LoopsWithinLimits
<1>13. ASSUME NEW what, Finish(r, what)
      PROVE  LoopsWithinLimits'
  <2>1. Enter(r, "done", tries[r]) /\ "done" \in Stages
    BY <1>13 DEF Finish, Stages
  <2> QED
    BY <1>1, <2>1, EnterLoop
<1>14. CASE \/ CacheHit(r) \/ FirstFailed(r) \/ FirstReady(r) \/ RetriesExhausted(r)
         \/ SetPanicked(r) \/ PollFailed(r) \/ PollReady(r) \/ PollsExhausted(r)
  BY <1>13, <1>14 DEF CacheHit, FirstFailed, FirstReady, RetriesExhausted, SetPanicked,
                  PollFailed, PollReady, PollsExhausted, Return
<1>15. CASE LeadGet(r) \/ FollowGet(r) \/ LeadSet(r) \/ FollowSet(r)
  BY <1>1, <1>15
     DEF LeadGet, FollowGet, LeadSet, FollowSet, AboutToQuery, Wait, LoopsWithinLimits,
                  ScalerTypes
<1> QED
  BY <1>2, <1>3, <1>4, <1>5, <1>6, <1>7, <1>8, <1>9, <1>10, <1>11, <1>12, <1>14, <1>15
     DEF Serve

LEMMA OutsideLoop ==
  ASSUME ScalerTypes, LoopsWithinLimits, NEW f \in Functions,
         \/ Expire(f) \/ GetCall(f) \/ SetCall(f) \/ Fault(f)
         \/ (PodReady(f) \/ PodGone(f) \/ Operator(f)) /\ ScalerOnly
  PROVE  LoopsWithinLimits'
<1>1. CASE ReturnGet(f)
  BY <1>1 DEF ReturnGet, GetWaiters, LoopsWithinLimits, ScalerTypes
<1>2. CASE ReturnSet(f)
  BY <1>2 DEF ReturnSet, SetWaiters, LoopsWithinLimits, ScalerTypes
<1>3. CASE UNCHANGED requestVars
  BY <1>3 DEF requestVars, LoopsWithinLimits
<1> QED
  BY <1>1, <1>2, <1>3
     DEF Expire, GetCall, SetCall, Fault, ScalerOnly, AnswerGet, DropGet, AcceptSet,
         RefuseSet, BreakSet, PerhapsScaled, SettleSet

------------------------------------------------------------------------------
(* Evidence, and what is done on it *)

SafeInv == EvidenceInv /\ ForwardedWasReady

(* A request moves on without an answer. *)
LEMMA EnterSafe ==
  ASSUME ScalerTypes, SafeInv, NEW r \in Requests, NEW s \in Stages, NEW n,
         Enter(r, s, n),
         UNCHANGED cache \/ CacheSet(r),
         UNCHANGED target \/ \E f \in Functions : target' = [target EXCEPT ![r] = f],
         \/ UNCHANGED answer /\ stage[r] # "done"
         \/ answer' = [answer EXCEPT ![r] = "none"]
  PROVE  SafeInv'
<1> USE DEF SafeInv, EvidenceInv, ScalerTypes
<1>1. answer[r]' = "none"
  BY DEF ScalerTypes
<1>2. \A q \in Requests \ {r} :
        /\ answer[q]' = answer[q]
        /\ target[q]' = target[q]
        /\ tries[q]' = tries[q]
        /\ got[q]' = got[q]
        /\ stage[q]' = stage[q]
  BY DEF Enter
<1>3. got[r]' = EmptyResponse /\ EmptyResponse.available = 0
  BY DEF Enter, EmptyResponse
<1>4. UNCHANGED <<available, seenReady, getCall>>
  BY DEF Enter, providerVars, flightVars
<1>5. \A f \in Functions : cache[f]' > 0 => f \in seenReady
  BY DEF CacheSet
<1>6. EvidenceInv'
  BY <1>1, <1>2, <1>3, <1>4, <1>5
<1>7. ForwardedWasReady'
  BY <1>1, <1>2, <1>4 DEF ForwardedWasReady
<1> QED
  BY <1>6, <1>7

(* A request is answered: forwarding needs evidence, or a loop at its end. *)
LEMMA FinishSafe ==
  ASSUME ScalerTypes, SafeInv, NEW r \in Requests, NEW what \in Answers,
         Finish(r, what),
         UNCHANGED cache \/ CacheSet(r),
         what = "forwarded" => target[r] \in seenReady \/ tries[r] >= MaxPollCount
  PROVE  SafeInv'
<1> USE DEF SafeInv, EvidenceInv, ScalerTypes, Finish
<1>1. answer[r]' = what /\ stage[r]' = "done" /\ tries[r]' = tries[r] /\ target' = target
  BY DEF Enter
<1>2. \A q \in Requests \ {r} :
        /\ answer[q]' = answer[q]
        /\ tries[q]' = tries[q]
        /\ got[q]' = got[q]
        /\ stage[q]' = stage[q]
  BY DEF Enter
<1>3. got[r]' = EmptyResponse /\ EmptyResponse.available = 0
  BY DEF Enter, EmptyResponse
<1>4. UNCHANGED <<available, seenReady, getCall>>
  BY DEF Enter, providerVars, flightVars
<1>5. \A f \in Functions : cache[f]' > 0 => f \in seenReady
  BY DEF CacheSet
<1>6. EvidenceInv'
  BY <1>1, <1>2, <1>3, <1>4, <1>5
<1>7. MaxPollCount \in Nat /\ tries[r] \in Int
  BY ScalerAssumption
<1>8. ForwardedWasReady'
  BY <1>1, <1>2, <1>4, <1>7 DEF ForwardedWasReady
<1> QED
  BY <1>6, <1>8

LEMMA ServeSafe ==
  ASSUME ScalerTypes, SafeInv, NEW r \in Requests, Serve(r) \/ Arrive(r) \/ Leave(r)
  PROVE  SafeInv'
<1>1. CASE Arrive(r)
  <2>1. Enter(r, "lookup", 0) /\ "lookup" \in Stages
    BY <1>1 DEF Arrive, Stages
  <2> QED
    BY <1>1, <2>1, EnterSafe DEF Arrive, Holds, Read
<1>2. CASE CacheMiss(r)
  <2>1. Enter(r, "first", 0) /\ "first" \in Stages
    BY <1>2 DEF CacheMiss, Stages
  <2> QED
    BY <1>2, <2>1, EnterSafe DEF CacheMiss, Holds, Read
<1>3. CASE Leave(r)
  <2>1. Enter(r, "idle", 0) /\ "idle" \in Stages
    BY <1>3 DEF Leave, Stages
  <2> QED
    BY <1>3, <2>1, EnterSafe DEF Leave, Holds, Read
<1>4. CASE FirstStarting(r)
  <2>1. Enter(r, "poll", 0) /\ "poll" \in Stages
    BY <1>4 DEF FirstStarting, Stages
  <2> QED
    BY <1>4, <2>1, EnterSafe DEF FirstStarting, Holds, Read
<1>5. CASE FirstZero(r)
  <2>1. Enter(r, "retry", 0) /\ "retry" \in Stages
    BY <1>5 DEF FirstZero, Stages
  <2> QED
    BY <1>5, <2>1, EnterSafe DEF FirstZero, Holds, Read
<1>6. CASE RetryFailed(r)
  <2>1. Enter(r, "retry", tries[r] + 1) /\ "retry" \in Stages
    BY <1>6 DEF RetryFailed, Stages
  <2> QED
    BY <1>6, <2>1, EnterSafe DEF RetryFailed, Holds, Read
<1>7. CASE RetryScaled(r)
  <2>1. Enter(r, "poll", 0) /\ "poll" \in Stages
    BY <1>7 DEF RetryScaled, Stages
  <2> QED
    BY <1>7, <2>1, EnterSafe DEF RetryScaled, Holds, Read
<1>8. CASE RetryStillZero(r)
  <2>1. Enter(r, "set", tries[r]) /\ "set" \in Stages
    BY <1>8 DEF RetryStillZero, Stages
  <2> QED
    BY <1>8, <2>1, EnterSafe DEF RetryStillZero, Holds, Read
<1>9. CASE SetAccepted(r)
  <2>1. Enter(r, "poll", 0) /\ "poll" \in Stages
    BY <1>9 DEF SetAccepted, Stages
  <2> QED
    BY <1>9, <2>1, EnterSafe DEF SetAccepted, Holds, Read
<1>10. CASE SetRefused(r)
  <2>1. Enter(r, "retry", tries[r] + 1) /\ "retry" \in Stages
    BY <1>10 DEF SetRefused, Stages
  <2> QED
    BY <1>10, <2>1, EnterSafe DEF SetRefused, Holds, Read
<1>11. CASE PollAgain(r)
  <2>1. Enter(r, "poll", tries[r] + 1) /\ "poll" \in Stages
    BY <1>11 DEF PollAgain, Stages
  <2> QED
    BY <1>11, <2>1, EnterSafe DEF PollAgain, Holds, Read
<1>12. CASE CacheHit(r)
  <2>1. Finish(r, "forwarded") /\ (target[r] \in seenReady)
    BY <1>12 DEF CacheHit, Return, HandlerAnswer, SafeInv, EvidenceInv, ScalerTypes
  <2> QED
    BY <1>12, <2>1, FinishSafe DEF CacheHit, Answers
<1>13. CASE FirstFailed(r)
  <2>1. Finish(r, "notFound")
    BY <1>13 DEF FirstFailed, Return, HandlerAnswer
  <2> QED
    BY <1>13, <2>1, FinishSafe DEF FirstFailed, Answers
<1>14. CASE FirstReady(r)
  <2>1. Finish(r, "forwarded") /\ (target[r] \in seenReady)
    BY <1>14 DEF FirstReady, Return, HandlerAnswer, SafeInv, EvidenceInv
  <2> QED
    BY <1>14, <2>1, FinishSafe DEF FirstReady, Answers
<1>15. CASE RetriesExhausted(r)
  <2>1. Finish(r, "failed")
    BY <1>15 DEF RetriesExhausted, Return, HandlerAnswer
  <2> QED
    BY <1>15, <2>1, FinishSafe DEF RetriesExhausted, Answers
<1>16. CASE SetPanicked(r)
  <2>1. Finish(r, "aborted")
    BY <1>16 DEF SetPanicked
  <2> QED
    BY <1>16, <2>1, FinishSafe DEF SetPanicked, Answers
<1>17. CASE PollFailed(r)
  <2>1. Finish(r, "failed")
    BY <1>17 DEF PollFailed, Return, HandlerAnswer
  <2> QED
    BY <1>17, <2>1, FinishSafe DEF PollFailed, Answers
<1>18. CASE PollReady(r)
  <2>1. Finish(r, "forwarded") /\ (target[r] \in seenReady)
    BY <1>18 DEF PollReady, Return, HandlerAnswer, SafeInv, EvidenceInv
  <2> QED
    BY <1>18, <2>1, FinishSafe DEF PollReady, Answers
<1>19. CASE PollsExhausted(r)
  <2>1. Finish(r, "forwarded") /\ (tries[r] >= MaxPollCount)
    BY <1>19, ScalerAssumption DEF PollsExhausted, Return, HandlerAnswer
  <2> QED
    BY <1>19, <2>1, FinishSafe DEF PollsExhausted, Answers
<1>20. CASE LeadGet(r) \/ FollowGet(r) \/ LeadSet(r) \/ FollowSet(r)
  <2>1. \A f \in Functions : getCall[f].reply.available' > 0 => f \in seenReady
    BY <1>20 DEF LeadGet, FollowGet, LeadSet, FollowSet, SafeInv, EvidenceInv, ScalerTypes,
                  EmptyResponse, flightVars
  <2> QED
    BY <1>20, <2>1 DEF LeadGet, FollowGet, LeadSet, FollowSet, Wait, SafeInv, EvidenceInv,
                  ForwardedWasReady, providerVars
<1> QED
  BY <1>1, <1>2, <1>3, <1>4, <1>5, <1>6, <1>7, <1>8, <1>9, <1>10, <1>11, <1>12, <1>13, <1>14,
     <1>15, <1>16, <1>17, <1>18, <1>19, <1>20
     DEF Serve

LEMMA OutsideSafe ==
  ASSUME ScalerTypes, SafeInv, NEW f \in Functions,
         \/ Expire(f) \/ GetCall(f) \/ SetCall(f) \/ Fault(f)
         \/ (PodReady(f) \/ PodGone(f) \/ Operator(f)) /\ ScalerOnly
  PROVE  SafeInv'
<1> USE DEF SafeInv, ForwardedWasReady
<1>1. CASE Expire(f)
  BY <1>1
     DEF Expire, NotCached, EvidenceInv, ScalerTypes, providerVars, requestVars, flightVars
<1>2. CASE AnswerGet(f)
  <2>1. GetReplicas(f).available > 0 => f \in seenReady
    BY DEF GetReplicas, EmptyResponse, EvidenceInv
  <2> QED
    BY <1>2, <2>1 DEF AnswerGet, EvidenceInv, ScalerTypes, providerVars, requestVars
<1>3. CASE DropGet(f)
  BY <1>3 DEF DropGet, EmptyResponse, EvidenceInv, ScalerTypes, providerVars, requestVars
<1>4. CASE ReturnGet(f)
  <2>1. \A r \in Requests : got[r].available' > 0 => target[r] \in seenReady
    BY <1>4 DEF ReturnGet, GetWaiters, EvidenceInv, ScalerTypes
  <2>2. \A g \in Functions : getCall[g].reply.available' > 0 => g \in seenReady
    BY <1>4 DEF ReturnGet, FreeGet, EmptyResponse, EvidenceInv, ScalerTypes
  <2> QED
    BY <1>4, <2>1, <2>2 DEF ReturnGet, EvidenceInv, providerVars
<1>5. CASE ReturnSet(f)
  BY <1>5 DEF ReturnSet, EvidenceInv, providerVars
<1>6. CASE AcceptSet(f) \/ RefuseSet(f) \/ BreakSet(f)
  <2>1. UNCHANGED <<available, seenReady, requestVars, cache, getCall>>
    BY <1>6
       DEF AcceptSet, RefuseSet, BreakSet, PerhapsScaled, SettleSet, ApplyScale, providerVars
  <2> QED
    BY <2>1 DEF EvidenceInv, requestVars
<1>7. CASE (PodReady(f) \/ PodGone(f) \/ Operator(f)) /\ ScalerOnly
  <2>1. seenReady \subseteq seenReady'
    BY <1>7 DEF PodReady, PodGone, Operator, Deploy, Delete, Relabel, ScaledToZero,
                ApplyScale
  <2>2. \A g \in Functions : available[g]' > 0 => g \in seenReady'
    BY <1>7 DEF PodReady, PodGone, Operator, Deploy, Delete, Relabel, ScaledToZero,
                ApplyScale, EvidenceInv, ScalerTypes, ProviderTypeOK
  <2> QED
    BY <1>7, <2>1, <2>2 DEF ScalerOnly, requestVars, flightVars, EvidenceInv, ScalerTypes
<1> QED
  BY <1>1, <1>2, <1>3, <1>4, <1>5, <1>6, <1>7 DEF GetCall, SetCall, Fault

------------------------------------------------------------------------------
(* What is asked for *)

LEMMA EnterFloor ==
  ASSUME ScalerTypes, FloorInv, NEW r \in Requests, NEW s \in Stages, NEW n,
         Enter(r, s, n),
         \A q \in Requests \ {r} : floor[q]' = floor[q],
         s \in {"retry", "set"} => floor[r]' > 0
  PROVE  FloorInv'
<1>1. UNCHANGED setCall
  BY DEF Enter, flightVars
<1>2. \A q \in Requests : stage[q]' = IF q = r THEN s ELSE stage[q]
  BY DEF Enter, ScalerTypes
<1> QED
  BY <1>1, <1>2 DEF FloorInv, AsksForReplicas

LEMMA ServeFloor ==
  ASSUME ScalerTypes, FloorInv, NEW r \in Requests, Serve(r) \/ Arrive(r) \/ Leave(r)
  PROVE  FloorInv'
<1>1. ASSUME NEW s \in Stages \ {"retry", "set"}, NEW n, Enter(r, s, n),
             \A q \in Requests \ {r} : floor[q]' = floor[q]
      PROVE  FloorInv'
  BY <1>1, EnterFloor
<1>2. CASE Arrive(r) \/ CacheMiss(r) \/ FirstStarting(r)
  BY <1>1, <1>2 DEF Arrive, CacheMiss, FirstStarting, Stages
<1>3. CASE RetryScaled(r) \/ SetAccepted(r) \/ PollAgain(r)
  BY <1>1, <1>3 DEF RetryScaled, SetAccepted, PollAgain, Stages
<1>4. CASE Leave(r)
  BY <1>1, <1>4 DEF Leave, Stages, ScalerTypes
<1>5. ASSUME NEW what, Finish(r, what)
      PROVE  FloorInv'
  BY <1>1, <1>5 DEF Finish, Stages
<1>6. CASE \/ CacheHit(r) \/ FirstFailed(r) \/ FirstReady(r) \/ RetriesExhausted(r)
         \/ SetPanicked(r) \/ PollFailed(r) \/ PollReady(r) \/ PollsExhausted(r)
  BY <1>5, <1>6 DEF CacheHit, FirstFailed, FirstReady, RetriesExhausted, SetPanicked,
                    PollFailed, PollReady, PollsExhausted, Return
<1>7. CASE FirstZero(r)
  <2>1. got[r].min \in Nat
    BY DEF ScalerTypes, Response
  <2>2. floor[r]' > 0 /\ \A q \in Requests \ {r} : floor[q]' = floor[q]
    BY <1>7, <2>1 DEF FirstZero, ScaleFromZeroTarget, ScalerTypes
  <2>3. Enter(r, "retry", 0) /\ "retry" \in Stages
    BY <1>7 DEF FirstZero, Stages
  <2> QED
    BY <2>2, <2>3, EnterFloor
<1>8. CASE RetryFailed(r) \/ RetryStillZero(r) \/ SetRefused(r)
  <2>1. stage[r] \in {"retry", "set"} /\ UNCHANGED floor
    BY <1>8 DEF RetryFailed, RetryStillZero, SetRefused, Holds, Read
  <2>2. floor[r] > 0
    BY <2>1 DEF FloorInv
  <2>3. \/ Enter(r, "retry", tries[r] + 1) /\ "retry" \in Stages
        \/ Enter(r, "set", tries[r]) /\ "set" \in Stages
    BY <1>8 DEF RetryFailed, RetryStillZero, SetRefused, Stages
  <2> QED
    BY <2>1, <2>2, <2>3, EnterFloor
<1>9. CASE LeadSet(r)
  <2>1. floor[r] > 0
    BY <1>9 DEF LeadSet, FloorInv
  <2>2. \A f \in Functions : setCall[f]'.at # "free" => setCall[f]'.count > 0
    BY <1>9, <2>1 DEF LeadSet, FloorInv, AsksForReplicas, ScalerTypes
  <2> QED
    BY <1>9, <2>2 DEF LeadSet, Wait, FloorInv, AsksForReplicas
<1>10. CASE LeadGet(r) \/ FollowGet(r) \/ FollowSet(r)
  BY <1>10 DEF LeadGet, FollowGet, FollowSet, Wait, flightVars, FloorInv, AsksForReplicas
<1> QED
  BY <1>2, <1>3, <1>4, <1>6, <1>7, <1>8, <1>9, <1>10 DEF Serve

LEMMA OutsideFloor ==
  ASSUME ScalerTypes, FloorInv, NEW f \in Functions,
         \/ Expire(f) \/ GetCall(f) \/ SetCall(f) \/ Fault(f)
         \/ (PodReady(f) \/ PodGone(f) \/ Operator(f)) /\ ScalerOnly
  PROVE  FloorInv'
<1>1. UNCHANGED <<stage, floor>>
  BY DEF Expire, GetCall, AnswerGet, ReturnGet, SetCall, AcceptSet, ReturnSet, Fault,
         DropGet, RefuseSet, BreakSet, PerhapsScaled, SettleSet, ScalerOnly, requestVars
<1>2. CASE ReturnSet(f)
  BY <1>1, <1>2 DEF ReturnSet, FreeSet, FloorInv, AsksForReplicas, ScalerTypes
<1>3. CASE AcceptSet(f) \/ RefuseSet(f) \/ BreakSet(f)
  BY <1>1, <1>3 DEF AcceptSet, RefuseSet, BreakSet, PerhapsScaled, SettleSet, FloorInv,
                    AsksForReplicas, ScalerTypes
<1>4. CASE UNCHANGED setCall
  BY <1>1, <1>4 DEF FloorInv, AsksForReplicas
<1> QED
  BY <1>2, <1>3, <1>4
     DEF Expire, GetCall, AnswerGet, ReturnGet, SetCall, Fault, DropGet, ScalerOnly,
         flightVars

------------------------------------------------------------------------------
(* Slots and their waiters *)

LEMMA EnterOrphans ==
  ASSUME ScalerTypes, NoOrphanedCall, NEW r \in Requests, NEW s \in Stages, NEW n,
         Enter(r, s, n), step[r] # "wait" \/ stage[r] \notin Queries \cup {"set"},
         UNCHANGED target \/ \E f \in Functions : target' = [target EXCEPT ![r] = f]
  PROVE  NoOrphanedCall'
<1>1. UNCHANGED <<getCall, setCall>>
  BY DEF Enter, flightVars
<1>2. \A q \in Requests \ {r} :
        stage[q]' = stage[q] /\ step[q]' = step[q] /\ target[q]' = target[q]
  BY DEF Enter, ScalerTypes
<1>3. step[r]' = "call"
  BY DEF Enter, ScalerTypes
<1>4. ASSUME NEW f \in Functions
      PROVE  GetWaiters(f)' = GetWaiters(f) /\ SetWaiters(f)' = SetWaiters(f)
  BY <1>2, <1>3 DEF GetWaiters, SetWaiters, Queries
<1> QED
  BY <1>1, <1>4 DEF NoOrphanedCall

LEMMA ServeOrphans ==
  ASSUME ScalerTypes, NoOrphanedCall, NEW r \in Requests, Serve(r) \/ Arrive(r) \/ Leave(r)
  PROVE  NoOrphanedCall'
<1>1. CASE Arrive(r)
  <2>1. Enter(r, "lookup", 0) /\ "lookup" \in Stages
    BY <1>1 DEF Arrive, Stages
  <2> QED
    BY <1>1, <2>1, EnterOrphans DEF Arrive, Holds, Read, Queries
<1>2. CASE CacheMiss(r)
  <2>1. Enter(r, "first", 0) /\ "first" \in Stages
    BY <1>2 DEF CacheMiss, Stages
  <2> QED
    BY <1>2, <2>1, EnterOrphans DEF CacheMiss, Holds, Read, Queries
<1>3. CASE Leave(r)
  <2>1. Enter(r, "idle", 0) /\ "idle" \in Stages
    BY <1>3 DEF Leave, Stages
  <2> QED
    BY <1>3, <2>1, EnterOrphans DEF Leave, Holds, Read, Queries
<1>4. CASE FirstStarting(r)
  <2>1. Enter(r, "poll", 0) /\ "poll" \in Stages
    BY <1>4 DEF FirstStarting, Stages
  <2> QED
    BY <1>4, <2>1, EnterOrphans DEF FirstStarting, Holds, Read, Queries
<1>5. CASE FirstZero(r)
  <2>1. Enter(r, "retry", 0) /\ "retry" \in Stages
    BY <1>5 DEF FirstZero, Stages
  <2> QED
    BY <1>5, <2>1, EnterOrphans DEF FirstZero, Holds, Read, Queries
<1>6. CASE RetryFailed(r)
  <2>1. Enter(r, "retry", tries[r] + 1) /\ "retry" \in Stages
    BY <1>6 DEF RetryFailed, Stages
  <2> QED
    BY <1>6, <2>1, EnterOrphans DEF RetryFailed, Holds, Read, Queries
<1>7. CASE RetryScaled(r)
  <2>1. Enter(r, "poll", 0) /\ "poll" \in Stages
    BY <1>7 DEF RetryScaled, Stages
  <2> QED
    BY <1>7, <2>1, EnterOrphans DEF RetryScaled, Holds, Read, Queries
<1>8. CASE RetryStillZero(r)
  <2>1. Enter(r, "set", tries[r]) /\ "set" \in Stages
    BY <1>8 DEF RetryStillZero, Stages
  <2> QED
    BY <1>8, <2>1, EnterOrphans DEF RetryStillZero, Holds, Read, Queries
<1>9. CASE SetAccepted(r)
  <2>1. Enter(r, "poll", 0) /\ "poll" \in Stages
    BY <1>9 DEF SetAccepted, Stages
  <2> QED
    BY <1>9, <2>1, EnterOrphans DEF SetAccepted, Holds, Read, Queries
<1>10. CASE SetRefused(r)
  <2>1. Enter(r, "retry", tries[r] + 1) /\ "retry" \in Stages
    BY <1>10 DEF SetRefused, Stages
  <2> QED
    BY <1>10, <2>1, EnterOrphans DEF SetRefused, Holds, Read, Queries
<1>11. CASE PollAgain(r)
  <2>1. Enter(r, "poll", tries[r] + 1) /\ "poll" \in Stages
    BY <1>11 DEF PollAgain, Stages
  <2> QED
    BY <1>11, <2>1, EnterOrphans DEF PollAgain, Holds, Read, Queries
<1>12. ASSUME NEW what, Finish(r, what),
             step[r] # "wait" \/ stage[r] \notin Queries \cup {"set"}
      PROVE  NoOrphanedCall'
  <2>1. Enter(r, "done", tries[r]) /\ "done" \in Stages /\ UNCHANGED target
    BY <1>12 DEF Finish, Stages
  <2> QED
    BY <1>12, <2>1, EnterOrphans
<1>13. CASE \/ CacheHit(r) \/ FirstFailed(r) \/ FirstReady(r) \/ RetriesExhausted(r)
         \/ SetPanicked(r) \/ PollFailed(r) \/ PollReady(r) \/ PollsExhausted(r)
  BY <1>12, <1>13 DEF CacheHit, FirstFailed, FirstReady, RetriesExhausted, SetPanicked,
                  PollFailed, PollReady, PollsExhausted, Return, Holds, Read, Queries
<1>14. CASE LeadGet(r) \/ FollowGet(r)
  <2>1. stage[r] \in Queries /\ UNCHANGED <<stage, target, setCall>>
    BY <1>14 DEF LeadGet, FollowGet, AboutToQuery, Wait, flightVars
  <2>2. getCall[target[r]]'.at # "free" /\ r \in GetWaiters(target[r])'
    BY <1>14, <2>1 DEF LeadGet, FollowGet, Wait, flightVars, GetWaiters, ScalerTypes
  <2>3. \A f \in Functions : SetWaiters(f)' = SetWaiters(f)
    BY <1>14, <2>1 DEF LeadGet, FollowGet, Wait, SetWaiters, Queries, ScalerTypes
  <2>4. \A f \in Functions \ {target[r]} :
          getCall[f]' = getCall[f] /\ GetWaiters(f)' = GetWaiters(f)
    BY <1>14, <2>1 DEF LeadGet, FollowGet, Wait, flightVars, GetWaiters, ScalerTypes
  <2> QED
    BY <2>1, <2>2, <2>3, <2>4 DEF NoOrphanedCall
<1>15. CASE LeadSet(r) \/ FollowSet(r)
  <2>1. stage[r] = "set" /\ UNCHANGED <<stage, target, getCall>>
    BY <1>15 DEF LeadSet, FollowSet, Wait, flightVars
  <2>2. setCall[target[r]]'.at # "free" /\ r \in SetWaiters(target[r])'
    BY <1>15, <2>1 DEF LeadSet, FollowSet, Wait, flightVars, SetWaiters, ScalerTypes
  <2>3. \A f \in Functions : GetWaiters(f)' = GetWaiters(f)
    BY <1>15, <2>1 DEF LeadSet, FollowSet, Wait, GetWaiters, Queries, ScalerTypes
  <2>4. \A f \in Functions \ {target[r]} :
          setCall[f]' = setCall[f] /\ SetWaiters(f)' = SetWaiters(f)
    BY <1>15, <2>1 DEF LeadSet, FollowSet, Wait, flightVars, SetWaiters, ScalerTypes
  <2> QED
    BY <2>1, <2>2, <2>3, <2>4 DEF NoOrphanedCall
<1> QED
  BY <1>1, <1>2, <1>3, <1>4, <1>5, <1>6, <1>7, <1>8, <1>9, <1>10, <1>11, <1>13, <1>14, <1>15
     DEF Serve

LEMMA OutsideOrphans ==
  ASSUME ScalerTypes, NoOrphanedCall, NEW f \in Functions,
         \/ Expire(f) \/ GetCall(f) \/ SetCall(f) \/ Fault(f)
         \/ (PodReady(f) \/ PodGone(f) \/ Operator(f)) /\ ScalerOnly
  PROVE  NoOrphanedCall'
<1>1. CASE ReturnGet(f)
  <2>1. GetWaiters(f)' = {}
    BY <1>1 DEF ReturnGet, GetWaiters, ScalerTypes
  <2>2. \A g \in Functions \ {f} : GetWaiters(g)' = GetWaiters(g)
    BY <1>1 DEF ReturnGet, GetWaiters, ScalerTypes
  <2>3. \A g \in Functions : SetWaiters(g)' = SetWaiters(g)
    BY <1>1 DEF ReturnGet, GetWaiters, SetWaiters, Queries, ScalerTypes
  <2> QED
    BY <1>1, <2>1, <2>2, <2>3 DEF ReturnGet, FreeGet, NoOrphanedCall, ScalerTypes
<1>2. CASE ReturnSet(f)
  <2>1. SetWaiters(f)' = {}
    BY <1>2 DEF ReturnSet, SetWaiters, ScalerTypes, SetSlot, Outcomes
  <2>2. \A g \in Functions \ {f} : SetWaiters(g)' = SetWaiters(g)
    BY <1>2 DEF ReturnSet, SetWaiters, ScalerTypes
  <2>3. \A g \in Functions : GetWaiters(g)' = GetWaiters(g)
    BY <1>2 DEF ReturnSet, GetWaiters, SetWaiters, Queries, ScalerTypes
  <2> QED
    BY <1>2, <2>1, <2>2, <2>3 DEF ReturnSet, FreeSet, NoOrphanedCall, ScalerTypes
<1>3. ASSUME UNCHANGED requestVars
      PROVE  \A g \in Functions :
               GetWaiters(g)' = GetWaiters(g) /\ SetWaiters(g)' = SetWaiters(g)
  BY <1>3 DEF requestVars, GetWaiters, SetWaiters
<1>4. CASE AnswerGet(f) \/ DropGet(f)
  BY <1>3, <1>4 DEF AnswerGet, DropGet, NoOrphanedCall, ScalerTypes
<1>5. CASE AcceptSet(f) \/ RefuseSet(f) \/ BreakSet(f)
  BY <1>3, <1>5
     DEF AcceptSet, RefuseSet, BreakSet, PerhapsScaled, SettleSet, NoOrphanedCall, ScalerTypes
<1>6. CASE UNCHANGED <<requestVars, flightVars>>
  BY <1>3, <1>6 DEF flightVars, NoOrphanedCall
<1> QED
  BY <1>1, <1>2, <1>4, <1>5, <1>6
     DEF Expire, GetCall, SetCall, Fault, ScalerOnly

------------------------------------------------------------------------------
(* The theorems *)

IInv == ScalerTypes /\ LoopsWithinLimits /\ SafeInv /\ FloorInv /\ NoOrphanedCall

LEMMA InitInv == Init => IInv
<1> SUFFICES ASSUME Init PROVE IInv
  OBVIOUS
<1> USE ScalerAssumption, EmptyResponseType DEF Init, ProviderInit
<1>1. ScalerTypes
  BY DEF ScalerTypes, ProviderTypeOK, Stages, Steps, Answers, GetSlot, SetSlot,
                       FreeGet, FreeSet, Outcomes
<1>2. LoopsWithinLimits
  BY DEF LoopsWithinLimits
<1>3. SafeInv
  BY DEF SafeInv, EvidenceInv, ForwardedWasReady, FreeGet, EmptyResponse,
         NotCached
<1>4. NoOrphanedCall
  BY DEF NoOrphanedCall, GetWaiters, SetWaiters, FreeGet, FreeSet
<1>5. FloorInv
  BY DEF FloorInv, AsksForReplicas, FreeSet
<1> QED
  BY <1>1, <1>2, <1>3, <1>4, <1>5 DEF IInv

LEMMA NextInv == IInv /\ [Next]_vars => IInv'
<1> SUFFICES ASSUME IInv, [Next]_vars PROVE IInv'
  OBVIOUS
<1> USE DEF IInv
<1>1. ASSUME NEW r \in Requests, Serve(r) \/ Arrive(r) \/ Leave(r)
      PROVE  IInv'
  BY <1>1, ServeType, ServeLoop, ServeSafe, ServeFloor, ServeOrphans
<1>2. ASSUME NEW f \in Functions,
             \/ Expire(f) \/ GetCall(f) \/ SetCall(f) \/ Fault(f)
             \/ (PodReady(f) \/ PodGone(f) \/ Operator(f)) /\ ScalerOnly
      PROVE  IInv'
  BY <1>2, OutsideType, OutsideLoop, OutsideSafe, OutsideFloor, OutsideOrphans
<1>3. CASE UNCHANGED vars
  BY <1>3
     DEF vars, providerVars, requestVars, flightVars, ScalerTypes, ProviderTypeOK,
         LoopsWithinLimits,
              SafeInv, EvidenceInv, ForwardedWasReady, FloorInv, AsksForReplicas,
              NoOrphanedCall, GetWaiters, SetWaiters
<1>4. CASE Next
  BY <1>1, <1>2, <1>4 DEF Next, UnattendedNext, CalmNext
<1> QED
  BY <1>3, <1>4

LEMMA Invariance == Spec => []IInv
BY InitInv, NextInv, PTL DEF Spec

(* The variables of the scaler keep their types, and its two loops stop at *)
(* MaxPollCount and SetScaleRetries (function_scaler.go 154, retry.go 24). *)
THEOREM TypeCorrect == Spec => []TypeOK
<1>1. IInv => TypeOK
  BY DEF IInv, TypeOK
<1> QED
  BY <1>1, Invariance, PTL

(* However many requests share calls and cache entries, one that is        *)
(* forwarded before the poll loop runs out goes to a function that has had *)
(* an available replica.                                                   *)
THEOREM ForwardingIsJustified == Spec => []ForwardedWasReady
<1>1. IInv => ForwardedWasReady
  BY DEF IInv, SafeInv
<1> QED
  BY <1>1, Invariance, PTL

(* No request waits for a single-flight call that nobody makes, and no key *)
(* outlives the requests that wait for it, even after a panic.             *)
THEOREM SlotsHaveWaiters == Spec => []NoOrphanedCall
<1>1. IInv => NoOrphanedCall
  BY DEF IInv
<1> QED
  BY <1>1, Invariance, PTL

(* Whoever leads a SetReplicas call of scale from zero, and however stale  *)
(* the minimum it captured: the call asks for at least one replica.        *)
THEOREM ScalingAsksForReplicas == Spec => []AsksForReplicas
<1>1. IInv => AsksForReplicas
  BY DEF IInv, FloorInv
<1> QED
  BY <1>1, Invariance, PTL

------------------------------------------------------------------------------
(* The queries implement CallSharing *)

Told(r) == IF step[r] = "got" THEN <<got[r]>> ELSE <<>>

LEMMA SharesInitially == Init => QuerySharing!Init
BY DEF Init, QuerySharing!Init, GetWaiters

LEMMA SharingStutters ==
  ASSUME \A r \in Requests : Told(r)' = Told(r),
         \A f \in Functions : GetWaiters(f)' = GetWaiters(f)
  PROVE  UNCHANGED QuerySharing!sharingVars
BY DEF QuerySharing!sharingVars, Told

(* A request that goes on to another stage leaves with what it was told.   *)
LEMMA EnterShares ==
  ASSUME ScalerTypes, NEW r \in Requests, NEW s \in Stages, NEW n, Enter(r, s, n),
         stage[r] \notin Queries \/ step[r] # "wait",
         \A q \in Requests \ {r} : target'[q] = target[q]
  PROVE  [QuerySharing!Next]_(QuerySharing!sharingVars)
<1> USE DEF Enter, ScalerTypes
<1>1. \A f \in Functions : GetWaiters(f)' = GetWaiters(f)
  BY DEF GetWaiters
<1>2. \A q \in Requests : Told(q)' = IF q = r THEN <<>> ELSE Told(q)
  BY DEF Told
<1>3. CASE step[r] # "got"
  BY <1>1, <1>2, <1>3, SharingStutters DEF Told
<1>4. CASE step[r] = "got"
  <2>1. Told(r) # <<>>
    BY <1>4 DEF Told
  <2> HIDE DEF Enter, ScalerTypes
  <2>2. QuerySharing!Leave(r)
    BY <1>1, <1>2, <2>1 DEF QuerySharing!Leave, Told
  <2> QED
    BY <2>2 DEF QuerySharing!Next
<1> QED
  BY <1>3, <1>4

LEMMA GetJoins ==
  ASSUME ScalerTypes, NEW r \in Requests, NEW f \in Functions, f = target[r],
         LeadGet(r) \/ FollowGet(r)
  PROVE  QuerySharing!Join(r, f)
<1> USE DEF ScalerTypes, LeadGet, FollowGet, AboutToQuery, Wait
<1>1. Told(r) = <<>> /\ \A g \in Functions : r \notin GetWaiters(g)
  BY DEF Told, GetWaiters
<1>2. \A q \in Requests : Told(q)' = Told(q)
  BY DEF Told
<1>3. \A g \in Functions :
        GetWaiters(g)' = IF g = f THEN GetWaiters(g) \cup {r} ELSE GetWaiters(g)
  BY DEF GetWaiters
<1> HIDE DEF ScalerTypes, LeadGet, FollowGet, AboutToQuery, Wait
<1>4. [g \in Functions |-> GetWaiters(g)]' =
        [[g \in Functions |-> GetWaiters(g)] EXCEPT ![f] = @ \cup {r}]
  BY <1>3
<1> QED
  BY <1>1, <1>2, <1>4 DEF QuerySharing!Join, Told

LEMMA ServeShares ==
  ASSUME ScalerTypes, NEW r \in Requests, Serve(r) \/ Arrive(r) \/ Leave(r)
  PROVE  [QuerySharing!Next]_(QuerySharing!sharingVars)
<1>1. ASSUME NEW s \in Stages, NEW n, Enter(r, s, n), UNCHANGED target,
             stage[r] \notin Queries \/ step[r] # "wait"
      PROVE  [QuerySharing!Next]_(QuerySharing!sharingVars)
  BY <1>1, EnterShares
<1>2. {"idle", "first", "retry", "poll", "set", "done", "lookup"} \subseteq Stages
  BY DEF Stages
<1>3. CASE Arrive(r)
  <2>1. stage[r] \notin Queries
    BY <1>3 DEF Arrive, Queries
  <2>2. Enter(r, "lookup", 0) /\ \A q \in Requests \ {r} : target'[q] = target[q]
    BY <1>3 DEF Arrive, ScalerTypes
  <2> QED
    BY <1>2, <2>1, <2>2, EnterShares
<1>4. CASE LeadGet(r) \/ FollowGet(r)
  <2>1. PICK f \in Functions : f = target[r]
    BY DEF ScalerTypes
  <2>2. QuerySharing!Join(r, f)
    BY <1>4, <2>1, GetJoins
  <2> QED
    BY <2>2 DEF QuerySharing!Next
<1>5. CASE LeadSet(r) \/ FollowSet(r)
  <2>1. stage[r] = "set" /\ step[r] = "call" /\ Wait(r)
    BY <1>5 DEF LeadSet, FollowSet
  <2>2. \A q \in Requests : Told(q)' = Told(q)
    BY <2>1 DEF Wait, Told, ScalerTypes
  <2>3. \A f \in Functions : GetWaiters(f)' = GetWaiters(f)
    BY <2>1 DEF Wait, GetWaiters, Queries, ScalerTypes
  <2> QED
    BY <2>2, <2>3, SharingStutters
<1>6. ASSUME NEW what, Finish(r, what), stage[r] \notin Queries \/ step[r] # "wait"
      PROVE  [QuerySharing!Next]_(QuerySharing!sharingVars)
  BY <1>1, <1>2, <1>6 DEF Finish
<1>7. CASE \/ CacheHit(r) \/ FirstFailed(r) \/ FirstReady(r) \/ RetriesExhausted(r)
           \/ PollFailed(r) \/ PollReady(r) \/ PollsExhausted(r) \/ SetPanicked(r)
  <2>1. stage[r] \notin Queries \/ step[r] # "wait"
    BY <1>7 DEF CacheHit, FirstFailed, FirstReady, RetriesExhausted, PollFailed, PollReady,
                PollsExhausted, SetPanicked, Holds, Read, Queries
  <2>2. \E what : Finish(r, what)
    BY <1>7 DEF CacheHit, FirstFailed, FirstReady, RetriesExhausted, PollFailed, PollReady,
                PollsExhausted, SetPanicked, Return
  <2> QED
    BY <1>6, <2>1, <2>2
<1>8. CASE \/ CacheMiss(r) \/ FirstStarting(r) \/ FirstZero(r) \/ RetryFailed(r)
           \/ RetryScaled(r) \/ RetryStillZero(r) \/ SetAccepted(r) \/ SetRefused(r)
           \/ PollAgain(r) \/ Leave(r)
  <2>1. stage[r] \notin Queries \/ step[r] # "wait"
    BY <1>8 DEF CacheMiss, FirstStarting, FirstZero, RetryFailed, RetryScaled, RetryStillZero,
                SetAccepted, SetRefused, PollAgain, Leave, Holds, Read, Queries
  <2>2. /\ UNCHANGED target
        /\ \E s \in {"idle", "first", "retry", "poll", "set"} : \E n : Enter(r, s, n)
    BY <1>8 DEF CacheMiss, FirstStarting, FirstZero, RetryFailed, RetryScaled, RetryStillZero,
                SetAccepted, SetRefused, PollAgain, Leave
  <2> QED
    BY <1>1, <1>2, <2>1, <2>2
<1> QED
  BY <1>3, <1>4, <1>5, <1>7, <1>8 DEF Serve

LEMMA ReturnGetShares ==
  ASSUME ScalerTypes, NoOrphanedCall, NEW f \in Functions, ReturnGet(f)
  PROVE  QuerySharing!Next
<1> DEFINE told == [r \in Requests |-> Told(r)]
           party == [g \in Functions |-> GetWaiters(g)]
<1>1. /\ \A r \in Requests :
           Told(r)' = IF r \in GetWaiters(f) THEN <<getCall[f].reply>> ELSE Told(r)
      /\ \A g \in Functions : GetWaiters(g)' = IF g = f THEN {} ELSE GetWaiters(g)
  BY DEF ReturnGet, GetWaiters, Told, ScalerTypes
<1>2. GetWaiters(f) # {}
  BY DEF ReturnGet, NoOrphanedCall
<1>3. PICK r \in Requests : r \in party[f]
  BY <1>2 DEF GetWaiters
<1>4. told' = [q \in Requests |-> IF q \in party[f] THEN told'[r] ELSE told[q]]
  BY <1>1, <1>3
<1>5. party' = [party EXCEPT ![f] = {}] /\ party[f] # {}
  BY <1>1, <1>2
<1>6. \A v : <<v>> # <<>>
  OBVIOUS
<1>7. told'[r] # <<>>
  BY <1>1, <1>3, <1>6
<1> QED
  BY <1>3, <1>4, <1>5, <1>7 DEF QuerySharing!Next, QuerySharing!Finish, Told

LEMMA OutsideShares ==
  ASSUME ScalerTypes, NoOrphanedCall, NEW f \in Functions,
         \/ Expire(f) \/ GetCall(f) \/ SetCall(f) \/ Fault(f)
         \/ (PodReady(f) \/ PodGone(f) \/ Operator(f)) /\ ScalerOnly
  PROVE  [QuerySharing!Next]_(QuerySharing!sharingVars)
<1>1. CASE ReturnGet(f)
  BY <1>1, ReturnGetShares
<1>2. CASE ReturnSet(f)
  <2>1. \A r \in Requests : Told(r)' = Told(r)
    BY <1>2 DEF ReturnSet, SetWaiters, Told, ScalerTypes, SetSlot, Outcomes
  <2>2. \A g \in Functions : GetWaiters(g)' = GetWaiters(g)
    BY <1>2 DEF ReturnSet, GetWaiters, SetWaiters, Queries, ScalerTypes
  <2> QED
    BY <2>1, <2>2, SharingStutters
<1>3. CASE UNCHANGED requestVars
  BY <1>3, SharingStutters DEF requestVars, Told, GetWaiters
<1> QED
  BY <1>1, <1>2, <1>3
     DEF Expire, GetCall, SetCall, Fault, ScalerOnly, AnswerGet, DropGet,
         AcceptSet, RefuseSet, BreakSet, PerhapsScaled, SettleSet

(* The queries of scale from zero, in all of its stages, are those of a    *)
(* single-flight group (function_scaler.go 61, 106 and 157).               *)
THEOREM ScalerImplementsSharing == Spec => SharesQueries
<1>1. IInv /\ [Next]_vars => [QuerySharing!Next]_(QuerySharing!sharingVars)
  <2> SUFFICES ASSUME IInv, [Next]_vars
               PROVE  [QuerySharing!Next]_(QuerySharing!sharingVars)
    OBVIOUS
  <2> USE DEF IInv
  <2>1. CASE UNCHANGED vars
    BY <2>1, SharingStutters DEF vars, requestVars, Told, GetWaiters
  <2>2. CASE Next
    BY <2>2, ServeShares, OutsideShares DEF Next, UnattendedNext, CalmNext
  <2> QED
    BY <2>1, <2>2
<1> QED
  BY <1>1, SharesInitially, Invariance, PTL DEF Spec, SharesQueries, QuerySharing!Spec

------------------------------------------------------------------------------
(* The scaler keeps the promise of ScaleGate *)

(* What a client would say has become of its request. *)
Outcome(r) ==
  CASE stage[r] = "idle" -> "absent"
    [] stage[r] = "done" ->
         IF answer[r] = "forwarded"
         THEN IF tries[r] < MaxPollCount THEN "admitted" ELSE "gaveUp"
         ELSE answer[r]
    [] OTHER -> "pending"

(* A request that is done has an answer, and not silence. *)
AnswersGiven == {"forwarded", "notFound", "failed", "aborted"}
AnsweredInv == \A r \in Requests : stage[r] = "done" => answer[r] \in AnswersGiven

PromiseInv == IInv /\ AnsweredInv

LEMMA OutcomeOnward ==
  ASSUME ScalerTypes, NEW r \in Requests, NEW s \in Stages, NEW n, Enter(r, s, n)
  PROVE  /\ stage'[r] = s /\ tries'[r] = n
         /\ \A q \in Requests : q # r => stage'[q] = stage[q] /\ tries'[q] = tries[q]
         /\ UNCHANGED seenReady
BY DEF Enter, ScalerTypes, providerVars

(* A step of a request's goroutine: on to another stage, into or out of a  *)
(* call, or to its end.                                                    *)
LEMMA ServeMoves ==
  ASSUME NEW r \in Requests, Serve(r)
  PROVE  /\ stage[r] \notin {"idle", "done"}
         /\ \/ /\ \E s \in {"first", "retry", "set", "poll"} : \E n : Enter(r, s, n)
               /\ UNCHANGED <<target, answer>>
            \/ Wait(r)
            \/ \E what \in AnswersGiven : Finish(r, what)
<1>1. CASE \/ CacheMiss(r) \/ FirstStarting(r) \/ FirstZero(r) \/ RetryFailed(r)
           \/ RetryScaled(r) \/ RetryStillZero(r) \/ SetAccepted(r) \/ SetRefused(r)
           \/ PollAgain(r)
  BY <1>1 DEF CacheMiss, FirstStarting, FirstZero, RetryFailed, RetryScaled, RetryStillZero,
              SetAccepted, SetRefused, PollAgain, Holds, Read
<1>2. CASE LeadGet(r) \/ FollowGet(r) \/ LeadSet(r) \/ FollowSet(r)
  BY <1>2 DEF LeadGet, FollowGet, LeadSet, FollowSet, AboutToQuery, Queries
<1>3. CASE \/ CacheHit(r) \/ FirstFailed(r) \/ FirstReady(r) \/ RetriesExhausted(r)
           \/ PollFailed(r) \/ PollReady(r) \/ PollsExhausted(r) \/ SetPanicked(r)
  <2>1. stage[r] \notin {"idle", "done"}
    BY <1>3 DEF CacheHit, FirstFailed, FirstReady, RetriesExhausted, PollFailed, PollReady,
                PollsExhausted, SetPanicked, Holds, Read
  <2>2. \E what \in AnswersGiven : Finish(r, what)
    BY <1>3 DEF CacheHit, FirstFailed, FirstReady, RetriesExhausted, PollFailed, PollReady,
                PollsExhausted, SetPanicked, Return, HandlerAnswer, AnswersGiven
  <2> QED
    BY <2>1, <2>2
<1> QED
  BY <1>1, <1>2, <1>3 DEF Serve

(* The provider and the calls in progress leave what clients see alone. *)
LEMMA OutsideUnseen ==
  ASSUME NEW f \in Functions,
         \/ Expire(f) \/ GetCall(f) \/ SetCall(f) \/ Fault(f)
         \/ (PodReady(f) \/ PodGone(f) \/ Operator(f)) /\ ScalerOnly
  PROVE  /\ UNCHANGED <<stage, answer, tries, target>>
         /\ seenReady' = seenReady \/ seenReady' = seenReady \cup {f}
<1>1. UNCHANGED <<stage, answer, tries, target>>
  BY DEF Expire, GetCall, SetCall, Fault, AnswerGet, ReturnGet, AcceptSet, ReturnSet, DropGet,
         RefuseSet, BreakSet, PerhapsScaled, SettleSet, ScalerOnly, requestVars
<1>2. UNCHANGED seenReady \/ seenReady' = seenReady \cup {f}
  BY DEF Expire, GetCall, SetCall, Fault, AnswerGet, ReturnGet, AcceptSet, ReturnSet, DropGet,
         RefuseSet, BreakSet, PerhapsScaled, SettleSet, PodReady, PodGone, Operator, Deploy, Delete, Relabel,
         ScaledToZero, ApplyScale, providerVars
<1> QED
  BY <1>1, <1>2

LEMMA AnsweredStep ==
  ASSUME ScalerTypes, AnsweredInv, [Next]_vars
  PROVE  AnsweredInv'
<1>1. ASSUME NEW r \in Requests, Serve(r)
      PROVE  AnsweredInv'
  <2>1. ASSUME NEW s \in {"first", "retry", "set", "poll"}, NEW n, Enter(r, s, n),
               UNCHANGED answer
        PROVE  AnsweredInv'
    BY <2>1, OutcomeOnward DEF AnsweredInv, Stages
  <2>2. CASE Wait(r)
    BY <2>2 DEF Wait, AnsweredInv
  <2>3. ASSUME NEW what \in AnswersGiven, Finish(r, what)
        PROVE  AnsweredInv'
    <3>1. \A q \in Requests : q # r => stage'[q] = stage[q]
      BY <2>3, OutcomeOnward DEF Finish, Stages
    <3>2. answer' = [answer EXCEPT ![r] = what] /\ answer \in [Requests -> Answers]
      BY <2>3 DEF Finish, ScalerTypes
    <3> QED
      BY <3>1, <3>2 DEF AnsweredInv
  <2> QED
    BY <1>1, <2>1, <2>2, <2>3, ServeMoves
<1>2. ASSUME NEW r \in Requests, Arrive(r) \/ Leave(r)
      PROVE  AnsweredInv'
  <2>1. PICK s \in {"idle", "lookup"} : Enter(r, s, 0)
    BY <1>2 DEF Arrive, Leave
  <2>2. \A q \in Requests : q # r => answer'[q] = answer[q]
    BY <1>2 DEF Arrive, Leave, ScalerTypes
  <2> QED
    BY <2>1, <2>2, OutcomeOnward DEF AnsweredInv, Stages
<1>3. CASE UNCHANGED <<stage, answer>>
  BY <1>3 DEF AnsweredInv
<1> QED
  BY <1>1, <1>2, <1>3, OutsideUnseen DEF Next, UnattendedNext, CalmNext, vars, requestVars

LEMMA PromiseInvariance == Spec => []PromiseInv
<1>1. Init => AnsweredInv
  BY DEF Init, AnsweredInv
<1>2. PromiseInv /\ [Next]_vars => PromiseInv'
  BY NextInv, AnsweredStep DEF PromiseInv, IInv
<1> QED
  BY <1>1, <1>2, InitInv, PTL DEF Spec, PromiseInv

(* Nothing a client sees has changed. *)
LEMMA GateStutters ==
  ASSUME UNCHANGED <<stage, answer, tries, target, seenReady>>
  PROVE  UNCHANGED Gate!gateVars
BY DEF Gate!gateVars

LEMMA ServeKeepsPromise ==
  ASSUME PromiseInv, PromiseInv', NEW r \in Requests, Serve(r) \/ Arrive(r) \/ Leave(r)
  PROVE  [Gate!Next]_(Gate!gateVars)
<1> DEFINE outcome == [q \in Requests |-> Outcome(q)]
<1>1. ScalerTypes
  BY DEF PromiseInv, IInv
<1>2. ASSUME NEW s \in Stages, NEW n, Enter(r, s, n),
             \A q \in Requests : q # r => answer'[q] = answer[q]
      PROVE  /\ outcome' = [outcome EXCEPT ![r] = Outcome(r)']
             /\ UNCHANGED seenReady
  <2>1. ASSUME NEW q \in Requests, q # r
        PROVE  Outcome(q)' = Outcome(q)
    <3>1. stage'[q] = stage[q] /\ tries'[q] = tries[q] /\ answer'[q] = answer[q]
      BY <1>1, <1>2, <2>1, OutcomeOnward
    <3> QED
      BY <3>1 DEF Outcome
  <2>2. UNCHANGED seenReady
    BY <1>1, <1>2, OutcomeOnward
  <2> QED
    BY <2>1, <2>2
<1>3. CASE Arrive(r)
  <2>1. /\ Enter(r, "lookup", 0) /\ "lookup" \in Stages
        /\ stage[r] = "idle" /\ UNCHANGED answer
        /\ \E f \in Functions : target' = [target EXCEPT ![r] = f]
    BY <1>3 DEF Arrive, Stages
  <2>2. Outcome(r) = "absent" /\ Outcome(r)' = "pending"
    BY <1>1, <2>1, OutcomeOnward DEF Outcome
  <2>3. outcome' = [outcome EXCEPT ![r] = "pending"] /\ UNCHANGED seenReady
    BY <1>2, <2>1, <2>2
  <2>4. Gate!Ask(r)
    BY <2>1, <2>2, <2>3 DEF Gate!Ask, Outcome
  <2> QED
    BY <2>4 DEF Gate!Next
<1>4. CASE Leave(r)
  <2>1. /\ Enter(r, "idle", 0) /\ "idle" \in Stages
        /\ stage[r] = "done" /\ UNCHANGED target
        /\ answer' = [answer EXCEPT ![r] = "none"]
    BY <1>4 DEF Leave, Stages
  <2>2. answer[r] \in AnswersGiven
    BY <2>1 DEF PromiseInv, AnsweredInv
  <2>3. Outcome(r) \in Gate!Final /\ Outcome(r)' = "absent"
    BY <1>1, <2>1, <2>2, OutcomeOnward
       DEF Outcome, Gate!Final, Gate!Refusals, AnswersGiven
  <2>4. \A q \in Requests : q # r => answer'[q] = answer[q]
    BY <1>1, <2>1 DEF ScalerTypes
  <2>5. outcome' = [outcome EXCEPT ![r] = "absent"] /\ UNCHANGED seenReady
    BY <1>2, <2>1, <2>3, <2>4
  <2>6. Gate!Depart(r)
    BY <2>1, <2>3, <2>5 DEF Gate!Depart, Outcome
  <2> QED
    BY <2>6 DEF Gate!Next
<1>5. CASE Wait(r)
  BY <1>5, GateStutters DEF Wait, providerVars
<1>6. ASSUME stage[r] \notin {"idle", "done"}, UNCHANGED <<target, answer>>,
             NEW s \in {"first", "retry", "set", "poll"}, NEW n, Enter(r, s, n)
      PROVE  [Gate!Next]_(Gate!gateVars)
  <2>1. Outcome(r) = "pending" /\ Outcome(r)' = "pending" /\ s \in Stages
    BY <1>1, <1>6, OutcomeOnward DEF Outcome, Stages
  <2>2. outcome' = [outcome EXCEPT ![r] = "pending"] /\ UNCHANGED seenReady
    BY <1>2, <1>6, <2>1
  <2>3. outcome' = outcome
    BY <2>1, <2>2
  <2> QED
    BY <1>6, <2>2, <2>3 DEF Gate!gateVars, Outcome
<1>7. ASSUME stage[r] \notin {"idle", "done"}, NEW what \in AnswersGiven, Finish(r, what)
      PROVE  [Gate!Next]_(Gate!gateVars)
  <2>1. /\ Enter(r, "done", tries[r]) /\ "done" \in Stages
        /\ answer' = [answer EXCEPT ![r] = what] /\ UNCHANGED target
    BY <1>7 DEF Finish, Stages
  <2>2. /\ answer'[r] = what
        /\ \A q \in Requests : q # r => answer'[q] = answer[q]
    BY <1>1, <2>1 DEF ScalerTypes
  <2>3. outcome' = [outcome EXCEPT ![r] = Outcome(r)'] /\ UNCHANGED seenReady
    BY <1>2, <2>1, <2>2
  <2>4. Outcome(r) = "pending"
    BY <1>7 DEF Outcome
  <2>5. /\ stage'[r] = "done" /\ tries'[r] = tries[r]
        /\ Outcome(r)' = IF what = "forwarded"
                         THEN IF tries[r] < MaxPollCount THEN "admitted" ELSE "gaveUp"
                         ELSE what
    BY <1>1, <2>1, <2>2, OutcomeOnward DEF Outcome
  <2>6. Outcome(r)' \in Gate!Final
    BY <2>5 DEF Gate!Final, Gate!Refusals, AnswersGiven
  <2>7. Outcome(r)' = "admitted" => target[r] \in seenReady
    <3>1. ForwardedWasReady'
      BY DEF PromiseInv, IInv, SafeInv
    <3> QED
      BY <1>7, <2>1, <2>2, <2>3, <2>5, <3>1 DEF ForwardedWasReady, AnswersGiven
  <2>8. PICK o \in Gate!Final : o = Outcome(r)'
    BY <2>6
  <2>9. Gate!Resolve(r, o)
    BY <2>1, <2>3, <2>4, <2>7, <2>8 DEF Gate!Resolve, Outcome
  <2> QED
    BY <2>8, <2>9 DEF Gate!Next, Gate!Answer
<1> QED
  BY <1>3, <1>4, <1>5, <1>6, <1>7, ServeMoves

LEMMA OutsideKeepsPromise ==
  ASSUME NEW f \in Functions,
         UNCHANGED <<stage, answer, tries, target>>,
         seenReady' = seenReady \/ seenReady' = seenReady \cup {f}
  PROVE  [Gate!Next]_(Gate!gateVars)
<1>1. CASE seenReady' = seenReady
  BY <1>1, GateStutters
<1>2. CASE seenReady' = seenReady \cup {f}
  <2>1. Gate!BecomeReady
    BY <1>2 DEF Gate!BecomeReady
  <2> QED
    BY <2>1 DEF Gate!Next
<1> QED
  BY <1>1, <1>2

(* Whatever the cache, the single-flight group, the provider and its       *)
(* operators do, a request moves as ScaleGate allows: one answer, never    *)
(* silence, and no admission to a function that has not been ready         *)
(* (handlers/scaling.go 29-60).                                            *)
THEOREM ScalerKeepsPromise == Spec => Gate!Init /\ [][Gate!Next]_(Gate!gateVars)
<1>1. Init => Gate!Init
  BY DEF Init, ProviderInit, Gate!Init
<1>2. PromiseInv /\ PromiseInv' /\ [Next]_vars => [Gate!Next]_(Gate!gateVars)
  <2> SUFFICES ASSUME PromiseInv, PromiseInv', [Next]_vars
               PROVE  [Gate!Next]_(Gate!gateVars)
    OBVIOUS
  <2>1. CASE UNCHANGED vars
    BY <2>1, GateStutters DEF vars, requestVars, providerVars
  <2>2. ASSUME NEW f \in Functions,
               \/ Expire(f) \/ GetCall(f) \/ SetCall(f) \/ Fault(f)
               \/ (PodReady(f) \/ PodGone(f) \/ Operator(f)) /\ ScalerOnly
        PROVE  [Gate!Next]_(Gate!gateVars)
    BY <2>2, OutsideUnseen, OutsideKeepsPromise
  <2>3. ASSUME NEW r \in Requests, Serve(r) \/ Arrive(r) \/ Leave(r)
        PROVE  [Gate!Next]_(Gate!gateVars)
    BY <2>3, ServeKeepsPromise
  <2>4. CASE Next
    BY <2>2, <2>3, <2>4 DEF Next, UnattendedNext, CalmNext
  <2> QED
    BY <2>1, <2>4
<1> QED
  BY <1>1, <1>2, PromiseInvariance, PTL DEF Spec

------------------------------------------------------------------------------
(* When nothing fails *)

(* Every function is there, and every reading of it is good; a replica     *)
(* that has been read is still available, wherever the reading is kept.    *)
CalmInv ==
  /\ deployed = Functions
  /\ \A f \in Functions :
       /\ cache[f] > 0 => available[f] > 0
       /\ getCall[f].at = "answered" =>
            /\ ~getCall[f].reply.err
            /\ getCall[f].reply.available > 0 => available[f] > 0
       /\ setCall[f].at = "answered" => setCall[f].outcome = "accepted"
  /\ \A r \in Requests :
       /\ step[r] = "got" =>
            /\ ~got[r].err
            /\ got[r].available > 0 => available[target[r]] > 0
       /\ step[r] \notin {"refused", "broken"}
       /\ stage[r] \in {"retry", "set"} => tries[r] = 0
  /\ CalmForwardsToReady

LabelsAreAccepted == \A l \in LabelChoices : LabelsAccepted(l)

LEMMA EnterCalm ==
  ASSUME ScalerTypes, CalmInv, NEW r \in Requests, NEW s \in Stages, NEW n, Enter(r, s, n),
         s \in {"retry", "set"} => n = 0,
         UNCHANGED cache \/ (CacheSet(r) /\ step[r] = "got"),
         \A q \in Requests : q # r => target'[q] = target[q] /\ answer'[q] = answer[q],
         s = "done" => /\ answer'[r] = "forwarded"
                       /\ target'[r] = target[r]
                       /\ n < MaxPollCount => available[target[r]] > 0
  PROVE  CalmInv'
<1>1. /\ stage'[r] = s /\ tries'[r] = n /\ step'[r] = "call"
      /\ \A q \in Requests : q # r => /\ stage'[q] = stage[q]
                                      /\ tries'[q] = tries[q]
                                      /\ step'[q] = step[q]
                                      /\ got'[q] = got[q]
      /\ UNCHANGED <<deployed, available, getCall, setCall>>
  BY DEF Enter, ScalerTypes, providerVars, flightVars
<1>2. \A f \in Functions :
        \/ cache'[f] = cache[f]
        \/ f = target[r] /\ step[r] = "got" /\ cache'[f] = got[r].available
  <2>1. cache \in [Functions -> Nat \cup {NotCached}]
    BY DEF ScalerTypes
  <2> QED
    BY <2>1 DEF CacheSet
<1>3. \A f \in Functions : cache'[f] > 0 => available[f] > 0
  BY <1>2 DEF CalmInv
<1>4. CalmForwardsToReady'
  BY <1>1 DEF CalmInv, CalmForwardsToReady
<1> QED
  BY <1>1, <1>3, <1>4 DEF CalmInv

LEMMA FinishCalm ==
  ASSUME ScalerTypes, CalmInv, NEW r \in Requests, Finish(r, "forwarded"),
         UNCHANGED cache \/ (CacheSet(r) /\ step[r] = "got"),
         tries[r] < MaxPollCount => available[target[r]] > 0
  PROVE  CalmInv'
<1>1. /\ Enter(r, "done", tries[r]) /\ "done" \in Stages /\ UNCHANGED target
      /\ answer'[r] = "forwarded"
      /\ \A q \in Requests : q # r => answer'[q] = answer[q]
  BY DEF Finish, Stages, ScalerTypes
<1> QED
  BY <1>1, EnterCalm

LEMMA ServeCalm ==
  ASSUME ScalerTypes, LoopsWithinLimits, CalmInv, NEW r \in Requests, Serve(r) \/ Arrive(r) \/ Leave(r)
  PROVE  CalmInv'
<1>1. /\ \A s \in {"idle", "lookup", "first", "retry", "set", "poll"} : s \in Stages /\ s # "done"
      /\ MaxPollCount \in Nat \ {0} /\ SetScaleRetries \in Nat \ {0}
      /\ tries[r] \in Int
  BY ScalerAssumption DEF Stages, ScalerTypes
<1>2. ASSUME step[r] = "got"
      PROVE  ~got[r].err /\ (got[r].available > 0 => available[target[r]] > 0)
  BY <1>2 DEF CalmInv
<1>3. CASE Arrive(r) \/ Leave(r)
  <2>1. /\ \E s \in {"idle", "lookup"} : Enter(r, s, 0)
        /\ \A q \in Requests : q # r => target'[q] = target[q] /\ answer'[q] = answer[q]
        /\ UNCHANGED cache
    BY <1>3 DEF Arrive, Leave, ScalerTypes
  <2> QED
    BY <1>1, <2>1, EnterCalm
<1>4. CASE CacheMiss(r) \/ FirstStarting(r) \/ FirstZero(r) \/ RetryScaled(r) \/ SetAccepted(r)
  <2>1. /\ \E s \in {"first", "poll", "retry"} : Enter(r, s, 0)
        /\ UNCHANGED <<target, answer>>
        /\ UNCHANGED cache \/ (CacheSet(r) /\ step[r] = "got")
    BY <1>4 DEF CacheMiss, FirstStarting, FirstZero, RetryScaled, SetAccepted, Holds, Read
  <2> QED
    BY <1>1, <2>1, EnterCalm
<1>5. CASE RetryStillZero(r)
  <2>1. /\ Enter(r, "set", tries[r]) /\ CacheSet(r) /\ step[r] = "got" /\ stage[r] = "retry"
        /\ UNCHANGED <<target, answer>>
    BY <1>5 DEF RetryStillZero, Holds, Read
  <2>2. tries[r] = 0
    BY <2>1 DEF CalmInv
  <2> QED
    BY <1>1, <2>1, <2>2, EnterCalm
<1>6. CASE PollAgain(r)
  <2>1. /\ Enter(r, "poll", tries[r] + 1) /\ CacheSet(r) /\ step[r] = "got"
        /\ UNCHANGED <<target, answer>>
    BY <1>6 DEF PollAgain, Holds, Read
  <2> QED
    BY <1>1, <2>1, EnterCalm
<1>7. CASE FirstFailed(r) \/ RetryFailed(r) \/ PollFailed(r)
  BY <1>2, <1>7 DEF FirstFailed, RetryFailed, PollFailed, Holds
<1>8. CASE SetRefused(r) \/ SetPanicked(r)
  BY <1>8 DEF SetRefused, SetPanicked, CalmInv
<1>9. CASE RetriesExhausted(r)
  BY <1>1, <1>9 DEF RetriesExhausted, CalmInv
<1>10. CASE CacheHit(r)
  <2>1. Finish(r, "forwarded") /\ UNCHANGED cache /\ cache[target[r]] > 0
    BY <1>10 DEF CacheHit, Return, HandlerAnswer
  <2>2. available[target[r]] > 0
    BY <2>1 DEF CalmInv, ScalerTypes
  <2> QED
    BY <2>1, <2>2, FinishCalm
<1>11. CASE FirstReady(r) \/ PollReady(r)
  <2>1. /\ Finish(r, "forwarded") /\ step[r] = "got" /\ got[r].available > 0
        /\ UNCHANGED cache \/ CacheSet(r)
    BY <1>11 DEF FirstReady, PollReady, Return, HandlerAnswer, Holds, Read
  <2> QED
    BY <1>2, <2>1, FinishCalm
<1>12. CASE PollsExhausted(r)
  <2>1. Finish(r, "forwarded") /\ UNCHANGED cache /\ tries[r] = MaxPollCount
    BY <1>12 DEF PollsExhausted, Return, HandlerAnswer
  <2> QED
    BY <1>1, <2>1, FinishCalm
<1>13. CASE LeadGet(r) \/ FollowGet(r) \/ LeadSet(r) \/ FollowSet(r)
  <2>1. /\ UNCHANGED <<deployed, available, stage, target, tries, got, answer, cache>>
        /\ step' = [step EXCEPT ![r] = "wait"]
    BY <1>13 DEF LeadGet, FollowGet, LeadSet, FollowSet, Wait, providerVars
  <2>2. \A q \in Requests : step'[q] = step[q] \/ step'[q] = "wait"
    BY <2>1 DEF ScalerTypes
  <2>3. \A f \in Functions :
          /\ getCall'[f] = getCall[f] \/ getCall'[f].at = "sent"
          /\ setCall'[f] = setCall[f] \/ setCall'[f].at = "sent"
    BY <1>13 DEF LeadGet, FollowGet, LeadSet, FollowSet, flightVars, ScalerTypes
  <2>4. CalmForwardsToReady'
    BY <2>1 DEF CalmInv, CalmForwardsToReady
  <2> QED
    BY <2>1, <2>2, <2>3, <2>4 DEF CalmInv
<1> QED
  BY <1>3, <1>4, <1>5, <1>6, <1>7, <1>8, <1>9, <1>10, <1>11, <1>12, <1>13 DEF Serve

(* The provider answers, and replicas start. *)
LEMMA OutsideCalm ==
  ASSUME ScalerTypes, CalmInv, LabelsAreAccepted, NEW f \in Functions,
         Expire(f) \/ GetCall(f) \/ SetCall(f) \/ (PodReady(f) /\ ScalerOnly)
  PROVE  CalmInv'
<1>1. CASE Expire(f)
  <2>1. /\ UNCHANGED <<deployed, available, stage, step, target, tries, got, answer, getCall,
                       setCall>>
        /\ \A g \in Functions : cache'[g] = cache[g] \/ cache'[g] = NotCached
    BY <1>1 DEF Expire, providerVars, requestVars, flightVars, ScalerTypes
  <2>2. ~(NotCached > 0)
    BY DEF NotCached
  <2>3. CalmForwardsToReady'
    BY <2>1 DEF CalmInv, CalmForwardsToReady
  <2> QED
    BY <2>1, <2>2, <2>3 DEF CalmInv
<1>2. CASE AnswerGet(f)
  <2>1. /\ UNCHANGED <<deployed, available, stage, step, target, tries, got, answer, cache,
                       setCall>>
        /\ getCall' = [getCall EXCEPT ![f] = [at |-> "answered", reply |-> GetReplicas(f)]]
    BY <1>2 DEF AnswerGet, providerVars, requestVars
  <2>2. \A g \in Functions : getCall'[g] = IF g = f THEN [at |-> "answered", reply |-> GetReplicas(f)]
                                                    ELSE getCall[g]
    BY <2>1 DEF ScalerTypes
  <2>3. ~GetReplicas(f).err /\ (GetReplicas(f).available > 0 => available[f] > 0)
    <3>1. f \in deployed
      BY DEF CalmInv
    <3>2. labels[f] \in LabelChoices
      BY DEF ScalerTypes, ProviderTypeOK
    <3> QED
      BY <3>1, <3>2 DEF GetReplicas, LabelsAreAccepted
  <2>4. CalmForwardsToReady'
    BY <2>1 DEF CalmInv, CalmForwardsToReady
  <2> QED
    BY <2>1, <2>2, <2>3, <2>4 DEF CalmInv
<1>3. CASE ReturnGet(f)
  <2>1. /\ UNCHANGED <<deployed, available, stage, target, tries, answer, cache, setCall>>
        /\ getCall[f].at = "answered"
        /\ \A g \in Functions : getCall'[g] = IF g = f THEN FreeGet ELSE getCall[g]
    BY <1>3 DEF ReturnGet, providerVars, ScalerTypes
  <2>2. \A r \in Requests :
          \/ step'[r] = step[r] /\ got'[r] = got[r]
          \/ target[r] = f /\ step'[r] = "got" /\ got'[r] = getCall[f].reply
    BY <1>3 DEF ReturnGet, GetWaiters
  <2>3. CalmForwardsToReady'
    BY <2>1 DEF CalmInv, CalmForwardsToReady
  <2> QED
    BY <2>1, <2>2, <2>3 DEF CalmInv, FreeGet
<1>4. CASE AcceptSet(f)
  <2>1. /\ UNCHANGED <<deployed, available, stage, step, target, tries, got, answer, cache,
                       getCall>>
        /\ \A g \in Functions : setCall'[g] = setCall[g] \/ setCall'[g].outcome = "accepted"
    BY <1>4 DEF AcceptSet, ApplyScale, SettleSet, requestVars, ScalerTypes
  <2>2. CalmForwardsToReady'
    BY <2>1 DEF CalmInv, CalmForwardsToReady
  <2> QED
    BY <2>1, <2>2 DEF CalmInv
<1>5. CASE ReturnSet(f)
  <2>1. /\ UNCHANGED <<deployed, available, stage, target, tries, got, answer, cache, getCall>>
        /\ setCall[f].at = "answered"
        /\ \A g \in Functions : setCall'[g] = IF g = f THEN FreeSet ELSE setCall[g]
    BY <1>5 DEF ReturnSet, providerVars, ScalerTypes
  <2>2. \A r \in Requests : step'[r] = step[r] \/ step'[r] = "accepted"
    BY <1>5 DEF ReturnSet, CalmInv
  <2>3. CalmForwardsToReady'
    BY <2>1 DEF CalmInv, CalmForwardsToReady
  <2> QED
    BY <2>1, <2>2, <2>3 DEF CalmInv, FreeSet
<1>6. CASE PodReady(f) /\ ScalerOnly
  <2>1. UNCHANGED <<deployed, stage, step, target, tries, got, answer, cache, getCall, setCall>>
    BY <1>6 DEF PodReady, ScalerOnly, requestVars, flightVars
  <2>2. \A g \in Functions : available[g] > 0 => available'[g] > 0
    BY <1>6 DEF PodReady, ScalerTypes, ProviderTypeOK
  <2>3. \A r \in Requests : target[r] \in Functions
    BY DEF ScalerTypes
  <2>4. CalmForwardsToReady'
    BY <2>1, <2>2, <2>3 DEF CalmInv, CalmForwardsToReady
  <2> QED
    BY <2>1, <2>2, <2>3, <2>4 DEF CalmInv
<1> QED
  BY <1>1, <1>2, <1>3, <1>4, <1>5, <1>6 DEF GetCall, SetCall

(* When no call fails, nobody else scales and every label is acceptable,   *)
(* scale from zero forwards every request it answers, and unless its poll  *)
(* loop ran out the function is available then (function_scaler.go 46-196).*)
(* The requests share readings, cache entries and calls as they will.      *)
THEOREM CalmRequestsForward ==
  ASSUME LabelsAreAccepted
  PROVE  CalmSpec => []CalmForwardsToReady
<1> DEFINE Inv == ScalerTypes /\ LoopsWithinLimits /\ CalmInv
<1>1. Init => Inv
  <2>1. Init => CalmInv
    BY DEF Init, ProviderInit, CalmInv, CalmForwardsToReady, NotCached, FreeGet, FreeSet
  <2> QED
    BY <2>1, InitInv DEF IInv
<1>2. Inv /\ [CalmNext]_vars => Inv'
  <2> SUFFICES ASSUME Inv, [CalmNext]_vars PROVE Inv'
    OBVIOUS
  <2>1. ASSUME NEW r \in Requests, Arrive(r) \/ Serve(r) \/ Leave(r)
        PROVE  Inv'
    BY <2>1, ServeType, ServeLoop, ServeCalm
  <2>2. ASSUME NEW f \in Functions,
               Expire(f) \/ GetCall(f) \/ SetCall(f) \/ (PodReady(f) /\ ScalerOnly)
        PROVE  Inv'
    BY <2>2, OutsideType, OutsideLoop, OutsideCalm
  <2>3. CASE UNCHANGED vars
    BY <2>3
       DEF vars, providerVars, requestVars, flightVars, ScalerTypes, ProviderTypeOK,
           LoopsWithinLimits,
                CalmInv, CalmForwardsToReady
  <2> QED
    BY <2>1, <2>2, <2>3 DEF CalmNext
<1>3. Inv => CalmForwardsToReady
  BY DEF CalmInv
<1> QED
  BY <1>1, <1>2, <1>3, PTL DEF CalmSpec
=============================================================================
