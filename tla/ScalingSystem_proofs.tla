------------------------ MODULE ScalingSystem_proofs ------------------------
(***************************************************************************)
(* The three writers together: for any number of requests, handlers and    *)
(* functions, whatever calls fail and however stale the readings are that  *)
(* they act on, the gateway's ceiling is kept.                             *)
(*                                                                         *)
(* The lemmas of AlertHandler_proofs are used of the handlers here, which  *)
(* share the provider with requests.                                       *)
(***************************************************************************)
EXTENDS ScalingSystem, FunctionScaler_proofs

Handling == INSTANCE AlertHandler_proofs

(* A count that scale from zero has read, and will ask for, is as sane as  *)
(* the labels it was read from, wherever it is kept until then.            *)
KeptInv ==
  Alerts!SaneLabels =>
    /\ \A r \in Requests :
         floor[r] <= DefaultMaxReplicas /\ got[r].min <= DefaultMaxReplicas
    /\ \A f \in Functions :
         /\ getCall[f].reply.min <= DefaultMaxReplicas
         /\ setCall[f].count <= DefaultMaxReplicas

SystemInv == ScalerTypes /\ LoopsWithinLimits /\ Handling!AlertInv /\ KeptInv

------------------------------------------------------------------------------
(* The handlers of AlertHandler and of its proofs are the same *)

LEMMA SameProvider ==
  /\ Handling!providerVars = providerVars
  /\ Handling!ProviderTypeOK <=> ProviderTypeOK
  /\ Handling!SaneLabels <=> Alerts!SaneLabels
  /\ Handling!AlertTypeOK <=> Alerts!AlertTypeOK
  /\ Handling!AlertInit <=> Alerts!AlertInit
<1>1. Handling!providerVars = providerVars
  BY DEF Handling!providerVars, providerVars
<1>2. Handling!ProviderTypeOK <=> ProviderTypeOK
  BY DEF Handling!ProviderTypeOK, ProviderTypeOK
<1>3. Handling!SaneLabels <=> Alerts!SaneLabels
  BY DEF Handling!SaneLabels, Handling!MinReplicasOf, Handling!ExtractLabelValue,
         Alerts!SaneLabels, Alerts!MinReplicasOf, Alerts!ExtractLabelValue
<1>4. Handling!AlertTypeOK <=> Alerts!AlertTypeOK
  BY DEF Handling!AlertTypeOK, Handling!ProviderTypeOK, Handling!Response,
         Alerts!AlertTypeOK, Alerts!ProviderTypeOK, Alerts!Response
<1>5. Handling!AlertInit <=> Alerts!AlertInit
  BY DEF Handling!AlertInit, Handling!EmptyResponse, Alerts!AlertInit, Alerts!EmptyResponse
<1> QED
  BY <1>1, <1>2, <1>3, <1>4, <1>5

LEMMA SanityIsConstant == Alerts!SaneLabels' <=> Alerts!SaneLabels
BY DEF Alerts!SaneLabels, Alerts!MinReplicasOf, Alerts!ExtractLabelValue

LEMMA SameHandle ==
  ASSUME NEW h \in Handlers, Alerts!Handle(h)
  PROVE  Handling!Handle(h)
<1>1. \A f : Handling!GetReplicas(f) = Alerts!GetReplicas(f)
  BY DEF Handling!GetReplicas, Handling!LabelsAccepted, Handling!MinReplicasOf,
         Handling!MaxReplicasOf, Handling!ScalingFactorOf, Handling!ExtractLabelValue,
         Handling!EmptyResponse,
         Alerts!GetReplicas, Alerts!LabelsAccepted, Alerts!MinReplicasOf,
         Alerts!MaxReplicasOf, Alerts!ScalingFactorOf, Alerts!ExtractLabelValue,
         Alerts!EmptyResponse
<1>2. Handling!Alert(h) = Alerts!Alert(h) /\ Handling!Target(h) = Alerts!Target(h)
  BY DEF Handling!Alert, Handling!Target, Handling!CalculateReplicas, Handling!Ceiling,
         Handling!ScaleStep, Handling!AtMost,
         Alerts!Alert, Alerts!Target, Alerts!CalculateReplicas, Alerts!Ceiling,
         Alerts!ScaleStep, Alerts!AtMost
<1>3. \A failed \in BOOLEAN : Handling!Advance(h, failed) <=> Alerts!Advance(h, failed)
  BY DEF Handling!Advance, Handling!EmptyResponse, Alerts!Advance, Alerts!EmptyResponse
<1>4. \A f, n : Handling!ApplyScale(f, n) <=> Alerts!ApplyScale(f, n)
  BY DEF Handling!ApplyScale, Alerts!ApplyScale
<1>5. /\ Handling!EmptyResponse = Alerts!EmptyResponse
      /\ Handling!AtAlert(h) <=> Alerts!AtAlert(h)
      /\ Handling!Setting(h) <=> Alerts!Setting(h)
  BY <1>2 DEF Handling!EmptyResponse, Handling!AtAlert, Handling!Setting,
              Alerts!EmptyResponse, Alerts!AtAlert, Alerts!Setting
<1>6. Alerts!Receive(h) => Handling!Receive(h)
  BY <1>5 DEF Handling!Receive, Alerts!Receive, Handling!providerVars, Alerts!providerVars
<1>7. Alerts!Reject(h) => Handling!Reject(h)
  BY <1>5 DEF Handling!Reject, Alerts!Reject, Handling!providerVars, Alerts!providerVars
<1>8. Alerts!SkipUnnamed(h) => Handling!SkipUnnamed(h)
  BY <1>2, <1>3, <1>5
     DEF Handling!SkipUnnamed, Alerts!SkipUnnamed, Handling!providerVars, Alerts!providerVars
<1>9. Alerts!Query(h) => Handling!Query(h)
  BY <1>1, <1>2, <1>5
     DEF Handling!Query, Alerts!Query, Handling!providerVars, Alerts!providerVars
<1>10. Alerts!QueryFailed(h) => Handling!QueryFailed(h)
  BY <1>2, <1>3, <1>5
     DEF Handling!QueryFailed, Alerts!QueryFailed, Handling!providerVars, Alerts!providerVars
<1>11. Alerts!AlreadyThere(h) => Handling!AlreadyThere(h)
  BY <1>2, <1>3, <1>5
     DEF Handling!AlreadyThere, Alerts!AlreadyThere, Handling!providerVars, Alerts!providerVars
<1>12. Alerts!Set(h) => Handling!Set(h)
  BY <1>2, <1>3, <1>4, <1>5
     DEF Handling!Set, Alerts!Set, Handling!providerVars, Alerts!providerVars
<1>13. Alerts!SetRefused(h) => Handling!SetRefused(h)
  BY <1>2, <1>3, <1>4, <1>5
     DEF Handling!SetRefused, Handling!PerhapsScaled, Handling!providerVars,
         Alerts!SetRefused, Alerts!PerhapsScaled, Alerts!providerVars
<1>14. Alerts!SetBroken(h) => Handling!SetBroken(h)
  BY <1>2, <1>4, <1>5
     DEF Handling!SetBroken, Handling!PerhapsScaled, Handling!providerVars,
         Alerts!SetBroken, Alerts!PerhapsScaled, Alerts!providerVars
<1>15. Alerts!Reply(h) => Handling!Reply(h)
  BY <1>5 DEF Handling!Reply, Alerts!Reply, Handling!providerVars, Alerts!providerVars
<1>16. Alerts!Done(h) => Handling!Done(h)
  BY <1>5 DEF Handling!Done, Alerts!Done, Handling!providerVars, Alerts!providerVars
<1> QED
  BY <1>6, <1>7, <1>8, <1>9, <1>10, <1>11, <1>12, <1>13, <1>14, <1>15, <1>16
     DEF Handling!Handle, Alerts!Handle

------------------------------------------------------------------------------
(* Steps of the handlers *)

LEMMA HandlerStep ==
  ASSUME SystemInv, NEW h \in Handlers, Alerts!Handle(h), ScalerOnly
  PROVE  SystemInv'
<1>1. Handling!AlertInv'
  <2>1. Handling!Handle(h) /\ Handling!AlertInv
    BY SameHandle DEF SystemInv
  <2>2. LabelChoices \subseteq Handling!Labels
    BY ProviderAssumption DEF Labels, RawLabel, Handling!Labels, Handling!RawLabel
  <2> QED
    BY <2>1, <2>2, RulesAssumption, SystemAssumption, Handling!HandleInv
<1>2. ProviderTypeOK'
  BY <1>1 DEF Handling!AlertInv, Handling!AlertTypeOK, Handling!ProviderTypeOK,
              ProviderTypeOK
<1>3. UNCHANGED <<stage, step, target, tries, floor, got, answer, cache, getCall, setCall>>
  BY DEF ScalerOnly, requestVars, flightVars
<1>4. ScalerTypes'
  BY <1>2, <1>3 DEF SystemInv, ScalerTypes
<1>5. LoopsWithinLimits'
  BY <1>3 DEF SystemInv, LoopsWithinLimits
<1>6. KeptInv'
  BY <1>3, SanityIsConstant DEF SystemInv, KeptInv
<1> QED
  BY <1>1, <1>4, <1>5, <1>6 DEF SystemInv

(* What the other writers do to the provider is nothing to the handlers,   *)
(* as long as it stays within the ceiling.                                 *)
LEMMA HandlersUndisturbed ==
  ASSUME Handling!AlertInv, UNCHANGED alertVars, ProviderTypeOK',
         Alerts!SaneLabels => \A f \in Functions : replicas'[f] <= DefaultMaxReplicas
  PROVE  Handling!AlertInv'
<1>1. UNCHANGED <<phase, batch, pos, reading, errors, lost, reply>>
  BY DEF alertVars
<1>2. Handling!AlertTypeOK'
  BY <1>1 DEF Handling!AlertInv, Handling!AlertTypeOK, Handling!ProviderTypeOK,
              ProviderTypeOK
<1>3. Handling!PositionInv'
  BY <1>1 DEF Handling!AlertInv, Handling!PositionInv, Handling!Alert
<1>4. Handling!CeilingInv'
  BY <1>1, SameProvider DEF Handling!AlertInv, Handling!CeilingInv
<1> QED
  BY <1>2, <1>3, <1>4 DEF Handling!AlertInv

(* No function is beyond the ceiling. *)
LEMMA ScaleBound ==
  ASSUME SystemInv, Alerts!SaneLabels
  PROVE  \A f \in Functions : replicas[f] <= DefaultMaxReplicas
BY SameProvider DEF SystemInv, Handling!AlertInv, Handling!CeilingInv

------------------------------------------------------------------------------
(* Steps of the requests *)

LEMMA KeptTypes ==
  ASSUME SystemInv
  PROVE  /\ got \in [Requests -> Response]
         /\ floor \in [Requests -> Nat]
         /\ getCall \in [Functions -> GetSlot]
         /\ setCall \in [Functions -> SetSlot]
         /\ target \in [Requests -> Functions]
         /\ ProviderTypeOK
BY DEF SystemInv, ScalerTypes

LEMMA KeptEmpty == EmptyResponse.min <= DefaultMaxReplicas /\ 0 <= DefaultMaxReplicas
BY RulesAssumption DEF EmptyResponse

(* A request moves on: it forgets what it read.                            *)
LEMMA EnterKept ==
  ASSUME SystemInv, NEW r \in Requests, NEW s, NEW n, Enter(r, s, n),
         Alerts!SaneLabels => \A q \in Requests : floor[q]' <= DefaultMaxReplicas
  PROVE  KeptInv' /\ UNCHANGED providerVars
<1>1. /\ got' = [got EXCEPT ![r] = EmptyResponse]
      /\ UNCHANGED <<getCall, setCall>>
      /\ UNCHANGED providerVars
  BY DEF Enter, flightVars
<1>2. \A q \in Requests : got'[q].min = got[q].min \/ got'[q].min <= DefaultMaxReplicas
  BY <1>1, KeptTypes, KeptEmpty
<1>3. KeptInv
  BY DEF SystemInv
<1> QED
  BY <1>1, <1>2, <1>3, SanityIsConstant DEF KeptInv

LEMMA EnterKeepsFloor ==
  ASSUME SystemInv, NEW r \in Requests, NEW s, NEW n, Enter(r, s, n), UNCHANGED floor
  PROVE  KeptInv' /\ UNCHANGED providerVars
BY EnterKept DEF SystemInv, KeptInv

LEMMA WaitKept ==
  ASSUME SystemInv, NEW r \in Requests, Wait(r),
         NEW f \in Functions,
         \/ UNCHANGED getCall
         \/ getCall' = [getCall EXCEPT ![f] = [at |-> "sent", reply |-> EmptyResponse]],
         \/ UNCHANGED setCall
         \/ setCall' = [setCall EXCEPT ![f] =
                          [at |-> "sent", count |-> floor[r], outcome |-> "refused"]]
  PROVE  KeptInv' /\ UNCHANGED providerVars
<1>1. UNCHANGED <<floor, got>> /\ UNCHANGED providerVars
  BY DEF Wait
<1>2. \A g \in Functions : getCall'[g].reply.min = getCall[g].reply.min
                           \/ getCall'[g].reply.min <= DefaultMaxReplicas
  BY KeptTypes, KeptEmpty
<1>3. \A g \in Functions : setCall'[g].count \in {setCall[g].count, floor[r]}
  BY KeptTypes
<1>4. KeptInv
  BY DEF SystemInv
<1> QED
  BY <1>1, <1>2, <1>3, <1>4, SanityIsConstant DEF KeptInv

LEMMA RequestKept ==
  ASSUME SystemInv, NEW r \in Requests, Serve(r) \/ Arrive(r) \/ Leave(r)
  PROVE  KeptInv' /\ UNCHANGED providerVars
<1>1. CASE \/ CacheHit(r) \/ FirstFailed(r) \/ FirstReady(r) \/ RetriesExhausted(r)
           \/ SetPanicked(r) \/ PollFailed(r) \/ PollReady(r) \/ PollsExhausted(r)
  <2>1. UNCHANGED floor /\ Enter(r, "done", tries[r])
    BY <1>1 DEF CacheHit, FirstFailed, FirstReady, RetriesExhausted, SetPanicked,
                PollFailed, PollReady, PollsExhausted, Return, Finish
  <2> QED
    BY <2>1, EnterKeepsFloor
<1>2. CASE \/ Arrive(r) \/ CacheMiss(r) \/ FirstStarting(r) \/ RetryFailed(r)
           \/ RetryScaled(r) \/ RetryStillZero(r) \/ SetAccepted(r) \/ SetRefused(r)
           \/ PollAgain(r)
  <2>1. UNCHANGED floor /\ \E s, n : Enter(r, s, n)
    BY <1>2 DEF Arrive, CacheMiss, FirstStarting, RetryFailed, RetryScaled, RetryStillZero,
                SetAccepted, SetRefused, PollAgain
  <2> QED
    BY <2>1, EnterKeepsFloor
<1>3. CASE Leave(r)
  <2>1. Enter(r, "idle", 0) /\ floor' = [floor EXCEPT ![r] = 0]
    BY <1>3 DEF Leave
  <2>2. Alerts!SaneLabels => \A q \in Requests : floor'[q] <= DefaultMaxReplicas
    BY <2>1, KeptTypes, KeptEmpty DEF SystemInv, KeptInv
  <2> QED
    BY <2>1, <2>2, EnterKept
<1>4. CASE FirstZero(r)
  <2>1. /\ Enter(r, "retry", 0)
        /\ floor' = [floor EXCEPT ![r] = ScaleFromZeroTarget(got[r].min)]
    BY <1>4 DEF FirstZero
  <2>2. got[r].min \in Nat
    BY KeptTypes DEF Response
  <2>3. Alerts!SaneLabels => ScaleFromZeroTarget(got[r].min) <= DefaultMaxReplicas
    BY <2>2, RulesAssumption DEF SystemInv, KeptInv, ScaleFromZeroTarget
  <2>4. Alerts!SaneLabels => \A q \in Requests : floor'[q] <= DefaultMaxReplicas
    BY <2>1, <2>3, KeptTypes DEF SystemInv, KeptInv
  <2> QED
    BY <2>1, <2>4, EnterKept
<1>5. CASE LeadGet(r) \/ FollowGet(r)
  BY <1>5, WaitKept, KeptTypes DEF LeadGet, FollowGet, flightVars
<1>6. CASE LeadSet(r) \/ FollowSet(r)
  BY <1>6, WaitKept, KeptTypes DEF LeadSet, FollowSet, flightVars
<1> QED
  BY <1>1, <1>2, <1>3, <1>4, <1>5, <1>6 DEF Serve

LEMMA RequestStep ==
  ASSUME SystemInv, NEW r \in Requests, Serve(r) \/ Arrive(r) \/ Leave(r),
         UNCHANGED alertVars
  PROVE  SystemInv'
<1>1. KeptInv' /\ UNCHANGED providerVars
  BY RequestKept
<1>2. ScalerTypes' /\ LoopsWithinLimits'
  BY ServeType, ServeLoop DEF SystemInv
<1>3. Alerts!SaneLabels => \A f \in Functions : replicas'[f] <= DefaultMaxReplicas
  BY <1>1, ScaleBound DEF providerVars
<1>4. Handling!AlertInv'
  BY <1>2, <1>3, HandlersUndisturbed DEF ScalerTypes, SystemInv
<1> QED
  BY <1>1, <1>2, <1>4 DEF SystemInv

------------------------------------------------------------------------------
(* Steps of the provider, of its operators, and of the calls in progress *)

(* A query reads a minimum that is as sane as the labels. *)
LEMMA AnswerKept ==
  ASSUME SystemInv, NEW f \in Functions, Alerts!SaneLabels
  PROVE  GetReplicas(f).min <= DefaultMaxReplicas
<1>1. labels[f] \in LabelChoices
  BY KeptTypes DEF ProviderTypeOK
<1>2. Alerts!MinReplicasOf(labels[f]) = MinReplicasOf(labels[f])
  BY DEF MinReplicasOf, ExtractLabelValue, Alerts!MinReplicasOf, Alerts!ExtractLabelValue
<1>3. MinReplicasOf(labels[f]) <= DefaultMaxReplicas
  BY <1>1, <1>2 DEF Alerts!SaneLabels
<1> QED
  BY <1>3, KeptEmpty DEF GetReplicas

LEMMA OutsideKept ==
  ASSUME SystemInv, NEW f \in Functions,
         \/ Expire(f) \/ GetCall(f) \/ SetCall(f) \/ Fault(f)
         \/ (PodReady(f) \/ PodGone(f) \/ Relabel(f) \/ ScaleFunction(f)) /\ ScalerOnly
  PROVE  KeptInv'
<1> USE SanityIsConstant
<1>1. KeptInv
  BY DEF SystemInv
<1>2. CASE UNCHANGED <<floor, got, getCall, setCall>>
  BY <1>1, <1>2 DEF KeptInv
<1>3. CASE AnswerGet(f)
  <2>1. /\ UNCHANGED <<floor, got, setCall>>
        /\ getCall' = [getCall EXCEPT ![f] = [at |-> "answered", reply |-> GetReplicas(f)]]
    BY <1>3 DEF AnswerGet, requestVars
  <2>2. \A g \in Functions : getCall'[g].reply = IF g = f THEN GetReplicas(f) ELSE getCall[g].reply
    BY <2>1, KeptTypes
  <2> QED
    BY <1>1, <2>1, <2>2, AnswerKept DEF KeptInv
<1>4. CASE DropGet(f)
  <2>1. /\ UNCHANGED <<floor, got, setCall>>
        /\ getCall' = [getCall EXCEPT ![f] = [at |-> "answered", reply |-> EmptyResponse]]
    BY <1>4 DEF DropGet, requestVars
  <2>2. \A g \in Functions : getCall'[g].reply = IF g = f THEN EmptyResponse ELSE getCall[g].reply
    BY <2>1, KeptTypes
  <2> QED
    BY <1>1, <2>1, <2>2, KeptEmpty DEF KeptInv
<1>5. CASE ReturnGet(f)
  <2>1. /\ UNCHANGED <<floor, setCall>>
        /\ getCall' = [getCall EXCEPT ![f] = FreeGet]
        /\ \A r \in Requests : got'[r] = getCall[f].reply \/ got'[r] = got[r]
    BY <1>5 DEF ReturnGet
  <2>2. \A g \in Functions : getCall'[g].reply = IF g = f THEN EmptyResponse ELSE getCall[g].reply
    BY <2>1, KeptTypes DEF FreeGet
  <2> QED
    BY <1>1, <2>1, <2>2, KeptEmpty DEF KeptInv
<1>6. CASE ReturnSet(f)
  <2>1. /\ UNCHANGED <<floor, got, getCall>>
        /\ setCall' = [setCall EXCEPT ![f] = FreeSet]
    BY <1>6 DEF ReturnSet
  <2>2. \A g \in Functions : setCall'[g].count = IF g = f THEN 0 ELSE setCall[g].count
    BY <2>1, KeptTypes DEF FreeSet
  <2> QED
    BY <1>1, <2>1, <2>2, KeptEmpty DEF KeptInv
<1>7. ASSUME NEW outcome, SettleSet(f, outcome)
      PROVE  KeptInv'
  <2>1. /\ UNCHANGED <<floor, got, getCall>>
        /\ setCall' = [setCall EXCEPT ![f] =
              [at |-> "answered", count |-> setCall[f].count, outcome |-> outcome]]
    BY <1>7 DEF SettleSet, requestVars
  <2>2. \A g \in Functions : setCall'[g].count = setCall[g].count
    BY <2>1, KeptTypes
  <2> QED
    BY <1>1, <2>1, <2>2 DEF KeptInv
<1>8. CASE AcceptSet(f) \/ RefuseSet(f) \/ BreakSet(f)
  BY <1>7, <1>8 DEF AcceptSet, RefuseSet, BreakSet
<1>9. CASE Expire(f) \/ ScalerOnly
  BY <1>2, <1>9 DEF Expire, ScalerOnly, requestVars, flightVars
<1> QED
  BY <1>3, <1>4, <1>5, <1>6, <1>8, <1>9 DEF GetCall, SetCall, Fault

(* What a function is scaled to, by whom it may be, is within the ceiling. *)
LEMMA OutsideBound ==
  ASSUME SystemInv, NEW f \in Functions, Alerts!SaneLabels,
         \/ Expire(f) \/ GetCall(f) \/ SetCall(f) \/ Fault(f)
         \/ (PodReady(f) \/ PodGone(f) \/ Relabel(f) \/ ScaleFunction(f)) /\ ScalerOnly
  PROVE  \A g \in Functions : replicas'[g] <= DefaultMaxReplicas
<1>1. replicas \in [Functions -> Nat]
      /\ \A g \in Functions : replicas[g] <= DefaultMaxReplicas
  BY KeptTypes, ScaleBound DEF ProviderTypeOK
<1>2. ASSUME NEW n, n <= DefaultMaxReplicas, ApplyScale(f, n)
      PROVE  \A g \in Functions : replicas'[g] <= DefaultMaxReplicas
  BY <1>1, <1>2 DEF ApplyScale
<1>3. CASE UNCHANGED replicas
  BY <1>1, <1>3
<1>4. CASE AcceptSet(f) \/ RefuseSet(f) \/ BreakSet(f)
  <2>1. ApplyScale(f, setCall[f].count) \/ UNCHANGED replicas
    BY <1>4 DEF AcceptSet, RefuseSet, BreakSet, PerhapsScaled, providerVars
  <2>2. setCall[f].count <= DefaultMaxReplicas
    BY DEF SystemInv, KeptInv
  <2> QED
    BY <1>2, <1>3, <2>1, <2>2
<1>5. CASE ScaleFunction(f)
  <2>1. PICK n \in Requested : ApplyScale(f, HorizontalReplicas(n))
    BY <1>5 DEF ScaleFunction
  <2>2. HorizontalReplicas(n) <= DefaultMaxReplicas
    BY <2>1, SystemAssumption, RulesAssumption DEF HorizontalReplicas, AtMost
  <2> QED
    BY <1>2, <2>1, <2>2
<1> QED
  BY <1>3, <1>4, <1>5
     DEF Expire, GetCall, SetCall, Fault, AnswerGet, DropGet, ReturnGet, ReturnSet,
         PodReady, PodGone, Relabel, providerVars

LEMMA OutsideStep ==
  ASSUME SystemInv, NEW f \in Functions, UNCHANGED alertVars,
         \/ Expire(f) \/ GetCall(f) \/ SetCall(f) \/ Fault(f)
         \/ (PodReady(f) \/ PodGone(f) \/ Relabel(f) \/ ScaleFunction(f)) /\ ScalerOnly
  PROVE  SystemInv'
<1>1. KeptInv'
  BY OutsideKept
<1>2. ScalerTypes' /\ LoopsWithinLimits'
  <2>1. CASE ScaleFunction(f) /\ ScalerOnly
    <3>1. PICK n \in Requested : ApplyScale(f, HorizontalReplicas(n))
      BY <2>1 DEF ScaleFunction
    <3>2. HorizontalReplicas(n) \in Nat
      BY <3>1, SystemAssumption, RulesAssumption DEF HorizontalReplicas, AtMost
    <3>3. ProviderTypeOK'
      BY <3>1, <3>2, KeptTypes, ApplyType
    <3>4. UNCHANGED <<stage, step, target, tries, floor, got, answer, cache, getCall, setCall>>
      BY <2>1 DEF ScalerOnly, requestVars, flightVars
    <3>5. ScalerTypes'
      BY <3>3, <3>4 DEF SystemInv, ScalerTypes
    <3>6. LoopsWithinLimits'
      BY <3>4 DEF SystemInv, LoopsWithinLimits
    <3> QED
      BY <3>5, <3>6
  <2>2. CASE ~(ScaleFunction(f) /\ ScalerOnly)
    <3>1. Relabel(f) => Operator(f)
      BY DEF Operator
    <3> QED
      BY <2>2, <3>1, OutsideType, OutsideLoop DEF SystemInv
  <2> QED
    BY <2>1, <2>2
<1>3. Handling!AlertInv'
  BY <1>2, OutsideBound, HandlersUndisturbed DEF ScalerTypes, SystemInv
<1> QED
  BY <1>1, <1>2, <1>3 DEF SystemInv

------------------------------------------------------------------------------
LEMMA SystemInvariance == SystemSpec => []SystemInv
<1>1. SystemInit => SystemInv
  <2> SUFFICES ASSUME SystemInit PROVE SystemInv
    OBVIOUS
  <2>1. ScalerTypes /\ LoopsWithinLimits
    BY InitInv DEF SystemInit, IInv
  <2>2. KeptInv
    BY KeptEmpty DEF SystemInit, Init, KeptInv, FreeGet, FreeSet
  <2>3. Handling!AlertInv
    <3>1. Handling!AlertInit /\ ProviderInit /\ ProviderTypeOK
      BY <2>1, SameProvider DEF SystemInit, Init, ScalerTypes
    <3>2. Len(<<>>) = 0 /\ Handling!EmptyResponse \in Handling!Response
      BY DEF Handling!EmptyResponse, Handling!Response
    <3>3. Handling!AlertTypeOK
      BY <3>1, <3>2, SameProvider DEF Handling!AlertInit, Handling!AlertTypeOK
    <3>4. Handling!PositionInv /\ Handling!CeilingInv
      BY <3>1, RulesAssumption
         DEF Handling!AlertInit, ProviderInit, Handling!PositionInv, Handling!CeilingInv,
             Handling!EmptyResponse
    <3> QED
      BY <3>3, <3>4 DEF Handling!AlertInv
  <2> QED
    BY <2>1, <2>2, <2>3 DEF SystemInv
<1>2. SystemInv /\ [SystemNext]_systemVars => SystemInv'
  <2> SUFFICES ASSUME SystemInv, [SystemNext]_systemVars PROVE SystemInv'
    OBVIOUS
  <2>1. CASE UnattendedNext /\ UNCHANGED alertVars
    BY <2>1, RequestStep, OutsideStep DEF UnattendedNext, CalmNext
  <2>2. CASE \E h \in Handlers : Alerts!Handle(h) /\ ScalerOnly
    BY <2>2, HandlerStep
  <2>3. CASE \E f \in Functions :
               (ScaleFunction(f) \/ Relabel(f)) /\ ScalerOnly /\ UNCHANGED alertVars
    BY <2>3, OutsideStep
  <2>4. CASE UNCHANGED systemVars
    <3>1. UNCHANGED vars /\ UNCHANGED alertVars
      BY <2>4 DEF systemVars
    <3>2. ScalerTypes' /\ LoopsWithinLimits'
      BY <3>1
         DEF SystemInv, ScalerTypes, ProviderTypeOK, LoopsWithinLimits, vars, providerVars,
                  requestVars, flightVars
    <3>3. KeptInv'
      BY <3>1, SanityIsConstant DEF SystemInv, KeptInv, vars, requestVars, flightVars
    <3>4. Handling!AlertInv'
      BY <3>1, <3>2, ScaleBound, HandlersUndisturbed
         DEF SystemInv, ScalerTypes, vars, providerVars
    <3> QED
      BY <3>2, <3>3, <3>4 DEF SystemInv
  <2> QED
    BY <2>1, <2>2, <2>3, <2>4 DEF SystemNext
<1> QED
  BY <1>1, <1>2, PTL DEF SystemSpec

(* Requests that scale from zero, alert handlers and manual requests never *)
(* take a function beyond DefaultMaxReplicas between them, whatever they   *)
(* had read and whatever another has written since (function_scaler.go 95, *)
(* alerthandler.go 127, ranges.go 42), as long as no label asks for a      *)
(* minimum beyond it.                                                      *)
THEOREM SystemRespectsCeiling == SystemSpec => []SystemWithinCeiling
<1>1. SystemInv => SystemWithinCeiling
  BY ScaleBound DEF SystemWithinCeiling
<1> QED
  BY <1>1, SystemInvariance, PTL
=============================================================================
