------------------------ MODULE AlertHandler_proofs -------------------------
(***************************************************************************)
(* Type correctness of AlertHandler, and the ceiling it never exceeds, for *)
(* any number of concurrent handlers and any batches; and that a handler   *)
(* by itself implements AutoScale and answers 200 when it has done what    *)
(* its alerts want.                                                        *)
(***************************************************************************)
EXTENDS AlertHandler, TLAPS

(* The arithmetic. The lemmas cited have no use for what is by hand. *)
Rules == INSTANCE AutoScale_proofs WITH Requested <- {}, rounds <- replicas

AlertSet == [function : Functions \cup {Unnamed}, firing : BOOLEAN]

(* A handler that has read a scale stands at an alert with a function; an  *)
(* idle one is back at the start.                                          *)
PositionInv ==
  \A h \in Handlers :
    /\ phase[h] = "read" => pos[h] <= Len(batch[h]) /\ Alert(h).function \in Functions
    /\ phase[h] = "idle" => pos[h] = 1

(* What is kept in a reading is as sane as the labels it was read from.    *)
CeilingInv ==
  SaneLabels =>
    /\ \A f \in Functions : replicas[f] <= DefaultMaxReplicas
    /\ \A h \in Handlers : reading[h].min <= DefaultMaxReplicas

AlertInv == AlertTypeOK /\ PositionInv /\ CeilingInv

------------------------------------------------------------------------------
(* The arithmetic is that of AutoScale_proofs *)

LEMMA SameArithmetic ==
  /\ \A n : Rules!Ceiling(n) = Ceiling(n)
  /\ \A n, p : Rules!ScaleStep(n, p) = ScaleStep(n, p) /\ Rules!AtMost(n, p) = AtMost(n, p)
  /\ \A l : /\ Rules!LabelsAccepted(l) <=> LabelsAccepted(l)
            /\ Rules!ScalingFactorOf(l) = ScalingFactorOf(l)
            /\ Rules!MaxReplicasOf(l) = MaxReplicasOf(l)
            /\ Rules!MinReplicasOf(l) = MinReplicasOf(l)
  /\ \A firing, n, max, min, p :
       Rules!CalculateReplicas(firing, n, max, min, p) = CalculateReplicas(firing, n, max, min, p)
  /\ \A firing, n, l : Rules!AlertTarget(firing, n, l) = AlertTarget(firing, n, l)
  /\ Rules!Labels = Labels
<1>1. /\ \A n : Rules!Ceiling(n) = Ceiling(n)
      /\ \A n, p : /\ Rules!ScaleStep(n, p) = ScaleStep(n, p)
                   /\ Rules!AtMost(n, p) = AtMost(n, p)
  BY DEF Rules!Ceiling, Rules!ScaleStep, Rules!AtMost, Ceiling, ScaleStep, AtMost
<1>2. \A l : /\ Rules!LabelsAccepted(l) <=> LabelsAccepted(l)
            /\ Rules!ScalingFactorOf(l) = ScalingFactorOf(l)
            /\ Rules!MaxReplicasOf(l) = MaxReplicasOf(l)
            /\ Rules!MinReplicasOf(l) = MinReplicasOf(l)
  BY DEF Rules!LabelsAccepted, Rules!ScalingFactorOf, Rules!MaxReplicasOf,
         Rules!MinReplicasOf, Rules!ExtractLabelValue,
         LabelsAccepted, ScalingFactorOf, MaxReplicasOf, MinReplicasOf, ExtractLabelValue
<1>3. \A firing, n, max, min, p :
        Rules!CalculateReplicas(firing, n, max, min, p) = CalculateReplicas(firing, n, max, min, p)
  BY <1>1 DEF Rules!CalculateReplicas, CalculateReplicas
<1>4. \A firing, n, l : Rules!AlertTarget(firing, n, l) = AlertTarget(firing, n, l)
  BY <1>2, <1>3 DEF Rules!AlertTarget, AlertTarget
<1>5. Rules!Labels = Labels
  BY DEF Rules!Labels, Rules!RawLabel, Labels, RawLabel
<1> QED
  BY <1>1, <1>2, <1>3, <1>4, <1>5

(* Of CalculateReplicas: the target of an alert is the minimum its labels  *)
(* ask for, or within the ceiling, wrapped additions included.             *)
LEMMA TargetBound ==
  ASSUME NEW firing \in BOOLEAN, NEW current \in Nat, NEW max \in Nat,
         NEW min \in Nat, NEW factor \in Nat
  PROVE  /\ CalculateReplicas(firing, current, max, min, factor) \in Nat
         /\ \/ CalculateReplicas(firing, current, max, min, factor) = min
            \/ CalculateReplicas(firing, current, max, min, factor) <= DefaultMaxReplicas
BY SameArithmetic, RulesAssumption, ProviderAssumption, Rules!TargetBound

(* It does what the alert wants, unless the addition wraps.                *)
LEMMA TargetReaches ==
  ASSUME NEW firing \in BOOLEAN, NEW current \in Nat, NEW l \in Labels,
         LabelsAccepted(l), current + DefaultMaxReplicas + 1 < UintModulus
  PROVE  LET ceil   == Ceiling(MaxReplicasOf(l))
             target == AlertTarget(firing, current, l)
         IN  /\ firing => target >= AtMost(ceil, ScaleStep(ceil, ScalingFactorOf(l)))
             /\ ~firing => target = MinReplicasOf(l)
BY SameArithmetic, RulesAssumption, ProviderAssumption, Rules!TargetReaches

------------------------------------------------------------------------------
(* The provider: its responses, and its own steps *)

(* What a query returns has the type of a response. *)
LEMMA GetReplicasType ==
  ASSUME ProviderTypeOK, NEW f \in Functions
  PROVE  GetReplicas(f) \in Response
<1>1. labels[f] \in Labels
  BY ProviderAssumption DEF ProviderTypeOK
<1>2. /\ MinReplicasOf(labels[f]) \in Nat
      /\ MaxReplicasOf(labels[f]) \in Nat
      /\ ScalingFactorOf(labels[f]) \in Nat
  BY <1>1, RulesAssumption
     DEF Labels, RawLabel, ExtractLabelValue, MinReplicasOf, MaxReplicasOf,
         ScalingFactorOf
<1>3. replicas[f] \in Nat /\ available[f] \in Nat
  BY DEF ProviderTypeOK
<1> QED
  BY <1>2, <1>3 DEF GetReplicas, EmptyResponse, Response

LEMMA EmptyResponseType == EmptyResponse \in Response
BY DEF EmptyResponse, Response

(* What the provider does by itself, or is told by others. *)
LEMMA OperatorType ==
  ASSUME ProviderTypeOK, NEW f \in Functions,
         PodReady(f) \/ PodGone(f) \/ Operator(f)
  PROVE  ProviderTypeOK'
<1> USE DEF ProviderTypeOK
<1>1. CASE PodGone(f)
  <2>1. available[f] \in Nat /\ available[f] > 0
    BY <1>1 DEF PodGone
  <2>2. available[f] - 1 \in Nat
    BY <2>1
  <2> QED
    BY <1>1, <2>2 DEF PodGone
<1>2. CASE PodReady(f) \/ Operator(f)
  BY <1>2 DEF PodReady, Operator, Deploy, Delete, Relabel, ScaledToZero, ApplyScale
<1> QED
  BY <1>1, <1>2

LEMMA ApplyType ==
  ASSUME ProviderTypeOK, NEW f, NEW n \in Nat, ApplyScale(f, n)
  PROVE  ProviderTypeOK'
BY DEF ProviderTypeOK, ApplyScale

------------------------------------------------------------------------------
LEMMA BatchSeq ==
  ASSUME AlertTypeOK, NEW h \in Handlers
  PROVE  batch[h] \in Seq(AlertSet)
<1>1. <<>> \in Seq(AlertSet)
  OBVIOUS
<1>2. batch[h] \in Batches \/ batch[h] = <<>>
  BY DEF AlertTypeOK
<1>3. Batches \subseteq Seq(AlertSet)
  BY AlertAssumption DEF AlertSet
<1> QED
  BY <1>1, <1>2, <1>3

LEMMA BatchType ==
  ASSUME AlertTypeOK, NEW h \in Handlers
  PROVE  /\ Len(batch[h]) \in Nat
         /\ \A i \in 1..Len(batch[h]) : batch[h][i] \in AlertSet
BY BatchSeq

LEMMA TargetType ==
  ASSUME AlertTypeOK, PositionInv, NEW h \in Handlers, phase[h] = "read"
  PROVE  /\ Target(h) \in Nat
         /\ Target(h) = reading[h].min \/ Target(h) <= DefaultMaxReplicas
<1>1. pos[h] \in 1..Len(batch[h])
  BY BatchType DEF AlertTypeOK, PositionInv
<1>2. Alert(h).firing \in BOOLEAN
  BY <1>1, BatchType DEF Alert, AlertSet
<1>3. /\ reading[h].replicas \in Nat
      /\ reading[h].max \in Nat
      /\ reading[h].min \in Nat
      /\ reading[h].factor \in Nat
  BY DEF AlertTypeOK, Response
<1> QED
  BY <1>2, <1>3, TargetBound DEF Target

(* An alert is done with: the provider is as good as before, or a target   *)
(* has been applied.                                                       *)
LEMMA AdvanceInv ==
  ASSUME AlertInv, NEW h \in Handlers, NEW failed \in BOOLEAN, Advance(h, failed),
         pos[h] <= Len(batch[h]),
         ProviderTypeOK',
         SaneLabels => \A f \in Functions : replicas[f]' <= DefaultMaxReplicas,
         lost' \in [Handlers -> Nat]
  PROVE  AlertInv'
<1> USE DEF AlertInv, AlertTypeOK, Advance
<1>1. pos[h] \in Nat \ {0} /\ Len(batch[h]) \in Nat /\ errors[h] \in Nat
  BY BatchType
<1>2. pos' \in [Handlers -> Nat \ {0}]
  <2>1. pos[h] + 1 \in Nat \ {0}
    BY <1>1
  <2> QED
    BY <2>1
<1>3. \A q \in Handlers : pos[q]' <= Len(batch[q]) + 1
  BY <1>1
<1>4. errors' \in [Handlers -> Nat]
  BY <1>1
<1>5. AlertTypeOK'
  BY <1>2, <1>3, <1>4, EmptyResponseType
<1>6. PositionInv'
  BY DEF PositionInv, Alert
<1>7. CeilingInv'
  BY RulesAssumption DEF CeilingInv, SaneLabels, EmptyResponse
<1> QED
  BY <1>5, <1>6, <1>7

(* A target that is applied is a natural number within the ceiling.        *)
LEMMA ApplyTarget ==
  ASSUME AlertInv, NEW h \in Handlers, phase[h] = "read",
         ApplyScale(Alert(h).function, Target(h)) \/ UNCHANGED providerVars
  PROVE  /\ ProviderTypeOK'
         /\ SaneLabels => \A f \in Functions : replicas[f]' <= DefaultMaxReplicas
<1> USE DEF AlertInv
<1>1. CASE UNCHANGED providerVars
  BY <1>1 DEF AlertTypeOK, ProviderTypeOK, CeilingInv, providerVars
<1>2. CASE ApplyScale(Alert(h).function, Target(h))
  <2>1. Target(h) \in Nat /\ (Target(h) = reading[h].min \/ Target(h) <= DefaultMaxReplicas)
    BY TargetType
  <2>2. ProviderTypeOK'
    BY <1>2, <2>1, ApplyType DEF AlertTypeOK
  <2>3. SaneLabels => Target(h) <= DefaultMaxReplicas
    BY <2>1 DEF CeilingInv
  <2> QED
    BY <1>2, <2>2, <2>3 DEF ApplyScale, CeilingInv, AlertTypeOK, ProviderTypeOK
<1> QED
  BY <1>1, <1>2

LEMMA HandleInv ==
  ASSUME AlertInv, NEW h \in Handlers, Handle(h)
  PROVE  AlertInv'
<1>1. /\ Len(batch[h]) \in Nat /\ pos[h] \in Nat \ {0} /\ lost[h] \in Nat
      /\ \A i \in 1..Len(batch[h]) : batch[h][i] \in AlertSet
  BY BatchType DEF AlertInv, AlertTypeOK
<1>2. ASSUME UNCHANGED providerVars
      PROVE  ProviderTypeOK' /\ (SaneLabels => \A f \in Functions : replicas[f]' <= DefaultMaxReplicas)
  BY <1>2 DEF AlertInv, AlertTypeOK, ProviderTypeOK, CeilingInv, providerVars
<1>3. CASE Receive(h)
  <2>1. PICK b \in Batches : batch' = [batch EXCEPT ![h] = b]
    BY <1>3 DEF Receive
  <2>2. Len(b) \in Nat
    BY AlertAssumption
  <2>3. pos[h] = 1
    BY <1>3 DEF Receive, AlertInv, PositionInv
  <2>4. AlertTypeOK'
    BY <1>2, <1>3, <2>1, <2>2, <2>3 DEF Receive, AlertInv, AlertTypeOK
  <2>5. PositionInv' /\ CeilingInv'
    BY <1>3, <2>1
       DEF Receive, AlertInv, AlertTypeOK, PositionInv, CeilingInv, SaneLabels, Alert,
           providerVars
  <2> QED
    BY <2>4, <2>5 DEF AlertInv
<1>4. CASE Reject(h)
  BY <1>2, <1>4 DEF Reject, AlertInv, AlertTypeOK, PositionInv, CeilingInv, Alert, providerVars
<1>5. CASE SkipUnnamed(h) \/ QueryFailed(h)
  <2>1. pos[h] <= Len(batch[h]) /\ Advance(h, FALSE) /\ UNCHANGED providerVars
    BY <1>5 DEF SkipUnnamed, QueryFailed, AtAlert
  <2>2. lost[h] + 1 \in Nat /\ lost \in [Handlers -> Nat]
    BY <1>1 DEF AlertInv, AlertTypeOK
  <2>3. lost' = lost \/ lost' = [lost EXCEPT ![h] = lost[h] + 1]
    BY <1>5 DEF SkipUnnamed, QueryFailed
  <2>4. lost' \in [Handlers -> Nat]
    BY <2>2, <2>3
  <2> QED
    BY <1>2, <2>1, <2>4, AdvanceInv
<1>6. CASE Query(h)
  <2> DEFINE f == Alert(h).function
  <2>1. pos[h] \in 1..Len(batch[h]) /\ f \in Functions
    BY <1>1, <1>6 DEF Query, AtAlert, Alert, AlertSet
  <2>2. GetReplicas(f) \in Response
    BY <2>1, GetReplicasType DEF AlertInv, AlertTypeOK
  <2>3. SaneLabels => GetReplicas(f).min <= DefaultMaxReplicas
    BY <2>1, RulesAssumption
       DEF AlertInv, AlertTypeOK, ProviderTypeOK, GetReplicas, EmptyResponse, SaneLabels
  <2>4. AlertTypeOK'
    BY <1>2, <1>6, <2>2 DEF Query, AlertInv, AlertTypeOK
  <2>5. PositionInv'
    BY <1>6, <2>1 DEF Query, AlertInv, AlertTypeOK, PositionInv, Alert
  <2>6. CeilingInv'
    BY <1>2, <1>6, <2>3 DEF Query, AlertInv, AlertTypeOK, CeilingInv, SaneLabels
  <2> QED
    BY <2>4, <2>5, <2>6 DEF AlertInv
<1>7. CASE AlreadyThere(h) \/ Set(h) \/ SetRefused(h)
  <2>1. /\ phase[h] = "read"
        /\ ApplyScale(Alert(h).function, Target(h)) \/ UNCHANGED providerVars
        /\ \E failed \in BOOLEAN : Advance(h, failed)
        /\ UNCHANGED lost
    BY <1>7 DEF AlreadyThere, Set, SetRefused, PerhapsScaled, Setting
  <2>2. pos[h] <= Len(batch[h]) /\ lost' \in [Handlers -> Nat]
    BY <2>1 DEF AlertInv, AlertTypeOK, PositionInv
  <2> QED
    BY <2>1, <2>2, ApplyTarget, AdvanceInv
<1>8. CASE SetBroken(h)
  <2>1. /\ phase[h] = "read"
        /\ ApplyScale(Alert(h).function, Target(h)) \/ UNCHANGED providerVars
    BY <1>8 DEF SetBroken, PerhapsScaled, Setting
  <2>2. /\ ProviderTypeOK'
        /\ SaneLabels => \A f \in Functions : replicas[f]' <= DefaultMaxReplicas
    BY <2>1, ApplyTarget
  <2>3. AlertTypeOK'
    BY <1>8, <2>2, EmptyResponseType DEF SetBroken, AlertInv, AlertTypeOK
  <2>4. PositionInv' /\ CeilingInv'
    BY <1>8, <2>2, RulesAssumption
       DEF SetBroken, AlertInv, AlertTypeOK, PositionInv, CeilingInv, SaneLabels, Alert,
           EmptyResponse
  <2> QED
    BY <2>3, <2>4 DEF AlertInv
<1>9. CASE Reply(h)
  BY <1>2, <1>9 DEF Reply, AlertInv, AlertTypeOK, PositionInv, CeilingInv, Alert, providerVars
<1>10. CASE Done(h)
  <2>1. Len(<<>>) = 0
    OBVIOUS
  <2> QED
    BY <1>2, <1>10, <2>1
       DEF Done, AlertInv, AlertTypeOK, PositionInv, CeilingInv, Alert, providerVars
<1> QED
  BY <1>3, <1>4, <1>5, <1>6, <1>7, <1>8, <1>9, <1>10 DEF Handle

LEMMA OperatorInv ==
  ASSUME AlertInv, NEW f \in Functions, Operator(f), UNCHANGED alertVars
  PROVE  AlertInv'
<1>1. ProviderTypeOK'
  BY OperatorType DEF AlertInv, AlertTypeOK
<1>2. AlertTypeOK'
  <2>1. UNCHANGED <<phase, batch, pos, reading, errors, lost, reply>>
    BY DEF alertVars
  <2> QED
    BY <1>1, <2>1 DEF AlertInv, AlertTypeOK
<1>3. \/ replicas' = replicas
      \/ \E n \in {0, 1} : replicas' = [replicas EXCEPT ![f] = n]
  BY DEF Operator, Deploy, Delete, Relabel, ScaledToZero, ApplyScale
<1>4. replicas \in [Functions -> Nat] /\ 1 <= DefaultMaxReplicas /\ 0 <= DefaultMaxReplicas
  BY RulesAssumption DEF AlertInv, AlertTypeOK, ProviderTypeOK
<1>5. SaneLabels => \A g \in Functions : replicas[g]' <= DefaultMaxReplicas
  BY <1>3, <1>4 DEF AlertInv, CeilingInv
<1>6. PositionInv' /\ CeilingInv'
  BY <1>5 DEF AlertInv, PositionInv, CeilingInv, alertVars, Alert
<1> QED
  BY <1>2, <1>6 DEF AlertInv

LEMMA AlertInitInv == Init => AlertInv
<1> SUFFICES ASSUME Init PROVE AlertInv
  OBVIOUS
<1>1. Len(<<>>) = 0
  OBVIOUS
<1>2. AlertTypeOK
  BY <1>1, EmptyResponseType DEF Init, AlertInit, ProviderInit, AlertTypeOK, ProviderTypeOK
<1>3. PositionInv /\ CeilingInv
  BY RulesAssumption
     DEF Init, AlertInit, ProviderInit, PositionInv, CeilingInv, EmptyResponse
<1> QED
  BY <1>2, <1>3 DEF AlertInv

LEMMA StutterInv ==
  ASSUME AlertInv, UNCHANGED handlerVars
  PROVE  AlertInv'
BY DEF handlerVars, providerVars, alertVars, AlertInv, AlertTypeOK, ProviderTypeOK,
       PositionInv, CeilingInv, Alert

LEMMA AlertInvariance == Spec => []AlertInv
<1>1. AlertInv /\ [Next]_handlerVars => AlertInv'
  BY HandleInv, OperatorInv, StutterInv DEF Next
<1> QED
  BY <1>1, AlertInitInv, PTL DEF Spec

(* The handlers' variables keep their types, and no handler goes past the  *)
(* end of its batch (alerthandler.go 75).                                  *)
THEOREM AlertTypeCorrect == Spec => []AlertTypeOK
<1>1. AlertInv => AlertTypeOK
  BY DEF AlertInv
<1> QED
  BY <1>1, AlertInvariance, PTL

(* Alerts never take a function beyond DefaultMaxReplicas, however many    *)
(* handlers act on stale readings of it (alerthandler.go 127 and 133) and  *)
(* whatever operators do meanwhile, provided no label asks for a minimum   *)
(* beyond it.                                                              *)
THEOREM AlertsRespectCeiling == Spec => []AlertsWithinCeiling
<1>1. AlertInv => AlertsWithinCeiling
  BY DEF AlertInv, CeilingInv, AlertsWithinCeiling
<1> QED
  BY <1>1, AlertInvariance, PTL

------------------------------------------------------------------------------
(* A handler by itself *)

(* It acts on what is still true: nobody writes between its query and its  *)
(* set.                                                                    *)
ReadingInv ==
  \A h \in Handlers :
    phase[h] = "read" => reading[h] = GetReplicas(Alert(h).function) /\ ~reading[h].err

(* What an alert wants of its function has been done. *)
Reached(f, firing) ==
  LET ceil == Ceiling(MaxReplicasOf(labels[f]))
  IN  IF firing THEN replicas[f] >= AtMost(ceil, ScaleStep(ceil, ScalingFactorOf(labels[f])))
                ELSE replicas[f] = MinReplicasOf(labels[f])

(* The alert at i is the last so far for its function. *)
LastSoFar(h, i) ==
  /\ batch[h][i].function # Unnamed
  /\ \A j \in 1..Len(batch[h]) :
       i < j /\ j < pos[h] => batch[h][j].function # batch[h][i].function

ProgressInv ==
  \A h \in Handlers :
    /\ phase[h] # "answered" => reply[h] = 0
    /\ reply[h] = 200 => pos[h] > Len(batch[h]) /\ errors[h] = 0
    /\ phase[h] \in {"next", "read"} \/ reply[h] = 200 =>
         (errors[h] = 0 /\ lost[h] = 0 =>
            \A i \in 1..Len(batch[h]) :
              i < pos[h] /\ LastSoFar(h, i) => Reached(batch[h][i].function, batch[h][i].firing))

(* No count is within a step of the width of an unsigned integer. *)
Headroom ==
  /\ 2 * DefaultMaxReplicas + 1 < UintModulus
  /\ \A l \in LabelChoices : MinReplicasOf(l) + DefaultMaxReplicas + 1 < UintModulus

HeadroomInv ==
  \A f \in Functions : replicas[f] + DefaultMaxReplicas + 1 < UintModulus

LoneInv == AlertInv /\ ReadingInv

LEMMA LoneTarget ==
  ASSUME AlertInv, ReadingInv, NEW h \in Handlers, phase[h] = "read"
  PROVE  LET f == Alert(h).function
         IN  /\ f \in Functions /\ f \in deployed
             /\ LabelsAccepted(labels[f])
             /\ reading[h].replicas = replicas[f]
             /\ Alert(h).firing \in BOOLEAN
             /\ Target(h) = AlertTarget(Alert(h).firing, replicas[f], labels[f])
             /\ Target(h) \in Nat
<1> DEFINE f == Alert(h).function
<1>1. f \in Functions /\ pos[h] \in 1..Len(batch[h])
  BY BatchType DEF AlertInv, AlertTypeOK, PositionInv
<1>2. Alert(h).firing \in BOOLEAN
  BY <1>1, BatchType DEF AlertInv, Alert, AlertSet
<1>3. reading[h] = GetReplicas(f) /\ ~reading[h].err
  BY DEF ReadingInv
<1>4. f \in deployed /\ LabelsAccepted(labels[f])
  BY <1>3 DEF GetReplicas, EmptyResponse
<1>5. /\ reading[h].replicas = replicas[f]
      /\ reading[h].min = MinReplicasOf(labels[f])
      /\ reading[h].max = MaxReplicasOf(labels[f])
      /\ reading[h].factor = ScalingFactorOf(labels[f])
  BY <1>3, <1>4 DEF GetReplicas
<1>6. Target(h) = AlertTarget(Alert(h).firing, replicas[f], labels[f])
  BY <1>5 DEF Target, AlertTarget
<1>7. Target(h) \in Nat
  BY TargetType DEF AlertInv
<1> QED
  BY <1>1, <1>2, <1>4, <1>5, <1>6, <1>7

(* A handler writes its target, or nothing. *)
LEMMA HandleWrites ==
  ASSUME NEW h \in Handlers, Handle(h)
  PROVE  \/ UNCHANGED providerVars
         \/ phase[h] = "read" /\ ApplyScale(Alert(h).function, Target(h))
BY DEF Handle, Receive, Reject, SkipUnnamed, Query, QueryFailed, AlreadyThere, Set,
       SetRefused, SetBroken, PerhapsScaled, Setting, Reply, Done

LEMMA LoneHandle ==
  ASSUME LoneInv, NEW h \in Handlers, Handlers = {h}, Handle(h)
  PROVE  LoneInv'
<1>1. AlertInv'
  BY HandleInv DEF LoneInv
<1>2. phase \in [Handlers -> {"idle", "next", "read", "answered"}]
      /\ reading \in [Handlers -> Response]
  BY DEF LoneInv, AlertInv, AlertTypeOK
<1>3. ReadingInv'
  <2>1. CASE Query(h)
    <3>1. UNCHANGED <<batch, pos>> /\ UNCHANGED providerVars
      BY <2>1 DEF Query
    <3>2. Alert(h)' = Alert(h) /\ GetReplicas(Alert(h).function)' = GetReplicas(Alert(h).function)
      BY <3>1 DEF Alert, GetReplicas, providerVars
    <3>3. reading'[h] = GetReplicas(Alert(h).function) /\ ~reading'[h].err
      BY <1>2, <2>1 DEF Query
    <3> QED
      BY <3>2, <3>3 DEF ReadingInv
  <2>2. CASE ~Query(h)
    <3>1. phase'[h] # "read"
      BY <1>2, <2>2 DEF Handle, Receive, Reject, SkipUnnamed, QueryFailed, AlreadyThere, Set,
                        SetRefused, SetBroken, Reply, Done, Advance
    <3> QED
      BY <3>1 DEF ReadingInv
  <2> QED
    BY <2>1, <2>2
<1> QED
  BY <1>1, <1>3 DEF LoneInv

LEMMA LoneInitInv == Init => LoneInv
<1>1. Init => AlertInv
  BY AlertInitInv
<1>2. Init => ReadingInv
  BY DEF Init, AlertInit, ReadingInv
<1> QED
  BY <1>1, <1>2 DEF LoneInv

LEMMA LoneNext ==
  ASSUME NEW h \in Handlers, Handlers = {h}
  PROVE  LoneInv /\ [AlertsOnlyNext]_handlerVars => LoneInv'
<1> SUFFICES ASSUME LoneInv, [AlertsOnlyNext]_handlerVars PROVE LoneInv'
  OBVIOUS
<1>1. CASE AlertsOnlyNext
  BY <1>1, LoneHandle DEF AlertsOnlyNext
<1>2. CASE UNCHANGED handlerVars
  <2>1. AlertInv'
    BY <1>2, StutterInv DEF LoneInv
  <2>2. ReadingInv'
    BY <1>2 DEF LoneInv, ReadingInv, handlerVars, providerVars, alertVars, Alert, GetReplicas
  <2> QED
    BY <2>1, <2>2 DEF LoneInv
<1> QED
  BY <1>1, <1>2

LEMMA LoneInvariance ==
  ASSUME NEW h \in Handlers, Handlers = {h}
  PROVE  AlertsOnlySpec => []LoneInv
BY LoneInitInv, LoneNext, PTL DEF AlertsOnlySpec

(* AutoScale goes by the same rules. *)
LEMMA SameRules ==
  /\ \A l : Atomic!LabelsAccepted(l) <=> LabelsAccepted(l)
  /\ \A firing, n, l : Atomic!AlertTarget(firing, n, l) = AlertTarget(firing, n, l)
<1>1. \A l : Atomic!LabelsAccepted(l) <=> LabelsAccepted(l)
  BY DEF LabelsAccepted, ScalingFactorOf, ExtractLabelValue,
         Atomic!LabelsAccepted, Atomic!ScalingFactorOf, Atomic!ExtractLabelValue
<1>2. \A firing, n, l : Atomic!AlertTarget(firing, n, l) = AlertTarget(firing, n, l)
  BY DEF AlertTarget, CalculateReplicas, Ceiling, ScaleStep, AtMost, MinReplicasOf,
         MaxReplicasOf, ScalingFactorOf, ExtractLabelValue,
         Atomic!AlertTarget, Atomic!CalculateReplicas, Atomic!Ceiling, Atomic!ScaleStep,
         Atomic!AtMost, Atomic!MinReplicasOf, Atomic!MaxReplicasOf,
         Atomic!ScalingFactorOf, Atomic!ExtractLabelValue
<1> QED
  BY <1>1, <1>2

(* A handler that is the only writer takes two steps, a query and a set,   *)
(* for what AutoScale does at once (alerthandler.go 95-111): the target    *)
(* it sets is that of the scale and the labels at that moment.             *)
THEOREM LoneHandlerIsAtomic ==
  ASSUME NEW h \in Handlers, Handlers = {h}
  PROVE  AlertsOnlySpec => ImplementsAutoScale
<1>1. Init => Atomic!Init
  BY DEF Init, ProviderInit, Atomic!Init
<1>2. LoneInv /\ [AlertsOnlyNext]_handlerVars => [Atomic!Next]_(Atomic!autoVars)
  <2> SUFFICES ASSUME LoneInv, [AlertsOnlyNext]_handlerVars
               PROVE  [Atomic!Next]_(Atomic!autoVars)
    OBVIOUS
  <2>1. CASE UNCHANGED <<replicas, labels>>
    BY <2>1 DEF Atomic!autoVars
  <2>2. CASE phase[h] = "read" /\ ApplyScale(Alert(h).function, Target(h))
    <3> DEFINE f == Alert(h).function
    <3>1. /\ f \in Functions /\ LabelsAccepted(labels[f]) /\ Alert(h).firing \in BOOLEAN
          /\ Target(h) = AlertTarget(Alert(h).firing, replicas[f], labels[f])
      BY <2>2, LoneTarget DEF LoneInv
    <3>2. replicas' = [replicas EXCEPT ![f] = Target(h)] /\ UNCHANGED labels
      BY <2>2 DEF ApplyScale
    <3>3. Atomic!LabelsAccepted(labels[f])
      BY <3>1, SameRules
    <3>4. Target(h) = Atomic!AlertTarget(Alert(h).firing, replicas[f], labels[f])
      BY <3>1, SameRules
    <3>5. Atomic!Fire(f) \/ Atomic!Resolve(f)
      BY <3>1, <3>2, <3>3, <3>4 DEF Atomic!Fire, Atomic!Resolve, Atomic!Alert, Atomic!SetTo
    <3> QED
      BY <3>1, <3>5 DEF Atomic!Next
  <2>3. \/ UNCHANGED providerVars
        \/ phase[h] = "read" /\ ApplyScale(Alert(h).function, Target(h))
    BY HandleWrites DEF AlertsOnlyNext, handlerVars
  <2>4. UNCHANGED providerVars => UNCHANGED <<replicas, labels>>
    BY DEF providerVars
  <2> QED
    BY <2>1, <2>2, <2>3, <2>4
<1> QED
  BY <1>1, <1>2, LoneInvariance, PTL DEF AlertsOnlySpec, ImplementsAutoScale, Atomic!Spec

------------------------------------------------------------------------------
(* What its answer means *)

LEMMA BatchFunction ==
  ASSUME AlertInv, NEW h \in Handlers, NEW i \in 1..Len(batch[h]),
         batch[h][i].function # Unnamed
  PROVE  batch[h][i].function \in Functions /\ labels[batch[h][i].function] \in Labels
<1>1. AlertTypeOK /\ ProviderTypeOK
  BY DEF AlertInv, AlertTypeOK
<1>2. batch[h][i].function \in Functions
  BY <1>1, BatchType DEF AlertSet
<1> QED
  BY <1>1, <1>2, ProviderAssumption DEF ProviderTypeOK

(* The target h computes does what its alert wants. *)
LEMMA TargetIsReached ==
  ASSUME LoneInv, HeadroomInv, NEW h \in Handlers, phase[h] = "read",
         replicas'[Alert(h).function] = Target(h), UNCHANGED labels
  PROVE  \A g, b : g = Alert(h).function /\ b = Alert(h).firing => Reached(g, b)'
<1> DEFINE f == Alert(h).function
           firing == Alert(h).firing
<1>1. /\ f \in Functions /\ LabelsAccepted(labels[f]) /\ firing \in BOOLEAN
      /\ Target(h) = AlertTarget(firing, replicas[f], labels[f])
  BY LoneTarget DEF LoneInv
<1>2. ProviderTypeOK
  BY DEF LoneInv, AlertInv, AlertTypeOK
<1>3. replicas[f] \in Nat /\ labels[f] \in Labels
  BY <1>1, <1>2, ProviderAssumption DEF ProviderTypeOK
<1>4. replicas[f] + DefaultMaxReplicas + 1 < UintModulus
  BY <1>1 DEF HeadroomInv
<1> HIDE DEF f, firing
<1>5. /\ firing => Target(h) >= AtMost(Ceiling(MaxReplicasOf(labels[f])),
                                       ScaleStep(Ceiling(MaxReplicasOf(labels[f])),
                                                 ScalingFactorOf(labels[f])))
      /\ ~firing => Target(h) = MinReplicasOf(labels[f])
  BY <1>1, <1>3, <1>4, TargetReaches
<1>6. replicas'[f] = Target(h)
  BY DEF f
<1>7. \A g, b : g = f /\ b = firing => Reached(g, b)'
  BY <1>5, <1>6 DEF Reached
<1> QED
  BY <1>7 DEF f, firing

LEMMA AdvanceProgress ==
  ASSUME LoneInv, ProgressInv, NEW h \in Handlers, Handlers = {h},
         NEW failed \in BOOLEAN, Advance(h, failed),
         phase[h] \in {"next", "read"}, pos[h] <= Len(batch[h]),
         \A g \in Functions : g # Alert(h).function => replicas'[g] = replicas[g],
         UNCHANGED labels,
         lost'[h] = 0 => lost[h] = 0,
         ~failed /\ lost'[h] = 0 /\ Alert(h).function # Unnamed =>
           \A g, b : g = Alert(h).function /\ b = Alert(h).firing => Reached(g, b)'
  PROVE  ProgressInv'
<1>1. /\ pos[h] \in Nat \ {0} /\ errors[h] \in Nat /\ Len(batch[h]) \in Nat
      /\ pos \in [Handlers -> Nat \ {0}]
      /\ errors \in [Handlers -> Nat]
      /\ phase \in [Handlers -> {"idle", "next", "read", "answered"}]
  BY BatchType DEF LoneInv, AlertInv, AlertTypeOK
<1>2. /\ phase'[h] = "next"
      /\ pos'[h] = pos[h] + 1
      /\ errors'[h] = (IF failed THEN errors[h] + 1 ELSE errors[h])
      /\ UNCHANGED <<batch, reply>>
  BY <1>1 DEF Advance
<1>3. reply[h] = 0
  BY DEF ProgressInv
<1>4. ASSUME errors'[h] = 0, lost'[h] = 0, NEW i \in 1..Len(batch[h]), i < pos[h] + 1,
             LastSoFar(h, i)'
      PROVE  \A g, b : g = batch[h][i].function /\ b = batch[h][i].firing => Reached(g, b)'
  <2>1. ~failed /\ errors[h] = 0
    BY <1>1, <1>2, <1>4
  <2>2. /\ batch[h][i].function # Unnamed
        /\ \A j \in 1..Len(batch[h]) :
             i < j /\ j < pos[h] + 1 => batch[h][j].function # batch[h][i].function
    BY <1>2, <1>4 DEF LastSoFar
  <2>3. CASE i = pos[h]
    BY <1>4, <2>1, <2>2, <2>3 DEF Alert
  <2>4. CASE i < pos[h]
    <3>1. LastSoFar(h, i)
      <4>1. \A j \in 1..Len(batch[h]) : j < pos[h] => j < pos[h] + 1
        BY <1>1
      <4> QED
        BY <2>2, <4>1 DEF LastSoFar
    <3>2. Reached(batch[h][i].function, batch[h][i].firing)
      BY <1>4, <2>1, <2>4, <3>1 DEF ProgressInv
    <3>3. batch[h][i].function # Alert(h).function
      BY <1>1, <2>2, <2>4 DEF Alert
    <3>4. batch[h][i].function \in Functions
      BY <2>2, BatchFunction DEF LoneInv
    <3>5. replicas'[batch[h][i].function] = replicas[batch[h][i].function]
      BY <3>3, <3>4
    <3> QED
      BY <3>2, <3>5 DEF Reached
  <2> QED
    BY <1>1, <1>4, <2>3, <2>4
<1>5. errors'[h] = 0 /\ lost'[h] = 0 =>
        \A i \in 1..Len(batch[h]) :
          i < pos[h] + 1 /\ LastSoFar(h, i)' =>
            \A g, b : g = batch[h][i].function /\ b = batch[h][i].firing => Reached(g, b)'
  BY <1>4
<1> QED
  BY <1>2, <1>3, <1>5 DEF ProgressInv

LEMMA ProgressStep ==
  ASSUME LoneInv, HeadroomInv, ProgressInv, NEW h \in Handlers, Handlers = {h}, Handle(h)
  PROVE  ProgressInv'
<1>1. /\ pos \in [Handlers -> Nat \ {0}] /\ Len(batch[h]) \in Nat
      /\ phase \in [Handlers -> {"idle", "next", "read", "answered"}]
      /\ reply \in [Handlers -> {0, 200, 400, 500}]
      /\ errors \in [Handlers -> Nat]
      /\ lost \in [Handlers -> Nat]
      /\ batch \in [Handlers -> Batches \cup {<<>>}]
  BY BatchType DEF LoneInv, AlertInv, AlertTypeOK
<1>2. UNCHANGED providerVars => UNCHANGED <<replicas, labels>>
  BY DEF providerVars
<1>3. CASE Receive(h)
  <2>1. pos'[h] = 1 /\ phase'[h] = "next" /\ reply'[h] = 0
    BY <1>1, <1>3 DEF Receive, LoneInv, AlertInv, PositionInv, ProgressInv
  <2> QED
    BY <2>1 DEF ProgressInv
<1>4. CASE Reject(h) \/ SetBroken(h)
  <2>1. phase'[h] = "answered" /\ reply'[h] \in {0, 400}
    BY <1>1, <1>4 DEF Reject, SetBroken, Setting, ProgressInv
  <2> QED
    BY <2>1 DEF ProgressInv
<1>5. CASE SkipUnnamed(h)
  BY <1>2, <1>5, AdvanceProgress DEF SkipUnnamed, AtAlert
<1>6. CASE QueryFailed(h)
  <2>1. lost'[h] # 0
    BY <1>1, <1>6 DEF QueryFailed
  <2> QED
    BY <1>2, <1>6, <2>1, AdvanceProgress DEF QueryFailed, AtAlert
<1>7. CASE Query(h)
  <2>1. /\ phase[h] = "next" /\ phase'[h] = "read"
        /\ UNCHANGED <<batch, pos, errors, lost, reply, replicas, labels>>
    BY <1>1, <1>2, <1>7 DEF Query, AtAlert
  <2> QED
    BY <2>1 DEF ProgressInv, LastSoFar, Reached
<1>8. CASE AlreadyThere(h)
  <2>1. /\ phase[h] = "read" /\ pos[h] <= Len(batch[h]) /\ Advance(h, FALSE)
        /\ UNCHANGED <<replicas, labels, lost>>
    BY <1>2, <1>8 DEF AlreadyThere, LoneInv, AlertInv, PositionInv
  <2>2. replicas'[Alert(h).function] = Target(h)
    BY <1>8, <2>1, LoneTarget DEF AlreadyThere, LoneInv
  <2>3. \A g, b : g = Alert(h).function /\ b = Alert(h).firing => Reached(g, b)'
    BY <2>1, <2>2, TargetIsReached
  <2> QED
    BY <2>1, <2>3, AdvanceProgress
<1>9. CASE Set(h)
  <2>1. /\ phase[h] = "read" /\ pos[h] <= Len(batch[h]) /\ Advance(h, FALSE)
        /\ replicas' = [replicas EXCEPT ![Alert(h).function] = Target(h)]
        /\ UNCHANGED <<labels, lost>>
    BY <1>9 DEF Set, Setting, ApplyScale, LoneInv, AlertInv, PositionInv
  <2>2. Alert(h).function \in Functions /\ replicas \in [Functions -> Nat]
    BY <2>1, LoneTarget DEF LoneInv, AlertInv, AlertTypeOK, ProviderTypeOK
  <2>3. /\ replicas'[Alert(h).function] = Target(h)
        /\ \A g \in Functions : g # Alert(h).function => replicas'[g] = replicas[g]
    BY <2>1, <2>2
  <2>4. \A g, b : g = Alert(h).function /\ b = Alert(h).firing => Reached(g, b)'
    BY <2>1, <2>3, TargetIsReached
  <2> QED
    BY <2>1, <2>3, <2>4, AdvanceProgress
<1>10. CASE SetRefused(h)
  <2>1. /\ phase[h] = "read" /\ pos[h] <= Len(batch[h]) /\ Advance(h, TRUE)
        /\ UNCHANGED lost
        /\ UNCHANGED providerVars \/ ApplyScale(Alert(h).function, Target(h))
    BY <1>10 DEF SetRefused, PerhapsScaled, Setting, LoneInv, AlertInv, PositionInv
  <2>2. /\ \A g \in Functions : g # Alert(h).function => replicas'[g] = replicas[g]
        /\ UNCHANGED labels
    BY <1>2, <2>1 DEF ApplyScale, LoneInv, AlertInv, AlertTypeOK, ProviderTypeOK
  <2> QED
    BY <2>1, <2>2, AdvanceProgress
<1>11. CASE Reply(h)
  <2>1. /\ phase[h] = "next" /\ phase'[h] = "answered" /\ pos[h] > Len(batch[h])
        /\ reply'[h] = (IF errors[h] > 0 THEN 500 ELSE 200)
        /\ UNCHANGED <<batch, pos, errors, lost, replicas, labels>>
    BY <1>1, <1>2, <1>11 DEF Reply
  <2>2. reply'[h] = 200 => errors[h] = 0
    BY <1>1, <2>1
  <2> QED
    BY <2>1, <2>2 DEF ProgressInv, LastSoFar, Reached
<1>12. CASE Done(h)
  <2>1. phase'[h] = "idle" /\ reply'[h] = 0
    BY <1>1, <1>12 DEF Done
  <2> QED
    BY <2>1 DEF ProgressInv
<1> QED
  BY <1>3, <1>4, <1>5, <1>6, <1>7, <1>8, <1>9, <1>10, <1>11, <1>12 DEF Handle

LEMMA HeadroomStep ==
  ASSUME Headroom, LoneInv, HeadroomInv, NEW h \in Handlers, Handle(h)
  PROVE  HeadroomInv'
<1>1. CASE UNCHANGED providerVars
  BY <1>1 DEF HeadroomInv, providerVars
<1>2. CASE phase[h] = "read" /\ ApplyScale(Alert(h).function, Target(h))
  <2> DEFINE f == Alert(h).function
  <2>1. ProviderTypeOK /\ f \in Functions
    BY <1>2, LoneTarget DEF LoneInv, AlertInv, AlertTypeOK
  <2>2. Target(h) \in Nat /\ (Target(h) = reading[h].min \/ Target(h) <= DefaultMaxReplicas)
    BY <1>2, TargetType DEF LoneInv, AlertInv
  <2>3. reading[h].min = MinReplicasOf(labels[f]) /\ labels[f] \in LabelChoices
    <3>1. f \in deployed /\ LabelsAccepted(labels[f]) /\ reading[h] = GetReplicas(f)
      BY <1>2, LoneTarget DEF LoneInv, ReadingInv
    <3>2. reading[h].min = MinReplicasOf(labels[f])
      BY <3>1 DEF GetReplicas
    <3> QED
      BY <2>1, <3>2 DEF ProviderTypeOK
  <2>4. Target(h) + DefaultMaxReplicas + 1 < UintModulus
    BY <2>2, <2>3, RulesAssumption DEF Headroom
  <2>5. replicas \in [Functions -> Nat] /\ replicas' = [replicas EXCEPT ![f] = Target(h)]
    BY <1>2, <2>1 DEF ApplyScale, ProviderTypeOK
  <2> HIDE DEF f
  <2> QED
    BY <2>4, <2>5 DEF HeadroomInv
<1> QED
  BY <1>1, <1>2, HandleWrites

(* A single handler that answers 200, with no query lost on the way,       *)
(* leaves each function as the last alert for it wants it, whatever the    *)
(* batch (alerthandler.go 73-117): no alert is skipped, none is taken for  *)
(* another, and no addition wraps, provided no label asks for a minimum as *)
(* large as a negative number parses to.                                   *)
THEOREM AnswersMeanScaled ==
  ASSUME NEW h \in Handlers, Handlers = {h}, Headroom
  PROVE  AlertsOnlySpec => []AnsweredMeansScaled
<1> DEFINE Inv == LoneInv /\ HeadroomInv /\ ProgressInv
<1>1. Init => Inv
  <2>1. Init => HeadroomInv
    BY RulesAssumption DEF Init, ProviderInit, HeadroomInv, Headroom
  <2>2. Init => ProgressInv
    BY DEF Init, AlertInit, ProgressInv
  <2> QED
    BY <2>1, <2>2, LoneInitInv
<1>2. Inv /\ [AlertsOnlyNext]_handlerVars => Inv'
  <2> SUFFICES ASSUME Inv, [AlertsOnlyNext]_handlerVars PROVE Inv'
    OBVIOUS
  <2>1. LoneInv'
    BY LoneNext
  <2>2. CASE Handle(h)
    BY <2>1, <2>2, HeadroomStep, ProgressStep
  <2>3. CASE UNCHANGED handlerVars
    <3>1. UNCHANGED <<replicas, labels, phase, batch, pos, errors, lost, reply>>
      BY <2>3 DEF handlerVars, providerVars, alertVars
    <3>2. HeadroomInv' /\ ProgressInv'
      BY <3>1 DEF HeadroomInv, ProgressInv, LastSoFar, Reached
    <3> QED
      BY <2>1, <3>2
  <2> QED
    BY <2>2, <2>3 DEF AlertsOnlyNext
<1>3. Inv => AnsweredMeansScaled
  <2> SUFFICES ASSUME Inv, reply[h] = 200, lost[h] = 0, NEW i \in LastAlerts(h)
               PROVE  Reached(batch[h][i].function, batch[h][i].firing)
    BY DEF AnsweredMeansScaled, Reached
  <2>1. AlertTypeOK
    BY DEF LoneInv, AlertInv
  <2>2. /\ DOMAIN batch[h] = 1..Len(batch[h]) /\ Len(batch[h]) \in Nat
        /\ pos[h] \in Nat
    <3>1. batch[h] \in Seq(AlertSet)
      BY <2>1, BatchSeq
    <3> QED
      BY <2>1, <3>1 DEF AlertTypeOK
  <2>3. i \in 1..Len(batch[h]) /\ LastSoFar(h, i)
    BY <2>2 DEF LastAlerts, LastSoFar
  <2>4. i < pos[h] /\ errors[h] = 0
    BY <2>2, <2>3 DEF ProgressInv
  <2> QED
    BY <2>3, <2>4 DEF ProgressInv
<1> QED
  BY <1>1, <1>2, <1>3, PTL DEF AlertsOnlySpec
=============================================================================
