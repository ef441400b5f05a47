-------------------------- MODULE AutoScale_proofs --------------------------
(***************************************************************************)
(* The arithmetic of ReplicaRules, for every value of the constants and    *)
(* every width of an unsigned integer, and what it means for the writers   *)
(* one at a time: the ceiling that they keep to, and the ramp of the       *)
(* alerts, with the history that MCAutoScale adds to AutoScale.            *)
(***************************************************************************)
EXTENDS MCAutoScale, TLAPS

------------------------------------------------------------------------------
(* The arithmetic *)

(* Parsing a label yields an unsigned number, whatever the label says.     *)
LEMMA ExtractType ==
  ASSUME NEW raw \in RawLabel, NEW fallback \in Nat
  PROVE  ExtractLabelValue(raw, fallback) \in Nat
BY RulesAssumption DEF ExtractLabelValue, RawLabel

LEMMA LabelTypes ==
  ASSUME NEW l \in Labels
  PROVE  /\ MinReplicasOf(l) \in Nat
         /\ MaxReplicasOf(l) \in Nat
         /\ ScalingFactorOf(l) \in Nat
BY ExtractType, RulesAssumption
   DEF Labels, MinReplicasOf, MaxReplicasOf, ScalingFactorOf

LEMMA CeilingType ==
  ASSUME NEW max \in Nat
  PROVE  Ceiling(max) \in Nat /\ Ceiling(max) <= DefaultMaxReplicas /\ Ceiling(max) <= max
BY RulesAssumption DEF Ceiling, AtMost

(* The step of a firing alert is the exact fraction rounded up, or one     *)
(* more: it is never short of the fraction, and it is zero only when the   *)
(* ceiling or the factor is.                                               *)
LEMMA StepRoundsUp ==
  ASSUME NEW max \in Nat, NEW factor \in Nat
  PROVE  /\ ScaleStep(max, factor) \in Nat
         /\ ScaleStep(max, factor) * 100 >= max * factor
<1> DEFINE product == max * factor
<1>1. product \in Nat
  OBVIOUS
<1>2. ASSUME NEW p \in Nat
      PROVE  /\ p \div 100 \in Nat
             /\ p % 100 = 0 => (p \div 100) * 100 = p
             /\ (p \div 100 + 1) * 100 >= p
  OBVIOUS
<1> HIDE DEF product
<1>3. /\ product \div 100 \in Nat
      /\ product % 100 = 0 => (product \div 100) * 100 = product
      /\ (product \div 100 + 1) * 100 >= product
  BY <1>1, <1>2
<1>4. \/ ScaleStep(max, factor) = product \div 100 + 1
      \/ product % 100 = 0 /\ ScaleStep(max, factor) = product \div 100
  BY <1>3 DEF ScaleStep, product
<1>5. ScaleStep(max, factor) \in Nat /\ ScaleStep(max, factor) * 100 >= product
  BY <1>1, <1>3, <1>4
<1> QED
  BY <1>5 DEF product

(* With a factor that is accepted, it is one beyond the maximum at most.   *)
LEMMA StepBound ==
  ASSUME NEW max \in Nat, NEW factor \in 1..100
  PROVE  ScaleStep(max, factor) <= max + 1
<1> DEFINE product == max * factor
<1>1. product \in Nat /\ product <= max * 100
  <2>1. ASSUME NEW a \in Nat, NEW b \in 1..100
        PROVE  a * b \in Nat /\ a * b <= a * 100
    OBVIOUS
  <2> QED
    BY <2>1
<1>2. ASSUME NEW p \in Nat, p <= max * 100
      PROVE  /\ p \div 100 <= max
             /\ p % 100 # 0 => p \div 100 + 1 <= max + 1
  BY <1>2
<1> HIDE DEF product
<1>3. product \div 100 \in Nat /\ product \div 100 <= max
  BY <1>1, <1>2
<1>4. ScaleStep(max, factor) \in {product \div 100, product \div 100 + 1}
  BY <1>3 DEF ScaleStep, product
<1> QED
  BY <1>3, <1>4

(* The target of an alert is the minimum its labels ask for, or within     *)
(* the ceiling, wrapped additions included.                                *)
LEMMA TargetBound ==
  ASSUME NEW firing \in BOOLEAN, NEW current \in Nat, NEW max \in Nat,
         NEW min \in Nat, NEW factor \in Nat
  PROVE  /\ CalculateReplicas(firing, current, max, min, factor) \in Nat
         /\ \/ CalculateReplicas(firing, current, max, min, factor) = min
            \/ CalculateReplicas(firing, current, max, min, factor) <= DefaultMaxReplicas
<1> DEFINE ceil   == Ceiling(max)
           step   == ScaleStep(ceil, factor)
           raised == (current + step) % UintModulus
<1>1. ceil \in Nat /\ ceil <= DefaultMaxReplicas
  BY CeilingType
<1>2. step \in Nat
  BY <1>1, StepRoundsUp
<1>3. raised \in Nat
  BY <1>2, RulesAssumption
<1>4. CalculateReplicas(firing, current, max, min, factor) =
        IF firing /\ step > 0 THEN (IF raised > ceil THEN ceil ELSE raised) ELSE min
  BY DEF CalculateReplicas
<1> HIDE DEF ceil, step, raised
<1> QED
  BY <1>1, <1>2, <1>3, <1>4, RulesAssumption

(* A manual request always ends up between one and the ceiling. *)
LEMMA HorizontalBound ==
  ASSUME NEW n \in Nat
  PROVE  HorizontalReplicas(n) \in 1..DefaultMaxReplicas
BY RulesAssumption DEF HorizontalReplicas, AtMost

(* Scale from zero asks for at least one replica, and for no more than the *)
(* minimum when there is one.                                              *)
LEMMA ScaleFromZeroBound ==
  ASSUME NEW min \in Nat
  PROVE  /\ ScaleFromZeroTarget(min) \in Nat \ {0}
         /\ min <= DefaultMaxReplicas => ScaleFromZeroTarget(min) <= DefaultMaxReplicas
BY RulesAssumption DEF ScaleFromZeroTarget

(* An alert's target does what the alert wants, unless the addition wraps: *)
(* the minimum when it is resolved, a step up or the ceiling when firing.  *)
LEMMA TargetReaches ==
  ASSUME NEW firing \in BOOLEAN, NEW current \in Nat, NEW l \in Labels,
         LabelsAccepted(l), current + DefaultMaxReplicas + 1 < UintModulus
  PROVE  LET ceil   == Ceiling(MaxReplicasOf(l))
             target == AlertTarget(firing, current, l)
         IN  /\ firing => target >= AtMost(ceil, ScaleStep(ceil, ScalingFactorOf(l)))
             /\ ~firing => target = MinReplicasOf(l)
<1> DEFINE ceil   == Ceiling(MaxReplicasOf(l))
           step   == ScaleStep(ceil, ScalingFactorOf(l))
           raised == (current + step) % UintModulus
<1>1. /\ ceil \in Nat /\ ceil <= DefaultMaxReplicas
      /\ ScalingFactorOf(l) \in 1..100
      /\ MinReplicasOf(l) \in Nat
  BY LabelTypes, CeilingType DEF LabelsAccepted
<1>2. step \in Nat /\ step <= ceil + 1
  <2>1. ASSUME NEW max \in Nat, NEW factor \in 1..100
        PROVE  ScaleStep(max, factor) \in Nat /\ ScaleStep(max, factor) <= max + 1
    <3>1. factor \in Nat
      OBVIOUS
    <3>2. ScaleStep(max, factor) \in Nat
      BY <3>1, StepRoundsUp
    <3> QED
      BY <3>2, StepBound
  <2> QED
    BY <1>1, <2>1
<1>3. AlertTarget(firing, current, l) =
        IF firing /\ step > 0 THEN (IF raised > ceil THEN ceil ELSE raised) ELSE MinReplicasOf(l)
  BY DEF AlertTarget, CalculateReplicas
<1> HIDE DEF ceil, step
<1>4. raised = current + step
  <2>1. ASSUME NEW n \in Nat, n < UintModulus PROVE n % UintModulus = n
    BY <2>1, RulesAssumption
  <2>2. current + step \in Nat /\ current + step < UintModulus
    BY <1>1, <1>2, RulesAssumption
  <2> QED
    BY <2>1, <2>2
<1> HIDE DEF raised
<1>5. /\ firing => AlertTarget(firing, current, l) >= AtMost(ceil, step)
      /\ ~firing => AlertTarget(firing, current, l) = MinReplicasOf(l)
  BY <1>1, <1>2, <1>3, <1>4 DEF AtMost
<1> QED
  BY <1>5 DEF ceil, step

------------------------------------------------------------------------------
(* The writers *)

WriterTypeOK ==
  /\ replicas \in [Functions -> Nat]
  /\ labels \in [Functions -> LabelChoices]

(* What one writer does to one function. *)
LEMMA WriterStep ==
  ASSUME WriterTypeOK, NEW f \in Functions,
         Fire(f) \/ Resolve(f) \/ ScaleFunction(f)
           \/ ScaleFromZero(f)
  PROVE  /\ UNCHANGED labels
         /\ \E n \in Nat :
              /\ replicas' = [replicas EXCEPT ![f] = n]
              /\ n <= DefaultMaxReplicas \/ n <= MinReplicasOf(labels[f])
         /\ Fire(f) =>
              /\ LabelsAccepted(labels[f])
              /\ replicas' = [replicas EXCEPT ![f] = AlertTarget(TRUE, replicas[f], labels[f])]
<1> DEFINE SetWithin(n) ==
      /\ n \in Nat /\ replicas' = [replicas EXCEPT ![f] = n]
      /\ n <= DefaultMaxReplicas \/ n <= MinReplicasOf(labels[f])
<1>1. /\ labels[f] \in Labels /\ replicas[f] \in Nat
      /\ MinReplicasOf(labels[f]) \in Nat /\ MaxReplicasOf(labels[f]) \in Nat
      /\ ScalingFactorOf(labels[f]) \in Nat
  BY AutoScaleAssumption, LabelTypes DEF WriterTypeOK
<1>2. ASSUME NEW firing \in BOOLEAN, Alert(f, firing)
      PROVE  /\ UNCHANGED labels /\ LabelsAccepted(labels[f])
             /\ replicas' = [replicas EXCEPT ![f] = AlertTarget(firing, replicas[f], labels[f])]
             /\ AlertTarget(firing, replicas[f], labels[f]) \in Nat
             /\ \/ AlertTarget(firing, replicas[f], labels[f]) <= DefaultMaxReplicas
                \/ AlertTarget(firing, replicas[f], labels[f]) <= MinReplicasOf(labels[f])
  <2>1. /\ UNCHANGED labels /\ LabelsAccepted(labels[f])
        /\ replicas' = [replicas EXCEPT ![f] = AlertTarget(firing, replicas[f], labels[f])]
    BY <1>2 DEF Alert, SetTo
  <2> DEFINE wanted == AlertTarget(firing, replicas[f], labels[f])
  <2>2. wanted \in Nat /\ (wanted = MinReplicasOf(labels[f]) \/ wanted <= DefaultMaxReplicas)
    BY <1>1, TargetBound DEF AlertTarget
  <2> HIDE DEF wanted
  <2>3. wanted \in Nat
        /\ (wanted <= DefaultMaxReplicas \/ wanted <= MinReplicasOf(labels[f]))
    BY <1>1, <2>2
  <2> QED
    BY <2>1, <2>3 DEF wanted
<1> HIDE DEF SetWithin
<1>3. ASSUME NEW firing \in BOOLEAN, Alert(f, firing)
      PROVE  UNCHANGED labels /\ \E n : SetWithin(n)
  <2>1. UNCHANGED labels /\ SetWithin(AlertTarget(firing, replicas[f], labels[f]))
    BY <1>2, <1>3 DEF SetWithin
  <2> QED
    BY <2>1
<1>4. ASSUME ScaleFunction(f) PROVE UNCHANGED labels /\ \E n : SetWithin(n)
  <2>1. PICK m \in Requested :
          /\ replicas' = [replicas EXCEPT ![f] = HorizontalReplicas(m)]
          /\ UNCHANGED labels
    BY <1>4 DEF ScaleFunction, SetTo
  <2>2. m \in Nat
    BY AutoScaleAssumption DEF Uint
  <2>3. HorizontalReplicas(m) \in 1..DefaultMaxReplicas
    BY <2>2, HorizontalBound
  <2>4. \A n \in 1..DefaultMaxReplicas : n \in Nat /\ n <= DefaultMaxReplicas
    BY RulesAssumption
  <2>5. SetWithin(HorizontalReplicas(m))
    BY <2>1, <2>3, <2>4 DEF SetWithin
  <2> QED
    BY <2>1, <2>5
<1>5. ASSUME ScaleFromZero(f) PROVE UNCHANGED labels /\ \E n : SetWithin(n)
  <2> DEFINE wanted == ScaleFromZeroTarget(MinReplicasOf(labels[f]))
  <2>1. /\ replicas' = [replicas EXCEPT ![f] = wanted]
        /\ UNCHANGED labels
    BY <1>5 DEF ScaleFromZero, SetTo
  <2>2. ASSUME NEW min \in Nat
        PROVE  /\ ScaleFromZeroTarget(min) \in Nat
               /\ \/ ScaleFromZeroTarget(min) <= DefaultMaxReplicas
                  \/ ScaleFromZeroTarget(min) <= min
    BY RulesAssumption DEF ScaleFromZeroTarget
  <2>3. SetWithin(wanted)
    BY <1>1, <2>1, <2>2 DEF SetWithin
  <2> QED
    BY <2>1, <2>3
<1>6. Fire(f) =>
        /\ LabelsAccepted(labels[f])
        /\ replicas' = [replicas EXCEPT ![f] = AlertTarget(TRUE, replicas[f], labels[f])]
  BY <1>2 DEF Fire
<1>7. UNCHANGED labels /\ \E n : SetWithin(n)
  BY <1>3, <1>4, <1>5 DEF Fire, Resolve
<1> QED
  BY <1>6, <1>7 DEF SetWithin

(* Beyond the ceiling, or what a label's minimum says, nobody goes.        *)
AloneBound ==
  \A f \in Functions :
    replicas[f] <= DefaultMaxReplicas \/ replicas[f] <= MinReplicasOf(labels[f])

LEMMA AloneInitially == Init => WriterTypeOK /\ AloneBound
BY RulesAssumption DEF Init, WriterTypeOK, AloneBound

LEMMA AloneStep ==
  ASSUME WriterTypeOK, AloneBound, [Next]_(autoVars)
  PROVE  WriterTypeOK' /\ AloneBound'
<1>1. CASE UNCHANGED autoVars
  BY <1>1 DEF autoVars, WriterTypeOK, AloneBound
<1>2. CASE Next
  <2>1. PICK f \in Functions :
          Fire(f) \/ Resolve(f) \/ ScaleFunction(f)
            \/ ScaleFromZero(f)
    BY <1>2 DEF Next
  <2>2. UNCHANGED labels
    BY <2>1, WriterStep
  <2>3. PICK n \in Nat : /\ replicas' = [replicas EXCEPT ![f] = n]
                         /\ n <= DefaultMaxReplicas \/ n <= MinReplicasOf(labels[f])
    BY <2>1, WriterStep
  <2> QED
    BY <2>2, <2>3 DEF WriterTypeOK, AloneBound
<1> QED
  BY <1>1, <1>2

(* Alerts, manual requests and scale from zero, each at once: none takes a *)
(* function beyond DefaultMaxReplicas (alerthandler.go 127, ranges.go 42,  *)
(* function_scaler.go 95), as long as no label's minimum is beyond it,     *)
(* with labels of any kind otherwise and integers of any width.            *)
THEOREM WritersRespectCeiling == Spec => []WithinCeiling
<1>1. WriterTypeOK /\ AloneBound => WithinCeiling
  <2> SUFFICES ASSUME WriterTypeOK, AloneBound, SaneLabels, NEW f \in Functions
               PROVE  replicas[f] <= DefaultMaxReplicas
    BY DEF WithinCeiling
  <2>1. MinReplicasOf(labels[f]) <= DefaultMaxReplicas
    BY DEF WriterTypeOK, SaneLabels
  <2>2. MinReplicasOf(labels[f]) \in Nat /\ replicas[f] \in Nat
    BY AutoScaleAssumption, LabelTypes DEF WriterTypeOK
  <2> QED
    BY <2>1, <2>2, RulesAssumption DEF AloneBound
<1>2. Init => WriterTypeOK /\ AloneBound
  BY AloneInitially
<1>3. WriterTypeOK /\ AloneBound /\ [Next]_(autoVars)
        => WriterTypeOK' /\ AloneBound'
  BY AloneStep
<1> QED
  BY <1>1, <1>2, <1>3, PTL DEF Spec

(* After k firings a function has k steps, or what the ceiling allows.     *)
RampInv ==
  \A f \in Functions :
    LET ceil == Ceiling(MaxReplicasOf(labels[f]))
    IN  /\ rounds[f] > 0 /\ ceil > 0 => replicas[f] <= ceil
        /\ \/ ceil > 0 /\ replicas[f] = ceil
           \/ replicas[f] * 100 >= rounds[f] * (ceil * ScalingFactorOf(labels[f]))

RampTypeOK == WriterTypeOK /\ rounds \in [Functions -> Nat]

(* One more firing is one more step. *)
LEMMA FiringRamps ==
  ASSUME NEW k \in Nat, NEW current \in Nat, NEW l \in Labels, LabelsAccepted(l),
         current + DefaultMaxReplicas + 1 < UintModulus, Ceiling(MaxReplicasOf(l)) > 0,
         \/ current = Ceiling(MaxReplicasOf(l))
         \/ current * 100 >= k * (Ceiling(MaxReplicasOf(l)) * ScalingFactorOf(l))
  PROVE  LET ceil   == Ceiling(MaxReplicasOf(l))
             raised == AlertTarget(TRUE, current, l)
         IN  /\ raised <= ceil
             /\ raised = ceil \/ raised * 100 >= (k + 1) * (ceil * ScalingFactorOf(l))
<1> DEFINE ceil   == Ceiling(MaxReplicasOf(l))
           factor == ScalingFactorOf(l)
           up     == ScaleStep(ceil, factor)
           raised == AlertTarget(TRUE, current, l)
           part   == ceil * factor
<1>1. MaxReplicasOf(l) \in Nat /\ factor \in 1..100 /\ MinReplicasOf(l) \in Nat
  BY LabelTypes DEF LabelsAccepted
<1>2. ceil \in Nat /\ ceil <= DefaultMaxReplicas /\ ceil > 0
  BY <1>1, CeilingType
<1>3. up \in Nat /\ up * 100 >= part
  <2>1. \A a, b \in Nat : ScaleStep(a, b) \in Nat /\ ScaleStep(a, b) * 100 >= a * b
    BY StepRoundsUp
  <2>2. ceil \in Nat /\ factor \in Nat
    BY <1>1, <1>2
  <2> HIDE DEF ceil, factor
  <2> QED
    BY <2>1, <2>2
<1>4. up <= ceil + 1
  BY <1>1, <1>2, StepBound
<1>5. part \in Nat /\ part > 0
  <2>1. ASSUME NEW a \in Nat, a > 0, NEW b \in 1..100 PROVE a * b \in Nat /\ a * b > 0
    BY <2>1
  <2> HIDE DEF ceil, factor
  <2> QED
    BY <1>1, <1>2, <2>1
<1>6. raised = IF up > 0
               THEN (IF (current + up) % UintModulus > ceil THEN ceil
                                                            ELSE (current + up) % UintModulus)
               ELSE MinReplicasOf(l)
  BY DEF AlertTarget, CalculateReplicas
<1>7. \/ current = ceil
      \/ current * 100 >= k * part
  OBVIOUS
<1> HIDE DEF ceil, factor, up, raised, part
<1>8. up > 0
  BY <1>3, <1>5
<1>9. (current + up) % UintModulus = current + up
  <2>1. current + up \in 0..(UintModulus - 1)
    BY <1>2, <1>3, <1>4, RulesAssumption
  <2>2. ASSUME NEW m \in Nat, NEW x \in 0..(m - 1) PROVE x % m = x
    BY <2>2
  <2> QED
    BY <2>1, <2>2, RulesAssumption
<1>10. raised = IF current + up > ceil THEN ceil ELSE current + up
  BY <1>6, <1>8, <1>9
<1>11. CASE current + up > ceil
  <2>1. raised = ceil /\ raised <= ceil
    BY <1>2, <1>10, <1>11
  <2> QED
    BY <2>1 DEF ceil, raised
<1>12. CASE ~(current + up > ceil)
  <2>1. raised = current + up /\ raised <= ceil
    BY <1>2, <1>3, <1>10, <1>12
  <2>2. current # ceil
    BY <1>2, <1>3, <1>8, <1>12
  <2>3. current * 100 >= k * part
    BY <1>7, <2>2
  <2>4. ASSUME NEW c \in Nat, NEW u \in Nat, NEW a \in Nat, c * 100 >= k * a, u * 100 >= a
        PROVE  (c + u) * 100 >= (k + 1) * a
    <3>1. (k + 1) * a = k * a + a /\ k * a \in Nat
      OBVIOUS
    <3>2. (c + u) * 100 = c * 100 + u * 100
      OBVIOUS
    <3> DEFINE ka == k * a
    <3> HIDE DEF ka
    <3>3. c * 100 >= ka /\ (k + 1) * a = ka + a /\ ka \in Nat
      BY <2>4, <3>1 DEF ka
    <3> QED
      BY <2>4, <3>2, <3>3
  <2>5. raised * 100 >= (k + 1) * part
    BY <1>3, <1>5, <2>1, <2>3, <2>4
  <2> QED
    BY <2>1, <2>5 DEF ceil, raised, part, factor
<1> QED
  BY <1>11, <1>12

LEMMA RampTypeStep ==
  ASSUME RampTypeOK, AloneBound, [RampNext]_<<autoVars, rounds>>
  PROVE  RampTypeOK' /\ AloneBound'
<1>1. [Next]_(autoVars)
  BY DEF RampNext, Next
<1>2. WriterTypeOK' /\ AloneBound'
  BY <1>1, AloneStep DEF RampTypeOK
<1>3. rounds' \in [Functions -> Nat]
  BY DEF RampTypeOK, RampNext
<1> QED
  BY <1>2, <1>3 DEF RampTypeOK

(* No count is within a step of the width of an unsigned integer. *)
Headroom ==
  /\ 2 * DefaultMaxReplicas + 1 < UintModulus
  /\ \A l \in LabelChoices : MinReplicasOf(l) + DefaultMaxReplicas + 1 < UintModulus

LEMMA RampStep ==
  ASSUME RampTypeOK, AloneBound, RampInv, Headroom,
         [RampNext]_<<autoVars, rounds>>
  PROVE  RampInv'
<1>1. CASE UNCHANGED <<autoVars, rounds>>
  BY <1>1 DEF autoVars, RampInv
<1>2. ASSUME NEW g \in Functions, Fire(g), rounds' = [rounds EXCEPT ![g] = @ + 1]
      PROVE  RampInv'
  <2>1. /\ UNCHANGED labels /\ LabelsAccepted(labels[g])
        /\ replicas' = [replicas EXCEPT ![g] = AlertTarget(TRUE, replicas[g], labels[g])]
    BY <1>2, WriterStep DEF RampTypeOK
  <2>2. /\ replicas[g] \in Nat /\ rounds[g] \in Nat /\ labels[g] \in Labels
        /\ labels[g] \in LabelChoices
    BY AutoScaleAssumption DEF RampTypeOK, WriterTypeOK
  <2>3. replicas[g] + DefaultMaxReplicas + 1 < UintModulus
    <3>1. /\ 2 * DefaultMaxReplicas + 1 < UintModulus
          /\ MinReplicasOf(labels[g]) + DefaultMaxReplicas + 1 < UintModulus
      BY <2>2 DEF Headroom
    <3>2. MinReplicasOf(labels[g]) \in Nat
      BY <2>2, LabelTypes
    <3> QED
      BY <2>2, <3>1, <3>2, RulesAssumption DEF AloneBound
  <2>4. replicas'[g] = AlertTarget(TRUE, replicas[g], labels[g]) /\ rounds'[g] = rounds[g] + 1
    BY <1>2, <2>1 DEF RampTypeOK, WriterTypeOK
  <2>5. \A f \in Functions \ {g} : replicas'[f] = replicas[f] /\ rounds'[f] = rounds[f]
    BY <1>2, <2>1 DEF RampTypeOK, WriterTypeOK
  <2> DEFINE ceil == Ceiling(MaxReplicasOf(labels[g]))
             part == ceil * ScalingFactorOf(labels[g])
  <2>6. /\ ceil > 0 => replicas'[g] <= ceil
        /\ \/ ceil > 0 /\ replicas'[g] = ceil
           \/ replicas'[g] * 100 >= rounds'[g] * part
    <3>1. ceil \in Nat /\ ScalingFactorOf(labels[g]) \in Nat
      BY <2>2, LabelTypes, CeilingType
    <3>2. CASE ceil = 0
      <4>1. part = 0
        BY <3>1, <3>2
      <4>2. replicas'[g] \in Nat /\ rounds'[g] \in Nat
        BY RampTypeStep DEF RampTypeOK, WriterTypeOK
      <4> HIDE DEF part
      <4> QED
        BY <3>2, <4>1, <4>2
    <3>3. CASE ceil > 0
      <4>1. replicas[g] = ceil \/ replicas[g] * 100 >= rounds[g] * part
        BY DEF RampInv
      <4>2. LET raised == AlertTarget(TRUE, replicas[g], labels[g])
            IN  /\ raised <= ceil
                /\ raised = ceil \/ raised * 100 >= (rounds[g] + 1) * part
        BY <2>1, <2>2, <2>3, <3>3, <4>1, FiringRamps
      <4> HIDE DEF ceil, part
      <4> QED
        BY <2>4, <3>3, <4>2
    <3> QED
      BY <3>1, <3>2, <3>3
  <2> HIDE DEF ceil, part
  <2>7. RampInv'
    BY <2>1, <2>5, <2>6 DEF RampInv, ceil, part
  <2> QED
    BY <2>7
<1>3. ASSUME NEW g \in Functions, rounds' = [rounds EXCEPT ![g] = 0],
             Resolve(g) \/ ScaleFunction(g) \/ ScaleFromZero(g)
      PROVE  RampInv'
  <2>1. UNCHANGED labels
    BY <1>3, WriterStep DEF RampTypeOK
  <2>2. PICK n \in Nat : replicas' = [replicas EXCEPT ![g] = n]
    BY <1>3, WriterStep DEF RampTypeOK
  <2>3. \A f \in Functions \ {g} : replicas'[f] = replicas[f] /\ rounds'[f] = rounds[f]
    BY <1>3, <2>2 DEF RampTypeOK, WriterTypeOK
  <2>4. replicas'[g] = n /\ rounds'[g] = 0
    BY <1>3, <2>2 DEF RampTypeOK, WriterTypeOK
  <2>5. LET part == Ceiling(MaxReplicasOf(labels[g])) * ScalingFactorOf(labels[g])
        IN  replicas'[g] * 100 >= rounds'[g] * part
    <3>1. Ceiling(MaxReplicasOf(labels[g])) \in Nat /\ ScalingFactorOf(labels[g]) \in Nat
      BY AutoScaleAssumption, LabelTypes, CeilingType DEF RampTypeOK, WriterTypeOK
    <3>2. ASSUME NEW a \in Nat, NEW b \in Nat PROVE n * 100 >= 0 * (a * b)
      <4>1. a * b \in Nat
        OBVIOUS
      <4> QED
        BY <4>1
    <3> QED
      BY <2>4, <3>1, <3>2
  <2> QED
    BY <2>1, <2>3, <2>4, <2>5 DEF RampInv
<1> QED
  BY <1>1, <1>2, <1>3 DEF RampNext

(* Of CalculateReplicas: a factor of p percent takes a function from       *)
(* anywhere to its ceiling within 100/p firings, rounded up, also where    *)
(* float64 makes a step one larger, as long as the sums do not wrap: no    *)
(* label asks for a minimum within a step of the width of an integer.      *)
THEOREM RampIsNeverShort ==
  ASSUME Headroom
  PROVE  RampSpec => []FullRampWithinFactor
<1> DEFINE Inv == RampTypeOK /\ AloneBound /\ RampInv
<1>1. RampInit => Inv
  <2> SUFFICES ASSUME RampInit PROVE Inv
    OBVIOUS
  <2>1. RampTypeOK /\ AloneBound /\ \A f \in Functions : rounds[f] = 0 /\ replicas[f] = 0
    BY AloneInitially DEF RampInit, Init, RampTypeOK
  <2>2. ASSUME NEW f \in Functions
        PROVE  0 * 100 >= 0 * (Ceiling(MaxReplicasOf(labels[f])) * ScalingFactorOf(labels[f]))
    <3>1. Ceiling(MaxReplicasOf(labels[f])) \in Nat /\ ScalingFactorOf(labels[f]) \in Nat
      BY <2>1, AutoScaleAssumption, LabelTypes, CeilingType DEF RampTypeOK, WriterTypeOK
    <3>2. ASSUME NEW a \in Nat, NEW b \in Nat PROVE 0 * 100 >= 0 * (a * b)
      <4>1. a * b \in Nat
        OBVIOUS
      <4> QED
        BY <4>1
    <3> QED
      BY <3>1, <3>2
  <2>3. RampInv
    BY <2>1, <2>2 DEF RampInv
  <2> QED
    BY <2>1, <2>3
<1>2. Inv /\ [RampNext]_<<autoVars, rounds>> => Inv'
  BY RampTypeStep, RampStep
<1>3. Inv => FullRampWithinFactor
  <2> SUFFICES ASSUME Inv, NEW f \in Functions, Ceiling(MaxReplicasOf(labels[f])) > 0,
                      rounds[f] * ScalingFactorOf(labels[f]) >= 100
               PROVE  replicas[f] = Ceiling(MaxReplicasOf(labels[f]))
    BY DEF FullRampWithinFactor
  <2>1. ASSUME NEW c \in Nat, c > 0, NEW p \in Nat, NEW k \in Nat, k * p >= 100,
               NEW n \in Nat, k > 0 => n <= c, n = c \/ n * 100 >= k * (c * p)
        PROVE  n = c
    <3>1. k > 0
      BY <2>1
    <3>2. k * (c * p) = c * (k * p) /\ k * p \in Nat
      OBVIOUS
    <3>3. c * (k * p) >= c * 100
      <4>1. ASSUME NEW x \in Nat, x >= 100 PROVE c * x >= c * 100
        BY <4>1
      <4> QED
        BY <2>1, <3>2, <4>1
    <3> QED
      BY <2>1, <3>1, <3>2, <3>3
  <2>2. /\ Ceiling(MaxReplicasOf(labels[f])) \in Nat /\ ScalingFactorOf(labels[f]) \in Nat
        /\ rounds[f] \in Nat /\ replicas[f] \in Nat
    BY AutoScaleAssumption, LabelTypes, CeilingType DEF RampTypeOK, WriterTypeOK
  <2> QED
    BY <2>1, <2>2 DEF RampInv
<1> QED
  BY <1>1, <1>2, <1>3, PTL DEF RampSpec
=============================================================================
