---------------------------- MODULE ReplicaRules ----------------------------
(***************************************************************************)
(* The arithmetic on replica counts that every writer of a function's      *)
(* scale shares: how plugin/external.go reads the scaling labels, how the  *)
(* alert handler computes its target, and how /system/scale-function       *)
(* clamps a request.  Pure operators, no state.                            *)
(***************************************************************************)
EXTENDS Integers

CONSTANTS
  DefaultMinReplicas,    \* scaling/ranges.go
  DefaultMaxReplicas,
  DefaultScalingFactor,
  UintModulus,           \* 2^64 in the code; any width above the counts in use
  NotNumber,             \* a label that is absent or that Atoi rejects
  CeilRoundsUp           \* <<max, factor>> whose float64 quotient overshoots

(***************************************************************************)
(* CeilRoundsUp is the one effect float64 has on the step: when            *)
(* max * factor is a multiple of 100 the exact quotient is an integer, and *)
(* max / 100 * factor may land just above it.                              *)
(***************************************************************************)
ASSUME RulesAssumption ==
  /\ DefaultMinReplicas \in Nat
  /\ DefaultMaxReplicas \in Nat \ {0}
  /\ DefaultScalingFactor \in 1..100
  /\ UintModulus \in Nat
  /\ UintModulus > DefaultMaxReplicas
  /\ UintModulus > DefaultMinReplicas
  /\ UintModulus > 100
  /\ NotNumber \notin Int
  /\ CeilRoundsUp \subseteq Nat \X (1..100)

Uint == 0..(UintModulus - 1)

(* A raw label value, as the function's author wrote it. *)
RawLabel == Int \cup {NotNumber}

Labels == [min : RawLabel, max : RawLabel, factor : RawLabel]

AtMost(a, b) == IF a < b THEN a ELSE b

------------------------------------------------------------------------------
(* plugin/external.go *)

(* The number as Atoi gives it, without the conversion. *)
ExtractSigned(raw, fallback) ==
  IF raw = NotNumber THEN fallback ELSE raw

(* uint64(value): a negative number wraps around. *)
ExtractLabelValue(raw, fallback) ==
  IF raw = NotNumber THEN fallback ELSE raw % UintModulus

ScalingFactorOf(l) == ExtractLabelValue(l.factor, DefaultScalingFactor)
MinReplicasOf(l)   == ExtractLabelValue(l.min, DefaultMinReplicas)
MaxReplicasOf(l)   == ExtractLabelValue(l.max, DefaultMaxReplicas)

(* GetReplicas fails when the factor is outside 1..100. *)
LabelsAccepted(l) == ScalingFactorOf(l) \in 1..100

------------------------------------------------------------------------------
(* handlers/alerthandler.go, CalculateReplicas *)

Ceiling(maxReplicas) == AtMost(maxReplicas, DefaultMaxReplicas)

FloorStep(maxReplicas, factor) == (maxReplicas * factor) \div 100

(* math.Ceil(float64(max) / 100 * float64(factor)) *)
ScaleStep(maxReplicas, factor) ==
  LET product == maxReplicas * factor
  IN  IF product % 100 = 0
      THEN product \div 100 + (IF <<maxReplicas, factor>> \in CeilRoundsUp
                               THEN 1 ELSE 0)
      ELSE product \div 100 + 1

CalculateUnclamped(firing, current, maxReplicas, minReplicas, factor) ==
  LET step == ScaleStep(Ceiling(maxReplicas), factor)
  IN  IF firing /\ step > 0 THEN (current + step) % UintModulus ELSE minReplicas

CalculateReplicas(firing, current, maxReplicas, minReplicas, factor) ==
  LET ceiling == Ceiling(maxReplicas)
      step    == ScaleStep(ceiling, factor)
      raised  == (current + step) % UintModulus
  IN  IF firing /\ step > 0
      THEN (IF raised > ceiling THEN ceiling ELSE raised)
      ELSE minReplicas

(* The target of an alert for a function with these labels. *)
AlertTarget(firing, current, l) ==
  CalculateReplicas(firing, current, MaxReplicasOf(l), MinReplicasOf(l),
                    ScalingFactorOf(l))

------------------------------------------------------------------------------
(* scaling/ranges.go, MakeHorizontalScalingHandler *)

HorizontalNoCeiling(requested) ==
  IF requested < 1 THEN 1 ELSE requested

HorizontalReplicas(requested) ==
  IF requested < 1 THEN 1 ELSE AtMost(requested, DefaultMaxReplicas)

(* scaling/function_scaler.go: what scaling from zero asks for. *)
ScaleFromZeroNoDefault(minReplicas) == minReplicas

ScaleFromZeroTarget(minReplicas) ==
  IF minReplicas > 0 THEN minReplicas ELSE 1
=============================================================================
