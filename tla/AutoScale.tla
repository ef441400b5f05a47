----------------------------- MODULE AutoScale ------------------------------
(***************************************************************************)
(* What the gateway's three writers of a function's scale mean when each   *)
(* acts alone and at once: an alert (handlers/alerthandler.go), a manual   *)
(* request (scaling/ranges.go) and scale from zero                         *)
(* (scaling/function_scaler.go).  The concurrent modules read the scale in *)
(* one step and write it in a later one.                                   *)
(***************************************************************************)
EXTENDS ReplicaRules

CONSTANTS
  Functions,
  LabelChoices,
  Requested     \* replica counts asked for by hand

ASSUME AutoScaleAssumption ==
  /\ LabelChoices \subseteq Labels
  /\ Requested \subseteq Uint

VARIABLES replicas, labels

autoVars == <<replicas, labels>>

Init ==
  /\ replicas = [f \in Functions |-> 0]
  /\ labels \in [Functions -> LabelChoices]

SetTo(f, n) ==
  /\ replicas' = [replicas EXCEPT ![f] = n]
  /\ UNCHANGED labels

Alert(f, firing) ==
  /\ LabelsAccepted(labels[f])
  /\ SetTo(f, AlertTarget(firing, replicas[f], labels[f]))

Fire(f)    == Alert(f, TRUE)
Resolve(f) == Alert(f, FALSE)

ScaleFunction(f) == \E n \in Requested : SetTo(f, HorizontalReplicas(n))

ScaleFromZero(f) ==
  /\ LabelsAccepted(labels[f])
  /\ replicas[f] = 0
  /\ SetTo(f, ScaleFromZeroTarget(MinReplicasOf(labels[f])))

Next ==
  \E f \in Functions : Fire(f) \/ Resolve(f) \/ ScaleFunction(f) \/ ScaleFromZero(f)

Spec == Init /\ [][Next]_autoVars

------------------------------------------------------------------------------
(* Labels whose minimum stays within the gateway's own ceiling. *)
SaneLabels == \A l \in LabelChoices : MinReplicasOf(l) <= DefaultMaxReplicas

(* With such labels nobody takes a function beyond DefaultMaxReplicas,     *)
(* whatever the labels say of the maximum and the factor, and however the  *)
(* three writers alternate.                                                *)
WithinCeiling ==
  SaneLabels => \A f \in Functions : replicas[f] <= DefaultMaxReplicas
=============================================================================
