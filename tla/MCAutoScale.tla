---------------------------- MODULE MCAutoScale -----------------------------
(***************************************************************************)
(* AutoScale with the gateway's own constants: every maximum and factor a  *)
(* label can hold around them, and a few odd ones.                         *)
(***************************************************************************)
EXTENDS AutoScale

(* The products max * factor, max <= 50, whose float64 evaluation          *)
(* max / 100 * factor lands just above the integer quotient.               *)
Float64Ceil ==
  {<<7, 100>>, <<14, 50>>, <<14, 100>>, <<28, 25>>, <<28, 50>>, <<28, 75>>, <<28, 100>>}

WithLabels(mins, maxes, factors) ==
  [min : mins, max : maxes, factor : factors]

(* Every maximum up to beyond the ceiling with every factor; minima;       *)
(* negative and out-of-range values.                                       *)
AllLabels ==
  WithLabels({NotNumber}, (0..55) \cup {NotNumber}, (1..100) \cup {NotNumber})
    \cup WithLabels({NotNumber, 2, 50}, {NotNumber, 0, 20, 300, -1},
                    {NotNumber, 0, 7, 100, -5})

ByHand == {0, 30, 255}

(* History: firings since the function was last set by anything else. *)
VARIABLE rounds

RampInit == Init /\ rounds = [f \in Functions |-> 0]

RampNext ==
  \E f \in Functions :
    \/ /\ Fire(f)
       /\ rounds[f] * ScalingFactorOf(labels[f]) < 100
       /\ rounds' = [rounds EXCEPT ![f] = @ + 1]
    \/ /\ Resolve(f) \/ ScaleFunction(f) \/ ScaleFromZero(f)
       /\ rounds' = [rounds EXCEPT ![f] = 0]

RampSpec == RampInit /\ [][RampNext]_<<autoVars, rounds>>

(* A factor of p percent reaches the ceiling within 100/p firings, rounded *)
(* up: the step of CalculateReplicas is never rounded down.  A maximum of  *)
(* zero has no step, and its firings mean the minimum.                     *)
FullRampWithinFactor ==
  \A f \in Functions :
    LET ceiling == Ceiling(MaxReplicasOf(labels[f]))
    IN  ceiling > 0 /\ rounds[f] * ScalingFactorOf(labels[f]) >= 100
          => replicas[f] = ceiling
=============================================================================
