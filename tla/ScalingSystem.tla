--------------------------- MODULE ScalingSystem ----------------------------
(***************************************************************************)
(* The gateway's three writers of a function's scale at work on one        *)
(* provider: requests that scale from zero (FunctionScaler), batches of    *)
(* alerts (AlertHandler), and manual requests to /system/scale-function.   *)
(* They share nothing but the provider: scale from zero goes through the   *)
(* single-flight group, the other two do not.                              *)
(***************************************************************************)
EXTENDS FunctionScaler, Sequences

CONSTANTS Handlers, Batches, Unnamed,
          Requested     \* replica counts asked for by hand

ASSUME SystemAssumption ==
  /\ Requested \subseteq Nat
  /\ Unnamed \notin Functions
  /\ Batches \subseteq Seq([function : Functions \cup {Unnamed}, firing : BOOLEAN])

VARIABLES phase, batch, pos, reading, errors, lost, reply

Alerts == INSTANCE AlertHandler

alertVars == <<phase, batch, pos, reading, errors, lost, reply>>
systemVars == <<vars, alertVars>>

SystemInit == Init /\ Alerts!AlertInit

(* MakeHorizontalScalingHandler, then the proxy to the provider; a request *)
(* the provider does not accept changes nothing here.                      *)
ScaleFunction(f) == \E n \in Requested : ApplyScale(f, HorizontalReplicas(n))

SystemNext ==
  \/ UnattendedNext /\ UNCHANGED alertVars
  \/ \E h \in Handlers : Alerts!Handle(h) /\ ScalerOnly
  \/ \E f \in Functions :
       (ScaleFunction(f) \/ Relabel(f)) /\ ScalerOnly /\ UNCHANGED alertVars

SystemSpec == SystemInit /\ [][SystemNext]_systemVars

------------------------------------------------------------------------------
(* Properties *)

(* Whatever the order in which the three writers read and write, and       *)
(* whatever calls fail, no function exceeds the gateway's ceiling.         *)
SystemWithinCeiling ==
  Alerts!SaneLabels => \A f \in Functions : replicas[f] <= DefaultMaxReplicas

(* function_scaler.go 40: Scale takes a function from zero to its minimum. *)
(* Its check and its SetReplicas are two calls, and what another writer    *)
(* does between them is undone: a function with many replicas is taken     *)
(* down to one.                                                            *)
ScaleFromZeroNeverShrinks ==
  [][\A f \in Functions : AcceptSet(f) => replicas'[f] >= replicas[f]]_systemVars
=============================================================================
