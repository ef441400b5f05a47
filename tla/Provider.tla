------------------------------ MODULE Provider ------------------------------
(***************************************************************************)
(* The function provider (faas-netes, faasd) behind the gateway.  It is    *)
(* not part of this repository: it is modelled from what                   *)
(* plugin/external.go asks of it.  GetReplicas is the gateway's half of    *)
(* the query: what the reading becomes once labels have been parsed.       *)
(***************************************************************************)
EXTENDS ReplicaRules

CONSTANTS
  Functions,
  LabelChoices   \* the label triples authors give their functions

ASSUME ProviderAssumption == LabelChoices \subseteq Labels

VARIABLES
  deployed,    \* functions the provider knows
  replicas,    \* desired replicas of each function
  available,   \* replicas that answer requests
  labels,      \* scaling labels of each function
  seenReady    \* history: functions that have had an available replica

providerVars == <<deployed, replicas, available, labels, seenReady>>

ProviderTypeOK ==
  /\ deployed \subseteq Functions
  /\ replicas \in [Functions -> Nat]
  /\ available \in [Functions -> Nat]
  /\ labels \in [Functions -> LabelChoices]
  /\ seenReady \subseteq Functions

ProviderInit ==
  /\ deployed = Functions
  /\ replicas = [f \in Functions |-> 0]
  /\ available = [f \in Functions |-> 0]
  /\ labels \in [Functions -> LabelChoices]
  /\ seenReady = {}

------------------------------------------------------------------------------
(* What a query returns: ServiceQueryResponse and its error. *)

Response == [err : BOOLEAN, replicas : Nat, available : Nat,
             min : Nat, max : Nat, factor : Nat]

EmptyResponse == [err |-> TRUE, replicas |-> 0, available |-> 0,
                  min |-> 0, max |-> 0, factor |-> 0]

GetReplicas(f) ==
  IF f \in deployed /\ LabelsAccepted(labels[f])
  THEN [err |-> FALSE, replicas |-> replicas[f], available |-> available[f],
        min |-> MinReplicasOf(labels[f]), max |-> MaxReplicasOf(labels[f]),
        factor |-> ScalingFactorOf(labels[f])]
  ELSE EmptyResponse

------------------------------------------------------------------------------
(* What the provider does, on request or by itself. *)

(* A scale request takes effect. *)
ApplyScale(f, n) ==
  /\ f \in deployed
  /\ replicas' = [replicas EXCEPT ![f] = n]
  /\ UNCHANGED <<deployed, available, labels, seenReady>>

PodReady(f) ==
  /\ available[f] < replicas[f]
  /\ available' = [available EXCEPT ![f] = @ + 1]
  /\ seenReady' = seenReady \cup {f}
  /\ UNCHANGED <<deployed, replicas, labels>>

(* A replica crashes, or is terminated after a scale down. *)
PodGone(f) ==
  /\ available[f] > 0
  /\ available' = [available EXCEPT ![f] = @ - 1]
  /\ UNCHANGED <<deployed, replicas, labels, seenReady>>

Deploy(f) ==
  /\ f \notin deployed
  /\ deployed' = deployed \cup {f}
  /\ \E n \in {0, 1} : replicas' = [replicas EXCEPT ![f] = n]
  /\ \E l \in LabelChoices : labels' = [labels EXCEPT ![f] = l]
  /\ UNCHANGED <<available, seenReady>>

Delete(f) ==
  /\ f \in deployed
  /\ deployed' = deployed \ {f}
  /\ replicas' = [replicas EXCEPT ![f] = 0]
  /\ available' = [available EXCEPT ![f] = 0]
  /\ UNCHANGED <<labels, seenReady>>

Relabel(f) ==
  /\ f \in deployed
  /\ \E l \in LabelChoices : labels' = [labels EXCEPT ![f] = l]
  /\ UNCHANGED <<deployed, replicas, available, seenReady>>

(* An idler, or an operator, scales the function to zero. *)
ScaledToZero(f) == replicas[f] > 0 /\ ApplyScale(f, 0)

Operator(f) == Deploy(f) \/ Delete(f) \/ Relabel(f) \/ ScaledToZero(f)
=============================================================================
