----------------------------- MODULE ScaleGate ------------------------------
(***************************************************************************)
(* What scale from zero promises a client, whatever the cache, the         *)
(* single-flight group and the provider do: every request gets one answer, *)
(* and it reaches its function only when the function has been seen with   *)
(* an available replica or the gateway has run out of patience.            *)
(***************************************************************************)
CONSTANTS Requests, Functions

VARIABLES
  ready,     \* functions that have had an available replica
  outcome,   \* what became of each request
  wants      \* the function of each request

gateVars == <<ready, outcome, wants>>

Refusals == {"notFound", "failed", "aborted"}
Final    == Refusals \cup {"admitted", "gaveUp"}

Init ==
  /\ ready = {}
  /\ outcome = [r \in Requests |-> "absent"]
  /\ wants \in [Requests -> Functions]

BecomeReady ==
  /\ \E f \in Functions : ready' = ready \cup {f}
  /\ UNCHANGED <<outcome, wants>>

Ask(r) ==
  /\ outcome[r] = "absent"
  /\ outcome' = [outcome EXCEPT ![r] = "pending"]
  /\ \E f \in Functions : wants' = [wants EXCEPT ![r] = f]
  /\ UNCHANGED ready

Resolve(r, what) ==
  /\ outcome[r] = "pending"
  /\ what = "admitted" => wants[r] \in ready
  /\ outcome' = [outcome EXCEPT ![r] = what]
  /\ UNCHANGED <<ready, wants>>

Depart(r) ==
  /\ outcome[r] \in Final
  /\ outcome' = [outcome EXCEPT ![r] = "absent"]
  /\ UNCHANGED <<ready, wants>>

Answer(r) == \E what \in Final : Resolve(r, what)

Next ==
  \/ BecomeReady
  \/ \E r \in Requests : Ask(r) \/ Answer(r) \/ Depart(r)

Spec == Init /\ [][Next]_gateVars /\ \A r \in Requests : WF_gateVars(Answer(r))
=============================================================================
