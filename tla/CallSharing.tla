---------------------------- MODULE CallSharing -----------------------------
(***************************************************************************)
(* What a single-flight group promises those who share it: a caller joins  *)
(* the one call of its key; when that call ends, all who joined it by then *)
(* have its result, the same one, and the next caller starts a new call.   *)
(* golang.org/x/sync implements it under FunctionScaler and under          *)
(* CachedFunctionQuery.  scaling/single.go implements it as far as it can: *)
(* its call runs on a goroutine of its own, whose panic ends the process.  *)
(***************************************************************************)
CONSTANTS Callers, Keys, NoResult

VARIABLES
  party,     \* who waits for the call of each key; no one: there is no call
  result     \* what a caller has been given, until it takes it away

sharingVars == <<party, result>>

Init ==
  /\ party = [k \in Keys |-> {}]
  /\ result = [c \in Callers |-> NoResult]

Join(c, k) ==
  /\ result[c] = NoResult
  /\ \A j \in Keys : c \notin party[j]
  /\ party' = [party EXCEPT ![k] = @ \cup {c}]
  /\ UNCHANGED result

Finish(k, v) ==
  /\ party[k] # {}
  /\ v # NoResult
  /\ result' = [c \in Callers |-> IF c \in party[k] THEN v ELSE result[c]]
  /\ party' = [party EXCEPT ![k] = {}]

Leave(c) ==
  /\ result[c] # NoResult
  /\ result' = [result EXCEPT ![c] = NoResult]
  /\ UNCHANGED party

(* The value of a call is whatever its parties find afterwards. *)
Next ==
  \/ \E c \in Callers, k \in Keys : Join(c, k)
  \/ \E k \in Keys : \E c \in party[k] : Finish(k, result'[c])
  \/ \E c \in Callers : Leave(c)

Spec == Init /\ [][Next]_sharingVars

(* A call that is waited for ends the process, and all who wait with it.   *)
Collapse ==
  /\ \E k \in Keys : party[k] # {}
  /\ party' = [k \in Keys |-> {}]
  /\ result' = [c \in Callers |-> NoResult]

FallibleSpec == Init /\ [][Next \/ Collapse]_sharingVars
=============================================================================
