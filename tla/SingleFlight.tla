---------------------------- MODULE SingleFlight ----------------------------
(***************************************************************************)
(* scaling/single.go: SingleFlight.Do joins the call that is in s.calls    *)
(* under its key, or makes one and starts a goroutine that runs f.  What   *)
(* is done under s.lock is one step, except for the goroutine's last       *)
(* section: the waiters that wg.Done wakes read call.res without the lock. *)
(***************************************************************************)
EXTENDS Naturals

CONSTANTS
  Callers, Keys,
  Results,     \* what f returns, a value or an error
  Objects,     \* addresses of Call objects; reused when nothing points there
  Nil          \* no object, no result, and the lock when it is free

ASSUME FlightAssumption ==
  /\ Objects \subseteq Nat
  /\ Nil \notin Objects \cup Results

VARIABLES
  lock,      \* the object whose goroutine holds s.lock
  calls,     \* s.calls
  wg, res,   \* the fields of a Call
  run,       \* how far the goroutine of a Call has come
  runKey,    \* the key it was started for
  value,     \* what f has returned to it
  at,        \* how far each caller has come in Do
  key,       \* the key it asks for
  held       \* its variable call

callVars   == <<wg, res, run, runKey, value>>
callerVars == <<at, key, held>>
flightVars == <<lock, calls, callVars, callerVars>>

FlightTypeOK ==
  /\ lock \in Objects \cup {Nil}
  /\ calls \in [Keys -> Objects \cup {Nil}]
  /\ wg \in [Objects -> {0, 1}]
  /\ res \in [Objects -> Results \cup {Nil}]
  /\ run \in [Objects -> {"none", "calling", "returned", "stored", "woken"}]
  /\ runKey \in [Objects -> Keys]
  /\ value \in [Objects -> Results \cup {Nil}]
  /\ at \in [Callers -> {"out", "asking", "waiting"}]
  /\ key \in [Callers -> Keys]
  /\ held \in [Callers -> Objects \cup {Nil}]

FlightInit ==
  /\ lock = Nil
  /\ calls = [k \in Keys |-> Nil]
  /\ wg = [o \in Objects |-> 0]
  /\ res = [o \in Objects |-> Nil]
  /\ run = [o \in Objects |-> "none"]
  /\ runKey \in {[o \in Objects |-> k] : k \in Keys}
  /\ value = [o \in Objects |-> Nil]
  /\ at = [c \in Callers |-> "out"]
  /\ key \in {[c \in Callers |-> k] : k \in Keys}
  /\ held = [c \in Callers |-> Nil]

------------------------------------------------------------------------------
(* Do *)

Ask(c) ==
  /\ at[c] = "out"
  /\ at' = [at EXCEPT ![c] = "asking"]
  /\ \E k \in Keys : key' = [key EXCEPT ![c] = k]
  /\ UNCHANGED <<lock, calls, callVars, held>>

(* Joins the call that is in the map; waits without the lock. *)
Follow(c) ==
  /\ at[c] = "asking"
  /\ lock = Nil
  /\ calls[key[c]] # Nil
  /\ held' = [held EXCEPT ![c] = calls[key[c]]]
  /\ at' = [at EXCEPT ![c] = "waiting"]
  /\ UNCHANGED <<lock, calls, callVars, key>>

Unused(o) ==
  /\ run[o] = "none"
  /\ \A c \in Callers : held[c] # o
  /\ \A k \in Keys : calls[k] # o

(* &Call{}: the allocator's choice of an address makes no difference. *)
Allocated(o) == Unused(o) /\ \A p \in Objects : Unused(p) => o <= p

(* A new Call, with wg at n, for the goroutine that runs f. *)
NewCall(c, o, n) ==
  /\ calls' = [calls EXCEPT ![key[c]] = o]
  /\ wg' = [wg EXCEPT ![o] = n]
  /\ res' = [res EXCEPT ![o] = Nil]
  /\ run' = [run EXCEPT ![o] = "calling"]
  /\ runKey' = [runKey EXCEPT ![o] = key[c]]
  /\ value' = [value EXCEPT ![o] = Nil]
  /\ held' = [held EXCEPT ![c] = o]
  /\ at' = [at EXCEPT ![c] = "waiting"]
  /\ UNCHANGED <<lock, key>>

(* wg.Add(1) left to the goroutine, which has not run yet. *)
LeadBeforeAdd(c) ==
  /\ at[c] = "asking"
  /\ lock = Nil
  /\ calls[key[c]] = Nil
  /\ \E o \in Objects : Allocated(o) /\ NewCall(c, o, 0)

(* The map was looked at under a lock that has been released since. *)
LeadUnchecked(c) ==
  /\ at[c] = "asking"
  /\ lock = Nil
  /\ \E o \in Objects : Allocated(o) /\ NewCall(c, o, 1)

Lead(c) ==
  /\ at[c] = "asking"
  /\ lock = Nil
  /\ calls[key[c]] = Nil
  /\ \E o \in Objects : Allocated(o) /\ NewCall(c, o, 1)

(* wg.Wait, and then call.res.Result, call.res.Error. *)
Return(c) ==
  /\ at[c] = "waiting"
  /\ wg[held[c]] = 0
  /\ at' = [at EXCEPT ![c] = "out"]
  /\ held' = [held EXCEPT ![c] = Nil]
  /\ UNCHANGED <<lock, calls, callVars, key>>

------------------------------------------------------------------------------
(* The goroutine of a Call *)

FReturns(o) ==
  /\ run[o] = "calling"
  /\ \E v \in Results : value' = [value EXCEPT ![o] = v]
  /\ run' = [run EXCEPT ![o] = "returned"]
  /\ UNCHANGED <<lock, calls, wg, res, runKey, callerVars>>

(* Nothing recovers a panic of f: the process ends, and is started again.  *)
FPanics(o) ==
  /\ run[o] = "calling"
  /\ lock' = Nil
  /\ calls' = [k \in Keys |-> Nil]
  /\ wg' = [p \in Objects |-> 0]
  /\ res' = [p \in Objects |-> Nil]
  /\ run' = [p \in Objects |-> "none"]
  /\ value' = [p \in Objects |-> Nil]
  /\ at' = [c \in Callers |-> "out"]
  /\ held' = [c \in Callers |-> Nil]
  /\ UNCHANGED <<runKey, key>>

StoreResult(o) ==
  /\ run[o] = "returned"
  /\ lock = Nil
  /\ lock' = o
  /\ res' = [res EXCEPT ![o] = value[o]]
  /\ run' = [run EXCEPT ![o] = "stored"]
  /\ UNCHANGED <<calls, wg, runKey, value, callerVars>>

Wake(o) ==
  /\ run[o] = "stored"
  /\ wg' = [wg EXCEPT ![o] = 0]
  /\ run' = [run EXCEPT ![o] = "woken"]
  /\ UNCHANGED <<lock, calls, res, runKey, value, callerVars>>

(* An early return between Done and delete. *)
ForgetNothing(o) ==
  /\ run[o] = "woken"
  /\ lock' = Nil
  /\ run' = [run EXCEPT ![o] = "none"]
  /\ value' = [value EXCEPT ![o] = Nil]
  /\ UNCHANGED <<calls, wg, res, runKey, callerVars>>

Forget(o) ==
  /\ run[o] = "woken"
  /\ calls' = [calls EXCEPT ![runKey[o]] = Nil]
  /\ lock' = Nil
  /\ run' = [run EXCEPT ![o] = "none"]
  /\ value' = [value EXCEPT ![o] = Nil]
  /\ UNCHANGED <<wg, res, runKey, callerVars>>

------------------------------------------------------------------------------
Do(c)        == Follow(c) \/ Lead(c) \/ Return(c)
Goroutine(o) == FReturns(o) \/ FPanics(o) \/ StoreResult(o) \/ Wake(o) \/ Forget(o)

FlightNext ==
  \/ \E c \in Callers : Ask(c) \/ Do(c)
  \/ \E o \in Objects : Goroutine(o)

FlightSpec == FlightInit /\ [][FlightNext]_flightVars

------------------------------------------------------------------------------
(* Properties *)

(* What Do dereferences when it wakes is there: wg reaches zero only after *)
(* res is set, and nobody finds a Call whose wg has not been raised yet    *)
(* (single.go 62 and 74-79).                                               *)
NoNilResult ==
  \A c \in Callers : at[c] = "waiting" /\ wg[held[c]] = 0 => res[held[c]] # Nil

(* f never runs twice at a time for one key, which is what the layer is    *)
(* for (single.go 37).                                                     *)
OneRunPerKey ==
  \A o, p \in Objects :
    run[o] = "calling" /\ run[p] = "calling" /\ runKey[o] = runKey[p] => o = p

(* SingleFlight implements CallSharing, except that a panic of f takes all *)
(* callers with it.                                                        *)
Sharing == INSTANCE CallSharing WITH
  NoResult <- Nil,
  party <- [k \in Keys |-> {c \in Callers :
             at[c] = "waiting" /\ key[c] = k /\ wg[held[c]] # 0}],
  result <- [c \in Callers |->
             IF at[c] = "waiting" /\ wg[held[c]] = 0 THEN res[held[c]] ELSE Nil]

SharesCalls == Sharing!FallibleSpec
=============================================================================
