---------------------------- MODULE AlertHandler ----------------------------
(***************************************************************************)
(* handlers/alerthandler.go: Alertmanager posts batches of alerts, each    *)
(* request on a goroutine of its own.  A handler takes the alerts of its   *)
(* batch in order: it queries the function's scale, computes a target from *)
(* what it read, and then sets it.  Nothing holds the two calls together.  *)
(*                                                                         *)
(* phase[h] is where handler h is: idle; next, about to take alert pos[h]; *)
(* read, holding the response of its query; or answered.                   *)
(***************************************************************************)
EXTENDS Provider, Sequences

CONSTANTS
  Handlers,
  Batches,      \* the bodies Alertmanager may post
  Unnamed       \* the function name of an alert that carries none

ASSUME AlertAssumption ==
  /\ Unnamed \notin Functions
  /\ Batches \subseteq Seq([function : Functions \cup {Unnamed}, firing : BOOLEAN])

VARIABLES
  phase,
  batch,      \* the alerts of the request
  pos,        \* the next of them
  reading,    \* what GetReplicas returned for it
  errors,     \* how many errors handleAlerts has collected
  lost,       \* history: how many queries failed without an error
  reply       \* 200, 400, 500, or 0: none, the connection was dropped

alertVars == <<phase, batch, pos, reading, errors, lost, reply>>
handlerVars == <<providerVars, alertVars>>

AlertTypeOK ==
  /\ ProviderTypeOK
  /\ phase \in [Handlers -> {"idle", "next", "read", "answered"}]
  /\ batch \in [Handlers -> Batches \cup {<<>>}]
  /\ pos \in [Handlers -> Nat \ {0}]
  /\ reading \in [Handlers -> Response]
  /\ errors \in [Handlers -> Nat]
  /\ lost \in [Handlers -> Nat]
  /\ reply \in [Handlers -> {0, 200, 400, 500}]
  /\ \A h \in Handlers : pos[h] <= Len(batch[h]) + 1

AlertInit ==
  /\ phase = [h \in Handlers |-> "idle"]
  /\ batch = [h \in Handlers |-> <<>>]
  /\ pos = [h \in Handlers |-> 1]
  /\ reading = [h \in Handlers |-> EmptyResponse]
  /\ errors = [h \in Handlers |-> 0]
  /\ lost = [h \in Handlers |-> 0]
  /\ reply = [h \in Handlers |-> 0]

Init == ProviderInit /\ AlertInit

------------------------------------------------------------------------------
(* One request *)

Receive(h) ==
  /\ phase[h] = "idle"
  /\ phase' = [phase EXCEPT ![h] = "next"]
  /\ \E b \in Batches : batch' = [batch EXCEPT ![h] = b]
  /\ UNCHANGED <<providerVars, pos, reading, errors, lost, reply>>

(* No body, one that cannot be read, or one that is not JSON. *)
Reject(h) ==
  /\ phase[h] = "idle"
  /\ phase' = [phase EXCEPT ![h] = "answered"]
  /\ reply' = [reply EXCEPT ![h] = 400]
  /\ UNCHANGED <<providerVars, batch, pos, reading, errors, lost>>

AtAlert(h) == phase[h] = "next" /\ pos[h] <= Len(batch[h])
Alert(h)   == batch[h][pos[h]]

(* scaleService returns: on to the next alert, one error the richer or not. *)
Advance(h, failed) ==
  /\ phase' = [phase EXCEPT ![h] = "next"]
  /\ pos' = [pos EXCEPT ![h] = @ + 1]
  /\ reading' = [reading EXCEPT ![h] = EmptyResponse]
  /\ errors' = [errors EXCEPT ![h] = IF failed THEN @ + 1 ELSE @]
  /\ UNCHANGED <<batch, reply>>

SkipUnnamed(h) ==
  /\ AtAlert(h)
  /\ Alert(h).function = Unnamed
  /\ Advance(h, FALSE)
  /\ UNCHANGED <<providerVars, lost>>

Query(h) ==
  /\ AtAlert(h)
  /\ Alert(h).function # Unnamed
  /\ ~GetReplicas(Alert(h).function).err
  /\ reading' = [reading EXCEPT ![h] = GetReplicas(Alert(h).function)]
  /\ phase' = [phase EXCEPT ![h] = "read"]
  /\ UNCHANGED <<providerVars, batch, pos, errors, lost, reply>>

(* The provider answers with an error, or not at all: getErr is dropped.   *)
QueryFailed(h) ==
  /\ AtAlert(h)
  /\ Alert(h).function # Unnamed
  /\ Advance(h, FALSE)
  /\ lost' = [lost EXCEPT ![h] = @ + 1]
  /\ UNCHANGED providerVars

(* newReplicas *)
Target(h) ==
  CalculateReplicas(Alert(h).firing, reading[h].replicas, reading[h].max,
                    reading[h].min, reading[h].factor)

AlreadyThere(h) ==
  /\ phase[h] = "read"
  /\ Target(h) = reading[h].replicas
  /\ Advance(h, FALSE)
  /\ UNCHANGED <<providerVars, lost>>

Setting(h) == phase[h] = "read" /\ Target(h) # reading[h].replicas

(* Keeps the reading for the next alert of the batch when that is for the  *)
(* same function.                                                          *)
SetAndReuse(h) ==
  /\ Setting(h)
  /\ ApplyScale(Alert(h).function, Target(h))
  /\ pos' = [pos EXCEPT ![h] = @ + 1]
  /\ IF pos[h] < Len(batch[h]) /\ batch[h][pos[h] + 1].function = Alert(h).function
     THEN UNCHANGED <<phase, reading>>
     ELSE /\ phase' = [phase EXCEPT ![h] = "next"]
          /\ reading' = [reading EXCEPT ![h] = EmptyResponse]
  /\ UNCHANGED <<batch, errors, lost, reply>>

Set(h) ==
  /\ Setting(h)
  /\ ApplyScale(Alert(h).function, Target(h))
  /\ Advance(h, FALSE)
  /\ UNCHANGED lost

(* updateErr is not passed on. *)
SetRefusedUnseen(h) ==
  /\ Setting(h)
  /\ Advance(h, FALSE)
  /\ UNCHANGED <<providerVars, lost>>

(* Neither another status nor a broken connection tells whether the        *)
(* provider has scaled.                                                    *)
PerhapsScaled(h) ==
  UNCHANGED providerVars \/ ApplyScale(Alert(h).function, Target(h))

(* Any status but 200 and 202. *)
SetRefused(h) ==
  /\ Setting(h)
  /\ PerhapsScaled(h)
  /\ Advance(h, TRUE)
  /\ UNCHANGED lost

(* The connection fails: SetReplicas panics on its nil response            *)
(* (external.go 201), and the handler with it.                             *)
SetBroken(h) ==
  /\ Setting(h)
  /\ PerhapsScaled(h)
  /\ phase' = [phase EXCEPT ![h] = "answered"]
  /\ reading' = [reading EXCEPT ![h] = EmptyResponse]
  /\ UNCHANGED <<batch, pos, errors, lost, reply>>

Reply(h) ==
  /\ phase[h] = "next"
  /\ pos[h] > Len(batch[h])
  /\ phase' = [phase EXCEPT ![h] = "answered"]
  /\ reply' = [reply EXCEPT ![h] = IF errors[h] > 0 THEN 500 ELSE 200]
  /\ UNCHANGED <<providerVars, batch, pos, reading, errors, lost>>

Done(h) ==
  /\ phase[h] = "answered"
  /\ phase' = [phase EXCEPT ![h] = "idle"]
  /\ batch' = [batch EXCEPT ![h] = <<>>]
  /\ pos' = [pos EXCEPT ![h] = 1]
  /\ errors' = [errors EXCEPT ![h] = 0]
  /\ lost' = [lost EXCEPT ![h] = 0]
  /\ reply' = [reply EXCEPT ![h] = 0]
  /\ UNCHANGED <<providerVars, reading>>

------------------------------------------------------------------------------
Handle(h) ==
  \/ Receive(h) \/ Reject(h) \/ SkipUnnamed(h)
  \/ Query(h) \/ QueryFailed(h)
  \/ AlreadyThere(h) \/ Set(h) \/ SetRefused(h) \/ SetBroken(h)
  \/ Reply(h) \/ Done(h)

(* Handlers race with each other, and with everyone who owns a function.   *)
Next ==
  \/ \E h \in Handlers : Handle(h)
  \/ \E f \in Functions : Operator(f) /\ UNCHANGED alertVars

Spec == Init /\ [][Next]_handlerVars

(* Handlers are the only writers: with one of them, nothing races. *)
AlertsOnlyNext == \E h \in Handlers : Handle(h)
AlertsOnlySpec == Init /\ [][AlertsOnlyNext]_handlerVars

------------------------------------------------------------------------------
(* Properties *)

SaneLabels == \A l \in LabelChoices : MinReplicasOf(l) <= DefaultMaxReplicas

(* With labels whose minimum is within the gateway's ceiling, no           *)
(* interleaving of handlers and operators, and no reading however stale,   *)
(* takes a function beyond the ceiling.                                    *)
AlertsWithinCeiling ==
  SaneLabels => \A f \in Functions : replicas[f] <= DefaultMaxReplicas

(* The last alert of h's batch for its function. *)
LastAlerts(h) ==
  {i \in DOMAIN batch[h] :
     /\ batch[h][i].function # Unnamed
     /\ \A j \in DOMAIN batch[h] : j > i => batch[h][j].function # batch[h][i].function}

(* A handler that is the only writer and answers 200, no query having      *)
(* failed, leaves each function where the last alert for it wants it: at   *)
(* its minimum when resolved, a step up or at the ceiling when firing.     *)
AnsweredMeansScaled ==
  \A h \in Handlers :
    reply[h] = 200 /\ lost[h] = 0 =>
      \A i \in LastAlerts(h) :
        LET f    == batch[h][i].function
            ceil == Ceiling(MaxReplicasOf(labels[f]))
        IN  IF batch[h][i].firing
            THEN replicas[f] >= AtMost(ceil, ScaleStep(ceil, ScalingFactorOf(labels[f])))
            ELSE replicas[f] = MinReplicasOf(labels[f])

(* A single handler's query and set together are one step of AutoScale.    *)
Atomic == INSTANCE AutoScale WITH Requested <- {}
ImplementsAutoScale == Atomic!Spec

(* alerthandler.go 72: every alert of the batch is handled in turn.  The   *)
(* panic of a broken SetReplicas abandons the rest.                        *)
WholeBatchAttempted ==
  \A h \in Handlers : phase[h] = "answered" => pos[h] > Len(batch[h])
=============================================================================
