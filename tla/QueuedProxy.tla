---------------------------- MODULE QueuedProxy -----------------------------
(***************************************************************************)
(* handlers/queue_proxy.go: an asynchronous call is stored in a queue and  *)
(* answered at once.  The queue is the NATSQueue of nats-queue-worker: all *)
(* requests publish on one connection, which reconnects when it is lost.   *)
(* The streaming server acknowledges what it has stored.                   *)
(***************************************************************************)
EXTENDS HttpExchange

CONSTANT MaxReconnect

ASSUME QueueAssumption == MaxReconnect \in Nat \ {0}

VARIABLES
  fault,        \* what is wrong with the request, if anything
  connection,   \* up, lost, or given up
  attempt,      \* of reconnect
  live,         \* the requests whose copy of q.nc is the live connection
  stored        \* what the queue holds: requests and their call ids

queueVars == <<fault, connection, attempt, live, stored>>

Faults == {"none", "malformed", "oversized"}

QueueTypeOK ==
  /\ fault \in [Requests -> Faults]
  /\ connection \in {"up", "lost", "gaveUp"}
  /\ attempt \in 0..MaxReconnect
  /\ live \subseteq Requests
  /\ stored \subseteq Requests \X Ids

QueueInit ==
  /\ fault = [r \in Requests |-> "none"]
  /\ connection = "up"
  /\ attempt = 0
  /\ live = {}
  /\ stored = {}

------------------------------------------------------------------------------
Enqueue(r) ==
  /\ Receive(r, "queuing")
  /\ \E wrong \in Faults : fault' = [fault EXCEPT ![r] = wrong]
  /\ UNCHANGED <<connection, attempt, live, stored>>

(* A body that cannot be read, a callback that is not a URL. *)
BadRequest(r) ==
  /\ fault[r] = "malformed"
  /\ Answer(r, "queuing", "replied", 400)
  /\ UNCHANGED queueVars

(* Queue refuses a body above its limit. *)
TooLarge(r) ==
  /\ fault[r] = "oversized"
  /\ Answer(r, "queuing", "replied", 500)
  /\ UNCHANGED queueVars

(* Waits while the connection is being made again. *)
TakeConnectionWhenUp(r) ==
  /\ fault[r] = "none"
  /\ connection = "up"
  /\ Move(r, "queuing", "publishing")
  /\ live' = live \cup {r}
  /\ UNCHANGED <<status, fault, connection, attempt, stored>>

(* Queue copies q.nc under its lock, and publishes without it. *)
TakeConnection(r) ==
  /\ fault[r] = "none"
  /\ Move(r, "queuing", "publishing")
  /\ live' = IF connection = "up" THEN live \cup {r} ELSE live
  /\ UNCHANGED <<status, fault, connection, attempt, stored>>

(* The streaming server has the call. *)
Deliver(r) ==
  /\ at[r] = "publishing"
  /\ r \in live
  /\ stored' = stored \cup {<<r, callId[r]>>}
  /\ UNCHANGED <<fault, connection, attempt, live, exchangeVars>>

Acknowledged(r) ==
  /\ Answer(r, "publishing", "replied", 202)
  /\ r \in live
  /\ <<r, callId[r]>> \in stored
  /\ live' = live \ {r}
  /\ UNCHANGED <<fault, connection, attempt, stored>>

(* The connection is gone, or the acknowledgement is late; the call may be *)
(* in the queue all the same.                                              *)
PublishFailed(r) ==
  /\ Answer(r, "publishing", "replied", 500)
  /\ live' = live \ {r}
  /\ UNCHANGED <<fault, connection, attempt, stored>>

------------------------------------------------------------------------------
(* The connection lost handler and its loop *)

Lose ==
  /\ connection = "up"
  /\ connection' = "lost"
  /\ attempt' = 0
  /\ live' = {}
  /\ UNCHANGED <<fault, stored, exchangeVars>>

Reconnect ==
  /\ connection = "lost"
  /\ attempt < MaxReconnect
  /\ connection' = "up"
  /\ UNCHANGED <<fault, attempt, live, stored, exchangeVars>>

(* A loop condition of i <= maxReconnect. *)
ReconnectFailedOnceMore ==
  /\ connection = "lost"
  /\ attempt <= MaxReconnect
  /\ attempt' = attempt + 1
  /\ UNCHANGED <<fault, connection, live, stored, exchangeVars>>

ReconnectFailed ==
  /\ connection = "lost"
  /\ attempt < MaxReconnect
  /\ attempt' = attempt + 1
  /\ UNCHANGED <<fault, connection, live, stored, exchangeVars>>

(* The loop ends; nobody tries again while the gateway runs. *)
GiveUp ==
  /\ connection = "lost"
  /\ attempt = MaxReconnect
  /\ connection' = "gaveUp"
  /\ UNCHANGED <<fault, attempt, live, stored, exchangeVars>>

Queue(r) ==
  \/ BadRequest(r) \/ TooLarge(r) \/ TakeConnection(r)
  \/ Deliver(r) \/ Acknowledged(r) \/ PublishFailed(r)

Redial == Reconnect \/ ReconnectFailed \/ GiveUp
=============================================================================
