------------------------------ MODULE LogProxy ------------------------------
(***************************************************************************)
(* handlers/logs.go: the logs of a function are streamed from the provider *)
(* to the client.  copyNotify starts a goroutine that copies and then says *)
(* so on a channel of one place; the handler waits for that, or for the    *)
(* client to leave, and returns, which closes the provider's response.     *)
(* The goroutine may then still be at work.                                *)
(***************************************************************************)
EXTENDS HttpExchange

CONSTANT MaxChunks

ASSUME LogAssumption == MaxChunks \in Nat

VARIABLES
  copier,    \* the goroutine of copyNotify; gone: its channel is filled
  source,    \* how much the provider will still send
  cut,       \* what has cut the stream off, if anything
  late       \* history: how much was written after the handler had returned

logVars == <<copier, source, cut, late>>

Cuts == {"no", "client", "deadline", "provider"}

LogTypeOK ==
  /\ copier \in [Requests -> {"none", "reading", "writing", "telling", "gone"}]
  /\ source \in [Requests -> 0..MaxChunks]
  /\ cut \in [Requests -> Cuts]
  /\ late \in [Requests -> Nat]

LogInit ==
  /\ copier = [r \in Requests |-> "none"]
  /\ source = [r \in Requests |-> 0]
  /\ cut = [r \in Requests |-> "no"]
  /\ late = [r \in Requests |-> 0]

------------------------------------------------------------------------------
(* The handler *)

Log(r) ==
  /\ Move(r, "new", "logging")
  /\ UNCHANGED <<status, logVars>>

(* 404 and 501 become 501, no connection and all others 500. *)
LogsRefused(r) ==
  /\ \E c \in {500, 501} : Answer(r, "logging", "logged", c)
  /\ UNCHANGED logVars

(* RoundTrip's ctx is over. *)
LogsAbandoned(r) ==
  /\ cut[r] # "no"
  /\ Answer(r, "logging", "logged", 500)
  /\ UNCHANGED logVars

LogsFound(r) ==
  /\ cut[r] = "no"
  /\ Move(r, "logging", "streaming")
  /\ copier' = [copier EXCEPT ![r] = "reading"]
  /\ \E n \in 0..MaxChunks : source' = [source EXCEPT ![r] = n]
  /\ UNCHANGED <<status, cut, late>>

(* select, and the deferred calls: the response's body is closed.          *)
LogsOver(r) ==
  /\ copier[r] = "gone" \/ cut[r] = "client"
  /\ Answer(r, "streaming", "logged", status[r])
  /\ UNCHANGED logVars

Logging(r) == LogsAbandoned(r) \/ LogsOver(r)

LogsAnswered(r) == LogsRefused(r) \/ LogsFound(r)

(* The client leaves, ctx expires after WriteTimeout, the provider dies.   *)
CutOff(r, what) ==
  /\ at[r] \in {"logging", "streaming"}
  /\ cut[r] # what
  /\ cut[r] = "no" \/ what = "client"
  /\ cut' = [cut EXCEPT ![r] = what]
  /\ UNCHANGED <<copier, source, late, exchangeVars>>

------------------------------------------------------------------------------
(* The goroutine: io.Copy to an unbufferedWriter *)

(* The body can be read from although its handler has returned. *)
ReadThoughClosed(r) ==
  /\ copier[r] = "reading"
  /\ source[r] > 0
  /\ copier' = [copier EXCEPT ![r] = "writing"]
  /\ source' = [source EXCEPT ![r] = @ - 1]
  /\ UNCHANGED <<cut, late, exchangeVars>>

(* What has arrived can be read, also when ctx is over, until the body is  *)
(* closed.                                                                 *)
ReadChunk(r) ==
  /\ copier[r] = "reading"
  /\ at[r] = "streaming"
  /\ source[r] > 0
  /\ copier' = [copier EXCEPT ![r] = "writing"]
  /\ source' = [source EXCEPT ![r] = @ - 1]
  /\ UNCHANGED <<cut, late, exchangeVars>>

(* io.EOF; logs that are followed may have none. *)
ReadEnds(r) ==
  /\ copier[r] = "reading"
  /\ source[r] = 0
  /\ copier' = [copier EXCEPT ![r] = "telling"]
  /\ UNCHANGED <<source, cut, late, exchangeVars>>

(* The context is over, or the body closed. *)
ReadFails(r) ==
  /\ copier[r] = "reading"
  /\ cut[r] # "no" \/ at[r] = "logged"
  /\ copier' = [copier EXCEPT ![r] = "telling"]
  /\ UNCHANGED <<source, cut, late, exchangeVars>>

(* Write and Flush; the first one sends the header.                        *)
WriteChunk(r) ==
  /\ copier[r] = "writing"
  /\ copier' = [copier EXCEPT ![r] = "reading"]
  /\ late' = [late EXCEPT ![r] = IF at[r] = "logged" THEN @ + 1 ELSE @]
  /\ status' = [status EXCEPT ![r] = IF @ = 0 THEN 200 ELSE @]
  /\ UNCHANGED <<source, cut, at, asked, callId, told>>

WriteFails(r) ==
  /\ copier[r] = "writing"
  /\ cut[r] \in {"client", "deadline"}
  /\ copier' = [copier EXCEPT ![r] = "telling"]
  /\ UNCHANGED <<source, cut, late, exchangeVars>>

(* make(chan error): the send waits for the handler's receive. *)
TellHandler(r) ==
  /\ copier[r] = "telling"
  /\ at[r] = "streaming"
  /\ copier' = [copier EXCEPT ![r] = "gone"]
  /\ UNCHANGED <<source, cut, late, exchangeVars>>

Tell(r) ==
  /\ copier[r] = "telling"
  /\ copier' = [copier EXCEPT ![r] = "gone"]
  /\ UNCHANGED <<source, cut, late, exchangeVars>>

Copy(r) == ReadFails(r) \/ WriteChunk(r) \/ WriteFails(r) \/ Tell(r)

Arrives(r) == ReadChunk(r) \/ ReadEnds(r)
=============================================================================
