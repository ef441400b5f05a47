----------------------------- MODULE CallPaths ------------------------------
(***************************************************************************)
(* What main.go serves of functions: calls, at /function/ and              *)
(* /async-function/, their list and their logs.  The handlers of           *)
(* ForwardingProxy, QueuedProxy, FunctionList and LogProxy serve their     *)
(* requests side by side.                                                  *)
(***************************************************************************)
EXTENDS FunctionList, LogProxy, QueuedProxy

pathVars == <<exchangeVars, forwardVars, queueVars, listVars, logVars>>

PathTypeOK ==
  ExchangeTypeOK /\ ForwardTypeOK /\ QueueTypeOK /\ ListTypeOK /\ LogTypeOK

Init == ExchangeInit /\ ForwardInit /\ QueueInit /\ ListInit /\ LogInit

Synchronous(r)  == Call(r) /\ UNCHANGED <<queueVars, listVars, logVars>>
Asynchronous(r) == Queue(r) /\ UNCHANGED <<forwardVars, listVars, logVars>>
Lists(r)        == Listing(r) /\ UNCHANGED <<forwardVars, queueVars, logVars>>
Logs(r)         == Logging(r) /\ UNCHANGED <<forwardVars, queueVars, listVars>>
Copies(r)       == Copy(r) /\ UNCHANGED <<forwardVars, queueVars, listVars>>
LogsFlow(r) ==
  (LogsAnswered(r) \/ Arrives(r)) /\ UNCHANGED <<forwardVars, queueVars, listVars>>
LogsCut(r, why) == CutOff(r, why) /\ UNCHANGED <<forwardVars, queueVars, listVars>>
Redials         == Redial /\ UNCHANGED <<forwardVars, listVars, logVars>>

Requested(r) ==
  \/ Forward(r) /\ UNCHANGED <<queueVars, listVars, logVars>>
  \/ Enqueue(r) /\ UNCHANGED <<forwardVars, listVars, logVars>>
  \/ List(r) /\ UNCHANGED <<forwardVars, queueVars, logVars>>
  \/ Log(r) /\ UNCHANGED <<forwardVars, queueVars, listVars>>

Handled(r) ==
  Synchronous(r) \/ Asynchronous(r) \/ Lists(r) \/ Logs(r) \/ Copies(r)

Background ==
  \/ Redials
  \/ Lose /\ UNCHANGED <<forwardVars, listVars, logVars>>
  \/ Scrape /\ UNCHANGED <<exchangeVars, forwardVars, queueVars, logVars>>

Next ==
  \/ \E r \in Requests :
       \/ Requested(r) \/ Handled(r) \/ LogsFlow(r)
       \/ \E why \in Cuts \ {"no"} : LogsCut(r, why)
  \/ Background

(* Handlers and goroutines are scheduled.  A forwarded call ends, its      *)
(* context having a deadline, and so does a publication, stan.Publish      *)
(* having one; the context of a request for logs expires, which is why no  *)
(* fairness is asked of LogsFlow, the provider's part in them; the loop of *)
(* reconnect sleeps for a bounded time.  Prometheus is queried with        *)
(* http.DefaultClient, which waits for ever: that it answers is assumed.   *)
Fairness ==
  /\ \A r \in Requests :
       /\ WF_pathVars(Synchronous(r))
       /\ WF_pathVars(Asynchronous(r))
       /\ WF_pathVars(Lists(r))
       /\ WF_pathVars(Logs(r))
       /\ WF_pathVars(Copies(r))
       /\ WF_pathVars(LogsCut(r, "deadline"))
  /\ WF_pathVars(Redials)

Spec == Init /\ [][Next]_pathVars /\ Fairness

------------------------------------------------------------------------------
(* Properties *)

(* The counters add up whatever happens to the calls: every synchronous    *)
(* call is started once, and every one that is over is counted once, under *)
(* the function that its name means elsewhere in the gateway and under the *)
(* status its client has received.                                         *)
CountersTellStatus ==
  \A l \in Labels :
    /\ started[l] = Cardinality({r \in Requests :
         /\ at[r] \in {"forwarding", "copying", "answered", "finished"}
         /\ FunctionOf(called[r]) = l})
    /\ \A c \in Codes :
         completed[l][c] = Cardinality({r \in Requests :
           at[r] = "finished" /\ FunctionOf(called[r]) = l /\ status[r] = c})

(* A client that has a 202 finds its call in the queue under the id it     *)
(* sent, or else the one it was told; and no two calls that were given     *)
(* theirs here share one.                                                  *)
AcceptedIsTraceable ==
  \A r \in Requests :
    /\ at[r] = "replied" /\ status[r] = 202 =>
         <<r, IF asked[r] = NoId THEN told[r] ELSE asked[r]>> \in stored
    /\ \A q \in Requests \ {r} : told[r] # NoId => told[r] # callId[q]

(* A list that has been sent tells of every function no fewer calls than   *)
(* Prometheus had counted when it was asked for, and no more than have     *)
(* been made and finished, whatever the provider says of invocations.      *)
ListedCountsAreReal ==
  \A r \in Requests :
    at[r] = "listed" /\ status[r] = 200 =>
      \A d \in listed[r] \cap Labels :
        counts[r][d] \in before[r][d]..
          Cardinality({q \in Requests :
            at[q] = "finished" /\ FunctionOf(called[q]) = d})

(* Logs whose stream nothing has cut off are passed on to the end; once    *)
(* the handler has returned, the goroutine it has left behind writes at    *)
(* most the one chunk it had already read.                                 *)
LogsAreWhole ==
  \A r \in Requests :
    /\ at[r] = "logged" /\ status[r] = 200 /\ cut[r] = "no" =>
         source[r] = 0 /\ copier[r] = "gone"
    /\ late[r] <= 1

(* Every request is answered, on each path, also while the queue is not    *)
(* connected or has given up.                                              *)
EveryCallAnswered ==
  \A r \in Requests :
    at[r] \in {"forwarding", "queuing", "listing", "logging"} ~>
      at[r] \in {"finished", "replied", "listed", "logged"}

(* The goroutine that copies logs does not outlive its handler for ever:   *)
(* copyNotify leaks none, as its test in logs_test.go says.                *)
CopierEnds ==
  \A r \in Requests : at[r] = "logged" ~> copier[r] \in {"none", "gone"}
=============================================================================
