-------------------------- MODULE ForwardingProxy ---------------------------
(***************************************************************************)
(* handlers/forwarding_proxy.go: a synchronous call is announced to the    *)
(* notifiers, forwarded to the provider, answered with what comes back,    *)
(* and announced again.  An event stream goes through                      *)
(* httputil.ReverseProxy instead of the client, on a goroutine the handler *)
(* waits for.  The notifiers' counters are shared by all requests, and     *)
(* labelled with what they make of the name in the URL.  What is copied,   *)
(* headers and bodies, is left out.                                        *)
(***************************************************************************)
EXTENDS HttpExchange, Names

CONSTANTS
  Called,               \* names in URLs
  DefaultNamespace,     \* config.Namespace
  UpstreamCodes         \* what functions answer

ASSUME ForwardingAssumption ==
  /\ Called \subseteq Names
  /\ DefaultNamespace \in Segments
  /\ UpstreamCodes \subseteq 200..599

VARIABLES
  called,      \* the name in the URL
  stream,      \* the client accepts text/event-stream
  recorded,    \* the code that forwardRequest returned
  started,     \* GatewayFunctionInvocationStarted
  completed    \* GatewayFunctionInvocation

callVars    == <<called, stream, recorded>>
metricVars  == <<started, completed>>
forwardVars == <<callVars, metricVars>>

Codes == UpstreamCodes \cup {200, 502}

Label(n) == LabelOf(DefaultNamespace, n)

(* The label of the function that a name means to scale from zero and to   *)
(* the alert handler.                                                      *)
FunctionOf(n) == FullName(GetNamespace(DefaultNamespace, n))

Labels == {Label(n) : n \in Called}

ForwardTypeOK ==
  /\ called \in [Requests -> Called \cup {<<>>}]
  /\ stream \in [Requests -> BOOLEAN]
  /\ recorded \in [Requests -> Codes]
  /\ started \in [Labels -> Nat]
  /\ completed \in [Labels -> [Codes -> Nat]]

ForwardInit ==
  /\ called = [r \in Requests |-> <<>>]
  /\ stream = [r \in Requests |-> FALSE]
  /\ recorded = [r \in Requests |-> 200]
  /\ started = [l \in Labels |-> 0]
  /\ completed = [l \in Labels |-> [c \in Codes |-> 0]]

(* PrometheusFunctionNotifier.Notify, with "started" and "completed". *)
NotifyStarted(n) == started' = [started EXCEPT ![Label(n)] = @ + 1]

NotifyCompleted(r) ==
  LET counts == completed[Label(called[r])]
  IN  completed' = [completed EXCEPT ![Label(called[r])] =
                      [counts EXCEPT ![recorded[r]] = @ + 1]]

Forward(r) ==
  /\ Receive(r, "forwarding")
  /\ \E n \in Called :
       /\ called' = [called EXCEPT ![r] = n]
       /\ NotifyStarted(n)
  /\ \E s \in BOOLEAN : stream' = [stream EXCEPT ![r] = s]
  /\ UNCHANGED <<recorded, completed>>

(* The provider cannot be reached, or does not answer in time, or the      *)
(* client has left.                                                        *)
Unanswered(r) ==
  /\ ~stream[r]
  /\ Move(r, "forwarding", "answered")
  /\ status' = [status EXCEPT ![r] = 502]
  /\ recorded' = [recorded EXCEPT ![r] = 502]
  /\ UNCHANGED <<called, stream, metricVars>>

(* The same of an event stream: the ErrorHandler of makeRewriteProxy is    *)
(* empty, and the interceptor takes what was not written for a 200.        *)
StreamUnanswered(r) ==
  /\ stream[r]
  /\ Move(r, "forwarding", "answered")
  /\ recorded' = [recorded EXCEPT ![r] = 200]
  /\ UNCHANGED <<status, called, stream, metricVars>>

(* The status and the headers of the response arrive and are passed on.    *)
Answered(r) ==
  /\ Move(r, "forwarding", "copying")
  /\ \E c \in UpstreamCodes :
       /\ status' = [status EXCEPT ![r] = c]
       /\ recorded' = [recorded EXCEPT ![r] = c]
  /\ UNCHANGED <<called, stream, metricVars>>

(* The body has ended, or the provider, the deadline or the client has cut *)
(* it off: the error of io.Copy is dropped, and so is the panic with which *)
(* ReverseProxy aborts a stream.                                           *)
Copied(r) ==
  /\ Move(r, "copying", "answered")
  /\ UNCHANGED <<status, forwardVars>>

Complete(r) ==
  /\ Answer(r, "answered", "finished", status[r])
  /\ NotifyCompleted(r)
  /\ UNCHANGED <<callVars, started>>

Call(r) ==
  Unanswered(r) \/ StreamUnanswered(r) \/ Answered(r) \/ Copied(r) \/ Complete(r)
=============================================================================
