---------------------------- MODULE HttpExchange ----------------------------
(***************************************************************************)
(* What the handlers share: an exchange with a client as net/http runs it, *)
(* and the call id that MakeCallIDMiddleware (handlers/                    *)
(* callid_middleware.go) gives the calls of functions before their handler *)
(* runs.                                                                   *)
(***************************************************************************)
EXTENDS Integers, FiniteSets

CONSTANTS
  Requests,
  ClientIds,    \* X-Call-Id headers that clients send of their own
  NoId          \* none

ASSUME ExchangeAssumption ==
  /\ IsFiniteSet(Requests)
  /\ Requests \cap ClientIds = {}
  /\ NoId \notin Requests \cup ClientIds

VARIABLES
  at,        \* how far the handler of each request has come
  status,    \* the status line sent to the client, 0 while there is none
  asked,     \* the X-Call-Id that the client sent
  callId,    \* X-Call-Id in the header the next handler sees
  told       \* X-Call-Id in the response

exchangeVars == <<at, status, asked, callId, told>>

(* A generated id is a uuid: it is written as the request it belongs to.   *)
Ids == Requests \cup ClientIds \cup {NoId}

CallPlaces == {"forwarding", "copying", "answered", "finished",
               "queuing", "publishing", "replied"}

(* Of the list of functions, and of logs. *)
SystemPlaces == {"listing", "counting", "listed", "logging", "streaming", "logged"}

Places == {"new"} \cup CallPlaces \cup SystemPlaces

ExchangeTypeOK ==
  /\ at \in [Requests -> Places]
  /\ status \in [Requests -> {0} \cup 100..599]
  /\ asked \in [Requests -> ClientIds \cup {NoId}]
  /\ callId \in [Requests -> Ids]
  /\ told \in [Requests -> Ids]

ExchangeInit ==
  /\ at = [r \in Requests |-> "new"]
  /\ status = [r \in Requests |-> 0]
  /\ asked = [r \in Requests |-> NoId]
  /\ callId = [r \in Requests |-> NoId]
  /\ told = [r \in Requests |-> NoId]

(* An id for the request and another one for the response. *)
GiveTwoCallIds(r, own) ==
  /\ callId' = [callId EXCEPT ![r] = IF own = NoId THEN r ELSE own]
  /\ told' = [told EXCEPT ![r] =
                IF own = NoId THEN CHOOSE s \in Requests : s # r ELSE NoId]

(* MakeCallIDMiddleware: only an id of its own making is told the client.  *)
GiveCallId(r, own) ==
  /\ callId' = [callId EXCEPT ![r] = IF own = NoId THEN r ELSE own]
  /\ told' = [told EXCEPT ![r] = IF own = NoId THEN r ELSE NoId]

(* The call of a function reaches its handler. *)
Receive(r, place) ==
  /\ at[r] = "new"
  /\ at' = [at EXCEPT ![r] = place]
  /\ \E own \in ClientIds \cup {NoId} :
       /\ asked' = [asked EXCEPT ![r] = own]
       /\ GiveCallId(r, own)
  /\ UNCHANGED status

Move(r, from, to) ==
  /\ at[r] = from
  /\ at' = [at EXCEPT ![r] = to]
  /\ UNCHANGED <<asked, callId, told>>

(* The handler sends its answer and returns; one that has sent nothing has *)
(* sent a 200.                                                             *)
Answer(r, from, to, code) ==
  /\ Move(r, from, to)
  /\ status' = [status EXCEPT ![r] = IF code = 0 THEN 200 ELSE code]
=============================================================================
