-------------------------- MODULE CallPaths_proofs --------------------------
(***************************************************************************)
(* For any number of requests: the call paths keep their types, a call     *)
(* that was accepted is in the queue under an id its client knows, logs    *)
(* that nothing cuts off are passed on to the end, the counters add up,    *)
(* and lists count calls that were made.                                   *)
(***************************************************************************)
EXTENDS CallPaths, FiniteSetTheorems, TLAPS

(* Which id the next handler has, and which the client has been told.      *)
IdInv ==
  \A r \in Requests :
    IF at[r] \in CallPlaces
    THEN /\ callId[r] = (IF asked[r] = NoId THEN r ELSE asked[r])
         /\ told[r] = (IF asked[r] = NoId THEN r ELSE NoId)
    ELSE callId[r] = NoId /\ told[r] = NoId

(* A 202 is the answer to an acknowledgement; nothing leaves the queue.    *)
StoredInv ==
  \A r \in Requests :
    /\ at[r] \in {"new", "queuing", "publishing"} => status[r] = 0
    /\ at[r] = "replied" /\ status[r] = 202 => <<r, callId[r]>> \in stored

(* The goroutine of copyNotify and its handler.  A chunk that is being     *)
(* written when the handler returns is the only one to be late.            *)
CopierInv ==
  \A r \in Requests :
    /\ at[r] \notin {"streaming", "logged"} => copier[r] = "none"
    /\ at[r] = "streaming" => copier[r] # "none"
    /\ at[r] # "logged" => late[r] = 0
    /\ late[r] <= (IF copier[r] = "writing" THEN 0 ELSE 1)
    /\ copier[r] \in {"telling", "gone"} /\ cut[r] = "no" => source[r] = 0
    /\ at[r] = "logged" /\ cut[r] = "no" => copier[r] \in {"none", "gone"}
    /\ at[r] = "logged" /\ copier[r] = "none" => status[r] \in {500, 501}

PathInv == PathTypeOK /\ IdInv /\ StoredInv /\ CopierInv

Announced == {"forwarding", "copying", "answered", "finished"}

ListPlaces == {"listing", "counting", "listed"}

StartedFor(l) == {r \in Requests : at[r] \in Announced /\ Label(called[r]) = l}

FinishedFor(l) == {r \in Requests : at[r] = "finished" /\ Label(called[r]) = l}

FinishedWith(l, c) ==
  {r \in Requests : at[r] = "finished" /\ Label(called[r]) = l /\ recorded[r] = c}

(* What forwardRequest has returned is what the client has been or will be *)
(* told.                                                                   *)
CallInv ==
  \A r \in Requests :
    /\ at[r] \in Announced => called[r] \in Called
    /\ at[r] = "forwarding" => status[r] = 0
    /\ at[r] = "copying" => recorded[r] = status[r]
    /\ at[r] = "answered" => recorded[r] = (IF status[r] = 0 THEN 200 ELSE status[r])
    /\ at[r] = "finished" => recorded[r] = status[r]

CountInv ==
  \A l \in Labels :
    /\ started[l] = Cardinality(StartedFor(l))
    /\ Total(completed[l], Codes) = Cardinality(FinishedFor(l))
    /\ \A c \in Codes : completed[l][c] = Cardinality(FinishedWith(l, c))

(* Prometheus lags behind the counters, and so does a list behind it.      *)
ScrapedInv == \A l \in Labels : scraped[l] <= Total(completed[l], Codes)

ListInv ==
  \A r \in Requests :
    /\ at[r] \in {"new", "listing"} => listed[r] = {}
    /\ at[r] \in {"listing", "counting"} => status[r] = 0
    /\ at[r] = "counting" => \A d \in Deployed : counts[r][d] = 0
    /\ \A l \in Labels : before[r][l] <= scraped[l]
    /\ at[r] = "listed" /\ status[r] = 200 =>
         \A d \in listed[r] \cap Labels :
           before[r][d] <= counts[r][d] /\ counts[r][d] <= scraped[d]

SumInv == CallInv /\ CountInv /\ ScrapedInv /\ ListInv

StatusType == [Requests -> {0} \cup 100..599]

------------------------------------------------------------------------------
(* What one step of one handler does to the exchange. *)

LEMMA PlacesDistinct ==
  /\ CallPlaces \cap SystemPlaces = {} /\ "new" \notin CallPlaces \cup SystemPlaces
  /\ Places = {"new"} \cup CallPlaces \cup SystemPlaces
BY DEF CallPlaces, SystemPlaces, Places

LEMMA ReceiveInv ==
  ASSUME ExchangeTypeOK, IdInv, NEW r \in Requests,
         NEW place \in CallPlaces, Receive(r, place)
  PROVE  ExchangeTypeOK' /\ IdInv'
BY ExchangeAssumption, PlacesDistinct DEF ExchangeTypeOK, IdInv, Receive, GiveCallId, Ids

LEMMA MoveInv ==
  ASSUME ExchangeTypeOK, IdInv, NEW r \in Requests,
         NEW from \in Places, NEW to \in Places,
         from \in CallPlaces <=> to \in CallPlaces, Move(r, from, to)
  PROVE  /\ IdInv'
         /\ status' \in StatusType => ExchangeTypeOK'
BY DEF ExchangeTypeOK, IdInv, Move, StatusType

LEMMA AnswerInv ==
  ASSUME ExchangeTypeOK, IdInv, NEW r \in Requests,
         NEW from \in Places, NEW to \in Places, from \in CallPlaces <=> to \in CallPlaces,
         NEW code \in {0} \cup 100..599, Answer(r, from, to, code)
  PROVE  ExchangeTypeOK' /\ IdInv'
<1>1. status' \in StatusType
  BY DEF Answer, ExchangeTypeOK, StatusType
<1> QED
  BY <1>1, MoveInv DEF Answer

(* The queue does not care for what is neither queued nor answered by it. *)
LEMMA StoredFrame ==
  ASSUME ExchangeTypeOK, StoredInv, NEW r \in Requests,
         NEW to \in Places \ {"new", "queuing", "publishing", "replied"},
         at' = [at EXCEPT ![r] = to],
         \A q \in Requests \ {r} : status'[q] = status[q] /\ callId'[q] = callId[q],
         UNCHANGED stored
  PROVE  StoredInv'
BY DEF ExchangeTypeOK, StoredInv

(* Nor does the copier care for what is not about logs. *)
LEMMA CopierFrame ==
  ASSUME ExchangeTypeOK, CopierInv, NEW r \in Requests,
         at[r] \notin {"streaming", "logged"},
         NEW to \in Places \ {"streaming", "logged"},
         at' = [at EXCEPT ![r] = to],
         \A q \in Requests \ {r} : status'[q] = status[q],
         UNCHANGED logVars
  PROVE  CopierInv'
BY DEF ExchangeTypeOK, CopierInv, logVars

(* A step that leaves the exchanges alone, and the copiers with them. *)
LEMMA QuietFrame ==
  ASSUME ExchangeTypeOK, IdInv, StoredInv, CopierInv,
         UNCHANGED exchangeVars, UNCHANGED logVars, stored \subseteq stored'
  PROVE  ExchangeTypeOK' /\ IdInv' /\ StoredInv' /\ CopierInv'
<1>1. ExchangeTypeOK'
  BY DEF exchangeVars, ExchangeTypeOK
<1>2. IdInv'
  BY DEF exchangeVars, IdInv
<1>3. StoredInv'
  BY DEF exchangeVars, StoredInv
<1>4. CopierInv'
  BY DEF exchangeVars, logVars, CopierInv
<1> QED
  BY <1>1, <1>2, <1>3, <1>4

LEMMA UnchangedTypes ==
  /\ ForwardTypeOK /\ UNCHANGED forwardVars => ForwardTypeOK'
  /\ QueueTypeOK /\ UNCHANGED queueVars => QueueTypeOK'
  /\ ListTypeOK /\ UNCHANGED listVars => ListTypeOK'
  /\ LogTypeOK /\ UNCHANGED logVars => LogTypeOK'
<1>1. ForwardTypeOK /\ UNCHANGED forwardVars => ForwardTypeOK'
  BY DEF forwardVars, callVars, metricVars, ForwardTypeOK
<1>2. QueueTypeOK /\ UNCHANGED queueVars => QueueTypeOK'
  BY DEF queueVars, QueueTypeOK
<1>3. ListTypeOK /\ UNCHANGED listVars => ListTypeOK'
  BY DEF listVars, ListTypeOK
<1>4. LogTypeOK /\ UNCHANGED logVars => LogTypeOK'
  BY DEF logVars, LogTypeOK
<1> QED
  BY <1>1, <1>2, <1>3, <1>4

------------------------------------------------------------------------------
(* The synchronous path: it leaves the queue and the calls in it alone. *)

LEMMA NotifyCompletedType ==
  ASSUME ForwardTypeOK, NEW r \in Requests, NotifyCompleted(r)
  PROVE  completed' \in [Labels -> [Codes -> Nat]]
<1> DEFINE l == Label(called[r])
           raised == [completed[l] EXCEPT ![recorded[r]] = @ + 1]
<1>1. completed' = [completed EXCEPT ![l] = raised]
  BY DEF NotifyCompleted
<1>2. CASE l \in Labels
  <2>1. recorded[r] \in Codes /\ completed[l] \in [Codes -> Nat]
    BY <1>2 DEF ForwardTypeOK
  <2>2. raised \in [Codes -> Nat]
    BY <2>1
  <2> HIDE DEF l, raised
  <2> QED
    BY <1>1, <2>2 DEF ForwardTypeOK
<1>3. CASE l \notin Labels
  BY <1>1, <1>3 DEF ForwardTypeOK
<1> QED
  BY <1>2, <1>3

LEMMA SynchronousInv ==
  ASSUME PathInv, NEW r \in Requests, Forward(r) \/ Call(r),
         UNCHANGED <<queueVars, listVars, logVars>>
  PROVE  PathInv'
<1> USE DEF PathInv, PathTypeOK
<1>1. QueueTypeOK' /\ ListTypeOK' /\ LogTypeOK' /\ UNCHANGED <<stored, logVars>>
  BY UnchangedTypes DEF queueVars
<1>2. {200, 502} \cup UpstreamCodes \subseteq Codes /\ Codes \subseteq 100..599
  BY ForwardingAssumption DEF Codes
<1>3. status[r] \in {0} \cup 100..599 /\ recorded[r] \in Codes
  BY DEF ExchangeTypeOK, ForwardTypeOK
<1> DEFINE CallEnds == {"forwarding", "copying", "answered", "finished"}
<1>4. /\ CallEnds \subseteq CallPlaces /\ CallPlaces \subseteq Places
      /\ CallEnds \subseteq Places \ {"new", "queuing", "publishing", "replied"}
      /\ CallEnds \subseteq Places \ {"streaming", "logged"}
  BY DEF CallPlaces, Places
<1>5. CASE Forward(r)
  <2>1. Receive(r, "forwarding")
    BY <1>5 DEF Forward
  <2>2. ExchangeTypeOK' /\ IdInv'
    BY <2>1, <1>4, ReceiveInv
  <2>3. ForwardTypeOK'
    <3>1. PICK n \in Called : called' = [called EXCEPT ![r] = n] /\ NotifyStarted(n)
      BY <1>5 DEF Forward
    <3>2. Label(n) \in Labels
      BY DEF Labels
    <3>3. PICK s \in BOOLEAN : stream' = [stream EXCEPT ![r] = s]
      BY <1>5 DEF Forward
    <3>4. UNCHANGED <<recorded, completed>>
      BY <1>5 DEF Forward
    <3> QED
      BY <3>1, <3>2, <3>3, <3>4 DEF NotifyStarted, ForwardTypeOK
  <2>4. /\ at[r] = "new" /\ at' = [at EXCEPT ![r] = "forwarding"] /\ UNCHANGED status
        /\ \A q \in Requests \ {r} : callId'[q] = callId[q]
    BY <2>1 DEF Receive, GiveCallId, ExchangeTypeOK
  <2>5. StoredInv'
    BY <1>1, <1>4, <2>4, StoredFrame
  <2>6. CopierInv'
    BY <1>1, <1>4, <2>4, CopierFrame
  <2> QED
    BY <1>1, <2>2, <2>3, <2>5, <2>6
<1>6. ASSUME NEW from \in CallEnds, NEW to \in CallEnds, Move(r, from, to),
             status' \in StatusType, ForwardTypeOK',
             \A q \in Requests \ {r} : status'[q] = status[q]
      PROVE  PathInv'
  <2>1. ExchangeTypeOK' /\ IdInv'
    BY <1>4, <1>6, MoveInv
  <2>2. at' = [at EXCEPT ![r] = to] /\ at[r] = from /\ UNCHANGED callId
    BY <1>6 DEF Move
  <2>3. StoredInv'
    BY <1>1, <1>4, <1>6, <2>2, StoredFrame
  <2>4. CopierInv'
    BY <1>1, <1>4, <1>6, <2>2, CopierFrame
  <2> QED
    BY <1>1, <1>6, <2>1, <2>3, <2>4
<1>7. CASE Unanswered(r) \/ StreamUnanswered(r)
  <2>1. Move(r, "forwarding", "answered")
    BY <1>7 DEF Unanswered, StreamUnanswered
  <2>2. status' \in StatusType /\ \A q \in Requests \ {r} : status'[q] = status[q]
    BY <1>7 DEF Unanswered, StreamUnanswered, ExchangeTypeOK, StatusType
  <2>3. ForwardTypeOK'
    <3>1. PICK c \in {200, 502} : recorded' = [recorded EXCEPT ![r] = c]
      BY <1>7 DEF Unanswered, StreamUnanswered
    <3>2. UNCHANGED <<called, stream, started, completed>>
      BY <1>7 DEF Unanswered, StreamUnanswered, metricVars
    <3> QED
      BY <1>2, <3>1, <3>2 DEF ForwardTypeOK
  <2> QED
    BY <1>6, <2>1, <2>2, <2>3
<1>8. CASE Answered(r)
  <2>1. Move(r, "forwarding", "copying")
    BY <1>8 DEF Answered
  <2>2. PICK c \in UpstreamCodes : /\ status' = [status EXCEPT ![r] = c]
                                   /\ recorded' = [recorded EXCEPT ![r] = c]
    BY <1>8 DEF Answered
  <2>3. c \in Codes
    BY <1>2
  <2>4. status' \in StatusType /\ \A q \in Requests \ {r} : status'[q] = status[q]
    BY <1>2, <2>2, <2>3 DEF ExchangeTypeOK, StatusType
  <2>5. UNCHANGED <<called, stream, started, completed>>
    BY <1>8 DEF Answered, metricVars
  <2>6. ForwardTypeOK'
    BY <2>2, <2>3, <2>5 DEF ForwardTypeOK
  <2> QED
    BY <1>6, <2>1, <2>4, <2>6
<1>9. CASE Copied(r)
  <2>1. Move(r, "copying", "answered") /\ UNCHANGED <<status, forwardVars>>
    BY <1>9 DEF Copied
  <2>2. status' \in StatusType /\ ForwardTypeOK'
    BY <2>1, UnchangedTypes DEF ExchangeTypeOK, StatusType
  <2> QED
    BY <1>6, <2>1, <2>2
<1>10. CASE Complete(r)
  <2>1. Answer(r, "answered", "finished", status[r]) /\ UNCHANGED <<callVars, started>>
    BY <1>10 DEF Complete
  <2>2. /\ Move(r, "answered", "finished")
        /\ status' \in StatusType /\ \A q \in Requests \ {r} : status'[q] = status[q]
    BY <1>3, <2>1 DEF Answer, ExchangeTypeOK, StatusType
  <2>3. ForwardTypeOK'
    BY <1>10, <2>1, NotifyCompletedType DEF Complete, ForwardTypeOK, callVars
  <2> QED
    BY <1>6, <2>2, <2>3
<1> QED
  BY <1>5, <1>7, <1>8, <1>9, <1>10 DEF Call

------------------------------------------------------------------------------
(* The asynchronous path *)

LEMMA AsynchronousInv ==
  ASSUME PathInv, NEW r \in Requests, Enqueue(r) \/ Queue(r),
         UNCHANGED <<forwardVars, listVars, logVars>>
  PROVE  PathInv'
<1> USE DEF PathInv, PathTypeOK
<1>1. ForwardTypeOK' /\ ListTypeOK' /\ LogTypeOK' /\ UNCHANGED logVars
  BY UnchangedTypes
<1> DEFINE QueueEnds == {"queuing", "publishing", "replied"}
<1>2. QueueEnds \subseteq CallPlaces /\ CallPlaces \subseteq Places
      /\ QueueEnds \subseteq Places \ {"streaming", "logged"}
  BY DEF CallPlaces, Places
<1>3. CASE Enqueue(r)
  <2>1. Receive(r, "queuing") /\ UNCHANGED <<connection, attempt, live, stored>>
    BY <1>3 DEF Enqueue
  <2>2. ExchangeTypeOK' /\ IdInv'
    BY <2>1, <1>2, ReceiveInv
  <2>3. QueueTypeOK'
    <3>1. PICK wrong \in Faults : fault' = [fault EXCEPT ![r] = wrong]
      BY <1>3 DEF Enqueue
    <3> QED
      BY <2>1, <3>1 DEF QueueTypeOK
  <2>4. /\ at[r] = "new" /\ at' = [at EXCEPT ![r] = "queuing"] /\ UNCHANGED status
        /\ \A q \in Requests \ {r} : callId'[q] = callId[q]
    BY <2>1 DEF Receive, GiveCallId, ExchangeTypeOK
  <2>5. StoredInv'
    <3>1. at'[r] = "queuing" /\ status'[r] = 0 /\ UNCHANGED stored
      BY <2>1, <2>4 DEF StoredInv, ExchangeTypeOK
    <3>2. ASSUME NEW q \in Requests \ {r}
          PROVE  at'[q] = at[q] /\ status'[q] = status[q] /\ callId'[q] = callId[q]
      BY <2>4 DEF ExchangeTypeOK
    <3> QED
      BY <3>1, <3>2 DEF StoredInv
  <2>6. CopierInv'
    BY <1>1, <1>2, <2>4, CopierFrame
  <2> QED
    BY <1>1, <2>2, <2>3, <2>5, <2>6
<1>4. ASSUME NEW from \in {"queuing", "publishing"}, NEW code \in {202, 400, 500},
             Answer(r, from, "replied", code),
             code = 202 => <<r, callId[r]>> \in stored,
             UNCHANGED <<fault, connection, attempt, stored>>, live' \subseteq live
      PROVE  PathInv'
  <2>1. ExchangeTypeOK' /\ IdInv'
    BY <1>2, <1>4, AnswerInv
  <2>2. QueueTypeOK'
    BY <1>4 DEF QueueTypeOK
  <2>3. StoredInv'
    BY <1>4 DEF StoredInv, Answer, Move, ExchangeTypeOK
  <2>4. /\ at[r] = from /\ at' = [at EXCEPT ![r] = "replied"]
        /\ \A q \in Requests \ {r} : status'[q] = status[q]
    BY <1>4 DEF Answer, Move, ExchangeTypeOK
  <2>5. CopierInv'
    <3>1. "replied" \notin {"streaming", "logged"} /\ at[r] \notin {"streaming", "logged"}
      BY <2>4
    <3> QED
      BY <1>1, <2>4, <3>1 DEF CopierInv, ExchangeTypeOK, logVars
  <2> QED
    BY <1>1, <2>1, <2>2, <2>3, <2>5
<1>5. CASE BadRequest(r) \/ TooLarge(r)
  BY <1>4, <1>5 DEF BadRequest, TooLarge, queueVars
<1>6. CASE Acknowledged(r)
  BY <1>4, <1>6 DEF Acknowledged
<1>7. CASE PublishFailed(r)
  BY <1>4, <1>7 DEF PublishFailed
<1>8. CASE TakeConnection(r)
  <2>1. Move(r, "queuing", "publishing") /\ UNCHANGED <<status, stored>>
    BY <1>8 DEF TakeConnection
  <2>2. ExchangeTypeOK' /\ IdInv'
    BY <1>2, <2>1, MoveInv DEF ExchangeTypeOK, StatusType
  <2>3. QueueTypeOK'
    BY <1>8 DEF TakeConnection, QueueTypeOK
  <2>4. at[r] = "queuing" /\ at' = [at EXCEPT ![r] = "publishing"] /\ UNCHANGED callId
    BY <2>1 DEF Move
  <2>5. StoredInv'
    BY <2>1, <2>4 DEF StoredInv, ExchangeTypeOK
  <2>6. CopierInv'
    BY <1>1, <1>2, <2>1, <2>4, CopierFrame
  <2> QED
    BY <1>1, <2>2, <2>3, <2>5, <2>6
<1>9. CASE Deliver(r)
  <2>1. UNCHANGED exchangeVars /\ stored \subseteq stored'
    BY <1>9 DEF Deliver
  <2>2. QueueTypeOK'
    BY <1>9 DEF Deliver, QueueTypeOK, ExchangeTypeOK
  <2> QED
    BY <1>1, <2>1, <2>2, QuietFrame
<1> QED
  BY <1>3, <1>5, <1>6, <1>7, <1>8, <1>9 DEF Queue

LEMMA RedialInv ==
  ASSUME PathInv, Redial \/ Lose, UNCHANGED <<forwardVars, listVars, logVars>>
  PROVE  PathInv'
<1> USE DEF PathInv, PathTypeOK
<1>1. UNCHANGED exchangeVars /\ UNCHANGED <<fault, stored>>
  BY DEF Lose, Redial, Reconnect, ReconnectFailed, GiveUp
<1>2. QueueTypeOK'
  BY QueueAssumption DEF Lose, Redial, Reconnect, ReconnectFailed, GiveUp, QueueTypeOK
<1> QED
  BY <1>1, <1>2, UnchangedTypes, QuietFrame

------------------------------------------------------------------------------
(* The list of functions *)

(* The sets that the sums count are finite. *)
LEMMA TotalFinite ==
  ASSUME NEW D, IsFiniteSet(D), NEW n \in [D -> Nat]
  PROVE  IsFiniteSet(UNION {{x} \X (1..n[x]) : x \in D})
<1> DEFINE part == [x \in D |-> {x} \X (1..n[x])]
           parts == {{x} \X (1..n[x]) : x \in D}
<1>1. part \in Surjection(D, parts)
  BY DEF Surjection
<1>2. IsFiniteSet(parts)
  BY <1>1, FS_Surjection
<1>3. ASSUME NEW P \in parts PROVE IsFiniteSet(P)
  <2>1. PICK x \in D : P = {x} \X (1..n[x])
    OBVIOUS
  <2>2. IsFiniteSet({x})
    BY FS_Singleton
  <2>3. n[x] \in Int
    OBVIOUS
  <2>4. IsFiniteSet(1..n[x])
    BY <2>3, FS_Interval
  <2> QED
    BY <2>1, <2>2, <2>4, FS_Product
<1> QED
  BY <1>2, <1>3, FS_UNION

(* A sum is a number. *)
LEMMA TotalType ==
  ASSUME NEW D, IsFiniteSet(D), NEW n \in [D -> Nat]
  PROVE  Total(n, D) \in Nat
BY TotalFinite, FS_CardinalityType DEF Total

(* It rises with each of its terms. *)
LEMMA TotalRises ==
  ASSUME NEW D, IsFiniteSet(D), NEW n \in [D -> Nat], NEW x \in D
  PROVE  Total([n EXCEPT ![x] = @ + 1], D) = Total(n, D) + 1
<1> DEFINE m == [n EXCEPT ![x] = @ + 1]
           U == UNION {{y} \X (1..n[y]) : y \in D}
           V == UNION {{y} \X (1..m[y]) : y \in D}
           e == <<x, n[x] + 1>>
<1>1. n[x] \in Nat /\ m[x] = n[x] + 1 /\ \A y \in D \ {x} : m[y] = n[y]
  OBVIOUS
<1>2. 1..m[x] = (1..n[x]) \cup {n[x] + 1}
  BY <1>1
<1> HIDE DEF m
<1>3. e \notin U
  <2> SUFFICES ASSUME NEW y \in D, e \in {y} \X (1..n[y]) PROVE FALSE
    OBVIOUS
  <2>1. y = x /\ n[x] + 1 \in 1..n[x]
    OBVIOUS
  <2> QED
    BY <1>1, <2>1
<1>4. V = U \cup {e}
  <2>1. ASSUME NEW y \in D
        PROVE  {y} \X (1..m[y]) = ({y} \X (1..n[y])) \cup (IF y = x THEN {e} ELSE {})
    <3>1. CASE y = x
      BY <1>2, <3>1
    <3>2. CASE y # x
      BY <1>1, <3>2
    <3> QED
      BY <3>1, <3>2
  <2>2. V \subseteq U \cup {e}
    BY <2>1
  <2>3. U \subseteq V
    BY <2>1
  <2>4. e \in {x} \X (1..m[x])
    BY <2>1
  <2> QED
    BY <2>2, <2>3, <2>4
<1>5. IsFiniteSet(U)
  BY TotalFinite
<1> HIDE DEF U, V, e
<1>6. Cardinality(V) = Cardinality(U) + 1
  BY <1>3, <1>4, <1>5, FS_AddElement
<1>7. Total(n, D) = Cardinality(U) /\ Total(m, D) = Cardinality(V)
  BY DEF Total, U, V
<1> QED
  BY <1>6, <1>7 DEF m

LEMMA TotalOfNone ==
  ASSUME NEW D, NEW n, \A x \in D : n[x] = 0
  PROVE  Total(n, D) = 0
<1>1. UNION {{x} \X (1..n[x]) : x \in D} = {}
  OBVIOUS
<1> QED
  BY <1>1, FS_EmptySet DEF Total

LEMMA TotalOfOne ==
  ASSUME NEW x, NEW n, n[x] \in Nat
  PROVE  Total(n, {x}) = n[x]
<1>1. UNION {{y} \X (1..n[y]) : y \in {x}} = {x} \X (1..n[x])
  OBVIOUS
<1>2. IsFiniteSet(1..n[x]) /\ Cardinality(1..n[x]) = n[x]
  <2>1. ASSUME NEW k \in Nat PROVE IsFiniteSet(1..k) /\ Cardinality(1..k) = k
    BY FS_Interval
  <2> QED
    BY <2>1
<1>3. IsFiniteSet({x}) /\ Cardinality({x}) = 1
  BY FS_Singleton
<1>4. Cardinality({x} \X (1..n[x])) = 1 * n[x]
  <2>1. ASSUME NEW S, NEW T, IsFiniteSet(S), IsFiniteSet(T)
        PROVE  Cardinality(S \X T) = Cardinality(S) * Cardinality(T)
    BY <2>1, FS_Product
  <2> QED
    BY <1>2, <1>3, <2>1
<1> QED
  BY <1>1, <1>4 DEF Total

LEMMA FiniteCodes == IsFiniteSet(Codes)
<1>1. PICK a, b \in Int : a = 100 /\ b = 599
  OBVIOUS
<1>2. Codes \subseteq a..b
  BY <1>1, ForwardingAssumption DEF Codes
<1> HIDE <1>1
<1>3. IsFiniteSet(a..b)
  BY FS_Interval
<1> QED
  BY <1>2, <1>3, FS_Subset

LEMMA MixedInType ==
  ASSUME ListTypeOK, NEW d
  PROVE  MixedIn(d) \in Nat
<1> DEFINE D == {l \in Labels : l = d}
<1>1. IsFiniteSet(D)
  <2>1. D \subseteq {d}
    OBVIOUS
  <2> QED
    BY <2>1, FS_Singleton, FS_Subset
<1>2. [l \in D |-> scraped[l]] \in [D -> Nat]
  BY DEF ListTypeOK
<1>3. Total([l \in D |-> scraped[l]], D) = Total(scraped, D)
  BY DEF Total
<1> QED
  BY <1>1, <1>2, <1>3, TotalType DEF MixedIn

LEMMA ListingInv ==
  ASSUME PathInv, NEW r \in Requests, List(r) \/ Listing(r),
         UNCHANGED <<forwardVars, queueVars, logVars>>
  PROVE  PathInv'
<1> USE DEF PathInv, PathTypeOK
<1>1. ForwardTypeOK' /\ QueueTypeOK' /\ LogTypeOK' /\ UNCHANGED <<stored, logVars>>
  BY UnchangedTypes DEF queueVars
<1> DEFINE ListEnds == {"listing", "counting", "listed"}
<1>2. /\ ListEnds \cap CallPlaces = {} /\ "new" \in Places \ CallPlaces
      /\ ListEnds \subseteq Places \ {"new", "queuing", "publishing", "replied"}
      /\ ListEnds \subseteq Places \ {"streaming", "logged"}
  BY DEF CallPlaces, SystemPlaces, Places
<1>3. ASSUME NEW from \in {"new"} \cup ListEnds, NEW to \in ListEnds, Move(r, from, to),
             status' \in StatusType, ListTypeOK',
             \A q \in Requests \ {r} : status'[q] = status[q]
      PROVE  PathInv'
  <2>1. ExchangeTypeOK' /\ IdInv'
    BY <1>2, <1>3, MoveInv
  <2>2. at' = [at EXCEPT ![r] = to] /\ at[r] = from /\ UNCHANGED callId
    BY <1>3 DEF Move
  <2>3. StoredInv'
    BY <1>1, <1>2, <1>3, <2>2, StoredFrame
  <2>4. CopierInv'
    BY <1>1, <1>2, <1>3, <2>2, CopierFrame
  <2> QED
    BY <1>1, <1>3, <2>1, <2>3, <2>4
<1>4. ASSUME NEW from \in ListEnds, NEW code \in 100..599, Answer(r, from, "listed", code),
             ListTypeOK'
      PROVE  PathInv'
  <2>1. /\ Move(r, from, "listed") /\ status' \in StatusType
        /\ \A q \in Requests \ {r} : status'[q] = status[q]
    BY <1>4 DEF Answer, ExchangeTypeOK, StatusType
  <2> QED
    BY <1>3, <1>4, <2>1
<1>5. UNCHANGED listVars => ListTypeOK'
  BY UnchangedTypes
<1>6. UNCHANGED status => status' \in StatusType
  BY DEF ExchangeTypeOK, StatusType
<1>7. CASE List(r)
  <2>1. Move(r, "new", "listing") /\ UNCHANGED <<status, scraped, listed, counts>>
    BY <1>7 DEF List
  <2>2. ListTypeOK'
    BY <1>7, <2>1 DEF List, ListTypeOK
  <2> QED
    BY <1>3, <1>6, <2>1, <2>2
<1>8. CASE ListRefused(r)
  <2>1. PICK c \in (UpstreamCodes \cup {502}) \ {200} : Answer(r, "listing", "listed", c)
    BY <1>8 DEF ListRefused
  <2>2. c \in 100..599
    BY ForwardingAssumption
  <2> QED
    BY <1>4, <1>5, <1>8, <2>1, <2>2 DEF ListRefused
<1>9. CASE ListUnparsable(r) \/ EmptyListReceived(r)
  BY <1>4, <1>5, <1>9 DEF ListUnparsable, EmptyListReceived
<1>10. CASE ListReceived(r)
  <2>1. Move(r, "listing", "counting") /\ UNCHANGED <<status, scraped, before>>
    BY <1>10 DEF ListReceived
  <2>2. PICK d \in Deployed : listed' = [listed EXCEPT ![r] = ListOf(NamespaceOf(d))]
    BY <1>10 DEF ListReceived
  <2>3. ListOf(NamespaceOf(d)) \in SUBSET Deployed
    BY DEF ListOf
  <2>4. ListTypeOK'
    BY <1>10, <2>1, <2>2, <2>3 DEF ListReceived, ListTypeOK
  <2> QED
    BY <1>3, <1>6, <2>1, <2>4
<1>11. CASE Counted(r)
  <2> DEFINE mixed == [d \in Deployed |->
               counts[r][d] + IF d \in listed[r] THEN MixedIn(d) ELSE 0]
  <2>1. Answer(r, "counting", "listed", 200) /\ UNCHANGED <<scraped, listed, before>>
    BY <1>11 DEF Counted
  <2>2. counts' = [counts EXCEPT ![r] = mixed]
    BY <1>11 DEF Counted
  <2>3. mixed \in [Deployed -> Nat]
    BY MixedInType DEF ListTypeOK
  <2> HIDE DEF mixed
  <2>4. ListTypeOK'
    BY <2>1, <2>2, <2>3 DEF ListTypeOK
  <2> QED
    BY <1>4, <2>1, <2>4
<1>12. CASE CountingBroke(r)
  BY <1>3, <1>5, <1>6, <1>12 DEF CountingBroke
<1> QED
  BY <1>7, <1>8, <1>9, <1>10, <1>11, <1>12 DEF Listing

LEMMA ScrapeInv ==
  ASSUME PathInv, Scrape, UNCHANGED <<exchangeVars, forwardVars, queueVars, logVars>>
  PROVE  PathInv'
<1> USE DEF PathInv, PathTypeOK
<1>1. ASSUME NEW l \in Labels PROVE Total(completed[l], Codes) \in Nat
  BY FiniteCodes, TotalType DEF ForwardTypeOK
<1>2. ListTypeOK'
  BY <1>1 DEF Scrape, ListTypeOK
<1> QED
  BY <1>2, UnchangedTypes, QuietFrame DEF queueVars

------------------------------------------------------------------------------
(* Logs *)

(* What the handler of a request for logs does. *)
LEMMA LogHandlerInv ==
  ASSUME PathInv, NEW r \in Requests,
         Log(r) \/ LogsRefused(r) \/ LogsAbandoned(r) \/ LogsFound(r) \/ LogsOver(r),
         UNCHANGED <<forwardVars, queueVars, listVars>>
  PROVE  PathInv'
<1> USE DEF PathInv, PathTypeOK
<1>1. ForwardTypeOK' /\ QueueTypeOK' /\ ListTypeOK' /\ UNCHANGED stored
  BY UnchangedTypes DEF queueVars
<1> DEFINE LogEnds == {"logging", "streaming", "logged"}
<1>2. /\ LogEnds \cap CallPlaces = {} /\ "new" \in Places \ CallPlaces
      /\ LogEnds \subseteq Places \ {"new", "queuing", "publishing", "replied"}
  BY DEF CallPlaces, SystemPlaces, Places
<1>3. ASSUME NEW from \in {"new"} \cup LogEnds, NEW to \in LogEnds, Move(r, from, to),
             status' \in StatusType, LogTypeOK', CopierInv',
             \A q \in Requests \ {r} : status'[q] = status[q]
      PROVE  PathInv'
  <2>1. ExchangeTypeOK' /\ IdInv'
    BY <1>2, <1>3, MoveInv
  <2>2. at' = [at EXCEPT ![r] = to] /\ UNCHANGED callId
    BY <1>3 DEF Move
  <2>3. StoredInv'
    BY <1>1, <1>2, <1>3, <2>2, StoredFrame
  <2> QED
    BY <1>1, <1>3, <2>1, <2>3
<1>4. ASSUME NEW from \in LogEnds, NEW code \in {0} \cup 100..599,
             Answer(r, from, "logged", code), CopierInv', UNCHANGED logVars
      PROVE  PathInv'
  <2>1. /\ Move(r, from, "logged") /\ status' \in StatusType
        /\ \A q \in Requests \ {r} : status'[q] = status[q]
    BY <1>4 DEF Answer, ExchangeTypeOK, StatusType
  <2>2. LogTypeOK'
    BY <1>4, UnchangedTypes
  <2> QED
    BY <1>3, <1>4, <2>1, <2>2
<1>5. CASE Log(r)
  <2>1. Move(r, "new", "logging") /\ UNCHANGED <<status, logVars>>
    BY <1>5 DEF Log
  <2>2. CopierInv'
    BY <2>1 DEF Move, CopierInv, ExchangeTypeOK, logVars
  <2>3. status' \in StatusType /\ LogTypeOK'
    BY <2>1, UnchangedTypes DEF ExchangeTypeOK, StatusType
  <2> QED
    BY <1>3, <2>1, <2>2, <2>3
<1>6. CASE LogsRefused(r) \/ LogsAbandoned(r)
  <2>1. PICK c \in {500, 501} : Answer(r, "logging", "logged", c) /\ UNCHANGED logVars
    BY <1>6 DEF LogsRefused, LogsAbandoned
  <2>2. CopierInv'
    BY <2>1 DEF Answer, Move, CopierInv, ExchangeTypeOK, logVars
  <2> QED
    BY <1>4, <2>1, <2>2
<1>7. CASE LogsFound(r)
  <2>1. Move(r, "logging", "streaming") /\ UNCHANGED status
    BY <1>7 DEF LogsFound
  <2>2. LogTypeOK'
    BY <1>7 DEF LogsFound, LogTypeOK
  <2>3. CopierInv'
    BY <1>7, <2>1 DEF LogsFound, Move, CopierInv, ExchangeTypeOK, LogTypeOK
  <2>4. status' \in StatusType
    BY <2>1 DEF ExchangeTypeOK, StatusType
  <2> QED
    BY <1>3, <2>1, <2>2, <2>3, <2>4
<1>8. CASE LogsOver(r)
  <2>1. Answer(r, "streaming", "logged", status[r]) /\ UNCHANGED logVars
    BY <1>8 DEF LogsOver
  <2>2. CopierInv'
    BY <1>8, <2>1 DEF LogsOver, Answer, Move, CopierInv, ExchangeTypeOK, LogTypeOK, logVars
  <2>3. status[r] \in {0} \cup 100..599
    BY DEF ExchangeTypeOK
  <2> QED
    BY <1>4, <2>1, <2>2, <2>3
<1> QED
  BY <1>5, <1>6, <1>7, <1>8

(* What happens to a copier without its handler. *)
LEMMA CopyInv ==
  ASSUME PathInv, NEW r \in Requests,
         Copy(r) \/ Arrives(r) \/ \E why \in Cuts \ {"no"} : CutOff(r, why),
         UNCHANGED <<forwardVars, queueVars, listVars>>
  PROVE  PathInv'
<1> USE DEF PathInv, PathTypeOK
<1>1. ForwardTypeOK' /\ QueueTypeOK' /\ ListTypeOK' /\ UNCHANGED stored
  BY UnchangedTypes DEF queueVars
<1>2. ASSUME UNCHANGED exchangeVars, LogTypeOK', CopierInv'
      PROVE  PathInv'
  <2>1. ExchangeTypeOK' /\ IdInv' /\ StoredInv'
    BY <1>1, <1>2 DEF exchangeVars, ExchangeTypeOK, IdInv, StoredInv
  <2> QED
    BY <1>1, <1>2, <2>1
<1>3. CASE ReadFails(r) \/ ReadEnds(r) \/ WriteFails(r) \/ Tell(r)
  <2>1. /\ UNCHANGED exchangeVars /\ UNCHANGED <<source, cut, late>>
        /\ \E c \in {"telling", "gone"} : copier' = [copier EXCEPT ![r] = c]
    BY <1>3 DEF ReadFails, ReadEnds, WriteFails, Tell
  <2>2. LogTypeOK'
    BY <2>1 DEF LogTypeOK
  <2>3. CopierInv'
    BY <1>3, <2>1 DEF ReadFails, ReadEnds, WriteFails, Tell, CopierInv, exchangeVars,
                      ExchangeTypeOK, LogTypeOK
  <2> QED
    BY <1>2, <2>1, <2>2, <2>3
<1>4. CASE ReadChunk(r)
  <2>1. LogTypeOK'
    BY <1>4, LogAssumption DEF ReadChunk, LogTypeOK
  <2>2. CopierInv'
    BY <1>4 DEF ReadChunk, CopierInv, exchangeVars, ExchangeTypeOK, LogTypeOK
  <2> QED
    BY <1>2, <1>4, <2>1, <2>2 DEF ReadChunk
<1>5. CASE WriteChunk(r)
  <2>1. /\ UNCHANGED <<source, cut, at, asked, callId, told>>
        /\ copier[r] = "writing" /\ copier' = [copier EXCEPT ![r] = "reading"]
        /\ late' = [late EXCEPT ![r] = IF at[r] = "logged" THEN late[r] + 1 ELSE late[r]]
        /\ status' = [status EXCEPT ![r] = IF status[r] = 0 THEN 200 ELSE status[r]]
    BY <1>5 DEF WriteChunk
  <2>2. at[r] \in {"streaming", "logged"}
    BY <2>1 DEF CopierInv
  <2>3. LogTypeOK'
    BY <2>1 DEF LogTypeOK
  <2>4. ExchangeTypeOK' /\ IdInv'
    BY <2>1 DEF ExchangeTypeOK, IdInv
  <2>5. StoredInv'
    BY <1>1, <2>1, <2>2 DEF StoredInv, ExchangeTypeOK
  <2>6. CopierInv'
    BY <2>1, <2>2 DEF CopierInv, ExchangeTypeOK, LogTypeOK
  <2> QED
    BY <1>1, <2>3, <2>4, <2>5, <2>6
<1>6. CASE \E why \in Cuts \ {"no"} : CutOff(r, why)
  <2>1. PICK why \in Cuts \ {"no"} : CutOff(r, why)
    BY <1>6
  <2>2. LogTypeOK'
    BY <2>1 DEF CutOff, LogTypeOK
  <2>3. CopierInv'
    BY <2>1 DEF CutOff, CopierInv, exchangeVars, ExchangeTypeOK, LogTypeOK
  <2> QED
    BY <1>2, <2>1, <2>2, <2>3 DEF CutOff
<1> QED
  BY <1>3, <1>4, <1>5, <1>6 DEF Copy, Arrives

------------------------------------------------------------------------------
(* Counters and lists: what each step does to them. *)

LEMMA CountedFinite ==
  ASSUME NEW l
  PROVE  /\ IsFiniteSet(StartedFor(l)) /\ IsFiniteSet(FinishedFor(l))
         /\ \A c : IsFiniteSet(FinishedWith(l, c))
BY ExchangeAssumption, FS_Subset DEF StartedFor, FinishedFor, FinishedWith

(* A step that neither starts nor completes a call. *)
LEMMA CountFrame ==
  ASSUME CountInv, ScrapedInv, UNCHANGED metricVars,
         \A q \in Requests :
           /\ at'[q] \in Announced <=> at[q] \in Announced
           /\ at'[q] = "finished" <=> at[q] = "finished"
           /\ at[q] \in Announced => called'[q] = called[q]
           /\ at[q] = "finished" => recorded'[q] = recorded[q]
  PROVE  /\ CountInv'
         /\ UNCHANGED scraped => ScrapedInv'
<1>1. "finished" \in Announced
  BY DEF Announced
<1>2. ASSUME NEW l
      PROVE  /\ StartedFor(l)' = StartedFor(l) /\ FinishedFor(l)' = FinishedFor(l)
             /\ \A c : FinishedWith(l, c)' = FinishedWith(l, c)
  BY <1>1 DEF StartedFor, FinishedFor, FinishedWith
<1>3. UNCHANGED <<started, completed>>
  BY DEF metricVars
<1> QED
  BY <1>2, <1>3 DEF CountInv, ScrapedInv

(* A step that is not about the list of functions. *)
LEMMA ListFrame ==
  ASSUME ExchangeTypeOK, ListInv, NEW r \in Requests,
         at[r] \notin ListPlaces,
         NEW to \in Places \ ({"new"} \cup ListPlaces), at' = [at EXCEPT ![r] = to],
         \A q \in Requests \ {r} : status'[q] = status[q], UNCHANGED listVars
  PROVE  ListInv'
<1>1. UNCHANGED <<scraped, listed, counts, before>>
  BY DEF listVars
<1>2. /\ at' \in [Requests -> Places] /\ at'[r] = to
      /\ \A q \in Requests \ {r} : at'[q] = at[q]
  BY DEF ExchangeTypeOK
<1> SUFFICES ASSUME NEW q \in Requests
             PROVE  /\ at'[q] \in {"new", "listing"} => listed'[q] = {}
                    /\ at'[q] \in {"listing", "counting"} => status'[q] = 0
                    /\ at'[q] = "counting" => \A d \in Deployed : counts'[q][d] = 0
                    /\ \A l \in Labels : before'[q][l] <= scraped'[l]
                    /\ at'[q] = "listed" /\ status'[q] = 200 =>
                         \A d \in listed'[q] \cap Labels :
                           before'[q][d] <= counts'[q][d] /\ counts'[q][d] <= scraped'[d]
  BY DEF ListInv
<1>3. CASE q = r
  BY <1>1, <1>2, <1>3 DEF ListInv, ListPlaces
<1>4. CASE q # r
  BY <1>1, <1>2, <1>4 DEF ListInv
<1> QED
  BY <1>3, <1>4

(* A step of a handler that is neither called nor asked for a list. *)
LEMMA ElsewhereSums ==
  ASSUME ExchangeTypeOK, SumInv, NEW r \in Requests,
         at[r] \notin Announced \cup ListPlaces,
         NEW to \in Places \ ({"new"} \cup Announced \cup ListPlaces),
         at' = [at EXCEPT ![r] = to],
         \A q \in Requests \ {r} : status'[q] = status[q],
         UNCHANGED <<forwardVars, listVars>>
  PROVE  SumInv'
<1>1. UNCHANGED <<called, recorded, scraped>> /\ UNCHANGED metricVars
  BY DEF forwardVars, callVars, listVars
<1>2. at'[r] = to /\ \A q \in Requests \ {r} : at'[q] = at[q]
  BY DEF ExchangeTypeOK
<1>3. CallInv'
  BY <1>1, <1>2 DEF SumInv, CallInv, Announced
<1>4. CountInv' /\ ScrapedInv'
  <2>1. \A q \in Requests : /\ at'[q] \in Announced <=> at[q] \in Announced
                            /\ at'[q] = "finished" <=> at[q] = "finished"
    BY <1>2 DEF Announced
  <2> QED
    BY <1>1, <2>1, CountFrame DEF SumInv
<1>5. ListInv'
  BY ListFrame DEF SumInv
<1> QED
  BY <1>3, <1>4, <1>5 DEF SumInv

(* A step that leaves all exchanges, calls and lists alone. *)
LEMMA QuietSums ==
  ASSUME SumInv, UNCHANGED <<exchangeVars, forwardVars, listVars>>
  PROVE  SumInv'
<1>1. UNCHANGED <<at, status, called, recorded, scraped, listed, counts, before>>
      /\ UNCHANGED metricVars
  BY DEF exchangeVars, forwardVars, callVars, listVars
<1>2. CountInv' /\ ScrapedInv'
  BY <1>1, CountFrame DEF SumInv
<1>3. CallInv' /\ ListInv'
  BY <1>1 DEF SumInv, CallInv, ListInv
<1> QED
  BY <1>2, <1>3 DEF SumInv

(* A call is announced. *)
LEMMA ForwardSums ==
  ASSUME PathInv, SumInv, NEW r \in Requests, Forward(r), UNCHANGED listVars
  PROVE  SumInv'
<1> USE DEF PathInv, PathTypeOK
<1>1. /\ at[r] = "new" /\ at' = [at EXCEPT ![r] = "forwarding"]
      /\ UNCHANGED <<status, recorded, completed>>
  BY DEF Forward, Receive
<1>2. PICK n \in Called : called' = [called EXCEPT ![r] = n] /\ NotifyStarted(n)
  BY DEF Forward
<1>3. /\ at'[r] = "forwarding" /\ \A q \in Requests \ {r} : at'[q] = at[q]
      /\ called'[r] = n /\ \A q \in Requests \ {r} : called'[q] = called[q]
      /\ status[r] = 0
  <2>1. at \in [Requests -> Places] /\ called \in [Requests -> Called \cup {<<>>}]
    BY DEF ExchangeTypeOK, ForwardTypeOK
  <2>2. status[r] = 0
    BY <1>1 DEF StoredInv
  <2> QED
    BY <1>1, <1>2, <2>1, <2>2
<1>4. CallInv'
  BY <1>1, <1>3 DEF SumInv, CallInv, Announced
<1>5. CountInv'
  <2> SUFFICES ASSUME NEW l \in Labels
               PROVE  /\ started'[l] = Cardinality(StartedFor(l)')
                      /\ Total(completed'[l], Codes) = Cardinality(FinishedFor(l)')
                      /\ \A c \in Codes :
                           completed'[l][c] = Cardinality(FinishedWith(l, c)')
    BY DEF CountInv
  <2>1. /\ started[l] = Cardinality(StartedFor(l))
        /\ Total(completed[l], Codes) = Cardinality(FinishedFor(l))
        /\ \A c \in Codes : completed[l][c] = Cardinality(FinishedWith(l, c))
    BY DEF SumInv, CountInv
  <2>2. /\ FinishedFor(l)' = FinishedFor(l)
        /\ \A c \in Codes : FinishedWith(l, c)' = FinishedWith(l, c)
    BY <1>1, <1>3 DEF FinishedFor, FinishedWith
  <2>3. started' = [started EXCEPT ![Label(n)] = @ + 1] /\ started \in [Labels -> Nat]
    BY <1>2 DEF NotifyStarted, ForwardTypeOK
  <2>4. started'[l] = Cardinality(StartedFor(l)')
    <3>1. CASE Label(n) = l
      <4>1. StartedFor(l)' = StartedFor(l) \cup {r} /\ r \notin StartedFor(l)
        BY <1>1, <1>3, <3>1 DEF StartedFor, Announced
      <4>2. Cardinality(StartedFor(l)') = Cardinality(StartedFor(l)) + 1
        BY <4>1, CountedFinite, FS_AddElement
      <4> QED
        BY <2>1, <2>3, <3>1, <4>2
    <3>2. CASE Label(n) # l
      <4>1. StartedFor(l)' = StartedFor(l)
        BY <1>1, <1>3, <3>2 DEF StartedFor, Announced
      <4> QED
        BY <2>1, <2>3, <3>2, <4>1
    <3> QED
      BY <3>1, <3>2
  <2> QED
    BY <1>1, <2>1, <2>2, <2>4
<1>6. ScrapedInv' /\ UNCHANGED <<scraped, completed>>
  BY <1>1 DEF SumInv, ScrapedInv, listVars
<1>7. ListInv'
  BY <1>1, ListFrame DEF SumInv, ListPlaces, Places, CallPlaces
<1> QED
  BY <1>4, <1>5, <1>6, <1>7 DEF SumInv

(* It goes on. *)
LEMMA CallingSums ==
  ASSUME PathInv, SumInv, NEW r \in Requests, UNCHANGED listVars,
         Unanswered(r) \/ StreamUnanswered(r) \/ Answered(r) \/ Copied(r)
  PROVE  SumInv'
<1> USE DEF PathInv, PathTypeOK
<1>1. status \in [Requests -> {0} \cup 100..599] /\ recorded \in [Requests -> Codes]
  BY DEF ExchangeTypeOK, ForwardTypeOK
<1>2. Codes \subseteq 100..599
  BY ForwardingAssumption DEF Codes
<1>3. ASSUME NEW from \in {"forwarding", "copying"}, NEW to \in {"copying", "answered"},
             at[r] = from, at' = [at EXCEPT ![r] = to],
             UNCHANGED called, UNCHANGED metricVars,
             \A q \in Requests \ {r} : status'[q] = status[q] /\ recorded'[q] = recorded[q],
             to = "copying" => recorded'[r] = status'[r],
             to = "answered" => recorded'[r] = (IF status'[r] = 0 THEN 200 ELSE status'[r])
      PROVE  SumInv'
  <2>1. at'[r] = to /\ \A q \in Requests \ {r} : at'[q] = at[q]
    BY <1>3 DEF ExchangeTypeOK
  <2>2. CallInv'
    BY <1>3, <2>1 DEF SumInv, CallInv, Announced
  <2>3. CountInv' /\ ScrapedInv'
    <3>1. /\ UNCHANGED scraped
          /\ \A q \in Requests : /\ at'[q] \in Announced <=> at[q] \in Announced
                                 /\ at'[q] = "finished" <=> at[q] = "finished"
                                 /\ at[q] = "finished" => recorded'[q] = recorded[q]
      BY <1>3, <2>1 DEF listVars, Announced
    <3> QED
      BY <1>3, <3>1, CountFrame DEF SumInv
  <2>4. ListInv'
    <3>1. to \in Places \ ({"new"} \cup ListPlaces) /\ at[r] \notin ListPlaces
      BY <1>3 DEF ListPlaces, Places, CallPlaces
    <3> QED
      BY <1>3, <3>1, ListFrame DEF SumInv
  <2> QED
    BY <2>2, <2>3, <2>4 DEF SumInv
<1>4. CASE Unanswered(r)
  <2>1. /\ status' = [status EXCEPT ![r] = 502] /\ recorded' = [recorded EXCEPT ![r] = 502]
        /\ at[r] = "forwarding" /\ at' = [at EXCEPT ![r] = "answered"]
        /\ UNCHANGED called /\ UNCHANGED metricVars
    BY <1>4 DEF Unanswered, Move
  <2> QED
    BY <1>1, <1>3, <2>1
<1>5. CASE StreamUnanswered(r)
  <2>1. /\ recorded' = [recorded EXCEPT ![r] = 200]
        /\ at[r] = "forwarding" /\ at' = [at EXCEPT ![r] = "answered"]
        /\ UNCHANGED <<status, called>> /\ UNCHANGED metricVars
    BY <1>5 DEF StreamUnanswered, Move
  <2>2. status[r] = 0
    BY <2>1 DEF SumInv, CallInv
  <2> QED
    BY <1>1, <1>3, <2>1, <2>2
<1>6. CASE Answered(r)
  <2>1. PICK c \in UpstreamCodes : /\ status' = [status EXCEPT ![r] = c]
                                   /\ recorded' = [recorded EXCEPT ![r] = c]
    BY <1>6 DEF Answered
  <2>2. /\ at[r] = "forwarding" /\ at' = [at EXCEPT ![r] = "copying"]
        /\ UNCHANGED called /\ UNCHANGED metricVars
    BY <1>6 DEF Answered, Move
  <2> QED
    BY <1>1, <1>3, <2>1, <2>2
<1>7. CASE Copied(r)
  <2>1. /\ at[r] = "copying" /\ at' = [at EXCEPT ![r] = "answered"]
        /\ UNCHANGED <<status, recorded, called>> /\ UNCHANGED metricVars
    BY <1>7 DEF Copied, Move, forwardVars, callVars
  <2>2. recorded[r] = status[r] /\ recorded[r] # 0
    BY <1>1, <1>2, <2>1 DEF SumInv, CallInv
  <2> QED
    BY <1>3, <2>1, <2>2
<1> QED
  BY <1>4, <1>5, <1>6, <1>7

(* It is over, and counted. *)
LEMMA CompleteSums ==
  ASSUME PathInv, SumInv, NEW r \in Requests, Complete(r), UNCHANGED listVars
  PROVE  SumInv'
<1> USE DEF PathInv, PathTypeOK
<1>0. PICK k, w : k = Label(called[r]) /\ w = recorded[r]
  OBVIOUS
<1>1. /\ at[r] = "answered" /\ at' = [at EXCEPT ![r] = "finished"]
      /\ status' = [status EXCEPT ![r] = IF status[r] = 0 THEN 200 ELSE status[r]]
      /\ UNCHANGED <<called, recorded, started>>
  BY DEF Complete, Answer, Move, callVars
<1>2. /\ at'[r] = "finished" /\ \A q \in Requests \ {r} : at'[q] = at[q]
      /\ status'[r] = (IF status[r] = 0 THEN 200 ELSE status[r])
      /\ \A q \in Requests \ {r} : status'[q] = status[q]
  <2>1. at \in [Requests -> Places] /\ status \in [Requests -> {0} \cup 100..599]
    BY DEF ExchangeTypeOK
  <2> QED
    BY <1>1, <2>1
<1>3. called[r] \in Called /\ w = status'[r]
  <2>1. /\ called[r] \in Called
        /\ recorded[r] = (IF status[r] = 0 THEN 200 ELSE status[r])
    BY <1>1 DEF SumInv, CallInv, Announced
  <2> QED
    BY <1>0, <1>2, <2>1
<1>4. k \in Labels /\ w \in Codes
  <2>1. k \in Labels
    BY <1>0, <1>3 DEF Labels
  <2> QED
    BY <1>0, <2>1 DEF ForwardTypeOK
<1>5. completed \in [Labels -> [Codes -> Nat]]
  BY DEF ForwardTypeOK
<1>6. completed' = [completed EXCEPT ![k] = [completed[k] EXCEPT ![w] = @ + 1]]
  BY <1>0 DEF Complete, NotifyCompleted
<1>7. CallInv'
  BY <1>0, <1>1, <1>2, <1>3 DEF SumInv, CallInv, Announced
<1>8. /\ completed'[k] = [completed[k] EXCEPT ![w] = @ + 1]
      /\ \A l \in Labels \ {k} : completed'[l] = completed[l]
      /\ completed[k] \in [Codes -> Nat]
  BY <1>4, <1>5, <1>6
<1>9. Total(completed'[k], Codes) = Total(completed[k], Codes) + 1
  BY <1>4, <1>8, FiniteCodes, TotalRises
<1>10. ASSUME NEW l
       PROVE  /\ StartedFor(l)' = StartedFor(l)
              /\ l # k => /\ FinishedFor(l)' = FinishedFor(l)
                          /\ \A c : FinishedWith(l, c)' = FinishedWith(l, c)
              /\ l = k => /\ FinishedFor(l)' = FinishedFor(l) \cup {r}
                          /\ r \notin FinishedFor(l)
                          /\ \A c : c # w => FinishedWith(l, c)' = FinishedWith(l, c)
                          /\ FinishedWith(l, w)' = FinishedWith(l, w) \cup {r}
                          /\ r \notin FinishedWith(l, w)
  BY <1>0, <1>1, <1>2 DEF StartedFor, FinishedFor, FinishedWith, Announced
<1>11. CountInv'
  <2> SUFFICES ASSUME NEW l \in Labels
               PROVE  /\ started'[l] = Cardinality(StartedFor(l)')
                      /\ Total(completed'[l], Codes) = Cardinality(FinishedFor(l)')
                      /\ \A c \in Codes :
                           completed'[l][c] = Cardinality(FinishedWith(l, c)')
    BY DEF CountInv
  <2>1. /\ started[l] = Cardinality(StartedFor(l))
        /\ Total(completed[l], Codes) = Cardinality(FinishedFor(l))
        /\ \A c \in Codes : completed[l][c] = Cardinality(FinishedWith(l, c))
    BY DEF SumInv, CountInv
  <2>2. started'[l] = Cardinality(StartedFor(l)')
    BY <1>1, <1>10, <2>1
  <2>3. CASE l # k
    BY <1>8, <1>10, <2>1, <2>2, <2>3
  <2>4. CASE l = k
    <3>1. Cardinality(FinishedFor(l)') = Cardinality(FinishedFor(l)) + 1
      BY <1>10, <2>4, CountedFinite, FS_AddElement
    <3>2. Cardinality(FinishedWith(l, w)') = Cardinality(FinishedWith(l, w)) + 1
      BY <1>10, <2>4, CountedFinite, FS_AddElement
    <3>3. ASSUME NEW c \in Codes
          PROVE  completed'[l][c] = Cardinality(FinishedWith(l, c)')
      <4>1. /\ completed[l] \in [Codes -> Nat]
            /\ completed'[l] = [completed[l] EXCEPT ![w] = @ + 1]
        BY <1>8, <2>4
      <4>2. CASE c = w
        BY <2>1, <3>2, <4>1, <4>2
      <4>3. CASE c # w
        <5>1. FinishedWith(l, c)' = FinishedWith(l, c)
          BY <1>10, <2>4, <4>3
        <5>2. completed'[l][c] = completed[l][c]
          BY <4>1, <4>3
        <5> QED
          BY <2>1, <5>1, <5>2
      <4> QED
        BY <4>2, <4>3
    <3> QED
      BY <1>9, <2>1, <2>2, <2>4, <3>1, <3>3
  <2> QED
    BY <2>3, <2>4
<1>12. ScrapedInv'
  <2> SUFFICES ASSUME NEW l \in Labels PROVE scraped'[l] <= Total(completed'[l], Codes)
    BY DEF ScrapedInv
  <2>1. scraped[l] <= Total(completed[l], Codes) /\ UNCHANGED scraped
    BY DEF SumInv, ScrapedInv, listVars
  <2>2. scraped[l] \in Nat /\ Total(completed[l], Codes) \in Nat
    BY <1>5, FiniteCodes, TotalType DEF ListTypeOK
  <2> QED
    BY <1>8, <1>9, <2>1, <2>2
<1>13. ListInv'
  BY <1>1, <1>2, ListFrame DEF SumInv, ListPlaces, Places, CallPlaces
<1> QED
  BY <1>7, <1>11, <1>12, <1>13 DEF SumInv

(* A list is asked for, received, and sent with Prometheus' counts.        *)
LEMMA MixedInIs ==
  ASSUME ListTypeOK, NEW d \in Labels
  PROVE  MixedIn(d) = scraped[d]
<1>1. {l \in Labels : l = d} = {d}
  OBVIOUS
<1>2. scraped[d] \in Nat
  BY DEF ListTypeOK
<1> QED
  BY <1>1, <1>2, TotalOfOne DEF MixedIn

LEMMA ListingSums ==
  ASSUME PathInv, SumInv, NEW r \in Requests, List(r) \/ Listing(r),
         UNCHANGED forwardVars
  PROVE  SumInv'
<1> USE DEF PathInv, PathTypeOK
<1>1. UNCHANGED <<called, recorded, completed>> /\ UNCHANGED metricVars
  BY DEF forwardVars, callVars, metricVars
<1>2. /\ before \in [Requests -> [Labels -> Nat]] /\ scraped \in [Labels -> Nat]
      /\ counts \in [Requests -> [Deployed -> Nat]]
      /\ listed \in [Requests -> SUBSET Deployed]
      /\ status \in [Requests -> {0} \cup 100..599]
  BY DEF ListTypeOK, ExchangeTypeOK
(* What is left to show of one step of a list. *)
<1> DEFINE Good(place) ==
      /\ place = "listing" => listed'[r] = {}
      /\ place \in {"listing", "counting"} => status'[r] = 0
      /\ place = "counting" => \A d \in Deployed : counts'[r][d] = 0
      /\ \A l \in Labels : before'[r][l] <= scraped[l]
      /\ place = "listed" /\ status'[r] = 200 =>
           \A d \in listed'[r] \cap Labels :
             before'[r][d] <= counts'[r][d] /\ counts'[r][d] <= scraped[d]
<1>3. ASSUME NEW from \in {"new"} \cup ListPlaces, NEW to \in ListPlaces, Move(r, from, to),
             UNCHANGED scraped, Good(to),
             \A q \in Requests \ {r} : /\ status'[q] = status[q] /\ listed'[q] = listed[q]
                                      /\ counts'[q] = counts[q] /\ before'[q] = before[q]
      PROVE  SumInv'
  <2>1. at[r] = from /\ at'[r] = to /\ \A q \in Requests \ {r} : at'[q] = at[q]
    BY <1>3 DEF Move, ExchangeTypeOK
  <2>2. CallInv'
    BY <1>1, <1>3, <2>1 DEF SumInv, CallInv, Announced, ListPlaces
  <2>3. CountInv' /\ ScrapedInv'
    <3>1. \A q \in Requests : /\ at'[q] \in Announced <=> at[q] \in Announced
                              /\ at'[q] = "finished" <=> at[q] = "finished"
      BY <1>3, <2>1 DEF Announced, ListPlaces
    <3> QED
      BY <1>1, <1>3, <3>1, CountFrame DEF SumInv
  <2>4. ListInv'
    BY <1>3, <2>1 DEF SumInv, ListInv, ListPlaces
  <2> QED
    BY <2>2, <2>3, <2>4 DEF SumInv
<1>4. \A l \in Labels : before[r][l] <= scraped[l]
  BY DEF SumInv, ListInv
<1>5. ASSUME NEW code, code # 200, Answer(r, "listing", "listed", code), UNCHANGED listVars,
             code # 0
      PROVE  SumInv'
  <2>1. /\ Move(r, "listing", "listed") /\ status' = [status EXCEPT ![r] = code]
        /\ UNCHANGED <<scraped, listed, counts, before>>
    BY <1>5 DEF Answer, listVars
  <2>2. Good("listed")
    BY <1>2, <1>4, <1>5, <2>1
  <2> QED
    BY <1>2, <1>3, <2>1, <2>2 DEF ListPlaces
<1>6. CASE List(r)
  <2>1. /\ Move(r, "new", "listing") /\ before' = [before EXCEPT ![r] = scraped]
        /\ UNCHANGED <<status, scraped, listed, counts>>
    BY <1>6 DEF List
  <2>2. status[r] = 0 /\ listed[r] = {}
    BY <2>1 DEF Move, StoredInv, SumInv, ListInv
  <2>3. Good("listing")
    BY <1>2, <2>1, <2>2
  <2> QED
    BY <1>2, <1>3, <2>1, <2>3 DEF ListPlaces
<1>7. CASE ListRefused(r)
  <2>1. PICK c \in (UpstreamCodes \cup {502}) \ {200} : Answer(r, "listing", "listed", c)
    BY <1>7 DEF ListRefused
  <2>2. c # 200 /\ c # 0
    BY ForwardingAssumption
  <2> QED
    BY <1>5, <1>7, <2>1, <2>2 DEF ListRefused
<1>8. CASE ListUnparsable(r)
  BY <1>5, <1>8 DEF ListUnparsable
<1>9. CASE ListReceived(r)
  <2>1. /\ Move(r, "listing", "counting") /\ UNCHANGED <<status, scraped, before>>
        /\ counts' = [counts EXCEPT ![r] = [d \in Deployed |-> 0]]
    BY <1>9 DEF ListReceived
  <2>2. PICK d \in Deployed : listed' = [listed EXCEPT ![r] = ListOf(NamespaceOf(d))]
    BY <1>9 DEF ListReceived
  <2>3. status[r] = 0
    BY <2>1 DEF Move, SumInv, ListInv
  <2>4. Good("counting")
    BY <1>2, <1>4, <2>1, <2>3
  <2> QED
    BY <1>2, <1>3, <2>1, <2>2, <2>4 DEF ListPlaces
<1>10. CASE EmptyListReceived(r)
  <2>1. /\ Move(r, "listing", "listed") /\ status' = [status EXCEPT ![r] = 200]
        /\ UNCHANGED <<scraped, listed, counts, before>>
    BY <1>10 DEF EmptyListReceived, Answer, listVars
  <2>2. listed[r] = {}
    BY <2>1 DEF Move, SumInv, ListInv
  <2>3. Good("listed")
    BY <1>2, <1>4, <2>1, <2>2
  <2> QED
    BY <1>2, <1>3, <2>1, <2>3 DEF ListPlaces
<1>11. CASE Counted(r)
  <2> DEFINE mixed == [d \in Deployed |->
               counts[r][d] + IF d \in listed[r] THEN MixedIn(d) ELSE 0]
  <2>1. /\ Move(r, "counting", "listed") /\ status' = [status EXCEPT ![r] = 200]
        /\ UNCHANGED <<scraped, listed, before>> /\ counts' = [counts EXCEPT ![r] = mixed]
    BY <1>11 DEF Counted, Answer
  <2>2. ASSUME NEW d \in listed[r] \cap Labels PROVE mixed[d] = scraped[d]
    <3>1. d \in Deployed /\ counts[r][d] = 0
      BY <1>2, <2>1 DEF Move, SumInv, ListInv
    <3>2. MixedIn(d) = scraped[d] /\ scraped[d] \in Nat
      BY <1>2, MixedInIs
    <3> QED
      BY <3>1, <3>2
  <2> HIDE DEF mixed
  <2>3. Good("listed")
    BY <1>2, <1>4, <2>1, <2>2
  <2> QED
    BY <1>2, <1>3, <2>1, <2>3 DEF ListPlaces
<1>12. CASE CountingBroke(r)
  <2>1. /\ Move(r, "counting", "listed")
        /\ UNCHANGED <<status, scraped, listed, counts, before>>
    BY <1>12 DEF CountingBroke, listVars
  <2>2. status[r] = 0
    BY <2>1 DEF Move, SumInv, ListInv
  <2>3. Good("listed")
    BY <1>4, <2>1, <2>2
  <2> QED
    BY <1>3, <2>1, <2>3 DEF ListPlaces
<1> QED
  BY <1>6, <1>7, <1>8, <1>9, <1>10, <1>11, <1>12 DEF Listing

(* Prometheus catches up. *)
LEMMA ScrapeSums ==
  ASSUME PathInv, SumInv, Scrape, UNCHANGED <<exchangeVars, forwardVars>>
  PROVE  SumInv'
<1> USE DEF PathInv, PathTypeOK
<1>1. /\ UNCHANGED <<at, status, called, recorded, completed, listed, counts, before>>
      /\ UNCHANGED metricVars
  BY DEF Scrape, exchangeVars, forwardVars, callVars, metricVars
<1>2. ASSUME NEW l \in Labels
      PROVE  /\ scraped'[l] = Total(completed[l], Codes)
             /\ scraped[l] \in Nat /\ scraped'[l] \in Nat
             /\ scraped[l] <= scraped'[l]
  <2>1. scraped'[l] = Total(completed[l], Codes)
    BY DEF Scrape
  <2>2. scraped[l] \in Nat /\ Total(completed[l], Codes) \in Nat
    BY FiniteCodes, TotalType DEF ListTypeOK, ForwardTypeOK
  <2>3. scraped[l] <= Total(completed[l], Codes)
    BY DEF SumInv, ScrapedInv
  <2> QED
    BY <2>1, <2>2, <2>3
<1>3. CallInv'
  BY <1>1 DEF SumInv, CallInv
<1>4. CountInv'
  BY <1>1, CountFrame DEF SumInv
<1>5. ScrapedInv'
  BY <1>1, <1>2 DEF ScrapedInv
<1>6. ListInv'
  <2>1. ASSUME NEW q \in Requests, NEW l \in Labels PROVE before[q][l] <= scraped'[l]
    <3>1. before[q][l] \in Nat /\ before[q][l] <= scraped[l]
      BY DEF ListTypeOK, SumInv, ListInv
    <3> QED
      BY <1>2, <3>1
  <2>2. ASSUME NEW q \in Requests, at[q] = "listed", status[q] = 200,
               NEW d \in listed[q] \cap Labels
        PROVE  before[q][d] <= counts[q][d] /\ counts[q][d] <= scraped'[d]
    <3>1. counts[q][d] \in Nat
      BY DEF ListTypeOK
    <3>2. before[q][d] <= counts[q][d] /\ counts[q][d] <= scraped[d]
      BY <2>2 DEF SumInv, ListInv
    <3> QED
      BY <1>2, <3>1, <3>2
  <2> QED
    BY <1>1, <2>1, <2>2 DEF SumInv, ListInv
<1> QED
  BY <1>3, <1>4, <1>5, <1>6 DEF SumInv

(* The queue and the logs touch neither calls nor lists. *)
LEMMA QueueSums ==
  ASSUME PathInv, SumInv, NEW r \in Requests, Enqueue(r) \/ Queue(r),
         UNCHANGED <<forwardVars, listVars>>
  PROVE  SumInv'
<1> USE DEF PathInv, PathTypeOK
<1> DEFINE QueueEnds == {"queuing", "publishing", "replied"}
<1>1. QueueEnds \subseteq Places \ ({"new"} \cup Announced \cup ListPlaces)
  BY DEF Places, CallPlaces, Announced, ListPlaces
<1>2. ASSUME NEW from \in {"new"} \cup QueueEnds, NEW to \in QueueEnds, at[r] = from,
             at' = [at EXCEPT ![r] = to],
             \A q \in Requests \ {r} : status'[q] = status[q]
      PROVE  SumInv'
  <2>1. at[r] \notin Announced \cup ListPlaces
    BY <1>1, <1>2 DEF Announced, ListPlaces
  <2> QED
    BY <1>1, <1>2, <2>1, ElsewhereSums
<1>3. CASE Enqueue(r)
  <2>1. at[r] = "new" /\ at' = [at EXCEPT ![r] = "queuing"] /\ UNCHANGED status
    BY <1>3 DEF Enqueue, Receive
  <2> QED
    BY <1>2, <2>1
<1>4. ASSUME NEW from \in QueueEnds, NEW code, Answer(r, from, "replied", code)
      PROVE  SumInv'
  <2>1. /\ at[r] = from /\ at' = [at EXCEPT ![r] = "replied"]
        /\ \A q \in Requests \ {r} : status'[q] = status[q]
    BY <1>4 DEF Answer, Move, ExchangeTypeOK
  <2> QED
    BY <1>2, <2>1
<1>5. CASE TakeConnection(r)
  <2>1. at[r] = "queuing" /\ at' = [at EXCEPT ![r] = "publishing"] /\ UNCHANGED status
    BY <1>5 DEF TakeConnection, Move
  <2> QED
    BY <1>2, <2>1
<1>6. CASE Deliver(r)
  BY <1>6, QuietSums DEF Deliver
<1>7. CASE BadRequest(r) \/ TooLarge(r) \/ Acknowledged(r) \/ PublishFailed(r)
  BY <1>4, <1>7 DEF BadRequest, TooLarge, Acknowledged, PublishFailed
<1> QED
  BY <1>3, <1>5, <1>6, <1>7 DEF Queue

LEMMA LogSums ==
  ASSUME PathInv, SumInv, NEW r \in Requests,
         \/ Log(r) \/ Logging(r) \/ LogsAnswered(r) \/ Copy(r) \/ Arrives(r)
         \/ \E why \in Cuts \ {"no"} : CutOff(r, why),
         UNCHANGED <<forwardVars, listVars>>
  PROVE  SumInv'
<1> USE DEF PathInv, PathTypeOK
<1> DEFINE LogEnds == {"logging", "streaming", "logged"}
<1>1. LogEnds \subseteq Places \ ({"new"} \cup Announced \cup ListPlaces)
  BY DEF Places, CallPlaces, SystemPlaces, Announced, ListPlaces
<1>2. ASSUME NEW from \in {"new"} \cup LogEnds, NEW to \in LogEnds, at[r] = from,
             at' = [at EXCEPT ![r] = to],
             \A q \in Requests \ {r} : status'[q] = status[q]
      PROVE  SumInv'
  <2>1. at[r] \notin Announced \cup ListPlaces
    BY <1>1, <1>2 DEF Announced, ListPlaces
  <2> QED
    BY <1>1, <1>2, <2>1, ElsewhereSums
<1>3. CASE Log(r) \/ LogsFound(r)
  <2>1. PICK to \in {"logging", "streaming"} :
          at[r] \in {"new", "logging"} /\ at' = [at EXCEPT ![r] = to] /\ UNCHANGED status
    BY <1>3 DEF Log, LogsFound, Move
  <2> QED
    BY <1>2, <2>1
<1>4. CASE LogsRefused(r) \/ LogsAbandoned(r) \/ LogsOver(r)
  <2>1. \E code : \E from \in {"logging", "streaming"} : Answer(r, from, "logged", code)
    BY <1>4 DEF LogsRefused, LogsAbandoned, LogsOver
  <2>2. PICK from \in {"logging", "streaming"} :
          /\ at[r] = from /\ at' = [at EXCEPT ![r] = "logged"]
          /\ \A q \in Requests \ {r} : status'[q] = status[q]
    BY <2>1 DEF Answer, Move, ExchangeTypeOK
  <2> QED
    BY <1>2, <2>2
<1>5. CASE WriteChunk(r)
  <2>1. /\ at[r] \in {"streaming", "logged"} /\ UNCHANGED at
        /\ \A q \in Requests \ {r} : status'[q] = status[q]
    BY <1>5 DEF WriteChunk, CopierInv, ExchangeTypeOK
  <2>2. at' = [at EXCEPT ![r] = at[r]]
    BY <2>1 DEF ExchangeTypeOK
  <2> QED
    BY <1>2, <2>1, <2>2
<1>6. CASE \/ ReadFails(r) \/ WriteFails(r) \/ Tell(r) \/ ReadChunk(r) \/ ReadEnds(r)
           \/ \E why \in Cuts \ {"no"} : CutOff(r, why)
  <2>1. UNCHANGED exchangeVars
    BY <1>6 DEF ReadFails, WriteFails, Tell, ReadChunk, ReadEnds, CutOff
  <2> QED
    BY <2>1, QuietSums
<1> QED
  BY <1>3, <1>4, <1>5, <1>6 DEF Logging, LogsAnswered, Copy, Arrives

------------------------------------------------------------------------------
(* The invariant *)

LEMMA PathInitially == Init => PathInv
<1> SUFFICES ASSUME Init PROVE PathInv
  OBVIOUS
<1> USE DEF Init
<1>1. ExchangeTypeOK
  BY DEF ExchangeInit, ExchangeTypeOK, Ids, Places
<1>2. ForwardTypeOK
  BY DEF ForwardInit, ForwardTypeOK, Codes
<1>3. QueueTypeOK
  BY QueueAssumption DEF QueueInit, QueueTypeOK, Faults
<1>4. ListTypeOK
  BY DEF ListInit, ListTypeOK
<1>5. LogTypeOK
  BY LogAssumption DEF LogInit, LogTypeOK, Cuts
<1>6. IdInv /\ StoredInv /\ CopierInv
  BY DEF ExchangeInit, LogInit, IdInv, StoredInv, CopierInv, CallPlaces
<1> QED
  BY <1>1, <1>2, <1>3, <1>4, <1>5, <1>6 DEF PathInv, PathTypeOK

LEMMA PathStep == PathInv /\ [Next]_pathVars => PathInv'
<1> SUFFICES ASSUME PathInv, [Next]_pathVars PROVE PathInv'
  OBVIOUS
<1>1. CASE UNCHANGED pathVars
  BY <1>1, UnchangedTypes, QuietFrame DEF pathVars, PathInv, PathTypeOK, queueVars
<1>2. ASSUME NEW r \in Requests, Requested(r) PROVE PathInv'
  BY <1>2, SynchronousInv, AsynchronousInv, ListingInv, LogHandlerInv DEF Requested
<1>3. ASSUME NEW r \in Requests, Handled(r) PROVE PathInv'
  BY <1>3, SynchronousInv, AsynchronousInv, ListingInv, LogHandlerInv, CopyInv
     DEF Handled, Synchronous, Asynchronous, Lists, Logs, Logging, Copies
<1>4. ASSUME NEW r \in Requests, LogsFlow(r) PROVE PathInv'
  BY <1>4, LogHandlerInv, CopyInv DEF LogsFlow, LogsAnswered
<1>5. ASSUME NEW r \in Requests, NEW why \in Cuts \ {"no"}, LogsCut(r, why) PROVE PathInv'
  BY <1>5, CopyInv DEF LogsCut
<1>6. CASE Background
  BY <1>6, RedialInv, ScrapeInv DEF Background, Redials
<1> QED
  BY <1>1, <1>2, <1>3, <1>4, <1>5, <1>6 DEF Next

LEMMA PathInvariance == Spec => []PathInv
BY PathInitially, PathStep, PTL DEF Spec

LEMMA SumInitially == Init => SumInv
<1> SUFFICES ASSUME Init PROVE SumInv
  OBVIOUS
<1>1. /\ \A r \in Requests : at[r] = "new" /\ listed[r] = {}
      /\ \A l \in Labels : /\ started[l] = 0 /\ scraped[l] = 0
                           /\ \A c \in Codes : completed[l][c] = 0
                           /\ \A r \in Requests : before[r][l] = 0
  BY DEF Init, ExchangeInit, ForwardInit, ListInit
<1>2. ASSUME NEW l
      PROVE  /\ StartedFor(l) = {} /\ FinishedFor(l) = {}
             /\ \A c : FinishedWith(l, c) = {}
  BY <1>1 DEF StartedFor, FinishedFor, FinishedWith, Announced
<1>3. ASSUME NEW l \in Labels PROVE Total(completed[l], Codes) = 0
  BY <1>1, TotalOfNone
<1>4. CallInv /\ ListInv
  BY <1>1 DEF CallInv, ListInv, Announced
<1>5. CountInv
  BY <1>1, <1>2, <1>3, FS_EmptySet DEF CountInv
<1>6. ScrapedInv
  BY <1>1, <1>3 DEF ScrapedInv
<1> QED
  BY <1>4, <1>5, <1>6 DEF SumInv

LEMMA SumStep == PathInv /\ SumInv /\ [Next]_pathVars => SumInv'
<1> SUFFICES ASSUME PathInv, SumInv, [Next]_pathVars PROVE SumInv'
  OBVIOUS
<1>1. CASE UNCHANGED pathVars
  BY <1>1, QuietSums DEF pathVars
<1>2. ASSUME NEW r \in Requests, Requested(r) PROVE SumInv'
  BY <1>2, ForwardSums, QueueSums, ListingSums, LogSums DEF Requested
<1>3. ASSUME NEW r \in Requests, Handled(r) PROVE SumInv'
  <2>1. CASE Synchronous(r)
    BY <2>1, CallingSums, CompleteSums DEF Synchronous, Call
  <2>2. CASE Asynchronous(r)
    BY <2>2, QueueSums DEF Asynchronous
  <2>3. CASE Lists(r)
    BY <2>3, ListingSums DEF Lists
  <2>4. CASE Logs(r) \/ Copies(r)
    BY <2>4, LogSums DEF Logs, Copies
  <2> QED
    BY <1>3, <2>1, <2>2, <2>3, <2>4 DEF Handled
<1>4. ASSUME NEW r \in Requests, LogsFlow(r) PROVE SumInv'
  BY <1>4, LogSums DEF LogsFlow
<1>5. ASSUME NEW r \in Requests, NEW why \in Cuts \ {"no"}, LogsCut(r, why) PROVE SumInv'
  BY <1>5, LogSums DEF LogsCut
<1>6. CASE Background
  <2>1. CASE Redials \/ (Lose /\ UNCHANGED <<forwardVars, listVars, logVars>>)
    <3>1. UNCHANGED <<exchangeVars, forwardVars, listVars>>
      BY <2>1 DEF Redials, Redial, Lose, Reconnect, ReconnectFailed, GiveUp
    <3> QED
      BY <3>1, QuietSums
  <2>2. CASE Scrape /\ UNCHANGED <<exchangeVars, forwardVars, queueVars, logVars>>
    BY <2>2, ScrapeSums
  <2> QED
    BY <1>6, <2>1, <2>2 DEF Background
<1> QED
  BY <1>1, <1>2, <1>3, <1>4, <1>5, <1>6 DEF Next

LEMMA SumInvariance == Spec => [](PathInv /\ SumInv)
<1>1. Init => PathInv /\ SumInv
  BY PathInitially, SumInitially
<1>2. PathInv /\ SumInv /\ [Next]_pathVars => (PathInv /\ SumInv)'
  BY PathStep, SumStep
<1> QED
  BY <1>1, <1>2, PTL DEF Spec

(* The state of the four call paths keeps its type, whatever the number of *)
(* requests, functions, codes and attempts to reconnect.                   *)
THEOREM PathTypeCorrect == Spec => []PathTypeOK
<1>1. PathInv => PathTypeOK
  BY DEF PathInv
<1> QED
  BY <1>1, PathInvariance, PTL

(* Of queue_proxy.go and callid_middleware.go: the id under which an       *)
(* accepted call is in the queue is the one its client knows, and the ids  *)
(* that the gateway makes are not shared.                                  *)
THEOREM AcceptedCallsAreTraceable == Spec => []AcceptedIsTraceable
<1>1. ASSUME PathInv PROVE AcceptedIsTraceable
  <2> USE <1>1 DEF PathInv, PathTypeOK
  <2>1. ASSUME NEW r \in Requests, at[r] = "replied", status[r] = 202
        PROVE  <<r, IF asked[r] = NoId THEN told[r] ELSE asked[r]>> \in stored
    <3>1. callId[r] = IF asked[r] = NoId THEN told[r] ELSE asked[r]
      BY <2>1 DEF IdInv, CallPlaces
    <3> QED
      BY <2>1, <3>1 DEF StoredInv
  <2>2. ASSUME NEW r \in Requests, told[r] # NoId, NEW q \in Requests \ {r}
        PROVE  told[r] # callId[q]
    <3>1. told[r] = r
      BY <2>2 DEF IdInv
    <3>2. callId[q] \in {q, NoId} \cup ClientIds
      BY DEF IdInv, ExchangeTypeOK
    <3> QED
      BY <3>1, <3>2, <2>2, ExchangeAssumption
  <2> QED
    BY <2>1, <2>2 DEF AcceptedIsTraceable
<1> QED
  BY <1>1, PathInvariance, PTL

(* Of logs.go: a stream that neither its client nor the deadline nor the   *)
(* provider has cut off has been passed on to its end before the handler   *)
(* returns, and at most one chunk is written after that of any stream.     *)
THEOREM LogsArePassedOn == Spec => []LogsAreWhole
<1>1. ASSUME PathInv PROVE LogsAreWhole
  <2> SUFFICES ASSUME NEW r \in Requests
               PROVE  /\ at[r] = "logged" /\ status[r] = 200 /\ cut[r] = "no" =>
                           source[r] = 0 /\ copier[r] = "gone"
                      /\ late[r] <= 1
    BY DEF LogsAreWhole
  <2> QED
    BY <1>1 DEF PathInv, PathTypeOK, CopierInv, LogTypeOK
<1> QED
  BY <1>1, PathInvariance, PTL

(* Where a default namespace is configured, the notifiers' rule for the    *)
(* name in a URL and that of the rest of the gateway agree.                *)
LEMMA LabelsAgree ==
  ASSUME DefaultNamespace # NoNamespace, NEW n \in Called
  PROVE  Label(n) = FunctionOf(n)
<1>1. n \in Seq(Segments) /\ n # <<>>
  BY ForwardingAssumption DEF Names
<1>2. Len(n) \in Nat /\ Len(n) >= 1
  BY <1>1
<1>3. CASE Len(n) = 1
  BY <1>2, <1>3 DEF Label, LabelOf, FunctionOf, FullName, GetNamespace
<1>4. CASE Len(n) > 1
  <2>1. Append(SubSeq(n, 1, Len(n) - 1), n[Len(n)]) = n
    BY <1>1, <1>4
  <2> QED
    BY <1>4, <2>1 DEF Label, LabelOf, FunctionOf, FullName, GetNamespace
<1>5. Len(n) = 1 \/ Len(n) > 1
  <2>1. ASSUME NEW k \in Nat, k >= 1 PROVE k = 1 \/ k > 1
    BY <2>1
  <2> QED
    BY <1>2, <2>1
<1> QED
  BY <1>3, <1>4, <1>5

(* Of forwarding_proxy.go and notifiers.go: with function_namespace set,   *)
(* every call is counted when it starts and once more when it is over,     *)
(* under the function that its name means and the status that its client   *)
(* has got, whatever becomes of it.                                        *)
THEOREM CountersAddUp ==
  ASSUME DefaultNamespace # NoNamespace
  PROVE  Spec => []CountersTellStatus
<1>1. ASSUME PathInv, SumInv PROVE CountersTellStatus
  <2>1. ASSUME NEW r \in Requests, at[r] \in Announced
        PROVE  /\ Label(called[r]) = FunctionOf(called[r])
               /\ at[r] = "finished" => recorded[r] = status[r]
    BY <1>1, <2>1, LabelsAgree DEF SumInv, CallInv
  <2>2. ASSUME NEW l \in Labels
        PROVE  started[l] = Cardinality({r \in Requests :
                 /\ at[r] \in {"forwarding", "copying", "answered", "finished"}
                 /\ FunctionOf(called[r]) = l})
    <3>1. StartedFor(l) = {r \in Requests :
            /\ at[r] \in {"forwarding", "copying", "answered", "finished"}
            /\ FunctionOf(called[r]) = l}
      BY <2>1 DEF StartedFor, Announced
    <3> QED
      BY <1>1, <3>1 DEF SumInv, CountInv
  <2>3. ASSUME NEW l \in Labels, NEW c \in Codes
        PROVE  completed[l][c] = Cardinality({r \in Requests :
                 at[r] = "finished" /\ FunctionOf(called[r]) = l /\ status[r] = c})
    <3>1. FinishedWith(l, c) = {r \in Requests :
            at[r] = "finished" /\ FunctionOf(called[r]) = l /\ status[r] = c}
      BY <2>1 DEF FinishedWith, Announced
    <3> QED
      BY <1>1, <3>1 DEF SumInv, CountInv
  <2> QED
    BY <2>2, <2>3 DEF CountersTellStatus
<1> QED
  BY <1>1, SumInvariance, PTL

(* Of add_metrics.go: with function_namespace set, the counts in a list    *)
(* lie between those of Prometheus' scrape before the request and the      *)
(* calls that are over, however late that scrape was.                      *)
THEOREM ListsCountRealCalls ==
  ASSUME DefaultNamespace # NoNamespace
  PROVE  Spec => []ListedCountsAreReal
<1>1. ASSUME PathInv, SumInv PROVE ListedCountsAreReal
  <2> SUFFICES ASSUME NEW r \in Requests, at[r] = "listed", status[r] = 200,
                      NEW d \in listed[r] \cap Labels
               PROVE  counts[r][d] \in before[r][d]..
                        Cardinality({q \in Requests :
                          at[q] = "finished" /\ FunctionOf(called[q]) = d})
    BY DEF ListedCountsAreReal
  <2>1. FinishedFor(d) = {q \in Requests :
          at[q] = "finished" /\ FunctionOf(called[q]) = d}
    BY <1>1, LabelsAgree DEF FinishedFor, SumInv, CallInv, Announced
  <2>2. /\ counts[r][d] \in Nat /\ before[r][d] \in Nat /\ scraped[d] \in Nat
        /\ Total(completed[d], Codes) \in Nat
    <3>1. ListTypeOK /\ completed[d] \in [Codes -> Nat]
      BY <1>1 DEF PathInv, PathTypeOK, ForwardTypeOK
    <3>2. Total(completed[d], Codes) \in Nat
      BY <3>1, FiniteCodes, TotalType
    <3> QED
      BY <3>1, <3>2 DEF ListTypeOK
  <2>3. /\ before[r][d] <= counts[r][d] /\ counts[r][d] <= scraped[d]
        /\ scraped[d] <= Total(completed[d], Codes)
        /\ Total(completed[d], Codes) = Cardinality(FinishedFor(d))
    BY <1>1 DEF SumInv, ListInv, ScrapedInv, CountInv
  <2> QED
    BY <2>1, <2>2, <2>3
<1> QED
  BY <1>1, SumInvariance, PTL
=============================================================================
