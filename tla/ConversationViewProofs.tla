----------------------- MODULE ConversationViewProofs ------------------------
(***************************************************************************)
(* Proofs about ConversationView, for every number of turns, requests and  *)
(* approvals: while no app-server begins to count anew, an answer goes to  *)
(* the request of Codex that the user has seen, however old the page is.   *)
(***************************************************************************)
EXTENDS ConversationView, TLAPS

-----------------------------------------------------------------------------
\* Requests and responses under way.  (Of the turns they are about nothing is needed here,
\* hence sequences of any elements.)

IsSequence(s) == \E T : s \in Seq(T)

LEMMA Appended ==
  ASSUME NEW s, IsSequence(s), NEW x
  PROVE  /\ IsSequence(Append(s, x))
         /\ \A i \in DOMAIN Append(s, x) :
              Append(s, x)[i] = x \/ \E j \in DOMAIN s : Append(s, x)[i] = s[j]
<1>1. PICK T : s \in Seq(T)
  BY DEF IsSequence
<1>2. s \in Seq(T \cup {x})
  BY <1>1
<1>3. Append(s, x) \in Seq(T \cup {x})
  BY <1>2
<1>4. QED
  BY <1>2, <1>3 DEF IsSequence

\* Appending a sequence of at most one element.
LEMMA AppendedOne ==
  ASSUME NEW s, IsSequence(s), NEW x
  PROVE  s \o <<x>> = Append(s, x) /\ s \o <<>> = s
<1>1. PICK T : s \in Seq(T)
  BY DEF IsSequence
<1>2. s \in Seq(T \cup {x}) /\ <<x>> \in Seq(T \cup {x})
  BY <1>1
<1>3. QED
  BY <1>2

LEMMA Single ==
  ASSUME NEW x
  PROVE  IsSequence(<<x>>) /\ \A i \in DOMAIN <<x>> : <<x>>[i] = x
<1>1. <<x>> \in Seq({x})
  OBVIOUS
<1> DEFINE s == <<x>>
<1>2. s \in Seq({x})
  BY <1>1
<1> HIDE DEF s
<1>3. IsSequence(s) /\ \A i \in DOMAIN s : s[i] = x
  BY <1>2 DEF IsSequence
<1>4. QED
  BY <1>3 DEF s

LEMMA Removed ==
  ASSUME NEW s, IsSequence(s), NEW k \in DOMAIN s
  PROVE  /\ IsSequence(RemoveAt(s, k))
         /\ \A i \in DOMAIN RemoveAt(s, k) : \E j \in DOMAIN s : RemoveAt(s, k)[i] = s[j]
<1>1. PICK T : s \in Seq(T)
  BY DEF IsSequence
<1> DEFINE a == SubSeq(s, 1, k - 1)
           b == SubSeq(s, k + 1, Len(s))
<1>2. k \in 1..Len(s) /\ Len(s) \in Nat
  BY <1>1
<1>3. /\ a \in Seq(T) /\ Len(a) = k - 1 /\ \A i \in 1..k - 1 : a[i] = s[i]
      /\ b \in Seq(T) /\ Len(b) = Len(s) - k /\ \A i \in 1..Len(s) - k : b[i] = s[k + i]
  <2>1. a \in Seq(T) /\ Len(a) = k - 1 /\ \A i \in 1..k - 1 : a[i] = s[i]
    BY <1>1, <1>2
  <2>2. b \in Seq(T) /\ Len(b) = Len(s) - k /\ \A i \in 1..Len(s) - k : b[i] = s[k + i]
    BY <1>1, <1>2
  <2> QED
    BY <2>1, <2>2
<1>4. RemoveAt(s, k) = a \o b
  BY DEF RemoveAt
<1> HIDE DEF a, b
<1>5. /\ a \o b \in Seq(T) /\ Len(a \o b) = Len(s) - 1
      /\ \A i \in 1..Len(s) - 1 : (a \o b)[i] = IF i <= k - 1 THEN a[i] ELSE b[i - (k - 1)]
  <2>1. a \in Seq(T) /\ b \in Seq(T) /\ Len(a) = k - 1 /\ Len(a) + Len(b) = Len(s) - 1
    BY <1>2, <1>3
  <2>2. a \o b \in Seq(T) /\ Len(a \o b) = Len(s) - 1
    BY <2>1
  <2>3. \A i \in 1..Len(a) + Len(b) : (a \o b)[i] = IF i <= Len(a) THEN a[i] ELSE b[i - Len(a)]
    BY <2>1
  <2> QED
    BY <2>1, <2>2, <2>3
<1>6. \A i \in 1..Len(s) - 1 : \E j \in 1..Len(s) : (a \o b)[i] = s[j]
  <2> SUFFICES ASSUME NEW i \in 1..Len(s) - 1
               PROVE  \E j \in 1..Len(s) : (a \o b)[i] = s[j]
    OBVIOUS
  <2>1. CASE i <= k - 1
    BY <1>2, <1>3, <1>5, <2>1
  <2>2. CASE i > k - 1
    <3> DEFINE m == i - (k - 1)
    <3>1. m \in 1..Len(s) - k /\ k + m = i + 1 /\ i + 1 \in 1..Len(s)
      BY <1>2, <2>2
    <3>2. (a \o b)[i] = b[m]
      BY <1>2, <1>5, <2>2
    <3> HIDE DEF m
    <3>3. b[m] = s[k + m]
      BY <1>3, <3>1
    <3>4. QED
      BY <3>1, <3>2, <3>3
  <2>3. i \in Int /\ k \in Int
    BY <1>2
  <2>4. i <= k - 1 \/ i > k - 1
    BY <2>3
  <2>5. QED
    BY <2>1, <2>2, <2>4
<1>7. DOMAIN (a \o b) = 1..Len(s) - 1 /\ DOMAIN s = 1..Len(s)
  BY <1>1, <1>5
<1>8. QED
  BY <1>4, <1>5, <1>6, <1>7 DEF IsSequence

-----------------------------------------------------------------------------
\* The ids of the requests for approval

\* Without a new app-server the ids of Codex count the requests.
Numbered(r) == r.n = r.id + 1

\* What tells of a request for approval has its number: an entry of the log, a set of
\* events, an answer on its way to Codex, and a response with events.
TrueEntry(e) == e.k = "required" => Numbered(e)
TrueEvents(es) == \A x \in es : TrueEntry(x.e)
TrueRequest(q) == q.k = "approve" => Numbered(q)
TrueReply(r) ==
  /\ r = [q |-> r.q, ok |-> r.ok, data |-> r.data]
  /\ r.ok /\ r.q.k = "events" => TrueEvents(r.data.events)

TrueLog == IsSequence(log) /\ \A i \in DOMAIN log : TrueEntry(log[i])
TrueWire == IsSequence(wire) /\ \A i \in DOMAIN wire : TrueRequest(wire[i])
TrueReplies == IsSequence(replies) /\ \A i \in DOMAIN replies : TrueReply(replies[i])

\* What the server, the network and the page know of the requests.
Asked ==
  /\ ids = asked /\ asked \in Nat
  /\ \A p \in pending : Numbered(p)
  /\ TrueLog /\ crossed = {}
View == Asked /\ TrueWire /\ TrueReplies /\ TrueEvents(events)

\* An app-server that begins to count anew is excluded, as in the property.
Numbering == "exit" \notin env => View

-----------------------------------------------------------------------------
LEMMA EventsAreTrue == ASSUME Asked, NEW t PROVE TrueEvents(EventsOf(t))
BY DEF Asked, TrueLog, TrueEvents, EventsOf

\* The server adds an entry to its log.
LEMMA LogGrows ==
  ASSUME TrueLog, NEW e, TrueEntry(e), log' = Append(log, e)
  PROVE  TrueLog'
BY Appended DEF TrueLog

\* An answer reaches the request it was meant for.
LEMMA ApproveKeeps ==
  ASSUME Asked, NEW t, NEW id, NEW n, n = id + 1, approve(t, id, n)
  PROVE  Asked'
<1>1. /\ log' = Append(log, [t |-> t, k |-> "resolved", id |-> id, n |-> n])
      /\ pending' \subseteq pending /\ UNCHANGED <<ids, asked>>
      /\ crossed' = crossed \cup {p.n : p \in {r \in Answered(id) : r.n # n}}
  BY DEF approve
<1>2. TrueEntry([t |-> t, k |-> "resolved", id |-> id, n |-> n])
  BY DEF TrueEntry
<1>3. TrueLog'
  BY <1>1, <1>2, LogGrows DEF Asked
<1>4. \A p \in Answered(id) : p.n = n
  BY DEF Answered, Asked, Numbered
<1>5. QED
  BY <1>1, <1>3, <1>4 DEF Asked

LEMMA EndTurnKeeps == ASSUME Asked, NEW t, EndTurn(t) PROVE Asked'
<1>1. pending' \subseteq pending /\ UNCHANGED <<log, ids, asked, crossed>>
  BY DEF EndTurn
<1>2. QED
  BY <1>1 DEF Asked, TrueLog

\* The server handles a request: its response tells the truth.
LEMMA HandleKeeps == ASSUME View, Handle PROVE View'
<1>1. PICK i \in DOMAIN wire :
        /\ Reply(i, Accepts(wire[i]), Response(wire[i]))
        /\ IF Accepts(wire[i]) THEN Perform(wire[i]) ELSE UNCHANGED <<server, notice, crossed>>
  BY DEF Handle
<1>2. UNCHANGED events
  BY DEF Handle, page
<1>3. Asked'
  <2>1. CASE wire[i].k = "approve" /\ approve(wire[i].t, wire[i].id, wire[i].n)
    BY <2>1, ApproveKeeps DEF View, TrueWire, TrueRequest, Numbered
  <2>2. CASE EndTurn(wire[i].t)
    BY <2>2, EndTurnKeeps DEF View
  <2>3. CASE UNCHANGED <<approvals, crossed>>
    BY <2>3 DEF View, Asked, TrueLog, approvals
  <2>4. QED
    BY <1>1, <2>1, <2>2, <2>3 DEF Perform, server
<1>4. TrueWire'
  <2>1. wire' = RemoveAt(wire, i)
    BY <1>1 DEF Reply
  <2>2. QED
    BY <2>1, Removed DEF View, TrueWire
<1>5. TrueReplies'
  <2> DEFINE new == [q |-> wire[i], ok |-> Accepts(wire[i]), data |-> Response(wire[i])]
  <2>1. replies' = Append(replies, new)
    BY <1>1 DEF Reply
  <2>2. wire[i].k = "events" => TrueEvents(Response(wire[i]).events)
    BY EventsAreTrue DEF Response, Nothing, View
  <2>3. TrueReply(new)
    BY <2>2 DEF TrueReply
  <2> HIDE DEF new
  <2>4. QED
    BY <2>1, <2>3, Appended DEF View, TrueReplies
<1>6. QED
  BY <1>2, <1>3, <1>4, <1>5 DEF View

\* The page asks for something: not for the answer to a request of Codex.
LEMMA AskKeeps ==
  ASSUME View, NEW q, q.k # "approve", wire' = Append(wire, q),
         UNCHANGED <<approvals, crossed, replies, events>>
  PROVE  View'
<1>1. TrueWire'
  BY Appended DEF View, TrueWire, TrueRequest
<1>2. QED
  BY <1>1 DEF View, Asked, TrueLog, TrueReplies, approvals

\* The user decides what the page asks for.
LEMMA DecideKeeps == ASSUME View, decide PROVE View'
<1>1. PICK e \in pendingApproval :
        /\ wire' = Append(wire, [Get("approve", e.t, TRUE, TRUE) EXCEPT !.id = e.id, !.n = e.n])
        /\ UNCHANGED <<approvals, crossed, replies, events>>
  BY DEF decide, Action, server
<1>2. PICK x \in events : x.e.k = "required" /\ e = x.e
  BY <1>1 DEF pendingApproval, Latest
<1>3. Numbered(e)
  BY <1>2 DEF View, TrueEvents, TrueEntry
<1> DEFINE q == [Get("approve", e.t, TRUE, TRUE) EXCEPT !.id = e.id, !.n = e.n]
<1>4. TrueRequest(q)
  BY <1>3 DEF TrueRequest, Numbered, Get
<1> HIDE DEF q
<1>5. TrueWire'
  BY <1>1, <1>4, Appended DEF View, TrueWire, q
<1>6. QED
  BY <1>1, <1>5 DEF View, Asked, TrueLog, TrueReplies, approvals

\* What the page does with a response.
LEMMA ResponseTaken ==
  ASSUME NEW q, NEW data, Succeeds(q, data), IsSequence(wire)
  PROVE  /\ \/ wire' = wire
            \/ \E p : p.k # "approve" /\ wire' = Append(wire, p)
         /\ \/ events' \in {events, {}}
            \/ q.k = "events" /\ events' = data.events
<1>1. \A k \in {"turns", "events", "older", "clear"} :
        \A t, all, user : Get(k, t, all, user).k = k
  BY DEF Get
<1>2. wire \o <<>> = wire /\ \A p : wire \o <<p>> = Append(wire, p)
  BY AppendedOne
<1>3. CASE q.k = "turns"
  <2>1. CASE q.all /\ shown' # <<>>
    <3>1. wire' = wire \o <<Get("events", Relevant(shown'), FALSE, q.user)>> /\ events' = events
      BY <1>3, <2>1 DEF Succeeds, Then
    <3>2. QED
      BY <1>1, <1>2, <3>1
  <2>2. CASE ~(q.all /\ shown' # <<>>)
    <3>1. wire' = wire \o <<>> /\ events' \in {events, {}}
      BY <1>3, <2>2 DEF Succeeds, Then
    <3>2. QED
      BY <1>2, <3>1
  <2>3. QED
    BY <2>1, <2>2
<1>4. CASE q.k = "events"
  BY <1>2, <1>4 DEF Succeeds, Then
<1>5. CASE q.k = "older"
  BY <1>2, <1>5 DEF Succeeds, Then
<1>6. CASE q.k = "clear"
  <2>1. wire' = wire \o <<Get("turns", 0, TRUE, TRUE)>> /\ events' = {}
    BY <1>6 DEF Succeeds, Then, refreshAll
  <2>2. QED
    BY <1>1, <1>2, <2>1
<1>7. CASE q.k \notin {"turns", "events", "older", "clear"}
  <2>1. wire' = wire \o <<Get("turns", 0, q.all, TRUE)>> /\ events' = events
    BY <1>7 DEF Succeeds, Then
  <2>2. QED
    BY <1>1, <1>2, <2>1
<1>8. QED
  BY <1>3, <1>4, <1>5, <1>6, <1>7

\* A response arrives.  Events are taken as they come; what the page asks for next is not
\* an answer.
LEMMA ReceiveKeeps == ASSUME View, Receive PROVE View'
<1>1. PICK i \in DOMAIN replies :
        /\ replies' = RemoveAt(replies, i)
        /\ IF replies[i].ok THEN Succeeds(replies[i].q, replies[i].data)
           ELSE UNCHANGED <<wire, shown, cursor, events>>
  BY DEF Receive
<1>2. UNCHANGED <<approvals, crossed>>
  BY DEF Receive, server
<1>3. TrueReplies'
  BY <1>1, Removed DEF View, TrueReplies
<1>4. Asked'
  BY <1>2 DEF View, Asked, TrueLog, approvals
<1>5. TrueWire' /\ TrueEvents(events)'
  <2>1. CASE ~replies[i].ok
    BY <1>1, <2>1 DEF View, TrueWire
  <2>2. CASE replies[i].ok
    <3>1. Succeeds(replies[i].q, replies[i].data)
      BY <1>1, <2>2
    <3>2. /\ \/ wire' = wire
             \/ \E q : q.k # "approve" /\ wire' = Append(wire, q)
          /\ \/ events' \in {events, {}}
             \/ replies[i].q.k = "events" /\ events' = replies[i].data.events
      BY <3>1, ResponseTaken DEF View, TrueWire
    <3>3. TrueWire'
      <4>1. CASE wire' = wire
        BY <4>1 DEF View, TrueWire
      <4>2. ASSUME NEW q, q.k # "approve", wire' = Append(wire, q) PROVE TrueWire'
        BY <4>2, Appended DEF View, TrueWire, TrueRequest
      <4>3. QED
        BY <3>2, <4>1, <4>2
    <3>4. TrueEvents(events')
      BY <2>2, <3>2 DEF View, TrueEvents, TrueReplies, TrueReply
    <3>5. QED
      BY <3>3, <3>4 DEF TrueEvents
  <2>3. QED
    BY <2>1, <2>2
<1>6. QED
  BY <1>3, <1>4, <1>5 DEF View

\* A request or a response is lost: the page is told of a failure.
LEMMA LoseKeeps == ASSUME View, Lose PROVE View'
<1>1. UNCHANGED <<approvals, crossed, events>>
  BY DEF Lose, server, page
<1>2. TrueWire'
  <2>1. CASE wire # <<>> /\ Reply(1, FALSE, Nothing)
    <3>1. 1 \in DOMAIN wire
      BY <2>1 DEF View, TrueWire, IsSequence
    <3>2. wire' = RemoveAt(wire, 1)
      BY <2>1 DEF Reply
    <3>3. QED
      BY <3>1, <3>2, Removed DEF View, TrueWire
  <2>2. CASE wire' = wire
    BY <2>2 DEF View, TrueWire
  <2>3. QED
    BY <2>1, <2>2 DEF Lose
<1>3. TrueReplies'
  <2>1. CASE Reply(1, FALSE, Nothing)
    <3> DEFINE new == [q |-> wire[1], ok |-> FALSE, data |-> Nothing]
    <3>1. replies' = Append(replies, new) /\ TrueReply(new)
      BY <2>1 DEF Reply, TrueReply
    <3> HIDE DEF new
    <3>2. QED
      BY <3>1, Appended DEF View, TrueReplies
  <2>2. ASSUME NEW i \in DOMAIN replies, replies' = [replies EXCEPT ![i].ok = FALSE]
        PROVE  TrueReplies'
    <3>1. PICK T : replies \in Seq(T)
      BY DEF View, TrueReplies, IsSequence
    <3> DEFINE new == [q |-> replies[i].q, ok |-> FALSE, data |-> replies[i].data]
    <3>2. TrueReply(new) /\ TrueReply(replies[i])
      BY DEF TrueReply, View, TrueReplies
    <3>3. [replies[i] EXCEPT !.ok = FALSE] = new
      BY <3>2 DEF TrueReply
    <3>4. replies' = [replies EXCEPT ![i] = new]
      BY <2>2, <3>3
    <3> HIDE DEF new
    <3>5. replies' \in Seq(T \cup {new}) /\ DOMAIN replies' = DOMAIN replies
      BY <3>1, <3>4
    <3>6. \A j \in DOMAIN replies : replies'[j] = IF j = i THEN new ELSE replies[j]
      BY <3>1, <3>4
    <3>7. QED
      BY <3>2, <3>5, <3>6 DEF View, TrueReplies, IsSequence
  <2>3. CASE replies' = replies
    BY <2>3 DEF View, TrueReplies
  <2>4. QED
    BY <2>1, <2>2, <2>3 DEF Lose
<1>4. Asked'
  BY <1>1 DEF View, Asked, TrueLog, approvals
<1>5. QED
  BY <1>1, <1>2, <1>3, <1>4 DEF View

\* What happens without the page: Codex asks, another client decides, a turn ends.
LEMMA TurnKeeps ==
  ASSUME View, "exit" \notin env, NEW t \in DOMAIN turns, TurnStep(t)
  PROVE  View'
<1>1. UNCHANGED <<wire, replies, events>>
  BY DEF TurnStep, Dispatch, AskApproval, Finish, Exit, OtherDecides, OtherStops,
         AnswerWithFiles, registerBrowserOutputs, Outside, page
<1>2. Asked'
  <2>1. CASE Dispatch(t) \/ AnswerWithFiles(t) \/ \E ok \in BOOLEAN : registerBrowserOutputs(t, ok)
    <3>1. UNCHANGED <<approvals, crossed>>
      BY <2>1 DEF Dispatch, AnswerWithFiles, registerBrowserOutputs
    <3>2. QED
      BY <3>1 DEF View, Asked, TrueLog, approvals
  <2>2. CASE AskApproval(t)
    <3> DEFINE e == [t |-> t, k |-> "required", id |-> ids, n |-> asked + 1]
    <3>1. /\ asked' = asked + 1 /\ ids' = ids + 1 /\ crossed' = crossed
          /\ pending' = pending \cup {[id |-> ids, n |-> asked + 1]} /\ log' = Append(log, e)
      BY <2>2 DEF AskApproval
    <3>2. TrueEntry(e)
      BY DEF View, Asked, TrueEntry, Numbered
    <3> HIDE DEF e
    <3>3. TrueLog'
      BY <3>1, <3>2, LogGrows DEF View, Asked
    <3>4. \A p \in pending' : Numbered(p)
      BY <3>1 DEF View, Asked, Numbered
    <3>5. QED
      BY <3>1, <3>3, <3>4 DEF View, Asked
  <2>3. CASE Finish(t) \/ OtherStops(t)
    BY <2>3, EndTurnKeeps DEF View, Finish, OtherStops
  <2>4. CASE OtherDecides(t)
    <3>1. PICK x \in Latest(EventsOf(t)) : x.e.k = "required" /\ approve(t, x.e.id, x.e.n)
      BY <2>4 DEF OtherDecides
    <3>2. x.e.n = x.e.id + 1
      BY <3>1, EventsAreTrue DEF View, Latest, TrueEvents, TrueEntry, Numbered
    <3>3. QED
      BY <3>1, <3>2, ApproveKeeps DEF View
  <2>5. CASE Exit(t)
    BY <2>5 DEF Exit, Fault
  <2>6. QED
    BY <2>1, <2>2, <2>3, <2>4, <2>5 DEF TurnStep
<1>3. QED
  BY <1>1, <1>2 DEF View, TrueWire, TrueReplies

-----------------------------------------------------------------------------
LEMMA InitNumbering == Init => Numbering
<1> SUFFICES ASSUME Init PROVE View
  BY DEF Numbering
<1>1. Asked
  BY DEF Init, Asked, TrueLog, IsSequence
<1>2. TrueWire
  <2>1. wire = <<refreshAll(FALSE)>>
    BY DEF Init
  <2>2. IsSequence(wire) /\ \A i \in DOMAIN wire : wire[i] = refreshAll(FALSE)
    BY <2>1, Single
  <2>3. refreshAll(FALSE).k # "approve"
    BY DEF refreshAll, Get
  <2>4. QED
    BY <2>2, <2>3 DEF TrueWire, TrueRequest
<1>3. TrueReplies /\ TrueEvents(events)
  BY DEF Init, TrueReplies, TrueEvents, IsSequence
<1>4. QED
  BY <1>1, <1>2, <1>3 DEF View

LEMMA EnvStays == [Next]_vars => env' = env
BY DEF Next, vars, Refresh, Notified, Handle, Receive, Lose, Create, decide, stop, clearContext,
       loadOlder, Action, TurnStep, Dispatch, AskApproval, Finish, Exit, OtherDecides, OtherStops,
       AnswerWithFiles, registerBrowserOutputs, Outside

LEMMA StepNumbering == Numbering /\ [Next]_vars => Numbering'
<1> SUFFICES ASSUME View, "exit" \notin env, [Next]_vars PROVE View'
  BY EnvStays DEF Numbering
<1>1. CASE UNCHANGED vars
  BY <1>1 DEF vars, server, approvals, network, page, View, Asked, TrueLog, TrueWire, TrueReplies
<1>2. CASE Refresh
  <2>1. /\ wire' = Append(wire, refreshAll(FALSE)) /\ refreshAll(FALSE).k # "approve"
        /\ UNCHANGED <<approvals, crossed, replies, events>>
    BY <1>2 DEF Refresh, server, refreshAll, Get
  <2>2. QED
    BY <2>1, AskKeeps
<1>3. CASE Notified \/ Create
  <2>1. UNCHANGED <<approvals, crossed, wire, replies, events>>
    BY <1>3 DEF Notified, Create, server, Outside, page
  <2>2. QED
    BY <2>1 DEF View, Asked, TrueLog, TrueWire, TrueReplies, approvals
<1>4. CASE Handle
  BY <1>4, HandleKeeps
<1>5. CASE Receive
  BY <1>5, ReceiveKeeps
<1>6. CASE Lose
  BY <1>6, LoseKeeps
<1>7. CASE decide
  BY <1>7, DecideKeeps
<1>8. CASE stop
  <2>1. PICK t : /\ wire' = Append(wire, Get("stop", t, FALSE, TRUE))
                 /\ UNCHANGED <<approvals, crossed, replies, events>>
    BY <1>8 DEF stop, Action, server
  <2>2. Get("stop", t, FALSE, TRUE).k # "approve"
    BY DEF Get
  <2>3. QED
    BY <2>1, <2>2, AskKeeps
<1>9. CASE clearContext
  <2>1. /\ wire' = Append(wire, Get("clear", 0, TRUE, TRUE))
        /\ UNCHANGED <<approvals, crossed, replies, events>>
    BY <1>9 DEF clearContext, Action, server
  <2>2. Get("clear", 0, TRUE, TRUE).k # "approve"
    BY DEF Get
  <2>3. QED
    BY <2>1, <2>2, AskKeeps
<1>10. CASE loadOlder
  <2>1. /\ wire' = Append(wire, Get("older", cursor, FALSE, FALSE))
        /\ UNCHANGED <<approvals, crossed, replies, events>>
    BY <1>10 DEF loadOlder, server, page
  <2>2. Get("older", cursor, FALSE, FALSE).k # "approve"
    BY DEF Get
  <2>3. QED
    BY <2>1, <2>2, AskKeeps
<1>11. ASSUME NEW t \in DOMAIN turns, TurnStep(t)
       PROVE  View'
  BY <1>11, TurnKeeps
<1>12. QED
  BY <1>1, <1>2, <1>3, <1>4, <1>5, <1>6, <1>7, <1>8, <1>9, <1>10, <1>11 DEF Next

THEOREM NumberingInvariant == Spec => []Numbering
BY InitNumbering, StepNumbering, PTL DEF Spec

\* An answer goes to the request of Codex that the user has seen: also from a page that is
\* not up to date, after other clients decided, and with several requests at once.
THEOREM DecidedAsShownCorrect == Spec => []DecidedAsShown
<1>1. Numbering => DecidedAsShown
  BY DEF Numbering, View, Asked, DecidedAsShown
<1>2. QED
  BY <1>1, NumberingInvariant, PTL
=============================================================================
