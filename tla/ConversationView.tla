-------------------------- MODULE ConversationView ---------------------------
(***************************************************************************)
(* The conversation page: what it shows of the turns, and the approvals it *)
(* asks the user for.                                                      *)
(*                                                                         *)
(* The page keeps a list of turns and the events of one of them, merged    *)
(* from responses to requests that it sends every 30 seconds, when the     *)
(* event stream tells of a change, and after what the user does.  Requests *)
(* and responses take their time; the server has moved on meanwhile: other *)
(* clients decide and stop, Codex asks again, the app-server is replaced.  *)
(***************************************************************************)
EXTENDS Naturals, FiniteSets, Sequences, SequencesExt

CONSTANTS
  PageSize,  \* turns in a response, 50 in the code
  Scenario,  \* sets of events: a behaviour performs those of one of them
  MaxTurns,  \* bound: turns
  MaxAsks,   \* bound: approvals Codex asks for
  MaxWire,   \* bound: requests under way when the page sends one by itself
  MaxFaults  \* bound: losses, exits, and what other clients do

ASSUME ViewAssumption ==
  /\ PageSize \in Nat \ {0} /\ MaxTurns \in Nat \ {0}
  /\ MaxAsks \in Nat /\ MaxWire \in Nat \ {0} /\ MaxFaults \in Nat

VARIABLES
  \* the server
  turns,    \* missions.status, by enqueue_sequence
  floor,    \* conversation_started_after_sequence
  log,      \* mission_events about approvals; their ids are the indices
  pending,  \* requests of Codex without an answer: id, and which it is of all
  ids,      \* ids the app-server has used up
  asked,    \* approvals asked for
  filing,   \* turns whose output files are being registered
  files,    \* turns with registered outputs
  \* between the server and the page
  notice,   \* the event stream tells of a change
  wire,     \* requests that the server has not handled
  replies,  \* its responses
  \* the page
  shown,    \* turnsState, newest first
  cursor,   \* nextCursor, 0 if null
  events,   \* eventsState
  debounce, \* refreshDebounce is set
  busy,     \* an action of the user is under way
  \* history and bounds
  crossed,  \* answers Codex got that were meant for another request
  faults,
  env

approvals == <<log, pending, ids, asked>>
outputs == <<filing, files>>
server == <<turns, floor, approvals, outputs>>
network == <<notice, wire, replies>>
page == <<shown, cursor, events, debounce, busy>>
vars == <<server, network, page, crossed, faults, env>>

Turn == 1..MaxTurns
Status == {"queued", "running", "awaiting", "done"}
Shown == [t : Turn, st : Status, f : BOOLEAN]
Entry == [t : Turn, k : {"required", "resolved"}, id : Nat, n : 0..MaxAsks]

\* Requests: GET turns (all: for refreshAll, user: awaited by the user's action),
\* GET turns before a cursor, GET events of a turn, and POSTs about a turn.
Request == [k : {"turns", "events", "older", "approve", "stop", "clear"}, t : 0..MaxTurns,
            id : Nat, n : 0..MaxAsks, all : BOOLEAN, user : BOOLEAN]
Get(k, t, all, user) == [k |-> k, t |-> t, id |-> 0, n |-> 0, all |-> all, user |-> user]

TypeOK ==
  /\ turns \in Seq(Status) /\ Len(turns) <= MaxTurns /\ floor \in 0..Len(turns)
  /\ log \in Seq(Entry)
  /\ ids \in Nat /\ asked \in 0..MaxAsks
  /\ filing \subseteq Turn /\ files \subseteq Turn
  /\ shown \in Seq(Shown) /\ cursor \in 0..MaxTurns
  /\ wire \in Seq(Request) /\ \A i \in DOMAIN replies : replies[i].q \in Request
  /\ {notice, debounce, busy} \subseteq BOOLEAN
  /\ faults \in 0..MaxFaults /\ env \in Scenario

-----------------------------------------------------------------------------
\* Operators named ...Mutant are wrong on purpose: each stands for a plausible
\* slip in the operator after it.

Fault(f) == f \in env /\ faults < MaxFaults /\ faults' = faults + 1

Active == {"running", "awaiting"}
Working == {t \in DOMAIN turns : turns[t] \in Active}

\* turnPage: the newest turns before a cursor, less those that were cleared, each
\* with its files.
Newest(before) ==
  LET all == [i \in 1..(IF before - 1 < PageSize THEN before - 1 ELSE PageSize) |->
                [t |-> before - i, st |-> turns[before - i], f |-> before - i \in files]]
  IN  SelectSeq(all, LAMBDA x : x.t > floor)

\* The response of GET turns: nextCursor is given with a full page.
Nothing == [data |-> <<>>, next |-> 0, events |-> {}]
PageOf(before) ==
  LET data == Newest(before)
  IN  [Nothing EXCEPT !.data = data,
                      !.next = IF Len(data) = PageSize THEN Last(data).t ELSE 0]

\* The events of a turn.  They come ordered by their ids, which the page compares.
EventsOf(t) == {[ev |-> i, e |-> log[i]] : i \in {j \in DOMAIN log : log[j].t = t}}
Latest(es) == {x \in es : \A y \in es : y.ev <= x.ev}

-----------------------------------------------------------------------------
\* The page

activeTurn == SelectSeq(shown, LAMBDA x : x.st \in Active)

\* pendingApproval: the last request in the events, unless it was resolved, while
\* the turn at work waits for an approval.
ResolvedOnceMutant(required) == \E x \in events : x.e.k = "resolved"
Resolved(required) == \E x \in events : x.e.k = "resolved" /\ x.ev > required.ev

pendingApproval ==
  IF activeTurn = <<>> \/ Head(activeTurn).st # "awaiting" THEN {}
  ELSE {x.e : x \in {r \in Latest({y \in events : y.e.k = "required"}) : ~Resolved(r)}}

\* refreshTurns puts the fresh turns before those that only the page knows.
KnownFirstMutant(data) ==
  SelectSeq(data, LAMBDA x : \A i \in DOMAIN shown : shown[i].t # x.t) \o shown
Merged(data) ==
  data \o SelectSeq(shown, LAMBDA x : \A i \in DOMAIN data : data[i].t # x.t)

refreshAll(user) == Get("turns", 0, TRUE, user)

\* refreshEvents: those of the turn at work, or of the newest.
Relevant(list) ==
  LET working == SelectSeq(list, LAMBDA x : x.st \in Active)
  IN  IF working # <<>> THEN Head(working).t ELSE Head(list).t

\* The page asks by itself: every 30 seconds, or when `debounce' has passed.
\* (While MaxWire requests are under way it only waits: a bound.)
Refresh ==
  /\ Len(wire) + Len(replies) < MaxWire
  /\ wire' = Append(wire, refreshAll(FALSE))
  /\ debounce' \in {debounce, FALSE}
  /\ UNCHANGED <<server, notice, replies, shown, cursor, events, busy, crossed, faults, env>>

\* The event stream tells of a turn.
Notified ==
  /\ notice /\ notice' = FALSE
  /\ debounce' = TRUE
  /\ UNCHANGED <<server, wire, replies, shown, cursor, events, busy, crossed, faults, env>>

Action(request) ==
  /\ ~busy /\ busy' = TRUE
  /\ wire' = Append(wire, request)
  /\ UNCHANGED <<server, notice, replies, shown, cursor, events, debounce, crossed, faults, env>>

\* The buttons of the user.
decide == \E e \in pendingApproval :
  Action([Get("approve", e.t, TRUE, TRUE) EXCEPT !.id = e.id, !.n = e.n])

stop == "stop" \in env /\ \E i \in DOMAIN shown :
  shown[i].st # "done" /\ Action(Get("stop", shown[i].t, FALSE, TRUE))

clearContext ==
  /\ "clear" \in env /\ activeTurn = <<>>
  /\ Action(Get("clear", 0, TRUE, TRUE))

loadOlder ==
  /\ "older" \in env /\ cursor # 0
  /\ \A i \in DOMAIN wire : wire[i].k # "older"
  /\ \A i \in DOMAIN replies : replies[i].q.k # "older"
  /\ wire' = Append(wire, Get("older", cursor, FALSE, FALSE))
  /\ UNCHANGED <<server, notice, replies, page, crossed, faults, env>>

\* A request succeeds: the page takes what it says, and may ask for more.
Then(qs) == wire' = wire \o qs
Succeeds(q, data) ==
  CASE q.k = "turns" ->
         /\ shown' = Merged(data.data)
         /\ cursor' = IF Len(shown') = Len(data.data) THEN data.next ELSE cursor
         /\ IF q.all /\ shown' # <<>>
              THEN /\ Then(<<Get("events", Relevant(shown'), FALSE, q.user)>>)
                   /\ UNCHANGED <<events, busy>>
              ELSE /\ events' = IF q.all THEN {} ELSE events
                   /\ busy' = (busy /\ ~q.user) /\ Then(<<>>)
    [] q.k = "events" ->
         /\ events' = data.events /\ busy' = (busy /\ ~q.user)
         /\ Then(<<>>) /\ UNCHANGED <<shown, cursor>>
    [] q.k = "older" ->
         /\ shown' = shown \o
                     SelectSeq(data.data, LAMBDA x : \A i \in DOMAIN shown : shown[i].t # x.t)
         /\ cursor' = IF data.data = <<>> THEN 0 ELSE data.next
         /\ Then(<<>>) /\ UNCHANGED <<events, busy>>
    [] q.k = "clear" ->
         /\ shown' = <<>> /\ cursor' = 0 /\ events' = {}
         /\ Then(<<refreshAll(TRUE)>>) /\ UNCHANGED busy
    [] OTHER ->
         Then(<<Get("turns", 0, q.all, TRUE)>>) /\ UNCHANGED <<shown, cursor, events, busy>>

\* The responses come in the order they were sent, or not.
Receive ==
  \E i \in DOMAIN replies :
    /\ i = 1 \/ "reorder" \in env
    /\ replies' = RemoveAt(replies, i)
    /\ IF replies[i].ok THEN Succeeds(replies[i].q, replies[i].data)
       ELSE /\ busy' = (busy /\ ~replies[i].q.user)
            /\ UNCHANGED <<wire, shown, cursor, events>>
    /\ UNCHANGED <<server, notice, debounce, crossed, faults, env>>

-----------------------------------------------------------------------------
\* The server

Reply(i, ok, data) ==
  /\ wire' = RemoveAt(wire, i)
  /\ replies' = Append(replies, [q |-> wire[i], ok |-> ok, data |-> data])

\* Codex matches an answer by the id of its request.
AnyRequestMutant(id) == pending
Answered(id) == {p \in pending : p.id = id}

\* An event or a change of a turn is published on the event stream.
publish == notice' = TRUE

\* approve of turn t: the request id is taken as it comes.
approve(t, id, n) ==
  /\ turns' = [turns EXCEPT ![t] = "running"]
  /\ log' = Append(log, [t |-> t, k |-> "resolved", id |-> id, n |-> n])
  /\ pending' = pending \ Answered(id)
  /\ crossed' = crossed \cup {p.n : p \in {r \in Answered(id) : r.n # n}}
  /\ publish
  /\ UNCHANGED <<floor, ids, asked, outputs>>

\* A turn ends: completed by Codex, stopped or cancelled.
EndTurn(t) ==
  /\ turns' = [turns EXCEPT ![t] = "done"]
  /\ pending' = IF turns[t] \in Active THEN {} ELSE pending
  /\ publish
  /\ UNCHANGED <<floor, log, ids, asked, outputs, crossed>>

\* A request is refused, or has a response.
Accepts(q) ==
  CASE q.k = "approve" -> turns[q.t] = "awaiting"
    [] q.k = "stop" -> turns[q.t] # "done"
    [] q.k = "clear" -> \A t \in DOMAIN turns : turns[t] = "done"
    [] OTHER -> TRUE

Response(q) ==
  CASE q.k = "turns" -> PageOf(Len(turns) + 1)
    [] q.k = "older" -> PageOf(q.t)
    [] q.k = "events" -> [Nothing EXCEPT !.events = EventsOf(q.t)]
    [] OTHER -> Nothing

\* What a request does that is accepted.
Perform(q) ==
  \/ q.k = "approve" /\ approve(q.t, q.id, q.n)
  \/ q.k = "stop" /\ EndTurn(q.t)
  \/ /\ q.k = "clear" /\ floor' = Len(turns)
     /\ UNCHANGED <<turns, approvals, outputs, notice, crossed>>
  \/ /\ q.k \in {"turns", "older", "events"}
     /\ UNCHANGED <<server, notice, crossed>>

\* The server handles a request.
Handle ==
  /\ \E i \in DOMAIN wire :
       /\ i = 1 \/ "reorder" \in env
       /\ Reply(i, Accepts(wire[i]), Response(wire[i]))
       /\ IF Accepts(wire[i]) THEN Perform(wire[i]) ELSE UNCHANGED <<server, notice, crossed>>
  /\ UNCHANGED <<page, faults, env>>

\* A request, a response or a notice is lost.
Lose ==
  /\ Fault("lost")
  /\ \/ wire # <<>> /\ Reply(1, FALSE, Nothing) /\ UNCHANGED notice
     \/ /\ \E i \in DOMAIN replies : replies' = [replies EXCEPT ![i].ok = FALSE]
        /\ UNCHANGED <<wire, notice>>
     \/ notice /\ notice' = FALSE /\ UNCHANGED <<wire, replies>>
  /\ UNCHANGED <<server, page, crossed, env>>

\* What happens without the page.  A turn comes from WhatsApp, a timer or another
\* client: never a page of them between two responses, unless the page is "away".
Known == IF shown = <<>> THEN floor ELSE CHOOSE m \in Turn :
  (\E i \in DOMAIN shown : shown[i].t = m) /\ \A i \in DOMAIN shown : shown[i].t <= m

Outside == UNCHANGED <<wire, replies, page, env>>

Create ==
  /\ "more" \in env /\ Len(turns) < MaxTurns
  /\ Len(turns) < Known + PageSize \/ "away" \in env
  /\ turns' = Append(turns, "queued") /\ publish
  /\ Outside /\ UNCHANGED <<floor, approvals, outputs, crossed, faults>>

Dispatch(t) ==
  /\ turns[t] = "queued" /\ Working = {} /\ \A u \in 1..t - 1 : turns[u] # "queued"
  /\ turns' = [turns EXCEPT ![t] = "running"] /\ publish
  /\ Outside /\ UNCHANGED <<floor, approvals, outputs, crossed, faults>>

\* The answer of a browser turn names files (item/completed); the turn may end
\* before they are registered.
AnswerWithFiles(t) ==
  /\ "files" \in env
  /\ turns[t] = "running" /\ t \notin filing \cup files
  /\ filing' = filing \cup {t} /\ publish
  /\ Outside /\ UNCHANGED <<turns, floor, approvals, files, crossed, faults>>

registerBrowserOutputs(t, ok) ==
  /\ t \in filing /\ filing' = filing \ {t}
  /\ files' = IF ok THEN files \cup {t} ELSE files
  /\ publish
  /\ Outside /\ UNCHANGED <<turns, floor, approvals, crossed, faults>>

\* Codex asks for an approval, and waits for the answer (handleServerRequest).
AskApproval(t) ==
  /\ "asks" \in env
  /\ turns[t] \in Active /\ asked < MaxAsks
  /\ pending # {} => "parallel" \in env
  /\ asked' = asked + 1 /\ ids' = ids + 1
  /\ pending' = pending \cup {[id |-> ids, n |-> asked + 1]}
  /\ turns' = [turns EXCEPT ![t] = "awaiting"]
  /\ log' = Append(log, [t |-> t, k |-> "required", id |-> ids, n |-> asked + 1])
  /\ publish
  /\ Outside /\ UNCHANGED <<floor, outputs, crossed, faults>>

Finish(t) ==
  /\ turns[t] = "running" /\ pending = {}
  /\ EndTurn(t)
  /\ Outside /\ UNCHANGED faults

\* The app-server is lost; its successor counts its requests from 0.
Exit(t) ==
  /\ Fault("exit")
  /\ turns[t] \in Active
  /\ turns' = [turns EXCEPT ![t] = "queued"]
  /\ pending' = {} /\ ids' = 0 /\ publish
  /\ Outside /\ UNCHANGED <<floor, log, asked, outputs, crossed>>

\* Another client decides: WhatsApp's approve takes the latest request.
OtherDecides(t) ==
  /\ Fault("other")
  /\ turns[t] = "awaiting"
  /\ \E x \in Latest(EventsOf(t)) : x.e.k = "required" /\ approve(t, x.e.id, x.e.n)
  /\ Outside

OtherStops(t) ==
  /\ Fault("other")
  /\ turns[t] # "done"
  /\ EndTurn(t)
  /\ Outside

-----------------------------------------------------------------------------
Init ==
  /\ turns = <<"queued">> /\ floor = 0
  /\ log = <<>> /\ pending = {} /\ ids = 0 /\ asked = 0
  /\ filing = {} /\ files = {}
  /\ notice = FALSE /\ replies = <<>>
  /\ wire = <<refreshAll(FALSE)>>
  /\ shown = <<>> /\ cursor = 0 /\ events = {}
  /\ debounce = FALSE /\ busy = FALSE
  /\ crossed = {} /\ faults = 0
  /\ env \in Scenario

TurnStep(t) ==
  \/ Dispatch(t) \/ AskApproval(t) \/ Finish(t) \/ Exit(t) \/ OtherDecides(t) \/ OtherStops(t)
  \/ AnswerWithFiles(t) \/ \E ok \in BOOLEAN : registerBrowserOutputs(t, ok)

Next ==
  \/ Refresh \/ Notified \/ Handle \/ Receive \/ Lose \/ Create
  \/ decide \/ stop \/ clearContext \/ loadOlder
  \/ \E t \in DOMAIN turns : TurnStep(t)

Spec == Init /\ [][Next]_vars

\* The page's interval fires, the server handles what it is asked, responses
\* arrive, and the user decides what the page asks for.
Fairness == WF_vars(Refresh) /\ WF_vars(Handle) /\ WF_vars(Receive) /\ WF_vars(decide)
FairSpec == Spec /\ Fairness

-----------------------------------------------------------------------------
\* Properties

\* Whatever was lost, in the end the page shows what is: the newest turns as they
\* are, with their files, and the others, or the way to them, without a hole.  (A page that misses
\* more turns than a response has keeps a hole; responses out of order can misplace
\* a turn for good, once a page of turns is newer.)
Accurate ==
  LET newest == Newest(Len(turns) + 1)
  IN  /\ IsPrefix(newest, shown)
      /\ \A i \in DOMAIN shown : shown[i].t = Len(turns) + 1 - i
      /\ cursor = 0 => shown = <<>> \/ Last(shown).t = floor + 1
      /\ cursor # 0 => Last(shown).t = cursor
CatchesUp == env \cap {"away", "reorder"} = {} => <>[]Accurate

\* Codex gets an answer to each request, by the user of one page: not always when
\* another client decides, requests overlap or begin to count anew, or the page
\* got an old response last.  A request then waits behind a turn that is running.
RequestsAnswered ==
  env \cap {"other", "parallel", "exit", "lost", "reorder"} = {} =>
    \A n \in 1..MaxAsks : (\E p \in pending : p.n = n) ~> ~\E p \in pending : p.n = n

\* An answer goes to the request the user has seen, also from a page that is not
\* up to date; but for an app-server that begins to count anew.
DecidedAsShown == "exit" \notin env => crossed = {}
=============================================================================
