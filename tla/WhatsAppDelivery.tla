--------------------------- MODULE WhatsAppDelivery ---------------------------
(***************************************************************************)
(* What WhatsAppService writes into the outbox about the turns: the notice *)
(* that a message was queued, the request for an approval, the result in   *)
(* chunks and files, and the answers to the user's control commands.       *)
(*                                                                         *)
(* A row of a turn is keyed by its ordinal and kind, and inserted OR       *)
(* IGNORE: what makes a result that is reported twice go out once also     *)
(* drops whatever finds its ordinal taken.  The turns are moved by the     *)
(* dispatcher and Codex, here by whatever TurnDispatch lets them do.       *)
(***************************************************************************)
EXTENDS Integers, FiniteSets

CONSTANTS
  Turn,       \* the turns
  Ours,       \* those that came from WhatsApp: they have a notice
  Chunks,     \* how many texts a result is split into
  Files,      \* how many files a result comes with
  Scenario,   \* sets of events: a behaviour performs those of one of them
  MaxAsks,    \* bound: approvals Codex asks for in one turn
  MaxEnds,    \* bound: ends after which a turn is not resumed
  MaxCommands \* bound: control commands of the user

ASSUME DeliveryAssumption ==
  /\ Ours \subseteq Turn
  /\ Chunks \in Nat \ {0} /\ Files \in Nat 
  /\ MaxAsks \in Nat /\ MaxEnds \in Nat /\ MaxCommands \in Nat

VARIABLES
  status,     \* missions.status, running for starting too
  recovery,   \* recovery_metadata: none, one that counts attempts, one of a resume
  wants,      \* a whatsapp.attachments_requested event is stored
  asks,       \* approvals asked for
  ends,       \* history: how often the turn came to an end of its own
  live,       \* Codex runs the turn, or has yet to report its end
  compacting, \* the turn that waits for a compaction of its context, if one does
  rows,       \* whatsapp_outbox
  \* the process
  due,        \* deliveries queued by onMissionEvent
  filing,     \* deliverMission registers its files one by one
  stopping,   \* interrupt() awaits turn/interrupt
  owed,       \* answers of handleControlCommand that wait for interrupt()
  commands,   \* history: control commands about a turn that came in
  env

turns == <<status, recovery, wants, asks, ends, live, compacting>>
process == <<due, filing, stopping, owed>>
vars == <<turns, rows, process, commands, env>>

Active == {"running", "awaiting"}
Terminal == {"completed", "failed", "interrupted", "cancelled"}
Command == 1..MaxCommands
Kind == {"notice", "ask", "result", "file", "lost", "reply"}

\* A row: its key, and which notice, question, part of a result or answer it is.
Row == [t : Turn, o : Int, k : {"text", "media"}, kind : Kind, n : Nat, i : Nat]
Text(t, o, kind, n, i) == [t |-> t, o |-> o, k |-> "text", kind |-> kind, n |-> n, i |-> i]

TypeOK ==
  /\ status \in [Turn -> {"new", "queued"} \cup Active \cup Terminal]
  /\ recovery \in [Turn -> {"none", "attempted", "resumed"}]
  /\ wants \in [Turn -> BOOLEAN] /\ live \in [Turn -> BOOLEAN]
  /\ asks \in [Turn -> 0..MaxAsks] /\ ends \in [Turn -> Nat]
  /\ compacting \subseteq Turn
  /\ rows \subseteq Row
  /\ due \subseteq [t : Turn, quiet : BOOLEAN]
  /\ filing \subseteq [t : Turn, i : 1..Files]
  /\ stopping \subseteq [t : Turn, c : 0..MaxCommands]
  /\ owed \subseteq [t : Turn, c : Command]
  /\ commands \in 0..MaxCommands
  /\ env \in Scenario

Init ==
  /\ status = [t \in Turn |-> "new"]
  /\ recovery = [t \in Turn |-> "none"]
  /\ wants = [t \in Turn |-> FALSE] /\ live = [t \in Turn |-> FALSE]
  /\ asks = [t \in Turn |-> 0] /\ ends = [t \in Turn |-> 0]
  /\ compacting = {}
  /\ rows = {} /\ due = {} /\ filing = {} /\ stopping = {} /\ owed = {}
  /\ commands = 0
  /\ env \in Scenario

-----------------------------------------------------------------------------
\* The outbox.  Operators named ...Mutant are wrong on purpose: each stands for
\* a plausible slip in the operator after it.

SameKey(r, q) == r.t = q.t /\ r.o = q.o /\ r.k = q.k

\* enqueueText and enqueueMedia, for rows of different keys.
Enqueue(rs) == rows' = rows \cup {r \in rs : ~\E q \in rows : SameKey(r, q)}

\* nextOutboxOrdinal: one more than the largest of the turn's rows, or 0.
Ordinals(t) == {r.o : r \in {q \in rows : q.t = t}}
CountMutant(t) == Cardinality(Ordinals(t))
ZeroMutant(t) == 0
NextOrdinal(t) ==
  IF Ordinals(t) = {} THEN 0
  ELSE CHOOSE o \in {p + 1 : p \in Ordinals(t)} : \A p \in Ordinals(t) : p < o

NoticeOrdinal == -100
LikeNoticeMutant == NoticeOrdinal
AskOrdinal == -50
FileOrdinal(i) == 100 + i
LostOrdinal(i) == 200 + i

Reply(t, c) == Text(t, NextOrdinal(t), "reply", c, 0)
Result(t) == {Text(t, i - 1, "result", ends[t], i) : i \in 1..Chunks}

\* Handlers run when the microtasks of the handler before them have run.
Macrotask == due = {} /\ owed = {}

-----------------------------------------------------------------------------
\* What the turns go through

\* A message becomes a turn; a batch of WhatsApp's is announced (flushBatches).
Create(t) ==
  /\ Macrotask /\ status[t] = "new"
  /\ status' = [status EXCEPT ![t] = "queued"]
  /\ IF t \in Ours THEN Enqueue({Text(t, NoticeOrdinal, "notice", 0, 0)}) ELSE UNCHANGED rows
  /\ UNCHANGED <<recovery, wants, asks, ends, live, compacting, process, commands, env>>

\* processNext: one turn at a time.
Dispatch(t) ==
  /\ Macrotask /\ status[t] = "queued"
  /\ compacting = {} /\ \A u \in Turn : status[u] \notin Active
  /\ status' = [status EXCEPT ![t] = "running"]
  /\ live' = [live EXCEPT ![t] = TRUE]
  /\ UNCHANGED <<recovery, wants, asks, ends, compacting, rows, process, commands, env>>

\* handleServerRequest and the announcement of it.
AskApproval(t) ==
  /\ Macrotask /\ status[t] = "running" /\ live[t] /\ asks[t] < MaxAsks
  /\ asks[t] > 0 => "ask_again" \in env
  /\ status' = [status EXCEPT ![t] = "awaiting"]
  /\ asks' = [asks EXCEPT ![t] = @ + 1]
  /\ Enqueue({Text(t, AskOrdinal, "ask", asks[t] + 1, 0)})
  /\ UNCHANGED <<recovery, wants, ends, live, compacting, process, commands, env>>

\* The browser decides.
Decide(t) ==
  /\ Macrotask /\ status[t] = "awaiting"
  /\ status' = [status EXCEPT ![t] = "running"]
  /\ UNCHANGED <<recovery, wants, asks, ends, live, compacting, rows, process, commands, env>>

\* The turn comes to an end, or its end is reported once more.
End(t, s) ==
  /\ status' = [status EXCEPT ![t] = s]
  /\ ends' = [ends EXCEPT ![t] = IF status[t] = s THEN @ ELSE @ + 1]

\* onMissionEvent queues a delivery; it is quiet if the event is a
\* mission.interrupted that the user did not ask for.
Due(t, quiet) == due' = due \cup {[t |-> t, quiet |-> quiet]}

Stopped(t) == status[t] = "interrupted" \/ \E s \in stopping : s.t = t

\* turn/completed: the event is stored before the mission is updated, but the
\* delivery runs after that.
Finish(t, s) ==
  /\ Macrotask /\ live[t] /\ status[t] \in Active \cup {"interrupted"}
  /\ s = "interrupted" => Stopped(t)
  /\ s # "interrupted" => ~Stopped(t) \/ "raced" \in env
  /\ End(t, s)
  /\ live' = [live EXCEPT ![t] = FALSE]
  /\ \E w \in BOOLEAN :
       /\ w => "files" \in env /\ t \in Ours /\ s = "completed"
       /\ wants' = [wants EXCEPT ![t] = @ \/ w]
  /\ Due(t, FALSE)
  /\ UNCHANGED <<recovery, asks, compacting, rows, filing, stopping, owed, commands, env>>

\* The exit of the app-server (handleCodexExit): one recovery.
CodexExit(t) ==
  /\ "exit" \in env
  /\ Macrotask /\ status[t] \in Active
  /\ IF recovery[t] # "attempted"
       THEN /\ status' = [status EXCEPT ![t] = "queued"]
            /\ recovery' = [recovery EXCEPT ![t] = "attempted"]
            /\ UNCHANGED ends
       ELSE End(t, "interrupted") /\ UNCHANGED recovery
  /\ Due(t, TRUE)
  /\ live' = [u \in Turn |-> FALSE]
  /\ stopping' = {} /\ owed' = {[t |-> s.t, c |-> s.c] : s \in {q \in stopping : q.c # 0}}
  /\ UNCHANGED <<wants, asks, compacting, rows, filing, commands, env>>

\* recoverFromContextWindow; Codex is asked to interrupt the turn.
Overflow(t) ==
  /\ "overflow" \in env
  /\ Macrotask /\ status[t] \in Active /\ live[t]
  /\ IF recovery[t] = "attempted"
       THEN End(t, "failed") /\ Due(t, FALSE) /\ UNCHANGED <<recovery, compacting>>
       ELSE /\ status' = [status EXCEPT ![t] = "interrupted"]
            /\ recovery' = [recovery EXCEPT ![t] = "attempted"]
            /\ compacting' = {t}
            /\ Due(t, TRUE) /\ UNCHANGED ends
  /\ UNCHANGED <<wants, asks, live, rows, filing, stopping, owed, commands, env>>

\* The compaction ends: the turn is queued again.
Compacted(t) ==
  /\ Macrotask /\ t \in compacting
  /\ status' = [status EXCEPT ![t] = "queued"]
  /\ live' = [live EXCEPT ![t] = FALSE]
  /\ compacting' = {}
  /\ UNCHANGED <<recovery, wants, asks, ends, rows, process, commands, env>>

\* The request for it fails, which no event reports, or it times out.
CompactionFails(t, reported) ==
  /\ Macrotask /\ t \in compacting
  /\ End(t, "failed")
  /\ IF reported THEN Due(t, FALSE) ELSE UNCHANGED due
  /\ compacting' = {}
  /\ UNCHANGED <<recovery, wants, asks, live, rows, filing, stopping, owed, commands, env>>

\* resume, of a turn that Codex has let go.
Resume(t) ==
  /\ "resume" \in env
  /\ Macrotask /\ status[t] = "interrupted" /\ ~live[t] /\ t \notin compacting
  /\ ends[t] < MaxEnds
  /\ status' = [status EXCEPT ![t] = "queued"]
  /\ recovery' = [recovery EXCEPT ![t] = "resumed"]
  /\ UNCHANGED <<wants, asks, ends, live, compacting, rows, process, commands, env>>

\* Both services start again: MissionsService first, so nobody hears its events.
Restart ==
  /\ "restart" \in env
  /\ LET again == {t \in Turn : status[t] \in Active /\ recovery[t] # "attempted"}
         over == {t \in Turn : status[t] \in Active /\ recovery[t] = "attempted"}
     IN  /\ status' = [t \in Turn |-> IF t \in again THEN "queued"
                                      ELSE IF t \in over THEN "interrupted" ELSE status[t]]
         /\ recovery' = [t \in Turn |-> IF t \in again THEN "attempted" ELSE recovery[t]]
         /\ ends' = [t \in Turn |-> IF t \in over THEN ends[t] + 1 ELSE ends[t]]
  /\ live' = [t \in Turn |-> FALSE] /\ compacting' = {}
  /\ due' = {} /\ filing' = {} /\ stopping' = {} /\ owed' = {}
  /\ UNCHANGED <<wants, asks, rows, commands, env>>

-----------------------------------------------------------------------------
\* Deliveries

\* A turn that will be continued is not reported.
HeardMutant(d) == FALSE
Suppressed(d) == d.quiet /\ recovery[d.t] # "none"

Deliver(d) ==
  /\ d \in due
  /\ due' = due \ {d}
  /\ IF Suppressed(d)
       THEN UNCHANGED <<rows, filing>>
       ELSE /\ Enqueue(Result(d.t))
            /\ filing' = IF wants[d.t] /\ Files > 0 THEN filing \cup {[t |-> d.t, i |-> 1]} ELSE filing
  /\ UNCHANGED <<turns, stopping, owed, commands, env>>

\* registerOutgoingAttachment of one file settles: its row, or a text instead.
RegisterFile(f, ok) ==
  /\ Macrotask /\ f \in filing
  /\ Enqueue({IF ok THEN [t |-> f.t, o |-> FileOrdinal(f.i - 1), k |-> "media", kind |-> "file",
                          n |-> 0, i |-> f.i]
                    ELSE Text(f.t, LostOrdinal(f.i - 1), "lost", 0, f.i)})
  /\ filing' = (filing \ {f}) \cup (IF f.i < Files THEN {[f EXCEPT !.i = @ + 1]} ELSE {})
  /\ UNCHANGED <<turns, due, stopping, owed, commands, env>>

-----------------------------------------------------------------------------
\* The user's control commands (handleControlCommand), sent with a turn's code

\* The code of a turn names it, also one of the browser ("code_any").
Addressed(t) == "code" \in env /\ (t \in Ours \/ "code_any" \in env)

Comes(c, t) ==
  /\ Macrotask /\ status[t] # "new"
  /\ Addressed(t)
  /\ c = commands + 1 /\ commands' = c

\* status CODE, or status with t at work.
CommandStatus(c, t) ==
  /\ Comes(c, t)
  /\ Enqueue({Reply(t, c)})
  /\ UNCHANGED <<turns, process, env>>

\* approve or decline CODE: the pending request, or an error, is the answer.
CommandDecide(c, t) ==
  /\ Comes(c, t)
  /\ status' = [status EXCEPT ![t] = IF @ = "awaiting" THEN "running" ELSE @]
  /\ Enqueue({Reply(t, c)})
  /\ UNCHANGED <<recovery, wants, asks, ends, live, compacting, process, env>>

\* A stop: a queued turn is cancelled, an active one awaits turn/interrupt.
\* The answer follows interrupt(), and so the delivery that it queued.  (One
\* stop of a turn at a time.)
Cancel(t) == End(t, "cancelled") /\ Due(t, FALSE) /\ UNCHANGED stopping
AwaitStop(t, c) ==
  /\ status[t] \in Active /\ live[t] /\ \A s \in stopping : s.t # t
  /\ stopping' = stopping \cup {[t |-> t, c |-> c]}
  /\ UNCHANGED <<status, ends, due>>

CommandStop(c, t) ==
  /\ Comes(c, t)
  /\ \/ /\ status[t] = "queued"
        /\ Cancel(t)
        /\ owed' = {[t |-> t, c |-> c]} /\ UNCHANGED rows
     \/ AwaitStop(t, c) /\ UNCHANGED <<rows, owed>>
     \/ /\ status[t] \notin {"queued"} \cup Active
        /\ Enqueue({Reply(t, c)}) /\ UNCHANGED <<status, ends, due, stopping, owed>>
  /\ UNCHANGED <<recovery, wants, asks, live, compacting, filing, env>>

\* The Stop of the browser.
Stop(t) ==
  /\ "stop" \in env /\ Macrotask
  /\ \/ status[t] = "queued" /\ Cancel(t)
     \/ AwaitStop(t, 0)
  /\ UNCHANGED <<recovery, wants, asks, live, compacting, rows, filing, owed, commands, env>>

Owe(s) == owed' = owed \cup (IF s.c = 0 THEN {} ELSE {[t |-> s.t, c |-> s.c]})

\* turn/interrupt succeeds: the mission is interrupted whatever it is by now.
StopReturns(s) ==
  /\ Macrotask /\ s \in stopping
  /\ stopping' = stopping \ {s}
  /\ End(s.t, "interrupted")
  /\ Due(s.t, FALSE) /\ Owe(s)
  /\ UNCHANGED <<recovery, wants, asks, live, compacting, rows, filing, commands, env>>

\* It fails, as it does when the turn has ended.
StopFails(s) ==
  /\ Macrotask /\ s \in stopping
  /\ stopping' = stopping \ {s}
  /\ Owe(s)
  /\ UNCHANGED <<turns, rows, due, filing, commands, env>>

\* The answer to the stop.
Answer(a) ==
  /\ due = {} /\ a \in owed
  /\ owed' = owed \ {a}
  /\ Enqueue({Reply(a.t, a.c)})
  /\ UNCHANGED <<turns, due, filing, stopping, commands, env>>

-----------------------------------------------------------------------------
Next ==
  \/ \E t \in Turn :
       \/ Create(t) \/ Dispatch(t) \/ AskApproval(t) \/ Decide(t)
       \/ CodexExit(t) \/ Overflow(t) \/ Resume(t) \/ Stop(t)
       \/ \E s \in {"completed", "failed", "interrupted"} : Finish(t, s)
       \/ \E c \in Command : CommandStatus(c, t) \/ CommandDecide(c, t) \/ CommandStop(c, t)
       \/ Compacted(t) \/ \E reported \in BOOLEAN : CompactionFails(t, reported)
  \/ Restart
  \/ \E d \in due : Deliver(d)
  \/ \E f \in filing, ok \in BOOLEAN : RegisterFile(f, ok)
  \/ \E s \in stopping : StopReturns(s) \/ StopFails(s)
  \/ \E a \in owed : Answer(a)

Spec == Init /\ [][Next]_vars

-----------------------------------------------------------------------------
\* Properties

\* The user is told how each turn ended, once the deliveries are done: every
\* part of its last result is in the outbox, and every file of it or a word
\* about it.  The code does not keep this promise when ordinals of the turn are
\* taken or its end is suppressed: when a turn of the browser is asked about, or
\* any turn between two files; when a turn ends again, after a resume or a race
\* with a stop, or for good after a recovery, or with its compaction.
Undisturbed ==
  /\ env \cap {"code_any", "resume", "raced", "overflow", "restart"} = {}
  /\ ~({"code", "files"} \subseteq env)
ResultTold ==
  Undisturbed /\ Macrotask =>
    \A t \in Turn : status[t] \in Terminal /\ recovery[t] = "none" =>
      /\ Result(t) \subseteq rows
      /\ wants[t] /\ ~(\E f \in filing : f.t = t) =>
           \A i \in 1..Files : \E r \in rows : r.t = t /\ r.kind \in {"file", "lost"} /\ r.i = i

\* A turn that recovers from a lost app-server is not reported as interrupted,
\* and an end is not reported again in other words: every result in the outbox
\* is of an end the turn came to.  (A context that overflows is told as an end
\* although its turn goes on after the compaction.)
NoFalseResult ==
  "overflow" \notin env =>
    \A r \in rows : r.kind = "result" => r.n \in 1..ends[r.t]

\* The approval that a turn waits for has been announced, unless it is not its
\* first.
ApprovalAnnounced ==
  \A t \in Turn : status[t] = "awaiting" /\ asks[t] = 1 =>
    \E r \in rows : r.t = t /\ r.kind = "ask" /\ r.n = 1

\* "The commands are answered": every control command has an answer in the
\* outbox, or one under way, whatever rows its turn has by then.  (A restart
\* forgets the answers that wait for interrupt().)
Answering(c) == \E s \in stopping \cup owed : s.c = c
CommandsAnswered ==
  \A c \in 1..commands : "restart" \notin env =>
    Answering(c) \/ \E r \in rows : r.kind = "reply" /\ r.n = c
=============================================================================
