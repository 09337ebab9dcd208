# Orkestr Lite in TLA+

Orkestr Lite is a workstation around one Codex conversation: a NestJS server
(one Node process, SQLite) takes input from a browser, from the user's WhatsApp
self chat and from timers, queues it, and has a Codex app-server work on it one
turn at a time, next to a Linux desktop and a terminal that the user shares with
Codex. This directory models the parts where order, failure and time decide
whether the program is correct. Paths below are relative to the repository;
`missions/...`, `whatsapp/...` and the like are under `apps/server/src/`.

## The system

| Component | State | Operations | What is hard | Module |
|---|---|---|---|---|
| Dispatcher, `missions/missions.service.ts` | `missions` rows; `activeMissionId`, `dispatching`, `compacting`, `clearingContext`, timers | create, interrupt, resume, approve, compact, clear, processNext, Codex notifications, exit, restart | one handler between two awaits of another; microtask order; a recovery that races a stop; late answers | `TurnDispatch` |
| JSON-RPC client, `packages/codex-client/src/client.ts` | pending requests, transport | connect, request, response, timeout, exit | a timeout and a late answer; all requests rejected at an exit | `TurnDispatch`, `CodexConnection` |
| Turn intake, `missions.service.ts`, `mission.repository.ts`, `whatsapp.service.ts` | `missions`, `whatsapp_batches`, `whatsapp_callbacks`, `whatsapp_messages` | browser request, message, batch, flush, clear context | one sequence over two tables; retries; a crash between two commits; the last place of the queue | `TurnIntake` |
| Timers, `missions/timers.service.ts` | `timers`, `timer_runs` | create, update, remove, run now, tick | downtime, a full queue, overlap, the boundary of an occurrence | `Timers` |
| WhatsApp outbox, `whatsapp.service.ts` | `whatsapp_outbox`, `whatsapp_outbound_messages`, recent texts and files | enqueue, flush, acknowledgement, echo, retry, discard | ids that never come, calls that fail after they worked, our own text or file coming back as input | `WhatsAppOutbox` |
| WhatsApp results and commands, `whatsapp.service.ts` | the outbox rows of a turn, keyed by ordinal | notice, approval request, result, files, stop, status, approve | ordinals that collide, results told twice or not at all | `WhatsAppDelivery` |
| WhatsApp client, `whatsapp.service.ts` | `client`, `state`, `startPromise`, reconnect timer, the browser profile | start, events, reconnect, logout | two browsers on one profile, events of an old client | `WhatsAppLink` |
| Codex connection, `codex/codex.service.ts` | client, process status, account, device login | start, exit, back-off, refresh, rotation of the code | an exit of an old client, overlapping starts, one socket only | `CodexConnection` |
| Conversation thread, `missions.service.ts` | active thread id | open, resume, replace, archive | a failed replacement | part of `TurnDispatch` |
| Desk control, `desk/desk.service.ts` | pause, expiry | acquire, release, expire, restart, reset | a failure after the pause, a human beside a running turn | `Desk` |
| Desk agent, `desk-agent/` | desktop processes, generations, Codex socket | restart, reset, connect, open the browser | overlapping restarts; a Chromium that is dead or seems so | `Desk`, `CodexConnection` |
| Terminal, `terminal/terminal.service.ts`, `terminal.component.ts` | one shell, records, tokens, sockets, pages | open, attach, restart, exit | one-time tokens, an exit during a restart, two tabs | `TerminalSessions` |
| Attachments, `missions/attachments.service.ts` | `attachments`, files | upload, claim, expire, outputs | rows, turns and prompts that disagree after a crash or an expiry | `Composer`, `ConversationView` |
| Web application, `apps/web/src/app/` | draft, list of turns, events, approvals | send, upload, refresh, load older, decide | lost and reordered answers, other clients, reloads | `Composer`, `ConversationView`, `TerminalSessions` |
| Telemetry, workspace files, authentication, inbox of other chats, migrations, containers | | | | not modelled, see below |

They interact through method calls and shared tables in one process. The
dispatcher calls the Codex connection and listens to its notifications, requests,
exits and `ready`; the WhatsApp service, the timers and the controllers call
`MissionsService.create`, which calls `processNext`; what happens to turns reaches
the WhatsApp service and the pages over an event bus; desk control pauses the
dispatcher; the connection's app-server may be the Desk agent's. Each module keeps
of its neighbours what they may do to it: the dispatcher is reduced to what it does to the
queue in `TurnIntake` (begin, end, stop, resume, put back), to the moves of a turn's status
in `WhatsAppDelivery` and `ConversationView`, to one active turn in `Desk`; the connection
is reduced to exits and `ready` in `TurnDispatch`. `PROJECT.json` lists every component with what is
left out of it, and every hazard with its line.

What makes each component correct, in short:

- the dispatcher runs one turn at a time, in order, attributes every event to the
  right mission, honours a stop, replays a prompt at most once and never leaves the
  queue standing;
- the intake makes one turn of an input, keeps one order and one capacity and loses
  nothing from a prompt;
- the timers run an occurrence at most once, never two at a time, no burst after
  downtime, and settle every one;
- the outbox resends until there is an acknowledgement, counts none that is not
  there, and never takes its own text for input; into it goes the result of each
  turn, once, each approval, and the answer to each command;
- the connections to WhatsApp, Codex and the desktop come back after failures, and
  never exist twice;
- the pages show what is, send a draft once, and decide what the user saw.

## The modules

A behaviour of most modules picks one scenario, a set of events the environment may
perform (`env \in Scenario` or `env \in Faults`), so that a run covers several
combinations of faults without their product. `MC...` modules only give the
scenarios, schedules and texts of the runs. Operators named `...Mutant` are wrong on
purpose: each is a plausible slip of the operator that follows it, and `PROJECT.json`
names the property that refutes it.

### TurnDispatch and SerialQueue

The dispatcher at the grain of the event loop. Node runs a handler to its next
await without interruption, so an action is the code between two awaits; the
continuation of an await and every `queueMicrotask` is an element of the sequence
`jobs`, which is emptied before the next macrotask (`Macrotask`). `stage`,
`stopping`, `rec` and `man` say where `startMission`, `interrupt`,
`recoverFromContextWindow` and `compactConversation` are suspended. The fields of
the service keep their meaning under shorter names (`active` is `activeMissionId`,
`recovery` is `pendingCompactionRecoveryId`, `armed` the compaction timer).

The app-server is external: `inbox` holds the requests it has not handled, `chan`
the lines it has written that are not read, `live` the turns it runs. Lines are
read one at a time; with `same_chunk` in the scenario a line may be handled before
the jobs of the line before it, as happens when both arrive in one chunk. Missions
are named by their enqueue sequence.

`SerialQueue` is what the dispatcher promises without any of this: tasks in an
order, one worker, no task begun while an earlier one waits. `ServesSerially`
states that `TurnDispatch` implements it, a task's phase being read off the
mission's status.

### TurnIntake

How input becomes turns. `turns`, `batches`, `callbacks`, `row` and `batchOf` are
the database; each SQL statement outside a transaction is a commit of its own, and
`Restart` may fall between any two. `flushBatches` has no await: while `flushing`
is not empty only its own steps (`FlushCreate`, `FlushLink`, `FlushReject` for the
first batch left) and a crash are possible. `handling` says where the `onMessage` of
each message waits.

A turn that has begun may go back to its old place while the server is up: `Defer`
(`processNext` finds Codex unreachable, `missions.service.ts:590-608`), `CodexExits`
(`handleCodexExit`, 940-987), and `Overflow` with `CompactionEnds`
(`recoverFromContextWindow` takes the turn out of the count, 1005, and the end of the
compaction queues it again, 756). `tried` holds the turns whose attempt is spent,
`recovering` is `pendingCompactionRecoveryId`.

### Timers

A tick has no await either and is one action: for each due row it records a missed,
failed or skipped occurrence, or claims it and creates a turn, which
`missions.create` may refuse (`room`). Cron, daily, weekly and hourly schedules are
multiples of a period; `uneven` stands for a cron expression whose next interval is
below five minutes, which disables the timer.

### WhatsAppOutbox

One row at a time is sent (`flight`). WhatsApp is external: it creates the message
(`sent`), and may report its id, its echo and its acknowledgement in any order, late
or never. The echo of a text is matched to a row by text alone, that of a file by
the only row that is being sent, so the texts of the run are equal. With `media` in
the scenario the rows are files.

### WhatsAppDelivery

What goes into the outbox about a turn, and under which ordinal: the notice at
−100, the approval request at −50, the parts of a result from 0, files from 100, a
word about a lost file from 200, replies to commands at one more than the largest.
`(turn, ordinal, kind)` is unique and rows are inserted OR IGNORE; `rows` only grows.
`due` holds the deliveries that `onMissionEvent` puts into microtasks, `filing` the
files that are registered one by one, `stopping` and `owed` the calls of `interrupt`
and the replies that wait for them.

### WhatsAppLink

A client is a browser on the one profile directory. `init` and `logout` say where
the run of `initializeClient` and of `logout` are suspended, `drawing` and `readying`
which event handlers of a client are; events of a client that is no longer
`this.client` are still delivered, and ignored where the code ignores them.
The user, the phone and WhatsApp appear as the events they cause.

### CodexConnection

A client is one call of `startClient` with what it connected to: a child process or
the web socket of the Desk agent, which serves one at a time. `run` says where each
call is suspended, `link` what became of the transport, `agent` whose socket the
agent holds. `login`, `refreshTimer`, `asked` and `rotating` are the device login:
the code on display, the code its refresh timer belongs to, and the request for the
next. `account` is Codex's, `authenticated` what the service has read of it: the account
may go, and `account/updated` and `account/read` say so, which leaves the login as it is.

### Desk

`DeskService` on one side (`paused`, `human`, `call`), the agent on the other
(`known`, `newest`, `timers`, `handle`), the desktops and Chromium with its three
singleton links. `recoverStaleChromiumProfile` is the operator of that name, applied
where the code calls it: before each launch and at the start of the container; the
evidence of the process table is a choice of the environment. With `overlap` in the
scenario two restarts or resets may be under way at once: the removal of one then meets
the desktop and the Chromium of the other, as it does in `restartDesktop`.

### Composer

The draft of the page (`content`, `files`, `draft`), its copy in `localStorage`, one
request that is awaited, requests that nobody waits for any more (`strays`), and the
turns and attachments of the database. `version` counts what the user composed: the
properties compare turns by it, the code knows only `draftId`.

### TerminalSessions

The one shell with its records, the tokens of `open` and `restart` (a token becomes
one socket, so both have one number), the shells that `restart` has told to end
(`killed`; they live until they do), and the pages with the socket each believes in. A message of an exit or a close takes its time (`exitSent`, `"closing"`).

### ConversationView

`ConversationComponent`: `shown`, `cursor` and `events` are merged from responses
that the server computed earlier. `wire` and `replies` are requests and responses
under way, in order except in the scenario `reorder`. On the server's side are the
turns, the clear boundary, the log of approval events with the requests Codex waits
for, and the outputs being registered.

## The runs

Each run uses the `.cfg` and the `MC...` module of its module's name; the violation
uses `TurnDispatch_stop.cfg`.

| Run | Bounds | Shows |
|---|---|---|
| `dispatch` | 2 missions, 4 turns, 1 resume, 1 fault, 2 unread lines; eight scenarios | `AtMostOneStart`, `ClearsAlone`, `OneTurnAtATime`, `ExactAttribution`, `LiveTurnIsActive`: no two starts, no start while the context is cleared, one live turn, which is the active mission's; `BoundedReplay`, `UserStopIsTerminal`; `QueueDrains`; `ServesSerially` |
| `stop_during_recovery` | 2 missions, 3 turns, no resume; one scenario | a stop that is undone, see below |
| `intake` | 3 messages (one with a file), 1 browser request, capacity 3, batches of 2, 1 crash; four scenarios, the last with exits and overflows | `OneTurnPerInput`, `CapacityKept`, `PromptComplete`, `PositionNeverGrows`, `MessagesSettle` |
| `timers` | 1 timer, four schedules, horizon 5, lateness 2, 2 edits, 1 manual run, 1 stop, 1 downtime | `NoBackfill`, `NoOverlap`, `EveryOccurrenceSettled` |
| `outbox` | 2 rows that are alike, 3 messages, 1 crash; twelve scenarios, six with texts and six with files | `AtLeastOnce`, `EchoIsNotInput`, `RetriesUntilSettled` |
| `delivery` | a turn of WhatsApp and one of the browser, results of 2 texts and 2 files, 2 approvals, 2 ends, 2 commands; six scenarios | `ResultTold`, `NoFalseResult`, `ApprovalAnnounced`, `CommandsAnswered` |
| `link` | 3 clients, 5 faults; three scenarios | `OneBrowser`, `ComesBack` |
| `connection` | 4 clients, 3 faults, 2 codes; four scenarios | `CodeIsRefreshed`, `Reconnects` |
| `desk` | 2 requests, 3 desktops, 2 faults; three scenarios, the last with overlapping restarts and resets | `ControlPauses`, `PauseEnds`, `DesktopReturns`, `ProfileKept` |
| `composer` | 2 texts, 2 files, 4 draft ids, 2 faults; three scenarios | `OneTurnPerDraft`, `FilesReachCodex`, `NothingLost` |
| `terminal` | 2 tabs, 3 shells, 4 tokens, 2 requests in a minute, 1 fault | `RecordsTrue`, `ConnectedIsTrue` |
| `view` | pages of 1 turn, 3 turns, 2 approvals, 2 requests under way, 1 fault; ten scenarios | `DecidedAsShown`, `CatchesUp`, `RequestsAnswered` |

Why the bounds are enough. Two missions make every race between a mission and its
successor possible, which is what the dispatcher's flags are about; four turns let
both be replayed. Two unread lines let an answer and a notification cross. Three
messages fill a batch of two and open another while a file is being saved, and a
capacity of three is reached with the browser's request, so that a turn which overflows
and is queued again is the fourth. Two rows with one text are
what it takes to match an echo to the wrong row, and a third message is a resend.
Five units of time with occurrences two apart, two units of lateness, and one
downtime give occurrences that are on time, late, missed and skipped. Two parts of a
result and two files let a part be kept out and a reply fall between files; a second
end follows a resume. Clients, desktops and draft ids are reused once they are gone
or bounded by what may overlap: three browsers, four connections, three desktops are
an old one, the current one and those that a fault in the middle adds. Three shells
and four tokens are a restart by each of two tabs. Pages of one turn with three turns
give a first page, an older page and a hole between them.

Where a property excludes events (`env \cap {...} = {}`), its comment says so: the
excluded event is one with which the code does not keep the property, and the list
below names it. The scenario is still part of the run for the other properties.

Deadlock is not checked: the counters that bound a run stop it. Every
module has its type invariant, `TypeOK` or, where a module shares its proofs with another,
`LinkTypeOK`, `TerminalTypeOK`, `ConnectionTypeOK`; it is proved for all but
`ConversationView`, and is not among the properties of the runs.

## Fairness

`TurnDispatch!FairSpec`: due jobs and timers run and lines are read (the event
loop), the app-server answers requests and ends its turns, and it is started again
after an exit (`scheduleRestart` never gives up). A compaction need not end, since
its timeout is the code's. `TurnIntake!FairSpec`: awaited calls settle, the
five-second window passes and the batch timer fires. `Timers!FairSpec`: the interval
fires while the process lives, time passes, the process is started again.
`WhatsAppOutbox!FairSpec`: the outbox timer fires, delays pass, a call settles, the
client reconnects. Two assumptions there are about the outside: `sendMessage` settles
(nothing in the code times it out, and the outbox would stand still), and a text that is
offered again and again is created some time (strong fairness of `CreateMessage`).
No fairness is assumed of echoes and acknowledgements.

`CodexConnection!ConnectionFairSpec`: the back-off passes, the awaited step of a `startClient`
succeeds or fails, a closed socket is noticed at both ends, the Desk comes up.
`WhatsAppLink!FairSpec`: the reconnect timer fires, `destroy` and `logout` return, a
browser that does not fail gets ready, which includes a user who scans the code; nobody
has to press a button. `Desk!FairSpec`: the control timer fires, calls return, the
agent's waits end. `ConversationView!FairSpec`: the page's interval of 30 s fires, the
server handles a request, a response that is not lost arrives, and the user decides what
he is asked. `Composer`, `TerminalSessions` and `WhatsAppDelivery` state safety only.

## What is proved

Each theorem holds for every value of its module's constants: any finite set of
missions, turns or messages, any scenario and any bound. The assumptions are the named
ones of the modules: sets of numbers are what they are used as, bounds are natural
numbers, schedules have a positive period, the null value is none of the values it
stands beside.

`TurnDispatchProofs`:

- `TypeCorrect`: `[]TypeOK`. `TypeOK` is inductive; one lemma for each action, and
  lemmas for the operators several actions share (`ProcessNextTypes`,
  `CompactionEndsTypes`, ...).
- `LockCorrect` and `OneStart`: at most one `startMission` is in flight. That alone is
  not inductive: a stale continuation in the job queue could start a second one. The
  strengthening is `DispatchLock`: `dispatching` is set exactly while some mission's
  stage is not idle, and at most one queued job continues a start, for the stage it is
  in. The lemmas `LockAppend`, `LockTail`, `LockMove` and `LockRelease` say how a job
  that is added or removed affects it; `LockStep` has a step for each action. It also holds
  in scenarios that no run has, where stops, timeouts and exits meet every stage.
- `ExactAttributionCorrect`. `Tokens` follows a `turn/start` on its way: one request, then
  one reply, then one job, while its mission waits at that stage (`StartRequests`,
  `StartReplies`, `StartJobs`); and an announced turn that no mission has yet is the last
  one opened, whose mission is the active one (`Announced`, `SlotHeld`), so that the
  fallback to the active mission finds the right one. It holds where no `turn/start` is given
  up while it may still be answered, which is what the property says.
- `KnownCorrect`: the inductive invariant of the orderly scenarios, `Orderly`. Those have no
  `timeout`, `context`, `same_chunk`, `stop_starting` or `resume_early`, and neither
  `late_end` with `resume` nor `web` with `exit`; with each of these the code does fail one
  of the properties (see the next sections) or leaves an unknown turn running. Five of the
  eight scenarios of the run are orderly, and so are all their unions that keep to it. In
  them a mission at work is the active one (`Working`), a start that has something to do has
  its job (`Awaited`), a turn that is open or of which a line is unread is the active
  mission's (`Watched`), its lines come in order (`Sequence`, `Fresh`), and a stop is one
  request, then one reply, then one job, after which its mission has no open turn (`Stops`).
- From it, each under `Orderly`: `OneTurnAtATimeCorrect` and `LiveTurnIsActiveCorrect` at
  once; `UserStopIsTerminalCorrect`, since no step but a resume queues a stopped mission
  (`Final`, `DispatchStep`); `ClearsAloneCorrect`, since nothing starts while the context is
  cleared (`Resting`); `BoundedReplayCorrect`, where what a mission has sent, what it is to
  send and the recovery it has left stay within two for each time it was resumed (`Budget`).
- `SerialCorrect`: the refinement of `SerialQueue`, under `Orderly`. A step of the dispatcher
  either begins nothing (`CalmStep`) or begins what `processNext` picks, the first of the
  queue while no mission is at work (`DispatchStep`).

`TurnIntakeProofs`: `TypeCorrect`, `OneTurnPerInputCorrect`, `CapacityKeptCorrect`,
`PromptCompleteCorrect`. What a turn is of, and which messages it has, follows from the
database alone (`Structure`): a turn is of a browser request or has its batch's place,
inputs and places are apart, there is a greatest sequence (`Bounded`, so the next one is
greater than all), and a linked batch's turn has its messages. That this survives a crash
between the turn and its link needs the state of the process (`Progress`): a batch whose
turn exists is closed to messages, because the loop of `flushBatches` is not through with
it or WhatsApp is not back yet (`HalfFlushed`), and then no handler runs (`Offline`).
`PositionNeverGrowsCorrect` is a step property from the same invariant: what is new comes
behind all others, since its sequence is greater (`NextIsGreater`), and what is counted ahead
of a turn gains only what a step puts back there (`PutBack`), each by one place
(`PositionBound`, `QueueMoves`), but for the turn of a batch while the two are not linked.
`CapacityKeptCorrect` counts what was accepted and is not done (`Load`): the turns of
`pendingCount`, the one that is being compacted, and the open batches, without what the
operator resumed. A turn that overflows stays in it, so nothing but an input adds to it, and
an input is accepted by `pendingCount`, which is without the turn that is being compacted
(`Counted`): hence one above the capacity while such a turn is in the load, and none
otherwise. `CutOffTurns`, `ExitKeeps` and `CompactionKeeps` say what a recovery does to it.

`ServiceProofs`, about `Timers` and `CodexConnection` (where some names begin with
`Connection`, so that one module can extend both). Of the timers: `TypeCorrect`,
`NextIsFreshCorrect`, `NoBackfillCorrect`, `NoOverlapCorrect`. The inductive invariant `IInv` adds that what was recorded and created
lies in the past (`RecordedPast`, `TurnsPast`), that a turn created for an occurrence is
older than the occurrence the timer waits for (`RunsBeforeNext`), and that only the newest
turn of a timer is pending (`PendingIsLast`). The arithmetic it rests on is
`NextAfterIsLater`: the next occurrence is strictly after now.

Of the connection: `ConnectionTypeCorrect`; `ReadyMeansLiveCorrect` and
`ReconnectPendingCorrect`, which no run states (TLC can check them as invariants of
`connection`): a service that is ready hands out a client that has a transport, and one that
is not has an attempt under way or a back-off to come; and `CodeIsRefreshedCorrect`. The
inductive invariant `ConnectionInv` adds what a suspended `startClient` may rely on
(`Handshakes`: one that awaits its handshake has its transport, one that still chooses a
transport is not the client in use), about the rotation (`Rotation`) that it waits only
with a request under way, for the code on display or for one that was taken off the display,
and about the timer (`Armed`) that a code keeps it also while somebody is logged in, until
its refresh falls due: a logout then finds it there, unless it has fallen due before.

`ComposerProofs`: `TypeCorrect`, `OneTurnPerDraftCorrect`. The server gives an id one turn
(`OneTurnPerKey`, by `findByIngress`); it remains that the page sends what was composed
under one id (`OneKeyPerVersion`), whatever requests are still under way, and that a reload
comes back to that id (`StorageIsDraft`). `FilesReachCodexCorrect`: every request that carries
an id has the same files, those of the draft if the id is the draft's, so that a request that
comes late finds nothing left to claim (`KeyFiles`). `NothingLostCorrect`: while the page
remembers what it sent, only that text is under way under the draft's id (`IdIsText`), and an
answer that it waits for tells of a turn that exists (`AnswerIsTrue`).

`DeskProofs`, about `Desk` and `TerminalSessions` (where some names begin with `Terminal`):
`TypeCorrect`; `ControlPausesCorrect`, with the strengthening that a request which waits for its interrupt
has already paused the dispatcher, unless it was crossed (`WaitPauses`); `ProfileKeptCorrect`,
an action property that follows step by step from the types: a lock is taken by the recovery
only of a Chromium it has proved dead, and by a reset only with the profile, when its
removal ends (`ResetEnds`). Of the terminal: `TerminalTypeCorrect`, `RecordsTrueCorrect`,
`ConnectedIsTrueCorrect`. `RecordsTrue` is inductive with the types and `Spawned`: a shell
that lives or has a record was spawned; a shell that is replaced while it lives was told to
end. `ConnectedIsTrue` needs `Sockets`: a page that is
connected has a socket, and an exit is on its way only over one that was opened.

`ConversationViewProofs`: `DecidedAsShownCorrect`. While the app-server keeps its numbering,
the n-th approval request of the conversation has the id n - 1, everywhere it is stored: in
the log, on the page, in requests and in responses, whatever their order (`Numbering`). So a
decision that names the id the user saw names the request he saw. The lemmas `Appended` and
`Removed` say what the entries of a sequence are after an append and after a removal from
its middle.

`WhatsAppOutboxProofs`:

- `TypesCorrect`: the types, and that the message of the call in flight is of the row in
  flight (`Call`).
- `AtLeastOnceCorrect`. No two rows have one message (`Distinct`), a row that is settled has a
  message of its own text (`Held`, `SameText`), and a file that counts as sent without an id was
  created (`Tried`): the rows map to the messages one to one.
- `EchoIsNotInputCorrect`. A text is remembered once for each echo of it that may still come,
  and for the message still to be created (`TextInv`). A file is recognised by a row that
  awaits an echo and has no message yet; there is one for each echo that belongs to no row and
  for the message still to be created (`Counted`, with `RowKnown` for the others), although an
  echo may settle another row than its own.

`WhatsAppProofs`, about `WhatsAppDelivery` and `WhatsAppLink` (where some names begin with
`Link`, so that one module can extend both):

- `OneBrowserCorrect`, of the client, under `Apart`: no start and no reconnect overlaps a
  logout (see below for what happens otherwise). A browser that exists is referred to by a
  field of the service (`Referred`); while a client is being created, and while one is logged
  out, there is no other (`StartAlone`, `LogoutAlone`).

- `NoFalseResultCorrect`, of the results. A turn that is over has ended (`EndedOnce`), and a
  delivery that is due is about an end or will be suppressed, since its turn recovers
  (`DueOfAnEnd`); a recovery is never forgotten, so it is still so when the microtask runs.
- `TypesCorrect`: the types, and that the ordinals of a turn have a greatest one, which
  `nextOutboxOrdinal` needs (`Topped`).
- `CommandsAnsweredCorrect`: each command has its answer or one under way (`CInv`); an answer
  never meets a row, since its ordinal is above those of its turn.
- `ApprovalAnnouncedCorrect`, for fewer than 50 commands: answers to a turn that has only its
  notice take the ordinals from -99 upwards, and the fiftieth would take the question's, -50.
  `Zones` says where rows can be while n commands are answered.
- `ResultToldCorrect`, for fewer than 50 commands and results of at most 200 parts, after
  which come the ordinals of the words about lost files. In the scenarios `ResultTold` is about, a
  turn ends once, and then its result is due or in the outbox whole, and each of its files is
  there or still to be registered (`TurnTold`).

Only model-checked: all liveness (`QueueDrains`, `MessagesSettle`,
`EveryOccurrenceSettled`, `RetriesUntilSettled`, `Reconnects`, `ComesBack`, `PauseEnds`,
`DesktopReturns`, `CatchesUp`, `RequestsAnswered`; temporal reasoning with fairness and
ENABLED is out of TLAPS's reach here); the properties of `dispatch` in its three scenarios
that are not orderly, a context that overflows, one that is reported twice, and requests
that time out; and the type invariant of `ConversationView`, whose lists are filtered with
`SelectSeq`, a definition by recursion on the length of a list, of which nothing can be
proved here.

## Where code and documentation disagree

*A user stop is terminal* (`docs/ARCHITECTURE.md:50`): a stop that is in flight while
the turn's context overflows is undone by the end of the compaction, which queues the
mission again whatever its status (`missions.service.ts:756`; run
`stop_during_recovery`).

Other statements the code does not keep, seen while modelling, without a run of their own:

- *Refreshes automatically before it expires*, says the setup page of the device code
  (`apps/web/src/app/setup.component.ts:126`), which it shows while nobody is authenticated.
  A code whose refresh falls due while somebody is logged in is not rotated, and no timer
  is set again (`codex.service.ts:473-480`); when that account goes (`account/updated`
  without a mode, 418-421, or `account/read` without an account, 496-497) the code is there
  to expire. `CodeIsRefreshed` without its `lapsed` is violated that way.
- *Codex paused*, says the Desk page while a human has control
  (`apps/web/src/app/desk.component.ts:45`). `acquireControl` pauses before it awaits the
  interrupt and gives control after it (`desk.service.ts:100-103`); a release, the expiry of
  an earlier control or a restart of the desktop in between ends the pause (275), and the
  dispatcher may start the next turn beside the human. `ControlPauses` without its
  `crossed` is violated that way.
- *Every input enters the same durable FIFO queue and reaches the same context*
  (`README.md:52`): a compaction that fails calls no `processNext`
  (`missions.service.ts:1029`), and the next mission waits with Codex idle.
- *At most 250 open/pending turns and WhatsApp batches are accepted*
  (`ARCHITECTURE.md:46`): the batch in the last place counts itself when it is flushed
  and is rejected (`missions.service.ts:338`); and a turn whose context overflowed is out of
  the count until its compaction queues it again (`missions.service.ts:1005`, 756), so that
  with an input accepted meanwhile there is one more.
- *Inputs reserve one enqueue sequence and remain FIFO* (`ARCHITECTURE.md:45`): an open
  batch holds its sequence while later browser turns begin (`mission.repository.ts:156`).
- *Codex events are attributed by exact Codex turn ID* (`ARCHITECTURE.md:52`): an
  announced turn that no mission has is given to the active one
  (`missions.service.ts:713`).
- *The durable outbox retries until WhatsApp acknowledges* (`ARCHITECTURE.md:93`): a call
  that fails after the acknowledgement makes the row failed, and it is sent again
  (`whatsapp.service.ts:1401`).
- *Results return to that chat* (`README.md:61-62`): when a turn overflows, the interrupted
  part is delivered under ordinals 0, 1, ..., and the result after the compaction is then ignored.
- *A second failure remains visible* (`ARCHITECTURE.md:51-52`): the chat is not told of a
  second loss of the app-server, whose event is suppressed like the first
  (`whatsapp.service.ts:787`).

## What the properties exclude

Cases in which the code does not keep a property, excluded in the property or the
scenarios so that they do not hide other failures:

- Dispatcher: a turn that completes in the chunk of its start's response is set back to
  running, and the queue stands (`same_chunk`); a stop of a starting mission
  (`stop_starting`) with an exit; a `turn/start` that times out although the turn opens; a
  doubled context error with other faults; a browser's mission whose output directory is
  prepared when the app-server exits, which is queued and started (`web` with `exit`): two
  missions are then active, the context may be cleared beside a turn, and a prompt be sent a
  third time. So it may when the operator compacts while a context overflows and the
  app-server exits, and two turns may run when a mission is resumed in that compaction.
- Intake: a crash after `claimCallback` loses the message (`MessagesSettle` excludes
  crashes); a message of more than 1,000 characters, of which a batch's prompt keeps the
  first 1,000; `resume`, which looks at no capacity (resumed turns are counted apart, by
  `CapacityKept` for ever, by `PositionNeverGrows` in the step that resumes them); a turn that
  overflowed, which may be one above the capacity; a batch's place while it is open, which
  turns of later inputs overtake.
- Outbox: an echo more than a minute late, or of a file whose call failed, is taken for
  input; two files under way together with a call that fails or a crash, after which an
  echo has acknowledged the wrong one (`AtLeastOnce` excludes it).
- Delivery: a status reply to a turn of the browser takes ordinal 0, a reply between two
  lost files takes the ordinal of the second, and the result or the file is dropped; the
  result of a resumed turn meets the rows of its first end; a second approval meets −50 and
  is not announced, and neither would the first be after 50 replies to one turn, which take
  the ordinals from −99 to −50; a compaction
  that fails emits no event; a stop that races the completion is told as the turn ended.
- Link: a start or a reconnect that overlaps a logout may leave two browsers, or none
  (`overlap`); an initialisation that is rejected while `onQr` or `onReady` of its client
  still awaits (`whatsapp.service.ts:331`, 388, 409) is ruled out by a guard of
  `InitializeFails`.
- Connection: a code whose refresh fell due while somebody was logged in (`lapsed`); with the Desk, a failed account refresh leaves the first client alive, and
  the agent, which serves one, refuses the next (`codex.service.ts:312`).
- Desk: a failed interrupt leaves the pause without a timer; control released, expired
  or ended by a restart while it is being acquired (`crossed`); a reset that overlaps a
  restart (`main.ts:235-256`), after which an X server that is in no list may keep the display
  and the desktop not get ready (`DesktopReturns` alone excludes it); a process id used again
  by another program.
- Composer: a reload after an answer was lost forgets that the draft was sent; editing
  while a message with files is sent; a crash between the INSERT of a turn and the claim of
  its files.
- Terminal: a tab that reconnects twice at once shows the older socket's state.
- View: `approve` does not compare request ids (`missions.service.ts:554`), so a late or
  parallel decision leaves Codex waiting; ids begin anew after an exit, and a decision may
  go to another request; more new turns than a page leave a hole; turns cleared by another
  client stay until the page is loaded again; responses out of order keep an old status.

## Abstractions to know about

- A chain of promise reactions counts as one job; `ready` means connected and
  authenticated; recovery attempts are 0 or more.
- A timer of `TurnDispatch` may fire whenever no job is queued, also with unread lines.
- `TurnIntake!GoOnline` assumes that the WhatsApp client is ready later than the first
  flush after a start, which takes a browser seconds and the flush none.
- A batch is full by its number of messages alone; the limits on bytes and attachments
  act at the same place.
- A tick of `Timers` takes no time and handles at most 20 rows in the code; the model's
  timers are fewer. A removed timer's id is not used again.
- `WhatsAppOutbox` counts remembered texts up to `MaxSends`, and a minute passes for all
  entries of a text at once.
- `WhatsAppDelivery` lets one stop of a turn be in flight at a time, and its texts are the
  parts of a result, not their wording.
- Back-offs, time limits and refresh intervals of the connections may end at any moment.
- The event stream of `ConversationView` only says that something changed: that is what
  the page uses it for.

## Not modelled, and why

- Conversation telemetry: token counts and notices for display, written synchronously and
  read by nothing that decides.
- The inbox of other chats: a copy of recent chats in a file for Codex to read. Two writers
  of the snapshot may finish out of order, and the older one stays until the next.
- Workspace files and the checks of an attachment's name, type and path: file system input
  and output without state of their own.
- Authentication: one password, sessions in a table, in single synchronous steps.
- Migrations run before anything else; of the schema, the unique indexes the code relies
  on are modelled.
- The setup, settings, timers and workspace pages show what the server says and keep no
  state across requests.
- Controllers parse and forward; containers, scripts and the demo deploy.

What would come next: the dispatcher's theorems in scenarios with an overflow, a compaction
that fails in recovery as a scenario of its own, archiving of threads, the tickets of the
desktop's web socket, and model selection in the dispatcher (`ready` stands for it).
