---------------------------- MODULE TurnDispatch ----------------------------
(***************************************************************************)
(* The dispatcher of MissionsService: one queue of missions, one Codex     *)
(* app-server, one turn at a time.                                         *)
(*                                                                         *)
(* The server is a single Node process.  Between two awaits a handler runs *)
(* without interruption; the continuation of an await, and every           *)
(* queueMicrotask, is a job of the FIFO microtask queue `jobs', which is   *)
(* drained before the next macrotask (a request, a timer, a chunk read     *)
(* from Codex).  Lines of one chunk are handled back to back, so a line    *)
(* may be handled before the job the previous line queued: that is what    *)
(* "same_chunk" allows.                                                    *)
(*                                                                         *)
(* A mission is named by its enqueue sequence.                             *)
(***************************************************************************)
EXTENDS Naturals, Sequences, FiniteSets

CONSTANTS
  Mission,      \* the enqueue sequences a run may use
  Scenario,     \* sets of events: a behaviour performs those of one of them
  MaxTurns,     \* bound: turns the app-server opens in a run
  MaxResumes,   \* bound: user resumes of one mission
  MaxFaults,    \* bound: app-server exits, application restarts, timeouts,
                \* transport errors and automatic compactions together
  MaxChan       \* bound: lines written by the app-server and not yet read

ASSUME MissionAssumption == Mission \subseteq Nat \ {0} /\ IsFiniteSet(Mission)
ASSUME BoundAssumption == /\ MaxTurns \in Nat /\ MaxResumes \in Nat
                          /\ MaxFaults \in Nat /\ MaxChan \in Nat

NoMission == 0
NoTurn == 0
Turn == 1..MaxTurns

Status == {"absent", "queued", "starting", "running", "awaiting_approval",
           "completed", "failed", "interrupted", "cancelled"}
ActiveStatus == {"starting", "running", "awaiting_approval"}
PendingStatus == ActiveStatus \cup {"queued"}

\* A JSON-RPC request of the client: turn/start, turn/interrupt (of a user's
\* stop or of a context recovery) and thread/compact/start.  n numbers the
\* starts of one mission, as the request id does.
Request == [k : {"turn", "stop", "recInterrupt", "recCompact"}, m : Mission,
            t : Turn \cup {NoTurn}, n : Nat]
           \cup [k : {"manCompact"}, m : {NoMission}, t : {NoTurn}, n : {0}]
NoRequest == [k |-> "none", m |-> NoMission, t |-> NoTurn, n |-> 0]

\* Errors are told apart by isInfrastructureStartError.
Result == {"ok", "infra", "error", "completed", "failed", "interrupted"}

\* A line from the app-server: the reply to request q, or a notification.
Message == [k : {"reply"}, q : Request, t : Turn \cup {NoTurn}, r : Result]
           \cup [k : {"started", "completed", "ctx", "compacted", "ask"},
                 q : {NoRequest}, t : Turn \cup {NoTurn}, r : Result]

\* A microtask: a queued processNext, or the continuation of an await in
\* startMission, processNext, interrupt, recoverFromContextWindow or
\* compactConversation.
Job == [k : {"start", "end", "stop", "rec"}, m : Mission, t : Turn \cup {NoTurn}, r : Result]
       \cup [k : {"next", "man"}, m : {NoMission}, t : {NoTurn}, r : Result]
NextJob == [k |-> "next", m |-> NoMission, t |-> NoTurn, r |-> "ok"]
StartJob(m, t, r) == [k |-> "start", m |-> m, t |-> t, r |-> r]
EndJob(m, r) == [k |-> "end", m |-> m, t |-> NoTurn, r |-> r]
StopJob(m, r) == [k |-> "stop", m |-> m, t |-> NoTurn, r |-> r]
RecJob(m, r) == [k |-> "rec", m |-> m, t |-> NoTurn, r |-> r]
ManJob(r) == [k |-> "man", m |-> NoMission, t |-> NoTurn, r |-> r]

VARIABLES
  \* the missions table
  status,       \* missions.status
  thread,       \* codex_thread_id is not null
  turn,         \* codex_turn_id
  attempts,     \* recoveryMetadata.attempts: 0, or 1 for one or more
  \* MissionsService's fields
  active,       \* activeMissionId
  dispatching,
  compacting,
  recovery,     \* pendingCompactionRecoveryId
  armed,        \* compactionTimer is set
  retry,        \* dispatchRetryTimer is set
  paused,       \* dispatchPaused
  init,         \* an initializeConversation is due
  loaded,       \* loadedThreadId is the saved thread
  buffer,       \* pendingTurnNotifications: the outcome of an unattributed turn
  \* where the asynchronous functions are suspended
  stage,        \* startMission of each mission
  stopping,     \* interrupt() of each mission waits for turn/interrupt
  rec,          \* recoverFromContextWindow of each mission
  man,          \* compactConversation and clearContext
  jobs,         \* the microtask queue
  \* the app-server
  process,      \* CodexStatus.process
  inbox,        \* requests it has not handled
  live,         \* turns it is running
  compactions,  \* compactions it is running
  chan,         \* lines it wrote that are not read yet
  turns,        \* turns it has opened
  \* history and bounds
  owner,        \* the mission each turn was started for
  sends,        \* turn/start requests sent for each mission
  resumes,      \* user resumes of each mission
  stopped,      \* the user stopped the mission and has not resumed it
  faults,       \* faults so far
  env           \* the behaviour's scenario: what the environment may do

conv  == <<thread, turn, attempts, env>>
comp  == <<compacting, recovery, armed>>
flags == <<retry, paused, init, loaded, buffer>>
cont  == <<stopping, rec, man>>
codex == <<process, inbox, live, compactions, chan, turns>>
hist  == <<owner, sends, resumes, stopped, faults>>
disp  == <<status, active, dispatching, stage, jobs>>
vars  == <<disp, conv, comp, flags, cont, codex, hist>>

Stage == {"idle", "thread", "threadOk", "dir", "turn", "settled", "ending"}

DispTypes ==
  /\ status \in [Mission -> Status]
  /\ active \in Mission \cup {NoMission}
  /\ dispatching \in BOOLEAN
  /\ stage \in [Mission -> Stage]
  /\ jobs \in Seq(Job)
ConvTypes ==
  /\ thread \in [Mission -> BOOLEAN]
  /\ turn \in [Mission -> Turn \cup {NoTurn}]
  /\ attempts \in [Mission -> {0, 1}]
  /\ env \in Scenario
CompTypes ==
  /\ compacting \in BOOLEAN
  /\ recovery \in Mission \cup {NoMission}
  /\ armed \in BOOLEAN
FlagTypes ==
  /\ retry \in BOOLEAN /\ paused \in BOOLEAN /\ init \in BOOLEAN /\ loaded \in BOOLEAN
  /\ buffer \in [Turn -> Result \cup {"none"}]
ContTypes ==
  /\ stopping \in [Mission -> BOOLEAN]
  /\ rec \in [Mission -> {"idle", "interrupt", "compact"}]
  /\ man \in {"idle", "thread", "compact", "clear"}
CodexTypes ==
  /\ process \in {"down", "ready"}
  /\ inbox \in SUBSET Request
  /\ live \in SUBSET Turn
  /\ compactions \in Nat
  /\ chan \in Seq(Message)
  /\ turns \in 0..MaxTurns
HistTypes ==
  /\ owner \in [Turn -> Mission \cup {NoMission}]
  /\ sends \in [Mission -> Nat]
  /\ resumes \in [Mission -> Nat]
  /\ stopped \in [Mission -> BOOLEAN]
  /\ faults \in Nat
\* Every variable keeps its type.
TypeOK == /\ DispTypes /\ ConvTypes /\ CompTypes /\ FlagTypes /\ ContTypes
          /\ CodexTypes /\ HistTypes

Init ==
  /\ status = [m \in Mission |-> "absent"]
  /\ thread = [m \in Mission |-> FALSE]
  /\ turn = [m \in Mission |-> NoTurn]
  /\ attempts = [m \in Mission |-> 0]
  /\ active = NoMission
  /\ recovery = NoMission
  /\ dispatching = FALSE /\ compacting = FALSE /\ armed = FALSE
  /\ retry = FALSE /\ paused = FALSE /\ init = FALSE /\ loaded = FALSE
  /\ buffer = [t \in Turn |-> "none"]
  /\ stage = [m \in Mission |-> "idle"]
  /\ stopping = [m \in Mission |-> FALSE]
  /\ rec = [m \in Mission |-> "idle"]
  /\ man = "idle"
  /\ jobs = <<>>
  /\ process = "down"
  /\ inbox = {} /\ live = {} /\ compactions = 0 /\ chan = <<>> /\ turns = 0
  /\ owner = [t \in Turn |-> NoMission]
  /\ sends = [m \in Mission |-> 0]
  /\ resumes = [m \in Mission |-> 0]
  /\ stopped = [m \in Mission |-> FALSE]
  /\ faults = 0
  /\ env \in Scenario

-----------------------------------------------------------------------------
\* A macrotask runs once the microtask queue is drained.
Macrotask == jobs = <<>>

Fault(name) == name \in env /\ faults < MaxFaults /\ faults' = faults + 1

\* Operators named ...Mutant are wrong on purpose: each stands for a plausible
\* slip in the operator after it, and shows which property would catch it.

\* nextQueued: the queued mission with the smallest enqueue sequence.
NewestFirstMutant(m, st) ==
  /\ st[m] = "queued"
  /\ \A k \in Mission : st[k] = "queued" => m >= k
IsNextQueued(m, st) ==
  /\ st[m] = "queued"
  /\ \A k \in Mission : st[k] = "queued" => m <= k

\* clearContext has its thread/start under way: `clearingContext'.
Clearing == man = "clear"

\* processNext's guard.
BusyMutant(act, cmp) == ~dispatching /\ ~cmp /\ ~Clearing /\ ~paused /\ process = "ready"
ReadyMutant(act, cmp) == ~cmp /\ ~Clearing /\ ~paused /\ process = "ready"
UnclearedMutant(act, cmp) ==
  ~dispatching /\ act = NoMission /\ ~cmp /\ ~paused /\ process = "ready"
MayDispatch(act, cmp) ==
  ~dispatching /\ act = NoMission /\ ~cmp /\ ~Clearing /\ ~paused /\ process = "ready"

\* processNext and the synchronous head of startMission, run by a handler that
\* has already computed the statuses st, the active mission act, compacting
\* cmp, loaded ld and the jobs js.  With the thread already loaded
\* ensureConversationThread resolves at once.
ProcessNext(st, act, cmp, ld, js) ==
  \/ \E m \in Mission :
       /\ MayDispatch(act, cmp) /\ IsNextQueued(m, st)
       /\ status' = [st EXCEPT ![m] = "starting"]
       /\ active' = m
       /\ dispatching' = TRUE
       /\ stage' = [stage EXCEPT ![m] = IF ld THEN "threadOk" ELSE "thread"]
       /\ jobs' = IF ld THEN Append(js, StartJob(m, NoTurn, "ok")) ELSE js
  \/ /\ ~MayDispatch(act, cmp) \/ \A m \in Mission : st[m] # "queued"
     /\ status' = st /\ active' = act /\ jobs' = js
     /\ UNCHANGED <<dispatching, stage>>

\* finishActive: release the slot if m holds it; processNext is a microtask.
SilentFinishMutant(m, js) ==
  /\ active' = IF active = m THEN NoMission ELSE active
  /\ jobs' = js
FinishActive(m, js) ==
  /\ active' = IF active = m THEN NoMission ELSE active
  /\ jobs' = Append(js, NextJob)

\* turn/completed: any turn status but these two is a failure.
OutcomeStatus(r) == IF r \in {"completed", "interrupted"} THEN r ELSE "failed"

\* The one recovery attempt of a mission is still to be had, and it has a thread
\* to recover in.
EndlessRecoveryMutant(m) == thread[m]
Recoverable(m) == thread[m] /\ attempts[m] < 1

-----------------------------------------------------------------------------
\* Requests of the browser, WhatsApp commands and the Desk

\* create: ingress, capacity and sequence allocation are TurnQueue's.
Create(m) ==
  /\ Macrotask /\ ~Clearing
  /\ status[m] = "absent"
  /\ \A k \in Mission : k < m => status[k] # "absent"
  /\ ProcessNext([status EXCEPT ![m] = "queued"], active, compacting, loaded, jobs)
  /\ UNCHANGED <<conv, comp, flags, cont, codex, hist>>

\* interrupt of a queued mission.
CancelQueued(m) ==
  /\ "stop" \in env /\ Macrotask
  /\ status[m] = "queued"
  /\ status' = [status EXCEPT ![m] = "cancelled"]
  /\ stopped' = [stopped EXCEPT ![m] = TRUE]
  /\ UNCHANGED <<active, dispatching, stage, jobs, conv, comp, flags, cont, codex,
                 owner, sends, resumes, faults>>

\* interrupt up to the await of turn/interrupt.
Interrupt(m) ==
  /\ "stop" \in env /\ Macrotask
  /\ ~stopping[m]
  /\ status[m] \in ActiveStatus /\ thread[m] /\ turn[m] # NoTurn
  /\ status[m] = "starting" => "stop_starting" \in env
  /\ process = "ready"
  /\ stopping' = [stopping EXCEPT ![m] = TRUE]
  /\ inbox' = inbox \cup {[k |-> "stop", m |-> m, t |-> turn[m], n |-> 0]}
  /\ UNCHANGED <<disp, conv, comp, flags, rec, man, process, live, compactions,
                 chan, turns, hist>>

Resume(m) ==
  /\ "resume" \in env /\ Macrotask
  /\ status[m] = "interrupted" /\ thread[m]
  /\ stopping[m] => "resume_early" \in env
  /\ resumes[m] < MaxResumes
  /\ resumes' = [resumes EXCEPT ![m] = @ + 1]
  /\ stopped' = [stopped EXCEPT ![m] = FALSE]
  /\ attempts' = [attempts EXCEPT ![m] = 0]
  /\ ProcessNext([status EXCEPT ![m] = "queued"], active, compacting, loaded, jobs)
  /\ UNCHANGED <<thread, turn, env, comp, flags, cont, codex, owner, sends, faults>>

\* approve: answerServerRequest throws without a ready client.
Approve(m) ==
  /\ "approval" \in env /\ Macrotask
  /\ status[m] = "awaiting_approval" /\ process = "ready"
  /\ status' = [status EXCEPT ![m] = "running"]
  /\ UNCHANGED <<active, dispatching, stage, jobs, conv, comp, flags, cont, codex, hist>>

SetDispatchPaused(p) ==
  /\ "pause" \in env /\ Macrotask
  /\ paused # p
  /\ paused' = p
  /\ jobs' = IF p THEN jobs ELSE Append(jobs, NextJob)
  /\ UNCHANGED <<status, active, dispatching, stage, conv, comp, retry, init, loaded,
                 buffer, cont, codex, hist>>

\* compactConversation up to the await of the thread.  (One call at a time.)
CompactConversation ==
  /\ "manual" \in env /\ Macrotask
  /\ man = "idle" /\ process = "ready"
  /\ active = NoMission /\ \A m \in Mission : status[m] \notin PendingStatus
  /\ compacting' = TRUE
  /\ man' = "thread"
  /\ jobs' = IF loaded THEN Append(jobs, ManJob("ok")) ELSE jobs
  /\ UNCHANGED <<status, active, dispatching, stage, conv, recovery, armed, flags,
                 stopping, rec, codex, hist>>

\* clearContext up to the await of thread/start.
ClearContext ==
  /\ "clear" \in env /\ Macrotask
  /\ man = "idle" /\ process = "ready" /\ ~compacting
  /\ active = NoMission /\ \A m \in Mission : status[m] \notin PendingStatus /\ stage[m] # "thread"
  /\ man' = "clear"
  /\ UNCHANGED <<disp, conv, comp, flags, stopping, rec, codex, hist>>

\* thread/start answers and the new thread is saved; processNext is a microtask.
ContextCleared ==
  /\ Macrotask /\ Clearing /\ process = "ready"
  /\ man' = "idle" /\ loaded' = TRUE
  /\ jobs' = Append(jobs, NextJob)
  /\ UNCHANGED <<status, active, dispatching, stage, conv, comp, retry, paused, init,
                 buffer, stopping, rec, codex, hist>>

\* thread/start fails: an error, a timeout or the end of the app-server.
ClearFailed ==
  /\ jobs # <<>> /\ Head(jobs).k = "man" /\ Clearing
  /\ man' = "idle"
  /\ jobs' = Append(Tail(jobs), NextJob)
  /\ UNCHANGED <<status, active, dispatching, stage, conv, comp, flags, stopping, rec,
                 codex, hist>>

-----------------------------------------------------------------------------
\* The awaits of startMission and compactConversation settle

\* thread/resume (or thread/start) answers: one loadedThreadId for every waiter.
ThreadOpened ==
  /\ Macrotask /\ process = "ready" /\ ~loaded
  /\ loaded' = TRUE
  /\ \/ \E m \in Mission :
          /\ stage[m] = "thread"
          /\ stage' = [stage EXCEPT ![m] = "threadOk"]
          /\ jobs' = Append(jobs, StartJob(m, NoTurn, "ok"))
     \/ /\ man = "thread" /\ \A m \in Mission : stage[m] # "thread"
        /\ jobs' = Append(jobs, ManJob("ok"))
        /\ UNCHANGED stage
  /\ UNCHANGED <<status, active, dispatching, conv, comp, retry, paused, init, buffer,
                 cont, codex, hist>>

\* Both thread/resume and its replacement thread/start failed: "infra" when a
\* thread was saved (503, reconnecting), "error" on the very first thread.
ThreadFails ==
  /\ Macrotask /\ process = "ready" /\ ~loaded
  /\ Fault("thread_error")
  /\ \/ \E m \in Mission, r \in {"infra", "error"} :
          /\ stage[m] = "thread"
          /\ stage' = [stage EXCEPT ![m] = "settled"]
          /\ jobs' = Append(jobs, StartJob(m, NoTurn, r))
     \/ /\ man = "thread" /\ \A m \in Mission : stage[m] # "thread"
        /\ jobs' = Append(jobs, ManJob("infra"))
        /\ UNCHANGED stage
  /\ UNCHANGED <<status, active, dispatching, conv, comp, flags, cont, codex,
                 owner, sends, resumes, stopped>>

\* startTurn: the request goes out, or requireClient throws at once.
SendTurn(m, js) ==
  IF process = "ready"
    THEN /\ stage' = [stage EXCEPT ![m] = "turn"]
         /\ sends' = [sends EXCEPT ![m] = @ + 1]
         /\ inbox' = inbox \cup {[k |-> "turn", m |-> m, t |-> NoTurn, n |-> sends[m] + 1]}
         /\ jobs' = js
    ELSE /\ stage' = [stage EXCEPT ![m] = "settled"]
         /\ jobs' = Append(js, StartJob(m, NoTurn, "infra"))
         /\ UNCHANGED <<sends, inbox>>

\* The output directory of a browser mission is made; startMission goes on.
DirectoryMade(m) ==
  /\ Macrotask
  /\ stage[m] = "dir"
  /\ SendTurn(m, jobs)
  /\ UNCHANGED <<status, active, dispatching, conv, comp, flags, cont, process, live,
                 compactions, chan, turns, owner, resumes, stopped, faults>>

-----------------------------------------------------------------------------
\* Microtasks

RunNext ==
  /\ jobs # <<>> /\ Head(jobs).k = "next"
  /\ ProcessNext(status, active, compacting, loaded, Tail(jobs))
  /\ UNCHANGED <<conv, comp, flags, cont, codex, hist>>

\* startMission after ensureConversationThread; it awaits mkdir for missions of
\* the browser ("web").
RunThreadReady(m) ==
  /\ jobs # <<>> /\ Head(jobs).k = "start" /\ Head(jobs).m = m
  /\ stage[m] = "threadOk"
  /\ thread' = [thread EXCEPT ![m] = TRUE]
  /\ IF "web" \in env
       THEN /\ stage' = [stage EXCEPT ![m] = "dir"]
            /\ jobs' = Tail(jobs)
            /\ UNCHANGED <<sends, inbox>>
       ELSE SendTurn(m, Tail(jobs))
  /\ UNCHANGED <<status, active, dispatching, turn, attempts, env, comp, flags, cont, process,
                 live, compactions, chan, turns, owner, resumes, stopped, faults>>

\* startMission after startTurn: the update is unconditional, then the buffered
\* notifications of the turn are replayed; returning resolves processNext's await.
RunTurnStarted(m) ==
  /\ jobs # <<>> /\ Head(jobs).k = "start" /\ Head(jobs).m = m
  /\ stage[m] = "settled" /\ Head(jobs).r = "ok"
  /\ LET t == Head(jobs).t
         replay == buffer[t] # "none"
     IN  /\ turn' = [turn EXCEPT ![m] = t]
         /\ thread' = [thread EXCEPT ![m] = TRUE]
         /\ status' = [status EXCEPT ![m] = IF replay THEN OutcomeStatus(buffer[t]) ELSE "running"]
         /\ active' = IF replay /\ active = m THEN NoMission ELSE active
         /\ buffer' = [buffer EXCEPT ![t] = "none"]
         /\ jobs' = Append(IF replay THEN Append(Tail(jobs), NextJob) ELSE Tail(jobs),
                            EndJob(m, "ok"))
  /\ stage' = [stage EXCEPT ![m] = "ending"]
  /\ UNCHANGED <<dispatching, attempts, env, comp, retry, paused, init, loaded, cont, codex, hist>>

\* startMission rejects: its awaiting processNext is queued.
RunStartFailed(m) ==
  /\ jobs # <<>> /\ Head(jobs).k = "start" /\ Head(jobs).m = m
  /\ stage[m] = "settled" /\ Head(jobs).r # "ok"
  /\ stage' = [stage EXCEPT ![m] = "ending"]
  /\ jobs' = Append(Tail(jobs), EndJob(m, Head(jobs).r))
  /\ UNCHANGED <<status, active, dispatching, conv, comp, flags, cont, codex, hist>>

\* processNext after startMission returned.
RunDispatched(m) ==
  /\ jobs # <<>> /\ Head(jobs).k = "end" /\ Head(jobs).m = m /\ Head(jobs).r = "ok"
  /\ stage' = [stage EXCEPT ![m] = "idle"]
  /\ dispatching' = FALSE
  /\ jobs' = Tail(jobs)
  /\ UNCHANGED <<status, active, conv, comp, flags, cont, codex, hist>>

\* processNext's catch: the mission is left alone if it was interrupted
\* meanwhile, requeued on an infrastructure error, else failed.
RunDispatchFailed(m) ==
  /\ jobs # <<>> /\ Head(jobs).k = "end" /\ Head(jobs).m = m /\ Head(jobs).r # "ok"
  /\ LET infra == Head(jobs).r = "infra"
         aborted == status[m] = "interrupted"
     IN  /\ status' = [status EXCEPT ![m] = IF aborted THEN @ ELSE IF infra THEN "queued"
                                                                  ELSE "failed"]
         /\ attempts' = [attempts EXCEPT ![m] = IF infra /\ ~aborted THEN 1 ELSE @]
         /\ retry' = (retry \/ (infra /\ ~aborted))
         /\ jobs' = IF infra THEN Tail(jobs) ELSE Append(Tail(jobs), NextJob)
  /\ active' = NoMission
  /\ stage' = [stage EXCEPT ![m] = "idle"]
  /\ dispatching' = FALSE
  /\ UNCHANGED <<thread, turn, env, comp, paused, init, loaded, buffer, cont, codex, hist>>

\* interrupt after turn/interrupt: the status is overwritten unconditionally.
RunInterrupted(m) ==
  /\ jobs # <<>> /\ Head(jobs).k = "stop" /\ Head(jobs).m = m
  /\ stopping' = [stopping EXCEPT ![m] = FALSE]
  /\ status' = [status EXCEPT ![m] = "interrupted"]
  /\ stopped' = [stopped EXCEPT ![m] = TRUE]
  /\ FinishActive(m, Tail(jobs))
  /\ UNCHANGED <<dispatching, stage, conv, comp, flags, rec, man, codex,
                 owner, sends, resumes, faults>>

\* recoverFromContextWindow's and compactConversation's call of compactThread.
SendCompact(kind, m) ==
  inbox' = inbox \cup {[k |-> kind, m |-> m, t |-> NoTurn, n |-> 0]}

\* recoverFromContextWindow's catch.  No processNext is queued.
CompactionFailed(m) ==
  /\ compacting' = FALSE /\ armed' = FALSE /\ recovery' = NoMission
  /\ status' = [status EXCEPT ![m] = "failed"]

\* recoverFromContextWindow after turn/interrupt (its failure is ignored).
RunRecoveryCompact(m) ==
  /\ jobs # <<>> /\ Head(jobs).k = "rec" /\ Head(jobs).m = m
  /\ rec[m] = "interrupt"
  /\ jobs' = Tail(jobs)
  /\ IF process = "ready"
       THEN /\ rec' = [rec EXCEPT ![m] = "compact"]
            /\ SendCompact("recCompact", m)
            /\ UNCHANGED <<status, comp>>
       ELSE /\ rec' = [rec EXCEPT ![m] = "idle"]
            /\ CompactionFailed(m)
            /\ UNCHANGED inbox
  /\ UNCHANGED <<active, dispatching, stage, conv, flags, stopping, man, process, live,
                 compactions, chan, turns, hist>>

\* recoverFromContextWindow after thread/compact/start.
RunRecoveryAwait(m) ==
  /\ jobs # <<>> /\ Head(jobs).k = "rec" /\ Head(jobs).m = m
  /\ rec[m] = "compact"
  /\ jobs' = Tail(jobs)
  /\ rec' = [rec EXCEPT ![m] = "idle"]
  /\ IF Head(jobs).r = "ok"
       THEN armed' = (armed \/ compacting) /\ UNCHANGED <<status, compacting, recovery>>
       ELSE CompactionFailed(m)
  /\ UNCHANGED <<active, dispatching, stage, conv, flags, stopping, man, codex, hist>>

\* compactConversation after each of its awaits.  Its catch leaves
\* pendingCompactionRecoveryId alone and queues no processNext.
RunCompaction ==
  /\ jobs # <<>> /\ Head(jobs).k = "man" /\ ~Clearing
  /\ jobs' = Tail(jobs)
  /\ \/ /\ man = "thread" /\ Head(jobs).r = "ok" /\ process = "ready"
        /\ man' = "compact"
        /\ SendCompact("manCompact", NoMission)
        /\ UNCHANGED <<compacting, armed>>
     \/ /\ man = "compact" /\ Head(jobs).r = "ok"
        /\ man' = "idle"
        /\ armed' = (armed \/ compacting)
        /\ UNCHANGED <<compacting, inbox>>
     \/ /\ Head(jobs).r # "ok" \/ (man = "thread" /\ process # "ready")
        /\ man' = "idle"
        /\ compacting' = FALSE /\ armed' = FALSE
        /\ UNCHANGED inbox
  /\ UNCHANGED <<status, active, dispatching, stage, conv, recovery, flags, stopping, rec,
                 process, live, compactions, chan, turns, hist>>

-----------------------------------------------------------------------------
\* Timers

\* The 120 s compaction timeout.
CompactionTimeout ==
  /\ Macrotask /\ armed
  /\ armed' = FALSE
  /\ IF compacting
       THEN /\ compacting' = FALSE /\ recovery' = NoMission
            /\ ProcessNext([m \in Mission |-> IF m = recovery THEN "failed" ELSE status[m]],
                           active, FALSE, loaded, jobs)
       ELSE UNCHANGED <<disp, compacting, recovery>>
  /\ UNCHANGED <<conv, flags, cont, codex, hist>>

\* The 5 s dispatch retry: initializeConversation, if Codex is ready.
DispatchRetry ==
  /\ Macrotask /\ retry
  /\ retry' = FALSE
  /\ init' = (init \/ process = "ready")
  /\ UNCHANGED <<disp, conv, comp, paused, loaded, buffer, cont, codex, hist>>

\* initializeConversation: the outcome of opening the thread is ignored.
InitializeConversation ==
  /\ Macrotask /\ init /\ process = "ready"
  /\ \A m \in Mission : stage[m] # "thread"
  /\ man # "thread"
  /\ init' = FALSE
  /\ \/ loaded' = TRUE /\ faults' = faults
     \/ ~loaded /\ loaded' = FALSE /\ Fault("thread_error")
  /\ ProcessNext(status, active, compacting, loaded', jobs)
  /\ UNCHANGED <<conv, comp, retry, paused, buffer, cont, codex,
                 owner, sends, resumes, stopped>>

\* The client's 45 s request timeout: "Codex request timed out" is no
\* infrastructure error.
RequestTimeout ==
  /\ Macrotask /\ Fault("timeout")
  /\ \/ \E m \in Mission :
          /\ stage[m] = "turn"
          /\ stage' = [stage EXCEPT ![m] = "settled"]
          /\ jobs' = Append(jobs, StartJob(m, NoTurn, "error"))
          /\ UNCHANGED stopping
     \/ \E m \in Mission :
          /\ stopping[m]
          /\ stopping' = [stopping EXCEPT ![m] = FALSE]
          /\ UNCHANGED <<stage, jobs>>
     \/ \E m \in Mission :
          /\ rec[m] # "idle"
          /\ jobs' = Append(jobs, RecJob(m, "error"))
          /\ UNCHANGED <<stage, stopping>>
     \/ /\ man \in {"compact", "clear"}
        /\ jobs' = Append(jobs, ManJob("error"))
        /\ UNCHANGED <<stage, stopping>>
  /\ UNCHANGED <<status, active, dispatching, conv, comp, flags, rec, man, codex,
                 owner, sends, resumes, stopped>>

-----------------------------------------------------------------------------
\* handleNotification, handleServerRequest and the client's responses

\* A line is read in a chunk of its own, or in the chunk of the line before it.
Reading(kind) ==
  /\ chan # <<>> /\ Head(chan).k = kind
  /\ Macrotask \/ "same_chunk" \in env
  /\ chan' = Tail(chan)

\* findByTurn: the first row with this codex_turn_id.
FoundByTurn(m, t) == turn[m] = t /\ \A k \in Mission : turn[k] = t => m <= k
Unattributed(t) == \A m \in Mission : turn[m] # t
ActiveOnThread == active # NoMission /\ thread[active]

\* handleResponse settles a pending request; a late answer finds none.
HandleReply ==
  /\ Reading("reply")
  /\ LET q == Head(chan).q
         r == Head(chan).r
     IN \/ /\ q.k = "turn" /\ stage[q.m] = "turn" /\ q.n = sends[q.m]
           /\ stage' = [stage EXCEPT ![q.m] = "settled"]
           /\ jobs' = Append(jobs, StartJob(q.m, Head(chan).t, r))
           /\ UNCHANGED stopping
        \/ /\ q.k = "stop" /\ stopping[q.m]
           /\ jobs' = IF r = "ok" THEN Append(jobs, StopJob(q.m, "ok")) ELSE jobs
           /\ stopping' = IF r = "ok" THEN stopping ELSE [stopping EXCEPT ![q.m] = FALSE]
           /\ UNCHANGED stage
        \/ /\ \/ q.k = "recInterrupt" /\ rec[q.m] = "interrupt"
              \/ q.k = "recCompact" /\ rec[q.m] = "compact"
           /\ jobs' = Append(jobs, RecJob(q.m, r))
           /\ UNCHANGED <<stage, stopping>>
        \/ /\ q.k = "manCompact" /\ man = "compact"
           /\ jobs' = Append(jobs, ManJob(r))
           /\ UNCHANGED <<stage, stopping>>
        \/ /\ q.k = "turn" => ~(stage[q.m] = "turn" /\ q.n = sends[q.m])
           /\ q.k = "stop" => ~stopping[q.m]
           /\ q.k = "recInterrupt" => rec[q.m] # "interrupt"
           /\ q.k = "recCompact" => rec[q.m] # "compact"
           /\ q.k = "manCompact" => man # "compact"
           /\ UNCHANGED <<stage, jobs, stopping>>
  /\ UNCHANGED <<status, active, dispatching, conv, comp, flags, rec, man, process,
                 inbox, live, compactions, turns, hist>>

\* turn/started of an unknown turn is attributed to the active mission.
HandleTurnStarted ==
  /\ Reading("started")
  /\ LET t == Head(chan).t
     IN  turn' = IF Unattributed(t) /\ ActiveOnThread THEN [turn EXCEPT ![active] = t] ELSE turn
  /\ UNCHANGED <<disp, thread, attempts, env, comp, flags, cont, process, inbox, live,
                 compactions, turns, hist>>

\* A finished compaction: the mission waiting for it is queued again.
FreedSlotMutant ==
  /\ compacting' = FALSE /\ armed' = FALSE /\ recovery' = NoMission
  /\ ProcessNext([m \in Mission |-> IF m = recovery THEN "queued" ELSE status[m]],
                 NoMission, FALSE, loaded, jobs)
CompactionEnds ==
  /\ compacting' = FALSE /\ armed' = FALSE /\ recovery' = NoMission
  /\ ProcessNext([m \in Mission |-> IF m = recovery THEN "queued" ELSE status[m]],
                 active, FALSE, loaded, jobs)

HandleCompacted ==
  /\ Reading("compacted")
  /\ CompactionEnds
  /\ UNCHANGED <<conv, flags, cont, process, inbox, live, compactions, turns, hist>>

\* turn/completed of a mission's turn, of an unknown turn while a mission is
\* active on the thread (buffered), or of a compaction's own turn.
HandleTurnCompleted ==
  /\ Reading("completed")
  /\ LET t == Head(chan).t
         r == Head(chan).r
     IN \/ \E m \in Mission :
             /\ FoundByTurn(m, t)
             /\ status' = [status EXCEPT ![m] = OutcomeStatus(r)]
             /\ FinishActive(m, jobs)
             /\ UNCHANGED <<dispatching, stage, comp, buffer>>
        \/ /\ Unattributed(t) /\ ActiveOnThread
           /\ buffer' = [buffer EXCEPT ![t] = r]
           /\ UNCHANGED <<disp, comp>>
        \/ /\ Unattributed(t) /\ ~ActiveOnThread
           /\ IF compacting THEN CompactionEnds ELSE UNCHANGED <<disp, comp>>
           /\ UNCHANGED buffer
  /\ UNCHANGED <<conv, retry, paused, init, loaded, cont, process, inbox, live,
                 compactions, turns, hist>>

\* recoverFromContextWindow up to its first await.
RecoverFromContextWindow(m) ==
  IF ~Recoverable(m)
    THEN /\ status' = [status EXCEPT ![m] = "failed"]
         /\ FinishActive(m, jobs)
         /\ UNCHANGED <<attempts, comp, rec, inbox>>
    ELSE /\ status' = [status EXCEPT ![m] = "interrupted"]
         /\ attempts' = [attempts EXCEPT ![m] = 1]
         /\ active' = NoMission
         /\ recovery' = m /\ compacting' = TRUE
         /\ rec' = [rec EXCEPT ![m] = "interrupt"]
         /\ inbox' = inbox \cup {[k |-> "recInterrupt", m |-> m, t |-> turn[m], n |-> 0]}
         /\ UNCHANGED <<armed, jobs>>

\* A payload that mentions contextWindowExceeded.
HandleContextError ==
  /\ Reading("ctx")
  /\ \/ \E m \in Mission : FoundByTurn(m, Head(chan).t) /\ RecoverFromContextWindow(m)
     \/ /\ Unattributed(Head(chan).t)
        /\ UNCHANGED <<status, active, attempts, comp, rec, inbox, jobs>>
  /\ UNCHANGED <<dispatching, stage, thread, turn, env, flags, stopping, man, process, live,
                 compactions, turns, hist>>

\* handleServerRequest: the status is not looked at.
HandleServerRequest ==
  /\ Reading("ask")
  /\ LET t == Head(chan).t
     IN  status' = [m \in Mission |-> IF FoundByTurn(m, t) THEN "awaiting_approval" ELSE status[m]]
  /\ UNCHANGED <<active, dispatching, stage, jobs, conv, comp, flags, cont, process, inbox,
                 live, compactions, turns, hist>>

-----------------------------------------------------------------------------
\* Loss of the app-server, and of the application

\* rejectAll: one rejection per pending request, in an order we leave open.
PendingRejections ==
  {StartJob(m, NoTurn, "infra") : m \in {x \in Mission : stage[x] \in {"thread", "turn"}}}
  \cup {RecJob(m, "infra") : m \in {x \in Mission : rec[x] # "idle"}}
  \cup (IF man # "idle" THEN {ManJob("infra")} ELSE {})
Orders(S) == {f \in [1..Cardinality(S) -> S] : \A i, j \in DOMAIN f : f[i] = f[j] => i = j}

\* The mission handleCodexExit settles: the active one, or with none active
\* the first whose status says it is.
ExitMission(m) ==
  IF active # NoMission
    THEN m = active
    ELSE /\ status[m] \in ActiveStatus
         /\ \A k \in Mission : status[k] \in ActiveStatus => m <= k

HandleCodexExit ==
  /\ active' = NoMission
  /\ loaded' = FALSE
  /\ \/ \E m \in Mission :
          /\ ExitMission(m) /\ status[m] \in ActiveStatus
          /\ status' = [status EXCEPT ![m] = IF Recoverable(m) THEN "queued" ELSE "interrupted"]
          /\ attempts' = [attempts EXCEPT ![m] = IF Recoverable(m) THEN 1 ELSE @]
     \/ /\ \A m \in Mission : ~(ExitMission(m) /\ status[m] \in ActiveStatus)
        /\ UNCHANGED <<status, attempts>>

\* The app-server dies: its turns and unread lines are gone, the client
\* rejects what it waits for, then MissionsService's exit handler runs.
CodexExit ==
  /\ Macrotask /\ process = "ready"
  /\ Fault("exit")
  /\ process' = "down" /\ inbox' = {} /\ live' = {} /\ compactions' = 0 /\ chan' = <<>>
  /\ jobs' \in Orders(PendingRejections)
  /\ stage' = [m \in Mission |-> IF stage[m] \in {"thread", "turn"} THEN "settled" ELSE stage[m]]
  /\ stopping' = [m \in Mission |-> FALSE]
  /\ HandleCodexExit
  /\ init' = FALSE
  /\ UNCHANGED <<dispatching, thread, turn, env, comp, retry, paused, buffer, rec, man, turns,
                 owner, sends, resumes, stopped>>

\* startClient succeeds: "ready", then the ready event.
CodexReady ==
  /\ Macrotask /\ process = "down"
  /\ process' = "ready"
  /\ init' = TRUE
  /\ UNCHANGED <<disp, conv, comp, retry, paused, loaded, buffer, cont, inbox, live,
                 compactions, chan, turns, hist>>

\* The missions onModuleInit settles.
StoppedTooMutant == ActiveStatus \cup {"interrupted"}
LostStatus == ActiveStatus

\* The application dies at any point and starts again: onModuleInit settles
\* every mission that was active.  (recoverInfrastructureFailedTurns finds none:
\* processNext queues an infrastructure failure, it never stores one as failed.)
ApplicationRestart ==
  /\ Fault("restart")
  /\ status' = [m \in Mission |-> IF status[m] \notin LostStatus THEN status[m]
                                  ELSE IF Recoverable(m) THEN "queued" ELSE "interrupted"]
  /\ attempts' = [m \in Mission |->
                    IF status[m] \in LostStatus /\ Recoverable(m) THEN 1 ELSE attempts[m]]
  /\ active' = NoMission /\ recovery' = NoMission
  /\ dispatching' = FALSE /\ compacting' = FALSE /\ armed' = FALSE
  /\ retry' = FALSE /\ paused' = FALSE /\ init' = FALSE /\ loaded' = FALSE
  /\ buffer' = [t \in Turn |-> "none"]
  /\ stage' = [m \in Mission |-> "idle"]
  /\ stopping' = [m \in Mission |-> FALSE]
  /\ rec' = [m \in Mission |-> "idle"]
  /\ man' = "idle" /\ jobs' = <<>>
  /\ process' = "down" /\ inbox' = {} /\ live' = {} /\ compactions' = 0 /\ chan' = <<>>
  /\ UNCHANGED <<thread, turn, env, turns, owner, sends, resumes, stopped>>

-----------------------------------------------------------------------------
\* The app-server (external)

Reply(q, t, r) == [k |-> "reply", q |-> q, t |-> t, r |-> r]
Note(k, t, r) == [k |-> k, q |-> NoRequest, t |-> t, r |-> r]
Write(lines) == /\ Len(chan) + Len(lines) <= MaxChan
                /\ chan' = chan \o lines

\* A turn opens: the response and (usually) turn/started, in either order.
OpenTurn(q) ==
  /\ q.k = "turn" /\ turns < MaxTurns
  /\ turns' = turns + 1
  /\ live' = live \cup {turns + 1}
  /\ owner' = [owner EXCEPT ![turns + 1] = q.m]
  /\ inbox' = inbox \ {q}
  /\ LET reply == Reply(q, turns + 1, "ok")
         note  == Note("started", turns + 1, "ok")
     IN \/ Write(<<reply, note>>)
        \/ "announce" \in env /\ (Write(<<note, reply>>) \/ Write(<<reply>>))
  /\ UNCHANGED <<disp, conv, comp, flags, cont, process, compactions,
                 sends, resumes, stopped, faults>>

RejectTurn(q) ==
  /\ q.k = "turn" /\ Fault("reject")
  /\ inbox' = inbox \ {q}
  /\ Write(<<Reply(q, NoTurn, "error")>>)
  /\ UNCHANGED <<disp, conv, comp, flags, cont, process, live, compactions, turns,
                 owner, sends, resumes, stopped>>

FinishTurn(t, r) ==
  /\ t \in live
  /\ live' = live \ {t}
  /\ Write(<<Note("completed", t, r)>>)
  /\ UNCHANGED <<disp, conv, comp, flags, cont, process, inbox, compactions, turns, hist>>

\* The context window overflows: an error notification, and with "ctx_twice"
\* the failed turn/completed that carries the same error information.
OverflowTurn(t) ==
  /\ t \in live /\ "context" \in env
  /\ live' = live \ {t}
  /\ \/ Write(<<Note("ctx", t, "failed")>>)
     \/ "ctx_twice" \in env /\ Write(<<Note("ctx", t, "failed"), Note("ctx", t, "failed")>>)
  /\ UNCHANGED <<disp, conv, comp, flags, cont, process, inbox, compactions, turns, hist>>

\* Codex compacts the thread on its own in the course of a turn.
CompactAutomatically(t) ==
  /\ t \in live /\ Fault("autocompact")
  /\ Write(<<Note("compacted", NoTurn, "ok")>>)
  /\ UNCHANGED <<disp, conv, comp, flags, cont, process, inbox, live, compactions, turns,
                 owner, sends, resumes, stopped>>

AskApproval(t) ==
  /\ t \in live /\ "approval" \in env
  /\ Write(<<Note("ask", t, "ok")>>)
  /\ UNCHANGED <<disp, conv, comp, flags, cont, process, inbox, live, compactions, turns, hist>>

\* turn/interrupt of a live turn ends it; of another turn it changes nothing.
ServeInterrupt(q) ==
  /\ q.k \in {"stop", "recInterrupt"}
  /\ inbox' = inbox \ {q}
  /\ live' = live \ {q.t}
  /\ IF q.t \in live
       THEN LET reply == Reply(q, q.t, "ok")
                end == Note("completed", q.t, "interrupted")
            IN \/ Write(<<end, reply>>)
               \/ "late_end" \in env /\ Write(<<reply, end>>)
       ELSE \E r \in {"ok", "error"} : Write(<<Reply(q, q.t, r)>>)
  /\ UNCHANGED <<disp, conv, comp, flags, cont, process, compactions, turns, hist>>

ServeCompact(q) ==
  /\ q.k \in {"recCompact", "manCompact"} /\ compactions = 0
  /\ inbox' = inbox \ {q}
  /\ \/ /\ Write(<<Reply(q, NoTurn, "ok")>>)
        /\ compactions' = compactions + 1 /\ faults' = faults
     \/ /\ Fault("compact_error")
        /\ Write(<<Reply(q, NoTurn, "error")>>)
        /\ UNCHANGED compactions
  /\ UNCHANGED <<disp, conv, comp, flags, cont, process, live, turns,
                 owner, sends, resumes, stopped>>

\* A compaction ends with its item, or with the end of a turn of its own.
FinishCompaction ==
  /\ compactions > 0
  /\ compactions' = compactions - 1
  /\ \/ Write(<<Note("compacted", NoTurn, "ok")>>) /\ turns' = turns
     \/ /\ "compact_turn" \in env /\ turns < MaxTurns
        /\ turns' = turns + 1
        /\ Write(<<Note("completed", turns + 1, "completed")>>)
  /\ UNCHANGED <<disp, conv, comp, flags, cont, process, inbox, live, hist>>

-----------------------------------------------------------------------------
User ==
  \/ \E m \in Mission : Create(m) \/ CancelQueued(m) \/ Interrupt(m) \/ Resume(m) \/ Approve(m)
  \/ \E p \in BOOLEAN : SetDispatchPaused(p)
  \/ CompactConversation \/ ClearContext

Microtask ==
  \/ RunNext \/ RunCompaction \/ ClearFailed
  \/ \E m \in Mission :
       \/ RunThreadReady(m) \/ RunTurnStarted(m) \/ RunStartFailed(m)
       \/ RunDispatched(m) \/ RunDispatchFailed(m)
       \/ RunInterrupted(m) \/ RunRecoveryCompact(m) \/ RunRecoveryAwait(m)

Settle == ThreadOpened \/ ContextCleared \/ \E m \in Mission : DirectoryMade(m)

Timer == CompactionTimeout \/ DispatchRetry \/ InitializeConversation

Read == \/ HandleReply \/ HandleTurnStarted \/ HandleTurnCompleted
        \/ HandleCompacted \/ HandleContextError \/ HandleServerRequest

ServeRequest == \E q \in inbox : OpenTurn(q) \/ ServeInterrupt(q) \/ ServeCompact(q)
EndTurn == \E t \in live, r \in {"completed", "failed"} : FinishTurn(t, r)

AppServer ==
  \/ ServeRequest \/ EndTurn \/ FinishCompaction
  \/ \E q \in inbox : RejectTurn(q)
  \/ \E t \in live : OverflowTurn(t) \/ CompactAutomatically(t) \/ AskApproval(t)

Failure == CodexExit \/ ApplicationRestart \/ ThreadFails \/ RequestTimeout

Next == User \/ Microtask \/ Settle \/ Timer \/ Read \/ CodexReady \/ AppServer \/ Failure

Spec == Init /\ [][Next]_vars

\* The event loop runs what is due; the app-server answers requests, ends its
\* turns and is restarted (scheduleRestart retries for ever).  A compaction
\* need not end: its timeout is the code's.
Fairness ==
  /\ WF_vars(Microtask) /\ WF_vars(Settle) /\ WF_vars(Timer) /\ WF_vars(Read)
  /\ WF_vars(CodexReady) /\ WF_vars(ServeRequest) /\ WF_vars(EndTurn)
FairSpec == Spec /\ Fairness

-----------------------------------------------------------------------------
\* Properties

\* At most one startMission is in flight, whatever stops, exits, early or late
\* answers do: `dispatching' is a lock that no handler but processNext touches.
AtMostOneStart ==
  \A m, n \in Mission : stage[m] # "idle" /\ stage[n] # "idle" => m = n

\* What makes it a lock: `dispatching' is set exactly while a startMission is
\* suspended or due, and there is at most one job that continues one, for the
\* stage it is in.
Continues(job) == job.k \in {"start", "end"}
Locked(d, s, js) ==
  /\ d <=> \E m \in Mission : s[m] # "idle"
  /\ \A m, n \in Mission : s[m] # "idle" /\ s[n] # "idle" => m = n
  /\ \A i \in DOMAIN js :
       /\ js[i].k = "start" => s[js[i].m] \in {"threadOk", "settled"}
       /\ js[i].k = "end" => s[js[i].m] = "ending"
  /\ \A i, j \in DOMAIN js : Continues(js[i]) /\ Continues(js[j]) => i = j
DispatchLock == Locked(dispatching, stage, jobs)

\* The thread is not replaced under a turn: no mission is started, or at work,
\* while clearContext awaits the new thread, whatever is resumed meanwhile.
ClearsAlone == Clearing => active = NoMission /\ \A m \in Mission : stage[m] = "idle"

\* A mission's prompt is sent at most twice per user resume: the run and one
\* inspect-then-continue recovery, however often Codex or the server dies.
BoundedReplay == \A m \in Mission : sends[m] <= 2 * (1 + resumes[m])

\* No turn/start is given up while the app-server may still open its turn.
InTime == "timeout" \notin env

\* Codex never runs two turns of the conversation at once, in time.
OneTurnAtATime == InTime => \A t, u \in live : t = u

\* "A user stop is terminal": until the user resumes it, a stopped mission is
\* neither queued nor run again, whatever recovery was under way when it was
\* stopped.
UserStopIsTerminal == \A m \in Mission : stopped[m] => status[m] \notin PendingStatus

\* "Codex events are attributed by exact Codex turn ID": a mission never
\* carries the turn id of a turn that was started for another mission, in time.
ExactAttribution ==
  InTime => \A m \in Mission : turn[m] # NoTurn => owner[turn[m]] = m

\* A live turn is watched: its mission is the active one, or is being started
\* or stopped, or an end of it has been seen.
LiveTurnIsActive ==
  InTime => \A t \in live : Macrotask /\ turn[owner[t]] = t /\ stage[owner[t]] = "idle"
                    => active = owner[t]

\* A queued mission is dispatched (or cancelled) in the end, unless the operator
\* holds the queue up: by a pause, an approval, a compaction of his own.
Attended == env \cap {"pause", "approval", "manual", "compact_error"} # {}
QueueDrains == \A m \in Mission :
  (status[m] = "queued" /\ ~Attended) ~> (status[m] # "queued")

\* The dispatcher is a serial queue: SerialQueue implemented, with a task's
\* phase read off its mission's status.
TaskPhase == [m \in Mission |->
  CASE status[m] = "absent" -> "new"
    [] status[m] = "queued" -> "waiting"
    [] status[m] \in ActiveStatus -> "working"
    [] OTHER -> "done"]
Serial == INSTANCE SerialQueue WITH Task <- Mission, phase <- TaskPhase
ServesSerially == Serial!Spec
=============================================================================
