------------------------- MODULE TurnDispatchProofs -------------------------
(***************************************************************************)
(* Proofs about TurnDispatch for every set of missions, every scenario and *)
(* every bound: its types, the lock that admits one startMission and the   *)
(* attribution of turns in every scenario; then, in the orderly scenarios, *)
(* what is known of every state (`Known'), and from it one turn at a time, *)
(* that a live turn is watched, that a user stop is terminal, that the     *)
(* context is cleared alone, that a prompt is sent at most twice, and that *)
(* the dispatcher is a SerialQueue.                                        *)
(***************************************************************************)
EXTENDS TurnDispatch, SequenceTheorems, FiniteSetTheorems, TLAPS

-----------------------------------------------------------------------------
\* Lemmas about the operators the actions are built from

\* Every job the handlers queue is a Job.
LEMMA JobTypes ==
  /\ NextJob \in Job
  /\ \A r \in Result : ManJob(r) \in Job
  /\ \A m \in Mission, r \in Result :
       EndJob(m, r) \in Job /\ StopJob(m, r) \in Job /\ RecJob(m, r) \in Job
  /\ \A m \in Mission, t \in Turn \cup {NoTurn}, r \in Result : StartJob(m, t, r) \in Job
BY DEF Job, NextJob, ManJob, EndJob, StopJob, RecJob, StartJob, Result, NoMission, NoTurn

\* Popping and appending keep a queue of jobs.
LEMMA QueueTypes ==
  ASSUME NEW js \in Seq(Job)
  PROVE  /\ \A j \in Job : Append(js, j) \in Seq(Job)
         /\ js # <<>> => Head(js) \in Job /\ Tail(js) \in Seq(Job)
OBVIOUS

\* processNext keeps the types of what it assigns, whatever state its caller
\* hands it.
LEMMA ProcessNextTypes ==
  ASSUME DispTypes,
         NEW st \in [Mission -> Status], NEW act \in Mission \cup {NoMission},
         NEW cmp, NEW ld, NEW js \in Seq(Job),
         ProcessNext(st, act, cmp, ld, js)
  PROVE  DispTypes'
<1>1. CASE /\ status' = st /\ active' = act /\ jobs' = js
           /\ UNCHANGED <<dispatching, stage>>
  BY <1>1 DEF DispTypes
<1>2. CASE \E m \in Mission :
             /\ status' = [st EXCEPT ![m] = "starting"]
             /\ active' = m
             /\ dispatching' = TRUE
             /\ stage' = [stage EXCEPT ![m] = IF ld THEN "threadOk" ELSE "thread"]
             /\ jobs' = IF ld THEN Append(js, StartJob(m, NoTurn, "ok")) ELSE js
  <2>1. PICK m \in Mission :
             /\ status' = [st EXCEPT ![m] = "starting"]
             /\ active' = m
             /\ dispatching' = TRUE
             /\ stage' = [stage EXCEPT ![m] = IF ld THEN "threadOk" ELSE "thread"]
             /\ jobs' = IF ld THEN Append(js, StartJob(m, NoTurn, "ok")) ELSE js
    BY <1>2
  <2>2. StartJob(m, NoTurn, "ok") \in Job
    BY JobTypes DEF Result
  <2>3. jobs' \in Seq(Job)
    BY <2>1, <2>2, QueueTypes
  <2>4. QED
    BY <2>1, <2>3 DEF DispTypes, Status, Stage
<1>3. QED
  BY <1>1, <1>2 DEF ProcessNext, MayDispatch

\* So does finishActive.
LEMMA FinishActiveTypes ==
  ASSUME DispTypes, NEW m \in Mission, NEW js \in Seq(Job), FinishActive(m, js)
  PROVE  active' \in Mission \cup {NoMission} /\ jobs' \in Seq(Job)
BY JobTypes, QueueTypes DEF DispTypes, FinishActive

\* And startTurn.
LEMMA SendTurnTypes ==
  ASSUME TypeOK, NEW m \in Mission, NEW js \in Seq(Job), SendTurn(m, js)
  PROVE  /\ stage' \in [Mission -> Stage] /\ jobs' \in Seq(Job)
         /\ sends' \in [Mission -> Nat] /\ inbox' \in SUBSET Request
<1>1. StartJob(m, NoTurn, "infra") \in Job
  BY JobTypes DEF Result
<1>2. Append(js, StartJob(m, NoTurn, "infra")) \in Seq(Job)
  BY <1>1, QueueTypes
<1>3. [k |-> "turn", m |-> m, t |-> NoTurn, n |-> sends[m] + 1] \in Request
  BY DEF Request, TypeOK, HistTypes
<1>4. CASE process = "ready"
  <2>1. stage' \in [Mission -> Stage] /\ jobs' \in Seq(Job)
    BY <1>4 DEF SendTurn, TypeOK, DispTypes, Stage
  <2>2. sends' \in [Mission -> Nat]
    BY <1>4 DEF SendTurn, TypeOK, HistTypes
  <2>3. inbox' \in SUBSET Request
    BY <1>3, <1>4 DEF SendTurn, TypeOK, CodexTypes
  <2>4. QED
    BY <2>1, <2>2, <2>3
<1>5. CASE process # "ready"
  BY <1>2, <1>5 DEF SendTurn, TypeOK, DispTypes, HistTypes, CodexTypes, Stage
<1>6. QED
  BY <1>4, <1>5

\* The head of the microtask queue and what remains of it.
LEMMA HeadJobTypes ==
  ASSUME DispTypes, jobs # <<>>
  PROVE  /\ Tail(jobs) \in Seq(Job)
         /\ Head(jobs).t \in Turn \cup {NoTurn} /\ Head(jobs).r \in Result
<1>1. Head(jobs) \in Job /\ Tail(jobs) \in Seq(Job)
  BY DEF DispTypes
<1>2. QED
  BY <1>1 DEF Job

\* The lines the app-server writes are messages.
LEMMA MessageTypes ==
  /\ \A k \in {"started", "completed", "ctx", "compacted", "ask"},
       t \in Turn \cup {NoTurn}, r \in Result : Note(k, t, r) \in Message
  /\ \A q \in Request, t \in Turn \cup {NoTurn}, r \in Result : Reply(q, t, r) \in Message
BY DEF Message, Note, Reply

\* Writing one or two of them keeps the channel's type.
LEMMA WriteTypes ==
  ASSUME CodexTypes
  PROVE  /\ \A a \in Message : Write(<<a>>) => chan' \in Seq(Message)
         /\ \A a, b \in Message : Write(<<a, b>>) => chan' \in Seq(Message)
<1>1. ASSUME NEW a \in Message, Write(<<a>>) PROVE chan' \in Seq(Message)
  <2>1. <<a>> \in Seq(Message)
    OBVIOUS
  <2>2. QED
    BY <1>1, <2>1 DEF Write, CodexTypes
<1>2. ASSUME NEW a \in Message, NEW b \in Message, Write(<<a, b>>)
      PROVE  chan' \in Seq(Message)
  <2>1. <<a, b>> \in Seq(Message)
    OBVIOUS
  <2>2. QED
    BY <1>2, <2>1 DEF Write, CodexTypes
<1>3. QED
  BY <1>1, <1>2

\* What a reader finds in a line.
LEMMA ReadTypes ==
  ASSUME CodexTypes, NEW kind, Reading(kind)
  PROVE  /\ chan' \in Seq(Message)
         /\ Head(chan).t \in Turn \cup {NoTurn} /\ Head(chan).r \in Result
         /\ kind = "reply" => Head(chan).q \in Request
<1>1. Head(chan) \in Message /\ chan' \in Seq(Message) /\ Head(chan).k = kind
  BY DEF CodexTypes, Reading
<1>2. QED
  BY <1>1 DEF Message

\* A request that is not the manual compaction's belongs to a mission.
LEMMA RequestMission ==
  ASSUME NEW q \in Request, q.k # "manCompact"
  PROVE  q.m \in Mission /\ q.t \in Turn \cup {NoTurn}
BY DEF Request

\* The rejections of an app-server exit are finitely many jobs.
LEMMA RejectionTypes ==
  ASSUME NEW f \in Orders(PendingRejections)
  PROVE  f \in Seq(Job) /\ IsFiniteSet(PendingRejections)
<1> DEFINE A == {m \in Mission : stage[m] \in {"thread", "turn"}}
           B == {m \in Mission : rec[m] # "idle"}
           FA == [m \in A |-> StartJob(m, NoTurn, "infra")]
           FB == [m \in B |-> RecJob(m, "infra")]
           SA == {StartJob(m, NoTurn, "infra") : m \in A}
           SB == {RecJob(m, "infra") : m \in B}
           SC == IF man # "idle" THEN {ManJob("infra")} ELSE {}
<1>1. PendingRejections = (SA \cup SB) \cup SC
  BY DEF PendingRejections
<1>2. IsFiniteSet(A) /\ IsFiniteSet(B)
  BY FS_Subset, MissionAssumption
<1>3. IsFiniteSet(SA)
  <2>1. FA \in Surjection(A, SA)
    BY DEF Surjection
  <2>2. QED
    BY <1>2, <2>1, FS_Surjection
<1>4. IsFiniteSet(SB)
  <2>1. FB \in Surjection(B, SB)
    BY DEF Surjection
  <2>2. QED
    BY <1>2, <2>1, FS_Surjection
<1>5. IsFiniteSet(SC)
  BY FS_EmptySet, FS_Singleton
<1>6. IsFiniteSet(PendingRejections)
  <2>1. IsFiniteSet(SA \cup SB)
    BY <1>3, <1>4, FS_Union
  <2>2. QED
    BY <1>1, <1>5, <2>1, FS_Union
<1>7. Cardinality(PendingRejections) \in Nat
  BY <1>6, FS_CardinalityType
<1>8. PendingRejections \subseteq Job
  <2>1. SA \subseteq Job
    BY JobTypes DEF Result
  <2>2. SB \subseteq Job
    BY JobTypes DEF Result
  <2>3. SC \subseteq Job
    BY JobTypes DEF Result
  <2>4. QED
    BY <1>1, <2>1, <2>2, <2>3
<1>9. f \in [1..Cardinality(PendingRejections) -> Job]
  BY <1>8 DEF Orders
<1>10. QED
  BY <1>6, <1>7, <1>9

\* The end of a compaction.
LEMMA CompactionEndsTypes ==
  ASSUME TypeOK, CompactionEnds
  PROVE  DispTypes' /\ CompTypes'
<1>1. DispTypes /\ active \in Mission \cup {NoMission} /\ jobs \in Seq(Job)
  BY DEF TypeOK, DispTypes
<1>2. [m \in Mission |-> IF m = recovery THEN "queued" ELSE status[m]] \in [Mission -> Status]
  BY DEF TypeOK, DispTypes, Status
<1>3. DispTypes'
  BY <1>1, <1>2, ProcessNextTypes DEF CompactionEnds
<1>4. CompTypes'
  BY DEF CompactionEnds, CompTypes
<1>5. QED
  BY <1>3, <1>4

\* recoverFromContextWindow.
LEMMA RecoverTypes ==
  ASSUME TypeOK, NEW m \in Mission, RecoverFromContextWindow(m)
  PROVE  /\ status' \in [Mission -> Status] /\ active' \in Mission \cup {NoMission}
         /\ jobs' \in Seq(Job) /\ inbox' \in SUBSET Request
         /\ attempts' \in [Mission -> {0, 1}] /\ CompTypes'
         /\ rec' \in [Mission -> {"idle", "interrupt", "compact"}]
<1>1. CASE ~Recoverable(m)
  <2>1. DispTypes /\ jobs \in Seq(Job) /\ FinishActive(m, jobs)
    BY <1>1 DEF RecoverFromContextWindow, TypeOK, DispTypes
  <2>2. active' \in Mission \cup {NoMission} /\ jobs' \in Seq(Job)
    BY <2>1, FinishActiveTypes
  <2>3. QED
    BY <1>1, <2>2 DEF RecoverFromContextWindow, TypeOK, DispTypes, ConvTypes, CompTypes,
     ContTypes,
                      CodexTypes, Status, comp
<1>2. CASE Recoverable(m)
  <2>1. [k |-> "recInterrupt", m |-> m, t |-> turn[m], n |-> 0] \in Request
    BY DEF Request, TypeOK, ConvTypes
  <2>2. inbox' \in SUBSET Request
    BY <1>2, <2>1 DEF RecoverFromContextWindow, TypeOK, CodexTypes
  <2>3. QED
    BY <1>2, <2>2 DEF RecoverFromContextWindow, TypeOK, DispTypes, ConvTypes, CompTypes,
     ContTypes,
                      Status
<1>3. QED
  BY <1>1, <1>2

LEMMA CreateTypes ==
  ASSUME TypeOK, NEW m \in Mission, Create(m)
  PROVE  TypeOK'
<1>1. DispTypes'
  <2>1. DispTypes /\ active \in Mission \cup {NoMission} /\ jobs \in Seq(Job)
    BY DEF TypeOK, DispTypes
  <2>2. [status EXCEPT ![m] = "queued"] \in [Mission -> Status]
    BY DEF TypeOK, DispTypes, Status
  <2>3. QED
    BY <2>1, <2>2, ProcessNextTypes DEF Create
<1>2. ConvTypes' /\ CompTypes' /\ FlagTypes' /\ ContTypes' /\ CodexTypes' /\ HistTypes'
  BY DEF Create, TypeOK, ConvTypes, CompTypes, FlagTypes, ContTypes, CodexTypes, HistTypes,
     conv, comp, flags, cont, codex, hist
<1>3. QED
  BY <1>1, <1>2 DEF TypeOK

LEMMA CancelQueuedTypes ==
  ASSUME TypeOK, NEW m \in Mission, CancelQueued(m)
  PROVE  TypeOK'
<1>1. DispTypes'
  BY DEF CancelQueued, TypeOK, DispTypes, disp, Status, Stage
<1>2. HistTypes'
  BY DEF CancelQueued, TypeOK, HistTypes, Fault
<1>3. ConvTypes' /\ CompTypes' /\ FlagTypes' /\ ContTypes' /\ CodexTypes'
  BY DEF CancelQueued, TypeOK, ConvTypes, CompTypes, FlagTypes, ContTypes, CodexTypes, conv,
     comp, flags, cont, codex
<1>4. QED
  BY <1>1, <1>2, <1>3 DEF TypeOK

LEMMA InterruptTypes ==
  ASSUME TypeOK, NEW m \in Mission, Interrupt(m)
  PROVE  TypeOK'
<1>1. ContTypes'
  BY DEF Interrupt, TypeOK, ContTypes
<1>2. CodexTypes'
  <2>1. [k |-> "stop", m |-> m, t |-> turn[m], n |-> 0] \in Request
    BY DEF Request, TypeOK, ConvTypes
  <2>2. QED
    BY <2>1 DEF Interrupt, TypeOK, CodexTypes
<1>3. DispTypes' /\ ConvTypes' /\ CompTypes' /\ FlagTypes' /\ HistTypes'
  BY DEF Interrupt, TypeOK, DispTypes, ConvTypes, CompTypes, FlagTypes, HistTypes, disp, conv,
     comp, flags, hist
<1>4. QED
  BY <1>1, <1>2, <1>3 DEF TypeOK

LEMMA ResumeTypes ==
  ASSUME TypeOK, NEW m \in Mission, Resume(m)
  PROVE  TypeOK'
<1>1. DispTypes'
  <2>1. DispTypes /\ active \in Mission \cup {NoMission} /\ jobs \in Seq(Job)
    BY DEF TypeOK, DispTypes
  <2>2. [status EXCEPT ![m] = "queued"] \in [Mission -> Status]
    BY DEF TypeOK, DispTypes, Status
  <2>3. QED
    BY <2>1, <2>2, ProcessNextTypes DEF Resume
<1>2. ConvTypes'
  BY DEF Resume, TypeOK, ConvTypes
<1>3. HistTypes'
  BY DEF Resume, TypeOK, HistTypes, Fault
<1>4. CompTypes' /\ FlagTypes' /\ ContTypes' /\ CodexTypes'
  BY DEF Resume, TypeOK, CompTypes, FlagTypes, ContTypes, CodexTypes, comp, flags, cont, codex
<1>5. QED
  BY <1>1, <1>2, <1>3, <1>4 DEF TypeOK

LEMMA ApproveTypes ==
  ASSUME TypeOK, NEW m \in Mission, Approve(m)
  PROVE  TypeOK'
<1>1. DispTypes'
  BY DEF Approve, TypeOK, DispTypes, disp, Status, Stage
<1>2. ConvTypes' /\ CompTypes' /\ FlagTypes' /\ ContTypes' /\ CodexTypes' /\ HistTypes'
  BY DEF Approve, TypeOK, ConvTypes, CompTypes, FlagTypes, ContTypes, CodexTypes, HistTypes,
     conv, comp, flags, cont, codex, hist
<1>3. QED
  BY <1>1, <1>2 DEF TypeOK

LEMMA SetDispatchPausedTypes ==
  ASSUME TypeOK, NEW p \in BOOLEAN, SetDispatchPaused(p)
  PROVE  TypeOK'
<1>1. DispTypes'
  <2>1. NextJob \in Job
    BY JobTypes
  <2>2. jobs' \in Seq(Job)
    BY <2>1 DEF SetDispatchPaused, TypeOK, DispTypes
  <2>3. QED
    BY <2>2 DEF SetDispatchPaused, TypeOK, DispTypes
<1>2. FlagTypes'
  BY DEF SetDispatchPaused, TypeOK, FlagTypes
<1>3. ConvTypes' /\ CompTypes' /\ ContTypes' /\ CodexTypes' /\ HistTypes'
  BY DEF SetDispatchPaused, TypeOK, ConvTypes, CompTypes, ContTypes, CodexTypes, HistTypes,
     conv, comp, cont, codex, hist
<1>4. QED
  BY <1>1, <1>2, <1>3 DEF TypeOK

LEMMA CompactConversationTypes ==
  ASSUME TypeOK, CompactConversation
  PROVE  TypeOK'
<1>1. DispTypes'
  <2>1. ManJob("ok") \in Job
    BY JobTypes DEF Result
  <2>2. jobs' \in Seq(Job)
    BY <2>1 DEF CompactConversation, TypeOK, DispTypes
  <2>3. QED
    BY <2>2 DEF CompactConversation, TypeOK, DispTypes
<1>2. CompTypes'
  BY DEF CompactConversation, TypeOK, CompTypes
<1>3. ContTypes'
  BY DEF CompactConversation, TypeOK, ContTypes
<1>4. ConvTypes' /\ FlagTypes' /\ CodexTypes' /\ HistTypes'
  BY DEF CompactConversation, TypeOK, ConvTypes, FlagTypes, CodexTypes, HistTypes, conv, flags,
     codex, hist
<1>5. QED
  BY <1>1, <1>2, <1>3, <1>4 DEF TypeOK

LEMMA ThreadOpenedTypes ==
  ASSUME TypeOK, ThreadOpened
  PROVE  TypeOK'
<1>1. DispTypes'
  <2>1. ManJob("ok") \in Job /\ \A m \in Mission : StartJob(m, NoTurn, "ok") \in Job
    BY JobTypes DEF Result
  <2>2. jobs' \in Seq(Job)
    BY <2>1 DEF ThreadOpened, TypeOK, DispTypes
  <2>3. stage' \in [Mission -> Stage]
    BY DEF ThreadOpened, TypeOK, DispTypes, Stage
  <2>4. QED
    BY <2>2, <2>3 DEF ThreadOpened, TypeOK, DispTypes
<1>2. FlagTypes'
  BY DEF ThreadOpened, TypeOK, FlagTypes
<1>3. ConvTypes' /\ CompTypes' /\ ContTypes' /\ CodexTypes' /\ HistTypes'
  BY DEF ThreadOpened, TypeOK, ConvTypes, CompTypes, ContTypes, CodexTypes, HistTypes, conv,
     comp, cont, codex, hist
<1>4. QED
  BY <1>1, <1>2, <1>3 DEF TypeOK

LEMMA ThreadFailsTypes ==
  ASSUME TypeOK, ThreadFails
  PROVE  TypeOK'
<1>1. DispTypes'
  <2>1. /\ ManJob("infra") \in Job
        /\ \A m \in Mission, r \in {"infra", "error"} : StartJob(m, NoTurn, r) \in Job
    BY JobTypes DEF Result
  <2>2. jobs' \in Seq(Job)
    BY <2>1 DEF ThreadFails, TypeOK, DispTypes
  <2>3. stage' \in [Mission -> Stage]
    BY DEF ThreadFails, TypeOK, DispTypes, Stage
  <2>4. QED
    BY <2>2, <2>3 DEF ThreadFails, TypeOK, DispTypes
<1>2. HistTypes'
  BY DEF ThreadFails, TypeOK, HistTypes, Fault
<1>3. ConvTypes' /\ CompTypes' /\ FlagTypes' /\ ContTypes' /\ CodexTypes'
  BY DEF ThreadFails, TypeOK, ConvTypes, CompTypes, FlagTypes, ContTypes, CodexTypes, conv,
     comp, flags, cont, codex
<1>4. QED
  BY <1>1, <1>2, <1>3 DEF TypeOK

LEMMA DirectoryMadeTypes ==
  ASSUME TypeOK, NEW m \in Mission, DirectoryMade(m)
  PROVE  TypeOK'
<1>1. DispTypes'
  <2>1. SendTurn(m, jobs) /\ jobs \in Seq(Job)
    BY DEF DirectoryMade, TypeOK, DispTypes
  <2>2. QED
    BY <2>1, SendTurnTypes DEF DirectoryMade, TypeOK, DispTypes
<1>2. CodexTypes'
  <2>1. SendTurn(m, jobs) /\ jobs \in Seq(Job)
    BY DEF DirectoryMade, TypeOK, DispTypes
  <2>2. QED
    BY <2>1, SendTurnTypes DEF DirectoryMade, TypeOK, CodexTypes
<1>3. HistTypes'
  <2>1. SendTurn(m, jobs) /\ jobs \in Seq(Job)
    BY DEF DirectoryMade, TypeOK, DispTypes
  <2>2. QED
    BY <2>1, SendTurnTypes DEF DirectoryMade, TypeOK, HistTypes
<1>4. ConvTypes' /\ CompTypes' /\ FlagTypes' /\ ContTypes'
  BY DEF DirectoryMade, TypeOK, ConvTypes, CompTypes, FlagTypes, ContTypes, conv, comp, flags,
     cont
<1>5. QED
  BY <1>1, <1>2, <1>3, <1>4 DEF TypeOK

LEMMA RunNextTypes ==
  ASSUME TypeOK, RunNext
  PROVE  TypeOK'
<1>1. DispTypes'
  <2>1. DispTypes /\ active \in Mission \cup {NoMission} /\ status \in [Mission -> Status]
    BY DEF TypeOK, DispTypes
  <2>2. Tail(jobs) \in Seq(Job)
    BY <2>1, HeadJobTypes DEF RunNext
  <2>3. QED
    BY <2>1, <2>2, ProcessNextTypes DEF RunNext
<1>2. ConvTypes' /\ CompTypes' /\ FlagTypes' /\ ContTypes' /\ CodexTypes' /\ HistTypes'
  BY DEF RunNext, TypeOK, ConvTypes, CompTypes, FlagTypes, ContTypes, CodexTypes, HistTypes,
     conv, comp, flags, cont, codex, hist
<1>3. QED
  BY <1>1, <1>2 DEF TypeOK

LEMMA RunThreadReadyTypes ==
  ASSUME TypeOK, NEW m \in Mission, RunThreadReady(m)
  PROVE  TypeOK'
<1>1. DispTypes'
  <2>1. Tail(jobs) \in Seq(Job)
    BY HeadJobTypes DEF RunThreadReady, TypeOK
  <2>2. CASE "web" \in env
    BY <2>1, <2>2 DEF RunThreadReady, TypeOK, DispTypes, Stage
  <2>3. CASE "web" \notin env
    <3>1. SendTurn(m, Tail(jobs))
      BY <2>3 DEF RunThreadReady
    <3>2. QED
      BY <2>1, <3>1, SendTurnTypes DEF RunThreadReady, TypeOK, DispTypes
  <2>4. QED
    BY <2>2, <2>3
<1>2. ConvTypes'
  BY DEF RunThreadReady, TypeOK, ConvTypes
<1>3. CodexTypes'
  <2>1. Tail(jobs) \in Seq(Job)
    BY HeadJobTypes DEF RunThreadReady, TypeOK
  <2>2. CASE "web" \in env
    BY <2>1, <2>2 DEF RunThreadReady, TypeOK, CodexTypes
  <2>3. CASE "web" \notin env
    <3>1. SendTurn(m, Tail(jobs))
      BY <2>3 DEF RunThreadReady
    <3>2. QED
      BY <2>1, <3>1, SendTurnTypes DEF RunThreadReady, TypeOK, CodexTypes
  <2>4. QED
    BY <2>2, <2>3
<1>4. HistTypes'
  <2>1. Tail(jobs) \in Seq(Job)
    BY HeadJobTypes DEF RunThreadReady, TypeOK
  <2>2. CASE "web" \in env
    BY <2>1, <2>2 DEF RunThreadReady, TypeOK, HistTypes
  <2>3. CASE "web" \notin env
    <3>1. SendTurn(m, Tail(jobs))
      BY <2>3 DEF RunThreadReady
    <3>2. QED
      BY <2>1, <3>1, SendTurnTypes DEF RunThreadReady, TypeOK, HistTypes
  <2>4. QED
    BY <2>2, <2>3
<1>5. CompTypes' /\ FlagTypes' /\ ContTypes'
  BY DEF RunThreadReady, TypeOK, CompTypes, FlagTypes, ContTypes, comp, flags, cont
<1>6. QED
  BY <1>1, <1>2, <1>3, <1>4, <1>5 DEF TypeOK

LEMMA RunTurnStartedTypes ==
  ASSUME TypeOK, NEW m \in Mission, RunTurnStarted(m)
  PROVE  TypeOK'
<1>1. DispTypes'
  <2>1. EndJob(m, "ok") \in Job /\ NextJob \in Job /\ Tail(jobs) \in Seq(Job)
    BY JobTypes, HeadJobTypes DEF RunTurnStarted, TypeOK, Result
  <2>2. Append(Tail(jobs), NextJob) \in Seq(Job)
    BY <2>1
  <2>3. jobs' \in Seq(Job)
    BY <2>1, <2>2, QueueTypes DEF RunTurnStarted
  <2>4. status' \in [Mission -> Status]
    BY DEF RunTurnStarted, TypeOK, DispTypes, Status, OutcomeStatus
  <2>5. QED
    BY <2>3, <2>4 DEF RunTurnStarted, TypeOK, DispTypes, Stage
<1>2. ConvTypes'
  <2>1. Head(jobs).t \in Turn \cup {NoTurn}
    BY HeadJobTypes DEF RunTurnStarted, TypeOK
  <2>2. QED
    BY <2>1 DEF RunTurnStarted, TypeOK, ConvTypes
<1>3. FlagTypes'
  BY DEF RunTurnStarted, TypeOK, FlagTypes
<1>4. CompTypes' /\ ContTypes' /\ CodexTypes' /\ HistTypes'
  BY DEF RunTurnStarted, TypeOK, CompTypes, ContTypes, CodexTypes, HistTypes, comp, cont,
     codex, hist
<1>5. QED
  BY <1>1, <1>2, <1>3, <1>4 DEF TypeOK

LEMMA RunStartFailedTypes ==
  ASSUME TypeOK, NEW m \in Mission, RunStartFailed(m)
  PROVE  TypeOK'
<1>1. DispTypes'
  <2>1. Tail(jobs) \in Seq(Job) /\ EndJob(m, Head(jobs).r) \in Job
    BY JobTypes, HeadJobTypes DEF RunStartFailed, TypeOK
  <2>2. jobs' \in Seq(Job)
    BY <2>1 DEF RunStartFailed
  <2>3. QED
    BY <2>2 DEF RunStartFailed, TypeOK, DispTypes, Stage
<1>2. ConvTypes' /\ CompTypes' /\ FlagTypes' /\ ContTypes' /\ CodexTypes' /\ HistTypes'
  BY DEF RunStartFailed, TypeOK, ConvTypes, CompTypes, FlagTypes, ContTypes, CodexTypes,
     HistTypes, conv, comp, flags, cont, codex, hist
<1>3. QED
  BY <1>1, <1>2 DEF TypeOK

LEMMA RunDispatchedTypes ==
  ASSUME TypeOK, NEW m \in Mission, RunDispatched(m)
  PROVE  TypeOK'
<1>1. DispTypes'
  <2>1. Tail(jobs) \in Seq(Job)
    BY HeadJobTypes DEF RunDispatched, TypeOK
  <2>2. QED
    BY <2>1 DEF RunDispatched, TypeOK, DispTypes, Stage
<1>2. ConvTypes' /\ CompTypes' /\ FlagTypes' /\ ContTypes' /\ CodexTypes' /\ HistTypes'
  BY DEF RunDispatched, TypeOK, ConvTypes, CompTypes, FlagTypes, ContTypes, CodexTypes,
     HistTypes, conv, comp, flags, cont, codex, hist
<1>3. QED
  BY <1>1, <1>2 DEF TypeOK

LEMMA RunDispatchFailedTypes ==
  ASSUME TypeOK, NEW m \in Mission, RunDispatchFailed(m)
  PROVE  TypeOK'
<1>1. DispTypes'
  <2>1. Tail(jobs) \in Seq(Job) /\ NextJob \in Job
    BY JobTypes, HeadJobTypes DEF RunDispatchFailed, TypeOK
  <2>2. jobs' \in Seq(Job)
    BY <2>1 DEF RunDispatchFailed
  <2>3. status' \in [Mission -> Status]
    BY DEF RunDispatchFailed, TypeOK, DispTypes, Status
  <2>4. QED
    BY <2>2, <2>3 DEF RunDispatchFailed, TypeOK, DispTypes, Stage
<1>2. ConvTypes'
  BY DEF RunDispatchFailed, TypeOK, ConvTypes
<1>3. FlagTypes'
  BY DEF RunDispatchFailed, TypeOK, FlagTypes
<1>4. CompTypes' /\ ContTypes' /\ CodexTypes' /\ HistTypes'
  BY DEF RunDispatchFailed, TypeOK, CompTypes, ContTypes, CodexTypes, HistTypes, comp, cont,
     codex, hist
<1>5. QED
  BY <1>1, <1>2, <1>3, <1>4 DEF TypeOK

LEMMA RunInterruptedTypes ==
  ASSUME TypeOK, NEW m \in Mission, RunInterrupted(m)
  PROVE  TypeOK'
<1>1. DispTypes'
  <2>1. DispTypes /\ Tail(jobs) \in Seq(Job) /\ FinishActive(m, Tail(jobs))
    BY HeadJobTypes DEF RunInterrupted, TypeOK
  <2>2. active' \in Mission \cup {NoMission} /\ jobs' \in Seq(Job)
    BY <2>1, FinishActiveTypes
  <2>3. QED
    BY <2>1, <2>2 DEF RunInterrupted, DispTypes, Status
<1>2. ContTypes'
  BY DEF RunInterrupted, TypeOK, ContTypes
<1>3. HistTypes'
  BY DEF RunInterrupted, TypeOK, HistTypes, Fault
<1>4. ConvTypes' /\ CompTypes' /\ FlagTypes' /\ CodexTypes'
  BY DEF RunInterrupted, TypeOK, ConvTypes, CompTypes, FlagTypes, CodexTypes, conv, comp,
     flags, codex
<1>5. QED
  BY <1>1, <1>2, <1>3, <1>4 DEF TypeOK

LEMMA RunRecoveryCompactTypes ==
  ASSUME TypeOK, NEW m \in Mission, RunRecoveryCompact(m)
  PROVE  TypeOK'
<1>1. DispTypes'
  <2>1. Tail(jobs) \in Seq(Job)
    BY HeadJobTypes DEF RunRecoveryCompact, TypeOK
  <2>2. status' \in [Mission -> Status]
    BY DEF RunRecoveryCompact, CompactionFailed, TypeOK, DispTypes, Status
  <2>3. QED
    BY <2>1, <2>2 DEF RunRecoveryCompact, TypeOK, DispTypes
<1>2. CompTypes'
  BY DEF RunRecoveryCompact, TypeOK, CompTypes, CompactionFailed, comp
<1>3. ContTypes'
  BY DEF RunRecoveryCompact, TypeOK, ContTypes
<1>4. CodexTypes'
  <2>1. [k |-> "recCompact", m |-> m, t |-> NoTurn, n |-> 0] \in Request
    BY DEF Request
  <2>2. QED
    BY <2>1 DEF RunRecoveryCompact, SendCompact, TypeOK, CodexTypes
<1>5. ConvTypes' /\ FlagTypes' /\ HistTypes'
  BY DEF RunRecoveryCompact, TypeOK, ConvTypes, FlagTypes, HistTypes, conv, flags, hist
<1>6. QED
  BY <1>1, <1>2, <1>3, <1>4, <1>5 DEF TypeOK

LEMMA RunRecoveryAwaitTypes ==
  ASSUME TypeOK, NEW m \in Mission, RunRecoveryAwait(m)
  PROVE  TypeOK'
<1>1. DispTypes'
  <2>1. Tail(jobs) \in Seq(Job)
    BY HeadJobTypes DEF RunRecoveryAwait, TypeOK
  <2>2. status' \in [Mission -> Status]
    BY DEF RunRecoveryAwait, CompactionFailed, TypeOK, DispTypes, Status
  <2>3. QED
    BY <2>1, <2>2 DEF RunRecoveryAwait, TypeOK, DispTypes
<1>2. CompTypes'
  BY DEF RunRecoveryAwait, TypeOK, CompTypes, CompactionFailed
<1>3. ContTypes'
  BY DEF RunRecoveryAwait, TypeOK, ContTypes
<1>4. ConvTypes' /\ FlagTypes' /\ CodexTypes' /\ HistTypes'
  BY DEF RunRecoveryAwait, TypeOK, ConvTypes, FlagTypes, CodexTypes, HistTypes, conv, flags,
     codex, hist
<1>5. QED
  BY <1>1, <1>2, <1>3, <1>4 DEF TypeOK

LEMMA ClearContextTypes ==
  ASSUME TypeOK, ClearContext
  PROVE  TypeOK'
<1>1. ContTypes'
  BY DEF ClearContext, TypeOK, ContTypes
<1>2. DispTypes' /\ ConvTypes' /\ CompTypes' /\ FlagTypes' /\ CodexTypes' /\ HistTypes'
  BY DEF ClearContext, TypeOK, DispTypes, ConvTypes, CompTypes, FlagTypes, CodexTypes, HistTypes,
     disp, conv, comp, flags, codex, hist
<1>3. QED
  BY <1>1, <1>2 DEF TypeOK

LEMMA ContextClearedTypes ==
  ASSUME TypeOK, ContextCleared
  PROVE  TypeOK'
<1>1. DispTypes'
  <2>1. NextJob \in Job
    BY JobTypes
  <2>2. jobs' \in Seq(Job)
    BY <2>1 DEF ContextCleared, TypeOK, DispTypes
  <2>3. QED
    BY <2>2 DEF ContextCleared, TypeOK, DispTypes
<1>2. ContTypes' /\ FlagTypes'
  BY DEF ContextCleared, TypeOK, ContTypes, FlagTypes
<1>3. ConvTypes' /\ CompTypes' /\ CodexTypes' /\ HistTypes'
  BY DEF ContextCleared, TypeOK, ConvTypes, CompTypes, CodexTypes, HistTypes, conv, comp, codex,
     hist
<1>4. QED
  BY <1>1, <1>2, <1>3 DEF TypeOK

LEMMA ClearFailedTypes ==
  ASSUME TypeOK, ClearFailed
  PROVE  TypeOK'
<1>1. DispTypes'
  <2>1. NextJob \in Job /\ Tail(jobs) \in Seq(Job)
    BY JobTypes DEF ClearFailed, TypeOK, DispTypes
  <2>2. jobs' \in Seq(Job)
    BY <2>1 DEF ClearFailed
  <2>3. QED
    BY <2>2 DEF ClearFailed, TypeOK, DispTypes
<1>2. ContTypes'
  BY DEF ClearFailed, TypeOK, ContTypes
<1>3. ConvTypes' /\ CompTypes' /\ FlagTypes' /\ CodexTypes' /\ HistTypes'
  BY DEF ClearFailed, TypeOK, ConvTypes, CompTypes, FlagTypes, CodexTypes, HistTypes, conv, comp,
     flags, codex, hist
<1>4. QED
  BY <1>1, <1>2, <1>3 DEF TypeOK

LEMMA RunCompactionTypes ==
  ASSUME TypeOK, RunCompaction
  PROVE  TypeOK'
<1>1. DispTypes'
  BY DEF RunCompaction, TypeOK, DispTypes, disp, Status, Stage
<1>2. CompTypes'
  BY DEF RunCompaction, TypeOK, CompTypes
<1>3. ContTypes'
  BY DEF RunCompaction, TypeOK, ContTypes
<1>4. CodexTypes'
  <2>1. [k |-> "manCompact", m |-> NoMission, t |-> NoTurn, n |-> 0] \in Request
    BY DEF Request
  <2>2. QED
    BY <2>1 DEF RunCompaction, SendCompact, TypeOK, CodexTypes
<1>5. ConvTypes' /\ FlagTypes' /\ HistTypes'
  BY DEF RunCompaction, TypeOK, ConvTypes, FlagTypes, HistTypes, conv, flags, hist
<1>6. QED
  BY <1>1, <1>2, <1>3, <1>4, <1>5 DEF TypeOK

LEMMA CompactionTimeoutTypes ==
  ASSUME TypeOK, CompactionTimeout
  PROVE  TypeOK'
<1>1. DispTypes'
  <2>1. DispTypes /\ active \in Mission \cup {NoMission} /\ jobs \in Seq(Job)
    BY DEF TypeOK, DispTypes
  <2>2. [m \in Mission |-> IF m = recovery THEN "failed" ELSE status[m]] \in [Mission -> Status]
    BY DEF TypeOK, DispTypes, Status
  <2>3. CASE compacting
    BY <2>1, <2>2, <2>3, ProcessNextTypes DEF CompactionTimeout
  <2>4. CASE ~compacting
    BY <2>4 DEF CompactionTimeout, disp, TypeOK, DispTypes
  <2>5. QED
    BY <2>3, <2>4
<1>2. CompTypes'
  BY DEF CompactionTimeout, TypeOK, CompTypes
<1>3. ConvTypes' /\ FlagTypes' /\ ContTypes' /\ CodexTypes' /\ HistTypes'
  BY DEF CompactionTimeout, TypeOK, ConvTypes, FlagTypes, ContTypes, CodexTypes, HistTypes,
     conv, flags, cont, codex, hist
<1>4. QED
  BY <1>1, <1>2, <1>3 DEF TypeOK

LEMMA DispatchRetryTypes ==
  ASSUME TypeOK, DispatchRetry
  PROVE  TypeOK'
<1>1. FlagTypes'
  BY DEF DispatchRetry, TypeOK, FlagTypes
<1>2. DispTypes' /\ ConvTypes' /\ CompTypes' /\ ContTypes' /\ CodexTypes' /\ HistTypes'
  BY DEF DispatchRetry, TypeOK, DispTypes, ConvTypes, CompTypes, ContTypes, CodexTypes,
     HistTypes, disp, conv, comp, cont, codex, hist
<1>3. QED
  BY <1>1, <1>2 DEF TypeOK

LEMMA InitializeConversationTypes ==
  ASSUME TypeOK, InitializeConversation
  PROVE  TypeOK'
<1>1. DispTypes'
  <2>1. DispTypes /\ active \in Mission \cup {NoMission} /\ jobs \in Seq(Job)
        /\ status \in [Mission -> Status]
    BY DEF TypeOK, DispTypes
  <2>2. QED
    BY <2>1, ProcessNextTypes DEF InitializeConversation
<1>2. FlagTypes'
  BY DEF InitializeConversation, TypeOK, FlagTypes
<1>3. HistTypes'
  BY DEF InitializeConversation, TypeOK, HistTypes, Fault
<1>4. ConvTypes' /\ CompTypes' /\ ContTypes' /\ CodexTypes'
  BY DEF InitializeConversation, TypeOK, ConvTypes, CompTypes, ContTypes, CodexTypes, conv,
     comp, cont, codex
<1>5. QED
  BY <1>1, <1>2, <1>3, <1>4 DEF TypeOK

LEMMA RequestTimeoutTypes ==
  ASSUME TypeOK, RequestTimeout
  PROVE  TypeOK'
<1>1. DispTypes'
  <2>1. /\ ManJob("error") \in Job
        /\ \A m \in Mission : StartJob(m, NoTurn, "error") \in Job /\ RecJob(m, "error") \in Job
    BY JobTypes DEF Result
  <2>2. jobs' \in Seq(Job)
    <3>1. jobs \in Seq(Job)
      BY DEF TypeOK, DispTypes
    <3>2. \/ jobs' = jobs \/ jobs' = Append(jobs, ManJob("error"))
          \/ \E m \in Mission : \/ jobs' = Append(jobs, StartJob(m, NoTurn, "error"))
                               \/ jobs' = Append(jobs, RecJob(m, "error"))
      BY DEF RequestTimeout
    <3>3. QED
      BY <2>1, <3>1, <3>2, QueueTypes
  <2>3. stage' \in [Mission -> Stage]
    BY DEF RequestTimeout, TypeOK, DispTypes, Stage
  <2>4. QED
    BY <2>2, <2>3 DEF RequestTimeout, TypeOK, DispTypes
<1>2. ContTypes'
  BY DEF RequestTimeout, TypeOK, ContTypes
<1>3. HistTypes'
  BY DEF RequestTimeout, TypeOK, HistTypes, Fault
<1>4. ConvTypes' /\ CompTypes' /\ FlagTypes' /\ CodexTypes'
  BY DEF RequestTimeout, TypeOK, ConvTypes, CompTypes, FlagTypes, CodexTypes, conv, comp,
     flags, codex
<1>5. QED
  BY <1>1, <1>2, <1>3, <1>4 DEF TypeOK

LEMMA HandleReplyTypes ==
  ASSUME TypeOK, HandleReply
  PROVE  TypeOK'
<1>1. DispTypes'
  <2>1. /\ Head(chan).t \in Turn \cup {NoTurn} /\ Head(chan).r \in Result
        /\ Head(chan).q \in Request
    BY ReadTypes DEF HandleReply, TypeOK
  <2>2. jobs' \in Seq(Job)
    <3> DEFINE q == Head(chan).q
               r == Head(chan).r
    <3>1. /\ ManJob(r) \in Job
          /\ q.k # "manCompact" =>
               StartJob(q.m, Head(chan).t, r) \in Job /\ StopJob(q.m, "ok") \in Job
               /\ RecJob(q.m, r) \in Job
      BY <2>1, JobTypes, RequestMission DEF Result
    <3>2. jobs \in Seq(Job)
      BY DEF TypeOK, DispTypes
    <3>3. \/ jobs' = jobs
          \/ jobs' = Append(jobs, ManJob(r))
          \/ /\ q.k # "manCompact"
             /\ \/ jobs' = Append(jobs, StartJob(q.m, Head(chan).t, r))
                \/ jobs' = Append(jobs, StopJob(q.m, "ok"))
                \/ jobs' = Append(jobs, RecJob(q.m, r))
      BY DEF HandleReply
    <3>4. QED
      BY <3>1, <3>2, <3>3, QueueTypes
  <2>3. stage' \in [Mission -> Stage]
    BY DEF HandleReply, TypeOK, DispTypes, Stage
  <2>4. QED
    BY <2>2, <2>3 DEF HandleReply, TypeOK, DispTypes
<1>2. ContTypes'
  BY DEF HandleReply, TypeOK, ContTypes
<1>3. CodexTypes'
  BY ReadTypes DEF HandleReply, TypeOK, CodexTypes
<1>4. ConvTypes' /\ CompTypes' /\ FlagTypes' /\ HistTypes'
  BY DEF HandleReply, TypeOK, ConvTypes, CompTypes, FlagTypes, HistTypes, conv, comp, flags,
     hist
<1>5. QED
  BY <1>1, <1>2, <1>3, <1>4 DEF TypeOK

LEMMA HandleTurnStartedTypes ==
  ASSUME TypeOK, HandleTurnStarted
  PROVE  TypeOK'
<1>1. ConvTypes'
  <2>1. Head(chan).t \in Turn \cup {NoTurn}
    BY ReadTypes DEF HandleTurnStarted, TypeOK
  <2>2. QED
    BY <2>1 DEF HandleTurnStarted, TypeOK, ConvTypes
<1>2. CodexTypes'
  BY ReadTypes DEF HandleTurnStarted, TypeOK, CodexTypes
<1>3. DispTypes' /\ CompTypes' /\ FlagTypes' /\ ContTypes' /\ HistTypes'
  BY DEF HandleTurnStarted, TypeOK, DispTypes, CompTypes, FlagTypes, ContTypes, HistTypes,
     disp, comp, flags, cont, hist
<1>4. QED
  BY <1>1, <1>2, <1>3 DEF TypeOK

LEMMA HandleCompactedTypes ==
  ASSUME TypeOK, HandleCompacted
  PROVE  TypeOK'
<1>1. DispTypes'
  <2>1. TypeOK /\ CompactionEnds
    BY DEF HandleCompacted
  <2>2. QED
    BY <2>1, CompactionEndsTypes
<1>2. CompTypes'
  <2>1. TypeOK /\ CompactionEnds
    BY DEF HandleCompacted
  <2>2. QED
    BY <2>1, CompactionEndsTypes
<1>3. CodexTypes'
  BY ReadTypes DEF HandleCompacted, TypeOK, CodexTypes
<1>4. ConvTypes' /\ FlagTypes' /\ ContTypes' /\ HistTypes'
  BY DEF HandleCompacted, TypeOK, ConvTypes, FlagTypes, ContTypes, HistTypes, conv, flags,
     cont, hist
<1>5. QED
  BY <1>1, <1>2, <1>3, <1>4 DEF TypeOK

LEMMA HandleTurnCompletedTypes ==
  ASSUME TypeOK, HandleTurnCompleted
  PROVE  TypeOK'
<1>1. DispTypes'
  <2>1. ASSUME NEW m \in Mission, FinishActive(m, jobs),
               status' = [status EXCEPT ![m] = OutcomeStatus(Head(chan).r)],
               UNCHANGED <<dispatching, stage>>
        PROVE  DispTypes'
    <3>1. DispTypes /\ jobs \in Seq(Job)
      BY DEF TypeOK, DispTypes
    <3>2. active' \in Mission \cup {NoMission} /\ jobs' \in Seq(Job)
      BY <2>1, <3>1, FinishActiveTypes
    <3>3. QED
      BY <2>1, <3>1, <3>2 DEF DispTypes, OutcomeStatus, Status
  <2>2. ASSUME UNCHANGED disp PROVE DispTypes'
    BY <2>2 DEF TypeOK, DispTypes, disp
  <2>3. ASSUME CompactionEnds PROVE DispTypes'
    BY <2>3, CompactionEndsTypes
  <2>4. QED
    BY <2>1, <2>2, <2>3 DEF HandleTurnCompleted
<1>2. CompTypes'
  <2>1. ASSUME UNCHANGED comp PROVE CompTypes'
    BY <2>1 DEF TypeOK, CompTypes, comp
  <2>2. ASSUME CompactionEnds PROVE CompTypes'
    BY <2>2, CompactionEndsTypes
  <2>3. QED
    BY <2>1, <2>2 DEF HandleTurnCompleted
<1>3. FlagTypes'
  <2>1. Head(chan).r \in Result
    BY ReadTypes DEF HandleTurnCompleted, TypeOK
  <2>2. QED
    BY <2>1 DEF HandleTurnCompleted, TypeOK, FlagTypes
<1>4. CodexTypes'
  BY ReadTypes DEF HandleTurnCompleted, TypeOK, CodexTypes
<1>5. ConvTypes' /\ ContTypes' /\ HistTypes'
  BY DEF HandleTurnCompleted, TypeOK, ConvTypes, ContTypes, HistTypes, conv, cont, hist
<1>6. QED
  BY <1>1, <1>2, <1>3, <1>4, <1>5 DEF TypeOK

LEMMA HandleContextErrorTypes ==
  ASSUME TypeOK, HandleContextError
  PROVE  TypeOK'
<1>1. DispTypes'
  <2>1. ASSUME NEW m \in Mission, RecoverFromContextWindow(m) PROVE DispTypes'
    BY <2>1, RecoverTypes DEF HandleContextError, TypeOK, DispTypes
  <2>2. ASSUME UNCHANGED <<status, active, attempts, comp, rec, inbox, jobs>> PROVE DispTypes'
    BY <2>2 DEF HandleContextError, TypeOK, DispTypes
  <2>3. QED
    BY <2>1, <2>2 DEF HandleContextError
<1>2. ConvTypes'
  <2>1. ASSUME NEW m \in Mission, RecoverFromContextWindow(m) PROVE ConvTypes'
    BY <2>1, RecoverTypes DEF HandleContextError, TypeOK, ConvTypes
  <2>2. ASSUME UNCHANGED <<status, active, attempts, comp, rec, inbox, jobs>> PROVE ConvTypes'
    BY <2>2 DEF HandleContextError, TypeOK, ConvTypes
  <2>3. QED
    BY <2>1, <2>2 DEF HandleContextError
<1>3. CompTypes'
  <2>1. ASSUME NEW m \in Mission, RecoverFromContextWindow(m) PROVE CompTypes'
    BY <2>1, RecoverTypes DEF HandleContextError, TypeOK, CompTypes
  <2>2. ASSUME UNCHANGED <<status, active, attempts, comp, rec, inbox, jobs>> PROVE CompTypes'
    BY <2>2 DEF HandleContextError, TypeOK, CompTypes, comp
  <2>3. QED
    BY <2>1, <2>2 DEF HandleContextError
<1>4. ContTypes'
  <2>1. ASSUME NEW m \in Mission, RecoverFromContextWindow(m) PROVE ContTypes'
    BY <2>1, RecoverTypes DEF HandleContextError, TypeOK, ContTypes
  <2>2. ASSUME UNCHANGED <<status, active, attempts, comp, rec, inbox, jobs>> PROVE ContTypes'
    BY <2>2 DEF HandleContextError, TypeOK, ContTypes
  <2>3. QED
    BY <2>1, <2>2 DEF HandleContextError
<1>5. CodexTypes'
  <2>1. chan' \in Seq(Message)
    BY ReadTypes DEF HandleContextError, TypeOK
  <2>2. inbox' \in SUBSET Request
    <3>1. ASSUME NEW m \in Mission, RecoverFromContextWindow(m) PROVE inbox' \in SUBSET Request
      BY <3>1, RecoverTypes
    <3>2. ASSUME UNCHANGED inbox PROVE inbox' \in SUBSET Request
      BY <3>2 DEF TypeOK, CodexTypes
    <3>3. QED
      BY <3>1, <3>2 DEF HandleContextError
  <2>3. QED
    BY <2>1, <2>2 DEF HandleContextError, TypeOK, CodexTypes
<1>6. FlagTypes' /\ HistTypes'
  BY DEF HandleContextError, TypeOK, FlagTypes, HistTypes, flags, hist
<1>7. QED
  BY <1>1, <1>2, <1>3, <1>4, <1>5, <1>6 DEF TypeOK

LEMMA HandleServerRequestTypes ==
  ASSUME TypeOK, HandleServerRequest
  PROVE  TypeOK'
<1>1. DispTypes'
  BY DEF HandleServerRequest, TypeOK, DispTypes, disp, Status, Stage
<1>2. CodexTypes'
  BY ReadTypes DEF HandleServerRequest, TypeOK, CodexTypes
<1>3. ConvTypes' /\ CompTypes' /\ FlagTypes' /\ ContTypes' /\ HistTypes'
  BY DEF HandleServerRequest, TypeOK, ConvTypes, CompTypes, FlagTypes, ContTypes, HistTypes,
     conv, comp, flags, cont, hist
<1>4. QED
  BY <1>1, <1>2, <1>3 DEF TypeOK

LEMMA CodexExitTypes ==
  ASSUME TypeOK, CodexExit
  PROVE  TypeOK'
<1>1. DispTypes'
  <2>1. jobs' \in Seq(Job)
    BY RejectionTypes DEF CodexExit
  <2>2. stage' \in [Mission -> Stage]
    BY DEF CodexExit, TypeOK, DispTypes, Stage
  <2>3. status' \in [Mission -> Status] /\ active' = NoMission
    BY DEF CodexExit, HandleCodexExit, TypeOK, DispTypes, Status
  <2>4. QED
    BY <2>1, <2>2, <2>3 DEF CodexExit, TypeOK, DispTypes
<1>2. ConvTypes'
  BY DEF CodexExit, HandleCodexExit, TypeOK, ConvTypes
<1>3. FlagTypes'
  BY DEF CodexExit, HandleCodexExit, TypeOK, FlagTypes
<1>4. ContTypes'
  BY DEF CodexExit, TypeOK, ContTypes
<1>5. CodexTypes'
  BY DEF CodexExit, TypeOK, CodexTypes
<1>6. HistTypes'
  BY DEF CodexExit, TypeOK, HistTypes, Fault
<1>7. CompTypes'
  BY DEF CodexExit, TypeOK, CompTypes, comp, HandleCodexExit
<1>8. QED
  BY <1>1, <1>2, <1>3, <1>4, <1>5, <1>6, <1>7 DEF TypeOK

LEMMA CodexReadyTypes ==
  ASSUME TypeOK, CodexReady
  PROVE  TypeOK'
<1>1. FlagTypes'
  BY DEF CodexReady, TypeOK, FlagTypes
<1>2. CodexTypes'
  BY DEF CodexReady, TypeOK, CodexTypes
<1>3. DispTypes' /\ ConvTypes' /\ CompTypes' /\ ContTypes' /\ HistTypes'
  BY DEF CodexReady, TypeOK, DispTypes, ConvTypes, CompTypes, ContTypes, HistTypes, disp, conv,
     comp, cont, hist
<1>4. QED
  BY <1>1, <1>2, <1>3 DEF TypeOK

LEMMA ApplicationRestartTypes ==
  ASSUME TypeOK, ApplicationRestart
  PROVE  TypeOK'
<1>1. DispTypes'
  <2>1. status' \in [Mission -> Status]
    BY DEF ApplicationRestart, TypeOK, DispTypes, Status
  <2>2. stage' \in [Mission -> Stage] /\ jobs' \in Seq(Job)
    BY DEF ApplicationRestart, Stage
  <2>3. QED
    BY <2>1, <2>2 DEF ApplicationRestart, DispTypes
<1>2. ConvTypes'
  BY DEF ApplicationRestart, TypeOK, ConvTypes
<1>3. CompTypes'
  BY DEF ApplicationRestart, TypeOK, CompTypes
<1>4. FlagTypes'
  BY DEF ApplicationRestart, TypeOK, FlagTypes
<1>5. ContTypes'
  BY DEF ApplicationRestart, TypeOK, ContTypes
<1>6. CodexTypes'
  BY DEF ApplicationRestart, TypeOK, CodexTypes
<1>7. HistTypes'
  BY DEF ApplicationRestart, TypeOK, HistTypes, Fault
<1>8. QED
  BY <1>1, <1>2, <1>3, <1>4, <1>5, <1>6, <1>7 DEF TypeOK

LEMMA OpenTurnTypes ==
  ASSUME TypeOK, NEW q \in Request, OpenTurn(q)
  PROVE  TypeOK'
<1>1. CodexTypes'
  <2>1. turns + 1 \in 0..MaxTurns /\ turns + 1 \in Turn
    BY BoundAssumption DEF OpenTurn, TypeOK, CodexTypes, Turn
  <2>2. /\ Reply(q, turns + 1, "ok") \in Message
        /\ Note("started", turns + 1, "ok") \in Message
    BY <2>1, MessageTypes DEF Result
  <2>3. chan' \in Seq(Message)
    BY <2>2, WriteTypes DEF OpenTurn, TypeOK
  <2>4. QED
    BY <2>1, <2>3 DEF OpenTurn, TypeOK, CodexTypes
<1>2. HistTypes'
  <2>1. q.m \in Mission
    BY RequestMission DEF OpenTurn
  <2>2. QED
    BY <2>1 DEF OpenTurn, TypeOK, HistTypes
<1>3. DispTypes' /\ ConvTypes' /\ CompTypes' /\ FlagTypes' /\ ContTypes'
  BY DEF OpenTurn, TypeOK, DispTypes, ConvTypes, CompTypes, FlagTypes, ContTypes, disp, conv,
     comp, flags, cont
<1>4. QED
  BY <1>1, <1>2, <1>3 DEF TypeOK

LEMMA RejectTurnTypes ==
  ASSUME TypeOK, NEW q \in Request, RejectTurn(q)
  PROVE  TypeOK'
<1>1. CodexTypes'
  <2>1. Reply(q, NoTurn, "error") \in Message
    BY MessageTypes DEF Result, NoTurn
  <2>2. chan' \in Seq(Message)
    BY <2>1, WriteTypes DEF RejectTurn, TypeOK
  <2>3. QED
    BY <2>2 DEF RejectTurn, TypeOK, CodexTypes
<1>2. HistTypes'
  BY DEF RejectTurn, TypeOK, HistTypes, Fault
<1>3. DispTypes' /\ ConvTypes' /\ CompTypes' /\ FlagTypes' /\ ContTypes'
  BY DEF RejectTurn, TypeOK, DispTypes, ConvTypes, CompTypes, FlagTypes, ContTypes, disp, conv,
     comp, flags, cont
<1>4. QED
  BY <1>1, <1>2, <1>3 DEF TypeOK

LEMMA FinishTurnTypes ==
  ASSUME TypeOK, NEW t \in Turn, NEW r \in Result, FinishTurn(t, r)
  PROVE  TypeOK'
<1>1. CodexTypes'
  <2>1. Note("completed", t, r) \in Message
    BY MessageTypes DEF Result, NoTurn
  <2>2. chan' \in Seq(Message)
    BY <2>1, WriteTypes DEF FinishTurn, TypeOK
  <2>3. QED
    BY <2>2 DEF FinishTurn, TypeOK, CodexTypes
<1>2. DispTypes' /\ ConvTypes' /\ CompTypes' /\ FlagTypes' /\ ContTypes' /\ HistTypes'
  BY DEF FinishTurn, TypeOK, DispTypes, ConvTypes, CompTypes, FlagTypes, ContTypes, HistTypes,
     disp, conv, comp, flags, cont, hist
<1>3. QED
  BY <1>1, <1>2 DEF TypeOK

LEMMA OverflowTurnTypes ==
  ASSUME TypeOK, NEW t \in Turn, OverflowTurn(t)
  PROVE  TypeOK'
<1>1. CodexTypes'
  <2>1. Note("ctx", t, "failed") \in Message
    BY MessageTypes DEF Result, NoTurn
  <2>2. chan' \in Seq(Message)
    BY <2>1, WriteTypes DEF OverflowTurn, TypeOK
  <2>3. QED
    BY <2>2 DEF OverflowTurn, TypeOK, CodexTypes
<1>2. DispTypes' /\ ConvTypes' /\ CompTypes' /\ FlagTypes' /\ ContTypes' /\ HistTypes'
  BY DEF OverflowTurn, TypeOK, DispTypes, ConvTypes, CompTypes, FlagTypes, ContTypes,
     HistTypes, disp, conv, comp, flags, cont, hist
<1>3. QED
  BY <1>1, <1>2 DEF TypeOK

LEMMA CompactAutomaticallyTypes ==
  ASSUME TypeOK, NEW t \in Turn, CompactAutomatically(t)
  PROVE  TypeOK'
<1>1. CodexTypes'
  <2>1. Note("compacted", NoTurn, "ok") \in Message
    BY MessageTypes DEF Result, NoTurn
  <2>2. chan' \in Seq(Message)
    BY <2>1, WriteTypes DEF CompactAutomatically, TypeOK
  <2>3. QED
    BY <2>2 DEF CompactAutomatically, TypeOK, CodexTypes
<1>2. HistTypes'
  BY DEF CompactAutomatically, TypeOK, HistTypes, Fault
<1>3. DispTypes' /\ ConvTypes' /\ CompTypes' /\ FlagTypes' /\ ContTypes'
  BY DEF CompactAutomatically, TypeOK, DispTypes, ConvTypes, CompTypes, FlagTypes, ContTypes,
     disp, conv, comp, flags, cont
<1>4. QED
  BY <1>1, <1>2, <1>3 DEF TypeOK

LEMMA AskApprovalTypes ==
  ASSUME TypeOK, NEW t \in Turn, AskApproval(t)
  PROVE  TypeOK'
<1>1. CodexTypes'
  <2>1. Note("ask", t, "ok") \in Message
    BY MessageTypes DEF Result, NoTurn
  <2>2. chan' \in Seq(Message)
    BY <2>1, WriteTypes DEF AskApproval, TypeOK
  <2>3. QED
    BY <2>2 DEF AskApproval, TypeOK, CodexTypes
<1>2. DispTypes' /\ ConvTypes' /\ CompTypes' /\ FlagTypes' /\ ContTypes' /\ HistTypes'
  BY DEF AskApproval, TypeOK, DispTypes, ConvTypes, CompTypes, FlagTypes, ContTypes, HistTypes,
     disp, conv, comp, flags, cont, hist
<1>3. QED
  BY <1>1, <1>2 DEF TypeOK

LEMMA ServeInterruptTypes ==
  ASSUME TypeOK, NEW q \in Request, ServeInterrupt(q)
  PROVE  TypeOK'
<1>1. CodexTypes'
  <2>1. /\ Note("completed", q.t, "interrupted") \in Message
        /\ \A r \in {"ok", "error"} : Reply(q, q.t, r) \in Message
    BY RequestMission, MessageTypes DEF ServeInterrupt, Result
  <2>2. chan' \in Seq(Message)
    BY <2>1, WriteTypes DEF ServeInterrupt, TypeOK
  <2>3. QED
    BY <2>2 DEF ServeInterrupt, TypeOK, CodexTypes
<1>2. DispTypes' /\ ConvTypes' /\ CompTypes' /\ FlagTypes' /\ ContTypes' /\ HistTypes'
  BY DEF ServeInterrupt, TypeOK, DispTypes, ConvTypes, CompTypes, FlagTypes, ContTypes,
     HistTypes, disp, conv, comp, flags, cont, hist
<1>3. QED
  BY <1>1, <1>2 DEF TypeOK

LEMMA ServeCompactTypes ==
  ASSUME TypeOK, NEW q \in Request, ServeCompact(q)
  PROVE  TypeOK'
<1>1. CodexTypes'
  <2>1. Reply(q, NoTurn, "ok") \in Message /\ Reply(q, NoTurn, "error") \in Message
    BY MessageTypes DEF Result, NoTurn
  <2>2. chan' \in Seq(Message)
    BY <2>1, WriteTypes DEF ServeCompact, TypeOK
  <2>3. QED
    BY <2>2 DEF ServeCompact, TypeOK, CodexTypes
<1>2. HistTypes'
  BY DEF ServeCompact, TypeOK, HistTypes, Fault
<1>3. DispTypes' /\ ConvTypes' /\ CompTypes' /\ FlagTypes' /\ ContTypes'
  BY DEF ServeCompact, TypeOK, DispTypes, ConvTypes, CompTypes, FlagTypes, ContTypes, disp,
     conv, comp, flags, cont
<1>4. QED
  BY <1>1, <1>2, <1>3 DEF TypeOK

LEMMA FinishCompactionTypes ==
  ASSUME TypeOK, FinishCompaction
  PROVE  TypeOK'
<1>1. CodexTypes'
  <2>1. turns' \in 0..MaxTurns
    BY BoundAssumption DEF FinishCompaction, TypeOK, CodexTypes
  <2>2. Note("compacted", NoTurn, "ok") \in Message
    BY MessageTypes DEF Result
  <2>3. turns' = turns + 1 => Note("completed", turns + 1, "completed") \in Message
    BY <2>1, MessageTypes DEF TypeOK, CodexTypes, Result, Turn
  <2>4. chan' \in Seq(Message)
    BY <2>2, <2>3, WriteTypes DEF FinishCompaction, TypeOK
  <2>5. QED
    BY <2>1, <2>4 DEF FinishCompaction, TypeOK, CodexTypes
<1>2. DispTypes' /\ ConvTypes' /\ CompTypes' /\ FlagTypes' /\ ContTypes' /\ HistTypes'
  BY DEF FinishCompaction, TypeOK, DispTypes, ConvTypes, CompTypes, FlagTypes, ContTypes,
     HistTypes, disp, conv, comp, flags, cont, hist
<1>3. QED
  BY <1>1, <1>2 DEF TypeOK
-----------------------------------------------------------------------------
\* The lock

\* No job in js continues a startMission.
NoContinuation(js) == \A i \in DOMAIN js : ~Continues(js[i])

\* A job that continues no startMission may be queued at any time.
LEMMA LockAppend ==
  ASSUME NEW d, NEW s, NEW js \in Seq(Job), NEW j \in Job,
         Locked(d, s, js), ~Continues(j)
  PROVE  Locked(d, s, Append(js, j))
BY DEF Locked, Continues

\* And any job may leave the queue.
LEMMA LockTail ==
  ASSUME NEW d, NEW s, NEW js \in Seq(Job), Locked(d, s, js), js # <<>>
  PROVE  /\ Locked(d, s, Tail(js))
         /\ Continues(Head(js)) => NoContinuation(Tail(js))
<1>1. /\ DOMAIN Tail(js) = 1..Len(js) - 1 /\ Len(js) \in Nat \ {0}
      /\ \A i \in 1..Len(js) - 1 : Tail(js)[i] = js[i + 1] /\ i + 1 \in DOMAIN js
      /\ 1 \in DOMAIN js /\ Head(js) = js[1]
  OBVIOUS
<1>2. Locked(d, s, Tail(js))
  <2>1. \A i \in DOMAIN Tail(js) :
          /\ Tail(js)[i].k = "start" => s[Tail(js)[i].m] \in {"threadOk", "settled"}
          /\ Tail(js)[i].k = "end" => s[Tail(js)[i].m] = "ending"
    BY <1>1 DEF Locked
  <2>2. \A i, j \in DOMAIN Tail(js) : Continues(Tail(js)[i]) /\ Continues(Tail(js)[j]) => i = j
    <3> SUFFICES ASSUME NEW i \in DOMAIN Tail(js), NEW j \in DOMAIN Tail(js),
                        Continues(Tail(js)[i]), Continues(Tail(js)[j])
                 PROVE  i = j
      OBVIOUS
    <3>1. i + 1 = j + 1
      BY <1>1 DEF Locked
    <3>2. QED
      BY <1>1, <3>1
  <2>3. QED
    BY <2>1, <2>2 DEF Locked
<1>3. ASSUME Continues(Head(js)) PROVE NoContinuation(Tail(js))
  <2> SUFFICES ASSUME NEW i \in DOMAIN Tail(js), Continues(Tail(js)[i]) PROVE FALSE
    BY DEF NoContinuation
  <2>1. i + 1 = 1
    BY <1>1, <1>3 DEF Locked
  <2>2. QED
    BY <1>1, <2>1
<1>4. QED
  BY <1>2, <1>3

\* With the lock free, no start or end job is queued.
LEMMA FreeLock ==
  ASSUME NEW d, NEW s, NEW js \in Seq(Job), Locked(d, s, js), ~d
  PROVE  /\ NoContinuation(js)
         /\ \A m \in Mission : s[m] = "idle"
<1>1. \A m \in Mission : s[m] = "idle"
  BY DEF Locked
<1>2. \A i \in DOMAIN js : Continues(js[i]) => js[i].m \in Mission
  BY DEF Job, Continues
<1>3. QED
  BY <1>1, <1>2 DEF Locked, NoContinuation, Continues

\* Neither is one while a startMission waits for something that is not a job.
LEMMA WaitingLock ==
  ASSUME NEW d, NEW s, NEW js \in Seq(Job), Locked(d, s, js),
         NEW m \in Mission, s[m] \in {"thread", "dir", "turn"}
  PROVE  NoContinuation(js)
<1>1. \A i \in DOMAIN js : Continues(js[i]) => js[i].m \in Mission
  BY DEF Job, Continues
<1>2. QED
  BY <1>1 DEF Locked, NoContinuation, Continues

\* The holder of the lock, or who takes it free, may move to any stage, and the
\* job that continues it there is queued.
LEMMA LockMove ==
  ASSUME NEW s \in [Mission -> Stage], NEW js \in Seq(Job), NoContinuation(js),
         NEW m \in Mission, NEW to \in Stage \ {"idle"},
         \A n \in Mission : s[n] # "idle" => n = m
  PROVE  /\ Locked(TRUE, [s EXCEPT ![m] = to], js)
         /\ \A j \in Job : /\ j.m = m
                           /\ \/ j.k = "start" /\ to \in {"threadOk", "settled"}
                              \/ j.k = "end" /\ to = "ending"
                           => Locked(TRUE, [s EXCEPT ![m] = to], Append(js, j))
<1> DEFINE s2 == [s EXCEPT ![m] = to]
<1>1. s2[m] = to /\ \A n \in Mission : s2[n] # "idle" <=> n = m
  OBVIOUS
<1>2. Locked(TRUE, s2, js)
  BY <1>1 DEF Locked, NoContinuation, Continues
<1>3. ASSUME NEW j \in Job, j.m = m,
             \/ j.k = "start" /\ to \in {"threadOk", "settled"}
             \/ j.k = "end" /\ to = "ending"
      PROVE  Locked(TRUE, s2, Append(js, j))
  <2>1. /\ DOMAIN Append(js, j) = 1..Len(js) + 1 /\ Len(js) \in Nat
        /\ \A i \in 1..Len(js) : Append(js, j)[i] = js[i] /\ i \in DOMAIN js
        /\ Append(js, j)[Len(js) + 1] = j
    OBVIOUS
  <2>2. \A i \in DOMAIN Append(js, j) : Continues(Append(js, j)[i]) => i = Len(js) + 1
    BY <2>1 DEF NoContinuation
  <2>3. QED
    BY <1>1, <1>3, <2>1, <2>2 DEF Locked, Continues
<1>4. QED
  BY <1>2, <1>3

\* The holder releases it.
LEMMA LockRelease ==
  ASSUME NEW d, NEW s \in [Mission -> Stage], NEW js \in Seq(Job), Locked(d, s, js),
         NoContinuation(js), NEW m \in Mission, s[m] # "idle"
  PROVE  Locked(FALSE, [s EXCEPT ![m] = "idle"], js)
BY DEF Locked, NoContinuation, Continues

\* processNext takes the lock only when it is free.
LEMMA ProcessNextLock ==
  ASSUME DispTypes,
         NEW st, NEW act, NEW cmp, NEW ld, NEW js \in Seq(Job),
         Locked(dispatching, stage, js), ProcessNext(st, act, cmp, ld, js)
  PROVE  DispatchLock'
<1>1. CASE jobs' = js /\ UNCHANGED <<dispatching, stage>>
  BY <1>1 DEF DispatchLock
<1>2. ASSUME NEW m \in Mission, ~dispatching, dispatching' = TRUE,
             stage' = [stage EXCEPT ![m] = IF ld THEN "threadOk" ELSE "thread"],
             jobs' = IF ld THEN Append(js, StartJob(m, NoTurn, "ok")) ELSE js
      PROVE  DispatchLock'
  <2>1. NoContinuation(js) /\ \A n \in Mission : stage[n] = "idle"
    BY <1>2, FreeLock
  <2>2. StartJob(m, NoTurn, "ok") \in Job
    BY JobTypes DEF Result
  <2>3. CASE ld
    <3>1. Locked(TRUE, [stage EXCEPT ![m] = "threadOk"], Append(js, StartJob(m, NoTurn, "ok")))
      BY <2>1, <2>2, LockMove DEF DispTypes, StartJob, Stage
    <3>2. QED
      BY <1>2, <2>3, <3>1 DEF DispatchLock
  <2>4. CASE ~ld
    <3>1. Locked(TRUE, [stage EXCEPT ![m] = "thread"], js)
      BY <2>1, LockMove DEF DispTypes, Stage
    <3>2. QED
      BY <1>2, <2>4, <3>1 DEF DispatchLock
  <2>5. QED
    BY <2>3, <2>4
<1>3. QED
  BY <1>1, <1>2 DEF ProcessNext, MayDispatch

\* The lock is held by the one mission whose stage is not idle.
LEMMA Holder ==
  ASSUME DispTypes, DispatchLock, NEW m \in Mission, stage[m] # "idle"
  PROVE  dispatching = TRUE /\ \A n \in Mission : stage[n] # "idle" => n = m
BY DEF DispatchLock, Locked, DispTypes

\* startTurn leaves one job at most.
LEMMA SendTurnLock ==
  ASSUME TypeOK, NEW m \in Mission, NEW js \in Seq(Job), NoContinuation(js),
         \A n \in Mission : stage[n] # "idle" => n = m,
         SendTurn(m, js)
  PROVE  Locked(TRUE, stage', jobs')
<1>1. stage \in [Mission -> Stage] /\ StartJob(m, NoTurn, "infra") \in Job
  BY JobTypes DEF TypeOK, DispTypes, Result
<1>2. Locked(TRUE, [stage EXCEPT ![m] = "turn"], js)
  BY <1>1, LockMove DEF Stage
<1>3. Locked(TRUE, [stage EXCEPT ![m] = "settled"], Append(js, StartJob(m, NoTurn, "infra")))
  BY <1>1, LockMove DEF Stage, StartJob
<1>4. QED
  BY <1>2, <1>3 DEF SendTurn

\* An await of startMission that settles outside a job queues one.
LEMMA SettleLock ==
  ASSUME TypeOK, DispatchLock, NEW m \in Mission, stage[m] \in {"thread", "turn"},
         NEW to \in {"threadOk", "settled"}, NEW t \in Turn \cup {NoTurn}, NEW r \in Result,
         stage' = [stage EXCEPT ![m] = to], jobs' = Append(jobs, StartJob(m, t, r)),
         dispatching' = dispatching
  PROVE  DispatchLock'
<1>1. DispTypes /\ stage \in [Mission -> Stage] /\ jobs \in Seq(Job) /\ StartJob(m, t, r) \in
     Job
  BY JobTypes DEF TypeOK, DispTypes
<1>2. NoContinuation(jobs)
  BY <1>1, WaitingLock DEF DispatchLock
<1>3. dispatching = TRUE /\ \A n \in Mission : stage[n] # "idle" => n = m
  BY <1>1, Holder
<1>4. Locked(TRUE, [stage EXCEPT ![m] = to], Append(jobs, StartJob(m, t, r)))
  BY <1>1, <1>2, <1>3, LockMove DEF Stage, StartJob
<1>5. QED
  BY <1>3, <1>4 DEF DispatchLock

\* A job that continues no startMission is queued, or none is.
LEMMA QueueLock ==
  ASSUME TypeOK, DispatchLock, UNCHANGED <<dispatching, stage>>,
         \/ jobs' = jobs
         \/ \E j \in Job : ~Continues(j) /\ jobs' = Append(jobs, j)
  PROVE  DispatchLock'
<1>1. jobs \in Seq(Job)
  BY DEF TypeOK, DispTypes
<1>2. QED
  BY <1>1, LockAppend DEF DispatchLock

\* The head job runs and continues no startMission; it may queue another such.
LEMMA RunLock ==
  ASSUME TypeOK, DispatchLock, jobs # <<>>, UNCHANGED <<dispatching, stage>>,
         \/ jobs' = Tail(jobs)
         \/ \E j \in Job : ~Continues(j) /\ jobs' = Append(Tail(jobs), j)
  PROVE  DispatchLock'
<1>1. jobs \in Seq(Job) /\ Tail(jobs) \in Seq(Job)
  BY DEF TypeOK, DispTypes
<1>2. Locked(dispatching, stage, Tail(jobs))
  BY <1>1, LockTail DEF DispatchLock
<1>3. QED
  BY <1>1, <1>2, LockAppend DEF DispatchLock

\* The head job is the one that continues m's startMission.
LEMMA HeadLock ==
  ASSUME TypeOK, DispatchLock, jobs # <<>>, Continues(Head(jobs)), Head(jobs).m \in Mission
  PROVE  /\ Tail(jobs) \in Seq(Job) /\ NoContinuation(Tail(jobs))
         /\ Locked(dispatching, stage, Tail(jobs))
         /\ stage[Head(jobs).m] # "idle"
         /\ dispatching = TRUE
         /\ \A n \in Mission : stage[n] # "idle" => n = Head(jobs).m
<1>1. DispTypes /\ jobs \in Seq(Job) /\ Tail(jobs) \in Seq(Job)
  BY DEF TypeOK, DispTypes
<1>2. Locked(dispatching, stage, Tail(jobs)) /\ NoContinuation(Tail(jobs))
  BY <1>1, LockTail DEF DispatchLock
<1>3. 1 \in DOMAIN jobs /\ Head(jobs) = jobs[1]
  BY <1>1
<1>4. stage[Head(jobs).m] # "idle"
  BY <1>3 DEF DispatchLock, Locked, Continues
<1>5. QED
  BY <1>1, <1>2, <1>4, Holder

\* An app-server exit rejects at most one startMission.
LEMMA CodexExitLock ==
  ASSUME TypeOK, DispatchLock, CodexExit
  PROVE  DispatchLock'
<1> DEFINE Waiting(m) == stage[m] \in {"thread", "turn"}
<1>1. /\ jobs' \in Orders(PendingRejections)
      /\ stage' = [m \in Mission |-> IF Waiting(m) THEN "settled" ELSE stage[m]]
      /\ dispatching' = dispatching
  BY DEF CodexExit
<1>2. \A m \in Mission : stage'[m] # "idle" <=> stage[m] # "idle"
  BY <1>1
<1>3. \A i \in DOMAIN jobs' : jobs'[i] \in PendingRejections
  BY <1>1 DEF Orders
<1>4. \A job \in PendingRejections : Continues(job) =>
        \E m \in Mission : Waiting(m) /\ job = StartJob(m, NoTurn, "infra")
  BY DEF PendingRejections, Continues, RecJob, ManJob
<1>5. \A i \in DOMAIN jobs' :
        /\ jobs'[i].k = "start" => stage'[jobs'[i].m] \in {"threadOk", "settled"}
        /\ jobs'[i].k = "end" => stage'[jobs'[i].m] = "ending"
  <2> TAKE i \in DOMAIN jobs'
  <2>1. CASE Continues(jobs'[i])
    <3>1. PICK m \in Mission : Waiting(m) /\ jobs'[i] = StartJob(m, NoTurn, "infra")
      BY <1>3, <1>4, <2>1
    <3>2. QED
      BY <1>1, <3>1 DEF StartJob
  <2>2. CASE ~Continues(jobs'[i])
    BY <2>2 DEF Continues
  <2>3. QED
    BY <2>1, <2>2
<1>6. \A i, j \in DOMAIN jobs' : Continues(jobs'[i]) /\ Continues(jobs'[j]) => i = j
  <2> SUFFICES ASSUME NEW i \in DOMAIN jobs', NEW j \in DOMAIN jobs',
                      Continues(jobs'[i]), Continues(jobs'[j])
               PROVE  i = j
    OBVIOUS
  <2>1. PICK m \in Mission : Waiting(m) /\ jobs'[i] = StartJob(m, NoTurn, "infra")
    BY <1>3, <1>4
  <2>2. PICK n \in Mission : Waiting(n) /\ jobs'[j] = StartJob(n, NoTurn, "infra")
    BY <1>3, <1>4
  <2>3. m = n
    BY <2>1, <2>2 DEF DispatchLock, Locked
  <2>4. QED
    BY <1>1, <2>1, <2>2, <2>3 DEF Orders
<1>7. QED
  BY <1>1, <1>2, <1>5, <1>6 DEF DispatchLock, Locked

\* The lock is kept by every step.
LEMMA LockStep ==
  ASSUME TypeOK, DispatchLock, [Next]_vars
  PROVE  DispatchLock'
<1>a. DispTypes /\ jobs \in Seq(Job) /\ stage \in [Mission -> Stage]
      /\ Locked(dispatching, stage, jobs)
  BY DEF TypeOK, DispTypes, DispatchLock
<1>b. NextJob \in Job /\ ~Continues(NextJob)
  BY JobTypes DEF NextJob, Continues
<1>c. \A r \in Result : ManJob(r) \in Job /\ ~Continues(ManJob(r))
  BY JobTypes DEF ManJob, Continues
<1>d. \A m \in Mission, r \in Result :
        /\ StopJob(m, r) \in Job /\ ~Continues(StopJob(m, r))
        /\ RecJob(m, r) \in Job /\ ~Continues(RecJob(m, r))
  BY JobTypes DEF StopJob, RecJob, Continues
<1>1. ASSUME NEW m \in Mission, Create(m) PROVE DispatchLock'
  BY <1>a, <1>1, ProcessNextLock DEF Create
<1>2. ASSUME NEW m \in Mission, Resume(m) PROVE DispatchLock'
  BY <1>a, <1>2, ProcessNextLock DEF Resume
<1>3. ASSUME NEW p \in BOOLEAN, SetDispatchPaused(p) PROVE DispatchLock'
  BY <1>b, <1>3, QueueLock DEF SetDispatchPaused
<1>4. ASSUME CompactConversation PROVE DispatchLock'
  BY <1>c, <1>4, QueueLock DEF CompactConversation, Result
<1>5. ASSUME ThreadOpened PROVE DispatchLock'
  <2>1. ASSUME NEW m \in Mission, stage[m] = "thread",
               stage' = [stage EXCEPT ![m] = "threadOk"],
               jobs' = Append(jobs, StartJob(m, NoTurn, "ok"))
        PROVE  DispatchLock'
    BY <1>5, <2>1, SettleLock DEF ThreadOpened, Result
  <2>2. ASSUME jobs' = Append(jobs, ManJob("ok")), UNCHANGED stage PROVE DispatchLock'
    BY <1>c, <1>5, <2>2, QueueLock DEF ThreadOpened, Result
  <2>3. QED
    BY <1>5, <2>1, <2>2 DEF ThreadOpened
<1>6. ASSUME ThreadFails PROVE DispatchLock'
  <2>1. ASSUME NEW m \in Mission, NEW r \in {"infra", "error"}, stage[m] = "thread",
               stage' = [stage EXCEPT ![m] = "settled"],
               jobs' = Append(jobs, StartJob(m, NoTurn, r))
        PROVE  DispatchLock'
    BY <1>6, <2>1, SettleLock DEF ThreadFails, Result
  <2>2. ASSUME jobs' = Append(jobs, ManJob("infra")), UNCHANGED stage PROVE DispatchLock'
    BY <1>c, <1>6, <2>2, QueueLock DEF ThreadFails, Result
  <2>3. QED
    BY <1>6, <2>1, <2>2 DEF ThreadFails
<1>7. ASSUME NEW m \in Mission, DirectoryMade(m) PROVE DispatchLock'
  <2>1. NoContinuation(jobs)
    BY <1>a, <1>7, WaitingLock DEF DirectoryMade
  <2>2. dispatching = TRUE /\ \A n \in Mission : stage[n] # "idle" => n = m
    BY <1>a, <1>7, Holder DEF DirectoryMade
  <2>3. Locked(TRUE, stage', jobs')
    BY <1>a, <1>7, <2>1, <2>2, SendTurnLock DEF DirectoryMade
  <2>4. QED
    BY <1>7, <2>2, <2>3 DEF DirectoryMade, DispatchLock
<1>8. ASSUME RunNext PROVE DispatchLock'
  <2>1. Tail(jobs) \in Seq(Job) /\ Locked(dispatching, stage, Tail(jobs))
    BY <1>a, <1>8, LockTail DEF RunNext
  <2>2. QED
    BY <1>a, <1>8, <2>1, ProcessNextLock DEF RunNext
<1>9. ASSUME NEW m \in Mission, RunThreadReady(m) PROVE DispatchLock'
  <2>1. Continues(Head(jobs)) /\ Head(jobs).m = m /\ jobs # <<>>
    BY <1>9 DEF RunThreadReady, Continues
  <2>2. /\ Tail(jobs) \in Seq(Job) /\ NoContinuation(Tail(jobs)) /\ dispatching = TRUE
        /\ \A n \in Mission : stage[n] # "idle" => n = m
    BY <2>1, HeadLock
  <2>3. CASE "web" \in env
    <3>1. Locked(TRUE, [stage EXCEPT ![m] = "dir"], Tail(jobs))
      BY <1>a, <2>2, LockMove DEF Stage
    <3>2. QED
      BY <1>9, <2>2, <2>3, <3>1 DEF RunThreadReady, DispatchLock
  <2>4. CASE "web" \notin env
    <3>1. Locked(TRUE, stage', jobs')
      BY <1>9, <2>2, <2>4, SendTurnLock DEF RunThreadReady
    <3>2. QED
      BY <1>9, <2>2, <3>1 DEF RunThreadReady, DispatchLock
  <2>5. QED
    BY <2>3, <2>4
<1>10. ASSUME NEW m \in Mission, RunTurnStarted(m) PROVE DispatchLock'
  <2>1. Continues(Head(jobs)) /\ Head(jobs).m = m /\ jobs # <<>>
    BY <1>10 DEF RunTurnStarted, Continues
  <2>2. /\ Tail(jobs) \in Seq(Job) /\ NoContinuation(Tail(jobs)) /\ dispatching = TRUE
        /\ \A n \in Mission : stage[n] # "idle" => n = m
    BY <2>1, HeadLock
  <2>3. EndJob(m, "ok") \in Job /\ Append(Tail(jobs), NextJob) \in Seq(Job)
    BY <1>b, <2>2, JobTypes DEF Result
  <2>4. NoContinuation(Append(Tail(jobs), NextJob))
    BY <1>b, <2>2 DEF NoContinuation
  <2>5. \A js \in Seq(Job) : NoContinuation(js) =>
          Locked(TRUE, [stage EXCEPT ![m] = "ending"], Append(js, EndJob(m, "ok")))
    BY <1>a, <2>2, <2>3, LockMove DEF Stage, EndJob
  <2>6. QED
    BY <1>10, <2>2, <2>3, <2>4, <2>5 DEF RunTurnStarted, DispatchLock
<1>11. ASSUME NEW m \in Mission, RunStartFailed(m) PROVE DispatchLock'
  <2>1. Continues(Head(jobs)) /\ Head(jobs).m = m /\ jobs # <<>>
    BY <1>11 DEF RunStartFailed, Continues
  <2>2. /\ Tail(jobs) \in Seq(Job) /\ NoContinuation(Tail(jobs)) /\ dispatching = TRUE
        /\ \A n \in Mission : stage[n] # "idle" => n = m
    BY <2>1, HeadLock
  <2>3. EndJob(m, Head(jobs).r) \in Job
    BY <1>a, <2>1, HeadJobTypes, JobTypes
  <2>4. Locked(TRUE, [stage EXCEPT ![m] = "ending"], Append(Tail(jobs), EndJob(m,
     Head(jobs).r)))
    BY <1>a, <2>2, <2>3, LockMove DEF Stage, EndJob
  <2>5. QED
    BY <1>11, <2>2, <2>4 DEF RunStartFailed, DispatchLock
<1>12. ASSUME NEW m \in Mission, RunDispatched(m) PROVE DispatchLock'
  <2>1. Continues(Head(jobs)) /\ Head(jobs).m = m /\ jobs # <<>>
    BY <1>12 DEF RunDispatched, Continues
  <2>2. Locked(FALSE, [stage EXCEPT ![m] = "idle"], Tail(jobs))
    BY <1>a, <2>1, HeadLock, LockRelease
  <2>3. QED
    BY <1>12, <2>2 DEF RunDispatched, DispatchLock
<1>13. ASSUME NEW m \in Mission, RunDispatchFailed(m) PROVE DispatchLock'
  <2>1. Continues(Head(jobs)) /\ Head(jobs).m = m /\ jobs # <<>>
    BY <1>13 DEF RunDispatchFailed, Continues
  <2>2. Tail(jobs) \in Seq(Job)
    BY <2>1, HeadLock
  <2>3. Locked(FALSE, [stage EXCEPT ![m] = "idle"], Tail(jobs))
    BY <1>a, <2>1, HeadLock, LockRelease
  <2>4. Locked(FALSE, [stage EXCEPT ![m] = "idle"], Append(Tail(jobs), NextJob))
    BY <1>b, <2>2, <2>3, LockAppend
  <2>5. QED
    BY <1>13, <2>3, <2>4 DEF RunDispatchFailed, DispatchLock
<1>14. ASSUME NEW m \in Mission, RunInterrupted(m) PROVE DispatchLock'
  BY <1>b, <1>14, RunLock DEF RunInterrupted, FinishActive
<1>15. ASSUME NEW m \in Mission, RunRecoveryCompact(m) PROVE DispatchLock'
  BY <1>15, RunLock DEF RunRecoveryCompact
<1>16. ASSUME NEW m \in Mission, RunRecoveryAwait(m) PROVE DispatchLock'
  BY <1>16, RunLock DEF RunRecoveryAwait
<1>17. ASSUME RunCompaction PROVE DispatchLock'
  BY <1>17, RunLock DEF RunCompaction
<1>18. ASSUME CompactionTimeout PROVE DispatchLock'
  <2>1. CASE compacting
    BY <1>a, <1>18, <2>1, ProcessNextLock DEF CompactionTimeout
  <2>2. CASE ~compacting
    BY <1>18, <2>2 DEF CompactionTimeout, disp, DispatchLock
  <2>3. QED
    BY <2>1, <2>2
<1>19. ASSUME InitializeConversation PROVE DispatchLock'
  BY <1>a, <1>19, ProcessNextLock DEF InitializeConversation
<1>20. ASSUME RequestTimeout PROVE DispatchLock'
  <2>1. ASSUME NEW m \in Mission, stage[m] = "turn",
               stage' = [stage EXCEPT ![m] = "settled"],
               jobs' = Append(jobs, StartJob(m, NoTurn, "error"))
        PROVE  DispatchLock'
    BY <1>20, <2>1, SettleLock DEF RequestTimeout, Result
  <2>2. ASSUME UNCHANGED stage,
               \/ jobs' = jobs
               \/ jobs' = Append(jobs, ManJob("error"))
               \/ \E m \in Mission : jobs' = Append(jobs, RecJob(m, "error"))
        PROVE  DispatchLock'
    BY <1>c, <1>d, <1>20, <2>2, QueueLock DEF RequestTimeout, Result
  <2>3. QED
    BY <1>20, <2>1, <2>2 DEF RequestTimeout
<1>21. ASSUME HandleReply PROVE DispatchLock'
  <2> DEFINE q == Head(chan).q
             r == Head(chan).r
  <2>1. q \in Request /\ r \in Result /\ Head(chan).t \in Turn \cup {NoTurn}
    BY <1>21, ReadTypes DEF HandleReply, TypeOK
  <2>2. q.k # "manCompact" => q.m \in Mission
    BY <2>1, RequestMission
  <2>3. CASE /\ q.k = "turn" /\ stage[q.m] = "turn"
             /\ stage' = [stage EXCEPT ![q.m] = "settled"]
             /\ jobs' = Append(jobs, StartJob(q.m, Head(chan).t, r))
    BY <1>21, <2>1, <2>2, <2>3, SettleLock DEF HandleReply
  <2>4. CASE /\ UNCHANGED stage
             /\ \/ jobs' = jobs
                \/ jobs' = Append(jobs, ManJob(r))
                \/ q.k # "manCompact" /\ jobs' = Append(jobs, StopJob(q.m, "ok"))
                \/ q.k # "manCompact" /\ jobs' = Append(jobs, RecJob(q.m, r))
    BY <1>c, <1>d, <1>21, <2>1, <2>2, <2>4, QueueLock DEF HandleReply, Result
  <2>5. QED
    BY <1>21, <2>3, <2>4 DEF HandleReply
<1>22. ASSUME CompactionEnds PROVE DispatchLock'
  BY <1>a, <1>22, ProcessNextLock DEF CompactionEnds
<1>23. ASSUME HandleTurnCompleted PROVE DispatchLock'
  <2>1. ASSUME NEW m \in Mission, FinishActive(m, jobs), UNCHANGED <<dispatching, stage>>
        PROVE  DispatchLock'
    BY <1>b, <2>1, QueueLock DEF FinishActive
  <2>2. ASSUME UNCHANGED disp PROVE DispatchLock'
    BY <2>2 DEF disp, DispatchLock
  <2>3. QED
    BY <1>22, <1>23, <2>1, <2>2 DEF HandleTurnCompleted
<1>24. ASSUME HandleContextError PROVE DispatchLock'
  BY <1>b, <1>24, QueueLock DEF HandleContextError, RecoverFromContextWindow, FinishActive
<1>25. ASSUME ApplicationRestart PROVE DispatchLock'
  BY <1>25 DEF ApplicationRestart, DispatchLock, Locked
<1>25a. ASSUME ContextCleared PROVE DispatchLock'
  BY <1>b, <1>25a, QueueLock DEF ContextCleared
<1>25b. ASSUME ClearFailed PROVE DispatchLock'
  BY <1>b, <1>25b, RunLock DEF ClearFailed
<1>26. ASSUME UNCHANGED <<dispatching, stage, jobs>> PROVE DispatchLock'
  BY <1>26 DEF DispatchLock
<1>27. ASSUME User PROVE DispatchLock'
  BY <1>1, <1>2, <1>3, <1>4, <1>26, <1>27
     DEF User, CancelQueued, Interrupt, Approve, ClearContext, disp
<1>28. ASSUME Microtask PROVE DispatchLock'
  BY <1>8, <1>9, <1>10, <1>11, <1>12, <1>13, <1>14, <1>15, <1>16, <1>17, <1>28, <1>25b
     DEF Microtask
<1>29. ASSUME Read PROVE DispatchLock'
  BY <1>21, <1>22, <1>23, <1>24, <1>26, <1>29
     DEF Read, HandleTurnStarted, HandleCompacted, HandleServerRequest, disp
<1>30. ASSUME AppServer PROVE DispatchLock'
  BY <1>26, <1>30 DEF AppServer, ServeRequest, EndTurn, OpenTurn, RejectTurn, FinishTurn,
     OverflowTurn,
     CompactAutomatically, AskApproval, ServeInterrupt, ServeCompact, FinishCompaction, disp
<1>31. ASSUME Settle \/ Timer \/ CodexReady \/ Failure PROVE DispatchLock'
  BY <1>5, <1>6, <1>7, <1>18, <1>19, <1>20, <1>25, <1>26, <1>31, <1>25a, CodexExitLock
     DEF Settle, Timer, Failure, CodexReady, DispatchRetry, disp
<1>32. QED
  BY <1>26, <1>27, <1>28, <1>29, <1>30, <1>31 DEF Next, vars, disp

-----------------------------------------------------------------------------
\* The theorems

LEMMA TypeStep ==
  ASSUME TypeOK, [Next]_vars
  PROVE  TypeOK'
<1>1. ASSUME User PROVE TypeOK'
  BY <1>1, CreateTypes, CancelQueuedTypes, InterruptTypes, ResumeTypes, ApproveTypes,
     SetDispatchPausedTypes, CompactConversationTypes, ClearContextTypes DEF User
<1>2. ASSUME Microtask PROVE TypeOK'
  BY <1>2, RunNextTypes, RunCompactionTypes, RunThreadReadyTypes, RunTurnStartedTypes,
     RunStartFailedTypes, RunDispatchedTypes, RunDispatchFailedTypes, RunInterruptedTypes,
     RunRecoveryCompactTypes, RunRecoveryAwaitTypes, ClearFailedTypes DEF Microtask
<1>3. ASSUME Read PROVE TypeOK'
  BY <1>3, HandleReplyTypes, HandleTurnStartedTypes, HandleTurnCompletedTypes,
     HandleCompactedTypes, HandleContextErrorTypes, HandleServerRequestTypes DEF Read
<1>4. ASSUME AppServer PROVE TypeOK'
  <2>1. inbox \subseteq Request /\ live \subseteq Turn
    BY DEF TypeOK, CodexTypes
  <2>2. QED
    BY <1>4, <2>1, OpenTurnTypes, RejectTurnTypes, FinishTurnTypes, OverflowTurnTypes,
       CompactAutomaticallyTypes, AskApprovalTypes, ServeInterruptTypes, ServeCompactTypes,
       FinishCompactionTypes DEF AppServer, ServeRequest, EndTurn, Result
<1>5. ASSUME Settle \/ Timer \/ CodexReady \/ Failure PROVE TypeOK'
  BY <1>5, ThreadOpenedTypes, ContextClearedTypes, DirectoryMadeTypes, CompactionTimeoutTypes, DispatchRetryTypes,
     InitializeConversationTypes, CodexReadyTypes, CodexExitTypes, ApplicationRestartTypes,
     ThreadFailsTypes, RequestTimeoutTypes DEF Settle, Timer, Failure
<1>6. ASSUME UNCHANGED vars PROVE TypeOK'
  BY <1>6 DEF vars, disp, conv, comp, flags, cont, codex, hist, TypeOK, DispTypes, ConvTypes,
     CompTypes, FlagTypes, ContTypes, CodexTypes, HistTypes
<1>7. QED
  BY <1>1, <1>2, <1>3, <1>4, <1>5, <1>6 DEF Next

\* Every variable keeps its type, for any missions, scenarios and bounds.
THEOREM TypeCorrect == Spec => []TypeOK
<1>1. ASSUME Init PROVE TypeOK
  <2>1. DispTypes
    <3>1. status \in [Mission -> Status] /\ stage \in [Mission -> Stage]
      BY <1>1 DEF Init, Status, Stage
    <3>2. jobs \in Seq(Job)
      BY <1>1 DEF Init
    <3>3. QED
      BY <1>1, <3>1, <3>2 DEF Init, DispTypes
  <2>2. ConvTypes
    BY <1>1 DEF Init, ConvTypes
  <2>3. CompTypes /\ FlagTypes /\ ContTypes
    BY <1>1 DEF Init, CompTypes, FlagTypes, ContTypes
  <2>4. CodexTypes
    BY <1>1, BoundAssumption DEF Init, CodexTypes
  <2>5. HistTypes
    BY <1>1 DEF Init, HistTypes
  <2>6. QED
    BY <2>1, <2>2, <2>3, <2>4, <2>5 DEF TypeOK
<1>2. TypeOK /\ [Next]_vars => TypeOK'
  BY TypeStep
<1>3. QED
  BY <1>1, <1>2, PTL DEF Spec

\* `dispatching' is a lock: the dispatcher keeps it exactly while a startMission
\* is under way, and queues at most one job that continues it.
THEOREM LockCorrect == Spec => []DispatchLock
<1>1. Init => DispatchLock
  BY DEF Init, DispatchLock, Locked
<1>2. TypeOK /\ DispatchLock /\ [Next]_vars => DispatchLock'
  BY LockStep
<1>3. QED
  BY <1>1, <1>2, TypeCorrect, PTL DEF Spec

\* At most one startMission is in flight, whatever the operator and the
\* app-server do.
THEOREM OneStart == Spec => []AtMostOneStart
<1>1. DispatchLock => AtMostOneStart
  BY DEF DispatchLock, Locked, AtMostOneStart
<1>2. QED
  BY <1>1, LockCorrect, PTL

-----------------------------------------------------------------------------
\* Queues: the microtasks and the lines

\* s2 is s without its first d elements, followed by members of new.
Moved(s, s2, d, new) ==
  /\ \A i \in DOMAIN s2 : \/ i + d \in DOMAIN s /\ s2[i] = s[i + d]
                          \/ i + d > Len(s) /\ s2[i] \in new
  /\ \A j \in DOMAIN s : j > d => j - d \in DOMAIN s2 /\ s2[j - d] = s[j]

\* What the handlers do to a queue moves it.
LEMMA MovedSame ==
  ASSUME NEW S, NEW s \in Seq(S), NEW new
  PROVE  Moved(s, s, 0, new)
BY DEF Moved

LEMMA MovedAppend ==
  ASSUME NEW S, NEW s \in Seq(S), NEW e, NEW new, e \in new
  PROVE  Moved(s, Append(s, e), 0, new)
<1>1. /\ DOMAIN Append(s, e) = 1..Len(s) + 1 /\ Len(s) \in Nat /\ DOMAIN s = 1..Len(s)
      /\ \A i \in 1..Len(s) : Append(s, e)[i] = s[i]
      /\ Append(s, e)[Len(s) + 1] = e
  OBVIOUS
<1>2. QED
  BY <1>1 DEF Moved

LEMMA MovedTail ==
  ASSUME NEW S, NEW s \in Seq(S), s # <<>>, NEW new
  PROVE  /\ Moved(s, Tail(s), 1, new) /\ Tail(s) \in Seq(S)
         /\ Head(s) = s[1] /\ 1 \in DOMAIN s /\ Head(s) \in S
<1>1. /\ DOMAIN Tail(s) = 1..Len(s) - 1 /\ Len(s) \in Nat \ {0} /\ DOMAIN s = 1..Len(s)
      /\ \A i \in 1..Len(s) - 1 : Tail(s)[i] = s[i + 1]
      /\ Tail(s) \in Seq(S)
  OBVIOUS
<1>2. QED
  BY <1>1 DEF Moved

LEMMA MovedTailAppend ==
  ASSUME NEW S, NEW s \in Seq(S), s # <<>>, NEW e, NEW new, e \in new
  PROVE  Moved(s, Append(Tail(s), e), 1, new)
<1>1. /\ DOMAIN Tail(s) = 1..Len(s) - 1 /\ Len(s) \in Nat \ {0} /\ DOMAIN s = 1..Len(s)
      /\ \A i \in 1..Len(s) - 1 : Tail(s)[i] = s[i + 1]
      /\ Tail(s) \in Seq(S) /\ Len(Tail(s)) = Len(s) - 1
  OBVIOUS
<1>2. /\ DOMAIN Append(Tail(s), e) = 1..Len(s)
      /\ \A i \in 1..Len(s) - 1 : Append(Tail(s), e)[i] = Tail(s)[i]
      /\ Append(Tail(s), e)[Len(s)] = e
  BY <1>1
<1>3. QED
  BY <1>1, <1>2 DEF Moved

LEMMA MovedConcat ==
  ASSUME NEW S, NEW s \in Seq(S), NEW u \in Seq(S), NEW new,
         \A i \in DOMAIN u : u[i] \in new
  PROVE  Moved(s, s \o u, 0, new)
<1>1. /\ DOMAIN (s \o u) = 1..Len(s) + Len(u) /\ Len(s) \in Nat /\ DOMAIN s = 1..Len(s)
      /\ Len(u) \in Nat /\ DOMAIN u = 1..Len(u)
      /\ \A i \in 1..Len(s) : (s \o u)[i] = s[i]
      /\ \A i \in Len(s) + 1..Len(s) + Len(u) : (s \o u)[i] = u[i - Len(s)]
  OBVIOUS
<1>2. \A i \in Len(s) + 1..Len(s) + Len(u) : i - Len(s) \in DOMAIN u
  BY <1>1
<1>3. QED
  BY <1>1, <1>2 DEF Moved

-----------------------------------------------------------------------------
\* The start of a turn

\* The reply to a turn/start.
StartLine(l) == l.k = "reply" /\ l.q.k = "turn"

\* The job of a startMission whose turn is open.
Opened(j) == j.k = "start" /\ j.r = "ok" /\ stage[j.m] = "settled"

\* The mission being started holds the slot, if anyone does.
SlotHeld == \A m \in Mission : stage[m] # "idle" => active \in {m, NoMission}

\* A turn/start is one request, then one reply, then one job: while any of them is
\* there, its mission waits at that stage.
StartRequests ==
  \A q \in inbox : q.k = "turn" => stage[q.m] = "turn" /\ q.n = sends[q.m] /\ q.t = NoTurn
StartReplies ==
  /\ \A i \in DOMAIN chan : StartLine(chan[i]) =>
       /\ stage[chan[i].q.m] = "turn" /\ chan[i].q.n = sends[chan[i].q.m]
       /\ \A q \in inbox : q.k # "turn"
       /\ chan[i].r \in {"ok", "error"}
       /\ chan[i].r = "ok" => chan[i].t # NoTurn /\ owner[chan[i].t] = chan[i].q.m
  /\ \A i, j \in DOMAIN chan : StartLine(chan[i]) /\ StartLine(chan[j]) => i = j
StartJobs ==
  \A i \in DOMAIN jobs : Opened(jobs[i]) => jobs[i].t # NoTurn /\ owner[jobs[i].t] = jobs[i].m

\* Turns are numbered as they open; the ids the missions have and the app-server
\* announces are those of turns that were started for a mission.
Numbered ==
  /\ \A t \in Turn : owner[t] # NoMission => t <= turns
  /\ \A m \in Mission : turn[m] # NoTurn => owner[turn[m]] = m
  /\ \A i \in DOMAIN chan : chan[i].k = "started" =>
       chan[i].t # NoTurn /\ owner[chan[i].t] # NoMission

\* A turn/started is read in the order the turns opened.  Its mission has the turn by
\* then, or its reply is still to be handled and it is the last turn opened.
Coming(t) ==
  \/ \E i \in DOMAIN chan : StartLine(chan[i]) /\ chan[i].r = "ok" /\ chan[i].t = t
  \/ \E i \in DOMAIN jobs : Opened(jobs[i]) /\ jobs[i].t = t
Announced ==
  /\ \A i \in DOMAIN chan : chan[i].k = "started" =>
       turn[owner[chan[i].t]] = chan[i].t \/ Coming(chan[i].t)
  /\ \A i, j \in DOMAIN chan :
       chan[i].k = "started" /\ chan[j].k = "started" /\ i < j => chan[i].t < chan[j].t
  /\ \A i, j \in DOMAIN chan :
       chan[i].k = "started" /\ StartLine(chan[j]) /\ chan[j].r = "ok" =>
         chan[i].t <= chan[j].t /\ (chan[i].t # chan[j].t => i < j)
  /\ \A i \in DOMAIN chan, j \in DOMAIN jobs :
       chan[i].k = "started" /\ Opened(jobs[j]) => chan[i].t = jobs[j].t

Tokens == StartRequests /\ StartReplies /\ StartJobs /\ Numbered /\ Announced

-----------------------------------------------------------------------------
\* A step that leaves turns, starts and their lines alone.
LEMMA QuietTokens ==
  ASSUME TypeOK, TypeOK', Tokens,
         UNCHANGED <<stage, owner, sends, turn>>, turns' >= turns,
         \A q \in inbox' : q.k = "turn" => q \in inbox,
         NEW dc \in Nat, NEW lines, Moved(chan, chan', dc, lines),
         \A l \in lines : ~StartLine(l) /\ l.k # "started",
         \A i \in DOMAIN chan : i <= dc => ~StartLine(chan[i]),
         NEW dj \in Nat, NEW js, Moved(jobs, jobs', dj, js),
         \A j \in js : j.k # "start",
         \A i \in DOMAIN jobs : i <= dj => jobs[i].k # "start"
  PROVE  Tokens'
<1>a. chan \in Seq(Message) /\ chan' \in Seq(Message) /\ jobs \in Seq(Job) /\ jobs' \in Seq(Job)
  BY DEF TypeOK, CodexTypes, DispTypes
<1>b. \A i \in DOMAIN chan' : StartLine(chan'[i]) \/ chan'[i].k = "started" =>
        i + dc \in DOMAIN chan /\ chan'[i] = chan[i + dc]
  BY DEF Moved
<1>c. \A i \in DOMAIN jobs' : jobs'[i].k = "start" =>
        i + dj \in DOMAIN jobs /\ jobs'[i] = jobs[i + dj]
  BY DEF Moved
<1>d. \A i \in DOMAIN chan : StartLine(chan[i]) => i - dc \in DOMAIN chan' /\ chan'[i - dc] = chan[i]
  BY <1>a DEF Moved
<1>e. \A i \in DOMAIN jobs : jobs[i].k = "start" => i - dj \in DOMAIN jobs' /\ jobs'[i - dj] = jobs[i]
  BY <1>a DEF Moved
<1>f. \A j : Opened(j)' <=> Opened(j)
  BY DEF Opened
<1>1. StartRequests'
  BY DEF StartRequests, Tokens
<1>2. StartReplies'
  <2>1. \A i \in DOMAIN chan' : StartLine(chan'[i]) =>
       /\ stage'[chan'[i].q.m] = "turn" /\ chan'[i].q.n = sends'[chan'[i].q.m]
       /\ \A q \in inbox' : q.k # "turn"
       /\ chan'[i].r \in {"ok", "error"}
       /\ chan'[i].r = "ok" => chan'[i].t # NoTurn /\ owner'[chan'[i].t] = chan'[i].q.m
    BY <1>b DEF StartReplies, Tokens
  <2>2. \A i, j \in DOMAIN chan' : StartLine(chan'[i]) /\ StartLine(chan'[j]) => i = j
    <3> SUFFICES ASSUME NEW i \in DOMAIN chan', NEW j \in DOMAIN chan',
                        StartLine(chan'[i]), StartLine(chan'[j])
                 PROVE  i = j
      OBVIOUS
    <3>1. i + dc = j + dc
      BY <1>b DEF StartReplies, Tokens
    <3>2. QED
      BY <3>1, <1>a
  <2>3. QED
    BY <2>1, <2>2 DEF StartReplies, StartLine
<1>3. StartJobs'
  BY <1>c, <1>f DEF StartJobs, Tokens, Opened
<1>4. Numbered'
  <2>1. \A t \in Turn : owner'[t] # NoMission => t <= turns'
    BY DEF Numbered, Tokens, TypeOK, CodexTypes, Turn
  <2>2. QED
    BY <1>b, <2>1 DEF Numbered, Tokens
<1>5. Announced'
  <2>1. \A t : Coming(t) => Coming(t)'
    BY <1>d, <1>e, <1>f DEF Coming, Opened, StartLine
  <2>2. \A i \in DOMAIN chan' : chan'[i].k = "started" =>
          turn'[owner'[chan'[i].t]] = chan'[i].t \/ Coming(chan[i].t)'
    BY <1>b, <2>1 DEF Announced, Tokens
  <2>3. \A i, j \in DOMAIN chan' :
          chan'[i].k = "started" /\ chan'[j].k = "started" /\ i < j => chan'[i].t < chan'[j].t
    <3> SUFFICES ASSUME NEW i \in DOMAIN chan', NEW j \in DOMAIN chan',
                        chan'[i].k = "started", chan'[j].k = "started", i < j
                 PROVE  chan'[i].t < chan'[j].t
      OBVIOUS
    <3>1. i + dc < j + dc
      BY <1>a
    <3>2. QED
      BY <1>b, <3>1 DEF Announced, Tokens
  <2>4. \A i, j \in DOMAIN chan' :
          chan'[i].k = "started" /\ StartLine(chan'[j]) /\ chan'[j].r = "ok" =>
            chan'[i].t <= chan'[j].t /\ (chan'[i].t # chan'[j].t => i < j)
    <3> SUFFICES ASSUME NEW i \in DOMAIN chan', NEW j \in DOMAIN chan',
                        chan'[i].k = "started", StartLine(chan'[j]), chan'[j].r = "ok"
                 PROVE  chan'[i].t <= chan'[j].t /\ (chan'[i].t # chan'[j].t => i < j)
      OBVIOUS
    <3>1. chan'[i].t # chan'[j].t => i + dc < j + dc
      BY <1>b DEF Announced, Tokens
    <3>2. QED
      BY <1>a, <1>b, <3>1 DEF Announced, Tokens
  <2>5. \A i \in DOMAIN chan', j \in DOMAIN jobs' :
          chan'[i].k = "started" /\ Opened(jobs[j])' => chan'[i].t = jobs'[j].t
    BY <1>b, <1>c, <1>f DEF Announced, Tokens, Opened
  <2>6. QED
    BY <2>2, <2>3, <2>4, <2>5 DEF Announced, StartLine, Opened
<1>6. QED
  BY <1>1, <1>2, <1>3, <1>4, <1>5 DEF Tokens

\* No startMission has its turn.
NoneOpened == \A i \in DOMAIN jobs : ~Opened(jobs[i])

\* While no mission waits for a turn/start and no job brings a turn, there is neither
\* request nor reply.
LEMMA NoTokens ==
  ASSUME TypeOK, Tokens, \A n \in Mission : stage[n] # "turn"
  PROVE  /\ \A q \in inbox : q.k # "turn"
         /\ \A i \in DOMAIN chan : ~StartLine(chan[i])
<1>1. \A q \in inbox : q.k = "turn" => q.m \in Mission
  BY RequestMission DEF TypeOK, CodexTypes
<1>2. \A i \in DOMAIN chan : StartLine(chan[i]) => chan[i].q.m \in Mission
  <2> TAKE i \in DOMAIN chan
  <2>1. chan[i] \in Message
    BY DEF TypeOK, CodexTypes
  <2>2. StartLine(chan[i]) => chan[i].q \in Request
    BY <2>1 DEF Message, StartLine
  <2>3. QED
    BY <2>2, RequestMission DEF StartLine
<1>3. QED
  BY <1>1, <1>2 DEF Tokens, StartRequests, StartReplies

\* Only a mission whose turn/start has settled has a job that brings a turn.
LEMMA NotSettled ==
  ASSUME TypeOK, \A n \in Mission : stage[n] # "settled"
  PROVE  NoneOpened
<1>1. \A i \in DOMAIN jobs : jobs[i].k = "start" => jobs[i].m \in Mission
  BY DEF TypeOK, DispTypes, Job
<1>2. QED
  BY <1>1 DEF NoneOpened, Opened

\* A step that is not about a turn: none is being started before, none has been after.
LEMMA IdleTokens ==
  ASSUME TypeOK, TypeOK', Tokens, \A n \in Mission : stage[n] # "turn",
         UNCHANGED <<owner, turn, turns, inbox>>,
         NEW dc \in Nat, NEW lines, Moved(chan, chan', dc, lines),
         \A l \in lines : ~StartLine(l) /\ l.k # "started",
         NoneOpened, NoneOpened'
  PROVE  Tokens'
<1>a. chan \in Seq(Message) /\ chan' \in Seq(Message)
  BY DEF TypeOK, CodexTypes
<1>1. /\ \A q \in inbox : q.k # "turn"
      /\ \A i \in DOMAIN chan : ~StartLine(chan[i])
  BY NoTokens
<1>2. \A i \in DOMAIN chan' : /\ ~StartLine(chan'[i])
                              /\ chan'[i].k = "started" =>
                                   i + dc \in DOMAIN chan /\ chan'[i] = chan[i + dc]
  BY <1>1 DEF Moved
<1>3. StartRequests' /\ StartReplies' /\ StartJobs' /\ Numbered'
  BY <1>1, <1>2 DEF Tokens, StartRequests, StartReplies, StartJobs, Numbered, NoneOpened, StartLine
<1>4. \A t : ~Coming(t)
  BY <1>1 DEF Coming, NoneOpened
<1>5. Announced'
  <2>1. \A i \in DOMAIN chan : chan[i].k = "started" => turn[owner[chan[i].t]] = chan[i].t
    BY <1>4 DEF Tokens, Announced
  <2>2. \A i, j \in DOMAIN chan' :
          chan'[i].k = "started" /\ chan'[j].k = "started" /\ i < j => chan'[i].t < chan'[j].t
    <3> SUFFICES ASSUME NEW i \in DOMAIN chan', NEW j \in DOMAIN chan',
                        chan'[i].k = "started", chan'[j].k = "started", i < j
                 PROVE  chan'[i].t < chan'[j].t
      OBVIOUS
    <3>1. i + dc < j + dc
      BY <1>a
    <3>2. QED
      BY <1>2, <3>1 DEF Announced, Tokens
  <2>3. QED
    BY <1>2, <2>1, <2>2 DEF Announced, NoneOpened, StartLine
<1>6. QED
  BY <1>3, <1>5 DEF Tokens

\* turn/start goes out.
LEMMA SendTokens ==
  ASSUME TypeOK, Tokens, \A n \in Mission : stage[n] # "turn",
         NEW m \in Mission,
         stage' = [stage EXCEPT ![m] = "turn"],
         sends' = [sends EXCEPT ![m] = @ + 1],
         inbox' = inbox \cup {[k |-> "turn", m |-> m, t |-> NoTurn, n |-> sends[m] + 1]},
         UNCHANGED <<owner, turn, turns, chan>>,
         NoneOpened, NoneOpened'
  PROVE  Tokens'
<1>1. /\ \A q \in inbox : q.k # "turn"
      /\ \A i \in DOMAIN chan : ~StartLine(chan[i])
  BY NoTokens
<1>2. stage'[m] = "turn" /\ sends'[m] = sends[m] + 1
  BY DEF TypeOK, DispTypes, HistTypes
<1>3. StartRequests'
  BY <1>1, <1>2 DEF StartRequests
<1>4. StartReplies' /\ StartJobs' /\ Numbered'
  BY <1>1 DEF Tokens, StartReplies, StartJobs, Numbered, NoneOpened, StartLine
<1>5. \A t : ~Coming(t)
  BY <1>1 DEF Coming, NoneOpened
<1>6. Announced'
  <2>1. \A i \in DOMAIN chan : chan[i].k = "started" => turn[owner[chan[i].t]] = chan[i].t
    BY <1>5 DEF Tokens, Announced
  <2>2. QED
    BY <1>1, <2>1 DEF Tokens, Announced, NoneOpened, StartLine
<1>7. QED
  BY <1>3, <1>4, <1>6 DEF Tokens

\* The app-server, or the application, is gone.
LEMMA LostTokens ==
  ASSUME TypeOK, Tokens, UNCHANGED <<owner, turn, turns>>,
         inbox' = {}, chan' = <<>>, NoneOpened'
  PROVE  Tokens'
<1>1. StartRequests' /\ StartReplies' /\ StartJobs' /\ Numbered'
  BY DEF Tokens, StartRequests, StartReplies, StartJobs, Numbered, NoneOpened
<1>2. Announced'
  BY DEF Announced
<1>3. QED
  BY <1>1, <1>2 DEF Tokens

\* A line is read.
LEMMA MovedRead ==
  ASSUME TypeOK, NEW kind, Reading(kind), NEW new
  PROVE  /\ Moved(chan, chan', 1, new) /\ chan' = Tail(chan)
         /\ Head(chan) = chan[1] /\ 1 \in DOMAIN chan /\ Head(chan) \in Message
         /\ chan[1].k = kind
         /\ \A i \in DOMAIN chan : i <= 1 => i = 1
<1>1. chan \in Seq(Message) /\ chan # <<>> /\ chan' = Tail(chan) /\ Head(chan).k = kind
  BY DEF TypeOK, CodexTypes, Reading
<1>2. QED
  BY <1>1, MovedTail

\* Lines are written.
LEMMA MovedWrite ==
  ASSUME TypeOK
  PROVE  /\ \A a \in Message : Write(<<a>>) => Moved(chan, chan', 0, {a})
         /\ \A a, b \in Message : Write(<<a, b>>) => Moved(chan, chan', 0, {a, b})
<1>1. chan \in Seq(Message)
  BY DEF TypeOK, CodexTypes
<1>2. ASSUME NEW a \in Message, Write(<<a>>) PROVE Moved(chan, chan', 0, {a})
  <2>1. <<a>> \in Seq(Message) /\ \A i \in DOMAIN <<a>> : <<a>>[i] \in {a}
    OBVIOUS
  <2>2. QED
    BY <1>1, <1>2, <2>1, MovedConcat DEF Write
<1>3. ASSUME NEW a \in Message, NEW b \in Message, Write(<<a, b>>)
      PROVE  Moved(chan, chan', 0, {a, b})
  <2>1. <<a, b>> \in Seq(Message) /\ \A i \in DOMAIN <<a, b>> : <<a, b>>[i] \in {a, b}
    OBVIOUS
  <2>2. QED
    BY <1>1, <1>3, <2>1, MovedConcat DEF Write
<1>4. QED
  BY <1>2, <1>3

\* The reply to turn/start is read: it is the one its mission waits for, and a turn/start
\* that opened a turn is now a job.
LEMMA ReplyTokens ==
  ASSUME TypeOK, TypeOK', DispatchLock, Tokens, HandleReply, StartLine(Head(chan))
  PROVE  Tokens'
<1> DEFINE q == Head(chan).q
           l == Head(chan)
<1>a. /\ Moved(chan, chan', 1, {}) /\ chan[1] = l /\ 1 \in DOMAIN chan /\ l \in Message
      /\ chan \in Seq(Message) /\ chan' \in Seq(Message) /\ jobs \in Seq(Job) /\ jobs' \in Seq(Job)
  BY MovedRead DEF HandleReply, TypeOK, CodexTypes, DispTypes
<1>b. q \in Request /\ q.k = "turn" /\ q.m \in Mission /\ l.r \in Result
      /\ l.t \in Turn \cup {NoTurn}
  BY <1>a, RequestMission DEF Message, StartLine
<1>1. /\ stage[q.m] = "turn" /\ q.n = sends[q.m]
      /\ \A p \in inbox : p.k # "turn"
      /\ l.r \in {"ok", "error"}
      /\ l.r = "ok" => l.t # NoTurn /\ owner[l.t] = q.m
      /\ \A i \in DOMAIN chan : StartLine(chan[i]) => i = 1
  BY <1>a DEF Tokens, StartReplies
<1>2. /\ stage' = [stage EXCEPT ![q.m] = "settled"]
      /\ jobs' = Append(jobs, StartJob(q.m, l.t, l.r))
      /\ UNCHANGED <<owner, turn, turns, inbox, sends>>
  BY <1>1, <1>b DEF HandleReply, StartLine, codex, conv, hist
<1>3. NoContinuation(jobs) /\ \A n \in Mission : stage[n] # "idle" => n = q.m
  BY <1>1, <1>b, WaitingLock, Holder DEF DispatchLock, TypeOK, DispTypes
<1>4. Moved(jobs, jobs', 0, {StartJob(q.m, l.t, l.r)})
  BY <1>2, <1>a, MovedAppend
<1>5. \A i \in DOMAIN jobs' : jobs'[i].k = "start" => jobs'[i] = StartJob(q.m, l.t, l.r)
  BY <1>3, <1>4 DEF Moved, NoContinuation, Continues
<1>6. \A i \in DOMAIN chan' : i + 1 \in DOMAIN chan /\ chan'[i] = chan[i + 1] /\ ~StartLine(chan'[i])
  <2>1. \A i \in DOMAIN chan' : i + 1 \in DOMAIN chan /\ chan'[i] = chan[i + 1] /\ i + 1 # 1
    BY <1>a DEF Moved
  <2>2. QED
    BY <2>1, <1>1
<1>7. StartRequests' /\ StartReplies'
  BY <1>1, <1>2, <1>6 DEF StartRequests, StartReplies, StartLine
<1>8. StartJobs'
  BY <1>1, <1>2, <1>5 DEF StartJobs, Opened, StartJob
<1>9. Numbered'
  BY <1>2, <1>6 DEF Tokens, Numbered
<1>10. Announced'
  <2>1. \A i \in DOMAIN chan : chan[i].k = "started" /\ l.r = "ok" => chan[i].t = l.t
    <3> SUFFICES ASSUME NEW i \in DOMAIN chan, chan[i].k = "started", l.r = "ok", chan[i].t # l.t
                 PROVE  FALSE
      OBVIOUS
    <3>1. i < 1
      BY <1>a DEF Tokens, Announced
    <3>2. QED
      BY <3>1, <1>a
  <2>2. \A i \in DOMAIN chan' : chan'[i].k = "started" =>
          turn[owner[chan'[i].t]] = chan'[i].t \/ l.r = "ok"
    <3>1. ASSUME NEW i \in DOMAIN chan', chan'[i].k = "started", l.r # "ok"
          PROVE  turn[owner[chan'[i].t]] = chan'[i].t
      <4>1. ~Coming(chan[i + 1].t)
        BY <1>a, <1>1, <1>3, <3>1 DEF Coming, NoContinuation, Continues, Opened
      <4>2. QED
        BY <1>6, <3>1, <4>1 DEF Tokens, Announced
    <3>2. QED
      BY <3>1
  <2>3. ASSUME NEW t, t = l.t, l.r = "ok" PROVE Coming(t)'
    <3>1. Len(jobs) + 1 \in DOMAIN jobs' /\ jobs'[Len(jobs) + 1] = StartJob(q.m, t, "ok")
      BY <1>2, <1>a, <2>3
    <3>2. stage'[q.m] = "settled"
      BY <1>2, <1>b DEF TypeOK, DispTypes
    <3>3. QED
      BY <3>1, <3>2 DEF Coming, Opened, StartJob
  <2>4. \A i \in DOMAIN chan' : chan'[i].k = "started" =>
          turn'[owner'[chan'[i].t]] = chan'[i].t \/ Coming(chan[i].t)'
    BY <1>2, <1>6, <2>1, <2>2, <2>3
  <2>5. \A i, j \in DOMAIN chan' :
          chan'[i].k = "started" /\ chan'[j].k = "started" /\ i < j => chan'[i].t < chan'[j].t
    <3> SUFFICES ASSUME NEW i \in DOMAIN chan', NEW j \in DOMAIN chan',
                        chan'[i].k = "started", chan'[j].k = "started", i < j
                 PROVE  chan'[i].t < chan'[j].t
      OBVIOUS
    <3>1. i + 1 < j + 1
      BY <1>a
    <3>2. QED
      BY <1>6, <3>1 DEF Announced, Tokens
  <2>6. \A i \in DOMAIN chan', j \in DOMAIN jobs' :
          chan'[i].k = "started" /\ Opened(jobs[j])' => chan'[i].t = jobs'[j].t
    BY <1>5, <1>6, <2>1 DEF Opened, StartJob
  <2>7. QED
    BY <1>6, <2>4, <2>5, <2>6 DEF Announced, StartLine
<1>11. QED
  BY <1>7, <1>8, <1>9, <1>10 DEF Tokens

\* startMission takes its turn.
LEMMA TakenTokens ==
  ASSUME TypeOK, TypeOK', DispatchLock, Tokens, NEW m \in Mission, RunTurnStarted(m)
  PROVE  Tokens'
<1> DEFINE t == Head(jobs).t
<1>a. /\ jobs \in Seq(Job) /\ jobs # <<>> /\ Head(jobs) = jobs[1] /\ 1 \in DOMAIN jobs
      /\ Continues(Head(jobs)) /\ Head(jobs).m = m /\ t \in Turn \cup {NoTurn}
      /\ Opened(jobs[1])
  BY HeadJobTypes DEF TypeOK, DispTypes, RunTurnStarted, Continues, Opened
<1>b. t # NoTurn /\ owner[t] = m
  BY <1>a DEF Tokens, StartJobs
<1>c. /\ NoContinuation(Tail(jobs)) /\ Tail(jobs) \in Seq(Job)
      /\ \A n \in Mission : stage[n] # "idle" => n = m
  BY <1>a, HeadLock
<1>d. \A n \in Mission : stage[n] # "turn"
  BY <1>c DEF RunTurnStarted
<1>1. /\ \A q \in inbox : q.k # "turn"
      /\ \A i \in DOMAIN chan : ~StartLine(chan[i])
  BY <1>d, NoTokens
<1>2. /\ turn' = [turn EXCEPT ![m] = t] /\ stage' = [stage EXCEPT ![m] = "ending"]
      /\ UNCHANGED <<chan, inbox, owner, sends, turns>>
      /\ jobs' \in {Append(Append(Tail(jobs), NextJob), EndJob(m, "ok")), Append(Tail(jobs), EndJob(m, "ok"))}
  BY DEF RunTurnStarted, codex, hist
<1>3. NoneOpened'
  <2>1. \A n \in Mission : stage'[n] # "settled"
    BY <1>2, <1>c DEF TypeOK, DispTypes
  <2>2. \A i \in DOMAIN jobs' : jobs'[i].k = "start" => jobs'[i].m \in Mission
    BY DEF TypeOK, DispTypes, Job
  <2>3. QED
    BY <2>1, <2>2 DEF NoneOpened, Opened
<1>4. StartRequests' /\ StartReplies' /\ StartJobs'
  BY <1>1, <1>2, <1>3 DEF StartRequests, StartReplies, StartJobs, NoneOpened, StartLine
<1>5. Numbered'
  BY <1>2, <1>b DEF Tokens, Numbered, TypeOK, ConvTypes
<1>6. \A i \in DOMAIN chan : chan[i].k = "started" => chan[i].t = t
  BY <1>a DEF Tokens, Announced
<1>7. Announced'
  <2>1. turn'[m] = t
    BY <1>2 DEF TypeOK, ConvTypes
  <2>2. \A i \in DOMAIN chan : chan[i].k = "started" => turn'[owner[chan[i].t]] = chan[i].t
    BY <1>6, <1>b, <2>1
  <2>3. QED
    BY <1>1, <1>2, <1>3, <2>2 DEF Tokens, Announced, NoneOpened, StartLine
<1>8. QED
  BY <1>4, <1>5, <1>7 DEF Tokens

\* turn/started is read.  When it gives the active mission the turn, the reply is still to
\* be handled, so that the active mission is the one that waits for it.
LEMMA AnnouncedTokens ==
  ASSUME TypeOK, TypeOK', DispatchLock, SlotHeld, Tokens, HandleTurnStarted
  PROVE  Tokens'
<1> DEFINE l == Head(chan)
<1>a. /\ Moved(chan, chan', 1, {}) /\ chan[1] = l /\ 1 \in DOMAIN chan /\ l \in Message
      /\ chan \in Seq(Message) /\ l.k = "started" /\ chan' \in Seq(Message)
      /\ \A i \in DOMAIN chan : i <= 1 => i = 1
  BY MovedRead DEF HandleTurnStarted, TypeOK, CodexTypes
<1>b. /\ UNCHANGED <<stage, owner, sends, turns, inbox, jobs>>
      /\ jobs \in Seq(Job)
  BY DEF HandleTurnStarted, disp, codex, hist, TypeOK, DispTypes
<1>1. CASE turn' = turn
  <2>1. Moved(jobs, jobs', 0, {})
    BY <1>b, MovedSame
  <2>2. turns' >= turns
    BY <1>b DEF TypeOK, CodexTypes
  <2>3. \A i \in DOMAIN chan : i <= 1 => ~StartLine(chan[i])
    BY <1>a DEF StartLine
  <2>4. \A i \in DOMAIN jobs : i <= 0 => jobs[i].k # "start"
    BY <1>b
  <2>5. QED
    BY <1>1, <1>a, <1>b, <2>1, <2>2, <2>3, <2>4, QuietTokens
<1>2. CASE Unattributed(l.t) /\ ActiveOnThread /\ turn' = [turn EXCEPT ![active] = l.t]
  <2>1. l.t # NoTurn /\ owner[l.t] # NoMission /\ l.t \in Turn /\ owner[l.t] \in Mission
    BY <1>a DEF Tokens, Numbered, Message, TypeOK, HistTypes
  <2>2. Coming(l.t)
    BY <1>a, <1>2, <2>1 DEF Tokens, Announced, Unattributed
  <2>3. stage[owner[l.t]] # "idle"
    BY <2>2 DEF Coming, Tokens, StartReplies, StartJobs, Opened
  <2>4. active = owner[l.t]
    BY <1>2, <2>1, <2>3 DEF SlotHeld, ActiveOnThread
  <2>5. \A i \in DOMAIN chan : chan[i].k = "started" => i = 1
    <3> SUFFICES ASSUME NEW i \in DOMAIN chan, chan[i].k = "started", i # 1 PROVE FALSE
      OBVIOUS
    <3>1. 1 < i
      BY <1>a
    <3>2. l.t < chan[i].t
      BY <3>1, <1>a DEF Tokens, Announced
    <3>3. chan[i].t \in Nat /\ l.t \in Nat
      BY <1>a DEF Message, NoTurn, Turn
    <3>4. chan[i].t <= l.t
      BY <2>2, <1>a, <3>3 DEF Tokens, Announced, Coming
    <3>5. QED
      BY <3>2, <3>3, <3>4
  <2>6. \A i \in DOMAIN chan' : /\ i + 1 \in DOMAIN chan /\ chan'[i] = chan[i + 1]
                                /\ chan'[i].k # "started"
    <3>1. \A i \in DOMAIN chan' : i + 1 \in DOMAIN chan /\ chan'[i] = chan[i + 1] /\ i + 1 # 1
      BY <1>a DEF Moved
    <3>2. QED
      BY <2>5, <3>1
  <2>7. StartRequests' /\ StartJobs'
    BY <1>b DEF Tokens, StartRequests, StartJobs, Opened
  <2>8. StartReplies'
    <3>1. \A i \in DOMAIN chan' : StartLine(chan'[i]) =>
       /\ stage'[chan'[i].q.m] = "turn" /\ chan'[i].q.n = sends'[chan'[i].q.m]
       /\ \A q \in inbox' : q.k # "turn"
       /\ chan'[i].r \in {"ok", "error"}
       /\ chan'[i].r = "ok" => chan'[i].t # NoTurn /\ owner'[chan'[i].t] = chan'[i].q.m
      BY <1>b, <2>6 DEF StartReplies, Tokens
    <3>2. \A i, j \in DOMAIN chan' : StartLine(chan'[i]) /\ StartLine(chan'[j]) => i = j
      <4> SUFFICES ASSUME NEW i \in DOMAIN chan', NEW j \in DOMAIN chan',
                          StartLine(chan'[i]), StartLine(chan'[j])
                   PROVE  i = j
        OBVIOUS
      <4>1. i + 1 = j + 1
        BY <2>6 DEF StartReplies, Tokens
      <4>2. QED
        BY <4>1, <1>a
    <3>3. QED
      BY <3>1, <3>2 DEF StartReplies, StartLine
  <2>9. Numbered'
    BY <1>b, <1>2, <2>1, <2>4, <2>6 DEF Tokens, Numbered, TypeOK, ConvTypes
  <2>10. Announced'
    BY <2>6 DEF Announced
  <2>11. QED
    BY <2>7, <2>8, <2>9, <2>10 DEF Tokens
<1>3. QED
  BY <1>1, <1>2 DEF HandleTurnStarted

\* The app-server opens a turn.
LEMMA OpenTokens ==
  ASSUME TypeOK, TypeOK', DispatchLock, Tokens, NEW q \in inbox, OpenTurn(q)
  PROVE  Tokens'
<1> DEFINE u == turns + 1
           reply == Reply(q, u, "ok")
           note == Note("started", u, "ok")
<1>a. /\ q \in Request /\ q.k = "turn" /\ q.m \in Mission /\ q.t = NoTurn
      /\ stage[q.m] = "turn" /\ q.n = sends[q.m]
      /\ u \in Turn /\ u \in Nat /\ turns \in Nat /\ turns' = u /\ u # NoTurn
      /\ inbox' = inbox \ {q} /\ owner' = [owner EXCEPT ![u] = q.m]
      /\ UNCHANGED <<stage, turn, jobs, sends>>
  BY RequestMission, BoundAssumption DEF OpenTurn, Tokens, StartRequests, TypeOK, CodexTypes, disp, conv, Turn, NoTurn
<1>b. \A n \in Mission : stage[n] # "idle" => n = q.m
  BY <1>a, Holder DEF TypeOK
<1>c. NoContinuation(jobs)
  BY <1>a, WaitingLock DEF TypeOK, DispTypes, DispatchLock
<1>d. \A p \in inbox : p.k = "turn" => p = q
  <2>1. \A p \in inbox : p.k = "turn" => /\ p \in Request /\ p.m \in Mission /\ p.t = NoTurn
                                        /\ p.n = sends[p.m] /\ stage[p.m] = "turn"
    BY RequestMission DEF Tokens, StartRequests, TypeOK, CodexTypes
  <2>2. \A p \in inbox : p.k = "turn" => p.m = q.m
    BY <2>1, <1>b
  <2>3. \A p \in Request : p.k = "turn" => p = [k |-> "turn", m |-> p.m, t |-> p.t, n |-> p.n]
    BY DEF Request
  <2>4. QED
    BY <2>1, <2>2, <2>3, <1>a
<1>e. \A i \in DOMAIN chan : ~StartLine(chan[i])
  BY <1>a DEF Tokens, StartReplies
<1>f. \A t : ~Coming(t)
  BY <1>c, <1>e DEF Coming, NoContinuation, Continues, Opened
<1>g. owner[u] = NoMission /\ \A t \in Turn : t # u => owner'[t] = owner[t]
  BY <1>a DEF Tokens, Numbered, TypeOK, HistTypes
<1>h. owner'[u] = q.m /\ q.m # NoMission
  BY <1>a, MissionAssumption DEF TypeOK, HistTypes, NoMission
<1>i. chan \in Seq(Message) /\ chan' \in Seq(Message) /\ Len(chan) \in Nat
  BY DEF TypeOK, CodexTypes
<1>1. /\ reply \in Message /\ note \in Message /\ StartLine(reply) /\ reply.t = u /\ reply.r = "ok"
      /\ reply.q = q /\ note.k = "started" /\ note.t = u /\ ~StartLine(note) /\ reply.k # "started"
  BY <1>a, MessageTypes DEF Reply, Note, StartLine, Result
\* What there is after the old lines.
<1>2. /\ \A i \in DOMAIN chan' : \/ i \in DOMAIN chan /\ chan'[i] = chan[i]
                                 \/ i > Len(chan) /\ chan'[i] \in {reply, note}
      /\ \A i, j \in DOMAIN chan' : i > Len(chan) /\ j > Len(chan) /\ chan'[i] = chan'[j] => i = j
      /\ \E i \in DOMAIN chan' : chan'[i] = reply
  <2>1. CASE Write(<<reply, note>>)
    <3>1. Len(chan') = Len(chan) + 2 /\ chan'[Len(chan) + 1] = reply /\ chan'[Len(chan) + 2] = note
      BY <1>i, <2>1 DEF Write
    <3>2. Moved(chan, chan', 0, {reply, note})
      BY <1>1, <2>1, MovedWrite
    <3>3. \A i \in DOMAIN chan' : i > Len(chan) => i \in {Len(chan) + 1, Len(chan) + 2}
      BY <3>1, <1>i
    <3>4. \A i \in DOMAIN chan' : i + 0 = i
      BY <1>i
    <3>5. Len(chan) + 1 \in DOMAIN chan'
      BY <3>1, <1>i
    <3>6. \A i \in DOMAIN chan' : \/ i \in DOMAIN chan /\ chan'[i] = chan[i]
                                  \/ i > Len(chan) /\ chan'[i] \in {reply, note}
      BY <3>2, <3>4 DEF Moved
    <3>7. \A i, j \in DOMAIN chan' : i > Len(chan) /\ j > Len(chan) /\ chan'[i] = chan'[j] => i = j
      BY <1>1, <3>1, <3>3
    <3>8. QED
      BY <3>1, <3>5, <3>6, <3>7
  <2>2. CASE Write(<<note, reply>>)
    <3>1. Len(chan') = Len(chan) + 2 /\ chan'[Len(chan) + 1] = note /\ chan'[Len(chan) + 2] = reply
      BY <1>i, <2>2 DEF Write
    <3>2. Moved(chan, chan', 0, {note, reply})
      BY <1>1, <2>2, MovedWrite
    <3>3. \A i \in DOMAIN chan' : i > Len(chan) => i \in {Len(chan) + 1, Len(chan) + 2}
      BY <3>1, <1>i
    <3>4. \A i \in DOMAIN chan' : i + 0 = i
      BY <1>i
    <3>5. Len(chan) + 2 \in DOMAIN chan'
      BY <3>1, <1>i
    <3>6. \A i \in DOMAIN chan' : \/ i \in DOMAIN chan /\ chan'[i] = chan[i]
                                  \/ i > Len(chan) /\ chan'[i] \in {reply, note}
      BY <3>2, <3>4 DEF Moved
    <3>7. \A i, j \in DOMAIN chan' : i > Len(chan) /\ j > Len(chan) /\ chan'[i] = chan'[j] => i = j
      BY <1>1, <3>1, <3>3
    <3>8. QED
      BY <3>1, <3>5, <3>6, <3>7
  <2>3. CASE Write(<<reply>>)
    <3>1. Len(chan') = Len(chan) + 1 /\ chan'[Len(chan) + 1] = reply
      BY <1>i, <2>3 DEF Write
    <3>2. Moved(chan, chan', 0, {reply})
      BY <1>1, <2>3, MovedWrite
    <3>3. \A i \in DOMAIN chan' : i > Len(chan) => i = Len(chan) + 1
      BY <3>1, <1>i
    <3>4. \A i \in DOMAIN chan' : i + 0 = i
      BY <1>i
    <3>5. Len(chan) + 1 \in DOMAIN chan'
      BY <3>1, <1>i
    <3>6. \A i \in DOMAIN chan' : \/ i \in DOMAIN chan /\ chan'[i] = chan[i]
                                  \/ i > Len(chan) /\ chan'[i] \in {reply, note}
      BY <3>2, <3>4 DEF Moved
    <3>7. \A i, j \in DOMAIN chan' : i > Len(chan) /\ j > Len(chan) => i = j
      BY <3>3
    <3>8. QED
      BY <3>1, <3>5, <3>6, <3>7
  <2>4. QED
    BY <2>1, <2>2, <2>3 DEF OpenTurn
<1>3. StartRequests'
  BY <1>a, <1>d DEF StartRequests
<1>4. StartReplies'
  <2>1. \A i \in DOMAIN chan' : StartLine(chan'[i]) => i > Len(chan) /\ chan'[i] = reply
    BY <1>1, <1>2, <1>e
  <2>2. \A i \in DOMAIN chan' : StartLine(chan'[i]) =>
       /\ stage'[chan'[i].q.m] = "turn" /\ chan'[i].q.n = sends'[chan'[i].q.m]
       /\ \A p \in inbox' : p.k # "turn"
       /\ chan'[i].r \in {"ok", "error"}
       /\ chan'[i].r = "ok" => chan'[i].t # NoTurn /\ owner'[chan'[i].t] = chan'[i].q.m
    BY <1>1, <1>a, <1>d, <1>h, <2>1
  <2>3. \A i, j \in DOMAIN chan' : StartLine(chan'[i]) /\ StartLine(chan'[j]) => i = j
    BY <1>2, <2>1
  <2>4. QED
    BY <2>2, <2>3 DEF StartReplies, StartLine
<1>5. StartJobs'
  BY <1>a, <1>c DEF StartJobs, Opened, NoContinuation, Continues
<1>6. Numbered'
  <2>1. \A t \in Turn : owner'[t] # NoMission => t <= turns'
    BY <1>a, <1>g DEF Tokens, Numbered, Turn
  <2>2. \A m \in Mission : turn'[m] # NoTurn => owner'[turn'[m]] = m
    <3>1. \A m \in Mission : turn[m] # NoTurn => turn[m] \in Turn /\ turn[m] # u
      BY <1>g, MissionAssumption DEF Tokens, Numbered, TypeOK, ConvTypes, NoMission
    <3>2. QED
      BY <1>a, <1>g, <3>1 DEF Tokens, Numbered
  <2>3. \A i \in DOMAIN chan' : chan'[i].k = "started" =>
          chan'[i].t # NoTurn /\ owner'[chan'[i].t] # NoMission
    <3>1. \A i \in DOMAIN chan : chan[i].k = "started" => chan[i].t \in Turn
      BY <1>i DEF Tokens, Numbered, Message
    <3>2. QED
      BY <1>1, <1>2, <1>a, <1>g, <1>h, <3>1 DEF Tokens, Numbered
  <2>4. QED
    BY <2>1, <2>2, <2>3 DEF Numbered
<1>7. Announced'
  <2>1. \A i \in DOMAIN chan : chan[i].k = "started" =>
          /\ chan[i].t \in Turn /\ turn[owner[chan[i].t]] = chan[i].t
          /\ owner[chan[i].t] # NoMission /\ chan[i].t < u /\ chan[i].t # u /\ chan[i].t <= u
    BY <1>i, <1>f, <1>g, <1>a DEF Tokens, Numbered, Announced, Message, Turn
  <2>2. ASSUME NEW t, t = u PROVE Coming(t)'
    <3>1. PICK i \in DOMAIN chan' : chan'[i] = reply
      BY <1>2
    <3>2. StartLine(chan'[i]) /\ chan'[i].r = "ok" /\ chan'[i].t = t
      BY <1>1, <2>2, <3>1
    <3>3. QED
      BY <3>2 DEF Coming, StartLine
  <2>3. \A i \in DOMAIN chan' : chan'[i].k = "started" =>
          \/ i \in DOMAIN chan /\ chan'[i] = chan[i]
          \/ i > Len(chan) /\ chan'[i] = note
    BY <1>1, <1>2
  <2>4. \A i \in DOMAIN chan' : chan'[i].k = "started" =>
          turn'[owner'[chan'[i].t]] = chan'[i].t \/ Coming(chan[i].t)'
    <3> SUFFICES ASSUME NEW i \in DOMAIN chan', chan'[i].k = "started"
                 PROVE  turn'[owner'[chan'[i].t]] = chan'[i].t \/ Coming(chan[i].t)'
      OBVIOUS
    <3>1. CASE i \in DOMAIN chan /\ chan'[i] = chan[i]
      BY <3>1, <1>a, <1>g, <2>1
    <3>2. CASE chan'[i] = note
      BY <3>2, <1>1, <2>2
    <3>3. QED
      BY <2>3, <3>1, <3>2
  <2>5. \A i, j \in DOMAIN chan' :
          chan'[i].k = "started" /\ chan'[j].k = "started" /\ i < j => chan'[i].t < chan'[j].t
    <3> SUFFICES ASSUME NEW i \in DOMAIN chan', NEW j \in DOMAIN chan',
                        chan'[i].k = "started", chan'[j].k = "started", i < j
                 PROVE  chan'[i].t < chan'[j].t
      OBVIOUS
    <3>0. i \in Nat /\ j \in Nat /\ (i > Len(chan) => j > Len(chan) /\ j \notin DOMAIN chan)
      BY <1>i
    <3>1. CASE i \in DOMAIN chan /\ chan'[i] = chan[i] /\ j \in DOMAIN chan /\ chan'[j] = chan[j]
      BY <3>1 DEF Tokens, Announced
    <3>2. CASE i \in DOMAIN chan /\ chan'[i] = chan[i] /\ chan'[j] = note
      BY <3>2, <2>1, <1>1
    <3>3. CASE i > Len(chan) /\ chan'[i] = note
      BY <3>3, <3>0, <2>3, <1>2
    <3>4. QED
      BY <2>3, <3>1, <3>2, <3>3
  <2>6. \A i, j \in DOMAIN chan' :
          chan'[i].k = "started" /\ StartLine(chan'[j]) /\ chan'[j].r = "ok" =>
            chan'[i].t <= chan'[j].t /\ (chan'[i].t # chan'[j].t => i < j)
    <3> SUFFICES ASSUME NEW i \in DOMAIN chan', NEW j \in DOMAIN chan',
                        chan'[i].k = "started", StartLine(chan'[j])
                 PROVE  chan'[i].t <= chan'[j].t /\ (chan'[i].t # chan'[j].t => i < j)
      OBVIOUS
    <3>1. j > Len(chan) /\ chan'[j] = reply
      BY <1>1, <1>2, <1>e
    <3>2. CASE i \in DOMAIN chan /\ chan'[i] = chan[i]
      <4>1. i < j
        BY <3>1, <3>2, <1>i
      <4>2. QED
        BY <4>1, <3>1, <3>2, <2>1, <1>1
    <3>3. CASE chan'[i] = note
      BY <3>1, <3>3, <1>1, <1>a
    <3>4. QED
      BY <2>3, <3>2, <3>3
  <2>7. \A j \in DOMAIN jobs' : ~Opened(jobs[j])'
    BY <1>a, <1>c DEF NoContinuation, Continues, Opened
  <2>8. QED
    BY <2>4, <2>5, <2>6, <2>7 DEF Announced, StartLine
<1>8. QED
  BY <1>3, <1>4, <1>5, <1>6, <1>7 DEF Tokens

\* The app-server rejects a turn/start.
LEMMA RejectTokens ==
  ASSUME TypeOK, TypeOK', DispatchLock, Tokens, NEW q \in inbox, RejectTurn(q)
  PROVE  Tokens'
<1> DEFINE reply == Reply(q, NoTurn, "error")
<1>a. /\ q \in Request /\ q.k = "turn" /\ q.m \in Mission /\ q.t = NoTurn
      /\ stage[q.m] = "turn" /\ q.n = sends[q.m]
      /\ inbox' = inbox \ {q}
      /\ UNCHANGED <<stage, turn, jobs, sends, owner, turns>>
  BY RequestMission DEF RejectTurn, Tokens, StartRequests, TypeOK, CodexTypes, disp, conv
<1>b. \A n \in Mission : stage[n] # "idle" => n = q.m
  BY <1>a, Holder DEF TypeOK
<1>c. NoContinuation(jobs)
  BY <1>a, WaitingLock DEF TypeOK, DispTypes, DispatchLock
<1>d. \A p \in inbox : p.k = "turn" => p = q
  <2>1. \A p \in inbox : p.k = "turn" => /\ p \in Request /\ p.m \in Mission /\ p.t = NoTurn
                                        /\ p.n = sends[p.m] /\ stage[p.m] = "turn"
    BY RequestMission DEF Tokens, StartRequests, TypeOK, CodexTypes
  <2>2. \A p \in inbox : p.k = "turn" => p.m = q.m
    BY <2>1, <1>b
  <2>3. \A p \in Request : p.k = "turn" => p = [k |-> "turn", m |-> p.m, t |-> p.t, n |-> p.n]
    BY DEF Request
  <2>4. QED
    BY <2>1, <2>2, <2>3, <1>a
<1>e. \A i \in DOMAIN chan : ~StartLine(chan[i])
  BY <1>a DEF Tokens, StartReplies
<1>f. \A t : ~Coming(t)
  BY <1>c, <1>e DEF Coming, NoContinuation, Continues, Opened
<1>i. chan \in Seq(Message) /\ chan' \in Seq(Message) /\ Len(chan) \in Nat
  BY DEF TypeOK, CodexTypes
<1>1. /\ reply \in Message /\ StartLine(reply) /\ reply.r = "error" /\ reply.q = q /\ reply.k # "started"
  BY <1>a, MessageTypes DEF Reply, StartLine, Result, NoTurn
<1>2. \A i \in DOMAIN chan' : \/ i \in DOMAIN chan /\ chan'[i] = chan[i] /\ ~StartLine(chan'[i])
                              \/ i = Len(chan) + 1 /\ chan'[i] = reply
  <2>1. Len(chan') = Len(chan) + 1
    BY <1>i DEF RejectTurn, Write
  <2>2. Moved(chan, chan', 0, {reply})
    BY <1>1, MovedWrite DEF RejectTurn
  <2>3. \A i \in DOMAIN chan' : i > Len(chan) => i = Len(chan) + 1
    BY <2>1, <1>i
  <2>4. \A i \in DOMAIN chan' : i + 0 = i
    BY <1>i
  <2>5. QED
    BY <2>2, <2>3, <2>4, <1>e DEF Moved
<1>3. StartRequests'
  BY <1>a, <1>d DEF StartRequests
<1>4. StartReplies'
  <2>1. \A i \in DOMAIN chan' : StartLine(chan'[i]) => i = Len(chan) + 1 /\ chan'[i] = reply
    BY <1>2
  <2>2. \A i \in DOMAIN chan' : StartLine(chan'[i]) =>
       /\ stage'[chan'[i].q.m] = "turn" /\ chan'[i].q.n = sends'[chan'[i].q.m]
       /\ \A p \in inbox' : p.k # "turn"
       /\ chan'[i].r = "error"
    BY <1>1, <1>a, <1>d, <2>1
  <2>3. \A i, j \in DOMAIN chan' : StartLine(chan'[i]) /\ StartLine(chan'[j]) => i = j
    BY <2>1
  <2>4. QED
    BY <2>2, <2>3 DEF StartReplies, StartLine
<1>5. StartJobs' /\ Numbered'
  BY <1>a, <1>1, <1>2 DEF StartJobs, Tokens, Numbered, Opened
<1>6. Announced'
  <2>1. \A i \in DOMAIN chan : chan[i].k = "started" => turn[owner[chan[i].t]] = chan[i].t
    BY <1>f DEF Tokens, Announced
  <2>2. \A j \in DOMAIN jobs' : ~Opened(jobs[j])'
    BY <1>a, <1>c DEF NoContinuation, Continues, Opened
  <2>3. \A i \in DOMAIN chan' : chan'[i].k = "started" => i \in DOMAIN chan /\ chan'[i] = chan[i]
    BY <1>1, <1>2
  <2>4. \A i \in DOMAIN chan' : StartLine(chan'[i]) => chan'[i].r # "ok"
    BY <1>1, <1>2
  <2>5. QED
    BY <1>a, <2>1, <2>2, <2>3, <2>4 DEF Announced, Tokens, StartLine
<1>7. QED
  BY <1>3, <1>4, <1>5, <1>6 DEF Tokens

\* processNext, called by a handler that has moved the queues: no turn has to do with it.
LEMMA ProcessNextTokens ==
  ASSUME TypeOK, TypeOK', DispatchLock, Tokens,
         NEW st, NEW act, NEW cmp, NEW ld, NEW js, ProcessNext(st, act, cmp, ld, js),
         UNCHANGED <<owner, sends, turn, turns, inbox>>,
         NEW dc \in Nat, Moved(chan, chan', dc, {}),
         \A i \in DOMAIN chan : i <= dc => ~StartLine(chan[i]),
         js \in Seq(Job), NEW dj \in Nat, Moved(jobs, js, dj, {}),
         \A i \in DOMAIN jobs : i <= dj => jobs[i].k # "start"
  PROVE  Tokens'
<1>1. CASE jobs' = js /\ UNCHANGED <<dispatching, stage>>
  <2>1. Moved(jobs, jobs', dj, {})
    BY <1>1
  <2>2. turns' >= turns
    BY DEF TypeOK, CodexTypes
  <2>3. QED
    BY <1>1, <2>1, <2>2, QuietTokens
<1>2. ASSUME NEW m \in Mission, ~dispatching,
             stage' = [stage EXCEPT ![m] = IF ld THEN "threadOk" ELSE "thread"]
      PROVE  Tokens'
  <2>1. \A n \in Mission : stage[n] = "idle"
    BY <1>2 DEF DispatchLock, Locked
  <2>2. NoneOpened
    BY <2>1, NotSettled
  <2>3. NoneOpened'
    <3>1. \A n \in Mission : stage'[n] # "settled"
      BY <1>2, <2>1 DEF TypeOK, DispTypes
    <3>2. \A i \in DOMAIN jobs' : jobs'[i].k = "start" => jobs'[i].m \in Mission
      BY DEF TypeOK, DispTypes, Job
    <3>3. QED
      BY <3>1, <3>2 DEF NoneOpened, Opened
  <2>4. \A n \in Mission : stage[n] # "turn"
    BY <2>1
  <2>5. QED
    BY <2>2, <2>3, <2>4, IdleTokens
<1>3. QED
  BY <1>1, <1>2 DEF ProcessNext, MayDispatch

\* startTurn.
LEMMA SendTurnTokens ==
  ASSUME TypeOK, TypeOK', DispatchLock, Tokens, NEW m \in Mission, NEW js,
         stage[m] \in {"threadOk", "dir"}, SendTurn(m, js), js \in Seq(Job), NoContinuation(js),
         NoneOpened, UNCHANGED <<owner, turn, turns, chan>>
  PROVE  Tokens'
<1>1. \A n \in Mission : stage[n] # "turn"
  BY Holder DEF TypeOK
<1>2. Moved(chan, chan', 0, {})
  BY MovedSame DEF TypeOK, CodexTypes
<1>3. CASE process = "ready"
  <2>1. NoneOpened'
    BY <1>3 DEF SendTurn, NoneOpened, NoContinuation, Continues, Opened
  <2>2. QED
    BY <1>1, <1>3, <2>1, SendTokens DEF SendTurn
<1>4. CASE process # "ready"
  <2>0. jobs' = Append(js, StartJob(m, NoTurn, "infra"))
    BY <1>4 DEF SendTurn
  <2>1. Moved(js, jobs', 0, {StartJob(m, NoTurn, "infra")})
    BY <2>0, MovedAppend
  <2>2. NoneOpened'
    BY <2>1 DEF Moved, NoneOpened, NoContinuation, Continues, Opened, StartJob
  <2>3. QED
    BY <1>1, <1>2, <1>4, <2>2, IdleTokens DEF SendTurn
<1>5. QED
  BY <1>3, <1>4

\* Lines that are read or written and jobs that run or are queued, none of them about a
\* start.
QuietLines ==
  \E dc \in Nat : \E lines :
    /\ Moved(chan, chan', dc, lines)
    /\ \A l \in lines : ~StartLine(l) /\ l.k # "started"
    /\ \A i \in DOMAIN chan : i <= dc => ~StartLine(chan[i])
QuietJobs ==
  \E dj \in Nat : \E js :
    /\ Moved(jobs, jobs', dj, js)
    /\ \A j \in js : j.k # "start"
    /\ \A i \in DOMAIN jobs : i <= dj => jobs[i].k # "start"

\* The same, from how lines and jobs were moved.
LEMMA QuietStep ==
  ASSUME TypeOK, TypeOK', Tokens, UNCHANGED <<stage, owner, sends, turn>>, turns' >= turns,
         \A q \in inbox' : q.k = "turn" => q \in inbox, QuietLines, QuietJobs
  PROVE  Tokens'
<1>1. PICK dc \in Nat : \E lines :
             /\ Moved(chan, chan', dc, lines)
             /\ \A l \in lines : ~StartLine(l) /\ l.k # "started"
             /\ \A i \in DOMAIN chan : i <= dc => ~StartLine(chan[i])
  BY DEF QuietLines
<1>2. PICK lines :
             /\ Moved(chan, chan', dc, lines)
             /\ \A l \in lines : ~StartLine(l) /\ l.k # "started"
             /\ \A i \in DOMAIN chan : i <= dc => ~StartLine(chan[i])
  BY <1>1
<1>3. PICK dj \in Nat : \E js :
             /\ Moved(jobs, jobs', dj, js)
             /\ \A j \in js : j.k # "start"
             /\ \A i \in DOMAIN jobs : i <= dj => jobs[i].k # "start"
  BY DEF QuietJobs
<1>4. PICK js :
             /\ Moved(jobs, jobs', dj, js)
             /\ \A j \in js : j.k # "start"
             /\ \A i \in DOMAIN jobs : i <= dj => jobs[i].k # "start"
  BY <1>3
<1>5. QED
  BY <1>2, <1>4, QuietTokens

\* What the handlers do to the lines.
LEMMA QuietLineSteps ==
  ASSUME TypeOK
  PROVE  /\ chan' = chan => QuietLines
         /\ \A kind \in {"started", "completed", "ctx", "compacted", "ask"} :
              Reading(kind) => QuietLines
         /\ Reading("reply") /\ ~StartLine(Head(chan)) => QuietLines
         /\ \A a \in Message : Write(<<a>>) /\ ~StartLine(a) /\ a.k # "started" => QuietLines
         /\ \A a, b \in Message :
              (/\ Write(<<a, b>>) /\ ~StartLine(a) /\ a.k # "started"
               /\ ~StartLine(b) /\ b.k # "started") => QuietLines
<1>a. chan \in Seq(Message)
  BY DEF TypeOK, CodexTypes
<1>1. ASSUME chan' = chan PROVE QuietLines
  <2>1. Moved(chan, chan', 0, {})
    BY <1>a, <1>1, MovedSame
  <2>2. \A i \in DOMAIN chan : ~(i <= 0)
    BY <1>a
  <2>3. QED
    BY <2>1, <2>2 DEF QuietLines
<1>2. ASSUME NEW kind, Reading(kind), ~StartLine(Head(chan)) PROVE QuietLines
  <2>1. /\ Moved(chan, chan', 1, {}) /\ Head(chan) = chan[1] /\ \A i \in DOMAIN chan : i <= 1 => i = 1
    BY <1>2, MovedRead
  <2>2. QED
    BY <1>2, <2>1 DEF QuietLines
<1>3. ASSUME NEW kind \in {"started", "completed", "ctx", "compacted", "ask"}, Reading(kind)
      PROVE  QuietLines
  BY <1>2, <1>3 DEF Reading, StartLine
<1>4. ASSUME NEW a \in Message, Write(<<a>>), ~StartLine(a), a.k # "started" PROVE QuietLines
  <2>1. Moved(chan, chan', 0, {a})
    BY <1>4, MovedWrite
  <2>2. \A i \in DOMAIN chan : ~(i <= 0)
    BY <1>a
  <2>3. QED
    BY <1>4, <2>1, <2>2 DEF QuietLines
<1>5. ASSUME NEW a \in Message, NEW b \in Message, Write(<<a, b>>),
             ~StartLine(a), a.k # "started", ~StartLine(b), b.k # "started"
      PROVE  QuietLines
  <2>1. Moved(chan, chan', 0, {a, b})
    BY <1>5, MovedWrite
  <2>2. \A i \in DOMAIN chan : ~(i <= 0)
    BY <1>a
  <2>3. QED
    BY <1>5, <2>1, <2>2 DEF QuietLines
<1>6. QED
  BY <1>1, <1>2, <1>3, <1>4, <1>5

\* What the handlers do to the jobs.
LEMMA QuietJobSteps ==
  ASSUME TypeOK
  PROVE  /\ jobs' = jobs => QuietJobs
         /\ \A j : j.k # "start" /\ jobs' = Append(jobs, j) => QuietJobs
         /\ jobs # <<>> /\ Head(jobs).k # "start" /\ jobs' = Tail(jobs) => QuietJobs
         /\ \A j : (/\ jobs # <<>> /\ Head(jobs).k # "start" /\ j.k # "start"
                    /\ jobs' = Append(Tail(jobs), j)) => QuietJobs
<1>a. jobs \in Seq(Job) /\ \A i \in DOMAIN jobs : ~(i <= 0) /\ (i <= 1 => i = 1)
  BY DEF TypeOK, DispTypes
<1>1. ASSUME jobs' = jobs PROVE QuietJobs
  <2>1. Moved(jobs, jobs', 0, {})
    BY <1>a, <1>1, MovedSame
  <2>2. QED
    BY <1>a, <2>1 DEF QuietJobs
<1>2. ASSUME NEW j, j.k # "start", jobs' = Append(jobs, j) PROVE QuietJobs
  <2>1. Moved(jobs, jobs', 0, {j})
    BY <1>a, <1>2, MovedAppend
  <2>2. QED
    BY <1>a, <1>2, <2>1 DEF QuietJobs
<1>3. ASSUME jobs # <<>>, Head(jobs).k # "start", jobs' = Tail(jobs) PROVE QuietJobs
  <2>1. Moved(jobs, jobs', 1, {}) /\ Head(jobs) = jobs[1]
    BY <1>a, <1>3, MovedTail
  <2>2. QED
    BY <1>a, <1>3, <2>1 DEF QuietJobs
<1>4. ASSUME NEW j, j.k # "start", jobs # <<>>, Head(jobs).k # "start",
             jobs' = Append(Tail(jobs), j)
      PROVE  QuietJobs
  <2>1. Moved(jobs, jobs', 1, {j}) /\ Head(jobs) = jobs[1]
    BY <1>a, <1>4, MovedTailAppend, MovedTail
  <2>2. QED
    BY <1>a, <1>4, <2>1 DEF QuietJobs
<1>5. QED
  BY <1>1, <1>2, <1>3, <1>4

\* The mission being started keeps the slot, or is without it.
LEMMA SlotStep ==
  ASSUME TypeOK, DispatchLock, SlotHeld, [Next]_vars
  PROVE  SlotHeld'
<1>a. stage \in [Mission -> Stage] /\ active \in Mission \cup {NoMission}
  BY DEF TypeOK, DispTypes
<1>1. ASSUME \A m \in Mission : stage'[m] # "idle" => stage[m] # "idle",
             active' \in {active, NoMission}
      PROVE  SlotHeld'
  BY <1>1 DEF SlotHeld
<1>2. ASSUME NEW st, NEW cmp, NEW ld, NEW js, ProcessNext(st, active, cmp, ld, js)
      PROVE  SlotHeld'
  <2>1. ASSUME NEW m \in Mission, ~dispatching, active' = m,
               stage' = [stage EXCEPT ![m] = IF ld THEN "threadOk" ELSE "thread"]
        PROVE  SlotHeld'
    <3>1. \A n \in Mission : stage[n] = "idle"
      BY <2>1 DEF DispatchLock, Locked
    <3>2. QED
      BY <1>a, <2>1, <3>1 DEF SlotHeld
  <2>2. QED
    BY <1>1, <1>2, <2>1 DEF ProcessNext, MayDispatch
<1>3. ASSUME User PROVE SlotHeld'
  BY <1>1, <1>2, <1>3 DEF User, Create, CancelQueued, Interrupt, Resume, Approve, SetDispatchPaused,
     CompactConversation, ClearContext, disp
<1>4. ASSUME Microtask PROVE SlotHeld'
  <2>1. ASSUME NEW m \in Mission, SendTurn(m, Tail(jobs)) \/ SendTurn(m, jobs), stage[m] # "idle", active' = active
        PROVE  SlotHeld'
    BY <1>1, <1>a, <2>1 DEF SendTurn
  <2>2. ASSUME NEW m \in Mission, RunThreadReady(m) PROVE SlotHeld'
    BY <1>1, <1>a, <2>1, <2>2 DEF RunThreadReady
  <2>3. ASSUME NEW m \in Mission, RunTurnStarted(m) \/ RunStartFailed(m) PROVE SlotHeld'
    BY <1>1, <1>a, <2>3 DEF RunTurnStarted, RunStartFailed
  <2>4. ASSUME NEW m \in Mission, RunDispatched(m) \/ RunDispatchFailed(m) PROVE SlotHeld'
    BY <1>1, <1>a, <2>4 DEF RunDispatched, RunDispatchFailed
  <2>5. ASSUME NEW m \in Mission, RunInterrupted(m) \/ RunRecoveryCompact(m) \/ RunRecoveryAwait(m)
        PROVE  SlotHeld'
    BY <1>1, <1>a, <2>5 DEF RunInterrupted, FinishActive, RunRecoveryCompact, RunRecoveryAwait
  <2>6. ASSUME RunNext \/ RunCompaction \/ ClearFailed PROVE SlotHeld'
    BY <1>1, <1>2, <2>6 DEF RunNext, RunCompaction, ClearFailed
  <2>7. QED
    BY <1>4, <2>2, <2>3, <2>4, <2>5, <2>6 DEF Microtask
<1>5. ASSUME Settle PROVE SlotHeld'
  BY <1>1, <1>a, <1>5 DEF Settle, ThreadOpened, ContextCleared, DirectoryMade, SendTurn
<1>6. ASSUME Timer PROVE SlotHeld'
  BY <1>1, <1>2, <1>6 DEF Timer, CompactionTimeout, DispatchRetry, InitializeConversation, disp
<1>7. ASSUME CompactionEnds PROVE SlotHeld'
  BY <1>2, <1>7 DEF CompactionEnds
<1>8. ASSUME HandleReply PROVE SlotHeld'
  <2>1. Head(chan).q.k = "turn" => Head(chan).q.m \in Mission
    BY <1>8, RequestMission, ReadTypes DEF HandleReply, TypeOK
  <2>2. QED
    BY <1>1, <1>a, <1>8, <2>1 DEF HandleReply
<1>9. ASSUME Read PROVE SlotHeld'
  BY <1>1, <1>7, <1>8, <1>9 DEF Read, HandleTurnStarted, HandleTurnCompleted, HandleCompacted,
     HandleContextError, RecoverFromContextWindow, HandleServerRequest, FinishActive, disp
<1>10. ASSUME Failure PROVE SlotHeld'
  BY <1>1, <1>a, <1>10 DEF Failure, CodexExit, HandleCodexExit, ApplicationRestart, ThreadFails, RequestTimeout
<1>11. ASSUME CodexReady \/ AppServer PROVE SlotHeld'
  BY <1>1, <1>11 DEF CodexReady, AppServer, ServeRequest, EndTurn, OpenTurn, RejectTurn, FinishTurn,
     OverflowTurn, CompactAutomatically, AskApproval, ServeInterrupt, ServeCompact,
     FinishCompaction, disp
<1>12. QED
  BY <1>1, <1>3, <1>4, <1>5, <1>6, <1>9, <1>10, <1>11 DEF Next, vars, disp

\* The jobs of the handlers that continue no startMission.
LEMMA OtherJobs ==
  /\ NextJob.k # "start"
  /\ \A m, r : StopJob(m, r).k # "start" /\ RecJob(m, r).k # "start" /\ ManJob(r).k # "start"
BY DEF NextJob, StopJob, RecJob, ManJob

\* The lines and the requests that are about no turn/start.
LEMMA OtherLines ==
  /\ \A k \in {"completed", "ctx", "compacted", "ask"} : \A t, r :
       ~StartLine(Note(k, t, r)) /\ Note(k, t, r).k # "started"
  /\ \A q, t, r : q.k # "turn" => ~StartLine(Reply(q, t, r)) /\ Reply(q, t, r).k # "started"
BY DEF StartLine, Note, Reply

\* The tokens over each kind of step.
LEMMA UserTokens ==
  ASSUME TypeOK, TypeOK', DispatchLock, Tokens, User
  PROVE  Tokens'
<1>a. /\ chan \in Seq(Message) /\ jobs \in Seq(Job) /\ turns \in Nat
      /\ \A i \in DOMAIN chan : ~(i <= 0)
      /\ \A i \in DOMAIN jobs : ~(i <= 0)
  BY BoundAssumption DEF TypeOK, CodexTypes, DispTypes
<1>b. Moved(chan, chan, 0, {}) /\ Moved(jobs, jobs, 0, {})
  BY <1>a, MovedSame
<1>1. ASSUME NEW m \in Mission, NEW st, ProcessNext(st, active, compacting, loaded, jobs),
             UNCHANGED <<owner, sends, turn, codex>>
      PROVE  Tokens'
  BY <1>a, <1>b, <1>1, ProcessNextTokens DEF codex
<1>2. ASSUME UNCHANGED <<stage, owner, sends, turn, turns, chan>>,
             \A q \in inbox' : q.k = "turn" => q \in inbox, QuietJobs
      PROVE  Tokens'
  <2>1. turns' >= turns
    BY <1>a, <1>2
  <2>2. QED
    BY <1>2, <2>1, QuietStep, QuietLineSteps
<1>3. ASSUME NEW m \in Mission, Create(m) \/ Resume(m) PROVE Tokens'
  BY <1>1, <1>3 DEF Create, Resume, conv, hist
<1>4. ASSUME NEW m \in Mission, CancelQueued(m) \/ Interrupt(m) \/ Approve(m) PROVE Tokens'
  BY <1>2, <1>4, QuietJobSteps DEF CancelQueued, Interrupt, Approve, disp, conv, codex, hist
<1>5. ASSUME NEW p \in BOOLEAN, SetDispatchPaused(p) PROVE Tokens'
  BY <1>2, <1>5, QuietJobSteps, OtherJobs DEF SetDispatchPaused, conv, codex, hist
<1>6. ASSUME CompactConversation \/ ClearContext PROVE Tokens'
  BY <1>2, <1>6, QuietJobSteps, OtherJobs DEF CompactConversation, ClearContext, disp, conv, codex, hist
<1>7. QED
  BY <1>3, <1>4, <1>5, <1>6 DEF User

LEMMA MicrotaskTokens ==
  ASSUME TypeOK, TypeOK', DispatchLock, Tokens, Microtask
  PROVE  Tokens'
<1>a. /\ chan \in Seq(Message) /\ jobs \in Seq(Job) /\ turns \in Nat /\ stage \in [Mission -> Stage]
      /\ \A i \in DOMAIN chan : ~(i <= 0)
      /\ \A i \in DOMAIN jobs : i <= 1 => i = 1
  BY BoundAssumption DEF TypeOK, CodexTypes, DispTypes
<1>b. Moved(chan, chan, 0, {})
  BY <1>a, MovedSame
<1>1. ASSUME UNCHANGED <<stage, owner, sends, turn, turns, chan>>,
             \A q \in inbox' : q.k = "turn" => q \in inbox, QuietJobs
      PROVE  Tokens'
  <2>1. turns' >= turns
    BY <1>a, <1>1
  <2>2. QED
    BY <1>1, <2>1, QuietStep, QuietLineSteps
<1>2. ASSUME RunNext PROVE Tokens'
  <2>1. /\ Moved(jobs, Tail(jobs), 1, {}) /\ Tail(jobs) \in Seq(Job)
        /\ \A i \in DOMAIN jobs : i <= 1 => jobs[i].k # "start"
    BY <1>a, <1>2, MovedTail DEF RunNext
  <2>2. QED
    BY <1>a, <1>b, <1>2, <2>1, ProcessNextTokens DEF RunNext, conv, codex, hist
<1>3. ASSUME RunCompaction \/ ClearFailed PROVE Tokens'
  BY <1>1, <1>3, QuietJobSteps, OtherJobs DEF RunCompaction, ClearFailed, SendCompact, conv, codex, hist
<1>4. ASSUME NEW m \in Mission, RunInterrupted(m) \/ RunRecoveryCompact(m) \/ RunRecoveryAwait(m)
      PROVE  Tokens'
  BY <1>1, <1>4, QuietJobSteps, OtherJobs DEF RunInterrupted, RunRecoveryCompact, RunRecoveryAwait,
     FinishActive, SendCompact, conv, codex, hist
\* The steps of the startMission under way.
<1>5. ASSUME NEW m \in Mission, jobs # <<>>, Continues(Head(jobs)), Head(jobs).m = m
      PROVE  /\ Tail(jobs) \in Seq(Job) /\ NoContinuation(Tail(jobs))
             /\ stage[m] # "idle" /\ \A n \in Mission : stage[n] # "idle" => n = m
             /\ \A i \in DOMAIN jobs : jobs[i].k = "start" => i = 1 /\ jobs[i] = Head(jobs)
  <2>1. /\ Tail(jobs) \in Seq(Job) /\ NoContinuation(Tail(jobs))
        /\ stage[m] # "idle" /\ \A n \in Mission : stage[n] # "idle" => n = m
    BY <1>5, HeadLock
  <2>2. 1 \in DOMAIN jobs /\ Head(jobs) = jobs[1]
    BY <1>a, <1>5
  <2>3. \A i \in DOMAIN jobs : jobs[i].k = "start" => i = 1
    BY <1>5, <2>2 DEF DispatchLock, Locked, Continues
  <2>4. QED
    BY <2>1, <2>2, <2>3
<1>6. ASSUME NEW m \in Mission, jobs # <<>>, Continues(Head(jobs)), Head(jobs).m = m,
             NoneOpened, stage[m] # "turn", stage' \in [Mission -> Stage],
             \A n \in Mission : n # m => stage'[n] = stage[n],
             stage'[m] # "settled",
             UNCHANGED <<owner, turn, turns, inbox, chan>>
      PROVE  Tokens'
  <2>1. \A n \in Mission : stage'[n] # "settled" /\ stage[n] # "turn"
    BY <1>5, <1>6
  <2>2. \A i \in DOMAIN jobs' : jobs'[i].k = "start" => jobs'[i].m \in Mission
    BY DEF TypeOK, DispTypes, Job
  <2>3. NoneOpened'
    BY <2>1, <2>2 DEF NoneOpened, Opened
  <2>4. \A n \in Mission : stage[n] # "turn"
    BY <2>1
  <2>5. Moved(chan, chan', 0, {}) /\ UNCHANGED <<owner, turn, turns, inbox>> /\ NoneOpened
    BY <1>b, <1>6
  <2>6. QED
    BY <2>3, <2>4, <2>5, IdleTokens
<1>7. ASSUME NEW m \in Mission, RunThreadReady(m) PROVE Tokens'
  <2>1. jobs # <<>> /\ Continues(Head(jobs)) /\ Head(jobs).m = m /\ stage[m] = "threadOk"
    BY <1>7 DEF RunThreadReady, Continues
  <2>2. NoneOpened
    BY <1>5, <2>1 DEF NoneOpened, Opened
  <2>3. CASE "web" \in env
    <3>1. stage' = [stage EXCEPT ![m] = "dir"] /\ UNCHANGED <<owner, turn, turns, inbox, chan>>
      BY <1>7, <2>3 DEF RunThreadReady
    <3>2. QED
      BY <1>a, <1>6, <2>1, <2>2, <3>1 DEF Stage
  <2>4. CASE "web" \notin env
    <3>1. Tail(jobs) \in Seq(Job) /\ NoContinuation(Tail(jobs))
      BY <1>5, <2>1
    <3>2. SendTurn(m, Tail(jobs)) /\ UNCHANGED <<owner, turn, turns, chan>>
      BY <1>7, <2>4 DEF RunThreadReady
    <3>3. stage[m] \in {"threadOk", "dir"}
      BY <2>1
    <3>4. QED
      <4>1. \A js \in Seq(Job) : NoContinuation(js) /\ SendTurn(m, js) => Tokens'
        BY <2>2, <3>2, <3>3, SendTurnTokens
      <4>2. QED
        BY <3>1, <3>2, <4>1
  <2>5. QED
    BY <2>3, <2>4
<1>8. ASSUME NEW m \in Mission, RunStartFailed(m) PROVE Tokens'
  <2>1. jobs # <<>> /\ Continues(Head(jobs)) /\ Head(jobs).m = m /\ stage[m] = "settled"
        /\ Head(jobs).r # "ok"
    BY <1>8 DEF RunStartFailed, Continues
  <2>2. NoneOpened
    BY <1>5, <2>1 DEF NoneOpened, Opened
  <2>3. stage' = [stage EXCEPT ![m] = "ending"] /\ UNCHANGED <<owner, turn, turns, inbox, chan>>
    BY <1>8 DEF RunStartFailed, codex, hist, conv
  <2>4. QED
    BY <1>a, <1>6, <2>1, <2>2, <2>3 DEF Stage
<1>9. ASSUME NEW m \in Mission, RunDispatched(m) \/ RunDispatchFailed(m) PROVE Tokens'
  <2>1. jobs # <<>> /\ Continues(Head(jobs)) /\ Head(jobs).m = m /\ Head(jobs).k = "end"
    BY <1>9 DEF RunDispatched, RunDispatchFailed, Continues
  <2>2. stage[m] = "ending"
    <3>1. 1 \in DOMAIN jobs /\ Head(jobs) = jobs[1]
      BY <1>a, <2>1
    <3>2. QED
      BY <2>1, <3>1 DEF DispatchLock, Locked
  <2>3. NoneOpened
    BY <1>5, <2>1, <2>2 DEF NoneOpened, Opened
  <2>4. stage' = [stage EXCEPT ![m] = "idle"] /\ UNCHANGED <<owner, turn, turns, inbox, chan>>
    BY <1>9 DEF RunDispatched, RunDispatchFailed, codex, hist, conv
  <2>5. QED
    BY <1>a, <1>6, <2>1, <2>2, <2>3, <2>4 DEF Stage
<1>10. ASSUME NEW m \in Mission, RunTurnStarted(m) PROVE Tokens'
  BY <1>10, TakenTokens
<1>11. QED
  BY <1>2, <1>3, <1>4, <1>7, <1>8, <1>9, <1>10 DEF Microtask

LEMMA SettleTokens ==
  ASSUME TypeOK, TypeOK', DispatchLock, Tokens, Settle
  PROVE  Tokens'
<1>a. chan \in Seq(Message) /\ jobs \in Seq(Job) /\ turns \in Nat /\ stage \in [Mission -> Stage]
  BY BoundAssumption DEF TypeOK, CodexTypes, DispTypes
<1>b. Moved(chan, chan, 0, {})
  BY <1>a, MovedSame
<1>1. ASSUME UNCHANGED <<stage, owner, sends, turn, turns, chan, inbox>>, QuietJobs
      PROVE  Tokens'
  <2>1. turns' >= turns
    BY <1>a, <1>1
  <2>2. QED
    BY <1>1, <2>1, QuietStep, QuietLineSteps
<1>2. ASSUME NEW m \in Mission, stage[m] = "thread", stage' = [stage EXCEPT ![m] = "threadOk"],
             UNCHANGED <<owner, turn, turns, inbox, chan>>
      PROVE  Tokens'
  <2>1. \A n \in Mission : stage[n] # "settled" /\ stage[n] # "turn" /\ stage'[n] # "settled"
    BY <1>a, <1>2, Holder DEF TypeOK
  <2>2. NoneOpened
    BY <2>1, NotSettled
  <2>3. \A i \in DOMAIN jobs' : jobs'[i].k = "start" => jobs'[i].m \in Mission
    BY DEF TypeOK, DispTypes, Job
  <2>4. NoneOpened'
    BY <2>1, <2>3 DEF NoneOpened, Opened
  <2>5. QED
    BY <1>b, <1>2, <2>1, <2>2, <2>4, IdleTokens
<1>3. ASSUME ThreadOpened PROVE Tokens'
  BY <1>1, <1>2, <1>3, QuietJobSteps, OtherJobs DEF ThreadOpened, conv, codex, hist
<1>4. ASSUME ContextCleared PROVE Tokens'
  BY <1>1, <1>4, QuietJobSteps, OtherJobs DEF ContextCleared, conv, codex, hist
<1>5. ASSUME NEW m \in Mission, DirectoryMade(m) PROVE Tokens'
  <2>1. NoContinuation(jobs)
    BY <1>a, <1>5, WaitingLock DEF DirectoryMade, DispatchLock
  <2>2. NoneOpened
    BY <2>1 DEF NoneOpened, NoContinuation, Continues, Opened
  <2>3. QED
    BY <1>a, <1>5, <2>1, <2>2, SendTurnTokens DEF DirectoryMade, conv
<1>6. QED
  BY <1>3, <1>4, <1>5 DEF Settle

LEMMA TimerTokens ==
  ASSUME TypeOK, TypeOK', DispatchLock, Tokens, Timer
  PROVE  Tokens'
<1>a. /\ chan \in Seq(Message) /\ jobs \in Seq(Job) /\ turns \in Nat
      /\ \A i \in DOMAIN chan : ~(i <= 0)
      /\ \A i \in DOMAIN jobs : ~(i <= 0)
  BY BoundAssumption DEF TypeOK, CodexTypes, DispTypes
<1>b. Moved(chan, chan, 0, {}) /\ Moved(jobs, jobs, 0, {})
  BY <1>a, MovedSame
<1>1. ASSUME NEW st, NEW cmp, NEW ld, ProcessNext(st, active, cmp, ld, jobs),
             UNCHANGED <<owner, sends, turn, codex>>
      PROVE  Tokens'
  BY <1>a, <1>b, <1>1, ProcessNextTokens DEF codex
<1>2. ASSUME UNCHANGED <<disp, owner, sends, turn, codex>>
      PROVE  Tokens'
  <2>1. turns' >= turns
    BY <1>a, <1>2 DEF codex
  <2>2. QED
    BY <1>2, <2>1, QuietStep, QuietLineSteps, QuietJobSteps DEF disp, codex
<1>3. ASSUME CompactionTimeout PROVE Tokens'
  BY <1>1, <1>2, <1>3 DEF CompactionTimeout, conv, hist
<1>4. ASSUME DispatchRetry PROVE Tokens'
  BY <1>2, <1>4 DEF DispatchRetry, conv, hist
<1>5. ASSUME InitializeConversation PROVE Tokens'
  BY <1>1, <1>5 DEF InitializeConversation, conv, hist
<1>6. QED
  BY <1>3, <1>4, <1>5 DEF Timer

LEMMA ReadTokens ==
  ASSUME TypeOK, TypeOK', DispatchLock, SlotHeld, Tokens, Read
  PROVE  Tokens'
<1>a. chan \in Seq(Message) /\ jobs \in Seq(Job) /\ turns \in Nat
      /\ \A i \in DOMAIN jobs : ~(i <= 0)
  BY BoundAssumption DEF TypeOK, CodexTypes, DispTypes
<1>b. Moved(jobs, jobs, 0, {})
  BY <1>a, MovedSame
<1>1. ASSUME UNCHANGED <<stage, owner, sends, turn, turns>>,
             \A q \in inbox' : q.k = "turn" => q \in inbox, QuietLines, QuietJobs
      PROVE  Tokens'
  <2>1. turns' >= turns
    BY <1>a, <1>1
  <2>2. QED
    BY <1>1, <2>1, QuietStep
<1>2. ASSUME HandleReply PROVE Tokens'
  <2>1. CASE StartLine(Head(chan))
    BY <1>2, <2>1, ReplyTokens
  <2>2. CASE ~StartLine(Head(chan))
    <3>1. QuietLines
      BY <1>2, <2>2, QuietLineSteps DEF HandleReply
    <3>2. QuietJobs /\ UNCHANGED stage
      BY <1>2, <2>2, QuietJobSteps, OtherJobs DEF HandleReply, StartLine, Reading
    <3>3. QED
      BY <1>1, <1>2, <3>1, <3>2 DEF HandleReply, conv, codex, hist
  <2>3. QED
    BY <2>1, <2>2
<1>3. ASSUME HandleTurnStarted PROVE Tokens'
  BY <1>3, AnnouncedTokens
<1>4. ASSUME NEW kind \in {"completed", "compacted"}, Reading(kind), CompactionEnds,
             UNCHANGED <<owner, sends, turn, turns, inbox>>
      PROVE  Tokens'
  <2>1. /\ Moved(chan, chan', 1, {}) /\ \A i \in DOMAIN chan : i <= 1 => i = 1
        /\ chan[1].k = kind
    BY <1>4, MovedRead
  <2>2. \A i \in DOMAIN chan : i <= 1 => ~StartLine(chan[i])
    BY <1>4, <2>1 DEF StartLine
  <2>3. \E st : ProcessNext(st, active, FALSE, loaded, jobs)
    BY <1>4 DEF CompactionEnds
  <2>4. QED
    BY <1>a, <1>b, <1>4, <2>1, <2>2, <2>3, ProcessNextTokens
<1>5. ASSUME HandleCompacted PROVE Tokens'
  BY <1>4, <1>5 DEF HandleCompacted, conv, hist
<1>6. ASSUME HandleTurnCompleted PROVE Tokens'
  <2>1. QuietLines /\ Reading("completed")
    BY <1>6, QuietLineSteps DEF HandleTurnCompleted
  <2>2. UNCHANGED <<owner, sends, turn, turns, inbox>>
    BY <1>6 DEF HandleTurnCompleted, conv, hist
  <2>3. CASE \E m \in Mission : FinishActive(m, jobs) /\ UNCHANGED stage
    <3>1. QuietJobs
      BY <2>3, QuietJobSteps, OtherJobs DEF FinishActive
    <3>2. QED
      BY <1>1, <2>1, <2>2, <2>3, <3>1
  <2>4. CASE UNCHANGED disp
    BY <1>1, <2>1, <2>2, <2>4, QuietJobSteps DEF disp
  <2>5. CASE CompactionEnds
    BY <1>4, <2>1, <2>2, <2>5
  <2>6. QED
    BY <1>6, <2>3, <2>4, <2>5 DEF HandleTurnCompleted
<1>7. ASSUME HandleContextError PROVE Tokens'
  <2>1. QuietLines
    BY <1>7, QuietLineSteps DEF HandleContextError
  <2>2. QuietJobs
    BY <1>7, QuietJobSteps, OtherJobs DEF HandleContextError, RecoverFromContextWindow, FinishActive
  <2>3. QED
    BY <1>1, <1>7, <2>1, <2>2 DEF HandleContextError, RecoverFromContextWindow, hist
<1>8. ASSUME HandleServerRequest PROVE Tokens'
  <2>1. QuietLines
    BY <1>8, QuietLineSteps DEF HandleServerRequest
  <2>2. QED
    BY <1>1, <1>8, <2>1, QuietJobSteps DEF HandleServerRequest, conv, hist
<1>9. QED
  BY <1>2, <1>3, <1>5, <1>6, <1>7, <1>8 DEF Read

LEMMA AppServerTokens ==
  ASSUME TypeOK, TypeOK', DispatchLock, Tokens, AppServer
  PROVE  Tokens'
<1>a. turns \in Nat /\ inbox \subseteq Request /\ live \subseteq Turn /\ turns + 1 >= turns
  BY BoundAssumption DEF TypeOK, CodexTypes
<1>1. ASSUME UNCHANGED <<disp, owner, sends, turn>>, turns' \in {turns, turns + 1},
             inbox' \subseteq inbox, QuietLines
      PROVE  Tokens'
  <2>1. turns' >= turns
    BY <1>a, <1>1
  <2>2. QED
    BY <1>1, <2>1, QuietStep, QuietJobSteps DEF disp
<1>2. ASSUME NEW a \in Message, Write(<<a>>), ~StartLine(a), a.k # "started" PROVE QuietLines
  BY <1>2, QuietLineSteps
<1>3. ASSUME NEW a \in Message, NEW b \in Message, Write(<<a, b>>),
             ~StartLine(a), a.k # "started", ~StartLine(b), b.k # "started"
      PROVE  QuietLines
  BY <1>3, QuietLineSteps
<1>4. /\ \A k \in {"completed", "ctx", "compacted", "ask"}, t \in Turn \cup {NoTurn}, r \in Result :
           Note(k, t, r) \in Message /\ ~StartLine(Note(k, t, r)) /\ Note(k, t, r).k # "started"
      /\ \A q \in Request, t \in Turn \cup {NoTurn}, r \in Result :
           q.k # "turn" => /\ Reply(q, t, r) \in Message /\ ~StartLine(Reply(q, t, r))
                           /\ Reply(q, t, r).k # "started"
  BY MessageTypes, OtherLines
<1>5. ASSUME NEW t \in live, NEW r \in {"completed", "failed"}, FinishTurn(t, r) PROVE Tokens'
  <2>1. QuietLines
    BY <1>a, <1>2, <1>4, <1>5 DEF FinishTurn, Result
  <2>2. QED
    BY <1>1, <1>5, <2>1 DEF FinishTurn, conv, hist
<1>6. ASSUME NEW t \in live, OverflowTurn(t) PROVE Tokens'
  <2>1. Note("ctx", t, "failed") \in Message /\ ~StartLine(Note("ctx", t, "failed"))
        /\ Note("ctx", t, "failed").k # "started"
    BY <1>a, <1>4 DEF Result
  <2>2. QuietLines
    BY <1>2, <1>3, <1>6, <2>1 DEF OverflowTurn
  <2>3. QED
    BY <1>1, <1>6, <2>2 DEF OverflowTurn, conv, hist
<1>7. ASSUME NEW t \in live, CompactAutomatically(t) \/ AskApproval(t) PROVE Tokens'
  <2>1. QuietLines
    BY <1>a, <1>2, <1>4, <1>7 DEF CompactAutomatically, AskApproval, Result, NoTurn
  <2>2. QED
    BY <1>1, <1>7, <2>1 DEF CompactAutomatically, AskApproval, conv, hist
<1>8. ASSUME NEW q \in inbox, ServeInterrupt(q) PROVE Tokens'
  <2>1. q \in Request /\ q.k # "turn" /\ q.k # "manCompact"
    BY <1>a, <1>8 DEF ServeInterrupt
  <2>2. q.t \in Turn \cup {NoTurn}
    BY <2>1, RequestMission
  <2>3. \A r \in {"ok", "error"} :
          /\ Reply(q, q.t, r) \in Message /\ ~StartLine(Reply(q, q.t, r))
          /\ Reply(q, q.t, r).k # "started"
    BY <1>4, <2>1, <2>2 DEF Result
  <2>4. Note("completed", q.t, "interrupted") \in Message
        /\ ~StartLine(Note("completed", q.t, "interrupted"))
        /\ Note("completed", q.t, "interrupted").k # "started"
    BY <1>4, <2>2 DEF Result
  <2>5. QuietLines
    <3>1. CASE q.t \in live
      BY <1>3, <1>8, <2>3, <2>4, <3>1 DEF ServeInterrupt
    <3>2. CASE q.t \notin live
      BY <1>2, <1>8, <2>3, <3>2 DEF ServeInterrupt
    <3>3. QED
      BY <3>1, <3>2
  <2>6. QED
    BY <1>1, <1>8, <2>5 DEF ServeInterrupt, conv, hist
<1>9. ASSUME NEW q \in inbox, ServeCompact(q) PROVE Tokens'
  <2>1. q \in Request /\ q.k # "turn"
    BY <1>a, <1>9 DEF ServeCompact
  <2>2. QuietLines
    BY <1>2, <1>4, <1>9, <2>1 DEF ServeCompact, Result, NoTurn
  <2>3. QED
    BY <1>1, <1>9, <2>2 DEF ServeCompact, conv
<1>10. ASSUME FinishCompaction PROVE Tokens'
  <2>1. turns' = turns + 1 => turns + 1 \in Turn
    BY <1>a DEF TypeOK, CodexTypes, Turn
  <2>2. QuietLines
    <3>1. CASE Write(<<Note("compacted", NoTurn, "ok")>>)
      BY <1>2, <1>4, <3>1 DEF Result, NoTurn
    <3>2. CASE turns' = turns + 1 /\ Write(<<Note("completed", turns + 1, "completed")>>)
      BY <1>2, <1>4, <2>1, <3>2 DEF Result
    <3>3. QED
      BY <1>10, <3>1, <3>2 DEF FinishCompaction
  <2>3. QED
    BY <1>1, <1>10, <2>2 DEF FinishCompaction, conv, hist
<1>11. QED
  BY <1>5, <1>6, <1>7, <1>8, <1>9, <1>10, OpenTokens, RejectTokens DEF AppServer, ServeRequest, EndTurn

LEMMA FailureTokens ==
  ASSUME TypeOK, TypeOK', DispatchLock, Tokens, InTime, Failure \/ CodexReady
  PROVE  Tokens'
<1>a. chan \in Seq(Message) /\ jobs \in Seq(Job) /\ turns \in Nat /\ stage \in [Mission -> Stage]
  BY BoundAssumption DEF TypeOK, CodexTypes, DispTypes
<1>1. ASSUME UNCHANGED <<stage, owner, sends, turn, turns, chan, inbox>>, QuietJobs
      PROVE  Tokens'
  <2>1. turns' >= turns
    BY <1>a, <1>1
  <2>2. QED
    BY <1>1, <2>1, QuietStep, QuietLineSteps
<1>2. ASSUME CodexExit PROVE Tokens'
  <2>1. \A i \in DOMAIN jobs' : jobs'[i] \in PendingRejections
    BY <1>2 DEF CodexExit, Orders
  <2>2. \A j \in PendingRejections : j.k = "start" => j.r = "infra"
    BY DEF PendingRejections, StartJob, RecJob, ManJob
  <2>3. NoneOpened'
    BY <2>1, <2>2 DEF NoneOpened, Opened
  <2>4. QED
    BY <1>2, <2>3, LostTokens DEF CodexExit
<1>3. ASSUME ApplicationRestart PROVE Tokens'
  <2>1. NoneOpened'
    BY <1>3 DEF ApplicationRestart, NoneOpened
  <2>2. QED
    BY <1>3, <2>1, LostTokens DEF ApplicationRestart
<1>4. ASSUME ThreadFails PROVE Tokens'
  <2>1. ASSUME NEW m \in Mission, NEW r \in {"infra", "error"}, stage[m] = "thread",
               stage' = [stage EXCEPT ![m] = "settled"],
               jobs' = Append(jobs, StartJob(m, NoTurn, r))
        PROVE  Tokens'
    <3>1. NoContinuation(jobs)
      BY <1>a, <2>1, WaitingLock DEF DispatchLock
    <3>2. \A n \in Mission : stage[n] # "turn"
      BY <2>1, Holder DEF TypeOK
    <3>3. Moved(jobs, jobs', 0, {StartJob(m, NoTurn, r)})
      BY <1>a, <2>1, MovedAppend
    <3>4. \A i \in DOMAIN jobs' : jobs'[i].k = "start" => jobs'[i].r # "ok"
      BY <2>1, <3>1, <3>3 DEF Moved, NoContinuation, Continues, StartJob
    <3>5. NoneOpened /\ NoneOpened'
      BY <3>1, <3>4 DEF NoneOpened, Opened, NoContinuation, Continues
    <3>6. Moved(chan, chan', 0, {}) /\ UNCHANGED <<owner, turn, turns, inbox>>
      BY <1>4, <1>a, MovedSame DEF ThreadFails, conv, codex
    <3>7. QED
      BY <3>2, <3>5, <3>6, IdleTokens
  <2>2. ASSUME UNCHANGED stage, jobs' = Append(jobs, ManJob("infra")) PROVE Tokens'
    BY <1>1, <1>4, <2>2, QuietJobSteps, OtherJobs DEF ThreadFails, conv, codex
  <2>3. QED
    BY <1>4, <2>1, <2>2 DEF ThreadFails
<1>5. ASSUME RequestTimeout PROVE FALSE
  BY <1>5 DEF RequestTimeout, Fault, InTime
<1>6. ASSUME CodexReady PROVE Tokens'
  BY <1>1, <1>6, QuietJobSteps DEF CodexReady, disp, conv, hist
<1>7. QED
  BY <1>2, <1>3, <1>4, <1>5, <1>6 DEF Failure

\* The scenario is that of the behaviour.
LEMMA SameScenario ==
  ASSUME [Next]_vars
  PROVE  env' = env
BY DEF Next, vars, conv, User, Create, CancelQueued, Interrupt, Resume, Approve, SetDispatchPaused,
     CompactConversation, ClearContext, Microtask, RunNext, RunCompaction, ClearFailed, RunThreadReady,
     RunTurnStarted, RunStartFailed, RunDispatched, RunDispatchFailed, RunInterrupted,
     RunRecoveryCompact, RunRecoveryAwait, Settle, ThreadOpened, ContextCleared, DirectoryMade,
     Timer, CompactionTimeout, DispatchRetry, InitializeConversation, Read, HandleReply,
     HandleTurnStarted, HandleTurnCompleted, HandleCompacted, HandleContextError,
     HandleServerRequest, AppServer, ServeRequest, EndTurn, OpenTurn, RejectTurn, FinishTurn,
     OverflowTurn, CompactAutomatically, AskApproval, ServeInterrupt, ServeCompact,
     FinishCompaction, CodexReady, Failure, CodexExit, ApplicationRestart, ThreadFails, RequestTimeout

\* While no request times out, every step keeps the starts in step.
LEMMA TokenStep ==
  ASSUME TypeOK, TypeOK', DispatchLock, SlotHeld, InTime => Tokens, [Next]_vars
  PROVE  (InTime => Tokens)'
<1>1. env' = env
  BY SameScenario
<1>2. SUFFICES ASSUME InTime, Tokens PROVE Tokens'
  BY <1>1 DEF InTime
<1>3. CASE UNCHANGED vars
  <2>1. turns' >= turns
    BY <1>3, BoundAssumption DEF vars, codex, TypeOK, CodexTypes
  <2>2. QED
    BY <1>2, <1>3, <2>1, QuietStep, QuietLineSteps, QuietJobSteps DEF vars, disp, conv, codex, hist
<1>4. QED
  BY <1>2, <1>3, UserTokens, MicrotaskTokens, SettleTokens, TimerTokens, ReadTokens, AppServerTokens,
     FailureTokens DEF Next

\* "Codex events are attributed by exact Codex turn ID": whatever ends, restarts, is stopped
\* or recovered, and in whatever order the app-server answers and announces, a mission
\* never has the turn id of a turn that was started for another, as long as no turn/start
\* is given up while it may still be answered.
THEOREM ExactAttributionCorrect == Spec => []ExactAttribution
<1>1. Init => SlotHeld /\ Tokens
  BY DEF Init, SlotHeld, Tokens, StartRequests, StartReplies, StartJobs, Numbered, Announced
<1>2. TypeOK /\ TypeOK' /\ DispatchLock /\ SlotHeld /\ (InTime => Tokens) /\ [Next]_vars
        => SlotHeld' /\ (InTime => Tokens)'
  BY SlotStep, TokenStep
<1>3. (InTime => Tokens) => ExactAttribution
  BY DEF Tokens, Numbered, ExactAttribution
<1>4. QED
  BY <1>1, <1>2, <1>3, TypeCorrect, LockCorrect, PTL DEF Spec

-----------------------------------------------------------------------------
\* The orderly scenarios

\* No request times out and no context overflows; a line is read before the next arrives;
\* the user stops what runs, and resumes it once that is answered and its turn has ended;
\* the app-server does not exit while a directory is made.
Orderly ==
  /\ env \cap {"timeout", "context", "same_chunk", "stop_starting", "resume_early"} = {}
  /\ ~({"late_end", "resume"} \subseteq env) /\ ~({"web", "exit"} \subseteq env)

\* No recovery from a context window is under way.
NoRecovery ==
  /\ recovery = NoMission /\ \A m \in Mission : rec[m] = "idle"
  /\ \A i \in DOMAIN chan : chan[i].k # "ctx"
  /\ \A i \in DOMAIN jobs : jobs[i].k # "rec"

\* A startMission that has something to do has its job.
Due(m) == \E i \in DOMAIN jobs : Continues(jobs[i]) /\ jobs[i].m = m
Awaited == \A m \in Mission : stage[m] \in {"threadOk", "settled", "ending"} => Due(m)

\* The active mission is the one at work.
Working == \A m \in Mission : status[m] \in ActiveStatus <=> active = m

\* A mission that is being started is "starting" until it has its turn, unless an exit of
\* the app-server has settled it.
Starting ==
  /\ \A m \in Mission : stage[m] \in {"thread", "threadOk", "dir", "turn"} => status[m] = "starting"
  /\ \A m \in Mission : stage[m] = "dir" => "web" \in env
  /\ \A i \in DOMAIN jobs :
       /\ jobs[i].k = "start" /\ jobs[i].r # "infra" => status[jobs[i].m] = "starting"
       /\ jobs[i].k = "end" /\ jobs[i].r \notin {"ok", "infra"} => status[jobs[i].m] = "starting"
       /\ Continues(jobs[i]) /\ jobs[i].r = "infra" =>
            status[jobs[i].m] \in {"starting", "queued", "interrupted"}

\* A line about a turn that was started for a mission.
TurnLine(l) == /\ l.k \in {"started", "ask", "completed"} \/ (StartLine(l) /\ l.r = "ok")
               /\ l.t # NoTurn /\ owner[l.t] # NoMission

\* The end of a turn whose stop is answered before it.
LateEnd(l) == "late_end" \in env /\ l.k = "completed" /\ l.r = "interrupted"
Late(l) == LateEnd(l) /\ status[owner[l.t]] = "interrupted" /\ turn[owner[l.t]] = l.t

\* A turn that runs, or of which there is something to be read, is the active mission's,
\* which has it or is about to have it.
Now(t) == t \in live \/ \E i \in DOMAIN chan : TurnLine(chan[i]) /\ chan[i].t = t /\ ~Late(chan[i])
Replied(t) == \E i \in DOMAIN chan : StartLine(chan[i]) /\ chan[i].r = "ok" /\ chan[i].t = t
Taken(t) == \E i \in DOMAIN jobs : Opened(jobs[i]) /\ jobs[i].t = t
Watch(t) ==
  /\ owner[t] # NoMission /\ active = owner[t]
  /\ \/ stage[owner[t]] \in {"idle", "ending"} /\ turn[owner[t]] = t
     \/ stage[owner[t]] = "turn" /\ Replied(t)
     \/ stage[owner[t]] = "settled" /\ Taken(t)
  /\ \A i \in DOMAIN jobs : jobs[i].k = "end" => jobs[i].r = "ok"
Watched == \A t \in Turn : Now(t) => Watch(t)

\* The lines of a turn come in order: the reply to its start before its questions and its
\* end, and nothing after its end.
Sequence ==
  /\ \A i, j \in DOMAIN chan :
       (/\ chan[i].k \in {"ask", "completed"} /\ StartLine(chan[j]) /\ chan[j].r = "ok"
        /\ chan[j].t = chan[i].t) => j < i
  /\ \A i, j \in DOMAIN chan :
       chan[i].k = "completed" /\ TurnLine(chan[j]) /\ chan[j].t = chan[i].t => j <= i
  /\ \A i \in DOMAIN chan : chan[i].k = "completed" => chan[i].t \notin live

\* What is buffered or announced is known by its number.
Fresh ==
  /\ \A t \in Turn : buffer[t] # "none" => owner[t] = NoMission /\ t <= turns
  /\ \A i \in DOMAIN chan : chan[i].k = "completed" => chan[i].t # NoTurn /\ chan[i].t <= turns
  /\ \A i \in DOMAIN chan : chan[i].k = "ask" => chan[i].t # NoTurn /\ owner[chan[i].t] # NoMission

\* A stop is one request, then one reply, then one job, while its mission, which neither
\* starts nor is queued, waits for it; once it is answered the mission's turn has ended.
StopLine(l) == l.k = "reply" /\ l.q.k = "stop"
StopRequests ==
  \A q \in inbox : q.k = "stop" => stopping[q.m] /\ q.t = turn[q.m] /\ q.t # NoTurn /\ q.n = 0
StopReplies ==
  /\ \A i \in DOMAIN chan : StopLine(chan[i]) =>
       /\ stopping[chan[i].q.m]
       /\ \A q \in inbox : q.k = "stop" => q.m # chan[i].q.m
       /\ \A t \in live : owner[t] # chan[i].q.m
       /\ \A j \in DOMAIN chan :
            TurnLine(chan[j]) /\ owner[chan[j].t] = chan[i].q.m /\ i < j => LateEnd(chan[j])
  /\ \A i, j \in DOMAIN chan :
       StopLine(chan[i]) /\ StopLine(chan[j]) /\ chan[i].q.m = chan[j].q.m => i = j
StopJobs ==
  /\ \A i \in DOMAIN jobs : jobs[i].k = "stop" =>
       /\ stopping[jobs[i].m]
       /\ \A q \in inbox : q.k = "stop" => q.m # jobs[i].m
       /\ \A t \in live : owner[t] # jobs[i].m
       /\ \A j \in DOMAIN chan : StopLine(chan[j]) => chan[j].q.m # jobs[i].m
       /\ \A j \in DOMAIN chan :
            TurnLine(chan[j]) /\ owner[chan[j].t] = jobs[i].m => LateEnd(chan[j])
  /\ \A i, j \in DOMAIN jobs :
       jobs[i].k = "stop" /\ jobs[j].k = "stop" /\ jobs[i].m = jobs[j].m => i = j
Stopped == {"running", "awaiting_approval", "completed", "failed", "interrupted"}
Stopping == \A m \in Mission : stopping[m] => status[m] \in Stopped /\ stage[m] = "idle"
Stops == StopRequests /\ StopReplies /\ StopJobs /\ Stopping

Order == NoRecovery /\ Awaited /\ Working /\ Starting /\ Watched /\ Sequence /\ Fresh /\ Stops

\* Everything known of a state of an orderly scenario.
Known == TypeOK /\ DispatchLock /\ SlotHeld /\ Tokens /\ Orderly /\ Order

-----------------------------------------------------------------------------
\* What follows from it

\* What a line or a job is about.
LEMMA LineTypes ==
  ASSUME TypeOK
  PROVE  /\ \A i \in DOMAIN chan : /\ chan[i] \in Message /\ i \in Nat \ {0}
                                   /\ chan[i].t \in Turn \cup {NoTurn}
                                   /\ StartLine(chan[i]) \/ StopLine(chan[i]) => chan[i].q.m \in Mission
         /\ \A i \in DOMAIN jobs : /\ jobs[i] \in Job /\ i \in Nat \ {0}
                                   /\ Continues(jobs[i]) \/ jobs[i].k = "stop" => jobs[i].m \in Mission
         /\ \A t \in Turn : owner[t] # NoMission => owner[t] \in Mission
         /\ chan \in Seq(Message) /\ jobs \in Seq(Job)
<1>1. chan \in Seq(Message) /\ jobs \in Seq(Job) /\ owner \in [Turn -> Mission \cup {NoMission}]
  BY DEF TypeOK, CodexTypes, DispTypes, HistTypes
<1>2. \A l \in Message : /\ l.t \in Turn \cup {NoTurn}
                         /\ StartLine(l) \/ StopLine(l) => l.q.m \in Mission
  <2> TAKE l \in Message
  <2>1. l.t \in Turn \cup {NoTurn} /\ (l.k = "reply" => l.q \in Request)
    BY DEF Message
  <2>2. QED
    BY <2>1, RequestMission DEF StartLine, StopLine
<1>3. \A j \in Job : Continues(j) \/ j.k = "stop" => j.m \in Mission
  BY DEF Job, Continues
<1>4. QED
  BY <1>1, <1>2, <1>3

\* While a mission is started, or none is active, no turn runs.
LEMMA NothingNow ==
  ASSUME Known
  PROVE  /\ active = NoMission => \A t \in Turn : ~Now(t)
         /\ \A m \in Mission : stage[m] \in {"thread", "threadOk", "dir"} => \A t \in Turn : ~Now(t)
<1>1. TypeOK /\ Watched /\ SlotHeld
  BY DEF Known, Order
<1>2. active = NoMission => \A t \in Turn : ~Now(t)
  BY <1>1 DEF Watched, Watch
<1>3. ASSUME NEW m \in Mission, stage[m] \in {"thread", "threadOk", "dir"}, NEW t \in Turn, Now(t)
      PROVE  FALSE
  BY <1>1, <1>3 DEF SlotHeld, Watched, Watch
<1>4. QED
  BY <1>2, <1>3

\* At most one turn runs, or has something to be read of it.
LEMMA OneNow ==
  ASSUME Known, NEW t \in Turn, NEW u \in Turn, Now(t), Now(u)
  PROVE  t = u
<1>1. TypeOK /\ Watched /\ Tokens /\ DispatchLock
  BY DEF Known, Order
<1>2. Watch(t) /\ Watch(u)
  BY <1>1 DEF Watched
<1>3. owner[t] = owner[u]
  BY <1>2 DEF Watch
<1>4. Replied(t) /\ Replied(u) => t = u
  BY <1>1 DEF Replied, Tokens, StartReplies
<1>5. Taken(t) /\ Taken(u) => t = u
  BY <1>1 DEF Taken, Opened, DispatchLock, Locked, Continues
<1>6. QED
  BY <1>2, <1>3, <1>4, <1>5 DEF Watch

\* A question or an end that is read in its time is about the turn of the active mission,
\* which is not being started.
LEMMA ReadNow ==
  ASSUME Known, NEW kind \in {"ask", "completed"}, Reading(kind), TurnLine(Head(chan)),
         ~Late(Head(chan))
  PROVE  /\ Head(chan).t \in Turn /\ Now(Head(chan).t) /\ jobs = <<>>
         /\ owner[Head(chan).t] \in Mission /\ active = owner[Head(chan).t]
         /\ turn[owner[Head(chan).t]] = Head(chan).t /\ stage[owner[Head(chan).t]] = "idle"
<1> DEFINE l == Head(chan)
           m == owner[l.t]
<1>1. TypeOK /\ Watched /\ Sequence /\ Awaited /\ Orderly
  BY DEF Known, Order
<1>2. l = chan[1] /\ 1 \in DOMAIN chan /\ l.k = kind /\ jobs = <<>>
  BY <1>1, MovedRead DEF Reading, Orderly, Macrotask
<1>3. l.t \in Turn /\ m \in Mission
  BY <1>1, <1>2, LineTypes DEF TurnLine
<1>4. Now(l.t)
  BY <1>2 DEF Now
<1>5. Watch(l.t)
  BY <1>1, <1>3, <1>4 DEF Watched
<1>6. ~Replied(l.t)
  <2> SUFFICES ASSUME NEW i \in DOMAIN chan, StartLine(chan[i]), chan[i].r = "ok", chan[i].t = l.t
               PROVE  FALSE
    BY DEF Replied
  <2>1. i < 1
    BY <1>1, <1>2 DEF Sequence
  <2>2. QED
    BY <2>1, <1>1, LineTypes
<1>7. ~Taken(l.t) /\ ~Due(m)
  BY <1>2 DEF Taken, Due
<1>8. QED
  BY <1>1, <1>2, <1>3, <1>4, <1>5, <1>6, <1>7 DEF Watch, Awaited

-----------------------------------------------------------------------------
\* What keeps each part

\* What keeps each part of Order.
LEMMA RecoveryKept ==
  ASSUME TypeOK, NoRecovery, recovery' = NoMission, rec' = rec,
         NEW dc \in Nat, NEW lines, Moved(chan, chan', dc, lines), \A l \in lines : l.k # "ctx",
         NEW dj \in Nat, NEW js, Moved(jobs, jobs', dj, js), \A j \in js : j.k # "rec"
  PROVE  NoRecovery'
<1>1. \A i \in DOMAIN chan' : chan'[i].k # "ctx"
  BY DEF Moved, NoRecovery
<1>2. \A i \in DOMAIN jobs' : jobs'[i].k # "rec"
  BY DEF Moved, NoRecovery
<1>3. QED
  BY <1>1, <1>2 DEF NoRecovery

LEMMA AwaitedKept ==
  ASSUME TypeOK, Awaited,
         NEW dj \in Nat, NEW js, Moved(jobs, jobs', dj, js),
         \A i \in DOMAIN jobs : i <= dj => ~Continues(jobs[i]),
         \A m \in Mission : stage'[m] \in {"threadOk", "settled", "ending"} => stage'[m] = stage[m]
  PROVE  Awaited'
<1> SUFFICES ASSUME NEW m \in Mission, stage'[m] \in {"threadOk", "settled", "ending"}
             PROVE  Due(m)'
  BY DEF Awaited
<1>1. PICK i \in DOMAIN jobs : Continues(jobs[i]) /\ jobs[i].m = m
  BY DEF Awaited, Due
<1>2. i > dj
  BY <1>1, LineTypes
<1>3. i - dj \in DOMAIN jobs' /\ jobs'[i - dj] = jobs[i]
  BY <1>2 DEF Moved
<1>4. QED
  BY <1>1, <1>3 DEF Due, Continues

LEMMA StartingKept ==
  ASSUME TypeOK, DispatchLock, Starting, env' = env,
         \A m \in Mission : stage[m] # "idle" => status'[m] = status[m],
         \A m \in Mission : stage'[m] \in {"thread", "threadOk", "dir", "turn"} => stage'[m] = stage[m],
         NEW dj \in Nat, NEW js, Moved(jobs, jobs', dj, js), \A j \in js : ~Continues(j)
  PROVE  Starting'
<1>1. \A i \in DOMAIN jobs : Continues(jobs[i]) => jobs[i].m \in Mission /\ stage[jobs[i].m] # "idle"
  BY LineTypes DEF DispatchLock, Locked, Continues
<1>2. \A i \in DOMAIN jobs' : Continues(jobs'[i]) => i + dj \in DOMAIN jobs /\ jobs'[i] = jobs[i + dj]
  BY DEF Moved
<1>3. \A i \in DOMAIN jobs' : Continues(jobs'[i]) => status'[jobs'[i].m] = status[jobs'[i].m]
  BY <1>1, <1>2
<1>4. \A i \in DOMAIN jobs' :
       /\ jobs'[i].k = "start" /\ jobs'[i].r # "infra" => status'[jobs'[i].m] = "starting"
       /\ jobs'[i].k = "end" /\ jobs'[i].r \notin {"ok", "infra"} => status'[jobs'[i].m] = "starting"
       /\ Continues(jobs'[i]) /\ jobs'[i].r = "infra" =>
            status'[jobs'[i].m] \in {"starting", "queued", "interrupted"}
  BY <1>2, <1>3 DEF Starting, Continues
<1>5. QED
  BY <1>4 DEF Starting, Continues

\* A turn that runs after the step ran before it.
LEMMA NowKept ==
  ASSUME TypeOK, TypeOK', UNCHANGED owner, live' \subseteq live,
         NEW dc \in Nat, NEW lines, Moved(chan, chan', dc, lines),
         \A l \in lines : TurnLine(l) => l.t \in live,
         \A l : owner[l.t] \in Mission /\ Late(l) => Late(l)',
         NEW t \in Turn, Now(t)'
  PROVE  Now(t)
<1>1. CASE t \in live'
  BY <1>1 DEF Now
<1>2. CASE \E i \in DOMAIN chan' : TurnLine(chan'[i]) /\ chan'[i].t = t /\ ~Late(chan[i])'
  <2>1. PICK i \in DOMAIN chan' : TurnLine(chan'[i]) /\ chan'[i].t = t /\ ~Late(chan[i])'
    BY <1>2
  <2>2. CASE chan'[i] \in lines
    BY <2>1, <2>2 DEF Now
  <2>3. CASE i + dc \in DOMAIN chan /\ chan'[i] = chan[i + dc]
    <3>0. owner[chan[i + dc].t] \in Mission
      BY <2>1, <2>3, LineTypes DEF TurnLine
    <3>1. ~Late(chan[i + dc])
      BY <2>1, <2>3, <3>0
    <3>2. QED
      BY <2>1, <2>3, <3>1 DEF Now
  <2>4. QED
    BY <2>2, <2>3 DEF Moved
<1>3. QED
  BY <1>1, <1>2 DEF Now, TurnLine, StartLine

LEMMA SequenceKept ==
  ASSUME TypeOK, TypeOK', Sequence, UNCHANGED owner, live' \subseteq live,
         NEW dc \in Nat, NEW lines, Moved(chan, chan', dc, lines),
         \A l \in lines : /\ ~(StartLine(l) /\ l.r = "ok")
                          /\ TurnLine(l) => l.t \in live
                          /\ l.k = "completed" => l.t \notin live',
         \A i, j \in DOMAIN chan' :
           (/\ i + dc > Len(chan) /\ j + dc > Len(chan) /\ chan'[i].k = "completed" /\ TurnLine(chan'[j])
            /\ chan'[j].t = chan'[i].t) => j <= i
  PROVE  Sequence'
<1>a. /\ \A i \in DOMAIN chan' : i \in Nat
      /\ \A i \in DOMAIN chan : i \in Nat /\ i <= Len(chan)
      /\ Len(chan) \in Nat
  BY DEF TypeOK, CodexTypes
<1>b. \A i \in DOMAIN chan' : \/ i + dc \in DOMAIN chan /\ chan'[i] = chan[i + dc]
                              \/ i + dc > Len(chan) /\ chan'[i] \in lines
  BY DEF Moved
<1>1. ASSUME NEW i \in DOMAIN chan', NEW j \in DOMAIN chan',
             chan'[i].k \in {"ask", "completed"}, StartLine(chan'[j]), chan'[j].r = "ok",
             chan'[j].t = chan'[i].t
      PROVE  j < i
  <2>1. j + dc \in DOMAIN chan /\ chan'[j] = chan[j + dc]
    BY <1>b, <1>1
  <2>2. CASE i + dc \in DOMAIN chan /\ chan'[i] = chan[i + dc]
    <3>1. j + dc < i + dc
      BY <1>1, <2>1, <2>2 DEF Sequence
    <3>2. QED
      BY <3>1, <1>a
  <2>3. CASE i + dc > Len(chan)
    BY <2>1, <2>3, <1>a
  <2>4. QED
    BY <1>b, <2>2, <2>3
<1>2. ASSUME NEW i \in DOMAIN chan', NEW j \in DOMAIN chan',
             chan'[i].k = "completed", TurnLine(chan'[j]), chan'[j].t = chan'[i].t
      PROVE  j <= i
  <2>1. CASE i + dc \in DOMAIN chan /\ chan'[i] = chan[i + dc]
    <3>1. j + dc \in DOMAIN chan /\ chan'[j] = chan[j + dc]
      BY <1>b, <1>2, <2>1 DEF Sequence
    <3>2. j + dc <= i + dc
      BY <1>2, <2>1, <3>1 DEF Sequence
    <3>3. QED
      BY <3>2, <1>a
  <2>2. CASE i + dc > Len(chan)
    <3>1. CASE j + dc > Len(chan)
      BY <1>2, <2>2, <3>1
    <3>2. CASE j + dc <= Len(chan)
      BY <2>2, <3>2, <1>a
    <3>3. QED
      BY <3>1, <3>2, <1>a
  <2>3. QED
    BY <1>b, <2>1, <2>2
<1>3. \A i \in DOMAIN chan' : chan'[i].k = "completed" => chan'[i].t \notin live'
  BY <1>b DEF Sequence
<1>4. \A l : TurnLine(l)' <=> TurnLine(l)
  BY DEF TurnLine, StartLine
<1>5. QED
  BY <1>1, <1>2, <1>3, <1>4 DEF Sequence, StartLine, TurnLine

LEMMA FreshKept ==
  ASSUME TypeOK, TypeOK', Fresh, UNCHANGED owner, turns' >= turns,
         \A t \in Turn : buffer'[t] \in {"none", buffer[t]} \/ (owner[t] = NoMission /\ t <= turns),
         NEW dc \in Nat, NEW lines, Moved(chan, chan', dc, lines),
         \A l \in lines : /\ l.k = "completed" => l.t # NoTurn /\ l.t <= turns'
                          /\ l.k = "ask" => l.t # NoTurn /\ owner[l.t] # NoMission
  PROVE  Fresh'
<1>a. turns \in Nat /\ turns' \in Nat
  BY BoundAssumption DEF TypeOK, CodexTypes
<1>b. \A i \in DOMAIN chan : chan[i].t \in Nat
  BY LineTypes DEF NoTurn, Turn
<1>1. \A t \in Turn : buffer'[t] # "none" => owner'[t] = NoMission /\ t <= turns'
  BY <1>a DEF Fresh, Turn
<1>2. \A i \in DOMAIN chan' : chan'[i].k = "completed" => chan'[i].t # NoTurn /\ chan'[i].t <= turns'
  BY <1>a, <1>b DEF Fresh, Moved
<1>3. \A i \in DOMAIN chan' : chan'[i].k = "ask" => chan'[i].t # NoTurn /\ owner'[chan'[i].t] # NoMission
  BY DEF Fresh, Moved
<1>4. QED
  BY <1>1, <1>2, <1>3 DEF Fresh

LEMMA StopsKept ==
  ASSUME TypeOK, TypeOK', Stops, UNCHANGED <<stopping, owner, env>>, live' \subseteq live,
         \A q \in inbox' : q.k = "stop" => q \in inbox,
         \A m \in Mission : stopping[m] => /\ turn'[m] = turn[m] /\ stage'[m] = "idle"
                                           /\ status'[m] \in Stopped,
         NEW dc \in Nat, NEW lines, Moved(chan, chan', dc, lines),
         \A l \in lines : ~StopLine(l) /\ (TurnLine(l) => l.t \in live),
         NEW dj \in Nat, NEW js, Moved(jobs, jobs', dj, js), \A j \in js : j.k # "stop"
  PROVE  Stops'
<1>a. /\ \A i \in DOMAIN chan' : i \in Nat
      /\ \A i \in DOMAIN jobs' : i \in Nat
  BY DEF TypeOK, CodexTypes, DispTypes
<1>b. \A i \in DOMAIN chan' : \/ i + dc \in DOMAIN chan /\ chan'[i] = chan[i + dc]
                              \/ chan'[i] \in lines
  BY DEF Moved
<1>c. \A i \in DOMAIN jobs' : jobs'[i].k = "stop" => i + dj \in DOMAIN jobs /\ jobs'[i] = jobs[i + dj]
  BY DEF Moved
<1>d. \A i \in DOMAIN chan' : StopLine(chan'[i]) => i + dc \in DOMAIN chan /\ chan'[i] = chan[i + dc]
  BY <1>b
<1>e. \A l : /\ TurnLine(l)' <=> TurnLine(l)
             /\ LateEnd(l)' <=> LateEnd(l)
             /\ StopLine(l)' <=> StopLine(l)
  BY DEF TurnLine, StartLine, LateEnd, StopLine
<1>1. StopRequests'
  <2>1. \A q \in inbox : q.k = "stop" => q.m \in Mission
    BY RequestMission DEF TypeOK, CodexTypes
  <2>2. QED
    BY <2>1 DEF Stops, StopRequests
<1>2. StopReplies'
  <2>1. ASSUME NEW i \in DOMAIN chan', StopLine(chan'[i])
        PROVE  /\ stopping'[chan'[i].q.m]
               /\ \A q \in inbox' : q.k = "stop" => q.m # chan'[i].q.m
               /\ \A t \in live' : owner'[t] # chan'[i].q.m
               /\ \A j \in DOMAIN chan' :
                    (TurnLine(chan'[j]) /\ owner'[chan'[j].t] = chan'[i].q.m /\ i < j) => LateEnd(chan'[j])
    <3>1. i + dc \in DOMAIN chan /\ chan'[i] = chan[i + dc]
      BY <1>d, <2>1
    <3>2. \A q \in inbox' : q.k = "stop" => q.m # chan'[i].q.m
      BY <2>1, <3>1 DEF Stops, StopReplies
    <3>3. \A t \in live' : owner'[t] # chan'[i].q.m
      BY <2>1, <3>1 DEF Stops, StopReplies
    <3>4. ASSUME NEW j \in DOMAIN chan', TurnLine(chan'[j]), owner'[chan'[j].t] = chan'[i].q.m, i < j
          PROVE  LateEnd(chan'[j])
      <4>1. CASE j + dc \in DOMAIN chan /\ chan'[j] = chan[j + dc]
        <5>1. i + dc < j + dc
          BY <1>a, <3>4
        <5>2. QED
          BY <2>1, <3>1, <3>4, <4>1, <5>1 DEF Stops, StopReplies
      <4>2. CASE chan'[j] \in lines
        BY <2>1, <3>1, <3>4, <4>2 DEF Stops, StopReplies
      <4>3. QED
        BY <1>b, <4>1, <4>2
    <3>5. stopping'[chan'[i].q.m]
      BY <2>1, <3>1 DEF Stops, StopReplies
    <3>6. QED
      BY <3>2, <3>3, <3>4, <3>5
  <2>2. ASSUME NEW i \in DOMAIN chan', NEW j \in DOMAIN chan', StopLine(chan'[i]), StopLine(chan'[j]),
               chan'[i].q.m = chan'[j].q.m
        PROVE  i = j
    <3>1. i + dc = j + dc
      BY <1>d, <2>2 DEF Stops, StopReplies
    <3>2. QED
      BY <3>1, <1>a
  <2>3. QED
    BY <2>1, <2>2, <1>e DEF StopReplies, StopLine, LateEnd, TurnLine, StartLine
<1>3. StopJobs'
  <2>1. ASSUME NEW i \in DOMAIN jobs', jobs'[i].k = "stop"
        PROVE  /\ stopping'[jobs'[i].m]
               /\ \A q \in inbox' : q.k = "stop" => q.m # jobs'[i].m
               /\ \A t \in live' : owner'[t] # jobs'[i].m
               /\ \A j \in DOMAIN chan' : StopLine(chan'[j]) => chan'[j].q.m # jobs'[i].m
               /\ \A j \in DOMAIN chan' :
                    TurnLine(chan'[j]) /\ owner'[chan'[j].t] = jobs'[i].m => LateEnd(chan'[j])
    <3>1. i + dj \in DOMAIN jobs /\ jobs'[i] = jobs[i + dj]
      BY <1>c, <2>1
    <3>2. \A j \in DOMAIN chan' : StopLine(chan'[j]) => chan'[j].q.m # jobs'[i].m
      BY <1>d, <2>1, <3>1 DEF Stops, StopJobs
    <3>3. \A j \in DOMAIN chan' :
            TurnLine(chan'[j]) /\ owner'[chan'[j].t] = jobs'[i].m => LateEnd(chan'[j])
      BY <1>b, <2>1, <3>1 DEF Stops, StopJobs
    <3>4. QED
      BY <2>1, <3>1, <3>2, <3>3 DEF Stops, StopJobs
  <2>2. ASSUME NEW i \in DOMAIN jobs', NEW j \in DOMAIN jobs', jobs'[i].k = "stop", jobs'[j].k = "stop",
               jobs'[i].m = jobs'[j].m
        PROVE  i = j
    <3>1. i + dj = j + dj
      BY <1>c, <2>2 DEF Stops, StopJobs
    <3>2. QED
      BY <3>1, <1>a
  <2>3. QED
    BY <2>1, <2>2, <1>e DEF StopJobs, StopLine, LateEnd, TurnLine, StartLine
<1>4. Stopping'
  BY DEF Stops, Stopping
<1>5. QED
  BY <1>1, <1>2, <1>3, <1>4 DEF Stops

-----------------------------------------------------------------------------
\* Steps that start, open, stop and end nothing

\* Lines that are read or written: a line written is about a turn that runs, or about none.
PlainLine(l) ==
  /\ l.k # "ctx" /\ ~(StartLine(l) /\ l.r = "ok") /\ ~StopLine(l)
  /\ TurnLine(l) => l.t \in live
  /\ l.k = "completed" => l.t # NoTurn /\ l.t <= turns' /\ l.t \notin live'
  /\ l.k = "ask" => l.t # NoTurn /\ owner[l.t] # NoMission
PlainLines ==
  \E dc \in Nat : \E lines :
    /\ Moved(chan, chan', dc, lines)
    /\ \A l \in lines : PlainLine(l)
    /\ \A i, j \in DOMAIN chan' : i + dc > Len(chan) /\ j + dc > Len(chan) => i = j
    /\ \A i \in DOMAIN chan : i <= dc => ~(StartLine(chan[i]) /\ chan[i].r = "ok")
\* Jobs that run or are queued, none of a startMission or of a stop.
PlainJobs ==
  \E dj \in Nat : \E js :
    /\ Moved(jobs, jobs', dj, js)
    /\ \A j \in js : j.k \in {"next", "man"}
    /\ \A i \in DOMAIN jobs : i <= dj => ~Continues(jobs[i])
\* What no such step changes.
Plain ==
  /\ UNCHANGED <<owner, env, rec>> /\ recovery' = NoMission
  /\ \A t \in Turn : buffer'[t] \in {"none", buffer[t]} \/ (owner[t] = NoMission /\ t <= turns)
  /\ live' \subseteq live /\ turns' >= turns /\ PlainLines
\* What it may do to a mission.
Unstarted == \A m \in Mission : stage[m] # "idle" => status'[m] = status[m]
LateKept == \A l : owner[l.t] \in Mission /\ Late(l) => Late(l)'
StopsMeant == \A m \in Mission : stopping[m] =>
                turn'[m] = turn[m] /\ stage'[m] = "idle" /\ status'[m] \in Stopped

\* The lines of a plain step.
LEMMA PlainLineSteps ==
  ASSUME TypeOK, TypeOK'
  PROVE  /\ chan' = chan => PlainLines
         /\ \A kind \in {"started", "completed", "ctx", "compacted", "ask"} :
              Reading(kind) => PlainLines
         /\ Reading("reply") /\ ~(StartLine(Head(chan)) /\ Head(chan).r = "ok") => PlainLines
         /\ \A a \in Message : Write(<<a>>) /\ PlainLine(a) => PlainLines
<1>a. chan \in Seq(Message) /\ chan' \in Seq(Message)
  BY DEF TypeOK, CodexTypes
<1>1. ASSUME chan' = chan PROVE PlainLines
  <2>1. Moved(chan, chan', 0, {})
    BY <1>a, <1>1, MovedSame
  <2>2. \A i \in DOMAIN chan' : ~(i + 0 > Len(chan))
    BY <1>a, <1>1
  <2>3. \A i \in DOMAIN chan : ~(i <= 0)
    BY <1>a
  <2>4. QED
    BY <2>1, <2>2, <2>3 DEF PlainLines
<1>2. ASSUME NEW kind, Reading(kind), ~(StartLine(Head(chan)) /\ Head(chan).r = "ok") PROVE PlainLines
  <2>1. /\ Moved(chan, chan', 1, {}) /\ Head(chan) = chan[1] /\ \A i \in DOMAIN chan : i <= 1 => i = 1
    BY <1>2, MovedRead
  <2>2. chan # <<>> /\ chan' = Tail(chan)
    BY <1>2 DEF Reading
  <2>3. \A i \in DOMAIN chan' : ~(i + 1 > Len(chan))
    BY <1>a, <2>2
  <2>4. \A i \in DOMAIN chan : i <= 1 => ~(StartLine(chan[i]) /\ chan[i].r = "ok")
    BY <1>2, <2>1
  <2>5. QED
    BY <2>1, <2>3, <2>4 DEF PlainLines
<1>3. ASSUME NEW kind \in {"started", "completed", "ctx", "compacted", "ask"}, Reading(kind)
      PROVE  PlainLines
  BY <1>2, <1>3 DEF Reading, StartLine
<1>4. ASSUME NEW a \in Message, Write(<<a>>), PlainLine(a) PROVE PlainLines
  <2>1. Moved(chan, chan', 0, {a})
    BY <1>4, MovedWrite
  <2>2. Len(chan') = Len(chan) + 1
    BY <1>a, <1>4 DEF Write
  <2>3. \A i \in DOMAIN chan' : i + 0 > Len(chan) => i = Len(chan) + 1
    BY <1>a, <2>2
  <2>4. \A i \in DOMAIN chan : ~(i <= 0)
    BY <1>a
  <2>5. QED
    BY <1>4, <2>1, <2>3, <2>4 DEF PlainLines
<1>5. QED
  BY <1>1, <1>2, <1>3, <1>4

\* The jobs of a plain step.
LEMMA PlainJobSteps ==
  ASSUME TypeOK
  PROVE  /\ jobs' = jobs => PlainJobs
         /\ \A j : j.k \in {"next", "man"} /\ jobs' = Append(jobs, j) => PlainJobs
         /\ jobs # <<>> /\ ~Continues(Head(jobs)) /\ jobs' = Tail(jobs) => PlainJobs
         /\ \A j : (/\ jobs # <<>> /\ ~Continues(Head(jobs)) /\ j.k \in {"next", "man"}
                    /\ jobs' = Append(Tail(jobs), j)) => PlainJobs
<1>a. jobs \in Seq(Job) /\ \A i \in DOMAIN jobs : ~(i <= 0) /\ (i <= 1 => i = 1)
  BY DEF TypeOK, DispTypes
<1>1. ASSUME jobs' = jobs PROVE PlainJobs
  <2>1. Moved(jobs, jobs', 0, {})
    BY <1>a, <1>1, MovedSame
  <2>2. QED
    BY <1>a, <2>1 DEF PlainJobs
<1>2. ASSUME NEW j, j.k \in {"next", "man"}, jobs' = Append(jobs, j) PROVE PlainJobs
  <2>1. Moved(jobs, jobs', 0, {j})
    BY <1>a, <1>2, MovedAppend
  <2>2. QED
    BY <1>a, <1>2, <2>1 DEF PlainJobs
<1>3. ASSUME jobs # <<>>, ~Continues(Head(jobs)), jobs' = Tail(jobs) PROVE PlainJobs
  <2>1. Moved(jobs, jobs', 1, {}) /\ Head(jobs) = jobs[1]
    BY <1>a, <1>3, MovedTail
  <2>2. QED
    BY <1>a, <1>3, <2>1 DEF PlainJobs
<1>4. ASSUME NEW j, j.k \in {"next", "man"}, jobs # <<>>, ~Continues(Head(jobs)),
             jobs' = Append(Tail(jobs), j)
      PROVE  PlainJobs
  <2>1. Moved(jobs, jobs', 1, {j}) /\ Head(jobs) = jobs[1]
    BY <1>a, <1>4, MovedTailAppend, MovedTail
  <2>2. QED
    BY <1>a, <1>4, <2>1 DEF PlainJobs
<1>5. QED
  BY <1>1, <1>2, <1>3, <1>4

\* The parts that are about lines.
LEMMA PlainParts ==
  ASSUME Known, TypeOK', Plain, LateKept
  PROVE  /\ Sequence' /\ Fresh'
         /\ \A t \in Turn : Now(t)' => Now(t)
<1>1. PICK dc \in Nat : \E lines :
    /\ Moved(chan, chan', dc, lines)
    /\ \A l \in lines : PlainLine(l)
    /\ \A i, j \in DOMAIN chan' : i + dc > Len(chan) /\ j + dc > Len(chan) => i = j
    /\ \A i \in DOMAIN chan : i <= dc => ~(StartLine(chan[i]) /\ chan[i].r = "ok")
  BY DEF Plain, PlainLines
<1>2. PICK lines :
    /\ Moved(chan, chan', dc, lines)
    /\ \A l \in lines : PlainLine(l)
    /\ \A i, j \in DOMAIN chan' : i + dc > Len(chan) /\ j + dc > Len(chan) => i = j
    /\ \A i \in DOMAIN chan : i <= dc => ~(StartLine(chan[i]) /\ chan[i].r = "ok")
  BY <1>1
<1>3. /\ TypeOK /\ Sequence /\ Fresh /\ UNCHANGED owner /\ live' \subseteq live
      /\ turns' >= turns
      /\ \A t \in Turn : buffer'[t] \in {"none", buffer[t]} \/ (owner[t] = NoMission /\ t <= turns)
  BY DEF Known, Order, Plain
<1>4. \A l \in lines : /\ ~(StartLine(l) /\ l.r = "ok")
                       /\ TurnLine(l) => l.t \in live
                       /\ l.k = "completed" => l.t \notin live'
  BY <1>2 DEF PlainLine
<1>5. \A l \in lines : /\ l.k = "completed" => l.t # NoTurn /\ l.t <= turns'
                       /\ l.k = "ask" => l.t # NoTurn /\ owner[l.t] # NoMission
  BY <1>2 DEF PlainLine
<1>6. \A i \in DOMAIN chan' : i \in Nat
  BY DEF TypeOK, CodexTypes
<1>7. Sequence'
  BY <1>2, <1>3, <1>4, <1>6, SequenceKept
<1>8. Fresh'
  BY <1>2, <1>3, <1>5, FreshKept
<1>9. \A t \in Turn : Now(t)' => Now(t)
  BY <1>2, <1>3, <1>4, NowKept DEF LateKept
<1>10. QED
  BY <1>7, <1>8, <1>9

\* The parts that are about stops, whatever jobs of a startMission are queued.
LEMMA PlainStops ==
  ASSUME Known, TypeOK', Plain, UNCHANGED stopping, StopsMeant,
         \A q \in inbox' : q.k = "stop" => q \in inbox,
         NEW dj \in Nat, NEW js, Moved(jobs, jobs', dj, js), \A j \in js : j.k \notin {"rec", "stop"}
  PROVE  NoRecovery' /\ Stops'
<1>1. PICK dc \in Nat : \E lines :
    /\ Moved(chan, chan', dc, lines)
    /\ \A l \in lines : PlainLine(l)
  BY DEF Plain, PlainLines
<1>2. PICK lines : Moved(chan, chan', dc, lines) /\ \A l \in lines : PlainLine(l)
  BY <1>1
<1>3. /\ TypeOK /\ NoRecovery /\ Stops /\ UNCHANGED <<owner, env, rec, stopping>> /\ recovery' = NoMission
      /\ live' \subseteq live
  BY DEF Known, Order, Plain
<1>4. \A l \in lines : l.k # "ctx" /\ ~StopLine(l) /\ (TurnLine(l) => l.t \in live)
  BY <1>2 DEF PlainLine
<1>5. (\A j \in js : j.k # "rec") /\ (\A j \in js : j.k # "stop")
  OBVIOUS
<1>6. NoRecovery'
  BY <1>2, <1>3, <1>4, <1>5, RecoveryKept
<1>7. Stops'
  BY <1>2, <1>3, <1>4, <1>5, StopsKept DEF StopsMeant
<1>8. QED
  BY <1>6, <1>7

\* A turn that is watched still is, if its mission is left alone.
LEMMA WatchKept ==
  ASSUME Known, owner' = owner,
         NEW dc \in Nat, NEW lines, Moved(chan, chan', dc, lines),
         \A i \in DOMAIN chan : i <= dc => ~(StartLine(chan[i]) /\ chan[i].r = "ok"),
         NEW dj \in Nat, NEW js, Moved(jobs, jobs', dj, js), \A j \in js : j.k # "end",
         \A i \in DOMAIN jobs : i <= dj => ~Opened(jobs[i]),
         NEW t \in Turn, Watch(t),
         active' = active /\ stage'[active] = stage[active],
         stage[active] \in {"idle", "ending"} => turn'[active] = turn[active]
  PROVE  Watch(t)'
<1>a. /\ \A i \in DOMAIN chan : i \in Nat
      /\ \A i \in DOMAIN jobs : i \in Nat
  BY DEF Known, TypeOK, CodexTypes, DispTypes
<1>1. owner[t] # NoMission /\ active = owner[t] /\ active' = owner'[t]
  BY DEF Watch
<1>2. Replied(t) => Replied(t)'
  <2> SUFFICES ASSUME NEW i \in DOMAIN chan, StartLine(chan[i]), chan[i].r = "ok", chan[i].t = t
               PROVE  Replied(t)'
    BY DEF Replied
  <2>1. i > dc
    BY <1>a
  <2>2. i - dc \in DOMAIN chan' /\ chan'[i - dc] = chan[i]
    BY <2>1 DEF Moved
  <2>3. QED
    BY <2>2 DEF Replied, StartLine
<1>3. Taken(t) => Taken(t)'
  <2> SUFFICES ASSUME NEW i \in DOMAIN jobs, Opened(jobs[i]), jobs[i].t = t
               PROVE  Taken(t)'
    BY DEF Taken
  <2>1. i > dj
    BY <1>a
  <2>2. i - dj \in DOMAIN jobs' /\ jobs'[i - dj] = jobs[i]
    BY <2>1 DEF Moved
  <2>3. jobs[i].m = active
    BY <1>1 DEF Known, Tokens, StartJobs
  <2>4. QED
    BY <2>2, <2>3 DEF Taken, Opened
<1>4. \A i \in DOMAIN jobs' : jobs'[i].k = "end" => i + dj \in DOMAIN jobs /\ jobs'[i] = jobs[i + dj]
  BY DEF Moved
<1>5. \A i \in DOMAIN jobs' : jobs'[i].k = "end" => jobs'[i].r = "ok"
  BY <1>4 DEF Watch
<1>6. QED
  BY <1>1, <1>2, <1>3, <1>5 DEF Watch

\* What is watched stays watched.
LEMMA WatchedKept ==
  ASSUME Known, TypeOK', Plain, PlainJobs, LateKept, UNCHANGED <<active, stage>>,
         active # NoMission /\ stage[active] \in {"idle", "ending"} => turn'[active] = turn[active]
  PROVE  Watched'
<1>1. PICK dc \in Nat : \E lines :
    /\ Moved(chan, chan', dc, lines)
    /\ \A i \in DOMAIN chan : i <= dc => ~(StartLine(chan[i]) /\ chan[i].r = "ok")
  BY DEF Plain, PlainLines
<1>2. PICK dj \in Nat : \E js :
    /\ Moved(jobs, jobs', dj, js)
    /\ \A j \in js : j.k \in {"next", "man"}
    /\ \A i \in DOMAIN jobs : i <= dj => ~Continues(jobs[i])
  BY DEF PlainJobs
<1>3. PICK js : Moved(jobs, jobs', dj, js) /\ \A j \in js : j.k # "end"
  BY <1>2
<1>4. \A i \in DOMAIN jobs : i <= dj => ~Opened(jobs[i])
  BY <1>2 DEF Opened, Continues
<1>5. owner' = owner
  BY DEF Plain
<1>6. SUFFICES ASSUME NEW t \in Turn, Now(t)' PROVE Watch(t)'
  BY DEF Watched
<1>7. Watch(t)
  BY <1>6, PlainParts DEF Known, Order, Watched
<1>8. active # NoMission
  BY <1>7 DEF Watch
<1>9. QED
  BY <1>1, <1>3, <1>4, <1>5, <1>7, <1>8, WatchKept

\* A step that starts nothing and stops nothing, but for stops.
LEMMA PlainOrder ==
  ASSUME Known, TypeOK', Plain, PlainJobs, UNCHANGED <<active, stage>>,
         active # NoMission /\ stage[active] \in {"idle", "ending"} => turn'[active] = turn[active],
         LateKept, Unstarted,
         \A m \in Mission : status'[m] \in ActiveStatus <=> status[m] \in ActiveStatus
  PROVE  /\ Awaited' /\ Working' /\ Starting' /\ Watched' /\ Sequence' /\ Fresh'
         /\ (/\ StopsMeant /\ UNCHANGED stopping
             /\ \A q \in inbox' : q.k = "stop" => q \in inbox) => Order'
<1>1. PICK dj \in Nat : \E js :
    /\ Moved(jobs, jobs', dj, js)
    /\ \A j \in js : j.k \in {"next", "man"}
    /\ \A i \in DOMAIN jobs : i <= dj => ~Continues(jobs[i])
  BY DEF PlainJobs
<1>2. PICK js :
    /\ Moved(jobs, jobs', dj, js)
    /\ \A j \in js : j.k \in {"next", "man"}
    /\ \A i \in DOMAIN jobs : i <= dj => ~Continues(jobs[i])
  BY <1>1
<1>3. (\A j \in js : ~Continues(j)) /\ (\A j \in js : j.k \notin {"rec", "stop"})
  BY <1>2 DEF Continues
<1>4. TypeOK /\ DispatchLock /\ Awaited /\ Working /\ Starting /\ env' = env
  BY DEF Known, Order, Plain
<1>5. Awaited'
  BY <1>2, <1>4, AwaitedKept
<1>6. Starting'
  BY <1>2, <1>3, <1>4, StartingKept DEF Unstarted
<1>7. Working'
  BY <1>4 DEF Working
<1>8. Watched'
  BY WatchedKept
<1>9. Sequence' /\ Fresh'
  BY PlainParts
<1>10. ASSUME StopsMeant, UNCHANGED stopping, \A q \in inbox' : q.k = "stop" => q \in inbox
       PROVE  Order'
  <2>1. NoRecovery' /\ Stops'
    BY <1>2, <1>3, <1>10, PlainStops
  <2>2. QED
    BY <1>5, <1>6, <1>7, <1>8, <1>9, <2>1 DEF Order
<1>11. QED
  BY <1>5, <1>6, <1>7, <1>8, <1>9, <1>10

-----------------------------------------------------------------------------
\* Steps of a startMission before it has sent its turn/start, and processNext

\* A macrotask meets a startMission only where it waits for Codex or for its directory.
LEMMA Waits ==
  ASSUME Known, Macrotask, NEW m \in Mission
  PROVE  /\ stage[m] \in {"idle", "thread", "dir", "turn"}
         /\ stage[m] # "idle" => status[m] = "starting"
<1>1. ~Due(m)
  BY DEF Macrotask, Due
<1>2. stage[m] \in Stage
  BY DEF Known, TypeOK, DispTypes
<1>3. QED
  BY <1>1, <1>2 DEF Known, Order, Awaited, Starting, Stage

\* A step while no turn runs: nothing is watched after it either.
LEMMA NothingOrder ==
  ASSUME Known, TypeOK', Plain, LateKept, \A t \in Turn : ~Now(t),
         UNCHANGED stopping, StopsMeant, \A q \in inbox' : q.k = "stop" => q \in inbox,
         NEW dj \in Nat, NEW js, Moved(jobs, jobs', dj, js), \A j \in js : j.k \notin {"rec", "stop"},
         Awaited', Working', Starting'
  PROVE  Order'
<1>1. Sequence' /\ Fresh' /\ \A t \in Turn : ~Now(t)'
  BY PlainParts
<1>2. Watched'
  BY <1>1 DEF Watched
<1>3. NoRecovery' /\ Stops'
  BY PlainStops
<1>4. QED
  BY <1>1, <1>2, <1>3 DEF Order

\* Something is queued after a queue was moved.
LEMMA MovedThenAppend ==
  ASSUME NEW S, NEW s \in Seq(S), NEW u \in Seq(S), NEW d \in Nat, Moved(s, u, d, {}), NEW e
  PROVE  Moved(s, Append(u, e), d, {e})
<1>1. /\ Len(u) \in Nat /\ DOMAIN u = 1..Len(u) /\ Len(s) \in Nat /\ DOMAIN s = 1..Len(s)
      /\ DOMAIN Append(u, e) = 1..Len(u) + 1 /\ Append(u, e)[Len(u) + 1] = e
      /\ \A i \in 1..Len(u) : Append(u, e)[i] = u[i]
  OBVIOUS
<1>2. Len(u) + 1 + d > Len(s)
  <2>1. CASE Len(s) <= d
    BY <1>1, <2>1
  <2>2. CASE Len(s) > d
    <3>1. Len(s) \in DOMAIN s
      BY <1>1, <2>2
    <3>2. Len(s) - d \in DOMAIN u
      BY <2>2, <3>1 DEF Moved
    <3>3. QED
      BY <1>1, <3>2
  <2>3. QED
    BY <1>1, <2>1, <2>2
<1>3. \A i \in DOMAIN Append(u, e) : i \in DOMAIN u \/ i = Len(u) + 1
  BY <1>1
<1>4. \A i \in DOMAIN Append(u, e) : \/ i + d \in DOMAIN s /\ Append(u, e)[i] = s[i + d]
                                     \/ i + d > Len(s) /\ Append(u, e)[i] \in {e}
  BY <1>1, <1>2, <1>3 DEF Moved
<1>5. \A j \in DOMAIN s : j > d => j - d \in DOMAIN Append(u, e) /\ Append(u, e)[j - d] = s[j]
  BY <1>1 DEF Moved
<1>6. QED
  BY <1>4, <1>5 DEF Moved

\* processNext, called by a handler that has queued some missions again.
LEMMA ProcessNextOrder ==
  ASSUME Known, TypeOK', Plain, NEW st \in [Mission -> Status], NEW cmp, NEW ld, NEW js \in Seq(Job),
         ProcessNext(st, active, cmp, ld, js), UNCHANGED <<turn, stopping, inbox>>,
         \A m \in Mission : st[m] # status[m] =>
           /\ st[m] = "queued" /\ status[m] \in {"absent", "interrupted"}
           /\ stage[m] = "idle" /\ ~stopping[m]
           /\ "late_end" \in env => status[m] # "interrupted",
         NEW dj \in Nat, Moved(jobs, js, dj, {}),
         \A i \in DOMAIN jobs : i <= dj => ~Continues(jobs[i])
  PROVE  Order'
<1>a. /\ TypeOK /\ DispatchLock /\ Awaited /\ Working /\ Starting /\ Stops /\ env' = env
      /\ owner' = owner
  BY DEF Known, Order, Plain
<1>b. /\ status \in [Mission -> Status] /\ stage \in [Mission -> Stage] /\ jobs \in Seq(Job)
      /\ active \in Mission \cup {NoMission} /\ \A m \in Mission : m # NoMission
      /\ \A l \in Message : l.t # NoTurn => l.t \in Turn
  BY <1>a, MissionAssumption DEF TypeOK, DispTypes, Message, NoMission
<1>c. \A m \in Mission : stopping[m] => status[m] \in Stopped /\ stage[m] = "idle" /\ st[m] = status[m]
  BY <1>a DEF Stops, Stopping
<1>d. \A l : LateEnd(l)' <=> LateEnd(l)
  BY <1>a DEF LateEnd
<1>1. CASE status' = st /\ active' = active /\ jobs' = js /\ UNCHANGED <<dispatching, stage>>
  <2>1. PlainJobs
    BY <1>1 DEF PlainJobs
  <2>2. Unstarted
    BY <1>1 DEF Unstarted
  <2>3. LateKept
    BY <1>a, <1>1, <1>d DEF LateKept, Late, LateEnd
  <2>4. \A m \in Mission : status'[m] \in ActiveStatus <=> status[m] \in ActiveStatus
    BY <1>1 DEF ActiveStatus
  <2>5. StopsMeant
    BY <1>1, <1>c DEF StopsMeant
  <2>6. QED
    BY <1>1, <2>1, <2>2, <2>3, <2>4, <2>5, PlainOrder
<1>2. ASSUME NEW n \in Mission, ~dispatching, active = NoMission, IsNextQueued(n, st),
             status' = [st EXCEPT ![n] = "starting"], active' = n,
             stage' = [stage EXCEPT ![n] = IF ld THEN "threadOk" ELSE "thread"],
             jobs' = IF ld THEN Append(js, StartJob(n, NoTurn, "ok")) ELSE js
      PROVE  Order'
  <2>1. \A m \in Mission : stage[m] = "idle" /\ status[m] \notin ActiveStatus
    BY <1>a, <1>b, <1>2 DEF DispatchLock, Locked, Working
  <2>2. NoContinuation(js)
    <3>1. \A i \in DOMAIN jobs : ~Continues(jobs[i])
      <4>1. \A i \in DOMAIN jobs : Continues(jobs[i]) => jobs[i].m \in Mission
        BY <1>a, LineTypes
      <4>2. QED
        BY <4>1, <2>1, <1>a DEF DispatchLock, Locked, Continues
    <3>2. QED
      BY <3>1 DEF Moved, NoContinuation, Continues
  <2>3. \A t \in Turn : ~Now(t)
    BY <1>2, NothingNow
  <2>4. /\ \A m \in Mission : stage'[m] # "idle" => m = n
        /\ stage'[n] = IF ld THEN "threadOk" ELSE "thread"
        /\ status'[n] = "starting" /\ \A m \in Mission : m # n => status'[m] = st[m]
    BY <1>b, <1>2, <2>1
  <2>5. \A i \in DOMAIN jobs' : Continues(jobs'[i]) => ld /\ jobs'[i] = StartJob(n, NoTurn, "ok")
    <3>1. CASE ld
      <4>1. Moved(js, jobs', 0, {StartJob(n, NoTurn, "ok")})
        BY <1>2, <3>1, MovedAppend
      <4>2. QED
        BY <2>2, <3>1, <4>1 DEF Moved, NoContinuation
    <3>2. CASE ~ld
      BY <1>2, <2>2, <3>2 DEF NoContinuation
    <3>3. QED
      BY <3>1, <3>2
  <2>6. ~stopping[n] /\ st[n] = "queued"
    BY <1>2, <1>c DEF IsNextQueued, Stopped
  <2>7. Awaited'
    <3>1. ASSUME ld PROVE Due(n)'
      <4>1. Len(js) + 1 \in DOMAIN jobs' /\ jobs'[Len(js) + 1] = StartJob(n, NoTurn, "ok")
        BY <1>2, <3>1
      <4>2. QED
        BY <4>1 DEF Due, Continues, StartJob
    <3>2. QED
      BY <2>4, <3>1 DEF Awaited
  <2>8. Working'
    BY <1>a, <1>2, <2>1, <2>4 DEF Working, ActiveStatus
  <2>9. Starting'
    <3>1. \A m \in Mission : stage'[m] # "dir" /\ (stage'[m] # "idle" => status'[m] = "starting")
      BY <2>1, <2>4
    <3>2. QED
      BY <2>4, <2>5, <3>1 DEF Starting, Continues, StartJob
  <2>10. LateKept
    <3> SUFFICES ASSUME NEW l, owner[l.t] \in Mission, Late(l) PROVE Late(l)'
      BY DEF LateKept
    <3>1. owner[l.t] # n /\ st[owner[l.t]] = "interrupted"
      BY <2>6 DEF Late, LateEnd
    <3>2. QED
      BY <1>a, <1>d, <2>4, <3>1 DEF Late
  <2>11. StopsMeant
    BY <1>c, <2>4, <2>6 DEF StopsMeant
  <2>12. \E new : Moved(jobs, jobs', dj, new) /\ \A j \in new : j.k \notin {"rec", "stop"}
    <3>1. CASE ld
      <4> DEFINE e == StartJob(n, NoTurn, "ok")
      <4>1. Moved(jobs, jobs', dj, {e})
        BY <1>2, <1>b, <3>1, MovedThenAppend
      <4>2. QED
        BY <4>1 DEF StartJob
    <3>2. CASE ~ld
      BY <1>2, <3>2
    <3>3. QED
      BY <3>1, <3>2
  <2>13. \A q \in inbox' : q.k = "stop" => q \in inbox
    OBVIOUS
  <2>14. PICK new : Moved(jobs, jobs', dj, new) /\ \A j \in new : j.k \notin {"rec", "stop"}
    BY <2>12
  <2>15. QED
    BY <2>3, <2>7, <2>8, <2>9, <2>10, <2>11, <2>13, <2>14, NothingOrder
<1>3. QED
  BY <1>1, <1>2 DEF ProcessNext, MayDispatch

-----------------------------------------------------------------------------
\* The requests of the user

\* The order of things over a step of the user.
LEMMA UserOrder ==
  ASSUME Known, TypeOK', User
  PROVE  Order'
<1>a. /\ TypeOK /\ Orderly /\ Stops /\ Working /\ NoRecovery /\ turns \in Nat /\ live \subseteq live
      /\ status \in [Mission -> Status] /\ jobs \in Seq(Job) /\ chan \in Seq(Message)
      /\ \A i \in DOMAIN jobs : ~(i <= 0)
      /\ Moved(jobs, jobs, 0, {})
  BY BoundAssumption, MovedSame DEF Known, Order, TypeOK, DispTypes, CodexTypes
<1>b. \A m \in Mission : stopping[m] => status[m] \in Stopped /\ stage[m] = "idle"
  BY <1>a DEF Stops, Stopping
<1>1. ASSUME UNCHANGED <<owner, env, rec, buffer, recovery, live, turns, chan>> PROVE Plain
  <2>1. turns' >= turns /\ live' \subseteq live
    BY <1>1, <1>a
  <2>2. QED
    BY <1>1, <1>a, <2>1, PlainLineSteps DEF Plain, NoRecovery
<1>2. ASSUME NEW m \in Mission, Create(m) PROVE Order'
  <2>1. Plain /\ status[m] = "absent" /\ UNCHANGED <<turn, stopping, inbox>>
    BY <1>1, <1>2 DEF Create, conv, comp, flags, cont, codex, hist
  <2>2. stage[m] = "idle" /\ ~stopping[m]
    BY <1>2, <1>b, <2>1, Waits DEF Create, Stopped
  <2>3. ProcessNext([status EXCEPT ![m] = "queued"], active, compacting, loaded, jobs)
    BY <1>2 DEF Create
  <2>4. [status EXCEPT ![m] = "queued"] \in [Mission -> Status]
    BY <1>a DEF Status
  <2>5. \A n \in Mission : [status EXCEPT ![m] = "queued"][n] # status[n] => n = m
    BY <1>a
  <2>6. [status EXCEPT ![m] = "queued"][m] = "queued"
    BY <1>a
  <2>7. QED
    BY <1>a, <2>1, <2>2, <2>3, <2>4, <2>5, <2>6, ProcessNextOrder
<1>3. ASSUME NEW m \in Mission, Resume(m) PROVE Order'
  <2>1. Plain /\ status[m] = "interrupted" /\ UNCHANGED <<turn, stopping, inbox>>
    BY <1>1, <1>3 DEF Resume, conv, comp, flags, cont, codex, hist
  <2>2. stage[m] = "idle" /\ ~stopping[m] /\ "late_end" \notin env
    BY <1>a, <1>3, <2>1, Waits DEF Resume, Orderly
  <2>3. ProcessNext([status EXCEPT ![m] = "queued"], active, compacting, loaded, jobs)
    BY <1>3 DEF Resume
  <2>4. [status EXCEPT ![m] = "queued"] \in [Mission -> Status]
    BY <1>a DEF Status
  <2>5. \A n \in Mission : [status EXCEPT ![m] = "queued"][n] # status[n] => n = m
    BY <1>a
  <2>6. [status EXCEPT ![m] = "queued"][m] = "queued"
    BY <1>a
  <2>7. QED
    BY <1>a, <2>1, <2>2, <2>3, <2>4, <2>5, <2>6, ProcessNextOrder
<1>4. ASSUME NEW m \in Mission, CancelQueued(m) \/ Approve(m) PROVE Order'
  <2>1. Plain /\ UNCHANGED <<active, stage, turn, stopping, inbox, jobs>>
    BY <1>1, <1>4 DEF CancelQueued, Approve, conv, comp, flags, cont, codex, hist
  <2>2. /\ \A n \in Mission : n # m => status'[n] = status[n]
        /\ \/ status[m] = "queued" /\ status'[m] = "cancelled"
           \/ status[m] = "awaiting_approval" /\ status'[m] = "running"
    BY <1>a, <1>4 DEF CancelQueued, Approve
  <2>3. stage[m] = "idle"
    BY <1>4, <2>2, Waits DEF CancelQueued, Approve
  <2>4. Unstarted /\ LateKept
    BY <2>1, <2>2, <2>3 DEF Unstarted, LateKept, Late, LateEnd, Plain
  <2>5. \A n \in Mission : status'[n] \in ActiveStatus <=> status[n] \in ActiveStatus
    BY <2>2 DEF ActiveStatus
  <2>6. StopsMeant
    BY <1>b, <2>1, <2>2 DEF StopsMeant, Stopped
  <2>7. PlainJobs
    BY <2>1, <1>a, PlainJobSteps
  <2>8. QED
    BY <2>1, <2>4, <2>5, <2>6, <2>7, PlainOrder
<1>5. ASSUME UNCHANGED <<status, active, stage, turn, stopping, inbox>>, Plain, PlainJobs PROVE Order'
  <2>1. LateKept /\ Unstarted /\ StopsMeant
    BY <1>b, <1>5 DEF LateKept, Late, LateEnd, Unstarted, StopsMeant, Plain
  <2>2. QED
    BY <1>5, <2>1, PlainOrder
<1>6. ASSUME NEW p \in BOOLEAN, SetDispatchPaused(p) PROVE Order'
  <2>1. PlainJobs
    BY <1>6, <1>a, PlainJobSteps DEF SetDispatchPaused, NextJob
  <2>2. QED
    BY <1>1, <1>5, <1>6, <2>1 DEF SetDispatchPaused, conv, comp, cont, codex, hist
<1>7. ASSUME CompactConversation \/ ClearContext PROVE Order'
  <2>1. PlainJobs
    BY <1>7, <1>a, PlainJobSteps DEF CompactConversation, ClearContext, disp, ManJob
  <2>2. QED
    BY <1>1, <1>5, <1>7, <2>1 DEF CompactConversation, ClearContext, disp, conv, comp, flags, codex, hist
\* A stop: the mission is at work and waits for nothing.
<1>8. ASSUME NEW m \in Mission, Interrupt(m) PROVE Order'
  <2> DEFINE q == [k |-> "stop", m |-> m, t |-> turn[m], n |-> 0]
  <2>1. /\ UNCHANGED <<status, active, stage, turn, jobs, owner, env, rec, recovery, chan, live>>
        /\ stopping' = [stopping EXCEPT ![m] = TRUE] /\ inbox' = inbox \cup {q} /\ ~stopping[m]
        /\ Plain
    BY <1>1, <1>8 DEF Interrupt, disp, conv, comp, flags, hist
  <2>2. status[m] \in {"running", "awaiting_approval"} /\ stage[m] = "idle" /\ turn[m] # NoTurn
    BY <1>8, <1>a, Waits DEF Interrupt, Orderly, ActiveStatus
  <2>3. stopping'[m] /\ \A n \in Mission : n # m => stopping'[n] = stopping[n]
    BY <2>1, <1>a DEF TypeOK, ContTypes
  <2>4. LateKept /\ Unstarted
    BY <2>1 DEF LateKept, Late, LateEnd, Unstarted
  <2>5. Awaited' /\ Working' /\ Starting' /\ Watched' /\ Sequence' /\ Fresh'
    BY <1>a, <2>1, <2>4, PlainJobSteps, PlainOrder
  <2>6. NoRecovery'
    BY <1>a, <2>1 DEF NoRecovery
  <2>7. \A l : /\ TurnLine(l)' <=> TurnLine(l)
               /\ LateEnd(l)' <=> LateEnd(l)
    BY <2>1 DEF TurnLine, LateEnd
  <2>8. \A p \in inbox : p.k = "stop" => p.m \in Mission
    BY <1>a, RequestMission DEF TypeOK, CodexTypes
  <2>9. StopRequests'
    BY <1>a, <2>1, <2>2, <2>3, <2>8 DEF Stops, StopRequests
  <2>10. \A i \in DOMAIN chan : StopLine(chan[i]) => chan[i].q.m \in Mission /\ chan[i].q.m # m
    BY <1>a, <2>1, LineTypes DEF Stops, StopReplies
  <2>11. \A i \in DOMAIN jobs : jobs[i].k = "stop" => jobs[i].m \in Mission /\ jobs[i].m # m
    BY <1>a, <2>1, LineTypes DEF Stops, StopJobs
  <2>12. StopReplies'
    BY <1>a, <2>1, <2>3, <2>7, <2>10 DEF Stops, StopReplies
  <2>13. StopJobs'
    BY <1>a, <2>1, <2>3, <2>7, <2>11 DEF Stops, StopJobs
  <2>14. Stopping'
    BY <1>b, <2>1, <2>2, <2>3 DEF Stopping, Stopped
  <2>15. QED
    BY <2>5, <2>6, <2>9, <2>12, <2>13, <2>14 DEF Order, Stops
<1>9. QED
  BY <1>2, <1>3, <1>4, <1>6, <1>7, <1>8 DEF User

-----------------------------------------------------------------------------
\* The awaits of startMission before it has sent its turn/start

\* A startMission goes on to its next stage.
LEMMA StageOrder ==
  ASSUME Known, TypeOK', Plain, NEW m \in Mission, stage[m] \in {"thread", "threadOk", "dir"},
         NEW s \in Stage, stage' = [stage EXCEPT ![m] = s], UNCHANGED <<status, active, turn, stopping>>,
         \A q \in inbox' : q.k = "stop" => q \in inbox,
         NEW js \in Seq(Job), NoContinuation(js), NEW dj \in Nat, Moved(jobs, js, dj, {}),
         \/ jobs' = js /\ s \in {"dir", "turn"} /\ (s = "dir" => "web" \in env)
         \/ \E r : jobs' = Append(js, StartJob(m, NoTurn, r)) /\ s \in {"threadOk", "settled"}
  PROVE  Order'
<1>a. /\ TypeOK /\ DispatchLock /\ Awaited /\ Working /\ Starting /\ Stops /\ env' = env
      /\ stage \in [Mission -> Stage] /\ jobs \in Seq(Job) /\ status[m] = "starting"
  BY DEF Known, Order, Plain, TypeOK, DispTypes, Starting
<1>1. \A n \in Mission : n # m => stage[n] = "idle"
  BY <1>a DEF DispatchLock, Locked
<1>2. stage'[m] = s /\ \A n \in Mission : n # m => stage'[n] = stage[n]
  BY <1>a
<1>3. \A t \in Turn : ~Now(t)
  BY NothingNow
<1>4. ~stopping[m]
  BY <1>a DEF Stops, Stopping
<1>5. LateKept /\ StopsMeant
  <2>1. \A n \in Mission : stopping[n] => status[n] \in Stopped /\ stage[n] = "idle" /\ n # m
    BY <1>a, <1>4 DEF Stops, Stopping
  <2>2. StopsMeant
    BY <1>2, <2>1 DEF StopsMeant
  <2>3. QED
    BY <1>a, <2>2 DEF LateKept, Late, LateEnd, Plain
<1>6. Working'
  BY <1>a DEF Working
<1>7. CASE jobs' = js /\ s \in {"dir", "turn"} /\ (s = "dir" => "web" \in env)
  <2>1. Awaited'
    BY <1>1, <1>2, <1>7 DEF Awaited
  <2>2. Starting'
    BY <1>a, <1>1, <1>2, <1>7 DEF Starting, NoContinuation, Continues
  <2>3. QED
    BY <1>3, <1>5, <1>6, <1>7, <2>1, <2>2, NothingOrder
<1>8. ASSUME NEW r, jobs' = Append(js, StartJob(m, NoTurn, r)), s \in {"threadOk", "settled"}
      PROVE  Order'
  <2> DEFINE e == StartJob(m, NoTurn, r)
  <2>1. Moved(jobs, jobs', dj, {e}) /\ Moved(js, jobs', 0, {e})
    BY <1>a, <1>8, MovedThenAppend, MovedAppend
  <2>2. \A i \in DOMAIN jobs' : Continues(jobs'[i]) => jobs'[i] = e
    BY <2>1 DEF Moved, NoContinuation
  <2>3. Awaited'
    <3>1. Len(js) + 1 \in DOMAIN jobs' /\ jobs'[Len(js) + 1] = e
      BY <1>8
    <3>2. Due(m)'
      BY <3>1 DEF Due, Continues, StartJob
    <3>3. QED
      BY <1>1, <1>2, <3>2 DEF Awaited
  <2>4. Starting'
    BY <1>a, <1>1, <1>2, <1>8, <2>2 DEF Starting, Continues, StartJob
  <2>5. \A j \in {e} : j.k \notin {"rec", "stop"}
    BY DEF StartJob
  <2>6. QED
    BY <1>3, <1>5, <1>6, <2>1, <2>3, <2>4, <2>5, NothingOrder
<1>9. QED
  BY <1>7, <1>8

\* startTurn.
LEMMA SendOrder ==
  ASSUME Known, TypeOK', Plain, NEW m \in Mission, stage[m] \in {"threadOk", "dir"},
         NEW js \in Seq(Job), NoContinuation(js), NEW dj \in Nat, Moved(jobs, js, dj, {}),
         SendTurn(m, js), UNCHANGED <<status, active, turn, stopping>>
  PROVE  Order'
<1>1. CASE process = "ready"
  <2>1. /\ stage' = [stage EXCEPT ![m] = "turn"] /\ jobs' = js
        /\ \A q \in inbox' : q.k = "stop" => q \in inbox
    BY <1>1 DEF SendTurn
  <2>2. QED
    BY <2>1, StageOrder DEF Stage
<1>2. CASE process # "ready"
  <2>1. /\ stage' = [stage EXCEPT ![m] = "settled"] /\ jobs' = Append(js, StartJob(m, NoTurn, "infra"))
        /\ \A q \in inbox' : q.k = "stop" => q \in inbox
    BY <1>2 DEF SendTurn
  <2>2. QED
    BY <2>1, StageOrder DEF Stage
<1>3. QED
  BY <1>1, <1>2

\* An await of startMission settles.
LEMMA SettleOrder ==
  ASSUME Known, TypeOK', Settle \/ ThreadFails \/ CodexReady \/ Timer
  PROVE  Order'
<1>a. /\ TypeOK /\ Orderly /\ Stops /\ Working /\ NoRecovery /\ turns \in Nat /\ DispatchLock
      /\ status \in [Mission -> Status] /\ jobs \in Seq(Job) /\ Moved(jobs, jobs, 0, {})
      /\ \A i \in DOMAIN jobs : ~(i <= 0)
  BY BoundAssumption, MovedSame DEF Known, Order, TypeOK, DispTypes, CodexTypes
<1>b. \A m \in Mission : stopping[m] => status[m] \in Stopped /\ stage[m] = "idle"
  BY <1>a DEF Stops, Stopping
<1>1. ASSUME UNCHANGED <<owner, env, rec, buffer, live, turns, chan>>, recovery' = NoMission PROVE Plain
  <2>1. turns' >= turns /\ live' \subseteq live
    BY <1>1, <1>a
  <2>2. QED
    BY <1>1, <1>a, <2>1, PlainLineSteps DEF Plain
<1>2. ASSUME UNCHANGED <<status, active, stage, turn, stopping, inbox>>, Plain, PlainJobs PROVE Order'
  <2>1. LateKept /\ Unstarted /\ StopsMeant
    BY <1>b, <1>2 DEF LateKept, Late, LateEnd, Unstarted, StopsMeant, Plain
  <2>2. QED
    BY <1>2, <2>1, PlainOrder
<1>3. ASSUME NEW m \in Mission, stage[m] \in {"thread", "dir"} PROVE NoContinuation(jobs)
  BY <1>a, <1>3, WaitingLock DEF DispatchLock, TypeOK, DispTypes
<1>4. ASSUME ThreadOpened \/ ThreadFails PROVE Order'
  <2>1. Plain /\ UNCHANGED <<status, active, turn, stopping, inbox>>
    BY <1>1, <1>4, <1>a DEF ThreadOpened, ThreadFails, conv, comp, flags, cont, codex, hist, NoRecovery
  <2>2. ASSUME NEW m \in Mission, NEW r, stage[m] = "thread", NEW s \in {"threadOk", "settled"},
               stage' = [stage EXCEPT ![m] = s], jobs' = Append(jobs, StartJob(m, NoTurn, r))
        PROVE  Order'
    <3>1. NoContinuation(jobs) /\ s \in Stage /\ \A q \in inbox' : q.k = "stop" => q \in inbox
      BY <1>3, <2>1, <2>2 DEF Stage
    <3>2. QED
      BY <1>a, <2>1, <2>2, <3>1, StageOrder
  <2>3. ASSUME NEW r, jobs' = Append(jobs, ManJob(r)), UNCHANGED stage PROVE Order'
    <3>1. PlainJobs
      BY <1>a, <2>3, PlainJobSteps DEF ManJob
    <3>2. QED
      BY <1>2, <2>1, <2>3, <3>1
  <2>4. CASE ThreadOpened
    BY <2>2, <2>3, <2>4 DEF ThreadOpened
  <2>5. CASE ThreadFails
    BY <2>2, <2>3, <2>5 DEF ThreadFails
  <2>6. QED
    BY <1>4, <2>4, <2>5
<1>5. ASSUME ContextCleared PROVE Order'
  <2>1. PlainJobs
    BY <1>5, <1>a, PlainJobSteps DEF ContextCleared, NextJob
  <2>2. QED
    BY <1>1, <1>2, <1>5, <1>a, <2>1 DEF ContextCleared, conv, comp, codex, hist, NoRecovery
<1>6. ASSUME NEW m \in Mission, DirectoryMade(m) PROVE Order'
  <2>1. /\ Plain /\ UNCHANGED <<status, active, turn, stopping>> /\ SendTurn(m, jobs)
        /\ stage[m] \in {"threadOk", "dir"}
    BY <1>1, <1>6, <1>a DEF DirectoryMade, conv, comp, flags, cont, NoRecovery
  <2>2. NoContinuation(jobs)
    BY <1>3, <1>6 DEF DirectoryMade
  <2>3. QED
    BY <1>a, <2>1, <2>2, SendOrder
<1>7. ASSUME CodexReady \/ DispatchRetry PROVE Order'
  <2>1. PlainJobs
    BY <1>7, <1>a, PlainJobSteps DEF CodexReady, DispatchRetry, disp
  <2>2. QED
    BY <1>1, <1>2, <1>7, <1>a, <2>1 DEF CodexReady, DispatchRetry, disp, conv, comp, cont, codex, hist, NoRecovery
<1>8. ASSUME NEW st, st = status, NEW cmp, NEW ld, ProcessNext(st, active, cmp, ld, jobs), Plain,
             UNCHANGED <<turn, stopping, inbox>>
      PROVE  Order'
  BY <1>a, <1>8, ProcessNextOrder
<1>9. ASSUME InitializeConversation PROVE Order'
  <2>1. Plain /\ UNCHANGED <<turn, stopping, inbox>>
    BY <1>1, <1>9, <1>a DEF InitializeConversation, conv, comp, cont, codex, NoRecovery
  <2>2. QED
    BY <1>8, <1>9, <2>1 DEF InitializeConversation
<1>10. ASSUME CompactionTimeout PROVE Order'
  <2>1. recovery = NoMission /\ \A m \in Mission : m # NoMission
    BY <1>a, MissionAssumption DEF NoRecovery, NoMission
  <2>2. Plain /\ UNCHANGED <<turn, stopping, inbox>>
    BY <1>1, <1>10, <2>1 DEF CompactionTimeout, conv, flags, cont, codex, hist
  <2>3. CASE compacting
    <3>1. [m \in Mission |-> IF m = recovery THEN "failed" ELSE status[m]] = status
      BY <1>a, <2>1
    <3>2. QED
      BY <1>8, <1>10, <2>2, <2>3, <3>1 DEF CompactionTimeout
  <2>4. CASE ~compacting
    <3>1. UNCHANGED disp
      BY <1>10, <2>4 DEF CompactionTimeout
    <3>2. PlainJobs
      BY <1>a, <3>1, PlainJobSteps DEF disp
    <3>3. QED
      BY <1>2, <2>2, <3>1, <3>2 DEF disp
  <2>5. QED
    BY <2>3, <2>4
<1>11. QED
  BY <1>4, <1>5, <1>6, <1>7, <1>9, <1>10 DEF Settle, Timer

-----------------------------------------------------------------------------
\* The microtasks

\* startMission takes its turn: nothing of it was buffered.
LEMMA TakenOrder ==
  ASSUME Known, TypeOK', NEW m \in Mission, RunTurnStarted(m)
  PROVE  Order'
<1> DEFINE t == Head(jobs).t
           e == EndJob(m, "ok")
<1>a. /\ TypeOK /\ DispatchLock /\ SlotHeld /\ Tokens /\ Awaited /\ Working /\ Starting /\ Watched /\ Fresh /\ Stops
      /\ NoRecovery
  BY DEF Known, Order
<1>b. /\ jobs \in Seq(Job) /\ jobs # <<>> /\ Head(jobs) = jobs[1] /\ 1 \in DOMAIN jobs
      /\ Continues(Head(jobs)) /\ Head(jobs).m = m /\ t \in Turn \cup {NoTurn}
      /\ Opened(jobs[1]) /\ stage[m] = "settled" /\ jobs[1].k = "start" /\ jobs[1].r = "ok"
  BY <1>a, HeadJobTypes DEF TypeOK, DispTypes, RunTurnStarted, Continues, Opened
<1>c. t \in Turn /\ owner[t] = m /\ m # NoMission
  BY <1>a, <1>b, MissionAssumption DEF Tokens, StartJobs, NoMission
<1>d. /\ NoContinuation(Tail(jobs)) /\ Tail(jobs) \in Seq(Job)
      /\ \A n \in Mission : stage[n] # "idle" => n = m
  BY <1>a, <1>b, HeadLock
<1>e. status[m] = "starting" /\ active = m
  BY <1>a, <1>b DEF Starting, Working, ActiveStatus
<1>f. buffer[t] = "none"
  BY <1>a, <1>c DEF Fresh
<1>1. /\ turn' = [turn EXCEPT ![m] = t] /\ stage' = [stage EXCEPT ![m] = "ending"]
      /\ status' = [status EXCEPT ![m] = "running"] /\ active' = active /\ buffer' = buffer
      /\ jobs' = Append(Tail(jobs), e)
      /\ UNCHANGED <<chan, inbox, owner, turns, live, env, rec, recovery, stopping>>
  <2>1. [buffer EXCEPT ![t] = "none"] = buffer
    BY <1>a, <1>f DEF TypeOK, FlagTypes
  <2>2. QED
    BY <1>f, <2>1 DEF RunTurnStarted, codex, hist, cont, comp
<1>2. /\ turn'[m] = t /\ stage'[m] = "ending" /\ status'[m] = "running"
      /\ \A n \in Mission : n # m => turn'[n] = turn[n] /\ stage'[n] = stage[n] /\ status'[n] = status[n]
  BY <1>a, <1>1 DEF TypeOK, DispTypes, ConvTypes
<1>3. Plain
  <2>1. turns' >= turns /\ live' \subseteq live
    BY <1>a, <1>1, BoundAssumption DEF TypeOK, CodexTypes
  <2>2. QED
    BY <1>a, <1>1, <2>1, PlainLineSteps DEF Plain, NoRecovery
<1>4. LateKept
  BY <1>1, <1>2, <1>e DEF LateKept, Late, LateEnd
<1>5. StopsMeant
  BY <1>a, <1>b, <1>2 DEF StopsMeant, Stops, Stopping
<1>6. Moved(jobs, jobs', 1, {e}) /\ Moved(Tail(jobs), jobs', 0, {e})
  BY <1>b, <1>d, <1>1, MovedTailAppend, MovedAppend
<1>7. \A i \in DOMAIN jobs' : Continues(jobs'[i]) => jobs'[i] = e
  BY <1>6, <1>d DEF Moved, NoContinuation
<1>8. NoRecovery' /\ Stops'
  <2>1. \A j \in {e} : j.k \notin {"rec", "stop"}
    BY DEF EndJob
  <2>2. \A q \in inbox' : q.k = "stop" => q \in inbox
    BY <1>1
  <2>3. QED
    BY <1>1, <1>3, <1>5, <1>6, <2>1, <2>2, PlainStops
<1>9. Awaited'
  <2>1. Len(Tail(jobs)) + 1 \in DOMAIN jobs' /\ jobs'[Len(Tail(jobs)) + 1] = e
    BY <1>d, <1>1
  <2>2. Due(m)'
    BY <2>1 DEF Due, Continues, EndJob
  <2>3. QED
    BY <1>d, <1>2, <2>2 DEF Awaited
<1>10. Working'
  BY <1>a, <1>1, <1>2, <1>e DEF Working, ActiveStatus
<1>11. Starting'
  BY <1>2, <1>7, <1>d DEF Starting, Continues, EndJob
<1>12. Sequence' /\ Fresh' /\ \A u \in Turn : Now(u)' => Now(u)
  BY <1>3, <1>4, PlainParts
<1>13. Watched'
  <2> SUFFICES ASSUME NEW u \in Turn, Now(u)' PROVE Watch(u)'
    BY DEF Watched
  <2>1. Watch(u)
    BY <1>a, <1>12 DEF Watched
  <2>2. owner[u] = m /\ Taken(u)
    BY <1>b, <1>e, <2>1 DEF Watch
  <2>3. u = t
    BY <1>a, <1>b, <2>2 DEF Taken, Opened, DispatchLock, Locked, Continues
  <2>4. \A i \in DOMAIN jobs' : jobs'[i].k = "end" => jobs'[i].r = "ok"
    BY <1>7 DEF Continues, EndJob
  <2>5. owner'[u] = m /\ turn'[m] = u /\ active' = m
    BY <1>1, <1>2, <1>e, <2>2, <2>3
  <2>6. QED
    BY <1>2, <1>c, <2>4, <2>5 DEF Watch
<1>14. QED
  BY <1>8, <1>9, <1>10, <1>11, <1>12, <1>13 DEF Order

\* startMission is given up, and then processNext's await of it.
LEMMA FailedOrder ==
  ASSUME Known, TypeOK', NEW m \in Mission, RunStartFailed(m) \/ RunDispatched(m) \/ RunDispatchFailed(m)
  PROVE  Order'
<1> DEFINE h == Head(jobs)
<1>a. /\ TypeOK /\ DispatchLock /\ SlotHeld /\ Tokens /\ Awaited /\ Working /\ Starting /\ Watched /\ Stops
      /\ NoRecovery
  BY DEF Known, Order
<1>b. /\ jobs \in Seq(Job) /\ jobs # <<>> /\ h = jobs[1] /\ 1 \in DOMAIN jobs
      /\ Continues(h) /\ h.m = m
      /\ status \in [Mission -> Status] /\ stage \in [Mission -> Stage]
      /\ \A n \in Mission : n # NoMission
  BY <1>a, MissionAssumption DEF TypeOK, DispTypes, RunStartFailed, RunDispatched, RunDispatchFailed, Continues, NoMission
<1>c. /\ NoContinuation(Tail(jobs)) /\ Tail(jobs) \in Seq(Job) /\ stage[m] # "idle"
      /\ \A n \in Mission : stage[n] # "idle" => n = m
  BY <1>a, <1>b, HeadLock
<1>d. active \in {m, NoMission}
  BY <1>a, <1>c DEF SlotHeld
<1>e. h.k = "end" => stage[m] = "ending"
  BY <1>a, <1>b DEF DispatchLock, Locked
<1>f. \A i \in DOMAIN jobs : Continues(jobs[i]) => jobs[i] = h
  BY <1>a, <1>b DEF DispatchLock, Locked
<1>1. UNCHANGED <<turn, chan, inbox, owner, turns, live, env, rec, recovery, stopping, buffer>>
  BY DEF RunStartFailed, RunDispatched, RunDispatchFailed, conv, comp, flags, codex, hist, cont
<1>2. Plain
  <2>1. turns' >= turns /\ live' \subseteq live
    BY <1>a, <1>1, BoundAssumption DEF TypeOK, CodexTypes
  <2>2. QED
    BY <1>a, <1>1, <2>1, PlainLineSteps DEF Plain, NoRecovery
<1>3. \A n \in Mission : stopping[n] => n # m /\ status[n] \in Stopped /\ stage[n] = "idle"
  BY <1>a, <1>c DEF Stops, Stopping
<1>4. \A q \in inbox' : q.k = "stop" => q \in inbox
  BY <1>1
<1>5. ASSUME RunStartFailed(m) PROVE Order'
  <2> DEFINE e == EndJob(m, h.r)
  <2>1. /\ stage' = [stage EXCEPT ![m] = "ending"] /\ jobs' = Append(Tail(jobs), e)
        /\ UNCHANGED <<status, active>> /\ stage[m] = "settled" /\ h.r # "ok" /\ h.k = "start"
    BY <1>5 DEF RunStartFailed
  <2>2. \A t \in Turn : ~Now(t)
    <3> SUFFICES ASSUME NEW t \in Turn, Now(t) PROVE FALSE
      OBVIOUS
    <3>1. Watch(t) /\ owner[t] = m
      BY <1>a, <1>d DEF Watched, Watch
    <3>2. Taken(t)
      BY <2>1, <3>1 DEF Watch
    <3>3. QED
      BY <1>f, <2>1, <3>2 DEF Taken, Opened, Continues
  <2>3. stage'[m] = "ending" /\ \A n \in Mission : n # m => stage'[n] = stage[n]
    BY <1>b, <2>1
  <2>4. Moved(jobs, jobs', 1, {e}) /\ Moved(Tail(jobs), jobs', 0, {e})
    BY <1>b, <1>c, <2>1, MovedTailAppend, MovedAppend
  <2>5. \A i \in DOMAIN jobs' : Continues(jobs'[i]) => jobs'[i] = e
    BY <1>c, <2>4 DEF Moved, NoContinuation
  <2>6. Awaited'
    <3>1. Len(Tail(jobs)) + 1 \in DOMAIN jobs' /\ jobs'[Len(Tail(jobs)) + 1] = e
      BY <1>c, <2>1
    <3>2. Due(m)'
      BY <3>1 DEF Due, Continues, EndJob
    <3>3. QED
      BY <1>c, <2>3, <3>2 DEF Awaited
  <2>7. Working'
    BY <1>a, <2>1 DEF Working
  <2>8. Starting'
    <3>1. /\ h.r # "infra" => status[m] = "starting"
          /\ h.r = "infra" => status[m] \in {"starting", "queued", "interrupted"}
      BY <1>a, <1>b, <2>1 DEF Starting
    <3>2. QED
      BY <1>c, <2>1, <2>3, <2>5, <3>1 DEF Starting, Continues, EndJob
  <2>9. LateKept /\ StopsMeant
    BY <1>1, <1>3, <2>1, <2>3 DEF LateKept, Late, LateEnd, StopsMeant
  <2>10. \A j \in {e} : j.k \notin {"rec", "stop"}
    BY DEF EndJob
  <2>11. QED
    BY <1>1, <1>2, <1>4, <2>2, <2>4, <2>6, <2>7, <2>8, <2>9, <2>10, NothingOrder
<1>6. ASSUME RunDispatched(m) \/ RunDispatchFailed(m), Moved(jobs, jobs', 1, {NextJob}),
             NoContinuation(jobs'), Working', LateKept, \A n \in Mission : n # m => status'[n] = status[n]
      PROVE  /\ Awaited' /\ Starting' /\ Sequence' /\ Fresh' /\ NoRecovery' /\ Stops'
             /\ \A t \in Turn : Now(t)' => Now(t)
             /\ stage'[m] = "idle" /\ stage[m] = "ending"
  <2>1. stage' = [stage EXCEPT ![m] = "idle"] /\ h.k = "end"
    BY <1>6 DEF RunDispatched, RunDispatchFailed
  <2>2. \A n \in Mission : stage'[n] = "idle"
    BY <1>b, <1>c, <2>1
  <2>3. Awaited' /\ Starting'
    BY <1>6, <2>2 DEF Awaited, Starting, NoContinuation, Continues
  <2>4. StopsMeant
    BY <1>1, <1>3, <1>6, <2>2 DEF StopsMeant
  <2>5. \A j \in {NextJob} : j.k \notin {"rec", "stop"}
    BY DEF NextJob
  <2>6. NoRecovery' /\ Stops'
    BY <1>1, <1>2, <1>4, <1>6, <2>4, <2>5, PlainStops
  <2>7. QED
    BY <1>2, <1>6, <1>e, <2>1, <2>2, <2>3, <2>6, PlainParts
<1>7. ASSUME RunDispatched(m) PROVE Order'
  <2>1. UNCHANGED <<status, active>> /\ jobs' = Tail(jobs) /\ stage' = [stage EXCEPT ![m] = "idle"]
    BY <1>7 DEF RunDispatched
  <2>2. Moved(jobs, jobs', 1, {NextJob}) /\ NoContinuation(jobs')
    BY <1>b, <1>c, <2>1, MovedTail
  <2>3. Working'
    BY <1>a, <2>1 DEF Working
  <2>4. LateKept
    BY <1>1, <2>1 DEF LateKept, Late, LateEnd
  <2>5. /\ Awaited' /\ Starting' /\ Sequence' /\ Fresh' /\ NoRecovery' /\ Stops'
        /\ \A t \in Turn : Now(t)' => Now(t)
        /\ stage'[m] = "idle" /\ stage[m] = "ending"
    BY <1>6, <1>7, <2>1, <2>2, <2>3, <2>4
  <2>6. Watched'
    <3> SUFFICES ASSUME NEW t \in Turn, Now(t)' PROVE Watch(t)'
      BY DEF Watched
    <3>1. Watch(t)
      BY <1>a, <2>5 DEF Watched
    <3>2. owner[t] = m /\ turn[m] = t /\ active = m
      BY <1>d, <2>5, <3>1 DEF Watch
    <3>3. \A i \in DOMAIN jobs' : jobs'[i].k # "end"
      BY <2>2 DEF NoContinuation, Continues
    <3>4. QED
      BY <1>1, <1>b, <2>1, <2>5, <3>2, <3>3 DEF Watch
  <2>7. QED
    BY <2>3, <2>5, <2>6 DEF Order
<1>8. ASSUME RunDispatchFailed(m) PROVE Order'
  <2>1. /\ h.k = "end" /\ h.r # "ok" /\ active' = NoMission
        /\ jobs' \in {Tail(jobs), Append(Tail(jobs), NextJob)}
        /\ \A n \in Mission : n # m => status'[n] = status[n]
        /\ status'[m] = IF status[m] = "interrupted" THEN "interrupted"
                        ELSE IF h.r = "infra" THEN "queued" ELSE "failed"
    BY <1>8, <1>b DEF RunDispatchFailed
  <2>2. Moved(jobs, jobs', 1, {NextJob}) /\ NoContinuation(jobs')
    <3>1. CASE jobs' = Tail(jobs)
      BY <1>b, <1>c, <3>1, MovedTail
    <3>2. CASE jobs' = Append(Tail(jobs), NextJob)
      <4>1. Moved(jobs, jobs', 1, {NextJob}) /\ Moved(Tail(jobs), jobs', 0, {NextJob})
        BY <1>b, <1>c, <3>2, MovedTailAppend, MovedAppend
      <4>2. QED
        BY <1>c, <4>1 DEF Moved, NoContinuation, Continues, NextJob
    <3>3. QED
      BY <2>1, <3>1, <3>2
  <2>3. Working'
    <3>1. \A n \in Mission : n # m => status[n] \notin ActiveStatus
      BY <1>a, <1>b, <1>d DEF Working
    <3>2. QED
      BY <1>b, <2>1, <3>1 DEF Working, ActiveStatus
  <2>4. LateKept
    BY <1>1, <2>1 DEF LateKept, Late, LateEnd
  <2>5. /\ Awaited' /\ Starting' /\ Sequence' /\ Fresh' /\ NoRecovery' /\ Stops'
        /\ \A t \in Turn : Now(t)' => Now(t)
    BY <1>6, <1>8, <2>1, <2>2, <2>3, <2>4
  <2>6. Watched'
    <3>1. \A t \in Turn : ~Now(t)
      BY <1>a, <1>b, <2>1 DEF Watched, Watch
    <3>2. QED
      BY <2>5, <3>1 DEF Watched
  <2>7. QED
    BY <2>3, <2>5, <2>6 DEF Order
<1>9. QED
  BY <1>5, <1>7, <1>8

\* A stop is answered: what is still to be read of its mission is the late end of its turn.
LEMMA StoppedOrder ==
  ASSUME Known, TypeOK', NEW m \in Mission, RunInterrupted(m)
  PROVE  Order'
<1>a. /\ TypeOK /\ DispatchLock /\ Awaited /\ Working /\ Starting /\ Watched /\ Stops /\ NoRecovery
  BY DEF Known, Order
<1>b. /\ jobs \in Seq(Job) /\ jobs # <<>> /\ Head(jobs) = jobs[1] /\ 1 \in DOMAIN jobs
      /\ jobs[1].k = "stop" /\ jobs[1].m = m /\ m # NoMission
      /\ status \in [Mission -> Status] /\ stopping \in [Mission -> BOOLEAN]
      /\ \A i \in DOMAIN jobs : i <= 1 => i = 1
  BY <1>a, MissionAssumption DEF TypeOK, DispTypes, ContTypes, RunInterrupted, NoMission
<1>c. /\ stopping[m] /\ stage[m] = "idle" /\ status[m] \in Stopped
      /\ \A q \in inbox : q.k = "stop" => q.m # m
      /\ \A t \in live : owner[t] # m
      /\ \A j \in DOMAIN chan : StopLine(chan[j]) => chan[j].q.m # m
      /\ \A j \in DOMAIN chan : TurnLine(chan[j]) /\ owner[chan[j].t] = m => LateEnd(chan[j])
      /\ \A i \in DOMAIN jobs : jobs[i].k = "stop" /\ jobs[i].m = m => i = 1
  BY <1>a, <1>b DEF Stops, StopJobs, Stopping
<1>1. /\ stopping' = [stopping EXCEPT ![m] = FALSE]
      /\ status' = [status EXCEPT ![m] = "interrupted"]
      /\ active' = IF active = m THEN NoMission ELSE active
      /\ jobs' = Append(Tail(jobs), NextJob)
      /\ UNCHANGED <<stage, turn, chan, inbox, owner, turns, live, env, rec, recovery, buffer>>
  BY DEF RunInterrupted, FinishActive, conv, comp, flags, codex
<1>2. /\ status'[m] = "interrupted" /\ ~stopping'[m]
      /\ \A n \in Mission : n # m => status'[n] = status[n] /\ stopping'[n] = stopping[n]
  BY <1>b, <1>1
<1>3. Plain
  <2>1. turns' >= turns /\ live' \subseteq live
    BY <1>a, <1>1, BoundAssumption DEF TypeOK, CodexTypes
  <2>2. QED
    BY <1>a, <1>1, <2>1, PlainLineSteps DEF Plain, NoRecovery
<1>4. LateKept
  BY <1>1, <1>2 DEF LateKept, Late, LateEnd
<1>5. Moved(jobs, jobs', 1, {NextJob}) /\ Moved(chan, chan', 0, {})
  BY <1>a, <1>b, <1>1, MovedTailAppend, MovedSame DEF TypeOK, CodexTypes
<1>6. \A i \in DOMAIN jobs : i <= 1 => ~Continues(jobs[i])
  BY <1>b DEF Continues
<1>7. NoRecovery'
  BY <1>1, <1>a, <1>5 DEF NoRecovery, Moved, NextJob
<1>8. Awaited'
  BY <1>a, <1>1, <1>5, <1>6, AwaitedKept
<1>9. Working'
  <2>1. \A n \in Mission : n # NoMission
    BY MissionAssumption DEF NoMission
  <2>2. QED
    BY <1>a, <1>b, <1>1, <1>2, <2>1 DEF Working, ActiveStatus
<1>10. Starting'
  <2>1. \A j \in {NextJob} : ~Continues(j)
    BY DEF NextJob, Continues
  <2>2. \A n \in Mission : stage[n] # "idle" => status'[n] = status[n]
    BY <1>2, <1>c
  <2>3. QED
    BY <1>a, <1>1, <1>5, <2>1, <2>2, StartingKept
<1>11. Sequence' /\ Fresh' /\ \A t \in Turn : Now(t)' => Now(t)
  BY <1>3, <1>4, PlainParts
<1>12. Watched'
  <2> SUFFICES ASSUME NEW t \in Turn, Now(t)' PROVE Watch(t)'
    BY DEF Watched
  <2>1. Watch(t) /\ owner[t] \in Mission /\ active = owner[t]
    BY <1>11, <1>a, LineTypes DEF Watched, Watch
  <2>2. owner[t] # m
    <3> SUFFICES ASSUME owner[t] = m PROVE FALSE
      OBVIOUS
    <3>1. turn[m] = t
      BY <1>c, <2>1 DEF Watch
    <3>2. t \notin live
      BY <1>c
    <3>3. PICK i \in DOMAIN chan' : TurnLine(chan'[i]) /\ chan'[i].t = t /\ ~Late(chan[i])'
      BY <1>1, <3>2 DEF Now, TurnLine, StartLine
    <3>4. i \in DOMAIN chan /\ chan'[i] = chan[i] /\ LateEnd(chan[i])
      BY <1>1, <1>c, <3>3
    <3>5. QED
      BY <1>1, <1>2, <3>1, <3>3, <3>4 DEF Late, LateEnd
  <2>3. active' = active /\ stage'[active] = stage[active] /\ turn'[active] = turn[active]
    BY <1>1, <2>1, <2>2
  <2>4. \A j \in {NextJob} : j.k # "end"
    BY DEF NextJob
  <2>5. \A i \in DOMAIN jobs : i <= 1 => ~Opened(jobs[i])
    BY <1>b DEF Opened
  <2>6. \A i \in DOMAIN chan : i <= 0 => ~(StartLine(chan[i]) /\ chan[i].r = "ok")
    BY <1>a DEF TypeOK, CodexTypes
  <2>7. QED
    BY <1>1, <1>5, <2>1, <2>3, <2>4, <2>5, <2>6, WatchKept
<1>13. Stops'
  <2>a. \A l : /\ TurnLine(l)' <=> TurnLine(l)
               /\ LateEnd(l)' <=> LateEnd(l)
               /\ StopLine(l)' <=> StopLine(l)
    BY <1>1 DEF TurnLine, LateEnd, StopLine, StartLine
  <2>b. /\ \A i \in DOMAIN chan : StopLine(chan[i]) => chan[i].q.m \in Mission
        /\ \A i \in DOMAIN jobs : jobs[i].k = "stop" => jobs[i].m \in Mission
        /\ \A q \in inbox : q.k = "stop" => q.m \in Mission
    BY <1>a, LineTypes, RequestMission DEF TypeOK, CodexTypes
  <2>1. StopRequests'
    BY <1>a, <1>c, <1>1, <1>2, <2>b DEF Stops, StopRequests
  <2>2. StopReplies'
    BY <1>a, <1>c, <1>1, <1>2, <2>a, <2>b DEF Stops, StopReplies
  <2>3. \A i \in DOMAIN jobs' : jobs'[i].k = "stop" =>
          /\ i \in Nat /\ i + 1 \in DOMAIN jobs /\ jobs'[i] = jobs[i + 1] /\ jobs'[i].m \in Mission
          /\ jobs'[i].m # m
    <3> SUFFICES ASSUME NEW i \in DOMAIN jobs', jobs'[i].k = "stop"
                 PROVE  /\ i \in Nat /\ i + 1 \in DOMAIN jobs /\ jobs'[i] = jobs[i + 1]
                        /\ jobs'[i].m \in Mission /\ jobs'[i].m # m
      OBVIOUS
    <3>1. i + 1 \in DOMAIN jobs /\ jobs'[i] = jobs[i + 1]
      BY <1>5 DEF Moved, NextJob
    <3>2. i \in Nat /\ i # 0
      BY DEF TypeOK, DispTypes
    <3>3. i + 1 # 1
      BY <3>2
    <3>4. QED
      BY <1>c, <2>b, <3>1, <3>2, <3>3
  <2>4. StopJobs'
    <3>1. ASSUME NEW i \in DOMAIN jobs', jobs'[i].k = "stop"
          PROVE  /\ stopping'[jobs'[i].m]
                 /\ \A q \in inbox' : q.k = "stop" => q.m # jobs'[i].m
                 /\ \A t \in live' : owner'[t] # jobs'[i].m
                 /\ \A j \in DOMAIN chan' : StopLine(chan'[j]) => chan'[j].q.m # jobs'[i].m
                 /\ \A j \in DOMAIN chan' :
                      TurnLine(chan'[j]) /\ owner'[chan'[j].t] = jobs'[i].m => LateEnd(chan'[j])
      BY <1>a, <1>1, <1>2, <2>3, <3>1 DEF Stops, StopJobs
    <3>2. ASSUME NEW i \in DOMAIN jobs', NEW j \in DOMAIN jobs', jobs'[i].k = "stop", jobs'[j].k = "stop",
                 jobs'[i].m = jobs'[j].m
          PROVE  i = j
      <4>1. i + 1 = j + 1
        BY <1>a, <2>3, <3>2 DEF Stops, StopJobs
      <4>2. QED
        BY <2>3, <3>2, <4>1
    <3>3. QED
      BY <3>1, <3>2, <2>a DEF StopJobs, StopLine, LateEnd, TurnLine, StartLine
  <2>5. Stopping'
    BY <1>a, <1>1, <1>2 DEF Stops, Stopping
  <2>6. QED
    BY <2>1, <2>2, <2>4, <2>5 DEF Stops
<1>14. QED
  BY <1>7, <1>8, <1>9, <1>10, <1>11, <1>12, <1>13 DEF Order

\* The order of things over a microtask.
LEMMA MicrotaskOrder ==
  ASSUME Known, TypeOK', Microtask
  PROVE  Order'
<1>a. /\ TypeOK /\ Orderly /\ Stops /\ Working /\ NoRecovery /\ turns \in Nat /\ DispatchLock
      /\ status \in [Mission -> Status] /\ jobs \in Seq(Job)
      /\ \A i \in DOMAIN jobs : i <= 1 => i = 1
  BY BoundAssumption DEF Known, Order, TypeOK, DispTypes, CodexTypes
<1>b. \A m \in Mission : stopping[m] => status[m] \in Stopped /\ stage[m] = "idle"
  BY <1>a DEF Stops, Stopping
<1>1. ASSUME UNCHANGED <<owner, env, rec, buffer, recovery, live, turns, chan>> PROVE Plain
  <2>1. turns' >= turns /\ live' \subseteq live
    BY <1>1, <1>a
  <2>2. QED
    BY <1>1, <1>a, <2>1, PlainLineSteps DEF Plain, NoRecovery
<1>2. ASSUME UNCHANGED <<status, active, stage, turn, stopping>>, Plain, PlainJobs,
             \A q \in inbox' : q.k = "stop" => q \in inbox
      PROVE  Order'
  <2>1. LateKept /\ Unstarted /\ StopsMeant
    BY <1>b, <1>2 DEF LateKept, Late, LateEnd, Unstarted, StopsMeant, Plain
  <2>2. QED
    BY <1>2, <2>1, PlainOrder
<1>3. ASSUME RunNext PROVE Order'
  <2>1. Plain /\ UNCHANGED <<turn, stopping, inbox>>
    BY <1>1, <1>3 DEF RunNext, conv, comp, flags, cont, codex, hist
  <2>2. /\ Moved(jobs, Tail(jobs), 1, {}) /\ Tail(jobs) \in Seq(Job)
        /\ \A i \in DOMAIN jobs : i <= 1 => ~Continues(jobs[i])
    BY <1>a, <1>3, MovedTail DEF RunNext, Continues
  <2>3. ProcessNext(status, active, compacting, loaded, Tail(jobs))
    BY <1>3 DEF RunNext
  <2>4. QED
    BY <1>a, <2>1, <2>2, <2>3, ProcessNextOrder
<1>4. ASSUME RunCompaction \/ ClearFailed PROVE Order'
  <2>1. PlainJobs
    BY <1>4, <1>a, PlainJobSteps DEF RunCompaction, ClearFailed, NextJob, Continues
  <2>2. \A q \in inbox' : q.k = "stop" => q \in inbox
    BY <1>4 DEF RunCompaction, ClearFailed, SendCompact, codex
  <2>3. QED
    BY <1>1, <1>2, <1>4, <2>1, <2>2 DEF RunCompaction, ClearFailed, conv, comp, flags, codex, hist
<1>5. ASSUME NEW m \in Mission, RunThreadReady(m) PROVE Order'
  <2>1. /\ Plain /\ UNCHANGED <<status, active, turn, stopping>> /\ stage[m] = "threadOk"
        /\ jobs # <<>> /\ Continues(Head(jobs)) /\ Head(jobs).m = m
    BY <1>1, <1>5 DEF RunThreadReady, comp, flags, cont, Continues
  <2>2. Tail(jobs) \in Seq(Job) /\ NoContinuation(Tail(jobs)) /\ Moved(jobs, Tail(jobs), 1, {})
    BY <1>a, <2>1, HeadLock, MovedTail
  <2>3. CASE "web" \in env
    <3>1. /\ stage' = [stage EXCEPT ![m] = "dir"] /\ jobs' = Tail(jobs)
          /\ \A q \in inbox' : q.k = "stop" => q \in inbox
      BY <1>5, <2>3 DEF RunThreadReady
    <3>2. QED
      BY <2>1, <2>2, <2>3, <3>1, StageOrder DEF Stage
  <2>4. CASE "web" \notin env
    <3>1. SendTurn(m, Tail(jobs))
      BY <1>5, <2>4 DEF RunThreadReady
    <3>2. QED
      BY <2>1, <2>2, <3>1, SendOrder
  <2>5. QED
    BY <2>3, <2>4
<1>6. ASSUME NEW m \in Mission, RunRecoveryCompact(m) \/ RunRecoveryAwait(m) PROVE FALSE
  BY <1>a, <1>6 DEF NoRecovery, RunRecoveryCompact, RunRecoveryAwait
<1>7. QED
  BY <1>3, <1>4, <1>5, <1>6, TakenOrder, FailedOrder, StoppedOrder DEF Microtask

-----------------------------------------------------------------------------
\* Lines that are read

\* The reply to turn/start.
LEMMA StartReplyOrder ==
  ASSUME Known, TypeOK', HandleReply, StartLine(Head(chan))
  PROVE  Order'
<1> DEFINE l == Head(chan)
           m == l.q.m
           e == StartJob(m, l.t, l.r)
<1>a. /\ TypeOK /\ Orderly /\ DispatchLock /\ SlotHeld /\ Tokens /\ Awaited /\ Working /\ Starting
      /\ Watched /\ Stops /\ NoRecovery /\ Sequence /\ Fresh
  BY DEF Known, Order
<1>b. /\ Moved(chan, chan', 1, {}) /\ chan[1] = l /\ 1 \in DOMAIN chan /\ l \in Message
      /\ \A i \in DOMAIN chan : i <= 1 => i = 1
  BY <1>a, MovedRead DEF HandleReply
<1>c. l.q \in Request /\ l.q.k = "turn" /\ m \in Mission /\ jobs = <<>>
  BY <1>a, <1>b, RequestMission DEF Message, StartLine, HandleReply, Reading, Orderly, Macrotask
<1>d. /\ stage[m] = "turn" /\ l.q.n = sends[m]
      /\ l.r \in {"ok", "error"} /\ (l.r = "ok" => l.t # NoTurn /\ owner[l.t] = m)
      /\ \A i \in DOMAIN chan : StartLine(chan[i]) => i = 1
  BY <1>a, <1>b DEF Tokens, StartReplies
<1>1. /\ stage' = [stage EXCEPT ![m] = "settled"] /\ jobs' = Append(jobs, e)
      /\ UNCHANGED <<status, active, turn, inbox, owner, turns, live, env, rec, recovery, stopping, buffer>>
  BY <1>c, <1>d DEF HandleReply, StartLine, conv, comp, flags, hist
<1>e. \A n \in Mission : stage[n] # "idle" => n = m
  BY <1>a, <1>c, <1>d DEF DispatchLock, Locked
<1>2. stage'[m] = "settled" /\ \A n \in Mission : n # m => stage'[n] = stage[n]
  BY <1>a, <1>c, <1>1 DEF TypeOK, DispTypes
<1>3. 1 \in DOMAIN jobs' /\ jobs'[1] = e /\ Moved(jobs, jobs', 0, {e})
  <2>1. jobs \in Seq(Job) /\ Len(jobs) = 0
    BY <1>a, <1>c DEF TypeOK, DispTypes
  <2>2. 1 \in DOMAIN jobs' /\ jobs'[1] = e
    BY <1>1, <2>1
  <2>3. Moved(jobs, jobs', 0, {e})
    BY <1>1, <2>1, MovedAppend
  <2>4. QED
    BY <2>2, <2>3
<1>4. \A i \in DOMAIN jobs' : jobs'[i] = e
  BY <1>3, <1>c DEF Moved
<1>5. NoRecovery'
  <2>1. \A i \in DOMAIN chan' : chan'[i].k # "ctx"
    BY <1>a, <1>b DEF NoRecovery, Moved
  <2>2. QED
    BY <1>a, <1>1, <1>4, <2>1 DEF NoRecovery, StartJob
<1>6. Awaited'
  <2>1. ASSUME NEW n, n = m PROVE Due(n)'
    BY <1>3, <2>1 DEF Due, Continues, StartJob
  <2>2. QED
    BY <1>e, <1>2, <2>1 DEF Awaited
<1>7. Working'
  BY <1>a, <1>1 DEF Working
<1>8. Starting'
  <2>1. status'[m] = "starting"
    BY <1>a, <1>c, <1>d, <1>1 DEF Starting
  <2>2. QED
    BY <1>e, <1>2, <1>4, <2>1 DEF Starting, Continues, StartJob
<1>9. \A k \in Nat : k <= Len(chan) \/ k > Len(chan)
  BY <1>a DEF TypeOK, CodexTypes
<1>10. /\ \A i \in DOMAIN chan' : i + 1 \in DOMAIN chan
       /\ \A i \in DOMAIN chan : ~(i > Len(chan))
  BY <1>b, <1>a DEF Moved, TypeOK, CodexTypes
<1>11. live' \subseteq live /\ turns' >= turns
  BY <1>1, <1>a, BoundAssumption DEF TypeOK, CodexTypes
<1>12. Sequence'
  BY <1>a, <1>b, <1>1, <1>10, <1>11, SequenceKept
<1>13. Fresh'
  BY <1>a, <1>b, <1>1, <1>11, FreshKept
<1>14. Watched'
  <2> SUFFICES ASSUME NEW t \in Turn, Now(t)' PROVE Watch(t)'
    BY DEF Watched
  <2>1. \A k : owner[k.t] \in Mission /\ Late(k) => Late(k)'
    BY <1>1 DEF Late, LateEnd
  <2>2. Now(t)
    BY <1>a, <1>b, <1>1, <1>11, <2>1, NowKept
  <2>3. Watch(t) /\ owner[t] = m
    BY <1>a, <1>c, <1>d, <2>2 DEF Watched, Watch, SlotHeld
  <2>4. Replied(t)
    BY <1>d, <2>3 DEF Watch
  <2>5. l.t = t /\ l.r = "ok"
    BY <1>b, <1>d, <2>4 DEF Replied
  <2>6. Taken(t)'
    BY <1>2, <1>3, <2>5 DEF Taken, Opened, StartJob
  <2>7. QED
    BY <1>1, <1>2, <1>4, <2>3, <2>6 DEF Watch, StartJob
<1>15. Stops'
  <2>1. \A n \in Mission : stopping[n] => turn'[n] = turn[n] /\ stage'[n] = "idle" /\ status'[n] \in Stopped
    BY <1>a, <1>d, <1>1, <1>2 DEF Stops, Stopping
  <2>2. \A j \in {e} : j.k # "stop"
    BY DEF StartJob
  <2>3. \A q \in inbox' : q.k = "stop" => q \in inbox
    BY <1>1
  <2>4. QED
    BY <1>a, <1>b, <1>1, <1>3, <1>11, <2>1, <2>2, <2>3, StopsKept
<1>16. QED
  BY <1>5, <1>6, <1>7, <1>8, <1>12, <1>13, <1>14, <1>15 DEF Order

\* The reply to a stop: from now on nothing of its mission is read but a late end.
LEMMA StopReplyOrder ==
  ASSUME Known, TypeOK', HandleReply, StopLine(Head(chan))
  PROVE  Order'
<1> DEFINE l == Head(chan)
           m == l.q.m
<1>a. /\ TypeOK /\ Orderly /\ DispatchLock /\ SlotHeld /\ Tokens /\ Awaited /\ Working /\ Starting
      /\ Watched /\ Stops /\ NoRecovery /\ Sequence /\ Fresh
  BY DEF Known, Order
<1>b. /\ Moved(chan, chan', 1, {}) /\ chan[1] = l /\ 1 \in DOMAIN chan /\ l \in Message
      /\ \A i \in DOMAIN chan : i <= 1 => i = 1
  BY <1>a, MovedRead DEF HandleReply
<1>c. l.q \in Request /\ l.q.k = "stop" /\ m \in Mission /\ jobs = <<>> /\ Reading("reply")
  BY <1>a, <1>b, RequestMission DEF Message, StopLine, HandleReply, Reading, Orderly, Macrotask
<1>d. /\ stopping[m]
      /\ \A q \in inbox : q.k = "stop" => q.m # m
      /\ \A t \in live : owner[t] # m
      /\ \A j \in DOMAIN chan : TurnLine(chan[j]) /\ owner[chan[j].t] = m /\ 1 < j => LateEnd(chan[j])
      /\ \A i \in DOMAIN chan : StopLine(chan[i]) /\ chan[i].q.m = m => i = 1
  BY <1>a, <1>b DEF Stops, StopReplies
<1>1. /\ UNCHANGED <<status, active, stage, turn, inbox, owner, turns, live, env, rec, recovery, buffer>>
      /\ \/ jobs' = Append(jobs, StopJob(m, "ok")) /\ stopping' = stopping
         \/ jobs' = jobs /\ stopping' = [stopping EXCEPT ![m] = FALSE]
  BY <1>c, <1>d DEF HandleReply, conv, comp, flags, hist
<1>2. Plain
  <2>1. turns' >= turns /\ live' \subseteq live
    BY <1>a, <1>1, BoundAssumption DEF TypeOK, CodexTypes
  <2>2. PlainLines
    BY <1>a, <1>c, PlainLineSteps DEF StartLine
  <2>3. QED
    BY <1>a, <1>1, <2>1, <2>2 DEF Plain, NoRecovery
<1>3. LateKept /\ Unstarted
  BY <1>1 DEF LateKept, Late, LateEnd, Unstarted
<1>4. NoRecovery'
  <2>1. \A i \in DOMAIN chan' : chan'[i].k # "ctx"
    BY <1>a, <1>b DEF NoRecovery, Moved
  <2>2. \A i \in DOMAIN jobs' : jobs'[i].k # "rec"
    BY <1>c, <1>1 DEF StopJob
  <2>3. QED
    BY <1>a, <1>1, <2>1, <2>2 DEF NoRecovery
<1>5. /\ stopping' \in [Mission -> BOOLEAN]
      /\ \A n \in Mission : n # m => stopping'[n] = stopping[n]
  BY <1>a, <1>1, <1>c DEF TypeOK, ContTypes
<1>6. /\ \A i \in DOMAIN chan' : /\ i \in Nat /\ i + 1 \in DOMAIN chan /\ chan'[i] = chan[i + 1] /\ 1 < i + 1
                                 /\ StopLine(chan'[i]) => chan'[i].q.m # m /\ chan'[i].q.m \in Mission
  <2> SUFFICES ASSUME NEW i \in DOMAIN chan'
               PROVE  /\ i \in Nat /\ i + 1 \in DOMAIN chan /\ chan'[i] = chan[i + 1] /\ 1 < i + 1
                      /\ StopLine(chan'[i]) => chan'[i].q.m # m /\ chan'[i].q.m \in Mission
    OBVIOUS
  <2>1. i \in Nat \ {0}
    BY DEF TypeOK, CodexTypes
  <2>2. i + 1 \in DOMAIN chan /\ chan'[i] = chan[i + 1]
    BY <1>b DEF Moved
  <2>3. i + 1 # 1 /\ 1 < i + 1
    BY <2>1
  <2>4. QED
    BY <1>a, <1>d, <2>1, <2>2, <2>3, LineTypes
<1>7. \A k : /\ TurnLine(k)' <=> TurnLine(k)
             /\ LateEnd(k)' <=> LateEnd(k)
             /\ StopLine(k)' <=> StopLine(k)
  BY <1>1 DEF TurnLine, LateEnd, StopLine, StartLine
<1>8. StopReplies'
  <2>1. ASSUME NEW i \in DOMAIN chan', StopLine(chan'[i])
        PROVE  /\ stopping'[chan'[i].q.m]
               /\ \A q \in inbox' : q.k = "stop" => q.m # chan'[i].q.m
               /\ \A t \in live' : owner'[t] # chan'[i].q.m
               /\ \A j \in DOMAIN chan' :
                    (TurnLine(chan'[j]) /\ owner'[chan'[j].t] = chan'[i].q.m /\ i < j) => LateEnd(chan'[j])
    <3>1. /\ stopping[chan'[i].q.m]
          /\ \A q \in inbox : q.k = "stop" => q.m # chan'[i].q.m
          /\ \A t \in live : owner[t] # chan'[i].q.m
      BY <1>a, <1>6, <2>1 DEF Stops, StopReplies
    <3>2. ASSUME NEW j \in DOMAIN chan', TurnLine(chan'[j]), owner'[chan'[j].t] = chan'[i].q.m, i < j
          PROVE  LateEnd(chan'[j])
      <4>1. i + 1 < j + 1
        BY <1>6, <3>2
      <4>2. QED
        BY <1>a, <1>1, <1>6, <2>1, <3>2, <4>1 DEF Stops, StopReplies
    <3>3. QED
      BY <1>1, <1>5, <1>6, <2>1, <3>1, <3>2
  <2>2. ASSUME NEW i \in DOMAIN chan', NEW j \in DOMAIN chan', StopLine(chan'[i]), StopLine(chan'[j]),
               chan'[i].q.m = chan'[j].q.m
        PROVE  i = j
    <3>1. i + 1 = j + 1
      BY <1>a, <1>6, <2>2 DEF Stops, StopReplies
    <3>2. QED
      BY <3>1, <1>6
  <2>3. QED
    BY <2>1, <2>2, <1>7 DEF StopReplies, StopLine, LateEnd, TurnLine, StartLine
<1>9. StopRequests'
  <2>1. \A q \in inbox : q.k = "stop" => q.m \in Mission
    BY <1>a, RequestMission DEF TypeOK, CodexTypes
  <2>2. QED
    BY <1>a, <1>1, <1>d, <1>5, <2>1 DEF Stops, StopRequests
<1>10. Stopping'
  BY <1>a, <1>1, <1>d, <1>5 DEF Stops, Stopping
<1>11. CASE jobs' = Append(jobs, StopJob(m, "ok")) /\ stopping' = stopping
  <2> DEFINE e == StopJob(m, "ok")
  <2>a. jobs \in Seq(Job) /\ Len(jobs) = 0
    BY <1>a, <1>c DEF TypeOK, DispTypes
  <2>b. DOMAIN jobs' = 1..1 /\ jobs'[1] = e
    BY <1>11, <2>a
  <2>1. Moved(jobs, jobs', 0, {e})
    BY <1>11, <2>a, MovedAppend
  <2>2. \A i \in DOMAIN jobs' : i = 1 /\ jobs'[i] = e /\ ~Continues(jobs'[i]) /\ e.m = m
    BY <2>b DEF StopJob, Continues
  <2>3. \A j \in {e} : ~Continues(j) /\ j.k # "end"
    BY DEF StopJob, Continues
  <2>4. Awaited'
    <3>1. \A n \in Mission : stage[n] \notin {"threadOk", "settled", "ending"}
      BY <1>a, <1>c DEF Awaited, Due
    <3>2. QED
      BY <1>1, <3>1 DEF Awaited
  <2>5. Working'
    BY <1>a, <1>1 DEF Working
  <2>6. Starting'
    BY <1>a, <1>1, <2>1, <2>3, StartingKept
  <2>7. Sequence' /\ Fresh' /\ \A t \in Turn : Now(t)' => Now(t)
    BY <1>2, <1>3, PlainParts
  <2>8. Watched'
    <3> SUFFICES ASSUME NEW t \in Turn, Now(t)' PROVE Watch(t)'
      BY DEF Watched
    <3>1. Watch(t)
      BY <1>a, <2>7 DEF Watched
    <3>2. \A i \in DOMAIN chan : i <= 1 => ~(StartLine(chan[i]) /\ chan[i].r = "ok")
      BY <1>b, <1>c DEF StartLine
    <3>3. \A i \in DOMAIN jobs : i <= 0 => ~Opened(jobs[i])
      BY <1>c
    <3>4. QED
      BY <1>1, <1>b, <2>1, <2>3, <3>1, <3>2, <3>3, WatchKept
  <2>9. StopJobs'
    BY <1>1, <1>d, <1>6, <1>7, <1>11, <2>2 DEF StopJobs, StopLine
  <2>10. QED
    BY <1>4, <1>8, <1>9, <1>10, <2>4, <2>5, <2>6, <2>7, <2>8, <2>9 DEF Order, Stops
<1>12. CASE jobs' = jobs /\ stopping' = [stopping EXCEPT ![m] = FALSE]
  <2>1. PlainJobs
    BY <1>a, <1>12, PlainJobSteps
  <2>2. Awaited' /\ Working' /\ Starting' /\ Watched' /\ Sequence' /\ Fresh'
    BY <1>1, <1>2, <1>3, <2>1, PlainOrder
  <2>3. StopJobs'
    BY <1>c, <1>12 DEF StopJobs
  <2>4. QED
    BY <1>4, <1>8, <1>9, <1>10, <2>2, <2>3 DEF Order, Stops
<1>13. QED
  BY <1>1, <1>11, <1>12

\* A line is read that does not open a turn.
LEMMA ReadPlain ==
  ASSUME Known, TypeOK', NEW kind \in {"reply", "started", "completed", "ctx", "compacted", "ask"},
         Reading(kind), ~(StartLine(Head(chan)) /\ Head(chan).r = "ok"),
         UNCHANGED <<owner, env, rec, live, turns>>, recovery' = NoMission,
         \A t \in Turn : buffer'[t] \in {"none", buffer[t]} \/ (owner[t] = NoMission /\ t <= turns)
  PROVE  Plain
<1>1. TypeOK
  BY DEF Known
<1>2. PlainLines
  BY <1>1, PlainLineSteps
<1>3. turns' >= turns
  BY <1>1, BoundAssumption DEF TypeOK, CodexTypes
<1>4. QED
  BY <1>2, <1>3 DEF Plain

\* A reply, whatever it answers.
LEMMA ReplyOrder ==
  ASSUME Known, TypeOK', HandleReply
  PROVE  Order'
<1> DEFINE l == Head(chan)
<1>1. CASE StartLine(l)
  BY <1>1, StartReplyOrder
<1>2. CASE StopLine(l)
  BY <1>2, StopReplyOrder
<1>3. CASE ~StartLine(l) /\ ~StopLine(l)
  <2>1. TypeOK /\ NoRecovery /\ Working /\ Stops
    BY DEF Known, Order
  <2>2. Reading("reply") /\ l \in Message /\ l.k = "reply" /\ l.q \in Request
    BY <2>1, MovedRead DEF HandleReply, Message, Reading
  <2>3. /\ UNCHANGED <<status, active, stage, turn, inbox, owner, turns, live, env, rec, recovery, buffer, stopping>>
        /\ jobs' = jobs \/ jobs' = Append(jobs, ManJob(l.r))
    BY <1>3, <2>1, <2>2, RequestMission
       DEF HandleReply, conv, comp, flags, hist, NoRecovery, StartLine, StopLine
  <2>4. Plain
    BY <1>3, <2>1, <2>2, <2>3, ReadPlain DEF NoRecovery
  <2>5. PlainJobs
    BY <2>1, <2>3, PlainJobSteps DEF ManJob
  <2>6. Unstarted /\ LateKept
    BY <2>3 DEF Unstarted, LateKept, Late, LateEnd
  <2>7. StopsMeant
    BY <2>1, <2>3 DEF StopsMeant, Stops, Stopping
  <2>8. QED
    BY <2>3, <2>4, <2>5, <2>6, <2>7, PlainOrder
<1>4. QED
  BY <1>1, <1>2, <1>3

\* turn/started: it gives its turn to the mission that waits for the reply, if to any.
LEMMA StartedOrder ==
  ASSUME Known, TypeOK', HandleTurnStarted
  PROVE  Order'
<1> DEFINE l == Head(chan)
<1>a. /\ TypeOK /\ Orderly /\ Tokens /\ SlotHeld /\ NoRecovery /\ Stops
  BY DEF Known, Order
<1>b. /\ Reading("started") /\ chan[1] = l /\ 1 \in DOMAIN chan /\ l \in Message /\ l.k = "started"
      /\ jobs = <<>>
  BY <1>a, MovedRead DEF HandleTurnStarted, Orderly, Macrotask, Reading
<1>c. UNCHANGED <<status, active, stage, inbox, jobs, owner, turns, live, env, rec, recovery, buffer, stopping>>
  BY DEF HandleTurnStarted, disp, comp, flags, cont, hist
<1>1. Plain
  BY <1>a, <1>b, <1>c, ReadPlain DEF StartLine, NoRecovery
<1>2. PlainJobs /\ Unstarted
  BY <1>a, <1>c, PlainJobSteps DEF Unstarted
<1>3. CASE turn' = turn
  <2>1. LateKept
    BY <1>3, <1>c DEF LateKept, Late, LateEnd
  <2>2. StopsMeant
    BY <1>a, <1>c, <1>3 DEF StopsMeant, Stops, Stopping
  <2>3. QED
    BY <1>c, <1>1, <1>2, <1>3, <2>1, <2>2, PlainOrder
<1>4. CASE Unattributed(l.t) /\ ActiveOnThread /\ turn' = [turn EXCEPT ![active] = l.t]
  <2>1. l.t # NoTurn /\ owner[l.t] # NoMission /\ l.t \in Turn /\ owner[l.t] \in Mission
    BY <1>a, <1>b DEF Tokens, Numbered, Message, TypeOK, HistTypes
  <2>2. Coming(l.t)
    BY <1>a, <1>b, <1>4, <2>1 DEF Tokens, Announced, Unattributed
  <2>3. stage[owner[l.t]] # "idle"
    BY <1>a, <2>2 DEF Coming, Tokens, StartReplies, StartJobs, Opened
  <2>4. active = owner[l.t]
    BY <1>a, <1>4, <2>1, <2>3 DEF SlotHeld, ActiveOnThread
  <2>5. stage[active] \notin {"idle", "ending"} /\ status[active] = "starting"
    BY <1>b, <2>1, <2>3, <2>4, Waits DEF Macrotask
  <2>6. \A m \in Mission : m # active => turn'[m] = turn[m]
    BY <1>a, <1>4 DEF TypeOK, ConvTypes
  <2>7. LateKept
    BY <1>c, <2>5, <2>6 DEF LateKept, Late, LateEnd
  <2>8. StopsMeant
    BY <1>a, <1>c, <2>5, <2>6 DEF StopsMeant, Stops, Stopping
  <2>9. QED
    BY <1>c, <1>1, <1>2, <2>5, <2>7, <2>8, PlainOrder
<1>5. QED
  BY <1>3, <1>4 DEF HandleTurnStarted

\* A question is about the turn of the active mission.
LEMMA AskOrder ==
  ASSUME Known, TypeOK', HandleServerRequest
  PROVE  Order'
<1> DEFINE l == Head(chan)
<1>a. /\ TypeOK /\ Orderly /\ Tokens /\ Fresh /\ NoRecovery /\ Stops /\ Working
  BY DEF Known, Order
<1>b. /\ Reading("ask") /\ chan[1] = l /\ 1 \in DOMAIN chan /\ l \in Message /\ l.k = "ask"
  BY <1>a, MovedRead DEF HandleServerRequest
<1>c. UNCHANGED <<active, stage, inbox, jobs, turn, owner, turns, live, env, rec, recovery, buffer, stopping>>
  BY DEF HandleServerRequest, conv, comp, flags, cont, hist
<1>d. TurnLine(l) /\ ~Late(l)
  BY <1>a, <1>b DEF TurnLine, Late, LateEnd, Fresh
<1>e. l.t \in Turn /\ active = owner[l.t] /\ active \in Mission /\ stage[active] = "idle"
  BY <1>b, <1>d, ReadNow
<1>1. /\ \A m \in Mission : m # active => status'[m] = status[m]
      /\ status'[active] \in {"awaiting_approval", status[active]} /\ status[active] \in ActiveStatus
  <2>1. \A m \in Mission : FoundByTurn(m, l.t) => m = active
    BY <1>a, <1>e DEF FoundByTurn, Tokens, Numbered, NoTurn, Turn
  <2>2. QED
    BY <1>a, <1>e, <2>1 DEF HandleServerRequest, Working
<1>2. Plain
  BY <1>a, <1>b, <1>c, ReadPlain DEF StartLine, NoRecovery
<1>3. PlainJobs
  BY <1>a, <1>c, PlainJobSteps
<1>4. Unstarted
  BY <1>e, <1>1 DEF Unstarted
<1>5. LateKept
  BY <1>c, <1>1 DEF LateKept, Late, LateEnd, ActiveStatus
<1>6. StopsMeant
  BY <1>a, <1>c, <1>e, <1>1 DEF StopsMeant, Stops, Stopping, Stopped
<1>7. \A m \in Mission : status'[m] \in ActiveStatus <=> status[m] \in ActiveStatus
  BY <1>1 DEF ActiveStatus
<1>8. QED
  BY <1>c, <1>2, <1>3, <1>4, <1>5, <1>6, <1>7, PlainOrder

\* The end of a compaction: no mission waits for it.
LEMMA CompactionOrder ==
  ASSUME Known, TypeOK', NEW kind \in {"completed", "compacted"}, Reading(kind), CompactionEnds,
         UNCHANGED <<inbox, turn, owner, turns, live, env, rec, buffer, stopping>>
  PROVE  Order'
<1> DEFINE st == [m \in Mission |-> IF m = recovery THEN "queued" ELSE status[m]]
<1>1. TypeOK /\ NoRecovery
  BY DEF Known, Order
<1>2. status \in [Mission -> Status] /\ jobs \in Seq(Job) /\ \A i \in DOMAIN jobs : ~(i <= 0)
  BY <1>1 DEF TypeOK, DispTypes
<1>3. st = status
  BY <1>1, <1>2, MissionAssumption DEF NoRecovery, NoMission
<1>4. ProcessNext(status, active, FALSE, loaded, jobs) /\ recovery' = NoMission
  BY <1>3 DEF CompactionEnds
<1>5. Plain
  BY <1>4, ReadPlain DEF StartLine, Reading
<1>6. Moved(jobs, jobs, 0, {})
  BY <1>2, MovedSame
<1>7. QED
  BY <1>2, <1>4, <1>5, <1>6, ProcessNextOrder

\* A mission's turn ends.
LEMMA EndOrder ==
  ASSUME Known, TypeOK', Reading("completed"), NEW m \in Mission, FoundByTurn(m, Head(chan).t),
         status' = [status EXCEPT ![m] = OutcomeStatus(Head(chan).r)], FinishActive(m, jobs),
         UNCHANGED <<stage, inbox, turn, owner, turns, live, env, rec, recovery, buffer, stopping>>
  PROVE  Order'
<1> DEFINE l == Head(chan)
           t == l.t
<1>a. /\ TypeOK /\ Orderly /\ DispatchLock /\ Tokens /\ Fresh /\ NoRecovery /\ Stops /\ Working
      /\ Awaited /\ Starting /\ Sequence
  BY DEF Known, Order
<1>b. /\ chan[1] = l /\ 1 \in DOMAIN chan /\ l \in Message /\ l.k = "completed"
      /\ Moved(chan, chan', 1, {}) /\ jobs = <<>>
  BY <1>a, MovedRead DEF Reading, Orderly, Macrotask
<1>c. t # NoTurn /\ t \in Turn /\ turn[m] = t /\ owner[t] = m /\ TurnLine(l)
  BY <1>a, <1>b, MissionAssumption DEF FoundByTurn, Fresh, Message, Tokens, Numbered, TurnLine, NoMission
<1>d. jobs' = Append(jobs, NextJob) /\ active' = IF active = m THEN NoMission ELSE active
  BY DEF FinishActive
<1>e. status \in [Mission -> Status] /\ \A n \in Mission : n # NoMission
  BY <1>a, MissionAssumption DEF TypeOK, DispTypes, NoMission
<1>f. /\ status'[m] = OutcomeStatus(l.r) /\ \A n \in Mission : n # m => status'[n] = status[n]
      /\ status'[m] \in {"completed", "failed", "interrupted"}
  BY <1>e DEF OutcomeStatus
<1>1. Plain
  BY <1>a, <1>b, ReadPlain DEF StartLine, NoRecovery
<1>2. PlainJobs
  BY <1>a, <1>d, PlainJobSteps DEF NextJob
<1>3. StopsMeant
  BY <1>a, <1>f DEF StopsMeant, Stops, Stopping, Stopped
<1>4. CASE Late(l)
  <2>1. status' = status /\ status[m] = "interrupted"
    BY <1>4, <1>c, <1>e, <1>f DEF Late, LateEnd, OutcomeStatus
  <2>2. active' = active
    BY <1>a, <1>d, <2>1 DEF Working, ActiveStatus
  <2>3. LateKept /\ Unstarted
    BY <2>1 DEF LateKept, Late, LateEnd, Unstarted
  <2>4. QED
    BY <1>1, <1>2, <1>3, <2>1, <2>2, <2>3, PlainOrder
<1>5. CASE ~Late(l)
  <2>1. active = m /\ stage[m] = "idle" /\ Now(t)
    BY <1>5, <1>b, <1>c, ReadNow
  <2>2. status[m] \in ActiveStatus
    BY <1>a, <2>1 DEF Working
  <2>3. LateKept
    BY <1>f, <2>2 DEF LateKept, Late, LateEnd, ActiveStatus
  <2>4. \A u \in Turn : ~Now(u)'
    <3> SUFFICES ASSUME NEW u \in Turn, Now(u)' PROVE FALSE
      OBVIOUS
    <3>1. u = t
      BY <1>1, <1>c, <2>1, <2>3, PlainParts, OneNow
    <3>2. t \notin live'
      BY <1>a, <1>b DEF Sequence
    <3>3. PICK i \in DOMAIN chan' : TurnLine(chan'[i]) /\ chan'[i].t = t
      BY <3>1, <3>2 DEF Now, TurnLine, StartLine
    <3>4. i + 1 \in DOMAIN chan /\ chan'[i] = chan[i + 1] /\ i \in Nat \ {0}
      BY <1>a, <1>b, <3>3 DEF Moved, TypeOK, CodexTypes
    <3>5. i + 1 <= 1
      BY <1>a, <1>b, <3>3, <3>4 DEF Sequence
    <3>6. QED
      BY <3>4, <3>5
  <2>5. Sequence' /\ Fresh'
    BY <1>1, <2>3, PlainParts
  <2>6. Watched'
    BY <2>4 DEF Watched
  <2>7. Moved(jobs, jobs', 0, {NextJob}) /\ jobs \in Seq(Job)
    BY <1>a, <1>d, MovedAppend DEF TypeOK, DispTypes
  <2>8. \A j \in {NextJob} : j.k \notin {"rec", "stop"} /\ ~Continues(j)
    BY DEF NextJob, Continues
  <2>9. Awaited'
    <3>1. \A n \in Mission : stage[n] \notin {"threadOk", "settled", "ending"}
      BY <1>a, <1>b DEF Awaited, Due
    <3>2. QED
      BY <3>1 DEF Awaited
  <2>10. Starting'
    BY <1>a, <1>f, <2>1, <2>7, <2>8, StartingKept DEF Plain, Known
  <2>11. Working'
    BY <1>a, <1>d, <1>e, <1>f, <2>1 DEF Working, ActiveStatus
  <2>12. NoRecovery' /\ Stops'
    BY <1>1, <1>3, <2>7, <2>8, PlainStops
  <2>13. QED
    BY <2>5, <2>6, <2>9, <2>10, <2>11, <2>12 DEF Order
<1>6. QED
  BY <1>4, <1>5

\* turn/completed, of a mission's turn or of a compaction's own.
LEMMA CompletedOrder ==
  ASSUME Known, TypeOK', HandleTurnCompleted
  PROVE  Order'
<1> DEFINE l == Head(chan)
<1>a. /\ TypeOK /\ Orderly /\ Tokens /\ Fresh /\ NoRecovery /\ Stops /\ Reading("completed")
  BY DEF Known, Order, HandleTurnCompleted
<1>b. /\ chan[1] = l /\ 1 \in DOMAIN chan /\ l \in Message /\ l.k = "completed"
  BY <1>a, MovedRead
<1>c. UNCHANGED <<inbox, turn, owner, turns, live, env, rec, stopping>>
  BY DEF HandleTurnCompleted, conv, cont, hist
<1>1. ASSUME NEW m \in Mission, FoundByTurn(m, l.t), status' = [status EXCEPT ![m] = OutcomeStatus(l.r)],
             FinishActive(m, jobs), UNCHANGED <<dispatching, stage, comp, buffer>>
      PROVE  Order'
  BY <1>a, <1>c, <1>1, EndOrder DEF comp
<1>2. CASE Unattributed(l.t) /\ ActiveOnThread /\ buffer' = [buffer EXCEPT ![l.t] = l.r] /\ UNCHANGED <<disp, comp>>
  <2>1. l.t \in Turn /\ l.t <= turns
    BY <1>a, <1>b DEF Fresh, Message
  <2>2. owner[l.t] = NoMission
    <3> SUFFICES ASSUME owner[l.t] # NoMission PROVE FALSE
      OBVIOUS
    <3>1. TurnLine(l) /\ owner[l.t] \in Mission /\ turn[owner[l.t]] # l.t
      BY <1>a, <1>b, <1>2, <2>1 DEF TurnLine, Fresh, Unattributed, TypeOK, HistTypes
    <3>2. ~Late(l)
      BY <3>1 DEF Late
    <3>3. QED
      BY <1>a, <3>1, <3>2, ReadNow
  <2>3. \A u \in Turn : buffer'[u] \in {"none", buffer[u]} \/ (owner[u] = NoMission /\ u <= turns)
    BY <1>a, <1>2, <2>1, <2>2 DEF TypeOK, FlagTypes
  <2>4. UNCHANGED <<status, active, stage, jobs, recovery>>
    BY <1>2 DEF disp, comp
  <2>5. Plain
    BY <1>a, <1>b, <1>c, <2>3, <2>4, ReadPlain DEF StartLine, NoRecovery
  <2>6. PlainJobs
    BY <1>a, <2>4, PlainJobSteps
  <2>7. Unstarted /\ LateKept
    BY <1>c, <2>4 DEF Unstarted, LateKept, Late, LateEnd
  <2>8. StopsMeant
    BY <1>a, <1>c, <2>4 DEF StopsMeant, Stops, Stopping
  <2>9. QED
    BY <1>c, <2>4, <2>5, <2>6, <2>7, <2>8, PlainOrder
<1>3. CASE CompactionEnds /\ UNCHANGED buffer
  BY <1>a, <1>c, <1>3, CompactionOrder
<1>4. CASE UNCHANGED <<disp, comp, buffer>>
  <2>1. UNCHANGED <<status, active, stage, jobs, recovery, buffer>>
    BY <1>4 DEF disp, comp
  <2>2. Plain
    BY <1>a, <1>b, <1>c, <2>1, ReadPlain DEF StartLine, NoRecovery
  <2>3. PlainJobs
    BY <1>a, <2>1, PlainJobSteps
  <2>4. Unstarted /\ LateKept
    BY <1>c, <2>1 DEF Unstarted, LateKept, Late, LateEnd
  <2>5. StopsMeant
    BY <1>a, <1>c, <2>1 DEF StopsMeant, Stops, Stopping
  <2>6. QED
    BY <1>c, <2>1, <2>2, <2>3, <2>4, <2>5, PlainOrder
<1>5. QED
  BY <1>1, <1>2, <1>3, <1>4 DEF HandleTurnCompleted

\* The order of things over a line that is read.
LEMMA ReadOrder ==
  ASSUME Known, TypeOK', Read
  PROVE  Order'
<1>1. CASE HandleReply
  BY <1>1, ReplyOrder
<1>2. CASE HandleTurnStarted
  BY <1>2, StartedOrder
<1>3. CASE HandleTurnCompleted
  BY <1>3, CompletedOrder
<1>4. CASE HandleCompacted
  BY <1>4, CompactionOrder DEF HandleCompacted, conv, flags, cont, hist
<1>5. CASE HandleContextError
  <2>1. TypeOK /\ NoRecovery
    BY DEF Known, Order
  <2>2. 1 \in DOMAIN chan /\ chan[1].k = "ctx"
    BY <1>5, <2>1, MovedRead DEF HandleContextError
  <2>3. QED
    BY <2>1, <2>2 DEF NoRecovery
<1>6. CASE HandleServerRequest
  BY <1>6, AskOrder
<1>7. QED
  BY <1>1, <1>2, <1>3, <1>4, <1>5, <1>6 DEF Read

-----------------------------------------------------------------------------
\* The app-server

\* The turns it runs were opened for missions.
LEMMA LiveTurns ==
  ASSUME Known, NEW t \in live
  PROVE  t \in Turn /\ Now(t) /\ owner[t] \in Mission /\ t <= turns /\ t # NoTurn
<1>1. TypeOK /\ Watched /\ Tokens
  BY DEF Known, Order
<1>2. t \in Turn /\ Now(t)
  BY <1>1 DEF TypeOK, CodexTypes, Now
<1>3. owner[t] # NoMission
  BY <1>1, <1>2 DEF Watched, Watch
<1>4. QED
  BY <1>1, <1>2, <1>3 DEF Tokens, Numbered, TypeOK, HistTypes, Turn, NoTurn

\* A line is written that opens nothing and answers no stop.
LEMMA WriteOrder ==
  ASSUME Known, TypeOK', NEW a \in Message, Write(<<a>>), PlainLine(a),
         UNCHANGED <<disp, conv, comp, flags, cont, owner>>,
         live' \subseteq live, turns' >= turns, inbox' \subseteq inbox
  PROVE  Order'
<1>1. TypeOK /\ NoRecovery /\ Stops
  BY DEF Known, Order
<1>2. /\ UNCHANGED <<status, active, stage, turn, owner, env, rec, recovery, buffer, stopping, jobs>>
  BY DEF disp, conv, comp, flags, cont
<1>3. Plain
  BY <1>1, <1>2, PlainLineSteps DEF Plain, NoRecovery
<1>4. PlainJobs
  BY <1>1, <1>2, PlainJobSteps
<1>5. Unstarted /\ LateKept
  BY <1>2 DEF Unstarted, LateKept, Late, LateEnd
<1>6. StopsMeant
  BY <1>1, <1>2 DEF StopsMeant, Stops, Stopping
<1>7. QED
  BY <1>2, <1>3, <1>4, <1>5, <1>6, PlainOrder

\* The steps of the app-server that open and end nothing.
LEMMA PlainServerOrder ==
  ASSUME Known, TypeOK',
         \/ EndTurn \/ FinishCompaction
         \/ \E q \in inbox : RejectTurn(q) \/ ServeCompact(q)
         \/ \E t \in live : OverflowTurn(t) \/ CompactAutomatically(t) \/ AskApproval(t)
  PROVE  Order'
<1>a. /\ TypeOK /\ Orderly /\ Tokens /\ Fresh
  BY DEF Known, Order
<1>b. turns \in Nat /\ live \subseteq Turn /\ inbox \subseteq Request /\ turns <= MaxTurns /\ turns >= turns
  BY <1>a, BoundAssumption DEF TypeOK, CodexTypes
<1>c. /\ \A k \in {"started", "completed", "ctx", "compacted", "ask"}, t \in Turn \cup {NoTurn}, r \in Result :
           Note(k, t, r) \in Message
      /\ \A q \in Request, t \in Turn \cup {NoTurn}, r \in Result : Reply(q, t, r) \in Message
  BY DEF Note, Reply, Message
<1>1. ASSUME NEW t \in live, NEW r \in {"completed", "failed"}, FinishTurn(t, r) PROVE Order'
  <2> DEFINE a == Note("completed", t, r)
  <2>1. a \in Message
    BY <1>b, <1>c DEF Result
  <2>2. t \in Turn /\ t <= turns /\ t # NoTurn
    BY LiveTurns
  <2>3. PlainLine(a)
    BY <1>1, <2>2 DEF Note, PlainLine, FinishTurn, StartLine, StopLine
  <2>4. QED
    BY <1>1, <1>b, <2>1, <2>3, WriteOrder DEF FinishTurn, hist
<1>2. ASSUME FinishCompaction PROVE Order'
  <2>1. CASE Write(<<Note("compacted", NoTurn, "ok")>>) /\ turns' = turns
    <3> DEFINE a == Note("compacted", NoTurn, "ok")
    <3>1. a \in Message
      BY <1>c DEF Result
    <3>2. PlainLine(a)
      BY DEF Note, PlainLine, StartLine, StopLine, TurnLine
    <3>3. QED
      BY <1>2, <1>b, <2>1, <3>1, <3>2, WriteOrder DEF FinishCompaction, hist
  <2>2. CASE turns < MaxTurns /\ turns' = turns + 1 /\ Write(<<Note("completed", turns + 1, "completed")>>)
    <3> DEFINE a == Note("completed", turns + 1, "completed")
    <3>0. turns + 1 \in Turn /\ turns + 1 # NoTurn /\ ~(turns + 1 <= turns)
      BY <1>b, <2>2, BoundAssumption DEF Turn, NoTurn
    <3>1. a \in Message
      BY <1>c, <3>0 DEF Result
    <3>2. turns + 1 \notin live /\ owner[turns + 1] = NoMission
      BY <1>a, <3>0, LiveTurns DEF Tokens, Numbered
    <3>3. live' = live /\ turns' >= turns /\ turns + 1 <= turns'
      BY <1>2, <1>b, <2>2 DEF FinishCompaction
    <3>4. PlainLine(a)
      BY <3>0, <3>2, <3>3 DEF Note, PlainLine, StartLine, StopLine, TurnLine
    <3>5. QED
      BY <1>2, <1>b, <2>2, <3>1, <3>3, <3>4, WriteOrder DEF FinishCompaction, hist
  <2>3. QED
    BY <1>2, <2>1, <2>2 DEF FinishCompaction
<1>3. ASSUME NEW q \in inbox, RejectTurn(q) PROVE Order'
  <2> DEFINE a == Reply(q, NoTurn, "error")
  <2>1. a \in Message
    BY <1>b, <1>c DEF Result
  <2>2. PlainLine(a)
    BY <1>3 DEF Reply, PlainLine, StartLine, StopLine, TurnLine, RejectTurn
  <2>3. QED
    BY <1>3, <1>b, <2>1, <2>2, WriteOrder DEF RejectTurn
<1>4. ASSUME NEW q \in inbox, ServeCompact(q) PROVE Order'
  <2>1. PICK r \in {"ok", "error"} : Write(<<Reply(q, NoTurn, r)>>)
    BY <1>4 DEF ServeCompact
  <2> DEFINE a == Reply(q, NoTurn, r)
  <2>2. a \in Message
    BY <1>b, <1>c DEF Result
  <2>3. PlainLine(a)
    BY <1>4 DEF Reply, PlainLine, StartLine, StopLine, TurnLine, ServeCompact
  <2>4. QED
    BY <1>4, <1>b, <2>1, <2>2, <2>3, WriteOrder DEF ServeCompact
<1>5. ASSUME NEW t \in live, OverflowTurn(t) PROVE Order'
  BY <1>a, <1>5 DEF OverflowTurn, Orderly
<1>6. ASSUME NEW t \in live, CompactAutomatically(t) PROVE Order'
  <2> DEFINE a == Note("compacted", NoTurn, "ok")
  <2>1. a \in Message
    BY <1>c DEF Result
  <2>2. PlainLine(a)
    BY DEF Note, PlainLine, StartLine, StopLine, TurnLine
  <2>3. QED
    BY <1>6, <1>b, <2>1, <2>2, WriteOrder DEF CompactAutomatically
<1>7. ASSUME NEW t \in live, AskApproval(t) PROVE Order'
  <2> DEFINE a == Note("ask", t, "ok")
  <2>1. a \in Message
    BY <1>b, <1>c DEF Result
  <2>2. t # NoTurn /\ owner[t] # NoMission
    BY LiveTurns, MissionAssumption DEF NoMission
  <2>3. PlainLine(a)
    BY <2>2 DEF Note, PlainLine, StartLine, StopLine
  <2>4. QED
    BY <1>7, <1>b, <2>1, <2>3, WriteOrder DEF AskApproval, hist
<1>8. QED
  BY <1>1, <1>2, <1>3, <1>4, <1>5, <1>6, <1>7 DEF EndTurn

\* The lines that answer an interrupt: the end of the turn, if it ran, and the reply.
Answered(q, endline, reply) ==
  /\ Moved(chan, chan', 0, {endline, reply})
  /\ \A i \in DOMAIN chan' : i > Len(chan) /\ chan'[i] = endline => q.t \in live
  /\ \A i, j \in DOMAIN chan' :
       i > Len(chan) /\ j > Len(chan) /\ chan'[i] = endline /\ chan'[j] = endline => i = j
  /\ \A i, j \in DOMAIN chan' :
       i > Len(chan) /\ j > Len(chan) /\ chan'[i] = reply /\ chan'[j] = reply => i = j
  /\ \A i, j \in DOMAIN chan' :
       i > Len(chan) /\ chan'[i] = reply /\ chan'[j] = endline /\ i < j => "late_end" \in env

\* The lines that answer a stop.
LEMMA AnswerLines ==
  ASSUME TypeOK, TypeOK', NEW q \in inbox, ServeInterrupt(q)
  PROVE  \E r \in {"ok", "error"} :
           Answered(q, Note("completed", q.t, "interrupted"), Reply(q, q.t, r))
<1> DEFINE end == Note("completed", q.t, "interrupted")
           reply(r) == Reply(q, q.t, r)
<1>a. chan \in Seq(Message) /\ Len(chan) \in Nat /\ chan' \in Seq(Message)
  BY DEF TypeOK, CodexTypes
<1>b. \A r : end # reply(r)
  BY DEF Note, Reply
<1>c. q \in Request /\ q.t \in Turn \cup {NoTurn}
  BY RequestMission DEF TypeOK, CodexTypes, ServeInterrupt
<1>d. end \in Message /\ reply("ok") \in Message /\ reply("error") \in Message
  BY <1>c DEF Note, Reply, Message, Result
<1>1. CASE q.t \in live /\ Write(<<end, reply("ok")>>)
  <2>1. Moved(chan, chan', 0, {end, reply("ok")})
    BY <1>d, <1>1, MovedWrite
  <2>2. chan' = chan \o <<end, reply("ok")>>
    BY <1>1 DEF Write
  <2>3. /\ \A i \in DOMAIN chan' : i > Len(chan) => i = Len(chan) + 1 \/ i = Len(chan) + 2
        /\ chan'[Len(chan) + 1] = end /\ chan'[Len(chan) + 2] = reply("ok")
    BY <1>a, <2>2
  <2>4. \A i, j \in DOMAIN chan' :
          i > Len(chan) /\ j > Len(chan) /\ chan'[i] = end /\ chan'[j] = end => i = j
    BY <1>b, <2>3
  <2>5. \A i, j \in DOMAIN chan' :
          i > Len(chan) /\ j > Len(chan) /\ chan'[i] = reply("ok") /\ chan'[j] = reply("ok") => i = j
    BY <1>b, <2>3
  <2>6. \A i, j \in DOMAIN chan' :
          i > Len(chan) /\ chan'[i] = reply("ok") /\ chan'[j] = end /\ i < j => FALSE
    <3> SUFFICES ASSUME NEW i \in DOMAIN chan', NEW j \in DOMAIN chan', i > Len(chan),
                        chan'[i] = reply("ok"), chan'[j] = end, i < j
                 PROVE  FALSE
      OBVIOUS
    <3>1. i = Len(chan) + 2
      BY <1>b, <2>3
    <3>2. j \in Nat /\ j > Len(chan) + 2
      BY <1>a, <3>1
    <3>3. j = Len(chan) + 1 \/ j = Len(chan) + 2
      BY <1>a, <2>3, <3>2
    <3>4. QED
      BY <1>a, <3>2, <3>3
  <2>7. QED
    BY <1>1, <2>1, <2>4, <2>5, <2>6 DEF Answered
<1>2. CASE q.t \in live /\ "late_end" \in env /\ Write(<<reply("ok"), end>>)
  <2>1. Moved(chan, chan', 0, {reply("ok"), end})
    BY <1>d, <1>2, MovedWrite
  <2>2. chan' = chan \o <<reply("ok"), end>>
    BY <1>2 DEF Write
  <2>3. /\ \A i \in DOMAIN chan' : i > Len(chan) => i = Len(chan) + 1 \/ i = Len(chan) + 2
        /\ chan'[Len(chan) + 1] = reply("ok") /\ chan'[Len(chan) + 2] = end
    BY <1>a, <2>2
  <2>4. \A i, j \in DOMAIN chan' :
          i > Len(chan) /\ j > Len(chan) /\ chan'[i] = end /\ chan'[j] = end => i = j
    BY <1>b, <2>3
  <2>5. \A i, j \in DOMAIN chan' :
          i > Len(chan) /\ j > Len(chan) /\ chan'[i] = reply("ok") /\ chan'[j] = reply("ok") => i = j
    BY <1>b, <2>3
  <2>6. {reply("ok"), end} = {end, reply("ok")}
    OBVIOUS
  <2>7. QED
    BY <1>2, <2>1, <2>4, <2>5, <2>6 DEF Answered
<1>3. ASSUME NEW r \in {"ok", "error"}, Write(<<reply(r)>>)
      PROVE  Answered(q, end, reply(r))
  <2>1. Moved(chan, chan', 0, {end, reply(r)})
    <3>1. Moved(chan, chan', 0, {reply(r)})
      BY <1>d, <1>3, MovedWrite
    <3>2. QED
      BY <3>1 DEF Moved
  <2>2. chan' = chan \o <<reply(r)>>
    BY <1>3 DEF Write
  <2>3. /\ \A i \in DOMAIN chan' : i > Len(chan) => i = Len(chan) + 1
        /\ chan'[Len(chan) + 1] = reply(r)
    BY <1>a, <2>2
  <2>4. \A i \in DOMAIN chan' : i > Len(chan) => chan'[i] # end
    BY <1>b, <2>3
  <2>5. \A i, j \in DOMAIN chan' :
          i > Len(chan) /\ chan'[i] = reply(r) /\ chan'[j] = end /\ i < j => FALSE
    <3> SUFFICES ASSUME NEW i \in DOMAIN chan', NEW j \in DOMAIN chan', i > Len(chan), chan'[j] = end, i < j
                 PROVE  FALSE
      OBVIOUS
    <3>1. j > Len(chan)
      BY <1>a
    <3>2. QED
      BY <2>4, <3>1
  <2>6. QED
    BY <2>1, <2>3, <2>4, <2>5 DEF Answered
<1>4. QED
  BY <1>1, <1>2, <1>3 DEF ServeInterrupt

\* turn/interrupt is handled: its turn, if it ran, runs no more, and its end is told.
LEMMA InterruptOrder ==
  ASSUME Known, TypeOK', NEW q \in inbox, ServeInterrupt(q)
  PROVE  Order'
<1> DEFINE end == Note("completed", q.t, "interrupted")
           m == q.m
<1>a. /\ TypeOK /\ Orderly /\ DispatchLock /\ SlotHeld /\ Tokens /\ Awaited /\ Working /\ Starting
      /\ Watched /\ Stops /\ NoRecovery /\ Sequence /\ Fresh
  BY DEF Known, Order
<1>b. PICK r \in {"ok", "error"} : Answered(q, end, Reply(q, q.t, r))
  BY <1>a, AnswerLines
<1> DEFINE reply == Reply(q, q.t, r)
<1>c. /\ q.k \in {"stop", "recInterrupt"} /\ m \in Mission /\ q.t \in Turn \cup {NoTurn}
      /\ inbox' = inbox \ {q} /\ live' = live \ {q.t}
  BY <1>a, RequestMission DEF ServeInterrupt, TypeOK, CodexTypes
<1>d. /\ UNCHANGED <<status, active, stage, turn, owner, env, rec, recovery, buffer, stopping, jobs, turns>>
      /\ live' \subseteq live /\ inbox' \subseteq inbox /\ turns' >= turns
      /\ jobs \in Seq(Job) /\ Moved(jobs, jobs', 0, {}) /\ \A i \in DOMAIN jobs : ~(i <= 0)
  <2>1. UNCHANGED <<status, active, stage, turn, owner, env, rec, recovery, buffer, stopping, jobs, turns>>
    BY DEF ServeInterrupt, disp, conv, comp, flags, cont, hist
  <2>2. turns' >= turns /\ jobs \in Seq(Job)
    BY <1>a, <2>1, BoundAssumption DEF TypeOK, CodexTypes, DispTypes
  <2>3. QED
    BY <1>c, <2>1, <2>2, MovedSame
<1>e. /\ end.k = "completed" /\ end.t = q.t /\ end.r = "interrupted" /\ ~StartLine(end) /\ ~StopLine(end)
      /\ reply.k = "reply" /\ reply.q = q /\ reply.t = q.t /\ ~StartLine(reply) /\ end # reply
      /\ ~TurnLine(reply)
  BY <1>c DEF Note, Reply, StartLine, StopLine, TurnLine
<1>f. /\ Moved(chan, chan', 0, {end, reply})
      /\ \A i \in DOMAIN chan' : \/ i \in DOMAIN chan /\ chan'[i] = chan[i]
                                 \/ i > Len(chan) /\ chan'[i] \in {end, reply}
      /\ \A i \in DOMAIN chan' : i \in Nat \ {0}
      /\ \A i \in DOMAIN chan : i \in Nat /\ ~(i <= 0) /\ i <= Len(chan)
      /\ chan \in Seq(Message) /\ chan' \in Seq(Message) /\ Len(chan) \in Nat
  <2>1. chan \in Seq(Message) /\ chan' \in Seq(Message)
    BY <1>a DEF TypeOK, CodexTypes
  <2>2. Moved(chan, chan', 0, {end, reply})
    BY <1>b DEF Answered
  <2>3. (\A i \in DOMAIN chan' : i \in Nat \ {0}) /\ Len(chan) \in Nat
        /\ \A i \in DOMAIN chan : i \in Nat /\ ~(i <= 0) /\ i <= Len(chan)
    BY <2>1
  <2>4. ASSUME NEW i \in DOMAIN chan'
        PROVE  \/ i \in DOMAIN chan /\ chan'[i] = chan[i]
               \/ i > Len(chan) /\ chan'[i] \in {end, reply}
    <3>1. i + 0 = i
      BY <2>3
    <3>2. QED
      BY <2>2, <3>1 DEF Moved
  <2>5. QED
    BY <2>1, <2>2, <2>3, <2>4
<1>g. \A i \in DOMAIN chan' : i > Len(chan) /\ chan'[i] = end =>
        q.t \in live /\ q.t \in Turn /\ q.t # NoTurn /\ q.t <= turns /\ owner[q.t] \in Mission
  BY <1>b, LiveTurns DEF Answered
<1>1. Awaited'
  BY <1>a, <1>d DEF Awaited, Due, Continues
<1>2. Working'
  BY <1>a, <1>d DEF Working
<1>3. Starting'
  BY <1>a, <1>d DEF Starting, Continues
<1>h. \A l : Late(l) => Late(l)'
  BY <1>d DEF Late, LateEnd
<1>i. \A l : /\ TurnLine(l)' <=> TurnLine(l)
             /\ LateEnd(l)' <=> LateEnd(l)
             /\ StopLine(l)' <=> StopLine(l)
  BY <1>d DEF TurnLine, LateEnd, StopLine, StartLine
\* The end belongs to the lines written only if the turn ran.
<1> DEFINE lines == IF q.t \in live THEN {end, reply} ELSE {reply}
<1>4. /\ Moved(chan, chan', 0, lines)
      /\ \A l \in lines : /\ l.k \notin {"ctx", "ask"} /\ ~(StartLine(l) /\ l.r = "ok")
                          /\ TurnLine(l) => l.t \in live
                          /\ l.k = "completed" => l.t \notin live' /\ l.t # NoTurn /\ l.t <= turns'
  <2>1. Moved(chan, chan', 0, lines)
    <3>1. \A i \in DOMAIN chan' : \/ i + 0 \in DOMAIN chan /\ chan'[i] = chan[i + 0]
                                  \/ i + 0 > Len(chan) /\ chan'[i] \in lines
      <4> TAKE i \in DOMAIN chan'
      <4>1. i + 0 = i
        BY <1>f
      <4>2. QED
        BY <1>f, <1>g, <4>1
    <3>2. \A j \in DOMAIN chan : j > 0 => j - 0 \in DOMAIN chan' /\ chan'[j - 0] = chan[j]
      BY <1>f DEF Moved
    <3>3. QED
      BY <3>1, <3>2 DEF Moved
  <2>2. q.t \in live => q.t # NoTurn /\ q.t <= turns'
    BY <1>d, LiveTurns
  <2>3. QED
    BY <1>c, <1>e, <2>1, <2>2
<1>5. Sequence'
  <2>1. \A i, j \in DOMAIN chan' :
          (/\ i + 0 > Len(chan) /\ j + 0 > Len(chan) /\ chan'[i].k = "completed" /\ TurnLine(chan'[j])
           /\ chan'[j].t = chan'[i].t) => j <= i
    <3> SUFFICES ASSUME NEW i \in DOMAIN chan', NEW j \in DOMAIN chan', i + 0 > Len(chan), j + 0 > Len(chan),
                        chan'[i].k = "completed", TurnLine(chan'[j])
                 PROVE  j <= i
      OBVIOUS
    <3>1. i > Len(chan) /\ j > Len(chan)
      BY <1>f
    <3>2. chan'[i] = end /\ chan'[j] = end
      BY <1>e, <1>f, <3>1
    <3>3. i = j
      BY <1>b, <3>1, <3>2 DEF Answered
    <3>4. QED
      BY <1>f, <3>3
  <2>2. QED
    BY <1>a, <1>d, <1>4, <2>1, SequenceKept
<1>6. Fresh'
  BY <1>a, <1>d, <1>4, FreshKept
<1>7. NoRecovery'
  <2>1. recovery' = NoMission
    BY <1>a, <1>d DEF NoRecovery
  <2>2. \A l \in lines : l.k # "ctx"
    BY <1>4
  <2>3. QED
    BY <1>a, <1>d, <1>4, <2>1, <2>2, RecoveryKept
<1>8. Watched'
  <2> SUFFICES ASSUME NEW t \in Turn, Now(t)' PROVE Watch(t)'
    BY DEF Watched
  <2>1. Now(t)
    BY <1>a, <1>d, <1>h, <1>4, NowKept
  <2>2. Watch(t)
    BY <1>a, <2>1 DEF Watched
  <2>3. \A i \in DOMAIN chan : i <= 0 => ~(StartLine(chan[i]) /\ chan[i].r = "ok")
    BY <1>f
  <2>4. \A i \in DOMAIN jobs : i <= 0 => ~Opened(jobs[i])
    BY <1>d
  <2>5. /\ owner' = owner /\ active' = active /\ stage'[active] = stage[active] /\ turn'[active] = turn[active]
        /\ Moved(jobs, jobs', 0, {}) /\ 0 \in Nat /\ \A j \in {} : j.k # "end"
    BY <1>d
  <2>6. QED
    BY <1>4, <2>2, <2>3, <2>4, <2>5, WatchKept
<1>9. CASE q.k = "recInterrupt"
  <2>1. \A l \in lines : ~StopLine(l)
    BY <1>9, <1>e DEF StopLine
  <2>2. \A n \in Mission : stopping[n] => turn'[n] = turn[n] /\ stage'[n] = "idle" /\ status'[n] \in Stopped
    BY <1>a, <1>d DEF Stops, Stopping
  <2>3. Stops'
    BY <1>a, <1>d, <1>4, <2>1, <2>2, StopsKept
  <2>4. QED
    BY <1>1, <1>2, <1>3, <1>5, <1>6, <1>7, <1>8, <2>3 DEF Order
<1>10. CASE q.k = "stop"
  <2>a. StopRequests /\ StopReplies /\ StopJobs /\ Stopping
    BY <1>a DEF Stops
  <2>b. stopping[m] /\ q.t = turn[m] /\ q.t # NoTurn /\ q.n = 0 /\ stage[m] = "idle" /\ owner[q.t] = m
    BY <1>a, <1>c, <1>10, <2>a DEF StopRequests, Stopping, Tokens, Numbered
  <2>c. \A p \in inbox : p.k = "stop" /\ p.m = m => p = q
    <3> SUFFICES ASSUME NEW p \in inbox, p.k = "stop", p.m = m PROVE p = q
      OBVIOUS
    <3>1. p.t = q.t /\ p.n = q.n
      BY <2>a, <2>b DEF StopRequests
    <3>2. p \in Request /\ q \in Request
      BY <1>a DEF TypeOK, CodexTypes
    <3>3. QED
      BY <1>10, <3>1, <3>2 DEF Request
  <2>d. \A t \in live' : owner[t] # m
    <3> SUFFICES ASSUME NEW t \in live', owner[t] = m PROVE FALSE
      OBVIOUS
    <3>1. t \in live /\ t # q.t
      BY <1>c
    <3>2. Watch(t)
      BY <1>a, <3>1, LiveTurns DEF Watched
    <3>3. QED
      BY <2>b, <3>1, <3>2 DEF Watch
  <2>e. \A i \in DOMAIN chan : StopLine(chan[i]) => chan[i].q.m # m
    BY <1>10, <2>a DEF StopReplies
  <2>f. \A i \in DOMAIN jobs : jobs[i].k = "stop" => jobs[i].m # m
    BY <1>10, <2>a DEF StopJobs
  <2>g. \A j \in DOMAIN chan' : TurnLine(chan'[j]) =>
          \/ j \in DOMAIN chan /\ chan'[j] = chan[j]
          \/ j > Len(chan) /\ chan'[j] = end /\ owner[chan'[j].t] = m
    BY <1>e, <1>f, <2>b
  <2>1. StopRequests'
    BY <1>c, <1>d, <2>a DEF StopRequests
  <2>2. ASSUME NEW i \in DOMAIN chan', StopLine(chan'[i])
        PROVE  /\ stopping[chan'[i].q.m]
               /\ \A p \in inbox' : p.k = "stop" => p.m # chan'[i].q.m
               /\ \A t \in live' : owner[t] # chan'[i].q.m
               /\ \A j \in DOMAIN chan' :
                    (TurnLine(chan'[j]) /\ owner[chan'[j].t] = chan'[i].q.m /\ i < j) => LateEnd(chan'[j])
    <3>1. CASE i \in DOMAIN chan /\ chan'[i] = chan[i]
      <4>1. chan'[i].q.m # m
        BY <2>e, <2>2, <3>1
      <4>2. \A j \in DOMAIN chan' :
              (TurnLine(chan'[j]) /\ owner[chan'[j].t] = chan'[i].q.m /\ i < j) => LateEnd(chan'[j])
        BY <2>a, <2>2, <2>g, <3>1, <4>1 DEF StopReplies
      <4>3. QED
        BY <1>c, <2>a, <2>2, <3>1, <4>2 DEF StopReplies
    <3>2. CASE i > Len(chan) /\ chan'[i] = reply
      <4>1. chan'[i].q.m = m
        BY <1>e, <3>2
      <4>2. \A p \in inbox' : p.k = "stop" => p.m # m
        BY <1>c, <2>c
      <4>3. ASSUME NEW j \in DOMAIN chan', TurnLine(chan'[j]), i < j PROVE LateEnd(chan'[j])
        <5>1. j \notin DOMAIN chan
          BY <1>f, <3>2, <4>3
        <5>2. chan'[j] = end
          BY <2>g, <4>3, <5>1
        <5>3. "late_end" \in env
          BY <1>b, <3>2, <4>3, <5>2 DEF Answered
        <5>4. QED
          BY <1>e, <5>2, <5>3 DEF LateEnd
      <4>4. QED
        BY <2>b, <2>d, <4>1, <4>2, <4>3
    <3>3. QED
      BY <1>e, <1>f, <2>2, <3>1, <3>2
  <2>3. ASSUME NEW i \in DOMAIN chan', NEW j \in DOMAIN chan', StopLine(chan'[i]), StopLine(chan'[j]),
               chan'[i].q.m = chan'[j].q.m
        PROVE  i = j
    <3>1. \A k \in DOMAIN chan' : StopLine(chan'[k]) =>
            \/ k \in DOMAIN chan /\ chan'[k] = chan[k] /\ chan'[k].q.m # m
            \/ k > Len(chan) /\ chan'[k] = reply /\ chan'[k].q.m = m
      BY <1>e, <1>f, <2>e
    <3>2. CASE chan'[i].q.m = m
      BY <1>b, <2>3, <3>1, <3>2 DEF Answered
    <3>3. CASE chan'[i].q.m # m
      BY <2>a, <2>3, <3>1, <3>3 DEF StopReplies
    <3>4. QED
      BY <3>2, <3>3
  <2>4. StopReplies'
    BY <1>d, <1>i, <2>2, <2>3 DEF StopReplies, StopLine, LateEnd, TurnLine, StartLine
  <2>5. ASSUME NEW i \in DOMAIN jobs, jobs[i].k = "stop"
        PROVE  /\ stopping[jobs[i].m]
               /\ \A p \in inbox' : p.k = "stop" => p.m # jobs[i].m
               /\ \A t \in live' : owner[t] # jobs[i].m
               /\ \A j \in DOMAIN chan' : StopLine(chan'[j]) => chan'[j].q.m # jobs[i].m
               /\ \A j \in DOMAIN chan' :
                    TurnLine(chan'[j]) /\ owner[chan'[j].t] = jobs[i].m => LateEnd(chan'[j])
    <3>1. jobs[i].m # m
      BY <2>f, <2>5
    <3>2. \A j \in DOMAIN chan' : StopLine(chan'[j]) => chan'[j].q.m # jobs[i].m
      BY <1>e, <1>f, <2>a, <2>5, <3>1 DEF StopJobs
    <3>3. \A j \in DOMAIN chan' :
            TurnLine(chan'[j]) /\ owner[chan'[j].t] = jobs[i].m => LateEnd(chan'[j])
      BY <2>a, <2>5, <2>g, <3>1 DEF StopJobs
    <3>4. QED
      BY <1>c, <2>a, <2>5, <3>2, <3>3 DEF StopJobs
  <2>6. StopJobs'
    BY <1>d, <1>i, <2>a, <2>5 DEF StopJobs, StopLine, LateEnd, TurnLine, StartLine
  <2>7. Stopping'
    BY <1>d, <2>a DEF Stopping
  <2>8. QED
    BY <1>1, <1>2, <1>3, <1>5, <1>6, <1>7, <1>8, <2>1, <2>4, <2>6, <2>7 DEF Order, Stops
<1>11. QED
  BY <1>c, <1>9, <1>10

\* A turn opens for the mission that waits for it: it is the one that runs.
LEMMA OpenOrder ==
  ASSUME Known, TypeOK', NEW q \in inbox, OpenTurn(q)
  PROVE  Order'
<1> DEFINE m == q.m
           u == turns + 1
           reply == Reply(q, u, "ok")
           note == Note("started", u, "ok")
           Line(l) == /\ l.k \in {"started", "ask", "completed"} \/ (StartLine(l) /\ l.r = "ok")
                      /\ l.t # NoTurn /\ owner'[l.t] # NoMission
           After(l) == LateEnd(l) /\ status[owner'[l.t]] = "interrupted" /\ turn[owner'[l.t]] = l.t
<1>a. /\ TypeOK /\ Orderly /\ DispatchLock /\ SlotHeld /\ Tokens /\ Awaited /\ Working /\ Starting
      /\ Watched /\ Stops /\ NoRecovery /\ Sequence /\ Fresh
  BY DEF Known, Order
<1>b. q.k = "turn" /\ m \in Mission /\ m # NoMission /\ stage[m] = "turn" /\ turns < MaxTurns
  BY <1>a, RequestMission, MissionAssumption
     DEF OpenTurn, TypeOK, CodexTypes, Tokens, StartRequests, NoMission
<1>c. turns \in Nat /\ u \in Turn /\ u # NoTurn /\ ~(u <= turns) /\ turns' = u /\ turns' >= turns
      /\ \A t \in Nat : t <= turns => t <= turns' /\ t # u
  BY <1>a, <1>b, BoundAssumption DEF TypeOK, CodexTypes, Turn, NoTurn, OpenTurn
<1>d. /\ UNCHANGED <<status, active, stage, turn, env, rec, recovery, buffer, stopping, jobs>>
      /\ live' = live \cup {u} /\ owner' = [owner EXCEPT ![u] = m] /\ inbox' = inbox \ {q}
  BY DEF OpenTurn, disp, conv, comp, flags, cont, hist
<1>e. \A i \in DOMAIN chan : ~StartLine(chan[i])
  BY <1>a, <1>b DEF Tokens, StartReplies
<1>f. status[m] = "starting" /\ active = m /\ \A n \in Mission : stage[n] # "idle" => n = m
  BY <1>a, <1>b DEF Starting, Working, ActiveStatus, DispatchLock, Locked
<1>g. \A t \in Turn : ~Now(t)
  <2> SUFFICES ASSUME NEW t \in Turn, Now(t) PROVE FALSE
    OBVIOUS
  <2>1. Replied(t)
    BY <1>a, <1>b, <1>f DEF Watched, Watch
  <2>2. QED
    BY <1>e, <2>1 DEF Replied
<1>h. live' = {u}
  BY <1>d, <1>g, LiveTurns
<1>i. owner'[u] = m /\ (\A t \in Turn : t # u => owner'[t] = owner[t]) /\ owner[u] = NoMission
  BY <1>a, <1>c, <1>d DEF TypeOK, HistTypes, Tokens, Numbered
<1>j. /\ reply \in Message /\ note \in Message
      /\ StartLine(reply) /\ reply.r = "ok" /\ reply.t = u /\ reply.k = "reply" /\ reply.q = q
      /\ note.k = "started" /\ note.t = u /\ ~StartLine(note)
  BY <1>a, <1>b, <1>c DEF Reply, Note, Message, StartLine, Result, TypeOK, CodexTypes
<1>k. /\ Moved(chan, chan', 0, {reply, note})
      /\ \E i \in DOMAIN chan' : chan'[i] = reply
  <2>1. chan \in Seq(Message) /\ chan' \in Seq(Message)
    BY <1>a DEF TypeOK, CodexTypes
  <2>2. CASE Write(<<reply, note>>)
    <3>1. chan' = chan \o <<reply, note>>
      BY <2>2 DEF Write
    <3>2. Len(chan) + 1 \in DOMAIN chan' /\ chan'[Len(chan) + 1] = reply
      BY <2>1, <3>1
    <3>3. QED
      BY <1>a, <1>j, <2>2, <3>2, MovedWrite
  <2>3. CASE Write(<<note, reply>>)
    <3>1. chan' = chan \o <<note, reply>>
      BY <2>3 DEF Write
    <3>2. Len(chan) + 2 \in DOMAIN chan' /\ chan'[Len(chan) + 2] = reply
      BY <2>1, <3>1
    <3>3. Moved(chan, chan', 0, {note, reply}) /\ {note, reply} = {reply, note}
      BY <1>a, <1>j, <2>3, MovedWrite
    <3>4. QED
      BY <3>2, <3>3
  <2>4. CASE Write(<<reply>>)
    <3>1. chan' = chan \o <<reply>>
      BY <2>4 DEF Write
    <3>2. Len(chan) + 1 \in DOMAIN chan' /\ chan'[Len(chan) + 1] = reply
      BY <2>1, <3>1
    <3>3. Moved(chan, chan', 0, {reply})
      BY <1>a, <1>j, <2>4, MovedWrite
    <3>4. Moved(chan, chan', 0, {reply, note})
      BY <3>3 DEF Moved
    <3>5. QED
      BY <3>2, <3>4
  <2>5. QED
    BY <2>2, <2>3, <2>4 DEF OpenTurn
<1>l. \A i \in DOMAIN chan' : \/ i \in DOMAIN chan /\ chan'[i] = chan[i]
                              \/ i > Len(chan) /\ chan'[i] \in {reply, note}
  <2>1. \A i \in DOMAIN chan' : i + 0 = i
    BY DEF TypeOK, CodexTypes
  <2>2. QED
    BY <1>k, <2>1 DEF Moved
\* No line of before is about the new turn.
<1>m. \A i \in DOMAIN chan :
        /\ chan[i].k \in {"started", "ask", "completed"} => chan[i].t \in Turn /\ chan[i].t # u
        /\ Line(chan[i]) <=> TurnLine(chan[i])
        /\ TurnLine(chan[i]) => owner'[chan[i].t] = owner[chan[i].t] /\ chan[i].t \in Turn
        /\ Late(chan[i]) /\ TurnLine(chan[i]) => After(chan[i])
  <2> TAKE i \in DOMAIN chan
  <2>1. chan[i].t \in Turn \cup {NoTurn}
    BY <1>a, LineTypes
  <2>2. chan[i].k \in {"started", "ask", "completed"} => chan[i].t # NoTurn /\ chan[i].t <= turns
    BY <1>a, <2>1 DEF Tokens, Numbered, Fresh
  <2>3. chan[i].k \in {"started", "ask", "completed"} => chan[i].t \in Turn /\ chan[i].t # u
    BY <1>c, <2>1, <2>2 DEF Turn
  <2>4. TurnLine(chan[i]) => chan[i].k \in {"started", "ask", "completed"}
    BY <1>e DEF TurnLine
  <2>5. Line(chan[i]) => chan[i].k \in {"started", "ask", "completed"}
    BY <1>e
  <2>6. Line(chan[i]) <=> TurnLine(chan[i])
    BY <1>i, <2>3, <2>4, <2>5 DEF TurnLine
  <2>7. TurnLine(chan[i]) => owner'[chan[i].t] = owner[chan[i].t] /\ chan[i].t \in Turn
    BY <1>i, <2>3, <2>4
  <2>8. Late(chan[i]) /\ TurnLine(chan[i]) => After(chan[i])
    BY <2>7 DEF Late
  <2>9. QED
    BY <2>3, <2>6, <2>7, <2>8
<1>1. Awaited'
  BY <1>a, <1>d DEF Awaited, Due, Continues
<1>2. Working'
  BY <1>a, <1>d DEF Working
<1>3. Starting'
  BY <1>a, <1>d DEF Starting, Continues
<1>4. NoRecovery'
  <2>1. \A i \in DOMAIN chan' : chan'[i].k # "ctx"
    BY <1>a, <1>j, <1>l DEF NoRecovery
  <2>2. QED
    BY <1>a, <1>d, <2>1 DEF NoRecovery
<1>5. Watched'
  <2> SUFFICES ASSUME NEW t \in Turn, Now(t)' PROVE Watch(t)'
    BY DEF Watched
  <2>1. t = u
    <3>1. CASE t \in live'
      BY <1>h, <3>1
    <3>2. CASE \E i \in DOMAIN chan' : Line(chan'[i]) /\ chan'[i].t = t /\ ~After(chan'[i])
      <4>1. PICK i \in DOMAIN chan' : Line(chan'[i]) /\ chan'[i].t = t /\ ~After(chan'[i])
        BY <3>2
      <4>2. ~(i \in DOMAIN chan /\ chan'[i] = chan[i])
        <5> SUFFICES ASSUME i \in DOMAIN chan, chan'[i] = chan[i] PROVE FALSE
          OBVIOUS
        <5>1. TurnLine(chan[i]) /\ ~Late(chan[i]) /\ chan[i].t = t
          BY <1>m, <4>1
        <5>2. QED
          BY <1>g, <5>1 DEF Now
      <4>3. QED
        BY <1>j, <1>l, <4>1, <4>2
    <3>3. QED
      BY <1>d, <3>1, <3>2 DEF Now, TurnLine, StartLine, Late, LateEnd
  <2>2. Replied(t)'
    BY <1>j, <1>k, <2>1 DEF Replied, StartLine
  <2>3. \A i \in DOMAIN jobs : jobs[i].k # "end"
    <3>1. \A i \in DOMAIN jobs : jobs[i].k = "end" => jobs[i].m \in Mission
      BY <1>a, LineTypes DEF Continues
    <3>2. QED
      BY <1>a, <1>b, <1>f, <3>1 DEF DispatchLock, Locked
  <2>4. QED
    BY <1>b, <1>d, <1>f, <1>i, <2>1, <2>2, <2>3 DEF Watch
<1>6. Sequence'
  <2>1. ASSUME NEW i \in DOMAIN chan', NEW j \in DOMAIN chan', chan'[i].k \in {"ask", "completed"},
               StartLine(chan'[j]), chan'[j].r = "ok", chan'[j].t = chan'[i].t
        PROVE  j < i
    <3>1. i \in DOMAIN chan /\ chan'[i] = chan[i]
      BY <1>j, <1>l, <2>1
    <3>2. chan'[j] = reply
      BY <1>e, <1>j, <1>l, <2>1
    <3>3. QED
      BY <1>j, <1>m, <2>1, <3>1, <3>2
  <2>2. ASSUME NEW i \in DOMAIN chan', NEW j \in DOMAIN chan', chan'[i].k = "completed",
               Line(chan'[j]), chan'[j].t = chan'[i].t
        PROVE  j <= i
    <3>1. i \in DOMAIN chan /\ chan'[i] = chan[i]
      BY <1>j, <1>l, <2>2
    <3>2. j \in DOMAIN chan /\ chan'[j] = chan[j]
      BY <1>j, <1>l, <1>m, <2>2, <3>1
    <3>3. QED
      BY <1>a, <1>m, <2>2, <3>1, <3>2 DEF Sequence
  <2>3. \A i \in DOMAIN chan' : chan'[i].k = "completed" => chan'[i].t \notin live'
    BY <1>h, <1>j, <1>l, <1>m
  <2>4. QED
    BY <2>1, <2>2, <2>3 DEF Sequence, StartLine, TurnLine
<1>7. Fresh'
  <2>1. \A t \in Turn : buffer'[t] # "none" => owner'[t] = NoMission /\ t <= turns'
    BY <1>a, <1>c, <1>d, <1>i DEF Fresh, Turn
  <2>2. \A i \in DOMAIN chan' : chan'[i].k = "completed" => chan'[i].t # NoTurn /\ chan'[i].t <= turns'
    BY <1>a, <1>c, <1>j, <1>l, <1>m DEF Fresh, Turn
  <2>3. \A i \in DOMAIN chan' : chan'[i].k = "ask" => chan'[i].t # NoTurn /\ owner'[chan'[i].t] # NoMission
    BY <1>a, <1>i, <1>j, <1>l, <1>m DEF Fresh
  <2>4. QED
    BY <2>1, <2>2, <2>3 DEF Fresh
<1>8. Stops'
  <2>a. StopRequests /\ StopReplies /\ StopJobs /\ Stopping
    BY <1>a DEF Stops
  <2>b. \A n \in Mission : stopping[n] => n # m
    BY <1>b, <2>a DEF Stopping
  <2>c. \A i \in DOMAIN chan' : StopLine(chan'[i]) =>
          i \in DOMAIN chan /\ chan'[i] = chan[i] /\ chan[i].q.m \in Mission /\ chan[i].q.m # m
    <3> SUFFICES ASSUME NEW i \in DOMAIN chan', StopLine(chan'[i])
                 PROVE  i \in DOMAIN chan /\ chan'[i] = chan[i] /\ chan[i].q.m \in Mission /\ chan[i].q.m # m
      OBVIOUS
    <3>1. i \in DOMAIN chan /\ chan'[i] = chan[i]
      BY <1>b, <1>j, <1>l DEF StopLine
    <3>2. chan[i].q.m \in Mission
      BY <1>a, <3>1, LineTypes
    <3>3. QED
      BY <2>a, <2>b, <3>1, <3>2 DEF StopReplies
  <2>d. \A j \in DOMAIN chan' : Line(chan'[j]) =>
          \/ j \in DOMAIN chan /\ chan'[j] = chan[j] /\ TurnLine(chan[j])
             /\ owner'[chan[j].t] = owner[chan[j].t]
          \/ owner'[chan'[j].t] = m
    BY <1>i, <1>j, <1>l, <1>m
  <2>e. \A t \in live' : owner'[t] = m
    BY <1>h, <1>i
  <2>f. \A i \in DOMAIN jobs : jobs[i].k = "stop" => jobs[i].m \in Mission /\ jobs[i].m # m
    <3>1. \A i \in DOMAIN jobs : jobs[i].k = "stop" => jobs[i].m \in Mission
      BY <1>a, LineTypes
    <3>2. QED
      BY <2>a, <2>b, <3>1 DEF StopJobs
  <2>1. StopRequests'
    BY <1>d, <2>a DEF StopRequests
  <2>2. ASSUME NEW i \in DOMAIN chan', StopLine(chan'[i])
        PROVE  /\ stopping[chan'[i].q.m]
               /\ \A p \in inbox' : p.k = "stop" => p.m # chan'[i].q.m
               /\ \A t \in live' : owner'[t] # chan'[i].q.m
               /\ \A j \in DOMAIN chan' :
                    (Line(chan'[j]) /\ owner'[chan'[j].t] = chan'[i].q.m /\ i < j) => LateEnd(chan'[j])
    <3>1. i \in DOMAIN chan /\ chan'[i] = chan[i] /\ chan[i].q.m # m
      BY <2>2, <2>c
    <3>2. \A j \in DOMAIN chan' :
            (Line(chan'[j]) /\ owner'[chan'[j].t] = chan'[i].q.m /\ i < j) => LateEnd(chan'[j])
      BY <2>2, <2>a, <2>d, <3>1 DEF StopReplies
    <3>3. stopping[chan'[i].q.m] /\ \A p \in inbox' : p.k = "stop" => p.m # chan'[i].q.m
      BY <1>d, <2>2, <2>a, <3>1 DEF StopReplies
    <3>4. QED
      BY <2>e, <3>1, <3>2, <3>3
  <2>3. \A i, j \in DOMAIN chan' :
          StopLine(chan'[i]) /\ StopLine(chan'[j]) /\ chan'[i].q.m = chan'[j].q.m => i = j
    BY <2>a, <2>c DEF StopReplies
  <2>g. \A l : LateEnd(l)' <=> LateEnd(l)
    BY <1>d DEF LateEnd
  <2>4. StopReplies'
    BY <1>d, <2>g, <2>2, <2>3 DEF StopReplies, StopLine, TurnLine, StartLine
  <2>5. ASSUME NEW i \in DOMAIN jobs, jobs[i].k = "stop"
        PROVE  /\ stopping[jobs[i].m]
               /\ \A p \in inbox' : p.k = "stop" => p.m # jobs[i].m
               /\ \A t \in live' : owner'[t] # jobs[i].m
               /\ \A j \in DOMAIN chan' : StopLine(chan'[j]) => chan'[j].q.m # jobs[i].m
               /\ \A j \in DOMAIN chan' :
                    Line(chan'[j]) /\ owner'[chan'[j].t] = jobs[i].m => LateEnd(chan'[j])
    <3>1. jobs[i].m # m
      BY <2>5, <2>f
    <3>2. \A j \in DOMAIN chan' : StopLine(chan'[j]) => chan'[j].q.m # jobs[i].m
      BY <2>5, <2>a, <2>c DEF StopJobs
    <3>3. \A j \in DOMAIN chan' :
            Line(chan'[j]) /\ owner'[chan'[j].t] = jobs[i].m => LateEnd(chan'[j])
      BY <2>5, <2>a, <2>d, <3>1 DEF StopJobs
    <3>4. QED
      BY <1>d, <2>5, <2>a, <2>e, <3>1, <3>2, <3>3 DEF StopJobs
  <2>6. StopJobs'
    BY <1>d, <2>a, <2>g, <2>5 DEF StopJobs, StopLine, TurnLine, StartLine
  <2>7. Stopping'
    BY <1>d, <2>a DEF Stopping
  <2>8. QED
    BY <2>1, <2>4, <2>6, <2>7 DEF Stops
<1>9. QED
  BY <1>1, <1>2, <1>3, <1>4, <1>5, <1>6, <1>7, <1>8 DEF Order

\* The order of things over a step of the app-server.
LEMMA AppServerOrder ==
  ASSUME Known, TypeOK', AppServer
  PROVE  Order'
<1>1. ASSUME NEW q \in inbox, OpenTurn(q) PROVE Order'
  BY <1>1, OpenOrder
<1>2. ASSUME NEW q \in inbox, ServeInterrupt(q) PROVE Order'
  BY <1>2, InterruptOrder
<1>3. QED
  BY <1>1, <1>2, PlainServerOrder DEF AppServer, ServeRequest

-----------------------------------------------------------------------------
\* Loss of the app-server, and of the application

\* Everything the client rejects is a job, and nothing else.
LEMMA AllRejected ==
  ASSUME NEW f \in Orders(PendingRejections)
  PROVE  /\ f \in Seq(Job)
         /\ \A j \in PendingRejections : \E i \in DOMAIN f : f[i] = j
         /\ \A i \in DOMAIN f : f[i] \in PendingRejections
<1> DEFINE S == PendingRejections
           D == 1..Cardinality(S)
<1>1. f \in Seq(Job) /\ IsFiniteSet(S)
  BY RejectionTypes
<1>2. Cardinality(S) \in Nat
  BY <1>1, FS_CardinalityType
<1>3. f \in [D -> S] /\ f \in Injection(D, S)
  BY DEF Orders, Injection, IsInjective
<1>4. Cardinality(D) = Cardinality(S)
  <2>1. 1 \in Int /\ Cardinality(S) \in Int
    BY <1>2
  <2>2. Cardinality(D) = IF 1 > Cardinality(S) THEN 0 ELSE Cardinality(S) - 1 + 1
    BY <2>1, FS_Interval
  <2>3. QED
    BY <1>2, <2>2
<1>5. f \in Surjection(D, S)
  BY <1>1, <1>3, <1>4, FS_Injection
<1>6. \A j \in S : \E i \in D : f[i] = j
  BY <1>5 DEF Surjection
<1>7. DOMAIN f = D
  BY <1>3
<1>8. QED
  BY <1>1, <1>3, <1>6, <1>7

\* The app-server dies: what was awaited is rejected, and nothing runs.
LEMMA ExitOrder ==
  ASSUME Known, TypeOK', CodexExit
  PROVE  Order'
<1>a. /\ TypeOK /\ Orderly /\ Awaited /\ Working /\ Starting /\ NoRecovery /\ Fresh
      /\ "exit" \in env
  BY DEF Known, Order, CodexExit, Fault
<1>b. /\ inbox' = {} /\ live' = {} /\ chan' = <<>> /\ jobs' \in Orders(PendingRejections)
      /\ stage' = [m \in Mission |-> IF stage[m] \in {"thread", "turn"} THEN "settled" ELSE stage[m]]
      /\ stopping' = [m \in Mission |-> FALSE]
      /\ UNCHANGED <<owner, env, rec, recovery, buffer, turns, turn>>
  BY DEF CodexExit, comp
<1>c. \A m \in Mission : /\ stage[m] \in {"idle", "thread", "turn"}
                         /\ stage[m] # "idle" => status[m] = "starting"
  BY <1>a, Waits DEF CodexExit, Orderly, Starting
<1>d. /\ \A m \in Mission : stage[m] \in {"thread", "turn"} => StartJob(m, NoTurn, "infra") \in PendingRejections
      /\ \A j \in PendingRejections :
           \/ j = ManJob("infra")
           \/ \E m \in Mission : stage[m] \in {"thread", "turn"} /\ j = StartJob(m, NoTurn, "infra")
  BY <1>a DEF PendingRejections, NoRecovery
<1>e. /\ \A j \in PendingRejections : \E i \in DOMAIN jobs' : jobs'[i] = j
      /\ \A i \in DOMAIN jobs' : jobs'[i] \in PendingRejections
  BY <1>b, AllRejected
<1>f. \A i \in DOMAIN jobs' :
        \/ jobs'[i] = ManJob("infra")
        \/ \E m \in Mission : stage[m] \in {"thread", "turn"} /\ jobs'[i] = StartJob(m, NoTurn, "infra")
  BY <1>d, <1>e
<1>g. /\ active' = NoMission /\ \A m \in Mission : m # NoMission
      /\ \A m \in Mission : status[m] \in ActiveStatus => status'[m] \in {"queued", "interrupted"}
      /\ \A m \in Mission : status[m] \notin ActiveStatus => status'[m] = status[m]
  <2>1. status \in [Mission -> Status] /\ active' = NoMission /\ \A m \in Mission : m # NoMission
    BY <1>a, MissionAssumption DEF TypeOK, DispTypes, CodexExit, HandleCodexExit, NoMission
  <2>2. CASE \A m \in Mission : ~(ExitMission(m) /\ status[m] \in ActiveStatus)
    <3>1. \A m \in Mission : status[m] \notin ActiveStatus
      BY <1>a, <2>1, <2>2 DEF ExitMission, Working
    <3>2. status' = status
      BY <2>2 DEF CodexExit, HandleCodexExit
    <3>3. QED
      BY <2>1, <3>1, <3>2
  <2>3. ASSUME NEW n \in Mission, ExitMission(n), status[n] \in ActiveStatus,
               status' = [status EXCEPT ![n] = IF Recoverable(n) THEN "queued" ELSE "interrupted"]
        PROVE  /\ \A m \in Mission : status[m] \in ActiveStatus => status'[m] \in {"queued", "interrupted"}
               /\ \A m \in Mission : status[m] \notin ActiveStatus => status'[m] = status[m]
    <3>1. \A m \in Mission : status[m] \in ActiveStatus => m = n
      BY <1>a, <2>3 DEF Working
    <3>2. QED
      BY <2>1, <2>3, <3>1
  <2>4. QED
    BY <2>1, <2>2, <2>3 DEF CodexExit, HandleCodexExit
<1>1. NoRecovery'
  BY <1>a, <1>b, <1>f DEF NoRecovery, ManJob, StartJob
<1>2. Awaited'
  <2> SUFFICES ASSUME NEW m \in Mission, stage'[m] \in {"threadOk", "settled", "ending"} PROVE Due(m)'
    BY DEF Awaited
  <2>1. stage[m] \in {"thread", "turn"}
    BY <1>b, <1>c
  <2>2. PICK i \in DOMAIN jobs' : jobs'[i] = StartJob(m, NoTurn, "infra")
    BY <1>d, <1>e, <2>1
  <2>3. QED
    BY <2>2 DEF Due, Continues, StartJob
<1>3. Working'
  BY <1>g DEF Working, ActiveStatus
<1>4. Starting'
  <2>1. \A m \in Mission : stage'[m] \in {"idle", "settled"}
    BY <1>b, <1>c
  <2>2. \A m \in Mission : stage[m] \in {"thread", "turn"} => status'[m] \in {"queued", "interrupted"}
    BY <1>c, <1>g DEF ActiveStatus
  <2>3. QED
    BY <1>f, <2>1, <2>2 DEF Starting, Continues, StartJob, ManJob
<1>5. Watched'
  BY <1>b DEF Watched, Now
<1>6. Sequence'
  BY <1>b DEF Sequence
<1>7. Fresh'
  BY <1>a, <1>b DEF Fresh
<1>8. Stops'
  BY <1>b, <1>f DEF Stops, StopRequests, StopReplies, StopJobs, Stopping, StartJob, ManJob
<1>9. QED
  BY <1>1, <1>2, <1>3, <1>4, <1>5, <1>6, <1>7, <1>8 DEF Order

\* The application starts again with nothing under way.
LEMMA RestartOrder ==
  ASSUME Known, TypeOK', ApplicationRestart
  PROVE  Order'
<1>a. TypeOK /\ \A m \in Mission : m # NoMission
  BY MissionAssumption DEF Known, NoMission
<1>b. /\ inbox' = {} /\ live' = {} /\ chan' = <<>> /\ jobs' = <<>>
      /\ stage' = [m \in Mission |-> "idle"] /\ stopping' = [m \in Mission |-> FALSE]
      /\ rec' = [m \in Mission |-> "idle"] /\ recovery' = NoMission /\ active' = NoMission
      /\ buffer' = [t \in Turn |-> "none"]
  BY DEF ApplicationRestart
<1>1. NoRecovery'
  BY <1>b DEF NoRecovery
<1>2. Awaited' /\ Starting'
  BY <1>b DEF Awaited, Starting
<1>3. Working'
  <2>1. \A m \in Mission : status'[m] \notin ActiveStatus
    BY DEF ApplicationRestart, LostStatus, ActiveStatus
  <2>2. QED
    BY <1>a, <1>b, <2>1 DEF Working
<1>4. Watched'
  BY <1>b DEF Watched, Now
<1>5. Sequence' /\ Fresh'
  BY <1>b DEF Sequence, Fresh
<1>6. Stops'
  BY <1>b DEF Stops, StopRequests, StopReplies, StopJobs, Stopping
<1>7. QED
  BY <1>1, <1>2, <1>3, <1>4, <1>5, <1>6 DEF Order

-----------------------------------------------------------------------------
\* Every step

\* A step that changes nothing.
LEMMA StutterOrder ==
  ASSUME Known, UNCHANGED vars
  PROVE  Order'
<1>1. Order
  BY DEF Known
<1>2. QED
  BY <1>1 DEF vars, disp, conv, comp, flags, cont, codex, hist, Order, NoRecovery, Awaited, Due,
     Continues, Working, Starting, Watched, Watch, Now, Late, LateEnd, TurnLine, StartLine, Replied,
     Taken, Opened, Sequence, Fresh, Stops, StopRequests, StopReplies, StopJobs, Stopping, StopLine

\* What is known of an orderly scenario's states stays so.
LEMMA OrderStep ==
  ASSUME Known, TypeOK', [Next]_vars
  PROVE  Order'
<1>1. CASE CodexExit
  BY <1>1, ExitOrder
<1>2. CASE ApplicationRestart
  BY <1>2, RestartOrder
<1>3. CASE RequestTimeout
  BY <1>3 DEF RequestTimeout, Fault, Known, Orderly
<1>4. QED
  BY <1>1, <1>2, <1>3, UserOrder, MicrotaskOrder, SettleOrder, ReadOrder, AppServerOrder, StutterOrder
     DEF Next, Failure

\* At first nothing is under way.
LEMMA OrderInit ==
  ASSUME Init
  PROVE  Order
<1>1. /\ \A m \in Mission : /\ status[m] = "absent" /\ stage[m] = "idle" /\ ~stopping[m]
                            /\ rec[m] = "idle" /\ m # NoMission
      /\ active = NoMission /\ recovery = NoMission /\ jobs = <<>> /\ chan = <<>> /\ inbox = {} /\ live = {}
      /\ \A t \in Turn : buffer[t] = "none"
  BY MissionAssumption DEF Init, NoMission
<1>2. NoRecovery /\ Awaited /\ Working /\ Starting
  BY <1>1 DEF NoRecovery, Awaited, Working, Starting, ActiveStatus
<1>3. Watched /\ Sequence /\ Fresh
  BY <1>1 DEF Watched, Now, Sequence, Fresh
<1>4. Stops
  BY <1>1 DEF Stops, StopRequests, StopReplies, StopJobs, Stopping
<1>5. QED
  BY <1>2, <1>3, <1>4 DEF Order

\* In an orderly scenario, whatever the app-server and the operator do in it: see Order.
THEOREM KnownCorrect == Spec => [](Orderly => Known)
<1> DEFINE K == Orderly => Order
           T == InTime => Tokens
<1>1. Init => SlotHeld /\ T /\ K
  <2>1. Init => SlotHeld /\ Tokens
    BY DEF Init, SlotHeld, Tokens, StartRequests, StartReplies, StartJobs, Numbered, Announced
  <2>2. QED
    BY <2>1, OrderInit
<1>2. TypeOK /\ TypeOK' /\ DispatchLock /\ SlotHeld /\ T /\ [Next]_vars => SlotHeld' /\ T'
  BY SlotStep, TokenStep
<1>3. Orderly => InTime
  BY DEF Orderly, InTime
<1>4. TypeOK /\ TypeOK' /\ DispatchLock /\ SlotHeld /\ T /\ K /\ [Next]_vars => K'
  <2> SUFFICES ASSUME TypeOK, TypeOK', DispatchLock, SlotHeld, T, K, [Next]_vars, Orderly' PROVE Order'
    OBVIOUS
  <2>1. Orderly
    BY SameScenario DEF Orderly
  <2>2. Known
    BY <1>3, <2>1 DEF Known
  <2>3. QED
    BY <2>2, OrderStep
<1>5. TypeOK /\ DispatchLock /\ SlotHeld /\ T /\ K => (Orderly => Known)
  BY <1>3 DEF Known
<1>6. QED
  BY <1>1, <1>2, <1>4, <1>5, TypeCorrect, LockCorrect, PTL DEF Spec

-----------------------------------------------------------------------------
\* What follows for an orderly scenario

\* Codex never runs two turns of the conversation at once.
THEOREM OneTurnAtATimeCorrect == Spec => [](Orderly => OneTurnAtATime)
<1>1. Known => OneTurnAtATime
  <2> SUFFICES ASSUME Known, NEW t \in live, NEW u \in live PROVE t = u
    BY DEF OneTurnAtATime
  <2>1. t \in Turn /\ u \in Turn /\ Now(t) /\ Now(u)
    BY LiveTurns
  <2>2. QED
    BY <2>1, OneNow
<1>2. QED
  BY <1>1, KnownCorrect, PTL

\* A turn that runs is watched: the mission it was started for is the active one.
THEOREM LiveTurnIsActiveCorrect == Spec => [](Orderly => LiveTurnIsActive)
<1>1. Known => LiveTurnIsActive
  <2> SUFFICES ASSUME Known, NEW t \in live PROVE active = owner[t]
    BY DEF LiveTurnIsActive
  <2>1. Watch(t)
    BY LiveTurns DEF Known, Order, Watched
  <2>2. QED
    BY <2>1 DEF Watch
<1>2. QED
  BY <1>1, KnownCorrect, PTL

-----------------------------------------------------------------------------
\* What a step may do to a mission

Over == {"completed", "failed", "interrupted", "cancelled"}

\* A mission that is not begun by the step.
Calm(m) ==
  \/ status'[m] = status[m]
  \/ status[m] \in ActiveStatus /\ status'[m] \in Status \ {"absent"}
  \/ status[m] = "queued" /\ status'[m] \in Over
  \/ status[m] \in Over /\ status'[m] \in Over
CalmStep == \A m \in Mission : Calm(m) /\ (stopped'[m] => stopped[m] \/ status'[m] \in Over)

\* processNext, after a mission was created or resumed, if one was.
Queues(st) ==
  /\ st \in [Mission -> Status]
  /\ \A m \in Mission : st[m] # status[m] =>
       st[m] = "queued" /\ status[m] \in {"absent", "interrupted"} /\ (stopped'[m] => status[m] = "absent")
DispatchStep ==
  /\ \E st, cmp, ld, js : Queues(st) /\ ProcessNext(st, active, cmp, ld, js)
  /\ \A m \in Mission : stopped'[m] => stopped[m]

\* Every step is calm, or it is processNext's.
LEMMA UserStatus ==
  ASSUME Known, User
  PROVE  CalmStep \/ DispatchStep
<1>a. status \in [Mission -> Status] /\ stopped \in [Mission -> BOOLEAN]
  BY DEF Known, TypeOK, DispTypes, HistTypes
<1>1. ASSUME NEW m \in Mission, Create(m) PROVE DispatchStep
  <2>1. Queues([status EXCEPT ![m] = "queued"]) /\ stopped' = stopped
    BY <1>a, <1>1 DEF Create, Queues, Status, hist
  <2>2. QED
    BY <1>1, <2>1 DEF Create, DispatchStep
<1>2. ASSUME NEW m \in Mission, Resume(m) PROVE DispatchStep
  <2>1. stopped' = [stopped EXCEPT ![m] = FALSE] /\ status[m] = "interrupted"
    BY <1>2 DEF Resume
  <2>2. Queues([status EXCEPT ![m] = "queued"]) /\ \A n \in Mission : stopped'[n] => stopped[n]
    BY <1>a, <2>1 DEF Queues, Status
  <2>3. QED
    BY <1>2, <2>2 DEF Resume, DispatchStep
<1>3. ASSUME NEW m \in Mission, CancelQueued(m) PROVE CalmStep
  BY <1>a, <1>3 DEF CancelQueued, CalmStep, Calm, Over
<1>4. ASSUME NEW m \in Mission, Approve(m) PROVE CalmStep
  BY <1>a, <1>4 DEF Approve, CalmStep, Calm, ActiveStatus, Status, hist
<1>5. ASSUME UNCHANGED <<status, stopped>> PROVE CalmStep
  BY <1>5 DEF CalmStep, Calm
<1>6. QED
  BY <1>1, <1>2, <1>3, <1>4, <1>5 DEF User, Interrupt, SetDispatchPaused, CompactConversation, ClearContext,
     disp, hist

LEMMA NoChange ==
  ASSUME UNCHANGED <<status, stopped>>
  PROVE  CalmStep
BY DEF CalmStep, Calm

LEMMA MicrotaskStatus ==
  ASSUME Known, Microtask
  PROVE  CalmStep \/ DispatchStep
<1>a. /\ status \in [Mission -> Status] /\ stopped \in [Mission -> BOOLEAN]
      /\ Starting /\ Stops /\ NoRecovery /\ jobs \in Seq(Job)
  BY DEF Known, Order, TypeOK, DispTypes, HistTypes
<1>b. jobs # <<>> => 1 \in DOMAIN jobs /\ jobs[1] = Head(jobs)
  BY <1>a
<1>1. ASSUME RunNext PROVE DispatchStep
  <2>1. Queues(status) /\ stopped' = stopped
    BY <1>a, <1>1 DEF RunNext, Queues, hist
  <2>2. QED
    BY <1>1, <2>1 DEF RunNext, DispatchStep
<1>2. ASSUME NEW m \in Mission, RunTurnStarted(m) PROVE CalmStep
  <2>1. status[m] = "starting"
    BY <1>a, <1>b, <1>2 DEF RunTurnStarted, Starting
  <2>2. status'[m] \in {"running", "completed", "failed", "interrupted"} /\ stopped' = stopped
        /\ \A n \in Mission : n # m => status'[n] = status[n]
    BY <1>a, <1>2 DEF RunTurnStarted, OutcomeStatus, hist
  <2>3. QED
    BY <2>1, <2>2 DEF CalmStep, Calm, ActiveStatus, Status
<1>3. ASSUME NEW m \in Mission, RunDispatchFailed(m) PROVE CalmStep
  <2>1. \/ Head(jobs).r = "infra" /\ status[m] \in {"starting", "queued", "interrupted"}
        \/ Head(jobs).r # "infra" /\ status[m] = "starting"
    BY <1>a, <1>b, <1>3 DEF RunDispatchFailed, Starting, Continues
  <2>2. stopped' = stopped /\ \A n \in Mission : n # m => status'[n] = status[n]
    BY <1>a, <1>3 DEF RunDispatchFailed, hist
  <2>3. status'[m] = IF status[m] = "interrupted" THEN status[m]
                     ELSE IF Head(jobs).r = "infra" THEN "queued" ELSE "failed"
    BY <1>a, <1>3 DEF RunDispatchFailed
  <2>4. QED
    BY <2>1, <2>2, <2>3 DEF CalmStep, Calm, ActiveStatus, Status, Over
<1>4. ASSUME NEW m \in Mission, RunInterrupted(m) PROVE CalmStep
  <2>1. status[m] \in Stopped
    BY <1>a, <1>b, <1>4 DEF RunInterrupted, Stops, StopJobs, Stopping
  <2>2. QED
    BY <1>a, <1>4, <2>1 DEF RunInterrupted, CalmStep, Calm, Stopped, ActiveStatus, Status, Over
<1>5. ASSUME NEW m \in Mission, RunRecoveryCompact(m) \/ RunRecoveryAwait(m) PROVE FALSE
  BY <1>a, <1>5 DEF NoRecovery, RunRecoveryCompact, RunRecoveryAwait
<1>6. ASSUME NEW m \in Mission, RunThreadReady(m) \/ RunStartFailed(m) \/ RunDispatched(m) PROVE CalmStep
  BY <1>6, NoChange DEF RunThreadReady, RunStartFailed, RunDispatched, hist
<1>7. ASSUME RunCompaction \/ ClearFailed PROVE CalmStep
  BY <1>7, NoChange DEF RunCompaction, ClearFailed, hist
<1>8. QED
  BY <1>1, <1>2, <1>3, <1>4, <1>5, <1>6, <1>7 DEF Microtask

\* processNext alone, of a timer, or at the end of a compaction that no mission waits for.
LEMMA TimerStatus ==
  ASSUME Known
  PROVE  /\ Timer => CalmStep \/ DispatchStep
         /\ CompactionEnds /\ stopped' = stopped => DispatchStep
<1>a. /\ status \in [Mission -> Status] /\ recovery = NoMission /\ \A m \in Mission : m # NoMission
  BY MissionAssumption DEF Known, Order, TypeOK, DispTypes, NoRecovery, NoMission
<1>1. ASSUME NEW st, NEW cmp, NEW ld, NEW js, ProcessNext(st, active, cmp, ld, js), st = status, stopped' = stopped
      PROVE  DispatchStep
  <2>1. Queues(st)
    BY <1>a, <1>1 DEF Queues
  <2>2. QED
    BY <1>1, <2>1 DEF DispatchStep
<1>2. /\ [m \in Mission |-> IF m = recovery THEN "failed" ELSE status[m]] = status
      /\ [m \in Mission |-> IF m = recovery THEN "queued" ELSE status[m]] = status
  BY <1>a
<1>3. CompactionEnds /\ stopped' = stopped => DispatchStep
  BY <1>1, <1>2 DEF CompactionEnds
<1>4. Timer => CalmStep \/ DispatchStep
  BY <1>1, <1>2, NoChange DEF Timer, CompactionTimeout, DispatchRetry, InitializeConversation, disp, hist
<1>5. QED
  BY <1>3, <1>4

LEMMA ReadStatus ==
  ASSUME Known, Read
  PROVE  CalmStep \/ DispatchStep
<1>a. /\ TypeOK /\ Tokens /\ Working /\ Fresh /\ NoRecovery /\ status \in [Mission -> Status]
  BY DEF Known, Order, TypeOK, DispTypes
<1>1. ASSUME HandleReply \/ HandleTurnStarted PROVE CalmStep
  BY <1>1, NoChange DEF HandleReply, HandleTurnStarted, disp, hist
<1>2. ASSUME CompactionEnds, UNCHANGED hist PROVE CalmStep \/ DispatchStep
  BY <1>2, TimerStatus DEF hist
<1>3. ASSUME HandleTurnCompleted PROVE CalmStep \/ DispatchStep
  <2> DEFINE l == Head(chan)
  <2>a. chan[1] = l /\ 1 \in DOMAIN chan /\ l \in Message /\ l.k = "completed" /\ Reading("completed") /\ UNCHANGED hist
    BY <1>a, <1>3, MovedRead DEF HandleTurnCompleted
  <2>1. ASSUME NEW m \in Mission, FoundByTurn(m, l.t), status' = [status EXCEPT ![m] = OutcomeStatus(l.r)]
        PROVE  CalmStep
    <3>1. status'[m] \in Over \cap Status
      BY <1>a, <2>1 DEF OutcomeStatus, Over, Status
    <3>2. status[m] \in ActiveStatus \cup Over
      <4>1. l.t # NoTurn /\ owner[l.t] = m /\ turn[m] = l.t /\ TurnLine(l)
        BY <1>a, <2>a, <2>1, MissionAssumption DEF FoundByTurn, Fresh, Tokens, Numbered, TurnLine, NoMission
      <4>2. CASE Late(l)
        BY <4>1, <4>2 DEF Late, Over
      <4>3. CASE ~Late(l)
        BY <1>a, <2>a, <4>1, <4>3, ReadNow DEF Working
      <4>4. QED
        BY <4>2, <4>3
    <3>3. stopped' = stopped /\ \A n \in Mission : n # m => status'[n] = status[n]
      BY <1>a, <2>a, <2>1 DEF hist
    <3>4. QED
      BY <3>1, <3>2, <3>3 DEF CalmStep, Calm, Over, ActiveStatus
  <2>2. ASSUME UNCHANGED <<disp, comp>> PROVE CalmStep
    BY <2>a, <2>2, NoChange DEF disp, hist
  <2>3. QED
    BY <1>2, <1>3, <2>a, <2>1, <2>2 DEF HandleTurnCompleted
<1>4. ASSUME HandleCompacted PROVE CalmStep \/ DispatchStep
  BY <1>2, <1>4 DEF HandleCompacted
<1>5. ASSUME HandleContextError PROVE FALSE
  BY <1>a, <1>5, MovedRead DEF HandleContextError, NoRecovery
<1>6. ASSUME HandleServerRequest PROVE CalmStep
  <2> DEFINE l == Head(chan)
  <2>a. chan[1] = l /\ 1 \in DOMAIN chan /\ l \in Message /\ l.k = "ask" /\ Reading("ask") /\ UNCHANGED hist
    BY <1>a, <1>6, MovedRead DEF HandleServerRequest
  <2>1. TurnLine(l) /\ ~Late(l)
    BY <1>a, <2>a DEF TurnLine, Late, LateEnd, Fresh
  <2>2. l.t # NoTurn /\ active = owner[l.t]
    BY <1>a, <2>a, <2>1, ReadNow DEF TurnLine
  <2>3. \A m \in Mission : FoundByTurn(m, l.t) => m = active
    BY <1>a, <2>2 DEF FoundByTurn, Tokens, Numbered
  <2>4. \A m \in Mission : FoundByTurn(m, l.t) => status[m] \in ActiveStatus
    BY <1>a, <2>3 DEF Working
  <2>5. stopped' = stopped /\ \A m \in Mission :
          status'[m] = IF FoundByTurn(m, l.t) THEN "awaiting_approval" ELSE status[m]
    BY <1>6, <2>a DEF HandleServerRequest, hist
  <2>6. QED
    BY <2>4, <2>5 DEF CalmStep, Calm, ActiveStatus, Status
<1>7. QED
  BY <1>1, <1>3, <1>4, <1>5, <1>6 DEF Read

LEMMA FailureStatus ==
  ASSUME Known, Failure
  PROVE  CalmStep
<1>a. status \in [Mission -> Status]
  BY DEF Known, TypeOK, DispTypes
<1>1. ASSUME CodexExit PROVE CalmStep
  <2>1. stopped' = stopped
    BY <1>1 DEF CodexExit
  <2>2. \A m \in Mission : \/ status'[m] = status[m]
                           \/ status[m] \in ActiveStatus /\ status'[m] \in {"queued", "interrupted"}
    BY <1>a, <1>1 DEF CodexExit, HandleCodexExit
  <2>3. QED
    BY <2>1, <2>2 DEF CalmStep, Calm, Status
<1>2. ASSUME ApplicationRestart PROVE CalmStep
  <2>1. stopped' = stopped
    BY <1>2 DEF ApplicationRestart
  <2>2. \A m \in Mission : \/ status'[m] = status[m]
                           \/ status[m] \in ActiveStatus /\ status'[m] \in {"queued", "interrupted"}
    BY <1>a, <1>2 DEF ApplicationRestart, LostStatus
  <2>3. QED
    BY <2>1, <2>2 DEF CalmStep, Calm, Status
<1>3. QED
  BY <1>1, <1>2, NoChange DEF Failure, ThreadFails, RequestTimeout

LEMMA StatusStep ==
  ASSUME Known, [Next]_vars
  PROVE  CalmStep \/ DispatchStep
<1>1. Settle \/ CodexReady \/ AppServer \/ UNCHANGED vars => UNCHANGED <<status, stopped>>
  BY DEF Settle, ThreadOpened, ContextCleared, DirectoryMade, CodexReady, AppServer, ServeRequest, EndTurn,
     OpenTurn, RejectTurn, FinishTurn, OverflowTurn, CompactAutomatically, AskApproval, ServeInterrupt,
     ServeCompact, FinishCompaction, vars, disp, hist
<1>2. CASE Timer
  BY <1>2, TimerStatus
<1>3. CASE Settle \/ CodexReady \/ AppServer \/ UNCHANGED vars
  BY <1>1, <1>3, NoChange
<1>4. QED
  BY <1>2, <1>3, UserStatus, MicrotaskStatus, ReadStatus, FailureStatus DEF Next

\* "A user stop is terminal": a mission that the user stopped is over, and nothing but
\* the user's resume queues it again.
Final == \A m \in Mission : stopped[m] => status[m] \in Over

THEOREM UserStopIsTerminalCorrect == Spec => [](Orderly => UserStopIsTerminal)
<1> DEFINE F == Orderly => Final
           K == Orderly => Known
<1>1. Init => F
  BY DEF Init, Final
<1>2. K /\ F /\ [Next]_vars => F'
  <2> SUFFICES ASSUME K, F, [Next]_vars, Orderly', NEW m \in Mission, stopped'[m] PROVE status'[m] \in Over
    BY DEF Final
  <2>1. Known /\ Final
    BY SameScenario DEF Orderly
  <2>2. CASE CalmStep
    <3>1. stopped[m] => status[m] \in Over
      BY <2>1 DEF Final
    <3>2. QED
      BY <2>2, <3>1 DEF CalmStep, Calm, Over, ActiveStatus
  <2>3. ASSUME NEW st, NEW cmp, NEW ld, NEW js, Queues(st), ProcessNext(st, active, cmp, ld, js), stopped[m]
        PROVE  status'[m] \in Over
    <3>1. status[m] \in Over
      BY <2>1, <2>3 DEF Final
    <3>2. st[m] = status[m] /\ st \in [Mission -> Status]
      BY <2>3, <3>1 DEF Queues, Over
    <3>3. st[m] # "queued"
      BY <3>1, <3>2 DEF Over
    <3>4. QED
      BY <2>3, <3>1, <3>2, <3>3 DEF ProcessNext, IsNextQueued
  <2>4. QED
    BY <2>1, <2>2, <2>3, StatusStep DEF DispatchStep
<1>3. Final => UserStopIsTerminal
  BY DEF Final, UserStopIsTerminal, Over, PendingStatus, ActiveStatus
<1>4. K /\ F => (Orderly => UserStopIsTerminal)
  BY <1>3
<1>5. QED
  BY <1>1, <1>2, <1>4, KnownCorrect, PTL DEF Spec

-----------------------------------------------------------------------------
\* The thread is cleared alone

\* A step that starts no mission and does not begin to clear.
Resting == /\ active' \in {active, NoMission}
           /\ \A m \in Mission : stage[m] = "idle" => stage'[m] = "idle"
           /\ man' = "clear" => man = "clear"

\* Each kind of step is at rest, or it is processNext's.
LEMMA RestingUser ==
  ASSUME TypeOK, User, ~ClearContext
  PROVE  Resting \/ \E st, cmp, ld, js : ProcessNext(st, active, cmp, ld, js) /\ man' = man
<1>1. ASSUME NEW m \in Mission, Create(m) \/ Resume(m)
      PROVE  \E st, cmp, ld, js : ProcessNext(st, active, cmp, ld, js) /\ man' = man
  BY <1>1 DEF Create, Resume, cont
<1>2. QED
  BY <1>1 DEF User, Resting, CancelQueued, Interrupt, Approve, SetDispatchPaused, CompactConversation, disp, cont

LEMMA RestingMicrotask ==
  ASSUME TypeOK, DispatchLock, Microtask
  PROVE  Resting \/ \E st, cmp, ld, js : ProcessNext(st, active, cmp, ld, js) /\ man' = man
<1>a. stage \in [Mission -> Stage] /\ active \in Mission \cup {NoMission} /\ jobs \in Seq(Job)
  BY DEF TypeOK, DispTypes
<1>1. ASSUME RunNext PROVE \E st, cmp, ld, js : ProcessNext(st, active, cmp, ld, js) /\ man' = man
  BY <1>1 DEF RunNext, cont
<1>2. ASSUME NEW m \in Mission, RunThreadReady(m) PROVE Resting
  BY <1>a, <1>2 DEF RunThreadReady, SendTurn, Resting, cont
<1>3. ASSUME NEW m \in Mission, RunTurnStarted(m) \/ RunStartFailed(m) PROVE Resting
  BY <1>a, <1>3 DEF RunTurnStarted, RunStartFailed, Resting, cont
<1>4. ASSUME NEW m \in Mission, RunDispatched(m) \/ RunDispatchFailed(m) PROVE Resting
  BY <1>a, <1>4 DEF RunDispatched, RunDispatchFailed, Resting, cont
<1>5. ASSUME NEW m \in Mission, RunInterrupted(m) \/ RunRecoveryCompact(m) \/ RunRecoveryAwait(m)
      PROVE  Resting
  BY <1>a, <1>5 DEF RunInterrupted, FinishActive, RunRecoveryCompact, RunRecoveryAwait, Resting, cont
<1>6. ASSUME RunCompaction \/ ClearFailed PROVE Resting
  BY <1>6 DEF RunCompaction, ClearFailed, Resting
<1>7. QED
  BY <1>1, <1>2, <1>3, <1>4, <1>5, <1>6 DEF Microtask

LEMMA RestingStep ==
  ASSUME TypeOK, DispatchLock, [Next]_vars, ~ClearContext
  PROVE  Resting \/ \E st, cmp, ld, js : ProcessNext(st, active, cmp, ld, js) /\ man' = man
<1> DEFINE Begun == \E st, cmp, ld, js : ProcessNext(st, active, cmp, ld, js) /\ man' = man
<1>a. stage \in [Mission -> Stage] /\ active \in Mission \cup {NoMission}
  BY DEF TypeOK, DispTypes
<1>1. ASSUME Settle PROVE Resting
  BY <1>a, <1>1 DEF Settle, ThreadOpened, ContextCleared, DirectoryMade, SendTurn, Resting, cont
<1>2. ASSUME Timer PROVE Resting \/ Begun
  <2>1. ASSUME CompactionTimeout \/ InitializeConversation PROVE Resting \/ Begun
    BY <2>1 DEF CompactionTimeout, InitializeConversation, Resting, cont, disp
  <2>2. QED
    BY <1>2, <2>1 DEF Timer, DispatchRetry, Resting, cont, disp
<1>3. ASSUME Read PROVE Resting \/ Begun
  <2>1. ASSUME HandleCompacted \/ HandleTurnCompleted PROVE Resting \/ Begun
    BY <2>1 DEF HandleCompacted, HandleTurnCompleted, CompactionEnds, FinishActive, Resting, cont, disp
  <2>2. ASSUME HandleReply PROVE Resting
    <3>1. Head(chan).q.k = "turn" => Head(chan).q.m \in Mission
      BY <2>2, RequestMission, ReadTypes DEF HandleReply, TypeOK
    <3>2. QED
      BY <1>a, <2>2, <3>1 DEF HandleReply, Resting
  <2>3. ASSUME HandleTurnStarted \/ HandleContextError \/ HandleServerRequest PROVE Resting
    BY <2>3 DEF HandleTurnStarted, HandleContextError, RecoverFromContextWindow, HandleServerRequest,
       FinishActive, Resting, cont, disp
  <2>4. QED
    BY <1>3, <2>1, <2>2, <2>3 DEF Read
<1>4. ASSUME Failure PROVE Resting
  BY <1>a, <1>4 DEF Failure, CodexExit, HandleCodexExit, ApplicationRestart, ThreadFails, RequestTimeout, Resting, cont
<1>5. ASSUME CodexReady \/ AppServer \/ UNCHANGED vars PROVE Resting
  BY <1>5 DEF CodexReady, AppServer, ServeRequest, EndTurn, OpenTurn, RejectTurn, FinishTurn, OverflowTurn,
     CompactAutomatically, AskApproval, ServeInterrupt, ServeCompact, FinishCompaction, vars, disp, cont, Resting
<1>6. QED
  BY <1>1, <1>2, <1>3, <1>4, <1>5, RestingUser, RestingMicrotask DEF Next

\* While clearContext awaits its new thread no mission is started or at work, in an orderly
\* scenario: it begins when none is, and processNext's guard lets none begin.
THEOREM ClearsAloneCorrect == Spec => [](Orderly => ClearsAlone)
<1> DEFINE F == Orderly => ClearsAlone
           K == Orderly => Known
<1>1. Init => F
  BY DEF Init, ClearsAlone, Clearing
<1>2. K /\ F /\ [Next]_vars => F'
  <2> SUFFICES ASSUME K, F, [Next]_vars, Orderly', Clearing' PROVE ClearsAlone'
    BY DEF ClearsAlone
  <2>1. Known /\ ClearsAlone
    BY SameScenario DEF Orderly
  <2>2. TypeOK /\ DispatchLock /\ \A m \in Mission : m # NoMission
    BY <2>1, MissionAssumption DEF Known, NoMission
  <2>3. CASE ClearContext
    <3>1. \A m \in Mission : stage[m] = "idle"
      BY <2>1, <2>3, Waits DEF ClearContext, PendingStatus, ActiveStatus
    <3>2. QED
      BY <2>3, <3>1 DEF ClearContext, ClearsAlone, disp
  <2>4. CASE Resting
    BY <2>1, <2>4 DEF Resting, ClearsAlone, Clearing
  <2>5. ASSUME NEW st, NEW cmp, NEW ld, NEW js, ProcessNext(st, active, cmp, ld, js), man' = man
        PROVE  ClearsAlone'
    BY <2>1, <2>5 DEF ProcessNext, MayDispatch, ClearsAlone, Clearing
  <2>6. QED
    BY <2>2, <2>3, <2>4, <2>5, RestingStep
<1>3. QED
  BY <1>1, <1>2, KnownCorrect, PTL DEF Spec

-----------------------------------------------------------------------------
\* The dispatcher is a serial queue

\* A mission's phase, before and after a step.
LEMMA Phases ==
  /\ \A m \in Mission : status[m] \in Status =>
       TaskPhase[m] = IF status[m] = "absent" THEN "new" ELSE IF status[m] = "queued" THEN "waiting"
                      ELSE IF status[m] \in ActiveStatus THEN "working" ELSE "done"
  /\ \A m \in Mission : status'[m] \in Status =>
       TaskPhase'[m] = IF status'[m] = "absent" THEN "new" ELSE IF status'[m] = "queued" THEN "waiting"
                       ELSE IF status'[m] \in ActiveStatus THEN "working" ELSE "done"
BY DEF TaskPhase, Status, ActiveStatus

\* A step that begins no mission is a step of the queue, and so is processNext's.
LEMMA SerialStep ==
  ASSUME Known, TypeOK', [Next]_vars
  PROVE  Serial!Next
<1>a. status \in [Mission -> Status] /\ status' \in [Mission -> Status] /\ Working
  BY DEF Known, Order, TypeOK, DispTypes
<1> DEFINE Active(m) == status'[m] \in ActiveStatus
<1>1. ASSUME CalmStep PROVE Serial!Next
  <2>1. \A m \in Mission : Active(m) => status[m] \in ActiveStatus
    BY <1>1 DEF CalmStep, Calm, Over, ActiveStatus
  <2>2. \A m \in Mission : ~Serial!Begins(m)
    BY <1>a, <2>1, Phases DEF Serial!Begins, ActiveStatus
  <2>3. ASSUME NEW m \in Mission PROVE TaskPhase'[m] \in Serial!Moves[TaskPhase[m]]
    BY <1>a, <1>1, Phases DEF Serial!Moves, CalmStep, Calm, Over, ActiveStatus, Status
  <2>4. QED
    BY <2>2, <2>3 DEF Serial!Next
<1>2. ASSUME NEW st, NEW cmp, NEW ld, NEW js, Queues(st), ProcessNext(st, active, cmp, ld, js)
      PROVE  Serial!Next
  <2>a. \A k \in Mission : \/ st[k] = status[k]
                           \/ st[k] = "queued" /\ status[k] \in {"absent", "interrupted"}
    BY <1>2 DEF Queues
  <2>1. ASSUME status' = st PROVE Serial!Next
    <3>1. \A k \in Mission : ~Serial!Begins(k)
      BY <1>a, <2>a, <2>1, Phases DEF Serial!Begins, ActiveStatus
    <3>2. \A k \in Mission : TaskPhase'[k] \in Serial!Moves[TaskPhase[k]]
      BY <1>a, <2>a, <2>1, Phases DEF Serial!Moves, ActiveStatus, Status
    <3>3. QED
      BY <3>1, <3>2 DEF Serial!Next
  <2>2. ASSUME NEW m \in Mission, active = NoMission, IsNextQueued(m, st), status' = [st EXCEPT ![m] = "starting"]
        PROVE  Serial!Next
    <3>1. st \in [Mission -> Status] /\ m \in Nat /\ m # NoMission
      BY <1>2, MissionAssumption DEF Queues, NoMission
    <3>2. status'[m] = "starting" /\ status[m] \in {"absent", "queued", "interrupted"}
      BY <2>a, <2>2, <3>1 DEF IsNextQueued
    <3>3. \A k \in Mission : k # m => status'[k] = st[k] /\ ~Active(k) /\ status[k] \notin ActiveStatus
      BY <1>a, <2>a, <2>2, <3>1, MissionAssumption DEF Working, ActiveStatus, NoMission
    <3>4. \A k \in Mission : k < m => st[k] # "queued"
      BY <2>2, <3>1, MissionAssumption DEF IsNextQueued
    <3>5. \A k \in Mission : Serial!Begins(k) => k = m
      BY <1>a, <3>3, Phases DEF Serial!Begins, ActiveStatus
    <3>6. Serial!FreeAndFirst(m)
      <4>1. ASSUME NEW k \in Mission \ {m}
            PROVE  TaskPhase[k] # "working" /\ TaskPhase'[k] # "working" /\ (k < m => TaskPhase'[k] # "waiting")
        BY <1>a, <3>3, <3>4, Phases
      <4>2. QED
        BY <4>1 DEF Serial!FreeAndFirst
    <3>7. \A k \in Mission : TaskPhase'[k] \in Serial!Moves[TaskPhase[k]]
      BY <1>a, <2>a, <3>2, <3>3, Phases DEF Serial!Moves, ActiveStatus, Status
    <3>8. QED
      BY <3>5, <3>6, <3>7 DEF Serial!Next
  <2>3. QED
    BY <1>2, <2>1, <2>2 DEF ProcessNext, MayDispatch
<1>3. QED
  BY <1>1, <1>2, StatusStep DEF DispatchStep

\* The dispatcher is a serial queue in an orderly scenario: it begins a mission only when
\* none is at work, and the one with the smallest enqueue sequence of those that wait.
THEOREM SerialCorrect == Spec => (Orderly => ServesSerially)
<1> DEFINE K == Orderly => Known
<1>1. Init => Serial!Init
  <2> SUFFICES ASSUME status = [m \in Mission |-> "absent"] PROVE Serial!Init
    BY DEF Init
  <2>1. TaskPhase = [m \in Mission |-> "new"]
    <3>1. \A m \in Mission : (CASE status[m] = "absent" -> "new"
                                [] status[m] = "queued" -> "waiting"
                                [] status[m] \in ActiveStatus -> "working"
                                [] OTHER -> "done") = "new"
      BY DEF ActiveStatus
    <3>2. QED
      BY <3>1 DEF TaskPhase
  <2>2. QED
    BY <2>1 DEF Serial!Init
<1>2. Orderly /\ [Next]_vars => Orderly'
  BY SameScenario DEF Orderly
<1>3. Orderly /\ K /\ TypeOK' /\ [Next]_vars => [Serial!Next]_TaskPhase
  BY SerialStep
<1>4. QED
  BY <1>1, <1>2, <1>3, KnownCorrect, TypeCorrect, PTL DEF Spec, ServesSerially, Serial!Spec

-----------------------------------------------------------------------------
\* A prompt is sent at most twice per resume

\* The failure of a start, lost by the app-server, on its way to processNext.
Fails(js, m) == \E i \in DOMAIN js : Continues(js[i]) /\ js[i].m = m /\ js[i].r = "infra"

\* A run of the mission that is still to send its prompt, or that ended without.
Early == {"thread", "threadOk", "dir"}
Owed(m) == \/ status[m] \in {"absent", "queued"}
           \/ status[m] = "starting" /\ (stage[m] \in Early \/ Fails(jobs, m))

\* What was sent, what is to be sent and the recovery that is to be had are within what
\* the resumes allow.
Budget == \A m \in Mission :
  sends[m] + (IF Owed(m) THEN 1 ELSE 0) + (1 - attempts[m]) <= 2 * (1 + resumes[m])

\* What a step may do to a mission's budget: nothing, or use its recovery to run it again;
\* send its prompt; or resume it.
Keeps(m) == /\ sends'[m] = sends[m] /\ resumes'[m] = resumes[m]
            /\ \/ attempts'[m] = attempts[m] /\ (Owed(m)' => Owed(m))
               \/ attempts[m] = 0 /\ attempts'[m] = 1
Prompts(m) == /\ sends'[m] = sends[m] + 1 /\ resumes'[m] = resumes[m] /\ attempts'[m] = attempts[m]
              /\ Owed(m) /\ ~Owed(m)'
Resumes(m) == /\ sends'[m] = sends[m] /\ resumes'[m] = resumes[m] + 1 /\ attempts'[m] = 0
              /\ ~Owed(m)
BudgetStep == \A m \in Mission : Keeps(m) \/ Prompts(m) \/ Resumes(m)

\* A failure in a queue that was shortened or lengthened.
LEMMA FailsSteps ==
  ASSUME NEW js \in Seq(Job), NEW m
  PROVE  /\ js # <<>> => (Fails(Tail(js), m) => Fails(js, m))
         /\ \A j \in Job : Fails(Append(js, j), m) =>
              Fails(js, m) \/ (Continues(j) /\ j.m = m /\ j.r = "infra")
<1>1. ASSUME js # <<>>, Fails(Tail(js), m) PROVE Fails(js, m)
  <2>1. PICK i \in DOMAIN Tail(js) : Continues(Tail(js)[i]) /\ Tail(js)[i].m = m /\ Tail(js)[i].r = "infra"
    BY <1>1 DEF Fails
  <2>2. i + 1 \in DOMAIN js /\ Tail(js)[i] = js[i + 1]
    BY <1>1
  <2>3. QED
    BY <2>1, <2>2 DEF Fails
<1>2. ASSUME NEW j \in Job, Fails(Append(js, j), m)
      PROVE  Fails(js, m) \/ (Continues(j) /\ j.m = m /\ j.r = "infra")
  <2>1. PICK i \in DOMAIN Append(js, j) :
          Continues(Append(js, j)[i]) /\ Append(js, j)[i].m = m /\ Append(js, j)[i].r = "infra"
    BY <1>2 DEF Fails
  <2>2. \/ i \in DOMAIN js /\ Append(js, j)[i] = js[i]
        \/ Append(js, j)[i] = j
    OBVIOUS
  <2>3. QED
    BY <2>1, <2>2 DEF Fails
<1>3. QED
  BY <1>1, <1>2

\* The jobs that are no failure of a start.
LEMMA OtherFailures ==
  /\ NextJob \in Job /\ ~Continues(NextJob)
  /\ \A r \in Result : ManJob(r) \in Job /\ ~Continues(ManJob(r))
  /\ \A m \in Mission, r \in Result : StopJob(m, r) \in Job /\ RecJob(m, r) \in Job
                                      /\ ~Continues(StopJob(m, r)) /\ ~Continues(RecJob(m, r))
  /\ \A m \in Mission, t \in Turn \cup {NoTurn}, r \in Result :
       StartJob(m, t, r) \in Job /\ StartJob(m, t, r).r = r /\ StartJob(m, t, r).m = m
  /\ \A m \in Mission, r \in Result : EndJob(m, r) \in Job /\ EndJob(m, r).r = r /\ EndJob(m, r).m = m
BY JobTypes DEF Continues, NextJob, ManJob, StopJob, RecJob, StartJob, EndJob

\* What happens to the queue of microtasks adds no failure.
Unfailing == \A m \in Mission : Fails(jobs', m) => Fails(jobs, m)
LEMMA UnfailingSteps ==
  ASSUME TypeOK
  PROVE  /\ jobs' = jobs => Unfailing
         /\ \A j \in Job : jobs' = Append(jobs, j) /\ (~Continues(j) \/ j.r # "infra") => Unfailing
         /\ jobs # <<>> /\ jobs' = Tail(jobs) => Unfailing
         /\ \A j \in Job : (jobs # <<>> /\ jobs' = Append(Tail(jobs), j)
                            /\ (~Continues(j) \/ j.r # "infra")) => Unfailing
<1>a. jobs \in Seq(Job) /\ (jobs # <<>> => Tail(jobs) \in Seq(Job))
  BY DEF TypeOK, DispTypes
<1>1. ASSUME NEW js \in Seq(Job), NEW j \in Job, jobs' = Append(js, j), ~Continues(j) \/ j.r # "infra",
             \A m \in Mission : Fails(js, m) => Fails(jobs, m)
      PROVE  Unfailing
  <2> SUFFICES ASSUME NEW m \in Mission, Fails(jobs', m) PROVE Fails(jobs, m)
    BY DEF Unfailing
  <2>1. Fails(Append(js, j), m)
    BY <1>1
  <2>2. QED
    BY <1>1, <2>1, FailsSteps
<1>2. \A m \in Mission : jobs # <<>> => (Fails(Tail(jobs), m) => Fails(jobs, m))
  BY <1>a, FailsSteps
<1>3. jobs' = jobs \/ (jobs # <<>> /\ jobs' = Tail(jobs)) => Unfailing
  BY <1>2 DEF Unfailing
<1>4. QED
  BY <1>a, <1>1, <1>2, <1>3

\* A step that sends nothing, begins nothing and loses nothing.
LEMMA QuietBudget ==
  ASSUME TypeOK, UNCHANGED <<sends, resumes, attempts>>,
         \A m \in Mission : status'[m] = status[m] \/ status'[m] \notin {"absent", "queued", "starting"},
         \A m \in Mission : \/ stage'[m] = stage[m] \/ stage'[m] \notin Early
                            \/ status[m] = "starting" /\ stage[m] \in Early,
         \A m \in Mission : Fails(jobs', m) => Fails(jobs, m) \/ stage[m] \in Early
  PROVE  BudgetStep
<1>1. ASSUME NEW m \in Mission, Owed(m)' PROVE Owed(m)
  BY <1>1 DEF Owed
<1>2. QED
  BY <1>1 DEF BudgetStep, Keeps

\* processNext, after the statuses st were computed.
LEMMA ProcessNextBudget ==
  ASSUME Known, NEW st, NEW cmp, NEW ld, NEW js \in Seq(Job), ProcessNext(st, active, cmp, ld, js),
         st \in [Mission -> Status], \A m \in Mission : Fails(js, m) => Fails(jobs, m),
         NEW n \in Mission, Owed(n)'
  PROVE  \/ st[n] \in {"absent", "queued"}
         \/ st[n] = "starting" /\ (stage[n] \in Early \/ Fails(jobs, n))
<1>a. stage \in [Mission -> Stage]
  BY DEF Known, TypeOK, DispTypes
<1>1. CASE status' = st /\ jobs' = js /\ stage' = stage
  BY <1>1 DEF Owed
<1>2. ASSUME NEW m \in Mission, st[m] = "queued", status' = [st EXCEPT ![m] = "starting"],
             stage' = [stage EXCEPT ![m] = IF ld THEN "threadOk" ELSE "thread"],
             jobs' = IF ld THEN Append(js, StartJob(m, NoTurn, "ok")) ELSE js
      PROVE  \/ st[n] \in {"absent", "queued"}
             \/ st[n] = "starting" /\ (stage[n] \in Early \/ Fails(jobs, n))
  <2>1. CASE n = m
    BY <1>2, <2>1
  <2>2. CASE n # m
    <3>1. status'[n] = st[n] /\ stage'[n] = stage[n]
      BY <1>a, <1>2, <2>2
    <3>2. StartJob(m, NoTurn, "ok") \in Job /\ StartJob(m, NoTurn, "ok").r = "ok"
      BY OtherFailures DEF Result
    <3>3. Fails(jobs', n) => Fails(js, n)
      BY <1>2, <3>2, FailsSteps
    <3>4. QED
      BY <3>1, <3>3 DEF Owed
  <2>3. QED
    BY <2>1, <2>2
<1>3. QED
  BY <1>1, <1>2 DEF ProcessNext, IsNextQueued

\* processNext where nothing is created or resumed.
LEMMA DispatchBudget ==
  ASSUME Known, NEW cmp, NEW ld, NEW js \in Seq(Job), ProcessNext(status, active, cmp, ld, js),
         \A m \in Mission : Fails(js, m) => Fails(jobs, m), UNCHANGED <<sends, resumes, attempts>>
  PROVE  BudgetStep
<1>a. status \in [Mission -> Status]
  BY DEF Known, TypeOK, DispTypes
<1>1. \A m \in Mission : Owed(m)' => Owed(m)
  BY <1>a, ProcessNextBudget DEF Owed
<1>2. QED
  BY <1>1 DEF BudgetStep, Keeps

\* startTurn is called for a mission whose prompt is owed; once it is sent it is not.
LEMMA SendBudget ==
  ASSUME Known, DispatchLock', NEW m \in Mission, stage[m] \in {"threadOk", "dir"},
         NEW js \in Seq(Job), SendTurn(m, js), \A n \in Mission : Fails(js, n) => Fails(jobs, n),
         UNCHANGED <<status, resumes, attempts>>
  PROVE  BudgetStep
<1>a. stage \in [Mission -> Stage] /\ sends \in [Mission -> Nat] /\ status[m] = "starting"
  BY DEF Known, Order, Starting, TypeOK, DispTypes, HistTypes
<1>b. Owed(m)
  BY <1>a DEF Owed, Early
<1>1. CASE process = "ready"
  <2>1. /\ stage' = [stage EXCEPT ![m] = "turn"] /\ sends' = [sends EXCEPT ![m] = @ + 1] /\ jobs' = js
    BY <1>1 DEF SendTurn
  <2>2. ~Fails(jobs', m)
    <3>1. stage'[m] = "turn"
      BY <1>a, <2>1
    <3>2. \A i \in DOMAIN jobs' : Continues(jobs'[i]) => jobs'[i].m # m
      BY <3>1 DEF DispatchLock, Locked, Continues
    <3>3. QED
      BY <3>2 DEF Fails
  <2>3. ~Owed(m)'
    BY <1>a, <2>1, <2>2 DEF Owed, Early
  <2>4. Prompts(m)
    BY <1>a, <1>b, <2>1, <2>3 DEF Prompts
  <2>5. ASSUME NEW n \in Mission, n # m PROVE Keeps(n)
    <3>1. Owed(n)' => Owed(n)
      BY <1>a, <2>1, <2>5 DEF Owed
    <3>2. QED
      BY <1>a, <2>1, <2>5, <3>1 DEF Keeps
  <2>6. QED
    BY <2>4, <2>5 DEF BudgetStep
<1>2. CASE process # "ready"
  <2>1. /\ stage' = [stage EXCEPT ![m] = "settled"] /\ sends' = sends
        /\ jobs' = Append(js, StartJob(m, NoTurn, "infra"))
    BY <1>2 DEF SendTurn
  <2>2. ASSUME NEW n \in Mission, n # m, Fails(jobs', n) PROVE Fails(jobs, n)
    <3>1. StartJob(m, NoTurn, "infra") \in Job /\ StartJob(m, NoTurn, "infra").m = m
      BY OtherFailures DEF Result
    <3>2. Fails(js, n)
      BY <2>1, <2>2, <3>1, FailsSteps
    <3>3. QED
      BY <2>2, <3>2
  <2>3. \A n \in Mission : Owed(n)' => Owed(n)
    BY <1>a, <1>b, <2>1, <2>2 DEF Owed
  <2>4. QED
    BY <2>1, <2>3 DEF BudgetStep, Keeps
<1>3. QED
  BY <1>1, <1>2

\* Each kind of step keeps every mission within its budget.
LEMMA UserBudget ==
  ASSUME Known, User
  PROVE  BudgetStep
<1>a. /\ status \in [Mission -> Status] /\ jobs \in Seq(Job) /\ TypeOK
      /\ resumes \in [Mission -> Nat] /\ attempts \in [Mission -> {0, 1}]
  BY DEF Known, TypeOK, DispTypes, HistTypes, ConvTypes
<1>b. NextJob \in Job /\ ~Continues(NextJob) /\ ManJob("ok") \in Job /\ ~Continues(ManJob("ok"))
  BY OtherFailures DEF Result
<1>1. ASSUME NEW m \in Mission, Create(m) PROVE BudgetStep
  <2>1. /\ ProcessNext([status EXCEPT ![m] = "queued"], active, compacting, loaded, jobs)
        /\ status[m] = "absent" /\ UNCHANGED <<sends, resumes, attempts>>
    BY <1>1 DEF Create, conv, hist
  <2>2. [status EXCEPT ![m] = "queued"] \in [Mission -> Status]
    BY <1>a DEF Status
  <2>3. ASSUME NEW n \in Mission, Owed(n)' PROVE Owed(n)
    <3>1. LET st == [status EXCEPT ![m] = "queued"]
          IN  \/ st[n] \in {"absent", "queued"}
              \/ st[n] = "starting" /\ (stage[n] \in Early \/ Fails(jobs, n))
      BY <1>a, <2>1, <2>2, <2>3, ProcessNextBudget
    <3>2. QED
      BY <1>a, <2>1, <3>1 DEF Owed
  <2>4. QED
    BY <2>1, <2>3 DEF BudgetStep, Keeps
<1>2. ASSUME NEW m \in Mission, Resume(m) PROVE BudgetStep
  <2>1. /\ ProcessNext([status EXCEPT ![m] = "queued"], active, compacting, loaded, jobs)
        /\ status[m] = "interrupted" /\ sends' = sends
        /\ resumes' = [resumes EXCEPT ![m] = @ + 1] /\ attempts' = [attempts EXCEPT ![m] = 0]
    BY <1>2 DEF Resume
  <2>2. [status EXCEPT ![m] = "queued"] \in [Mission -> Status]
    BY <1>a DEF Status
  <2>3. ASSUME NEW n \in Mission \ {m}, Owed(n)' PROVE Owed(n)
    <3>1. LET st == [status EXCEPT ![m] = "queued"]
          IN  \/ st[n] \in {"absent", "queued"}
              \/ st[n] = "starting" /\ (stage[n] \in Early \/ Fails(jobs, n))
      BY <1>a, <2>1, <2>2, <2>3, ProcessNextBudget
    <3>2. QED
      BY <1>a, <2>1, <3>1 DEF Owed
  <2>4. Resumes(m)
    BY <1>a, <2>1 DEF Resumes, Owed
  <2>5. \A n \in Mission \ {m} : Keeps(n)
    BY <1>a, <2>1, <2>3 DEF Keeps
  <2>6. QED
    BY <2>4, <2>5 DEF BudgetStep
<1>3. ASSUME UNCHANGED <<stage, sends, resumes, attempts>>, Unfailing,
             \A m \in Mission : status'[m] = status[m] \/ status'[m] \notin {"absent", "queued", "starting"}
      PROVE  BudgetStep
  BY <1>a, <1>3, QuietBudget DEF Unfailing
<1>4. ASSUME NEW m \in Mission, CancelQueued(m) \/ Interrupt(m) \/ Approve(m) PROVE BudgetStep
  <2>1. jobs' = jobs /\ UNCHANGED <<stage, sends, resumes, attempts>>
    BY <1>4 DEF CancelQueued, Interrupt, Approve, disp, conv, hist
  <2>2. \A n \in Mission : status'[n] \in {status[n], "cancelled", "running"}
    BY <1>a, <1>4 DEF CancelQueued, Interrupt, Approve, disp
  <2>3. QED
    BY <1>a, <1>3, <2>1, <2>2, UnfailingSteps
<1>5. ASSUME NEW p \in BOOLEAN, SetDispatchPaused(p) PROVE BudgetStep
  <2>1. Unfailing
    BY <1>a, <1>b, <1>5, UnfailingSteps DEF SetDispatchPaused
  <2>2. QED
    BY <1>3, <1>5, <2>1 DEF SetDispatchPaused, conv, hist
<1>6. ASSUME CompactConversation \/ ClearContext PROVE BudgetStep
  <2>1. Unfailing
    BY <1>a, <1>b, <1>6, UnfailingSteps DEF CompactConversation, ClearContext, disp
  <2>2. QED
    BY <1>3, <1>6, <2>1 DEF CompactConversation, ClearContext, disp, conv, hist
<1>7. QED
  BY <1>1, <1>2, <1>4, <1>5, <1>6 DEF User

LEMMA MicrotaskBudget ==
  ASSUME Known, DispatchLock', Microtask
  PROVE  BudgetStep
<1>a. /\ status \in [Mission -> Status] /\ stage \in [Mission -> Stage] /\ jobs \in Seq(Job) /\ TypeOK
      /\ attempts \in [Mission -> {0, 1}] /\ buffer \in [Turn -> Result \cup {"none"}] /\ NoRecovery
  BY DEF Known, Order, TypeOK, DispTypes, ConvTypes, FlagTypes
<1>b. NextJob \in Job /\ ~Continues(NextJob)
  BY OtherFailures
<1>c. jobs # <<>> => /\ Tail(jobs) \in Seq(Job) /\ Head(jobs).r \in Result
                     /\ 1 \in DOMAIN jobs /\ jobs[1] = Head(jobs)
                     /\ \A m \in Mission : Fails(Tail(jobs), m) => Fails(jobs, m)
  BY <1>a, HeadJobTypes, FailsSteps DEF TypeOK
<1>1. ASSUME RunNext PROVE BudgetStep
  BY <1>1, <1>c, DispatchBudget DEF RunNext, conv, hist
<1>2. ASSUME UNCHANGED <<sends, resumes, attempts, status, stage>>, Unfailing PROVE BudgetStep
  BY <1>a, <1>2, QuietBudget DEF Unfailing
<1>3. ASSUME RunCompaction \/ ClearFailed PROVE BudgetStep
  <2>1. Unfailing
    BY <1>a, <1>b, <1>3, UnfailingSteps DEF RunCompaction, ClearFailed
  <2>2. QED
    BY <1>2, <1>3, <2>1 DEF RunCompaction, ClearFailed, conv, hist
<1>4. ASSUME NEW m \in Mission, RunThreadReady(m) PROVE BudgetStep
  <2>1. stage[m] = "threadOk" /\ UNCHANGED <<status, resumes, attempts>> /\ jobs # <<>>
    BY <1>4 DEF RunThreadReady
  <2>2. CASE SendTurn(m, Tail(jobs))
    BY <1>c, <2>1, <2>2, SendBudget
  <2>3. CASE stage' = [stage EXCEPT ![m] = "dir"] /\ jobs' = Tail(jobs) /\ UNCHANGED <<sends, inbox>>
    <3>1. status[m] = "starting" /\ stage[m] \in Early
      BY <2>1 DEF Known, Order, Starting, Early
    <3>2. \A n \in Mission : stage'[n] = stage[n] \/ (status[n] = "starting" /\ stage[n] \in Early)
      BY <1>a, <2>3, <3>1
    <3>3. QED
      BY <1>a, <1>c, <2>1, <2>3, <3>2, QuietBudget
  <2>4. QED
    BY <1>4, <2>2, <2>3 DEF RunThreadReady
<1>5. ASSUME NEW m \in Mission, RunTurnStarted(m) PROVE BudgetStep
  <2> DEFINE js == IF buffer[Head(jobs).t] # "none" THEN Append(Tail(jobs), NextJob) ELSE Tail(jobs)
  <2>1. /\ jobs' = Append(js, EndJob(m, "ok")) /\ jobs # <<>> /\ stage' = [stage EXCEPT ![m] = "ending"]
        /\ UNCHANGED <<sends, resumes, attempts>>
    BY <1>5 DEF RunTurnStarted, hist
  <2>2. EndJob(m, "ok") \in Job /\ EndJob(m, "ok").r = "ok"
    BY OtherFailures DEF Result
  <2>3. js \in Seq(Job) /\ \A n \in Mission : Fails(js, n) => Fails(jobs, n)
    <3>1. Tail(jobs) \in Seq(Job) /\ \A n \in Mission : Fails(Tail(jobs), n) => Fails(jobs, n)
      BY <1>c, <2>1
    <3>2. Append(Tail(jobs), NextJob) \in Seq(Job)
      BY <1>b, <3>1
    <3>3. \A n \in Mission : Fails(Append(Tail(jobs), NextJob), n) => Fails(jobs, n)
      BY <1>b, <3>1, FailsSteps
    <3>4. QED
      BY <3>1, <3>2, <3>3
  <2>4. \A n \in Mission : Fails(jobs', n) => Fails(jobs, n)
    <3> HIDE DEF js
    <3>1. QED
      BY <2>1, <2>2, <2>3, FailsSteps
  <2>5. \A n \in Mission : \/ status'[n] = status[n]
                          \/ status'[n] \in {"running", "completed", "failed", "interrupted"}
    BY <1>a, <1>5 DEF RunTurnStarted, OutcomeStatus
  <2>6. \A n \in Mission : stage'[n] = stage[n] \/ stage'[n] \notin Early
    BY <1>a, <2>1 DEF Early
  <2>7. \A n \in Mission : status'[n] = status[n] \/ status'[n] \notin {"absent", "queued", "starting"}
    BY <2>5
  <2>8. QED
    BY <1>a, <2>1, <2>4, <2>6, <2>7, QuietBudget
<1>6. ASSUME NEW m \in Mission, RunStartFailed(m) PROVE BudgetStep
  <2>1. /\ stage' = [stage EXCEPT ![m] = "ending"] /\ jobs # <<>> /\ Head(jobs).k = "start" /\ Head(jobs).m = m
        /\ jobs' = Append(Tail(jobs), EndJob(m, Head(jobs).r))
        /\ UNCHANGED <<status, sends, resumes, attempts>>
    BY <1>6 DEF RunStartFailed, hist, conv
  <2>2. EndJob(m, Head(jobs).r) \in Job /\ EndJob(m, Head(jobs).r).r = Head(jobs).r /\ EndJob(m, Head(jobs).r).m = m
    BY <1>c, <2>1, OtherFailures
  <2>3. Head(jobs).r = "infra" => Fails(jobs, m)
    BY <1>c, <2>1 DEF Fails, Continues
  <2>4. \A n \in Mission : Fails(jobs', n) => Fails(jobs, n)
    BY <1>c, <2>1, <2>2, <2>3, FailsSteps
  <2>5. \A n \in Mission : stage'[n] = stage[n] \/ stage'[n] \notin Early
    BY <1>a, <2>1 DEF Early
  <2>6. QED
    BY <1>a, <2>1, <2>4, <2>5, QuietBudget
<1>7. ASSUME NEW m \in Mission, RunDispatched(m) PROVE BudgetStep
  <2>1. /\ stage' = [stage EXCEPT ![m] = "idle"] /\ jobs' = Tail(jobs) /\ jobs # <<>>
        /\ UNCHANGED <<status, sends, resumes, attempts>>
    BY <1>7 DEF RunDispatched, hist, conv
  <2>2. \A n \in Mission : stage'[n] = stage[n] \/ stage'[n] \notin Early
    BY <1>a, <2>1 DEF Early
  <2>3. QED
    BY <1>a, <1>c, <2>1, <2>2, QuietBudget
<1>8. ASSUME NEW m \in Mission, RunDispatchFailed(m) PROVE BudgetStep
  <2> DEFINE infra == Head(jobs).r = "infra"
  <2>1. /\ stage' = [stage EXCEPT ![m] = "idle"] /\ jobs # <<>> /\ Head(jobs).k = "end" /\ Head(jobs).m = m
        /\ jobs' = IF infra THEN Tail(jobs) ELSE Append(Tail(jobs), NextJob)
        /\ UNCHANGED <<sends, resumes>>
    BY <1>8 DEF RunDispatchFailed, hist
  <2>2. \A n \in Mission : Fails(jobs', n) => Fails(jobs, n)
    BY <1>b, <1>c, <2>1, FailsSteps
  <2>3. /\ infra => Fails(jobs, m) /\ status[m] \in {"starting", "queued", "interrupted"}
    BY <1>c, <2>1 DEF Fails, Continues, Known, Order, Starting
  <2>4. /\ status'[m] = IF status[m] = "interrupted" THEN status[m] ELSE IF infra THEN "queued" ELSE "failed"
        /\ attempts'[m] = IF infra /\ status[m] # "interrupted" THEN 1 ELSE attempts[m]
        /\ \A n \in Mission : n # m => status'[n] = status[n] /\ attempts'[n] = attempts[n] /\ stage'[n] = stage[n]
    BY <1>a, <1>8 DEF RunDispatchFailed
  <2>5. \A n \in Mission : n # m => (Owed(n)' => Owed(n))
    BY <2>2, <2>4 DEF Owed
  <2>6. Owed(m)' => infra /\ status[m] # "interrupted"
    BY <2>4 DEF Owed
  <2>7. infra /\ status[m] # "interrupted" => Owed(m)
    BY <2>3 DEF Owed
  <2>8. attempts[m] = 0 \/ attempts[m] = 1
    BY <1>a
  <2>9. Keeps(m)
    BY <2>1, <2>4, <2>6, <2>7, <2>8 DEF Keeps
  <2>10. \A n \in Mission : n # m => Keeps(n)
    BY <2>1, <2>4, <2>5 DEF Keeps
  <2>11. QED
    BY <2>9, <2>10 DEF BudgetStep
<1>9. ASSUME NEW m \in Mission, RunInterrupted(m) PROVE BudgetStep
  <2>1. /\ status' = [status EXCEPT ![m] = "interrupted"] /\ jobs # <<>> /\ jobs' = Append(Tail(jobs), NextJob)
        /\ UNCHANGED <<stage, sends, resumes, attempts>>
    BY <1>9 DEF RunInterrupted, FinishActive, conv
  <2>2. \A n \in Mission : Fails(jobs', n) => Fails(jobs, n)
    BY <1>b, <1>c, <2>1, FailsSteps
  <2>3. \A n \in Mission : status'[n] = status[n] \/ status'[n] = "interrupted"
    BY <1>a, <2>1
  <2>4. QED
    BY <1>a, <2>1, <2>2, <2>3, QuietBudget
<1>10. ASSUME NEW m \in Mission, RunRecoveryCompact(m) \/ RunRecoveryAwait(m) PROVE FALSE
  BY <1>a, <1>10 DEF NoRecovery, RunRecoveryCompact, RunRecoveryAwait
<1>11. QED
  BY <1>1, <1>3, <1>4, <1>5, <1>6, <1>7, <1>8, <1>9, <1>10 DEF Microtask

LEMMA SettleBudget ==
  ASSUME Known, DispatchLock', Settle
  PROVE  BudgetStep
<1>a. /\ status \in [Mission -> Status] /\ stage \in [Mission -> Stage] /\ jobs \in Seq(Job) /\ TypeOK
  BY DEF Known, TypeOK, DispTypes
<1>b. NextJob \in Job /\ ~Continues(NextJob) /\ ManJob("ok") \in Job /\ ~Continues(ManJob("ok"))
  BY OtherFailures DEF Result
<1>1. ASSUME UNCHANGED <<sends, resumes, attempts, status, stage>>, Unfailing PROVE BudgetStep
  BY <1>a, <1>1, QuietBudget DEF Unfailing
<1>2. ASSUME ContextCleared PROVE BudgetStep
  <2>1. Unfailing
    BY <1>a, <1>b, <1>2, UnfailingSteps DEF ContextCleared
  <2>2. QED
    BY <1>1, <1>2, <2>1 DEF ContextCleared, conv, hist
<1>3. ASSUME ThreadOpened PROVE BudgetStep
  <2>1. UNCHANGED <<status, sends, resumes, attempts>>
    BY <1>3 DEF ThreadOpened, conv, hist
  <2>2. ASSUME NEW m \in Mission, stage[m] = "thread", stage' = [stage EXCEPT ![m] = "threadOk"],
               jobs' = Append(jobs, StartJob(m, NoTurn, "ok"))
        PROVE  BudgetStep
    <3>1. StartJob(m, NoTurn, "ok") \in Job /\ StartJob(m, NoTurn, "ok").r = "ok"
      BY OtherFailures DEF Result
    <3>2. \A n \in Mission : Fails(jobs', n) => Fails(jobs, n)
      BY <1>a, <2>2, <3>1, FailsSteps
    <3>3. status[m] = "starting" /\ stage[m] \in Early
      BY <2>2 DEF Known, Order, Starting, Early
    <3>4. \A n \in Mission : stage'[n] = stage[n] \/ (status[n] = "starting" /\ stage[n] \in Early)
      BY <1>a, <2>2, <3>3
    <3>5. QED
      BY <1>a, <2>1, <3>2, <3>4, QuietBudget
  <2>3. ASSUME jobs' = Append(jobs, ManJob("ok")), stage' = stage PROVE BudgetStep
    <3>1. Unfailing
      BY <1>a, <1>b, <2>3, UnfailingSteps
    <3>2. QED
      BY <1>1, <2>1, <2>3, <3>1
  <2>4. QED
    BY <1>3, <2>2, <2>3 DEF ThreadOpened
<1>4. ASSUME NEW m \in Mission, DirectoryMade(m) PROVE BudgetStep
  <2>1. stage[m] = "dir" /\ SendTurn(m, jobs) /\ UNCHANGED <<status, resumes, attempts>>
    BY <1>4 DEF DirectoryMade, conv
  <2>2. QED
    BY <1>a, <2>1, SendBudget
<1>5. QED
  BY <1>2, <1>3, <1>4 DEF Settle

LEMMA TimerBudget ==
  ASSUME Known
  PROVE  /\ Timer => BudgetStep
         /\ CompactionEnds /\ UNCHANGED <<sends, resumes, attempts>> => BudgetStep
<1>a. /\ status \in [Mission -> Status] /\ recovery = NoMission /\ \A m \in Mission : m # NoMission
      /\ jobs \in Seq(Job) /\ TypeOK
  BY MissionAssumption DEF Known, Order, TypeOK, DispTypes, NoRecovery, NoMission
<1>1. ASSUME NEW cmp, NEW ld, ProcessNext(status, active, cmp, ld, jobs), UNCHANGED <<sends, resumes, attempts>>
      PROVE  BudgetStep
  BY <1>a, <1>1, DispatchBudget
<1>2. /\ [m \in Mission |-> IF m = recovery THEN "failed" ELSE status[m]] = status
      /\ [m \in Mission |-> IF m = recovery THEN "queued" ELSE status[m]] = status
  BY <1>a
<1>3. CompactionEnds /\ UNCHANGED <<sends, resumes, attempts>> => BudgetStep
  BY <1>1, <1>2 DEF CompactionEnds
<1>4. ASSUME UNCHANGED <<disp, sends, resumes, attempts>> PROVE BudgetStep
  BY <1>a, <1>4, QuietBudget DEF disp
<1>5. Timer => BudgetStep
  BY <1>1, <1>2, <1>4 DEF Timer, CompactionTimeout, DispatchRetry, InitializeConversation, conv, hist
<1>6. QED
  BY <1>3, <1>5

LEMMA ReadBudget ==
  ASSUME Known, Read
  PROVE  BudgetStep
<1>a. /\ status \in [Mission -> Status] /\ stage \in [Mission -> Stage] /\ jobs \in Seq(Job) /\ TypeOK
      /\ CodexTypes /\ chan \in Seq(Message) /\ NoRecovery
  BY DEF Known, Order, TypeOK, DispTypes, CodexTypes
<1>b. NextJob \in Job /\ ~Continues(NextJob)
  BY OtherFailures
<1>1. ASSUME UNCHANGED <<stage, sends, resumes, attempts>>, Unfailing,
             \A m \in Mission : status'[m] = status[m] \/ status'[m] \notin {"absent", "queued", "starting"}
      PROVE  BudgetStep
  BY <1>a, <1>1, QuietBudget DEF Unfailing
<1>2. ASSUME HandleReply PROVE BudgetStep
  <2> DEFINE q == Head(chan).q
             r == Head(chan).r
             t == Head(chan).t
  <2>a. q \in Request /\ r \in Result /\ t \in Turn \cup {NoTurn} /\ chan[1] = Head(chan) /\ 1 \in DOMAIN chan
        /\ Head(chan).k = "reply"
    BY <1>a, <1>2, ReadTypes DEF HandleReply, Reading
  <2>b. UNCHANGED <<status, sends, resumes, attempts>>
    BY <1>2 DEF HandleReply, conv, hist
  <2>1. ASSUME q.k = "turn", stage' = [stage EXCEPT ![q.m] = "settled"], jobs' = Append(jobs, StartJob(q.m, t, r))
        PROVE  BudgetStep
    <3>1. r \in {"ok", "error"}
      BY <2>a, <2>1 DEF Known, Tokens, StartReplies, StartLine
    <3>2. q.m \in Mission
      BY <2>a, <2>1, RequestMission
    <3>3. StartJob(q.m, t, r) \in Job /\ StartJob(q.m, t, r).r # "infra"
      <4> HIDE DEF q, r, t
      <4>1. StartJob(q.m, t, r) \in Job /\ StartJob(q.m, t, r).r = r
        BY <2>a, <3>2, OtherFailures
      <4>2. QED
        BY <3>1, <4>1
    <3>4. Unfailing
      BY <1>a, <2>1, <3>3, UnfailingSteps
    <3>5. \A n \in Mission : stage'[n] = stage[n] \/ stage'[n] \notin Early
      BY <1>a, <2>1 DEF Early
    <3>6. QED
      BY <1>a, <2>b, <3>4, <3>5, QuietBudget DEF Unfailing
  <2>2. ASSUME NEW j \in Job, ~Continues(j), jobs' = Append(jobs, j) \/ jobs' = jobs, stage' = stage
        PROVE  BudgetStep
    <3>1. Unfailing
      BY <1>a, <2>2, UnfailingSteps
    <3>2. QED
      BY <1>1, <2>b, <2>2, <3>1
  <2>3. ASSUME q.k # "manCompact" PROVE /\ StopJob(q.m, "ok") \in Job /\ RecJob(q.m, r) \in Job
                                        /\ ~Continues(StopJob(q.m, "ok")) /\ ~Continues(RecJob(q.m, r))
    BY <2>a, <2>3, RequestMission, OtherFailures DEF Result
  <2>4. ManJob(r) \in Job /\ ~Continues(ManJob(r))
    BY <2>a, OtherFailures
  <2>5. QED
    BY <1>2, <1>b, <2>1, <2>2, <2>3, <2>4 DEF HandleReply
<1>3. ASSUME HandleTurnStarted PROVE BudgetStep
  <2>1. UNCHANGED disp /\ UNCHANGED <<sends, resumes, attempts>>
    BY <1>3 DEF HandleTurnStarted, hist
  <2>2. QED
    BY <1>a, <1>1, <2>1, UnfailingSteps DEF disp
<1>4. ASSUME HandleCompacted PROVE BudgetStep
  BY <1>4, TimerBudget DEF HandleCompacted, conv, hist
<1>5. ASSUME HandleTurnCompleted PROVE BudgetStep
  <2>1. UNCHANGED <<sends, resumes, attempts>>
    BY <1>5 DEF HandleTurnCompleted, conv, hist
  <2>2. ASSUME NEW m \in Mission, NEW r, status' = [status EXCEPT ![m] = OutcomeStatus(r)],
               jobs' = Append(jobs, NextJob), stage' = stage
        PROVE  BudgetStep
    <3>1. Unfailing
      BY <1>a, <1>b, <2>2, UnfailingSteps
    <3>2. OutcomeStatus(r) \in {"completed", "interrupted", "failed"}
      BY DEF OutcomeStatus
    <3>3. \A n \in Mission : status'[n] = status[n] \/ status'[n] = OutcomeStatus(r)
      BY <1>a, <2>2
    <3>4. QED
      BY <1>1, <2>1, <2>2, <3>1, <3>2, <3>3
  <2>3. ASSUME UNCHANGED disp PROVE BudgetStep
    BY <1>a, <1>1, <2>1, <2>3, UnfailingSteps DEF disp
  <2>4. QED
    BY <1>5, <2>1, <2>2, <2>3, TimerBudget DEF HandleTurnCompleted, FinishActive
<1>6. ASSUME HandleContextError PROVE FALSE
  BY <1>a, <1>6, MovedRead DEF HandleContextError, NoRecovery
<1>7. ASSUME HandleServerRequest PROVE BudgetStep
  <2>1. jobs' = jobs /\ UNCHANGED <<stage, sends, resumes, attempts>>
    BY <1>7 DEF HandleServerRequest, conv, hist
  <2>2. \A n \in Mission : status'[n] = status[n] \/ status'[n] = "awaiting_approval"
    BY <1>7 DEF HandleServerRequest
  <2>3. QED
    BY <1>a, <1>1, <2>1, <2>2, UnfailingSteps
<1>8. QED
  BY <1>2, <1>3, <1>4, <1>5, <1>6, <1>7 DEF Read

\* What the loss of the app-server makes of a mission.
Lost(m) ==
  \/ status'[m] = status[m] /\ attempts'[m] = attempts[m] /\ status[m] # "starting"
  \/ status'[m] = "interrupted" /\ attempts'[m] = attempts[m]
  \/ attempts[m] = 0 /\ attempts'[m] = 1

LEMMA FailureBudget ==
  ASSUME Known, Failure
  PROVE  BudgetStep
<1>a. /\ status \in [Mission -> Status] /\ stage \in [Mission -> Stage] /\ jobs \in Seq(Job) /\ TypeOK
      /\ attempts \in [Mission -> {0, 1}] /\ Working /\ Orderly
  BY DEF Known, Order, TypeOK, DispTypes, ConvTypes
<1>1. ASSUME UNCHANGED <<sends, resumes>>, \A m \in Mission : Lost(m) PROVE BudgetStep
  <2>1. \A m \in Mission : Keeps(m)
    BY <1>1 DEF Lost, Keeps, Owed
  <2>2. QED
    BY <2>1 DEF BudgetStep
<1>2. \A m \in Mission : Recoverable(m) => attempts[m] = 0
  BY <1>a DEF Recoverable
<1>3. ASSUME CodexExit PROVE BudgetStep
  <2>1. UNCHANGED <<sends, resumes>> /\ HandleCodexExit
    BY <1>3 DEF CodexExit
  <2>2. CASE \A m \in Mission : ~(ExitMission(m) /\ status[m] \in ActiveStatus)
    <3>1. \A m \in Mission : status[m] \notin ActiveStatus
      BY <1>a, <2>2, MissionAssumption DEF ExitMission, Working, NoMission
    <3>2. UNCHANGED <<status, attempts>>
      BY <2>1, <2>2 DEF HandleCodexExit
    <3>3. QED
      BY <1>1, <2>1, <3>1, <3>2 DEF ActiveStatus, Lost
  <2>3. ASSUME NEW n \in Mission, ExitMission(n), status[n] \in ActiveStatus,
               status' = [status EXCEPT ![n] = IF Recoverable(n) THEN "queued" ELSE "interrupted"],
               attempts' = [attempts EXCEPT ![n] = IF Recoverable(n) THEN 1 ELSE @]
        PROVE  BudgetStep
    <3>1. \A m \in Mission : m # n => status[m] \notin ActiveStatus
      BY <1>a, <2>3 DEF Working
    <3>2. \A m \in Mission : m # n => /\ status'[m] = status[m] /\ attempts'[m] = attempts[m]
                                       /\ status[m] # "starting"
      BY <1>a, <2>3, <3>1 DEF ActiveStatus
    <3>3. Lost(n)
      BY <1>a, <1>2, <2>3 DEF Lost
    <3>4. \A m \in Mission : Lost(m)
      BY <3>2, <3>3 DEF Lost
    <3>5. QED
      BY <1>1, <2>1, <3>4
  <2>4. QED
    BY <2>1, <2>2, <2>3 DEF HandleCodexExit
<1>4. ASSUME ApplicationRestart PROVE BudgetStep
  <2>1. UNCHANGED <<sends, resumes>>
    BY <1>4 DEF ApplicationRestart
  <2>2. ASSUME NEW m \in Mission, status[m] \in ActiveStatus PROVE Lost(m)
    BY <1>2, <1>4, <2>2 DEF ApplicationRestart, LostStatus, Lost
  <2>3. ASSUME NEW m \in Mission, status[m] \notin ActiveStatus PROVE Lost(m)
    BY <1>4, <2>3 DEF ApplicationRestart, LostStatus, ActiveStatus, Lost
  <2>4. QED
    BY <1>1, <2>1, <2>2, <2>3
<1>5. ASSUME ThreadFails PROVE BudgetStep
  <2>1. UNCHANGED <<status, sends, resumes, attempts>>
    BY <1>5 DEF ThreadFails, conv
  <2>2. ASSUME NEW m \in Mission, NEW r \in {"infra", "error"}, stage[m] = "thread",
               stage' = [stage EXCEPT ![m] = "settled"], jobs' = Append(jobs, StartJob(m, NoTurn, r))
        PROVE  BudgetStep
    <3>1. StartJob(m, NoTurn, r) \in Job /\ StartJob(m, NoTurn, r).m = m
      BY OtherFailures DEF Result
    <3>2. \A n \in Mission : Fails(jobs', n) => Fails(jobs, n) \/ n = m
      BY <1>a, <2>2, <3>1, FailsSteps
    <3>3. \A n \in Mission : Fails(jobs', n) => Fails(jobs, n) \/ stage[n] \in Early
      BY <2>2, <3>2 DEF Early
    <3>4. \A n \in Mission : stage'[n] = stage[n] \/ stage'[n] \notin Early
      BY <1>a, <2>2 DEF Early
    <3>5. QED
      BY <1>a, <2>1, <3>3, <3>4, QuietBudget
  <2>3. ASSUME jobs' = Append(jobs, ManJob("infra")), stage' = stage PROVE BudgetStep
    <3>1. ManJob("infra") \in Job /\ ~Continues(ManJob("infra"))
      BY OtherFailures DEF Result
    <3>2. Unfailing
      BY <1>a, <2>3, <3>1, UnfailingSteps
    <3>3. QED
      BY <1>a, <2>1, <2>3, <3>2, QuietBudget DEF Unfailing
  <2>4. QED
    BY <1>5, <2>2, <2>3 DEF ThreadFails
<1>6. ASSUME RequestTimeout PROVE FALSE
  BY <1>a, <1>6 DEF RequestTimeout, Fault, Orderly
<1>7. QED
  BY <1>3, <1>4, <1>5, <1>6 DEF Failure

\* So does every step.
LEMMA AllBudget ==
  ASSUME Known, DispatchLock', [Next]_vars
  PROVE  BudgetStep
<1>1. CASE CodexReady \/ AppServer \/ UNCHANGED vars
  <2>1. UNCHANGED <<status, stage, jobs, sends, resumes, attempts>>
    BY <1>1 DEF CodexReady, AppServer, ServeRequest, EndTurn, OpenTurn, RejectTurn, FinishTurn, OverflowTurn,
       CompactAutomatically, AskApproval, ServeInterrupt, ServeCompact, FinishCompaction, vars, disp, conv, hist
  <2>2. QED
    BY <2>1, QuietBudget DEF Known
<1>2. QED
  BY <1>1, UserBudget, MicrotaskBudget, SettleBudget, TimerBudget, ReadBudget, FailureBudget DEF Next

\* A mission's prompt is sent at most twice per user resume, in an orderly scenario: what
\* it has sent, what it is to send and the recovery it has left stay within its budget.
THEOREM BoundedReplayCorrect == Spec => [](Orderly => BoundedReplay)
<1> DEFINE F == Orderly => Budget
           K == Orderly => Known
<1>1. Init => F
  BY DEF Init, Budget
<1>2. K /\ F /\ DispatchLock' /\ TypeOK /\ TypeOK' /\ [Next]_vars => F'
  <2> SUFFICES ASSUME K, F, DispatchLock', TypeOK, TypeOK', [Next]_vars, Orderly' PROVE Budget'
    OBVIOUS
  <2>1. Known /\ Budget /\ BudgetStep
    BY SameScenario, AllBudget DEF Orderly
  <2>2. /\ sends \in [Mission -> Nat] /\ resumes \in [Mission -> Nat] /\ attempts \in [Mission -> {0, 1}]
        /\ sends' \in [Mission -> Nat] /\ resumes' \in [Mission -> Nat] /\ attempts' \in [Mission -> {0, 1}]
    BY DEF TypeOK, HistTypes, ConvTypes
  <2>3. ASSUME NEW m \in Mission
        PROVE  sends'[m] + (IF Owed(m)' THEN 1 ELSE 0) + (1 - attempts'[m]) <= 2 * (1 + resumes'[m])
    <3>1. sends[m] + (IF Owed(m) THEN 1 ELSE 0) + (1 - attempts[m]) <= 2 * (1 + resumes[m])
      BY <2>1 DEF Budget
    <3>2. /\ sends[m] \in Nat /\ resumes[m] \in Nat /\ attempts[m] \in {0, 1}
          /\ sends'[m] \in Nat /\ resumes'[m] \in Nat /\ attempts'[m] \in {0, 1}
      BY <2>2
    <3>3. CASE Keeps(m)
      BY <3>1, <3>2, <3>3 DEF Keeps
    <3>4. CASE Prompts(m)
      BY <3>1, <3>2, <3>4 DEF Prompts
    <3>5. CASE Resumes(m)
      BY <3>1, <3>2, <3>5 DEF Resumes
    <3>6. QED
      BY <2>1, <3>3, <3>4, <3>5 DEF BudgetStep
  <2>4. QED
    BY <2>3 DEF Budget
<1>3. TypeOK /\ Budget => BoundedReplay
  <2> SUFFICES ASSUME TypeOK, Budget, NEW m \in Mission PROVE sends[m] <= 2 * (1 + resumes[m])
    BY DEF BoundedReplay
  <2>1. sends[m] \in Nat /\ resumes[m] \in Nat /\ attempts[m] \in {0, 1}
    BY DEF TypeOK, HistTypes, ConvTypes
  <2>2. QED
    BY <2>1 DEF Budget
<1>4. TypeOK /\ F => (Orderly => BoundedReplay)
  BY <1>3
<1>5. QED
  BY <1>1, <1>2, <1>4, KnownCorrect, TypeCorrect, LockCorrect, PTL DEF Spec
=============================================================================
