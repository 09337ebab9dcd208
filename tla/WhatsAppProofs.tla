--------------------------- MODULE WhatsAppProofs ----------------------------
(***************************************************************************)
(* Proofs about WhatsAppDelivery and WhatsAppLink.                         *)
(*                                                                         *)
(* What the outbox says of the turns, for every set of turns, every length *)
(* of a result and every bound: the user is told of no end that did not    *)
(* happen, every command is answered, the approval a turn waits for is     *)
(* announced, and an end is told whole.  The four rest on each other in    *)
(* this order.                                                             *)
(*                                                                         *)
(* The browsers of the client, for every number of clients and faults: two *)
(* are never open on the one profile of the session, if a logout and a     *)
(* start do not overlap.                                                   *)
(***************************************************************************)
EXTENDS WhatsAppDelivery, WhatsAppLink, FiniteSetTheorems, TLAPS

-----------------------------------------------------------------------------
\* The results and commands

\* What of the types the argument needs.
Types ==
  /\ status \in [Turn -> {"new", "queued"} \cup Active \cup Terminal]
  /\ recovery \in [Turn -> {"none", "attempted", "resumed"}]
  /\ ends \in [Turn -> Nat]
  /\ stopping \subseteq [t : Turn, c : 0..MaxCommands]
  /\ due \subseteq [t : Turn, quiet : BOOLEAN]
  /\ owed \subseteq [t : Turn, c : Command]
  /\ filing \subseteq [t : Turn, i : Nat]
  /\ \A r \in rows : r.t \in Turn

\* A turn that is over came to an end of its own.
EndedOnce == \A t \in Turn : status[t] \in Terminal => ends[t] >= 1

\* A delivery is about such an end, or will be suppressed: its turn is recovering.
DueOfAnEnd == \A d \in due : ends[d.t] >= 1 \/ (d.quiet /\ recovery[d.t] # "none")

ResultsOfEnds == \A r \in rows : r.kind = "result" => r.n \in 1..ends[r.t]

\* A context that overflows is the exception: its turn counts as interrupted before
\* it has come to an end.
IInv == Types /\ ("overflow" \notin env => /\ compacting = {} /\ EndedOnce
                                           /\ DueOfAnEnd /\ ResultsOfEnds)

\* A delivery about a turn has its type.
LEMMA DueTypes ==
  ASSUME NEW t \in Turn, NEW quiet \in BOOLEAN, Due(t, quiet),
         due \subseteq [t : Turn, quiet : BOOLEAN]
  PROVE  due' \subseteq [t : Turn, quiet : BOOLEAN]
<1>1. [t |-> t, quiet |-> quiet] \in [t : Turn, quiet : BOOLEAN] OBVIOUS
<1> QED BY <1>1 DEF Due

\* It holds at first: there is no turn.
LEMMA InitIInv == Init => IInv
BY DEF Init, IInv, Types, EndedOnce, DueOfAnEnd, ResultsOfEnds, Active, Terminal

\* No end is taken back, and no recovery.
Grows == /\ \A t \in Turn : ends'[t] >= ends[t]
         /\ \A t \in Turn : recovery[t] # "none" => recovery'[t] # "none"

\* What a new end leaves: the count grows, and is positive if it is over.
LEMMA EndCounts ==
  ASSUME Types, NEW t \in Turn, NEW s \in Terminal, End(t, s)
  PROVE  /\ status' \in [Turn -> {"new", "queued"} \cup Active \cup Terminal]
         /\ ends' \in [Turn -> Nat]
         /\ \A u \in Turn : ends'[u] >= ends[u]
         /\ EndedOnce => EndedOnce' /\ ends'[t] >= 1
BY DEF End, Types, EndedOnce, Active, Terminal

\* Rows that are no results, and results of an end, keep the outbox true.
LEMMA RowsKeep ==
  ASSUME Types, Types', ResultsOfEnds, Grows,
         \A r \in rows' : r \in rows \/ r.kind # "result"
  PROVE  ResultsOfEnds'
BY DEF Types, ResultsOfEnds, Grows

\* Deliveries that stay remain true: ends and recoveries are not taken back.
LEMMA DueKeeps ==
  ASSUME Types, Types', DueOfAnEnd, Grows, due' \subseteq due
  PROVE  DueOfAnEnd'
BY DEF Types, DueOfAnEnd, Grows

\* What an action may do at most, if it ends no turn and delivers nothing: the
\* outbox gets rows that are no results, and no status becomes one that is over.
Harmless ==
  /\ \A t \in Turn : status'[t] \in Terminal => status[t] = status'[t]
  /\ ends' = ends /\ Grows
  /\ compacting' \subseteq compacting
  /\ due' \subseteq due
  /\ \A r \in rows' : r \in rows \/ r.kind # "result"
  /\ env' = env

LEMMA HarmlessKeeps == ASSUME IInv, Types', Harmless PROVE IInv'
<1> SUFFICES ASSUME "overflow" \notin env
             PROVE  compacting' = {} /\ EndedOnce' /\ DueOfAnEnd' /\ ResultsOfEnds'
  BY DEF IInv, Harmless
<1>1. EndedOnce' BY DEF IInv, Harmless, EndedOnce, Types
<1>2. DueOfAnEnd' BY DueKeeps DEF IInv, Harmless
<1>3. ResultsOfEnds' BY RowsKeep DEF IInv, Harmless
<1> QED BY <1>1, <1>2, <1>3 DEF IInv, Harmless

\* The steps that end nothing: creation, dispatch, approvals, and commands that are
\* answered at once.
LEMMA HarmlessSteps ==
  ASSUME IInv, NEW t \in Turn,
         \/ Create(t) \/ Dispatch(t) \/ AskApproval(t) \/ Decide(t) \/ Compacted(t)
         \/ \E c \in Command : CommandStatus(c, t) \/ CommandDecide(c, t)
  PROVE  IInv'
<1> USE DEF IInv, Types, Harmless, Grows, Active, Terminal, turns, process
<1>1. CASE Create(t)
  BY <1>1, HarmlessKeeps DEF Create, Enqueue, Text
<1>2. CASE Dispatch(t)
  BY <1>2, HarmlessKeeps DEF Dispatch
<1>3. CASE AskApproval(t)
  BY <1>3, HarmlessKeeps DEF AskApproval, Enqueue, Text
<1>4. CASE Decide(t)
  BY <1>4, HarmlessKeeps DEF Decide
<1>5. CASE Compacted(t)
  BY <1>5, HarmlessKeeps DEF Compacted
<1>6. ASSUME NEW c \in Command, CommandStatus(c, t) PROVE IInv'
  BY <1>6, HarmlessKeeps DEF CommandStatus, Comes, Enqueue, Reply, Text
<1>7. ASSUME NEW c \in Command, CommandDecide(c, t) PROVE IInv'
  BY <1>7, HarmlessKeeps DEF CommandDecide, Comes, Enqueue, Reply, Text
<1> QED BY <1>1, <1>2, <1>3, <1>4, <1>5, <1>6, <1>7

\* An action that ends turn t, or none, and queues a delivery about it.
Ending(t) ==
  /\ EndedOnce => EndedOnce'
  /\ Grows
  /\ compacting' \subseteq compacting
  /\ \A d \in due' : d \in due \/ ends'[d.t] >= 1 \/ (d.quiet /\ recovery'[d.t] # "none")
  /\ \A r \in rows' : r \in rows \/ r.kind # "result"
  /\ env' = env

\* An end of t, with or without a delivery about it, is such an action.
LEMMA EndIsEnding ==
  ASSUME NEW t \in Turn, NEW quiet \in BOOLEAN, EndedOnce,
         \A u \in Turn : ends'[u] >= ends[u],
         EndedOnce => EndedOnce' /\ ends'[t] >= 1,
         recovery' = recovery, compacting' \subseteq compacting, rows' = rows,
         due' = due \/ Due(t, quiet), env' = env
  PROVE  Ending(t)
<1>1. Grows BY DEF Grows
<1>2. \A d \in due' : d \in due \/ ends'[d.t] >= 1
  <2>1. CASE due' = due BY <2>1
  <2>2. CASE Due(t, quiet)
    <3> SUFFICES ASSUME NEW d \in due', d \notin due PROVE ends'[d.t] >= 1
      OBVIOUS
    <3>1. d = [t |-> t, quiet |-> quiet] BY <2>2 DEF Due
    <3>2. d.t = t BY <3>1
    <3> QED BY <3>2
  <2> QED BY <2>1, <2>2
<1> QED BY <1>1, <1>2 DEF Ending

LEMMA EndingKeeps ==
  ASSUME IInv, Types', NEW t \in Turn, env' = env,
         "overflow" \notin env => (EndedOnce => Ending(t))
  PROVE  IInv'
<1> SUFFICES ASSUME "overflow" \notin env
             PROVE  compacting' = {} /\ EndedOnce' /\ DueOfAnEnd' /\ ResultsOfEnds'
  BY DEF IInv
<1>1. EndedOnce /\ Ending(t) BY DEF IInv
<1>2. DueOfAnEnd'
  <2> SUFFICES ASSUME NEW d \in due'
               PROVE  ends'[d.t] >= 1 \/ (d.quiet /\ recovery'[d.t] # "none")
    BY DEF DueOfAnEnd
  <2> QED BY <1>1 DEF IInv, DueOfAnEnd, Ending, Grows, Types
<1>3. ResultsOfEnds' BY <1>1, RowsKeep DEF IInv, Ending
<1> QED BY <1>1, <1>2, <1>3 DEF IInv, Ending

-----------------------------------------------------------------------------
\* One lemma for each of the other actions: the end Codex reports, the exit of the
\* app-server, the context that overflows, the resume and the failed compaction.
LEMMA FinishStep ==
  ASSUME IInv, NEW t \in Turn, NEW s \in {"completed", "failed", "interrupted"}, Finish(t, s)
  PROVE  IInv'
<1> Types BY DEF IInv
<1>1. s \in Terminal /\ End(t, s) BY DEF Finish, Terminal
<1>e. /\ status' \in [Turn -> {"new", "queued"} \cup Active \cup Terminal]
      /\ ends' \in [Turn -> Nat]
      /\ \A u \in Turn : ends'[u] >= ends[u]
      /\ EndedOnce => EndedOnce' /\ ends'[t] >= 1
  BY <1>1, EndCounts
<1>2. Types'
  BY <1>1, <1>e, DueTypes DEF Finish, Types
<1>3. EndedOnce => Ending(t)
  BY <1>e, EndIsEnding DEF Finish
<1> QED BY <1>2, <1>3, EndingKeeps DEF Finish

LEMMA CodexExitStep == ASSUME IInv, NEW t \in Turn, CodexExit(t) PROVE IInv'
<1> Types BY DEF IInv
<1>0. Types /\ due' = due \cup {[t |-> t, quiet |-> TRUE]} /\ env' = env /\ rows' = rows
      /\ compacting' = compacting /\ filing' = filing
  BY DEF CodexExit, Due
<1>d. due' \subseteq [t : Turn, quiet : BOOLEAN]
  BY <1>0, DueTypes DEF CodexExit, Types
<1>o. stopping' = {} /\ owed' \subseteq [t : Turn, c : Command]
  <2> SUFFICES ASSUME NEW q \in stopping, q.c # 0
               PROVE  [t |-> q.t, c |-> q.c] \in [t : Turn, c : Command]
    BY DEF CodexExit
  <2>1. q.t \in Turn /\ q.c \in 0..MaxCommands BY <1>0 DEF Types
  <2>2. q.c \in Command BY <2>1, DeliveryAssumption DEF Command
  <2> QED BY <2>1, <2>2
<1>1. CASE recovery[t] # "attempted"
  <2>1. /\ status' = [status EXCEPT ![t] = "queued"] /\ ends' = ends
        /\ recovery' = [recovery EXCEPT ![t] = "attempted"]
    BY <1>1 DEF CodexExit
  <2>2. Types'
    BY <1>0, <1>d, <1>o, <2>1 DEF Types
  <2>3. EndedOnce => Ending(t)
    BY <1>0, <2>1 DEF Ending, EndedOnce, Grows, Types, Terminal
  <2> QED BY <1>0, <2>2, <2>3, EndingKeeps
<1>2. CASE recovery[t] = "attempted"
  <2>1. End(t, "interrupted") /\ recovery' = recovery
    BY <1>2 DEF CodexExit
  <2>e. /\ status' \in [Turn -> {"new", "queued"} \cup Active \cup Terminal]
        /\ ends' \in [Turn -> Nat]
        /\ \A u \in Turn : ends'[u] >= ends[u]
        /\ EndedOnce => EndedOnce' /\ ends'[t] >= 1
    <3> "interrupted" \in Terminal BY DEF Terminal
    <3> QED BY <1>0, <2>1, EndCounts
  <2>2. Types'
    BY <1>0, <1>d, <1>o, <2>1, <2>e DEF Types
  <2>3. EndedOnce => Ending(t)
    BY <1>0, <2>1, <2>e, EndIsEnding DEF CodexExit
  <2> QED BY <1>0, <2>2, <2>3, EndingKeeps
<1> QED BY <1>1, <1>2

LEMMA OverflowStep == ASSUME IInv, NEW t \in Turn, Overflow(t) PROVE IInv'
<1> Types BY DEF IInv
<1>0. Types /\ "overflow" \in env /\ env' = env
  BY DEF Overflow
<1>d. due' \subseteq [t : Turn, quiet : BOOLEAN]
  BY <1>0, DueTypes DEF Overflow, Types
<1>s. /\ status' \in [Turn -> {"new", "queued"} \cup Active \cup Terminal]
      /\ ends' \in [Turn -> Nat]
  <2>1. CASE recovery[t] = "attempted"
    <3> "failed" \in Terminal BY DEF Terminal
    <3> QED BY <1>0, <2>1, EndCounts DEF Overflow
  <2>2. CASE recovery[t] # "attempted"
    BY <1>0, <2>2 DEF Overflow, Types, Terminal
  <2> QED BY <2>1, <2>2
<1>r. recovery' \in [Turn -> {"none", "attempted", "resumed"}]
  BY DEF Overflow, Types
<1>1. Types'
  BY <1>0, <1>d, <1>s, <1>r DEF Types, Overflow
<1> QED BY <1>0, <1>1 DEF IInv

LEMMA ResumeStep == ASSUME IInv, NEW t \in Turn, Resume(t) PROVE IInv'
<1> Types BY DEF IInv
<1>1. Types' BY DEF Resume, Types, process
<1>2. EndedOnce => Ending(t)
  BY DEF Ending, EndedOnce, Resume, Types, Grows, Terminal, process
<1> QED BY <1>1, <1>2, EndingKeeps DEF Resume

LEMMA CompactionFailsStep ==
  ASSUME IInv, NEW t \in Turn, NEW reported \in BOOLEAN, CompactionFails(t, reported)
  PROVE  IInv'
<1> Types BY DEF IInv
<1>1. "failed" \in Terminal /\ End(t, "failed") BY DEF CompactionFails, Terminal
<1>e. /\ status' \in [Turn -> {"new", "queued"} \cup Active \cup Terminal]
      /\ ends' \in [Turn -> Nat]
      /\ \A u \in Turn : ends'[u] >= ends[u]
      /\ EndedOnce => EndedOnce' /\ ends'[t] >= 1
  BY <1>1, EndCounts
<1>2. Types'
  BY <1>1, <1>e, DueTypes DEF CompactionFails, Types
<1>3. EndedOnce => Ending(t)
  BY <1>e, EndIsEnding DEF CompactionFails
<1> QED BY <1>2, <1>3, EndingKeeps DEF CompactionFails

\* Stops of the browser and by command.
LEMMA CancelStep ==
  ASSUME IInv, NEW t \in Turn, Cancel(t), recovery' = recovery, compacting' = compacting,
         rows' = rows, env' = env,
         owed' \subseteq [t : Turn, c : Command], filing' = filing
  PROVE  IInv'
<1> Types BY DEF IInv
<1>1. "cancelled" \in Terminal /\ End(t, "cancelled") BY DEF Cancel, Terminal
<1>e. /\ status' \in [Turn -> {"new", "queued"} \cup Active \cup Terminal]
      /\ ends' \in [Turn -> Nat]
      /\ \A u \in Turn : ends'[u] >= ends[u]
      /\ EndedOnce => EndedOnce' /\ ends'[t] >= 1
  BY <1>1, EndCounts
<1>2. Types'
  BY <1>1, <1>e, DueTypes DEF Cancel, Types
<1>3. EndedOnce => Ending(t)
  BY <1>e, EndIsEnding DEF Cancel
<1> QED BY <1>2, <1>3, EndingKeeps

LEMMA AwaitStopStep ==
  ASSUME IInv, NEW t \in Turn, NEW c \in 0..MaxCommands, AwaitStop(t, c),
         recovery' = recovery, compacting' = compacting, rows' = rows, env' = env,
         owed' \subseteq [t : Turn, c : Command], filing' = filing
  PROVE  IInv'
<1>1. Types' BY DEF IInv, Types, AwaitStop
<1>2. Harmless BY DEF IInv, Types, AwaitStop, Harmless, Grows
<1> QED BY <1>1, <1>2, HarmlessKeeps

LEMMA StopStep == ASSUME IInv, NEW t \in Turn, Stop(t) PROVE IInv'
<1> 0 \in 0..MaxCommands BY DeliveryAssumption
<1> QED BY CancelStep, AwaitStopStep DEF Stop, IInv, Types

LEMMA CommandStopStep ==
  ASSUME IInv, NEW t \in Turn, NEW c \in Command, CommandStop(c, t)
  PROVE  IInv'
<1> c \in 0..MaxCommands BY DeliveryAssumption DEF Command
<1>0. recovery' = recovery /\ compacting' = compacting /\ env' = env /\ filing' = filing
  BY DEF CommandStop, Comes
<1>o. owed' \subseteq [t : Turn, c : Command]
  BY DEF CommandStop, IInv, Types
<1>1. CASE Cancel(t) /\ rows' = rows
  BY <1>0, <1>o, <1>1, CancelStep
<1>2. CASE AwaitStop(t, c) /\ rows' = rows
  BY <1>0, <1>o, <1>2, AwaitStopStep
<1>3. CASE Enqueue({Reply(t, c)}) /\ UNCHANGED <<status, ends, due, stopping, owed>>
  <2>1. Types' BY <1>0, <1>3 DEF IInv, Types, Enqueue, Reply, Text
  <2>2. Harmless BY <1>0, <1>3 DEF IInv, Types, Harmless, Grows, Enqueue, Reply, Text
  <2> QED BY <2>1, <2>2, HarmlessKeeps
<1> QED BY <1>1, <1>2, <1>3 DEF CommandStop

LEMMA OweTypes ==
  ASSUME Types, NEW s \in stopping, Owe(s)
  PROVE  owed' \subseteq [t : Turn, c : Command]
<1>1. s.t \in Turn /\ s.c \in 0..MaxCommands BY DEF Types
<1>2. s.c # 0 => s.c \in Command BY <1>1, DeliveryAssumption DEF Command
<1>3. s.c # 0 => [t |-> s.t, c |-> s.c] \in [t : Turn, c : Command] BY <1>1, <1>2
<1> QED BY <1>3 DEF Owe, Types

LEMMA StopReturnsStep == ASSUME IInv, NEW s \in stopping, StopReturns(s) PROVE IInv'
<1> Types BY DEF IInv
<1> DEFINE t == s.t
<1>1. t \in Turn /\ "interrupted" \in Terminal /\ End(t, "interrupted")
  BY DEF StopReturns, Terminal, Types
<1> HIDE DEF t
<1>e. /\ status' \in [Turn -> {"new", "queued"} \cup Active \cup Terminal]
      /\ ends' \in [Turn -> Nat]
      /\ \A u \in Turn : ends'[u] >= ends[u]
      /\ EndedOnce => EndedOnce' /\ ends'[t] >= 1
  BY <1>1, EndCounts
<1>2. Types'
  BY <1>1, <1>e, DueTypes, OweTypes DEF StopReturns, Types, t
<1>3. EndedOnce => Ending(t)
  BY <1>1, <1>e, EndIsEnding DEF StopReturns, t
<1> QED BY <1>1, <1>2, <1>3, EndingKeeps DEF StopReturns

LEMMA StopFailsStep == ASSUME IInv, NEW s \in stopping, StopFails(s) PROVE IInv'
<1>0. Types BY DEF IInv
<1>o. owed' \subseteq [t : Turn, c : Command] BY <1>0, OweTypes DEF StopFails
<1>1. Types' BY <1>0, <1>o DEF Types, StopFails, turns
<1>2. Harmless BY DEF IInv, Types, StopFails, turns, Harmless, Grows
<1> QED BY <1>1, <1>2, HarmlessKeeps

LEMMA AnswerStep == ASSUME IInv, NEW a \in owed, Answer(a) PROVE IInv'
<1>1. Types' BY DEF IInv, Types, Answer, turns, Enqueue, Reply, Text
<1>2. Harmless BY DEF IInv, Types, Answer, turns, Harmless, Grows, Enqueue, Reply, Text
<1> QED BY <1>1, <1>2, HarmlessKeeps

\* A delivery that is not suppressed is about the last end of its turn.
LEMMA DeliverStep == ASSUME IInv, NEW d \in due, Deliver(d) PROVE IInv'
<1>0. Types /\ d.t \in Turn /\ d \in [t : Turn, quiet : BOOLEAN] BY DEF IInv, Types
<1>1. Types'
  <2>1. \A r \in Result(d.t) : r.t \in Turn BY <1>0 DEF Result, Text
  <2>2. \A r \in rows' : r.t \in Turn
    BY <1>0, <2>1 DEF Deliver, Enqueue, Types
  <2>3. [t |-> d.t, i |-> 1] \in [t : Turn, i : Nat] BY <1>0
  <2>4. filing' \subseteq [t : Turn, i : Nat]
    BY <1>0, <2>3 DEF Deliver, Types
  <2> QED BY <1>0, <2>2, <2>4 DEF Types, Deliver, turns
<1>2. CASE Suppressed(d)
  BY <1>0, <1>1, <1>2, HarmlessKeeps DEF Deliver, Harmless, Grows, turns, Types
<1>3. CASE ~Suppressed(d)
  <2> SUFFICES ASSUME "overflow" \notin env
               PROVE  compacting' = {} /\ EndedOnce' /\ DueOfAnEnd' /\ ResultsOfEnds'
    BY <1>1 DEF IInv, Deliver, turns
  <2>1. EndedOnce /\ DueOfAnEnd /\ ResultsOfEnds /\ compacting = {} BY DEF IInv
  <2>2. UNCHANGED turns /\ due' \subseteq due BY DEF Deliver
  <2>3. Grows BY <1>0, <2>2 DEF Grows, turns, Types
  <2>4. EndedOnce' BY <2>1, <2>2 DEF EndedOnce, turns
  <2>5. DueOfAnEnd' BY <1>0, <1>1, <2>1, <2>2, <2>3, DueKeeps
  <2>6. ends[d.t] >= 1 /\ ends[d.t] \in Nat
    BY <1>0, <1>3, <2>1 DEF DueOfAnEnd, Suppressed, Types
  <2>7. \A r \in Result(d.t) : r.t = d.t /\ r.n = ends[d.t]
    BY DEF Result, Text
  <2>8. \A r \in rows' : r \in rows \/ r \in Result(d.t)
    BY <1>3 DEF Deliver, Enqueue
  <2>9. ResultsOfEnds'
    <3> SUFFICES ASSUME NEW r \in rows', r.kind = "result" PROVE r.n \in 1..ends[r.t]
      BY <2>2 DEF ResultsOfEnds, turns
    <3>1. CASE r \in rows BY <3>1, <2>1 DEF ResultsOfEnds
    <3>2. CASE r \in Result(d.t) BY <3>2, <2>6, <2>7
    <3> QED BY <3>1, <3>2, <2>8
  <2> QED BY <2>1, <2>2, <2>4, <2>5, <2>9 DEF turns
<1> QED BY <1>2, <1>3

LEMMA RegisterFileStep ==
  ASSUME IInv, NEW f \in filing, NEW ok \in BOOLEAN, RegisterFile(f, ok)
  PROVE  IInv'
<1> DEFINE row == IF ok THEN [t |-> f.t, o |-> FileOrdinal(f.i - 1), k |-> "media", kind |-> "file",
                              n |-> 0, i |-> f.i]
                  ELSE Text(f.t, LostOrdinal(f.i - 1), "lost", 0, f.i)
<1>0. f \in [t : Turn, i : Nat] BY DEF IInv, Types
<1>1. row.t \in Turn /\ row.kind # "result" BY <1>0 DEF Text
<1>2. Enqueue({row}) BY DEF RegisterFile
<1> HIDE DEF row
<1>f. filing' \subseteq [t : Turn, i : Nat]
  <2>1. [f EXCEPT !.i = @ + 1] \in [t : Turn, i : Nat] BY <1>0
  <2> QED BY <2>1 DEF RegisterFile, IInv, Types
<1>3. Types' BY <1>1, <1>2, <1>f DEF IInv, Types, RegisterFile, turns, Enqueue
<1>4. Harmless BY <1>1, <1>2 DEF IInv, Types, RegisterFile, turns, Harmless, Grows, Enqueue
<1> QED BY <1>3, <1>4, HarmlessKeeps

\* Nothing is left of the process; a turn that is given up has come to an end.
LEMMA RestartStep == ASSUME IInv, Restart PROVE IInv'
<1>0. Types BY DEF IInv
<1>1. /\ status' \in [Turn -> {"new", "queued"} \cup Active \cup Terminal]
      /\ recovery' \in [Turn -> {"none", "attempted", "resumed"}]
      /\ ends' \in [Turn -> Nat]
      /\ \A u \in Turn : ends'[u] >= ends[u]
  BY <1>0 DEF Restart, Types, Terminal
<1>2. Types' BY <1>0, <1>1 DEF Restart, Types
<1>3. EndedOnce => EndedOnce'
  BY <1>0 DEF Restart, Types, EndedOnce, Active, Terminal
<1>4. Grows
  BY <1>0, <1>1 DEF Restart, Types, Grows
<1>5. \A t \in Turn : EndedOnce => Ending(t)
  BY <1>3, <1>4 DEF Restart, Ending
<1>6. CASE Turn = {}
  BY <1>2, <1>6, <1>0 DEF IInv, Restart, EndedOnce, DueOfAnEnd, ResultsOfEnds, Types
<1>7. CASE Turn # {}
  <2> PICK t \in Turn : TRUE BY <1>7
  <2> QED BY <1>2, <1>5, EndingKeeps DEF Restart
<1> QED BY <1>6, <1>7

\* Together they keep the invariant.
LEMMA StepIInv == IInv /\ [Next]_vars => IInv'
<1> SUFFICES ASSUME IInv, [Next]_vars PROVE IInv'
  OBVIOUS
<1>1. CASE UNCHANGED vars
  BY <1>1 DEF vars, turns, process, IInv, Types, EndedOnce, DueOfAnEnd, ResultsOfEnds
<1>2. ASSUME NEW t \in Turn,
             \/ Create(t) \/ Dispatch(t) \/ AskApproval(t) \/ Decide(t) \/ Compacted(t)
             \/ \E c \in Command : CommandStatus(c, t) \/ CommandDecide(c, t)
      PROVE  IInv'
  BY <1>2, HarmlessSteps
<1>3. ASSUME NEW t \in Turn,
             \/ CodexExit(t) \/ Overflow(t) \/ Resume(t) \/ Stop(t)
             \/ \E s \in {"completed", "failed", "interrupted"} : Finish(t, s)
             \/ \E c \in Command : CommandStop(c, t)
             \/ \E reported \in BOOLEAN : CompactionFails(t, reported)
      PROVE  IInv'
  BY <1>3, CodexExitStep, OverflowStep, ResumeStep, StopStep, FinishStep, CommandStopStep,
     CompactionFailsStep
<1>4. CASE Restart
  BY <1>4, RestartStep
<1>5. CASE \/ \E d \in due : Deliver(d)
           \/ \E f \in filing, ok \in BOOLEAN : RegisterFile(f, ok)
           \/ \E s \in stopping : StopReturns(s) \/ StopFails(s)
           \/ \E a \in owed : Answer(a)
  BY <1>5, DeliverStep, RegisterFileStep, StopReturnsStep, StopFailsStep, AnswerStep
<1> QED BY <1>1, <1>2, <1>3, <1>4, <1>5 DEF Next

\* A turn that is over has ended, and what is due or in the outbox is about ends.
THEOREM Invariant == Spec => []IInv
BY InitIInv, StepIInv, PTL DEF Spec

\* The user is told of no end that did not happen: not of a turn that recovers from a
\* lost app-server, whatever stops, resumes, commands and restarts come between.
THEOREM NoFalseResultCorrect == Spec => []NoFalseResult
<1>1. IInv => NoFalseResult
  BY DEF IInv, ResultsOfEnds, NoFalseResult
<1> QED BY <1>1, Invariant, PTL

-----------------------------------------------------------------------------
\* The outbox as the answers find it

\* A set of ordinals with a largest one, if it has any.
Topped(S) == S = {} \/ \E o \in S : \A p \in S : p <= o

\* The ordinals that rows rs have for turn t.
OrdinalsIn(rs, t) == {r.o : r \in {q \in rs : q.t = t}}

\* The types, and what nextOutboxOrdinal needs: every turn's rows have a last one.
TInv == TypeOK /\ \A t \in Turn : Topped(Ordinals(t))

LEMMA ToppedUnion ==
  ASSUME NEW A \in SUBSET Int, NEW B \in SUBSET Int, Topped(A), Topped(B)
  PROVE  Topped(A \cup B)
<1>1. CASE A = {} \/ B = {}
  BY <1>1 DEF Topped
<1>2. CASE A # {} /\ B # {}
  <2>1. PICK a \in A : \A p \in A : p <= a BY <1>2 DEF Topped
  <2>2. PICK b \in B : \A p \in B : p <= b BY <1>2 DEF Topped
  <2>3. CASE a <= b BY <2>1, <2>2, <2>3 DEF Topped
  <2>4. CASE b <= a BY <2>1, <2>2, <2>4 DEF Topped
  <2> QED BY <2>3, <2>4
<1> QED BY <1>1, <1>2

\* A row whose key is taken finds its ordinal among those of its turn, so an
\* insertion adds all ordinals of what it is asked to insert.
LEMMA EnqueueOrdinals ==
  ASSUME NEW rs, Enqueue(rs), NEW t
  PROVE  Ordinals(t)' = Ordinals(t) \cup OrdinalsIn(rs, t)
<1>1. rows \subseteq rows' /\ rows' \subseteq (rows \cup rs) BY DEF Enqueue
<1>2. ASSUME NEW r \in rs, r.t = t PROVE \E q \in rows' : q.t = t /\ q.o = r.o
  BY <1>2 DEF Enqueue, SameKey
<1>3. ASSUME NEW o PROVE o \in Ordinals(t)' <=> o \in Ordinals(t) \cup OrdinalsIn(rs, t)
  BY <1>1, <1>2 DEF Ordinals, OrdinalsIn
<1> QED BY <1>3

\* nextOutboxOrdinal returns an ordinal after all those of the turn.
LEMMA NextOrdinalIsLast ==
  ASSUME rows \subseteq Row, NEW t \in Turn, Topped(Ordinals(t))
  PROVE  /\ NextOrdinal(t) \in Int
         /\ \A p \in Ordinals(t) : p \in Int /\ p < NextOrdinal(t)
         /\ Ordinals(t) = {} => NextOrdinal(t) = 0
         /\ Ordinals(t) # {} => \E p \in Ordinals(t) : NextOrdinal(t) = p + 1
<1>1. \A p \in Ordinals(t) : p \in Int BY DEF Ordinals, Row
<1>2. CASE Ordinals(t) = {} BY <1>2 DEF NextOrdinal
<1>3. CASE Ordinals(t) # {}
  <2>1. PICK o \in Ordinals(t) : \A p \in Ordinals(t) : p <= o BY <1>3 DEF Topped
  <2>2. o + 1 \in {p + 1 : p \in Ordinals(t)} BY <2>1
  <2>3. \A p \in Ordinals(t) : p < o + 1 BY <1>1, <2>1
  <2>4. /\ NextOrdinal(t) \in {p + 1 : p \in Ordinals(t)}
        /\ \A p \in Ordinals(t) : p < NextOrdinal(t)
    BY <1>3, <2>2, <2>3 DEF NextOrdinal
  <2> QED BY <1>1, <1>3, <2>4
<1> QED BY <1>2, <1>3

LEMMA EnqueueTopped ==
  ASSUME TInv, NEW rs \in SUBSET Row, Enqueue(rs), \A t \in Turn : Topped(OrdinalsIn(rs, t))
  PROVE  rows' \subseteq Row /\ \A t \in Turn : Topped(Ordinals(t))'
<1>1. rows \subseteq Row BY DEF TInv, TypeOK
<1>2. rows' \subseteq Row BY <1>1 DEF Enqueue
<1>3. ASSUME NEW t \in Turn PROVE Topped(Ordinals(t))'
  <2>1. Ordinals(t) \in SUBSET Int BY <1>1 DEF Ordinals, Row
  <2>2. OrdinalsIn(rs, t) \in SUBSET Int BY DEF OrdinalsIn, Row
  <2>3. Topped(Ordinals(t)) BY DEF TInv
  <2>4. Topped(Ordinals(t) \cup OrdinalsIn(rs, t)) BY <2>1, <2>2, <2>3, ToppedUnion
  <2>5. Ordinals(t)' = Ordinals(t) \cup OrdinalsIn(rs, t) BY EnqueueOrdinals
  <2> QED BY <2>4, <2>5 DEF Topped
<1> QED BY <1>2, <1>3

\* One row has one ordinal.
LEMMA EnqueueOne ==
  ASSUME TInv, NEW r \in Row, Enqueue({r})
  PROVE  rows' \subseteq Row /\ \A t \in Turn : Topped(Ordinals(t))'
<1>1. r.o \in Int BY DEF Row
<1>2. \A t \in Turn : OrdinalsIn({r}, t) = {} \/ OrdinalsIn({r}, t) = {r.o}
  BY DEF OrdinalsIn
<1>3. \A t \in Turn : Topped(OrdinalsIn({r}, t)) BY <1>1, <1>2 DEF Topped
<1> QED BY <1>3, EnqueueTopped

\* A text of the turn.
LEMMA TextIsRow ==
  ASSUME NEW t \in Turn, NEW o \in Int, NEW kind \in Kind, NEW n \in Nat, NEW i \in Nat
  PROVE  Text(t, o, kind, n, i) \in Row
BY DEF Text, Row

LEMMA ReplyIsRow ==
  ASSUME TInv, NEW t \in Turn, NEW c \in Nat
  PROVE  Reply(t, c) \in Row
<1>1. NextOrdinal(t) \in Int BY NextOrdinalIsLast DEF TInv, TypeOK
<1> QED BY <1>1, TextIsRow DEF Reply, Kind

\* The parts of a result have the ordinals from 0 on.
LEMMA ResultIsRows ==
  ASSUME TInv, NEW t \in Turn
  PROVE  /\ Result(t) \subseteq Row
         /\ \A u \in Turn : Topped(OrdinalsIn(Result(t), u))
<1>1. ends[t] \in Nat BY DEF TInv, TypeOK
<1>2. Chunks \in Nat /\ Chunks - 1 \in 0..(Chunks - 1) BY DeliveryAssumption
<1>3. Result(t) \subseteq Row
  <2> SUFFICES ASSUME NEW i \in 1..Chunks PROVE Text(t, i - 1, "result", ends[t], i) \in Row
    BY DEF Result
  <2>1. i \in Nat /\ i - 1 \in Int BY <1>2
  <2> QED BY <1>1, <2>1, TextIsRow DEF Kind
<1>4. ASSUME NEW u \in Turn PROVE Topped(OrdinalsIn(Result(t), u))
  <2>1. CASE u # t
    <3>1. \A r \in Result(t) : r.t = t BY DEF Result, Text
    <3>2. OrdinalsIn(Result(t), u) = {} BY <2>1, <3>1 DEF OrdinalsIn
    <3> QED BY <3>2 DEF Topped
  <2>2. CASE u = t
    <3>1. \A o \in OrdinalsIn(Result(t), t) : o \in Int /\ o <= Chunks - 1
      BY <1>2 DEF OrdinalsIn, Result, Text
    <3>2. Chunks \in 1..Chunks BY DeliveryAssumption
    <3>3. Text(t, Chunks - 1, "result", ends[t], Chunks) \in Result(t) BY <3>2 DEF Result
    <3>4. Chunks - 1 \in OrdinalsIn(Result(t), t) BY <3>3 DEF OrdinalsIn, Text
    <3> QED BY <2>2, <3>1, <3>4 DEF Topped
  <2> QED BY <2>1, <2>2
<1> QED BY <1>3, <1>4

\* The types that the invariant of the ends leaves out.
Rest ==
  /\ wants \in [Turn -> BOOLEAN] /\ live \in [Turn -> BOOLEAN]
  /\ asks \in [Turn -> 0..MaxAsks]
  /\ compacting \subseteq Turn
  /\ filing \subseteq [t : Turn, i : 1..Files]
  /\ commands \in 0..MaxCommands
  /\ env \in Scenario

RowsOK == rows \subseteq Row /\ \A t \in Turn : Topped(Ordinals(t))

\* The steps that insert nothing.
LEMMA TurnRest ==
  ASSUME TInv, NEW t \in Turn,
         \/ Dispatch(t) \/ Decide(t) \/ CodexExit(t) \/ Overflow(t) \/ Resume(t) \/ Stop(t)
         \/ Compacted(t)
         \/ \E s \in {"completed", "failed", "interrupted"} : Finish(t, s)
         \/ \E reported \in BOOLEAN : CompactionFails(t, reported)
  PROVE  Rest' /\ rows' = rows
<1> USE DEF TInv, TypeOK, Rest
<1>1. CASE Dispatch(t) BY <1>1 DEF Dispatch, process
<1>2. CASE Decide(t) BY <1>2 DEF Decide, process
<1>3. CASE CodexExit(t) BY <1>3 DEF CodexExit
<1>4. CASE Overflow(t) BY <1>4 DEF Overflow
<1>5. CASE Resume(t) BY <1>5 DEF Resume, process
<1>6. CASE Stop(t) BY <1>6 DEF Stop
<1>7. CASE Compacted(t) BY <1>7 DEF Compacted, process
<1>8. ASSUME NEW s \in {"completed", "failed", "interrupted"}, Finish(t, s)
      PROVE  Rest' /\ rows' = rows
  BY <1>8 DEF Finish
<1>9. ASSUME NEW reported \in BOOLEAN, CompactionFails(t, reported)
      PROVE  Rest' /\ rows' = rows
  BY <1>9 DEF CompactionFails
<1> QED BY <1>1, <1>2, <1>3, <1>4, <1>5, <1>6, <1>7, <1>8, <1>9

LEMMA OtherRest ==
  ASSUME TInv, Restart \/ \E s \in stopping : StopReturns(s) \/ StopFails(s)
  PROVE  Rest' /\ rows' = rows
BY DEF TInv, TypeOK, Rest, Restart, StopReturns, StopFails, turns

\* The steps that insert a row.
LEMMA CreateOK == ASSUME TInv, NEW t \in Turn, Create(t) PROVE Rest' /\ RowsOK'
<1>1. Rest' BY DEF TInv, TypeOK, Rest, Create, process
<1>2. Text(t, NoticeOrdinal, "notice", 0, 0) \in Row
  BY TextIsRow DEF NoticeOrdinal, Kind
<1>3. RowsOK'
  <2>1. CASE rows' = rows BY <2>1 DEF TInv, TypeOK, RowsOK, Ordinals
  <2>2. CASE Enqueue({Text(t, NoticeOrdinal, "notice", 0, 0)})
    BY <1>2, <2>2, EnqueueOne DEF RowsOK
  <2> QED BY <2>1, <2>2 DEF Create
<1> QED BY <1>1, <1>3

LEMMA AskApprovalOK == ASSUME TInv, NEW t \in Turn, AskApproval(t) PROVE Rest' /\ RowsOK'
<1>0. asks[t] \in 0..MaxAsks /\ MaxAsks \in Nat BY DeliveryAssumption DEF TInv, TypeOK
<1>1. Rest' BY <1>0 DEF TInv, TypeOK, Rest, AskApproval, process
<1>2. Text(t, AskOrdinal, "ask", asks[t] + 1, 0) \in Row
  BY <1>0, TextIsRow DEF AskOrdinal, Kind
<1>3. RowsOK' BY <1>2, EnqueueOne DEF RowsOK, AskApproval
<1> QED BY <1>1, <1>3

LEMMA ReplyOK ==
  ASSUME TInv, NEW t \in Turn, NEW c \in Command, Enqueue({Reply(t, c)})
  PROVE  RowsOK'
<1>1. c \in Nat BY DeliveryAssumption DEF Command
<1>2. Reply(t, c) \in Row BY <1>1, ReplyIsRow
<1> QED BY <1>2, EnqueueOne DEF RowsOK

LEMMA CommandOK ==
  ASSUME TInv, NEW t \in Turn, NEW c \in Command,
         CommandStatus(c, t) \/ CommandDecide(c, t) \/ CommandStop(c, t)
  PROVE  Rest' /\ RowsOK'
<1>1. commands' = c /\ c \in 0..MaxCommands
  BY DeliveryAssumption DEF CommandStatus, CommandDecide, CommandStop, Comes, Command
<1>2. Rest'
  BY <1>1 DEF TInv, TypeOK, Rest, CommandStatus, CommandDecide, CommandStop, turns, process
<1>3. rows' = rows \/ Enqueue({Reply(t, c)})
  BY DEF CommandStatus, CommandDecide, CommandStop
<1>4. RowsOK'
  <2>1. CASE rows' = rows BY <2>1 DEF TInv, TypeOK, RowsOK, Ordinals
  <2>2. CASE Enqueue({Reply(t, c)}) BY <2>2, ReplyOK
  <2> QED BY <2>1, <2>2, <1>3
<1> QED BY <1>2, <1>4

LEMMA AnswerOK == ASSUME TInv, NEW a \in owed, Answer(a) PROVE Rest' /\ RowsOK'
<1>1. Rest' BY DEF TInv, TypeOK, Rest, Answer, turns
<1>2. a.t \in Turn /\ a.c \in Command BY DEF TInv, TypeOK
<1> QED BY <1>1, <1>2, ReplyOK DEF Answer

LEMMA DeliverOK == ASSUME TInv, NEW d \in due, Deliver(d) PROVE Rest' /\ RowsOK'
<1>0. d.t \in Turn BY DEF TInv, TypeOK
<1>1. Files > 0 => [t |-> d.t, i |-> 1] \in [t : Turn, i : 1..Files]
  BY <1>0, DeliveryAssumption
<1>2. Rest' BY <1>1 DEF TInv, TypeOK, Rest, Deliver, turns
<1>3. RowsOK'
  <2>1. CASE rows' = rows BY <2>1 DEF TInv, TypeOK, RowsOK, Ordinals
  <2>2. CASE Enqueue(Result(d.t)) BY <1>0, <2>2, ResultIsRows, EnqueueTopped DEF RowsOK
  <2> QED BY <2>1, <2>2 DEF Deliver
<1> QED BY <1>2, <1>3

\* The row that a file leaves.
FileRow(f, ok) ==
  IF ok THEN [t |-> f.t, o |-> FileOrdinal(f.i - 1), k |-> "media", kind |-> "file",
              n |-> 0, i |-> f.i]
        ELSE Text(f.t, LostOrdinal(f.i - 1), "lost", 0, f.i)

LEMMA RegisterFileOK ==
  ASSUME TInv, NEW f \in filing, NEW ok \in BOOLEAN, RegisterFile(f, ok)
  PROVE  Rest' /\ RowsOK'
<1>0. f \in [t : Turn, i : 1..Files] /\ f.t \in Turn /\ f.i \in Nat /\ f.i - 1 \in Int
  BY DEF TInv, TypeOK
<1>1. f.i < Files => [f EXCEPT !.i = @ + 1] \in [t : Turn, i : 1..Files]
  BY <1>0, DeliveryAssumption
<1>2. Rest' BY <1>1 DEF TInv, TypeOK, Rest, RegisterFile, turns
<1>3. FileRow(f, ok) \in Row
  <2>1. CASE ok
    <3>1. FileOrdinal(f.i - 1) \in Int BY <1>0 DEF FileOrdinal
    <3>2. FileRow(f, ok) = [t |-> f.t, o |-> FileOrdinal(f.i - 1), k |-> "media",
                            kind |-> "file", n |-> 0, i |-> f.i]
      BY <2>1 DEF FileRow
    <3>3. "file" \in Kind BY DEF Kind
    <3> QED BY <1>0, <3>1, <3>2, <3>3 DEF Row
  <2>2. CASE ~ok
    <3>1. LostOrdinal(f.i - 1) \in Int BY <1>0 DEF LostOrdinal
    <3> QED BY <1>0, <2>2, <3>1, TextIsRow DEF FileRow, Kind
  <2> QED BY <2>1, <2>2
<1>4. Enqueue({FileRow(f, ok)}) BY DEF RegisterFile, FileRow
<1> QED BY <1>2, <1>3, <1>4, EnqueueOne DEF RowsOK

LEMMA StepTInv == IInv /\ TInv /\ [Next]_vars => TInv'
<1> SUFFICES ASSUME IInv, TInv, [Next]_vars PROVE TInv'
  OBVIOUS
<1>t. Types' BY StepIInv DEF IInv
<1>p. Rest' /\ RowsOK' => TInv'
  BY <1>t DEF TInv, TypeOK, Types, Rest, RowsOK
<1>r. rows' = rows => RowsOK'
  BY DEF TInv, TypeOK, RowsOK, Ordinals
<1>1. CASE UNCHANGED vars
  <2>1. Rest' BY <1>1 DEF vars, turns, process, TInv, TypeOK, Rest
  <2> QED BY <1>1, <1>p, <1>r, <2>1 DEF vars
<1>2. ASSUME NEW t \in Turn,
             \/ Create(t) \/ Dispatch(t) \/ AskApproval(t) \/ Decide(t)
             \/ CodexExit(t) \/ Overflow(t) \/ Resume(t) \/ Stop(t)
             \/ \E s \in {"completed", "failed", "interrupted"} : Finish(t, s)
             \/ \E c \in Command : CommandStatus(c, t) \/ CommandDecide(c, t) \/ CommandStop(c, t)
             \/ Compacted(t) \/ \E reported \in BOOLEAN : CompactionFails(t, reported)
      PROVE  TInv'
  BY <1>2, <1>p, <1>r, TurnRest, CreateOK, AskApprovalOK, CommandOK
<1>3. CASE Restart \/ \E s \in stopping : StopReturns(s) \/ StopFails(s)
  BY <1>3, <1>p, <1>r, OtherRest
<1>4. CASE \/ \E d \in due : Deliver(d)
           \/ \E f \in filing, ok \in BOOLEAN : RegisterFile(f, ok)
           \/ \E a \in owed : Answer(a)
  BY <1>4, <1>p, DeliverOK, RegisterFileOK, AnswerOK
<1> QED BY <1>1, <1>2, <1>3, <1>4 DEF Next

\* The variables have their types, the rows integer ordinals with a largest one for
\* each turn among them.
THEOREM TypesCorrect == Spec => [](TypeOK /\ TInv)
<1>1. Init => TInv
  BY DeliveryAssumption DEF Init, TInv, TypeOK, Ordinals, Topped, Active, Terminal
<1>2. IInv /\ TInv /\ [Next]_vars => TInv' BY StepTInv
<1>3. TInv => TypeOK BY DEF TInv
<1> QED BY <1>1, <1>2, <1>3, Invariant, PTL DEF Spec

-----------------------------------------------------------------------------
\* The answers to the commands

\* A command is answered once: only commands that came in are answered or under way
\* to it, none twice, and none that is under way is answered already.
CInv ==
  /\ \A s \in stopping : s.c <= commands
  /\ \A a \in owed : a.c <= commands
  /\ \A s, q \in stopping : s.c = q.c /\ s.c # 0 => s = q
  /\ \A a, b \in owed : a.c = b.c => a = b
  /\ \A s \in stopping, a \in owed : s.c # a.c
  /\ \A r \in rows : r.kind = "reply" => r.n \in 1..commands /\ ~Answering(r.n)
  /\ CommandsAnswered

\* The commands that have their answer in the outbox.
Answered == {c \in Command : \E r \in rows : r.kind = "reply" /\ r.n = c}

\* Where rows are while n commands are answered: the answers follow the notice, the
\* first question or the result, and each moves the end of one of these by one.
Zones(n) == (NoticeOrdinal..(NoticeOrdinal + n)) \cup (AskOrdinal..(AskOrdinal + n)) \cup Nat

\* The ordinal of a question is kept for it, and the first question took it.
AInv ==
  /\ \A r \in rows : r.o \in Zones(Cardinality(Answered))
  /\ \A r \in rows : r.o = AskOrdinal => r.kind = "ask"
  /\ \A r \in rows : r.kind = "ask" => asks[r.t] >= 1
  /\ \A t \in Turn : asks[t] >= 1 =>
       \E r \in rows : r.t = t /\ r.kind = "ask" /\ r.n = 1

\* nextOutboxOrdinal leaves room: an answer is always inserted.
LEMMA ReplyInserted ==
  ASSUME TInv, NEW t \in Turn, NEW c, Enqueue({Reply(t, c)})
  PROVE  rows' = rows \cup {Reply(t, c)} /\ Reply(t, c) \notin rows
<1>1. \A p \in Ordinals(t) : p < NextOrdinal(t) /\ p \in Int /\ NextOrdinal(t) \in Int
  BY NextOrdinalIsLast DEF TInv, TypeOK
<1>2. Reply(t, c).t = t /\ Reply(t, c).o = NextOrdinal(t) BY DEF Reply, Text
<1>3. NextOrdinal(t) \notin Ordinals(t) BY <1>1
<1>4. \A q \in rows : ~(q.t = t /\ q.o = NextOrdinal(t)) BY <1>3 DEF Ordinals
<1> QED BY <1>2, <1>4 DEF Enqueue, SameKey

LEMMA RowsGrow ==
  ASSUME NEW rs, Enqueue(rs)
  PROVE  rows \subseteq rows' /\ \A r \in rows' : r \in rows \/ r \in rs
BY DEF Enqueue

\* A step that is about no command.
LEMMA QuietKeeps ==
  ASSUME CInv, stopping' = stopping, owed' = owed, commands' = commands, env' = env,
         rows \subseteq rows', \A r \in rows' : r \in rows \/ r.kind # "reply"
  PROVE  CInv'
<1>1. ASSUME NEW r \in rows', r.kind = "reply"
      PROVE  r.n \in 1..commands' /\ ~Answering(r.n)'
  BY <1>1 DEF CInv, Answering
<1>2. CommandsAnswered' BY DEF CInv, CommandsAnswered, Answering
<1> QED BY <1>1, <1>2 DEF CInv

\* A command that is answered as it comes in.
LEMMA AnsweredAtOnce ==
  ASSUME TInv, CInv, NEW t \in Turn, NEW c \in Command, Comes(c, t),
         Enqueue({Reply(t, c)}), stopping' = stopping, owed' = owed, env' = env
  PROVE  CInv'
<1>0. c = commands + 1 /\ commands' = c /\ commands \in Nat
  BY DeliveryAssumption DEF Comes, TInv, TypeOK
<1>1. rows' = rows \cup {Reply(t, c)} BY ReplyInserted
<1>2. Reply(t, c).kind = "reply" /\ Reply(t, c).n = c BY DEF Reply, Text
<1>3. \A s \in stopping \cup owed : s.c \in Int BY DEF TInv, TypeOK, Command
<1>4. ~Answering(c)'
  BY <1>0, <1>3 DEF CInv, Answering
<1>5. ASSUME NEW r \in rows', r.kind = "reply"
      PROVE  r.n \in 1..commands' /\ ~Answering(r.n)'
  <2>1. CASE r \in rows
    <3>1. r.n \in 1..commands /\ ~Answering(r.n) BY <1>5, <2>1 DEF CInv
    <3> QED BY <1>0, <3>1 DEF Answering
  <2>2. CASE r = Reply(t, c) BY <1>0, <1>2, <1>4, <2>2
  <2> QED BY <1>1, <2>1, <2>2
<1>6. CommandsAnswered'
  <2> SUFFICES ASSUME NEW e \in 1..commands', "restart" \notin env
               PROVE  Answering(e)' \/ \E r \in rows' : r.kind = "reply" /\ r.n = e
    BY DEF CommandsAnswered
  <2>1. CASE e = c BY <1>1, <1>2, <2>1
  <2>2. CASE e # c
    <3>1. e \in 1..commands BY <1>0, <2>2
    <3> QED BY <1>1, <3>1 DEF CInv, CommandsAnswered, Answering
  <2> QED BY <2>1, <2>2
<1>7. \A s \in stopping \cup owed : s.c <= commands' BY <1>0, <1>3 DEF CInv
<1> QED BY <1>5, <1>6, <1>7 DEF CInv

\* A stop, by command c or by the browser (0), that waits for the app-server.
LEMMA AwaitStopC ==
  ASSUME TInv, CInv, NEW t \in Turn, NEW c \in 0..MaxCommands, AwaitStop(t, c),
         rows' = rows, owed' = owed, env' = env,
         \/ c = 0 /\ commands' = commands
         \/ c = commands + 1 /\ commands' = c
  PROVE  CInv'
<1>0. commands \in Nat /\ commands' \in Nat /\ commands <= commands' /\ c \in Nat
  BY DeliveryAssumption DEF TInv, TypeOK
<1>1. \A s \in stopping \cup owed : s.c \in Int /\ s.c <= commands
  BY DEF TInv, TypeOK, Command, CInv
<1>o. \A a \in owed : a.c # 0 BY DEF TInv, TypeOK, Command
<1>2. stopping' = stopping \cup {[t |-> t, c |-> c]} BY DEF AwaitStop
<1>3. \A s \in stopping' : s \in stopping \/ (s = [t |-> t, c |-> c] /\ s.c = c) BY <1>2
<1>4. c # 0 => c = commands' /\ c = commands + 1 BY <1>0
<1>5. \A s, q \in stopping' : s.c = q.c /\ s.c # 0 => s = q
  <2> SUFFICES ASSUME NEW s \in stopping', NEW q \in stopping', s.c = q.c, s.c # 0
               PROVE  s = q
    OBVIOUS
  <2>1. CASE s \in stopping /\ q \in stopping BY <2>1 DEF CInv
  <2>2. CASE s \notin stopping \/ q \notin stopping
    <3>1. s.c = c BY <1>3, <2>2
    <3>2. c # 0 /\ c = commands + 1 /\ q.c = c BY <1>4, <3>1
    <3>3. ~(s.c <= commands) /\ ~(q.c <= commands) BY <1>0, <3>1, <3>2
    <3>4. s \notin stopping /\ q \notin stopping BY <1>1, <3>3
    <3> QED BY <1>3, <3>4
  <2> QED BY <2>1, <2>2
<1>6. \A s \in stopping', a \in owed' : s.c # a.c
  <2> SUFFICES ASSUME NEW s \in stopping', NEW a \in owed PROVE s.c # a.c
    OBVIOUS
  <2>1. CASE s \in stopping BY <2>1 DEF CInv
  <2>2. CASE s.c = c BY <1>0, <1>1, <1>4, <1>o, <2>2
  <2> QED BY <1>3, <2>1, <2>2
<1>7. \A s \in stopping' \cup owed' : s.c <= commands'
  <2> SUFFICES ASSUME NEW s \in stopping' \cup owed PROVE s.c <= commands'
    OBVIOUS
  <2>1. CASE s \in stopping \cup owed BY <1>0, <1>1, <2>1
  <2>2. CASE s.c = c BY <1>0, <1>4, <2>2
  <2> QED BY <1>3, <2>1, <2>2
<1>8. ASSUME NEW r \in rows', r.kind = "reply"
      PROVE  r.n \in 1..commands' /\ ~Answering(r.n)'
  <2>1. r.n \in 1..commands /\ ~Answering(r.n) BY <1>8 DEF CInv
  <2>2. r.n # c BY <1>0, <1>4, <2>1
  <2> QED BY <1>0, <1>3, <2>1, <2>2 DEF Answering
<1>9. CommandsAnswered'
  <2> SUFFICES ASSUME NEW e \in 1..commands', "restart" \notin env
               PROVE  Answering(e)' \/ \E r \in rows' : r.kind = "reply" /\ r.n = e
    BY DEF CommandsAnswered
  <2>1. CASE e = c
    <3>1. [t |-> t, c |-> c] \in stopping' /\ [t |-> t, c |-> c].c = c BY <1>2
    <3> QED BY <2>1, <3>1 DEF Answering
  <2>2. CASE e # c
    <3>1. e \in 1..commands BY <1>0, <2>2
    <3> QED BY <1>2, <3>1 DEF CInv, CommandsAnswered, Answering
  <2> QED BY <2>1, <2>2
<1> QED BY <1>5, <1>6, <1>7, <1>8, <1>9 DEF CInv

\* A stop of a queued turn: its answer waits for the delivery.
LEMMA CancelC ==
  ASSUME TInv, CInv, NEW t \in Turn, NEW c \in Command, Comes(c, t),
         owed' = {[t |-> t, c |-> c]}, stopping' = stopping, rows' = rows, env' = env
  PROVE  CInv'
<1>0. c = commands + 1 /\ commands' = c /\ commands \in Nat /\ owed = {}
  BY DeliveryAssumption DEF Comes, Macrotask, TInv, TypeOK
<1>1. \A s \in stopping : s.c \in Int /\ s.c <= commands
  BY DEF TInv, TypeOK, CInv
<1>2. \A a \in owed' : a.c = c /\ a = [t |-> t, c |-> c] OBVIOUS
<1>3. \A s \in stopping', a \in owed' : s.c # a.c BY <1>0, <1>1, <1>2
<1>4. \A s \in stopping' : s.c <= commands' BY <1>0, <1>1
<1>5. ASSUME NEW r \in rows', r.kind = "reply"
      PROVE  r.n \in 1..commands' /\ ~Answering(r.n)'
  <2>1. r.n \in 1..commands /\ ~Answering(r.n) BY <1>5 DEF CInv
  <2>2. r.n # c BY <1>0, <2>1
  <2> QED BY <1>0, <1>2, <2>1, <2>2 DEF Answering
<1>6. CommandsAnswered'
  <2> SUFFICES ASSUME NEW e \in 1..commands', "restart" \notin env
               PROVE  Answering(e)' \/ \E r \in rows' : r.kind = "reply" /\ r.n = e
    BY DEF CommandsAnswered
  <2>1. CASE e = c
    <3>1. [t |-> t, c |-> c] \in owed' /\ [t |-> t, c |-> c].c = c OBVIOUS
    <3> QED BY <2>1, <3>1 DEF Answering
  <2>2. CASE e # c
    <3>1. e \in 1..commands BY <1>0, <2>2
    <3>2. Answering(e) => Answering(e)' BY <1>0 DEF Answering
    <3> QED BY <3>1, <3>2 DEF CInv, CommandsAnswered
  <2> QED BY <2>1, <2>2
<1>7. \A a \in owed' : a.c <= commands' BY <1>0, <1>2
<1>8. \A a, b \in owed' : a.c = b.c => a = b BY <1>2
<1> QED BY <1>3, <1>4, <1>5, <1>6, <1>7, <1>8 DEF CInv

\* interrupt() returned, or the app-server is gone: what waited for it, if it was a
\* command, is owed its answer.
LEMMA MovesToOwed ==
  ASSUME TInv, CInv, NEW from \in SUBSET stopping, stopping' = stopping \ from,
         owed' = owed \cup {[t |-> s.t, c |-> s.c] : s \in {q \in from : q.c # 0}},
         commands' = commands, rows' = rows, env' = env
  PROVE  CInv'
<1>1. \A s \in stopping \cup owed : s.c \in Int /\ s.c <= commands
  BY DEF TInv, TypeOK, Command, CInv
<1>2. \A a \in owed' : a \in owed \/ \E s \in from : a = [t |-> s.t, c |-> s.c] /\ s.c # 0
  OBVIOUS
<1>3. \A s \in from : s \in stopping OBVIOUS
<1>4. \A a \in owed' : a \in owed \/ \E s \in from : a.c = s.c /\ s.c # 0
  BY <1>2
<1>5. \A a, b \in owed' : a.c = b.c => a = b
  <2> SUFFICES ASSUME NEW a \in owed', NEW b \in owed', a.c = b.c PROVE a = b
    OBVIOUS
  <2>1. CASE a \in owed /\ b \in owed BY <2>1 DEF CInv
  <2>2. CASE a \in owed /\ b \notin owed BY <1>3, <1>4, <2>2 DEF CInv
  <2>3. CASE a \notin owed /\ b \in owed BY <1>3, <1>4, <2>3 DEF CInv
  <2>4. CASE a \notin owed /\ b \notin owed
    <3>1. PICK s \in from : a = [t |-> s.t, c |-> s.c] /\ s.c # 0 BY <1>2, <2>4
    <3>2. PICK q \in from : b = [t |-> q.t, c |-> q.c] /\ q.c # 0 BY <1>2, <2>4
    <3>3. s.c = q.c BY <3>1, <3>2
    <3>4. s = q BY <1>3, <3>1, <3>3 DEF CInv
    <3> QED BY <3>1, <3>2, <3>4
  <2> QED BY <2>1, <2>2, <2>3, <2>4
<1>6. \A s \in stopping', a \in owed' : s.c # a.c
  <2> SUFFICES ASSUME NEW s \in stopping', NEW a \in owed', s.c = a.c PROVE FALSE
    OBVIOUS
  <2>1. CASE a \in owed BY <2>1 DEF CInv
  <2>2. CASE a \notin owed
    <3>1. PICK q \in from : a.c = q.c /\ q.c # 0 BY <1>4, <2>2
    <3>2. s = q BY <1>3, <3>1 DEF CInv
    <3> QED BY <3>2
  <2> QED BY <2>1, <2>2
<1>7. \A s \in stopping' \cup owed' : s.c <= commands' BY <1>1, <1>3, <1>4
<1>8. \A e : Answering(e)' => Answering(e) BY <1>3, <1>4 DEF Answering
<1>9. ASSUME NEW e \in 1..commands, Answering(e) PROVE Answering(e)'
  <2>1. PICK s \in stopping \cup owed : s.c = e BY <1>9 DEF Answering
  <2>2. CASE s \in from
    <3>1. s.c # 0 BY <2>1
    <3>2. [t |-> s.t, c |-> s.c] \in owed' BY <2>2, <3>1
    <3>3. [t |-> s.t, c |-> s.c].c = e BY <2>1
    <3> QED BY <3>2, <3>3 DEF Answering
  <2>3. CASE s \notin from BY <2>1, <2>3 DEF Answering
  <2> QED BY <2>2, <2>3
<1>10. CommandsAnswered' BY <1>9 DEF CInv, CommandsAnswered
<1> QED BY <1>5, <1>6, <1>7, <1>8, <1>10 DEF CInv

LEMMA StopSettlesC ==
  ASSUME TInv, CInv, NEW s \in stopping, StopReturns(s) \/ StopFails(s)
  PROVE  CInv'
<1>1. /\ stopping' = stopping \ {s} /\ Owe(s)
      /\ commands' = commands /\ rows' = rows /\ env' = env
  BY DEF StopReturns, StopFails
<1>2. owed' = owed \cup {[t |-> p.t, c |-> p.c] : p \in {q \in {s} : q.c # 0}}
  BY <1>1 DEF Owe
<1> QED BY <1>1, <1>2, MovesToOwed

LEMMA CodexExitC == ASSUME TInv, CInv, NEW t \in Turn, CodexExit(t) PROVE CInv'
<1>1. /\ stopping' = stopping \ stopping
      /\ owed' = owed \cup {[t |-> s.t, c |-> s.c] : s \in {q \in stopping : q.c # 0}}
      /\ commands' = commands /\ rows' = rows /\ env' = env
  BY DEF CodexExit, Macrotask
<1> QED BY <1>1, MovesToOwed

\* The answer that was owed.
LEMMA AnswerC == ASSUME TInv, CInv, NEW a \in owed, Answer(a) PROVE CInv'
<1>0. /\ stopping' = stopping /\ owed' = owed \ {a}
      /\ commands' = commands /\ env' = env
      /\ Enqueue({Reply(a.t, a.c)}) /\ a.t \in Turn
  BY DEF Answer, TInv, TypeOK
<1>n. a.c \in 1..commands BY DEF TInv, TypeOK, Command, CInv
<1>1. rows' = rows \cup {Reply(a.t, a.c)} BY <1>0, ReplyInserted
<1>2. Reply(a.t, a.c).kind = "reply" /\ Reply(a.t, a.c).n = a.c BY DEF Reply, Text
<1>3. ~Answering(a.c)' BY <1>0 DEF CInv, Answering
<1>4. ASSUME NEW r \in rows', r.kind = "reply"
      PROVE  r.n \in 1..commands' /\ ~Answering(r.n)'
  <2>1. CASE r \in rows BY <1>0, <1>4, <2>1 DEF CInv, Answering
  <2>2. CASE r = Reply(a.t, a.c) BY <1>0, <1>2, <1>3, <1>n, <2>2
  <2> QED BY <1>1, <2>1, <2>2
<1>5. CommandsAnswered'
  <2> SUFFICES ASSUME NEW e \in 1..commands, "restart" \notin env
               PROVE  Answering(e)' \/ \E r \in rows' : r.kind = "reply" /\ r.n = e
    BY <1>0 DEF CommandsAnswered
  <2>1. CASE e = a.c BY <1>1, <1>2, <2>1
  <2>2. CASE e # a.c
    <3>1. Answering(e) => Answering(e)' BY <1>0, <2>2 DEF Answering
    <3> QED BY <1>1, <3>1 DEF CInv, CommandsAnswered
  <2> QED BY <2>1, <2>2
<1> QED BY <1>0, <1>4, <1>5 DEF CInv

LEMMA CommandStopC ==
  ASSUME TInv, CInv, NEW t \in Turn, NEW c \in Command, CommandStop(c, t)
  PROVE  CInv'
<1>0. Comes(c, t) /\ env' = env /\ c \in 0..MaxCommands /\ c = commands + 1 /\ commands' = c
  BY DeliveryAssumption DEF CommandStop, Comes, Command
<1>1. CASE owed' = {[t |-> t, c |-> c]} /\ rows' = rows /\ stopping' = stopping
  BY <1>0, <1>1, CancelC
<1>2. CASE AwaitStop(t, c) /\ rows' = rows /\ owed' = owed
  BY <1>0, <1>2, AwaitStopC
<1>3. CASE Enqueue({Reply(t, c)}) /\ stopping' = stopping /\ owed' = owed
  BY <1>0, <1>3, AnsweredAtOnce
<1> QED BY <1>1, <1>2, <1>3 DEF CommandStop, Cancel

LEMMA StopC == ASSUME TInv, CInv, NEW t \in Turn, Stop(t) PROVE CInv'
<1>0. /\ rows' = rows /\ owed' = owed /\ env' = env /\ commands' = commands
      /\ 0 \in 0..MaxCommands
  BY DeliveryAssumption DEF Stop
<1>1. CASE Cancel(t) BY <1>0, <1>1, QuietKeeps DEF Cancel
<1>2. CASE AwaitStop(t, 0) BY <1>0, <1>2, AwaitStopC
<1> QED BY <1>1, <1>2 DEF Stop

\* A step that inserts no answer and leaves the commands alone.
Uncommanded ==
  /\ stopping' = stopping /\ owed' = owed /\ commands' = commands /\ env' = env
  /\ rows \subseteq rows' /\ \A r \in rows' : r \in rows \/ r.kind # "reply"

LEMMA TurnUncommanded ==
  ASSUME NEW t \in Turn,
         \/ Create(t) \/ Dispatch(t) \/ AskApproval(t) \/ Decide(t) \/ Overflow(t) \/ Resume(t)
         \/ Compacted(t)
         \/ \E s \in {"completed", "failed", "interrupted"} : Finish(t, s)
         \/ \E reported \in BOOLEAN : CompactionFails(t, reported)
  PROVE  Uncommanded
<1> USE DEF Uncommanded
<1>1. CASE Create(t) BY <1>1, RowsGrow DEF Create, process, Text
<1>2. CASE Dispatch(t) BY <1>2 DEF Dispatch, process
<1>3. CASE AskApproval(t) BY <1>3, RowsGrow DEF AskApproval, process, Text
<1>4. CASE Decide(t) BY <1>4 DEF Decide, process
<1>5. CASE Overflow(t) BY <1>5 DEF Overflow
<1>6. CASE Resume(t) BY <1>6 DEF Resume, process
<1>7. CASE Compacted(t) BY <1>7 DEF Compacted, process
<1>8. CASE \E s \in {"completed", "failed", "interrupted"} : Finish(t, s) BY <1>8 DEF Finish
<1>9. CASE \E reported \in BOOLEAN : CompactionFails(t, reported) BY <1>9 DEF CompactionFails
<1> QED BY <1>1, <1>2, <1>3, <1>4, <1>5, <1>6, <1>7, <1>8, <1>9

LEMMA DeliveryUncommanded ==
  ASSUME \/ \E d \in due : Deliver(d)
         \/ \E f \in filing, ok \in BOOLEAN : RegisterFile(f, ok)
  PROVE  Uncommanded
<1>1. ASSUME NEW d \in due, Deliver(d) PROVE Uncommanded
  <2>1. \A r \in Result(d.t) : r.kind # "reply" BY DEF Result, Text
  <2>2. rows' = rows \/ Enqueue(Result(d.t)) BY <1>1 DEF Deliver
  <2>3. rows \subseteq rows' /\ \A r \in rows' : r \in rows \/ r.kind # "reply"
    BY <2>1, <2>2, RowsGrow
  <2> QED BY <1>1, <2>3 DEF Uncommanded, Deliver
<1>2. ASSUME NEW f \in filing, NEW ok \in BOOLEAN, RegisterFile(f, ok) PROVE Uncommanded
  <2>1. FileRow(f, ok).kind # "reply" BY DEF FileRow, Text
  <2>2. Enqueue({FileRow(f, ok)}) BY <1>2 DEF RegisterFile, FileRow
  <2>3. rows \subseteq rows' /\ \A r \in rows' : r \in rows \/ r.kind # "reply"
    BY <2>1, <2>2, RowsGrow
  <2> QED BY <1>2, <2>3 DEF Uncommanded, RegisterFile
<1> QED BY <1>1, <1>2

LEMMA RestartC == ASSUME TInv, CInv, Restart PROVE CInv'
BY DEF CInv, Restart, Answering, CommandsAnswered

LEMMA StepCInv == TInv /\ CInv /\ [Next]_vars => CInv'
<1> SUFFICES ASSUME TInv, CInv, [Next]_vars PROVE CInv'
  OBVIOUS
<1>q. Uncommanded => CInv' BY QuietKeeps DEF Uncommanded
<1>1. CASE UNCHANGED vars BY <1>1, <1>q DEF vars, process, Uncommanded
<1>2. ASSUME NEW t \in Turn,
             \/ Create(t) \/ Dispatch(t) \/ AskApproval(t) \/ Decide(t) \/ Overflow(t) \/ Resume(t)
             \/ Compacted(t)
             \/ \E s \in {"completed", "failed", "interrupted"} : Finish(t, s)
             \/ \E reported \in BOOLEAN : CompactionFails(t, reported)
      PROVE  CInv'
  BY <1>2, <1>q, TurnUncommanded
<1>3. ASSUME NEW t \in Turn, NEW c \in Command, CommandStatus(c, t) \/ CommandDecide(c, t)
      PROVE  CInv'
  BY <1>3, AnsweredAtOnce DEF CommandStatus, CommandDecide, process
<1>4. ASSUME NEW t \in Turn,
             CodexExit(t) \/ Stop(t) \/ \E c \in Command : CommandStop(c, t)
      PROVE  CInv'
  BY <1>4, CodexExitC, StopC, CommandStopC
<1>5. CASE \/ \E d \in due : Deliver(d)
           \/ \E f \in filing, ok \in BOOLEAN : RegisterFile(f, ok)
  BY <1>5, <1>q, DeliveryUncommanded
<1>6. CASE \/ Restart
           \/ \E s \in stopping : StopReturns(s) \/ StopFails(s)
           \/ \E a \in owed : Answer(a)
  BY <1>6, RestartC, StopSettlesC, AnswerC
<1> QED BY <1>1, <1>2, <1>3, <1>4, <1>5, <1>6 DEF Next

THEOREM CommandsInvariant == Spec => [](TInv /\ CInv)
<1>1. Init => CInv
  BY DEF Init, CInv, CommandsAnswered, Answering
<1>2. TInv /\ CInv /\ [Next]_vars => CInv' BY StepCInv
<1> QED BY <1>1, <1>2, TypesCorrect, PTL DEF Spec

\* Every control command has an answer in the outbox or one under way, whatever rows
\* its turn has by then and however the stops, the ends and the deliveries fall.
THEOREM CommandsAnsweredCorrect == Spec => []CommandsAnswered
<1>1. CInv => CommandsAnswered BY DEF CInv
<1> QED BY <1>1, CommandsInvariant, PTL

LEMMA AnsweredFinite ==
  /\ IsFiniteSet(Answered)
  /\ Cardinality(Answered) \in Nat /\ Cardinality(Answered) <= MaxCommands
<1>1. IsFiniteSet(Command) /\ Cardinality(Command) = MaxCommands
  BY DeliveryAssumption, FS_Interval DEF Command
<1>2. Answered \subseteq Command BY DEF Answered
<1>3. IsFiniteSet(Answered) /\ Cardinality(Answered) <= Cardinality(Command)
  BY <1>1, <1>2, FS_Subset
<1>4. Cardinality(Answered) \in Nat BY <1>3, FS_CardinalityType
<1> QED BY <1>1, <1>3, <1>4

\* While a command waits for its answer, fewer are answered than may come in.
LEMMA RoomLeft ==
  ASSUME NEW c \in Command, c \notin Answered
  PROVE  Cardinality(Answered) + 1 <= MaxCommands
<1>1. IsFiniteSet(Command) /\ Cardinality(Command) = MaxCommands
  BY DeliveryAssumption, FS_Interval DEF Command
<1>2. Cardinality(Answered \cup {c}) = Cardinality(Answered) + 1
  BY AnsweredFinite, FS_AddElement
<1>3. (Answered \cup {c}) \subseteq Command BY DEF Answered
<1> QED BY <1>1, <1>2, <1>3, FS_Subset

LEMMA ZonesGrow ==
  ASSUME NEW m \in Nat, NEW n \in Nat, m <= n
  PROVE  Zones(m) \subseteq Zones(n)
BY DEF Zones, NoticeOrdinal, AskOrdinal

\* A step that answers no command, and asks nothing.
LEMMA PlainA ==
  ASSUME AInv, asks' = asks, rows \subseteq rows', 
         \A r \in rows' : r \in rows \/
            /\ r.kind \notin {"reply", "ask"} /\ r.o # AskOrdinal
            /\ r.o \in Zones(Cardinality(Answered))
  PROVE  AInv'
<1>1. Answered' = Answered BY DEF Answered
<1> QED BY <1>1 DEF AInv, Zones

\* The first question finds its ordinal free.
LEMMA AskApprovalA == ASSUME TInv, AInv, NEW t \in Turn, AskApproval(t) PROVE AInv'
<1> DEFINE q == Text(t, AskOrdinal, "ask", asks[t] + 1, 0)
<1>0. /\ asks[t] \in 0..MaxAsks /\ asks \in [Turn -> 0..MaxAsks] /\ rows \subseteq Row
      /\ asks' = [asks EXCEPT ![t] = @ + 1] /\ Enqueue({q})
  BY DEF AskApproval, TInv, TypeOK
<1>1. q.kind = "ask" /\ q.t = t /\ q.o = AskOrdinal /\ q.k = "text" /\ q.n = asks[t] + 1
  BY DEF Text
<1> HIDE DEF q
<1>2. rows \subseteq rows' /\ \A r \in rows' : r \in rows \/ r = q BY <1>0, RowsGrow
<1>3. Answered' = Answered BY <1>1, <1>2 DEF Answered
<1>4. q.o \in Zones(Cardinality(Answered))
  BY <1>1, AnsweredFinite DEF Zones, AskOrdinal
<1>5. \A r \in rows' : r.o \in Zones(Cardinality(Answered)) BY <1>2, <1>4 DEF AInv
<1>6. \A r \in rows' : r.o = AskOrdinal => r.kind = "ask" BY <1>1, <1>2 DEF AInv
<1>7. asks'[t] >= 1 /\ \A u \in Turn : asks[u] >= 1 => asks'[u] >= 1 BY <1>0
<1>8. \A r \in rows' : r.kind = "ask" => asks'[r.t] >= 1
  BY <1>0, <1>1, <1>2, <1>7 DEF AInv, Row
<1>9. ASSUME NEW u \in Turn, asks'[u] >= 1
      PROVE  \E r \in rows' : r.t = u /\ r.kind = "ask" /\ r.n = 1
  <2>1. CASE asks[u] >= 1 BY <1>2, <2>1 DEF AInv
  <2>2. CASE ~(asks[u] >= 1)
    <3>1. u = t BY <1>0, <1>9, <2>2
    <3>2. \A r \in rows : r.t = t => r.kind # "ask" BY <2>2, <3>1 DEF AInv
    <3>3. \A r \in rows : ~SameKey(q, r) BY <1>1, <3>2 DEF AInv, SameKey
    <3>4. q \in rows' BY <1>0, <3>3 DEF Enqueue
    <3>5. asks[t] = 0 BY <1>0, <2>2, <3>1
    <3> QED BY <1>1, <3>1, <3>4, <3>5
  <2> QED BY <2>1, <2>2
<1> QED BY <1>3, <1>5, <1>6, <1>8, <1>9 DEF AInv, Zones

\* An answer follows the last row of its turn, and so stays out of the way of a
\* question while fewer commands come in than there is room for.
LEMMA ReplyA ==
  ASSUME TInv, AInv, MaxCommands < 50, NEW t \in Turn, NEW c \in Command,
         Enqueue({Reply(t, c)}), c \notin Answered, asks' = asks
  PROVE  AInv'
<1> DEFINE q == Reply(t, c)
           n == Cardinality(Answered)
<1>1. rows' = rows \cup {q} BY ReplyInserted
<1>2. q.kind = "reply" /\ q.n = c /\ q.t = t /\ q.o = NextOrdinal(t) BY DEF Reply, Text
<1> HIDE DEF q
<1>3. Answered' = Answered \cup {c} BY <1>1, <1>2 DEF Answered
<1>4. Cardinality(Answered') = n + 1 BY <1>3, AnsweredFinite, FS_AddElement
<1>n. n \in Nat BY AnsweredFinite
<1>5. n + 1 <= MaxCommands BY RoomLeft
<1>6. \A p \in Ordinals(t) : p \in Zones(n) BY DEF AInv, Ordinals
<1>7. /\ NextOrdinal(t) \in Int
      /\ NextOrdinal(t) = 0 \/ \E p \in Ordinals(t) : NextOrdinal(t) = p + 1
  BY NextOrdinalIsLast DEF TInv, TypeOK
<1> HIDE DEF n
<1>8. q.o \in Zones(n + 1) /\ q.o # AskOrdinal
  <2>1. CASE NextOrdinal(t) = 0 BY <1>2, <2>1 DEF Zones, AskOrdinal
  <2>2. CASE \E p \in Ordinals(t) : NextOrdinal(t) = p + 1
    <3>1. PICK p \in Ordinals(t) : q.o = p + 1 BY <1>2, <2>2
    <3>2. p \in Zones(n) BY <1>6
    <3>3. CASE p \in NoticeOrdinal..(NoticeOrdinal + n)
      BY <1>n, <1>5, <3>1, <3>3, DeliveryAssumption DEF Zones, NoticeOrdinal, AskOrdinal
    <3>4. CASE p \in AskOrdinal..(AskOrdinal + n)
      BY <1>n, <1>5, <3>1, <3>4, DeliveryAssumption DEF Zones, NoticeOrdinal, AskOrdinal
    <3>5. CASE p \in Nat BY <3>1, <3>5 DEF Zones, AskOrdinal
    <3> QED BY <3>2, <3>3, <3>4, <3>5 DEF Zones
  <2> QED BY <1>7, <2>1, <2>2
<1>9. Zones(n) \subseteq Zones(n + 1) BY <1>n, ZonesGrow
<1>10. \A r \in rows' : r.o \in Zones(n + 1) BY <1>1, <1>8, <1>9 DEF AInv, n
<1>11. (\A r \in rows : r.o \in Zones(Cardinality(Answered)))' BY <1>4, <1>10 DEF Zones, n
<1>12. \A r \in rows' : r.o = AskOrdinal => r.kind = "ask" BY <1>1, <1>8 DEF AInv
<1>13. \A r \in rows' : r.kind = "ask" => asks'[r.t] >= 1 BY <1>1, <1>2 DEF AInv
<1>14. \A u \in Turn : asks'[u] >= 1 =>
         \E r \in rows' : r.t = u /\ r.kind = "ask" /\ r.n = 1
  BY <1>1 DEF AInv
<1> QED BY <1>11, <1>12, <1>13, <1>14 DEF AInv

\* What the steps other than a question and an answer do to the rows.
Plain ==
  /\ asks' = asks /\ rows \subseteq rows'
  /\ \A r \in rows' : r \in rows \/ /\ r.kind \notin {"reply", "ask"} /\ r.o # AskOrdinal
                                    /\ r.o \in Zones(Cardinality(Answered))

LEMMA NoRowsPlain == ASSUME asks' = asks, rows' = rows PROVE Plain
BY DEF Plain

LEMMA CreatePlain == ASSUME NEW t \in Turn, Create(t) PROVE Plain
<1> DEFINE q == Text(t, NoticeOrdinal, "notice", 0, 0)
<1>1. q.kind = "notice" /\ q.o = NoticeOrdinal BY DEF Text
<1>2. q.o \in Zones(Cardinality(Answered)) /\ q.o # AskOrdinal
  BY <1>1, AnsweredFinite DEF Zones, NoticeOrdinal, AskOrdinal
<1> HIDE DEF q
<1>3. rows' = rows \/ Enqueue({q}) BY DEF Create, q
<1>4. rows \subseteq rows' /\ \A r \in rows' : r \in rows \/ r = q BY <1>3, RowsGrow
<1> QED BY <1>1, <1>2, <1>4 DEF Plain, Create

LEMMA DeliverPlain == ASSUME NEW d \in due, Deliver(d) PROVE Plain
<1>1. \A r \in Result(d.t) : r.kind = "result" /\ r.o \in Nat
  BY DeliveryAssumption DEF Result, Text
<1>2. rows' = rows \/ Enqueue(Result(d.t)) BY DEF Deliver
<1>3. rows \subseteq rows' /\ \A r \in rows' : r \in rows \/ r \in Result(d.t)
  BY <1>2, RowsGrow
<1> QED BY <1>1, <1>3 DEF Plain, Deliver, turns, Zones, AskOrdinal

LEMMA RegisterFilePlain ==
  ASSUME TInv, NEW f \in filing, NEW ok \in BOOLEAN, RegisterFile(f, ok)
  PROVE  Plain
<1>1. f.i \in 1..Files BY DEF TInv, TypeOK
<1>2. FileRow(f, ok).kind \in {"file", "lost"} /\ FileRow(f, ok).o \in Nat
  BY <1>1, DeliveryAssumption DEF FileRow, Text, FileOrdinal, LostOrdinal
<1>3. Enqueue({FileRow(f, ok)}) BY DEF RegisterFile, FileRow
<1>4. rows \subseteq rows' /\ \A r \in rows' : r \in rows \/ r = FileRow(f, ok)
  BY <1>3, RowsGrow
<1> QED BY <1>2, <1>4 DEF Plain, RegisterFile, turns, Zones, AskOrdinal

LEMMA TurnPlain ==
  ASSUME NEW t \in Turn,
         \/ Dispatch(t) \/ Decide(t) \/ CodexExit(t) \/ Overflow(t) \/ Resume(t) \/ Stop(t)
         \/ Compacted(t)
         \/ \E s \in {"completed", "failed", "interrupted"} : Finish(t, s)
         \/ \E reported \in BOOLEAN : CompactionFails(t, reported)
  PROVE  Plain
BY NoRowsPlain DEF Dispatch, Decide, CodexExit, Overflow, Resume, Stop, Compacted, Finish,
   CompactionFails

\* A command that comes in is new.
LEMMA NewIsUnanswered ==
  ASSUME TInv, CInv, NEW t \in Turn, NEW c \in Command, Comes(c, t)
  PROVE  c \notin Answered
BY DEF TInv, TypeOK, CInv, Comes, Answered

LEMMA CommandA ==
  ASSUME TInv, CInv, AInv, MaxCommands < 50, NEW t \in Turn, NEW c \in Command,
         CommandStatus(c, t) \/ CommandDecide(c, t) \/ CommandStop(c, t)
  PROVE  AInv'
<1>1. c \notin Answered
  BY NewIsUnanswered DEF CommandStatus, CommandDecide, CommandStop
<1>2. asks' = asks /\ (rows' = rows \/ Enqueue({Reply(t, c)}))
  BY DEF CommandStatus, CommandDecide, CommandStop, turns
<1>3. CASE rows' = rows BY <1>2, <1>3, PlainA
<1>4. CASE Enqueue({Reply(t, c)}) BY <1>1, <1>2, <1>4, ReplyA
<1> QED BY <1>2, <1>3, <1>4

LEMMA AnswerA ==
  ASSUME TInv, CInv, AInv, MaxCommands < 50, NEW a \in owed, Answer(a)
  PROVE  AInv'
<1>1. a.t \in Turn /\ a.c \in Command BY DEF TInv, TypeOK
<1>2. a.c \notin Answered BY DEF CInv, Answering, Answered
<1>3. asks' = asks /\ Enqueue({Reply(a.t, a.c)}) BY DEF Answer, turns
<1> QED BY <1>1, <1>2, <1>3, ReplyA

LEMMA StepAInv == MaxCommands < 50 /\ TInv /\ CInv /\ AInv /\ [Next]_vars => AInv'
<1> SUFFICES ASSUME MaxCommands < 50, TInv, CInv, AInv, [Next]_vars PROVE AInv'
  OBVIOUS
<1>p. Plain => AInv' BY PlainA DEF Plain
<1>1. CASE UNCHANGED vars BY <1>1, <1>p, NoRowsPlain DEF vars, turns
<1>2. ASSUME NEW t \in Turn,
             \/ Dispatch(t) \/ Decide(t) \/ CodexExit(t) \/ Overflow(t) \/ Resume(t) \/ Stop(t)
             \/ Compacted(t) \/ Create(t)
             \/ \E s \in {"completed", "failed", "interrupted"} : Finish(t, s)
             \/ \E reported \in BOOLEAN : CompactionFails(t, reported)
      PROVE  AInv'
  BY <1>2, <1>p, TurnPlain, CreatePlain
<1>3. ASSUME NEW t \in Turn, AskApproval(t) PROVE AInv'
  BY <1>3, AskApprovalA
<1>4. ASSUME NEW t \in Turn, NEW c \in Command,
             CommandStatus(c, t) \/ CommandDecide(c, t) \/ CommandStop(c, t)
      PROVE  AInv'
  BY <1>4, CommandA
<1>5. CASE \/ \E d \in due : Deliver(d)
           \/ \E f \in filing, ok \in BOOLEAN : RegisterFile(f, ok)
  BY <1>5, <1>p, DeliverPlain, RegisterFilePlain
<1>6. CASE Restart \/ \E s \in stopping : StopReturns(s) \/ StopFails(s)
  BY <1>6, <1>p, NoRowsPlain DEF Restart, StopReturns, StopFails, turns
<1>7. CASE \E a \in owed : Answer(a)
  BY <1>7, AnswerA
<1> QED BY <1>1, <1>2, <1>3, <1>4, <1>5, <1>6, <1>7 DEF Next

THEOREM AsksInvariant == MaxCommands < 50 /\ Spec => []AInv
<1>1. Init => AInv
  BY DEF Init, AInv
<1>2. MaxCommands < 50 /\ TInv /\ CInv /\ AInv /\ [Next]_vars => AInv' BY StepAInv
<1>3. SUFFICES ASSUME MaxCommands < 50 PROVE Spec => []AInv
  OBVIOUS
<1>4. TInv /\ CInv /\ AInv /\ [Next]_vars => AInv' BY <1>2, <1>3
<1> QED BY <1>1, <1>4, CommandsInvariant, PTL DEF Spec

\* The approval that a turn waits for has been announced, whatever commands, stops
\* and results its rows are in the way of.  There is room for 49 answers between the
\* notice of a turn and its first question: the fiftieth would take the question's
\* ordinal.
THEOREM ApprovalAnnouncedCorrect == MaxCommands < 50 /\ Spec => []ApprovalAnnounced
<1>1. TInv /\ AInv => ApprovalAnnounced
  BY DEF TInv, TypeOK, AInv, ApprovalAnnounced
<1> QED BY <1>1, AsksInvariant, CommandsInvariant, PTL

-----------------------------------------------------------------------------
\* The results

\* A turn that is stopped exists, and one of WhatsApp that exists has its notice.
\* Commands are about such turns: no answer is the first row of its turn.
NInv ==
  /\ \A t \in Ours : status[t] # "new" => Ordinals(t) # {}
  /\ \A s \in stopping \cup owed : status[s.t] # "new"
  /\ \A s \in stopping : s.c # 0 => s.t \in Ours
  /\ \A a \in owed : a.t \in Ours

\* Files are asked for only where there are any, and the keys of their rows are those
\* of nothing else where no command comes in.
FInv ==
  /\ \A t \in Turn : wants[t] => "files" \in env
  /\ filing # {} => "files" \in env
  /\ "code" \notin env => commands = 0
  /\ \A r \in rows : r.k = "media" => r.kind = "file" /\ r.o = FileOrdinal(r.i - 1)
  /\ "code" \notin env =>
       \A r \in rows : r.k = "text" /\ r.o >= 200 => r.kind = "lost" /\ r.o = LostOrdinal(r.i - 1)

\* A file of turn t is in the outbox, or a word that it could not be sent.
FileTold(t, i) == \E r \in rows : r.t = t /\ r.kind \in {"file", "lost"} /\ r.i = i

DueFor(t) == \E d \in due : d.t = t
StoppingTurn(t) == \E s \in stopping : s.t = t
FilingOf(t) == {f \in filing : f.t = t}

\* The turn has rows that only its result and what follows it have.
PastResult(t) == \E r \in rows : r.t = t /\ r.o >= 0

\* Turn t, never recovered: it ends once, and then its result is due or in the outbox
\* whole, and so is each of its files or still to be registered.
TurnTold(t) ==
  /\ ends[t] = IF status[t] \in Terminal THEN 1 ELSE 0
  /\ StoppingTurn(t) => status[t] \in Active \cup {"interrupted"}
  /\ DueFor(t) => status[t] \in Terminal
  /\ PastResult(t) \/ FilingOf(t) # {} => status[t] \in Terminal /\ Result(t) \subseteq rows
  /\ status[t] \in Terminal => DueFor(t) \/ Result(t) \subseteq rows
  /\ wants[t] => DueFor(t) \/
       \A i \in 1..Files : FileTold(t, i) \/ \E f \in FilingOf(t) : f.i <= i

RInv == \A t \in Turn : recovery[t] = "none" => TurnTold(t)

\* All that where nothing is known to cost a result.
CalmInv == Undisturbed => NInv /\ FInv /\ RInv

\* Rows are not taken back, so a turn that has one keeps one.
LEMMA OrdinalsGrow ==
  ASSUME rows \subseteq rows', NEW t, Ordinals(t) # {}
  PROVE  Ordinals(t)' # {}
BY DEF Ordinals

\* A step that starts to stop no turn, and creates none.
LEMMA NKeeps ==
  ASSUME TInv, NInv, rows \subseteq rows',
         \A t \in Turn : status'[t] # "new" <=> status[t] # "new",
         \A s \in stopping' : s \in stopping,
         \A a \in owed' : a \in owed \/ \E s \in stopping : s.c # 0 /\ s.t = a.t
  PROVE  NInv'
<1>1. \A s \in stopping \cup owed : s.t \in Turn BY DEF TInv, TypeOK
<1>2. Ours \subseteq Turn BY DeliveryAssumption
<1>3. \A t \in Ours : status'[t] # "new" => Ordinals(t)' # {}
  BY <1>2, OrdinalsGrow DEF NInv
<1>4. \A s \in stopping' \cup owed' : status'[s.t] # "new" BY <1>1 DEF NInv
<1>5. /\ \A s \in stopping' : s.c # 0 => s.t \in Ours
      /\ \A a \in owed' : a.t \in Ours
  BY DEF NInv
<1> QED BY <1>3, <1>4, <1>5 DEF NInv

\* A step that stops turn t, by a command or not.
LEMMA NStops ==
  ASSUME TInv, NInv, NEW t \in Turn, NEW c, rows' = rows, status[t] # "new",
         c # 0 => t \in Ours,
         \A u \in Turn : status'[u] # "new" <=> status[u] # "new",
         \A s \in stopping' : s \in stopping \/ s = [t |-> t, c |-> c],
         \A a \in owed' : a \in owed \/ (a = [t |-> t, c |-> c] /\ c # 0)
  PROVE  NInv'
<1>1. \A s \in stopping \cup owed : s.t \in Turn BY DEF TInv, TypeOK
<1>2. Ours \subseteq Turn BY DeliveryAssumption
<1>3. \A u \in Ours : status'[u] # "new" => Ordinals(u)' # {}
  BY <1>2 DEF NInv, Ordinals
<1>4. \A s \in stopping' \cup owed' : status'[s.t] # "new" BY <1>1 DEF NInv
<1>5. /\ \A s \in stopping' : s.c # 0 => s.t \in Ours
      /\ \A a \in owed' : a.t \in Ours
  BY DEF NInv
<1> QED BY <1>3, <1>4, <1>5 DEF NInv

LEMMA CreateN == ASSUME TInv, NInv, NEW t \in Turn, Create(t) PROVE NInv'
<1> DEFINE q == Text(t, NoticeOrdinal, "notice", 0, 0)
<1>0. /\ status \in [Turn -> {"new", "queued"} \cup Active \cup Terminal]
      /\ status' = [status EXCEPT ![t] = "queued"]
      /\ stopping' = stopping /\ owed' = owed
      /\ t \in Ours => Enqueue({q})
      /\ rows' = rows \/ Enqueue({q})
  BY DEF Create, process, TInv, TypeOK
<1>1. \A s \in stopping \cup owed : s.t \in Turn BY DEF TInv, TypeOK
<1>2. Ours \subseteq Turn BY DeliveryAssumption
<1>q. q.t = t BY DEF Text
<1> HIDE DEF q
<1>3. rows \subseteq rows' BY <1>0, RowsGrow
<1>4. ASSUME NEW u \in Ours, status'[u] # "new" PROVE Ordinals(u)' # {}
  <2>1. CASE u = t
    <3>1. Ordinals(t)' = Ordinals(t) \cup OrdinalsIn({q}, t) BY <1>0, <2>1, EnqueueOrdinals
    <3>2. q.o \in OrdinalsIn({q}, t) BY <1>q DEF OrdinalsIn
    <3> QED BY <2>1, <3>1, <3>2
  <2>2. CASE u # t
    <3>1. status[u] # "new" BY <1>0, <1>2, <1>4, <2>2
    <3> QED BY <1>3, <3>1, OrdinalsGrow DEF NInv
  <2> QED BY <2>1, <2>2
<1>5. \A s \in stopping' \cup owed' : status'[s.t] # "new" BY <1>0, <1>1 DEF NInv
<1> QED BY <1>0, <1>4, <1>5 DEF NInv

LEMMA TurnN ==
  ASSUME TInv, NInv, NEW t \in Turn,
         \/ Dispatch(t) \/ AskApproval(t) \/ Decide(t) \/ CodexExit(t)
         \/ \E s \in {"completed", "failed", "interrupted"} : Finish(t, s)
  PROVE  NInv'
<1> USE DEF TInv, TypeOK, Active, Terminal, End
<1>1. CASE Dispatch(t) BY <1>1, NKeeps DEF Dispatch, process
<1>2. CASE AskApproval(t) BY <1>2, RowsGrow, NKeeps DEF AskApproval, process
<1>3. CASE Decide(t) BY <1>3, NKeeps DEF Decide, process
<1>4. CASE CodexExit(t)
  <2>1. \A u \in Turn : status'[u] # "new" <=> status[u] # "new" BY <1>4 DEF CodexExit
  <2>2. \A a \in owed' : a \in owed \/ \E s \in stopping : s.c # 0 /\ s.t = a.t
    BY <1>4 DEF CodexExit
  <2> QED BY <1>4, <2>1, <2>2, NKeeps DEF CodexExit
<1>5. CASE \E s \in {"completed", "failed", "interrupted"} : Finish(t, s)
  BY <1>5, NKeeps DEF Finish
<1> QED BY <1>1, <1>2, <1>3, <1>4, <1>5

LEMMA StopN ==
  ASSUME TInv, NInv, Undisturbed, NEW t \in Turn,
         Stop(t) \/ \E c \in Command : CommandStop(c, t)
  PROVE  NInv'
<1>1. CASE Stop(t)
  BY <1>1, NStops DEF Stop, Cancel, AwaitStop, End, TInv, TypeOK, Active
<1>2. ASSUME NEW c \in Command, CommandStop(c, t) PROVE NInv'
  <2>1. status[t] # "new" /\ t \in Ours /\ c # 0
    BY <1>2, DeliveryAssumption DEF CommandStop, Comes, Addressed, Command, Undisturbed
  <2>2. CASE Cancel(t) /\ owed' = {[t |-> t, c |-> c]} /\ rows' = rows /\ status[t] = "queued"
    BY <2>1, <2>2, NStops DEF Cancel, End, TInv, TypeOK
  <2>3. CASE AwaitStop(t, c) /\ UNCHANGED <<rows, owed>>
    BY <2>1, <2>3, NStops DEF AwaitStop, TInv, TypeOK
  <2>4. CASE Enqueue({Reply(t, c)}) /\ UNCHANGED <<status, ends, due, stopping, owed>>
    BY <2>1, <2>4, RowsGrow, NKeeps
  <2> QED BY <1>2, <2>2, <2>3, <2>4 DEF CommandStop
<1> QED BY <1>1, <1>2

LEMMA CommandN ==
  ASSUME TInv, NInv, NEW t \in Turn, NEW c \in Command,
         CommandStatus(c, t) \/ CommandDecide(c, t)
  PROVE  NInv'
BY RowsGrow, NKeeps DEF CommandStatus, CommandDecide, turns, process, TInv, TypeOK

LEMMA SettlesN ==
  ASSUME TInv, NInv, NEW s \in stopping, StopReturns(s) \/ StopFails(s)
  PROVE  NInv'
<1>1. s.t \in Turn /\ status[s.t] # "new" BY DEF TInv, TypeOK, NInv
<1>2. \A u \in Turn : status'[u] # "new" <=> status[u] # "new"
  BY <1>1 DEF StopReturns, StopFails, End, turns, TInv, TypeOK
<1>3. \A a \in owed' : a \in owed \/ \E q \in stopping : q.c # 0 /\ q.t = a.t
  <2>1. \A a \in owed' : a \in owed \/ (s.c # 0 /\ a = [t |-> s.t, c |-> s.c])
    BY DEF StopReturns, StopFails, Owe
  <2>2. \A a \in owed' : a \in owed \/ (s.c # 0 /\ s.t = a.t) BY <2>1
  <2> QED BY <2>2
<1>4. rows' = rows /\ stopping' \subseteq stopping
  BY DEF StopReturns, StopFails
<1> QED BY <1>2, <1>3, <1>4, NKeeps

LEMMA RestN ==
  ASSUME TInv, NInv,
         \/ \E d \in due : Deliver(d)
         \/ \E f \in filing, ok \in BOOLEAN : RegisterFile(f, ok)
         \/ \E a \in owed : Answer(a)
  PROVE  NInv'
<1>1. CASE \E d \in due : Deliver(d) BY <1>1, RowsGrow, NKeeps DEF Deliver, turns
<1>2. CASE \E f \in filing, ok \in BOOLEAN : RegisterFile(f, ok)
  BY <1>2, RowsGrow, NKeeps DEF RegisterFile, turns
<1>3. CASE \E a \in owed : Answer(a) BY <1>3, RowsGrow, NKeeps DEF Answer, turns
<1> QED BY <1>1, <1>2, <1>3

-----------------------------------------------------------------------------
\* A step that asks for no file, registers none and inserts no row a file could have.
LEMMA FKeeps ==
  ASSUME FInv, env' = env, \A t \in Turn : wants'[t] => wants[t] \/ "files" \in env,
         filing' \subseteq filing, "code" \notin env => commands' = commands,
         \A r \in rows' : r \in rows \/ (r.k = "text" /\ ("code" \notin env => r.o < 200)),
         \A r \in rows' : r.o \in Int
  PROVE  FInv'
<1>1. \A t \in Turn : wants'[t] => "files" \in env' BY DEF FInv
<1>2. \A r \in rows' : r.k = "media" => r.kind = "file" /\ r.o = FileOrdinal(r.i - 1)
  BY DEF FInv
<1>3. "code" \notin env' =>
        \A r \in rows' : r.k = "text" /\ r.o >= 200 => r.kind = "lost" /\ r.o = LostOrdinal(r.i - 1)
  BY DEF FInv
<1> QED BY <1>1, <1>2, <1>3 DEF FInv

LEMMA TurnF ==
  ASSUME TInv, TInv', FInv, NEW t \in Turn,
         \/ Create(t) \/ Dispatch(t) \/ AskApproval(t) \/ Decide(t) \/ CodexExit(t) \/ Stop(t)
         \/ \E s \in {"completed", "failed", "interrupted"} : Finish(t, s)
  PROVE  FInv'
<1>o. \A r \in rows' : r.o \in Int BY DEF TInv, TypeOK, Row
<1>1. CASE Create(t) BY <1>1, <1>o, RowsGrow, FKeeps DEF Create, process, Text, NoticeOrdinal
<1>2. CASE Dispatch(t) BY <1>2, <1>o, FKeeps DEF Dispatch, process
<1>3. CASE AskApproval(t)
  BY <1>3, <1>o, RowsGrow, FKeeps DEF AskApproval, process, Text, AskOrdinal
<1>4. CASE Decide(t) BY <1>4, <1>o, FKeeps DEF Decide, process
<1>5. CASE CodexExit(t) BY <1>5, <1>o, FKeeps DEF CodexExit
<1>6. CASE Stop(t) BY <1>6, <1>o, FKeeps DEF Stop
<1>7. ASSUME NEW s \in {"completed", "failed", "interrupted"}, Finish(t, s) PROVE FInv'
  <2>1. \A u \in Turn : wants'[u] => wants[u] \/ "files" \in env
    BY <1>7 DEF Finish, TInv, TypeOK
  <2> QED BY <1>7, <1>o, <2>1, FKeeps DEF Finish
<1> QED BY <1>1, <1>2, <1>3, <1>4, <1>5, <1>6, <1>7

\* Answers come only where commands do.
LEMMA CommandF ==
  ASSUME TInv, TInv', CInv, FInv,
         \/ \E t \in Turn, c \in Command :
              CommandStatus(c, t) \/ CommandDecide(c, t) \/ CommandStop(c, t)
         \/ \E a \in owed : Answer(a)
  PROVE  FInv'
<1>o. \A r \in rows' : r.o \in Int BY DEF TInv, TypeOK, Row
<1>1. ASSUME NEW t \in Turn, NEW c \in Command,
             CommandStatus(c, t) \/ CommandDecide(c, t) \/ CommandStop(c, t)
      PROVE  FInv'
  <2>1. "code" \in env
    BY <1>1 DEF CommandStatus, CommandDecide, CommandStop, Comes, Addressed
  <2>2. Reply(t, c).k = "text" BY DEF Reply, Text
  <2>3. rows' = rows \/ Enqueue({Reply(t, c)})
    BY <1>1 DEF CommandStatus, CommandDecide, CommandStop
  <2>4. \A r \in rows' : r \in rows \/ r.k = "text" BY <2>2, <2>3, RowsGrow
  <2>5. env' = env /\ wants' = wants /\ filing' = filing
    BY <1>1 DEF CommandStatus, CommandDecide, CommandStop, turns, process
  <2> QED BY <1>o, <2>1, <2>4, <2>5, FKeeps
<1>2. ASSUME NEW a \in owed, Answer(a) PROVE FInv'
  <2>1. a.c \in Nat \ {0} /\ a.c <= commands
    BY DeliveryAssumption DEF TInv, TypeOK, Command, CInv
  <2>2. "code" \in env BY <2>1 DEF FInv
  <2>3. Reply(a.t, a.c).k = "text" BY DEF Reply, Text
  <2>4. \A r \in rows' : r \in rows \/ r.k = "text" BY <1>2, <2>3, RowsGrow DEF Answer
  <2> QED BY <1>2, <1>o, <2>2, <2>4, FKeeps DEF Answer, turns
<1> QED BY <1>1, <1>2

LEMMA SettlesF ==
  ASSUME TInv, TInv', FInv, NEW s \in stopping, StopReturns(s) \/ StopFails(s)
  PROVE  FInv'
<1>o. \A r \in rows' : r.o \in Int BY DEF TInv, TypeOK, Row
<1> QED BY <1>o, FKeeps DEF StopReturns, StopFails, turns

\* A result of at most 200 parts ends before the ordinals of the files.
LEMMA DeliverF ==
  ASSUME TInv, TInv', FInv, Chunks <= 200, NEW d \in due, Deliver(d)
  PROVE  FInv'
<1>o. \A r \in rows' : r.o \in Int BY DEF TInv, TypeOK, Row
<1>1. \A r \in Result(d.t) : r.k = "text" /\ r.o < 200
  BY DeliveryAssumption DEF Result, Text
<1>2. rows' = rows \/ Enqueue(Result(d.t)) BY DEF Deliver
<1>3. \A r \in rows' : r \in rows \/ (r.k = "text" /\ r.o < 200) BY <1>1, <1>2, RowsGrow
<1>4. filing' # {} => "files" \in env BY DEF Deliver, FInv, TInv, TypeOK
<1>5. wants' = wants /\ commands' = commands /\ env' = env BY DEF Deliver, turns
<1>6. \A r \in rows' : r.k = "media" => r.kind = "file" /\ r.o = FileOrdinal(r.i - 1)
  BY <1>3 DEF FInv
<1>7. "code" \notin env' =>
        \A r \in rows' : r.k = "text" /\ r.o >= 200 => r.kind = "lost" /\ r.o = LostOrdinal(r.i - 1)
  BY <1>o, <1>3, <1>5 DEF FInv
<1> QED BY <1>4, <1>5, <1>6, <1>7 DEF FInv

LEMMA RegisterFileF ==
  ASSUME TInv, TInv', FInv, NEW f \in filing, NEW ok \in BOOLEAN, RegisterFile(f, ok)
  PROVE  FInv'
<1> DEFINE q == FileRow(f, ok)
<1>0. "files" \in env /\ f.i \in 1..Files BY DEF FInv, TInv, TypeOK
<1>1. /\ q.k = "media" => q.kind = "file" /\ q.o = FileOrdinal(q.i - 1)
      /\ q.k = "text" => q.kind = "lost" /\ q.o = LostOrdinal(q.i - 1)
  BY DEF FileRow, Text
<1>2. Enqueue({q}) BY DEF RegisterFile, FileRow
<1> HIDE DEF q
<1>3. \A r \in rows' : r \in rows \/ r = q BY <1>2, RowsGrow
<1>4. wants' = wants /\ commands' = commands /\ env' = env BY DEF RegisterFile, turns
<1>5. \A r \in rows' : r.k = "media" => r.kind = "file" /\ r.o = FileOrdinal(r.i - 1)
  BY <1>1, <1>3 DEF FInv
<1>6. "code" \notin env' =>
        \A r \in rows' : r.k = "text" /\ r.o >= 200 => r.kind = "lost" /\ r.o = LostOrdinal(r.i - 1)
  BY <1>1, <1>3, <1>4 DEF FInv
<1> QED BY <1>0, <1>4, <1>5, <1>6 DEF FInv

-----------------------------------------------------------------------------
\* A step that neither ends turn t nor starts its result keeps what it is told.
LEMMA ToldKeeps ==
  ASSUME NEW t \in Turn, TurnTold(t), ends'[t] = ends[t], wants'[t] = wants[t],
         status'[t] \in Terminal <=> status[t] \in Terminal,
         rows \subseteq rows', PastResult(t)' => PastResult(t), FilingOf(t)' = FilingOf(t),
         DueFor(t) => DueFor(t)', DueFor(t)' => status'[t] \in Terminal,
         StoppingTurn(t)' => status'[t] \in Active \cup {"interrupted"}
  PROVE  TurnTold(t)'
<1>1. Result(t)' = Result(t) BY DEF Result
<1>2. \A i : FileTold(t, i) => FileTold(t, i)' BY DEF FileTold
<1>3. ends'[t] = IF status'[t] \in Terminal THEN 1 ELSE 0 BY DEF TurnTold
<1>4. PastResult(t)' \/ FilingOf(t)' # {} => status'[t] \in Terminal /\ Result(t)' \subseteq rows'
  BY <1>1 DEF TurnTold
<1>5. status'[t] \in Terminal => DueFor(t)' \/ Result(t)' \subseteq rows'
  BY <1>1 DEF TurnTold
<1>6. wants'[t] => DueFor(t)' \/
        \A i \in 1..Files : FileTold(t, i)' \/ \E f \in FilingOf(t)' : f.i <= i
  BY <1>2 DEF TurnTold
<1> QED BY <1>3, <1>4, <1>5, <1>6 DEF TurnTold

\* A step that ends it makes its result due.
LEMMA ToldEnds ==
  ASSUME NEW t \in Turn, TurnTold(t), status[t] \notin Terminal, status'[t] \in Terminal,
         ends'[t] = ends[t] + 1, rows' = rows, filing' = filing, DueFor(t)',
         StoppingTurn(t)' => status'[t] = "interrupted"
  PROVE  TurnTold(t)'
<1>1. ends'[t] = 1 BY DEF TurnTold
<1>2. ~PastResult(t)' /\ FilingOf(t)' = {} BY DEF TurnTold, PastResult, FilingOf
<1> QED BY <1>1, <1>2 DEF TurnTold

\* An answer is a row past the result only if the turn has such a row already.
LEMMA ReplyNotPast ==
  ASSUME TInv, AInv, NInv, MaxCommands < 50, NEW t \in Ours, status[t] # "new",
         NEW c \in Command, c \notin Answered, Enqueue({Reply(t, c)})
  PROVE  rows \subseteq rows' /\ \A u \in Turn : PastResult(u)' => PastResult(u)
<1> DEFINE q == Reply(t, c)
           n == Cardinality(Answered)
<1>0. t \in Turn BY DeliveryAssumption
<1>1. rows' = rows \cup {q} BY <1>0, ReplyInserted
<1>2. q.t = t /\ q.o = NextOrdinal(t) BY DEF Reply, Text
<1> HIDE DEF q
<1>3. n \in Nat /\ n + 1 <= MaxCommands BY AnsweredFinite, RoomLeft
<1>4. PICK p \in Ordinals(t) : p \in Int /\ q.o = p + 1
  BY <1>0, <1>2, NextOrdinalIsLast DEF NInv, TInv, TypeOK
<1>5. PICK r \in rows : r.t = t /\ r.o = p BY DEF Ordinals
<1>6. p \in Zones(n) BY <1>5 DEF AInv
<1> HIDE DEF n
<1>7. q.o >= 0 => p >= 0
  <2>1. CASE p \in NoticeOrdinal..(NoticeOrdinal + n)
    BY <1>3, <1>4, <2>1, DeliveryAssumption DEF NoticeOrdinal
  <2>2. CASE p \in AskOrdinal..(AskOrdinal + n)
    BY <1>3, <1>4, <2>2, DeliveryAssumption DEF AskOrdinal
  <2>3. CASE p \in Nat BY <2>3
  <2> QED BY <1>6, <2>1, <2>2, <2>3 DEF Zones
<1>8. q.o >= 0 => PastResult(t) BY <1>5, <1>7 DEF PastResult
<1>9. ASSUME NEW u \in Turn, PastResult(u)' PROVE PastResult(u)
  <2>1. PICK x \in rows' : x.t = u /\ x.o >= 0 BY <1>9 DEF PastResult
  <2>2. CASE x \in rows BY <2>1, <2>2 DEF PastResult
  <2>3. CASE x = q BY <1>2, <1>8, <2>1, <2>3
  <2> QED BY <1>1, <2>1, <2>2, <2>3
<1> QED BY <1>1, <1>9

\* A step that goes on with turn t, or inserts rows that say nothing of a result.
Goes ==
  /\ \A u \in Turn : status'[u] \in Terminal <=> status[u] \in Terminal
  /\ \A u \in Turn : StoppingTurn(u)' => StoppingTurn(u) \/ status'[u] \in Active
  /\ \A u \in Turn : status[u] \in Active \cup {"interrupted"} =>
                       status'[u] \in Active \cup {"interrupted"}
  /\ recovery' = recovery /\ wants' = wants /\ ends' = ends /\ due' = due /\ filing' = filing
  /\ rows \subseteq rows' /\ \A u \in Turn : PastResult(u)' => PastResult(u)

LEMMA GoesKeeps == ASSUME TInv, RInv, Goes PROVE RInv'
<1> SUFFICES ASSUME NEW u \in Turn, recovery'[u] = "none" PROVE TurnTold(u)'
  BY DEF RInv
<1>1. TurnTold(u) BY DEF Goes, RInv
<1>2. FilingOf(u)' = FilingOf(u) BY DEF Goes, FilingOf
<1>3. DueFor(u)' <=> DueFor(u) BY DEF Goes, DueFor
<1>4. DueFor(u) => status[u] \in Terminal BY <1>1 DEF TurnTold
<1>5. StoppingTurn(u)' => status'[u] \in Active \cup {"interrupted"}
  BY <1>1 DEF Goes, TurnTold
<1> QED BY <1>1, <1>2, <1>3, <1>4, <1>5, ToldKeeps DEF Goes

LEMMA CreateGoes == ASSUME TInv, NEW t \in Turn, Create(t) PROVE Goes
<1> DEFINE q == Text(t, NoticeOrdinal, "notice", 0, 0)
<1>1. q.o = -100 BY DEF Text, NoticeOrdinal
<1> HIDE DEF q
<1>2. rows' = rows \/ Enqueue({q}) BY DEF Create, q
<1>3. rows \subseteq rows' /\ \A r \in rows' : r \in rows \/ r = q BY <1>2, RowsGrow
<1>4. \A u \in Turn : PastResult(u)' => PastResult(u) BY <1>1, <1>3 DEF PastResult
<1>5. \A u \in Turn : /\ status'[u] \in Terminal <=> status[u] \in Terminal
                      /\ status[u] \in Active \cup {"interrupted"} =>
                           status'[u] \in Active \cup {"interrupted"}
  BY DEF Create, TInv, TypeOK, Active, Terminal
<1> QED BY <1>3, <1>4, <1>5 DEF Goes, Create, process, StoppingTurn

LEMMA AskApprovalGoes == ASSUME TInv, NEW t \in Turn, AskApproval(t) PROVE Goes
<1> DEFINE q == Text(t, AskOrdinal, "ask", asks[t] + 1, 0)
<1>1. q.o = -50 BY DEF Text, AskOrdinal
<1>2. Enqueue({q}) BY DEF AskApproval
<1> HIDE DEF q
<1>3. rows \subseteq rows' /\ \A r \in rows' : r \in rows \/ r = q BY <1>2, RowsGrow
<1>4. \A u \in Turn : PastResult(u)' => PastResult(u) BY <1>1, <1>3 DEF PastResult
<1>5. \A u \in Turn : /\ status'[u] \in Terminal <=> status[u] \in Terminal
                      /\ status[u] \in Active \cup {"interrupted"} =>
                           status'[u] \in Active \cup {"interrupted"}
  BY DEF AskApproval, TInv, TypeOK, Active, Terminal
<1> QED BY <1>3, <1>4, <1>5 DEF Goes, AskApproval, process, StoppingTurn

LEMMA TurnGoes == ASSUME TInv, NEW t \in Turn, Dispatch(t) \/ Decide(t) PROVE Goes
<1>1. \A u \in Turn : /\ status'[u] \in Terminal <=> status[u] \in Terminal
                      /\ status[u] \in Active \cup {"interrupted"} =>
                           status'[u] \in Active \cup {"interrupted"}
  BY DEF Dispatch, Decide, TInv, TypeOK, Active, Terminal
<1> QED BY <1>1 DEF Goes, Dispatch, Decide, process, StoppingTurn, PastResult

LEMMA AwaitStopGoes ==
  ASSUME TInv, NEW t \in Turn, NEW c, AwaitStop(t, c), recovery' = recovery, wants' = wants,
         filing' = filing, rows' = rows
  PROVE  Goes
<1>1. \A u \in Turn : StoppingTurn(u)' => StoppingTurn(u) \/ status'[u] \in Active
  BY DEF AwaitStop, StoppingTurn
<1> QED BY <1>1 DEF Goes, AwaitStop, PastResult

\* An answer at once, also to a decision on an approval.
LEMMA CommandGoes ==
  ASSUME TInv, CInv, AInv, NInv, Undisturbed, MaxCommands < 50,
         NEW t \in Turn, NEW c \in Command, Comes(c, t), Enqueue({Reply(t, c)}),
         \/ status' = status
         \/ status' = [status EXCEPT ![t] = IF @ = "awaiting" THEN "running" ELSE @],
         stopping' = stopping, recovery' = recovery, wants' = wants, ends' = ends, due' = due,
         filing' = filing
  PROVE  Goes
<1>1. t \in Ours /\ status[t] # "new" BY DEF Comes, Addressed, Undisturbed
<1>2. c \notin Answered BY NewIsUnanswered
<1>3. rows \subseteq rows' /\ \A u \in Turn : PastResult(u)' => PastResult(u)
  BY <1>1, <1>2, ReplyNotPast
<1>4. \A u \in Turn : /\ status'[u] \in Terminal <=> status[u] \in Terminal
                      /\ status[u] \in Active \cup {"interrupted"} =>
                           status'[u] \in Active \cup {"interrupted"}
  BY DEF TInv, TypeOK, Active, Terminal
<1> QED BY <1>3, <1>4 DEF Goes, StoppingTurn

LEMMA AnswerGoes ==
  ASSUME TInv, CInv, AInv, NInv, MaxCommands < 50, NEW a \in owed, Answer(a)
  PROVE  Goes
<1>1. a.t \in Ours /\ a.t \in Turn /\ a.c \in Command /\ status[a.t] # "new"
  BY DEF NInv, TInv, TypeOK
<1>2. a.c \notin Answered BY DEF CInv, Answering, Answered
<1>3. rows \subseteq rows' /\ \A u \in Turn : PastResult(u)' => PastResult(u)
  BY <1>1, <1>2, ReplyNotPast DEF Answer
<1> QED BY <1>3 DEF Goes, StoppingTurn, Answer, turns

\* A turn that ends, for the first time or once more in the same words.
LEMMA EndTold ==
  ASSUME TInv, RInv, NEW t \in Turn, NEW s \in Terminal, End(t, s), Due(t, FALSE),
         recovery' = recovery, rows' = rows, filing' = filing, stopping' \subseteq stopping,
         \A u \in Turn : u # t => wants'[u] = wants[u],
         recovery[t] = "none" =>
           /\ status[t] \notin Terminal \/ (status[t] = s /\ wants' = wants)
           /\ StoppingTurn(t)' => s = "interrupted"
  PROVE  RInv'
<1> SUFFICES ASSUME NEW u \in Turn, recovery[u] = "none" PROVE TurnTold(u)'
  BY DEF RInv
<1>1. TurnTold(u) BY DEF RInv
<1>2. FilingOf(u)' = FilingOf(u) /\ (PastResult(u)' => PastResult(u))
  BY DEF FilingOf, PastResult
<1>3. StoppingTurn(u)' => StoppingTurn(u) BY DEF StoppingTurn
<1>4. due' = due \cup {[t |-> t, quiet |-> FALSE]} BY DEF Due
<1>5. \A d \in due' : d \in due \/ d.t = t BY <1>4
<1>6. DueFor(t)'
  <2>1. [t |-> t, quiet |-> FALSE] \in due' /\ [t |-> t, quiet |-> FALSE].t = t BY <1>4
  <2> QED BY <2>1 DEF DueFor
<1>s. /\ status' = [status EXCEPT ![t] = s] /\ status'[t] = s
      /\ ends'[t] = IF status[t] = s THEN ends[t] ELSE ends[t] + 1
      /\ u # t => status'[u] = status[u] /\ ends'[u] = ends[u]
  BY DEF End, TInv, TypeOK
<1>7. CASE u # t
  <2>1. DueFor(u)' <=> DueFor(u) BY <1>4, <1>5, <1>7 DEF DueFor
  <2>2. status'[u] = status[u] /\ ends'[u] = ends[u] /\ wants'[u] = wants[u] BY <1>7, <1>s
  <2>3. StoppingTurn(u) => status[u] \in Active \cup {"interrupted"} BY <1>1 DEF TurnTold
  <2>4. DueFor(u) => status[u] \in Terminal BY <1>1 DEF TurnTold
  <2> QED BY <1>1, <1>2, <1>3, <2>1, <2>2, <2>3, <2>4, ToldKeeps
<1>8. CASE u = t /\ status[t] \notin Terminal
  <2>1. ends'[t] = ends[t] + 1 BY <1>8, <1>s
  <2>2. StoppingTurn(t)' => status'[t] = "interrupted" BY <1>8, <1>s
  <2> QED BY <1>1, <1>6, <1>8, <1>s, <2>1, <2>2, ToldEnds
<1>9. CASE u = t /\ status[t] = s /\ wants' = wants
  <2>1. ends'[t] = ends[t] /\ status'[t] = status[t] BY <1>9, <1>s
  <2>2. StoppingTurn(t)' => status'[t] \in Active \cup {"interrupted"} BY <1>9, <1>s
  <2> QED BY <1>1, <1>2, <1>6, <1>9, <2>1, <2>2, ToldKeeps
<1> QED BY <1>7, <1>8, <1>9

LEMMA FinishR ==
  ASSUME TInv, RInv, Undisturbed, NEW t \in Turn,
         NEW s \in {"completed", "failed", "interrupted"}, Finish(t, s)
  PROVE  RInv'
<1>1. /\ s \in Terminal /\ End(t, s) /\ Due(t, FALSE)
      /\ recovery' = recovery /\ rows' = rows /\ filing' = filing /\ stopping' = stopping
  BY DEF Finish, Terminal
<1>2. s # "interrupted" => ~Stopped(t) BY DEF Finish, Undisturbed
<1>3. status[t] \in Active \cup {"interrupted"} BY DEF Finish
<1>4. StoppingTurn(t)' => s = "interrupted" BY <1>1, <1>2 DEF Stopped, StoppingTurn
<1>5. \A u \in Turn : u # t => wants'[u] = wants[u] BY DEF Finish, TInv, TypeOK
<1>6. s = "interrupted" => wants' = wants BY DEF Finish, TInv, TypeOK
<1>7. status[t] \notin Terminal \/ (status[t] = s /\ wants' = wants)
  BY <1>2, <1>3, <1>6 DEF Stopped, Active, Terminal
<1> QED BY <1>1, <1>4, <1>5, <1>7, EndTold

LEMMA CancelR ==
  ASSUME TInv, RInv, NEW t \in Turn, status[t] = "queued", Cancel(t), recovery' = recovery,
         rows' = rows, filing' = filing, wants' = wants
  PROVE  RInv'
<1>1. "cancelled" \in Terminal /\ End(t, "cancelled") /\ Due(t, FALSE) /\ stopping' = stopping
  BY DEF Cancel, Terminal
<1>2. status[t] \notin Terminal BY DEF Terminal
<1>3. recovery[t] = "none" => ~StoppingTurn(t)'
  BY <1>1 DEF RInv, TurnTold, Active, StoppingTurn
<1> QED BY <1>1, <1>2, <1>3, EndTold

LEMMA StopReturnsR ==
  ASSUME TInv, RInv, NEW s \in stopping, StopReturns(s)
  PROVE  RInv'
<1> DEFINE t == s.t
<1>1. /\ t \in Turn /\ "interrupted" \in Terminal
      /\ End(t, "interrupted") /\ Due(t, FALSE) /\ stopping' \subseteq stopping
      /\ recovery' = recovery /\ rows' = rows /\ filing' = filing /\ wants' = wants
  BY DEF StopReturns, Terminal, TInv, TypeOK
<1>2. StoppingTurn(t) BY DEF StoppingTurn
<1> HIDE DEF t
<1>3. recovery[t] = "none" => status[t] \notin Terminal \/ status[t] = "interrupted"
  BY <1>1, <1>2 DEF RInv, TurnTold, Active, Terminal
<1> QED BY <1>1, <1>3, EndTold

LEMMA StopFailsGoes == ASSUME NEW s \in stopping, StopFails(s) PROVE Goes
BY DEF Goes, StopFails, turns, StoppingTurn, PastResult

\* The turn that the app-server leaves behind is one that recovers, and no other turn
\* is stopped any more.
LEMMA CodexExitR == ASSUME TInv, RInv, NEW t \in Turn, CodexExit(t) PROVE RInv'
<1> SUFFICES ASSUME NEW u \in Turn, recovery'[u] = "none" PROVE TurnTold(u)'
  BY DEF RInv
<1>1. u # t /\ recovery[u] = "none" BY DEF CodexExit, TInv, TypeOK
<1>2. TurnTold(u) BY <1>1 DEF RInv
<1>3. /\ status'[u] = status[u] /\ ends'[u] = ends[u] /\ wants' = wants /\ rows' = rows
      /\ filing' = filing /\ stopping' = {}
  BY <1>1 DEF CodexExit, End, TInv, TypeOK
<1>4. due' = due \cup {[t |-> t, quiet |-> TRUE]} BY DEF CodexExit, Due
<1>5. DueFor(u)' <=> DueFor(u)
  <2>1. \A d \in due' : d \in due \/ d.t = t BY <1>4
  <2> QED BY <1>1, <1>4, <2>1 DEF DueFor
<1>6. FilingOf(u)' = FilingOf(u) /\ (PastResult(u)' => PastResult(u)) /\ ~StoppingTurn(u)'
  BY <1>3 DEF FilingOf, PastResult, StoppingTurn
<1>7. DueFor(u) => status[u] \in Terminal BY <1>2 DEF TurnTold
<1> QED BY <1>2, <1>3, <1>5, <1>6, <1>7, ToldKeeps

\* A delivery inserts the whole result, as the turn has no row in its place or has the
\* result already.
LEMMA DeliverR == ASSUME TInv, RInv, NEW d \in due, Deliver(d) PROVE RInv'
<1>0. d.t \in Turn /\ UNCHANGED turns /\ due' = due \ {d} /\ stopping' = stopping
  BY DEF Deliver, TInv, TypeOK
<1> SUFFICES ASSUME NEW u \in Turn, recovery[u] = "none" PROVE TurnTold(u)'
  BY <1>0 DEF RInv, turns
<1>1. TurnTold(u) BY DEF RInv
<1>2. StoppingTurn(u)' <=> StoppingTurn(u) BY <1>0 DEF StoppingTurn
<1>3. \A r \in Result(d.t) : r.t = d.t /\ r.k = "text" /\ r.o >= 0
  BY DeliveryAssumption DEF Result, Text
<1>4. rows' = rows \/ Enqueue(Result(d.t)) BY DEF Deliver
<1>5. rows \subseteq rows' /\ \A r \in rows' : r \in rows \/ r \in Result(d.t)
  BY <1>4, RowsGrow
<1>6. CASE u # d.t
  <2>1. PastResult(u)' => PastResult(u) BY <1>3, <1>5, <1>6 DEF PastResult
  <2>2. DueFor(u)' <=> DueFor(u) BY <1>0, <1>6 DEF DueFor
  <2>3. FilingOf(u)' = FilingOf(u) BY <1>6 DEF FilingOf, Deliver
  <2>4. DueFor(u) => status[u] \in Terminal BY <1>1 DEF TurnTold
  <2>5. StoppingTurn(u) => status[u] \in Active \cup {"interrupted"} BY <1>1 DEF TurnTold
  <2> QED BY <1>0, <1>1, <1>2, <1>5, <2>1, <2>2, <2>3, <2>4, <2>5, ToldKeeps DEF turns
<1>7. CASE u = d.t
  <2>0. ~Suppressed(d) BY <1>7 DEF Suppressed
  <2>1. Enqueue(Result(u)) BY <1>7, <2>0 DEF Deliver
  <2>2. DueFor(u) /\ status[u] \in Terminal BY <1>1, <1>7 DEF DueFor, TurnTold
  <2>3. Result(u) \subseteq rows'
    <3>1. CASE PastResult(u) BY <1>1, <1>5, <3>1 DEF TurnTold
    <3>2. CASE ~PastResult(u)
      <4>1. \A r \in Result(u), q \in rows : ~SameKey(r, q)
        BY <1>3, <1>7, <3>2 DEF PastResult, SameKey
      <4> QED BY <2>1, <4>1 DEF Enqueue
    <3> QED BY <3>1, <3>2
  <2>4. Result(u)' = Result(u) BY <1>0 DEF Result, turns
  <2>5. wants[u] => \A i \in 1..Files : \E f \in FilingOf(u)' : f.i <= i
    <3> SUFFICES ASSUME wants[u], NEW i \in 1..Files PROVE \E f \in FilingOf(u)' : f.i <= i
      OBVIOUS
    <3>1. Files > 0 /\ i \in Int /\ i >= 1 BY DeliveryAssumption
    <3>2. filing' = filing \cup {[t |-> u, i |-> 1]} BY <1>7, <2>0, <3>1 DEF Deliver
    <3>3. [t |-> u, i |-> 1] \in FilingOf(u)' /\ [t |-> u, i |-> 1].i = 1
      BY <3>2 DEF FilingOf
    <3> QED BY <3>1, <3>3
  <2>6. StoppingTurn(u) => status[u] \in Active \cup {"interrupted"} BY <1>1 DEF TurnTold
  <2>7. ends[u] = IF status[u] \in Terminal THEN 1 ELSE 0 BY <1>1 DEF TurnTold
  <2> QED BY <1>0, <1>2, <2>2, <2>3, <2>4, <2>5, <2>6, <2>7 DEF TurnTold, turns
<1> QED BY <1>6, <1>7

\* A file that is registered leaves its row, or finds it there.
LEMMA RegisterFileR ==
  ASSUME TInv, CInv, FInv, RInv, Undisturbed, NEW f \in filing, NEW ok \in BOOLEAN,
         RegisterFile(f, ok)
  PROVE  RInv'
<1> DEFINE q == FileRow(f, ok)
<1>0. /\ f.t \in Turn /\ f.i \in 1..Files /\ UNCHANGED turns /\ due' = due
      /\ stopping' = stopping /\ rows \subseteq Row
      /\ filing' = (filing \ {f}) \cup (IF f.i < Files THEN {[f EXCEPT !.i = @ + 1]} ELSE {})
      /\ f \in [t : Turn, i : 1..Files]
  BY DEF RegisterFile, TInv, TypeOK
<1> SUFFICES ASSUME NEW u \in Turn, recovery[u] = "none" PROVE TurnTold(u)'
  BY <1>0 DEF RInv, turns
<1>1. TurnTold(u) BY DEF RInv
<1>2. StoppingTurn(u)' <=> StoppingTurn(u) BY <1>0 DEF StoppingTurn
<1>3. DueFor(u)' <=> DueFor(u) BY <1>0 DEF DueFor
<1>4. /\ q.t = f.t /\ q.i = f.i /\ q.kind \in {"file", "lost"}
      /\ \/ q.k = "media" /\ q.o = FileOrdinal(f.i - 1)
         \/ q.k = "text" /\ q.o = LostOrdinal(f.i - 1)
  <2>1. CASE ok BY <2>1 DEF FileRow
  <2>2. CASE ~ok BY <2>2 DEF FileRow, Text
  <2> QED BY <2>1, <2>2
<1>o. q.o >= 0 BY <1>0, <1>4, DeliveryAssumption DEF FileOrdinal, LostOrdinal
<1>5. Enqueue({q}) BY DEF RegisterFile, FileRow
<1> HIDE DEF q
<1>6. rows \subseteq rows' /\ \A r \in rows' : r \in rows \/ r = q BY <1>5, RowsGrow
<1>g. [f EXCEPT !.i = @ + 1].t = f.t /\ [f EXCEPT !.i = @ + 1].i = f.i + 1 BY <1>0
<1>7. CASE u # f.t
  <2>1. PastResult(u)' => PastResult(u) BY <1>4, <1>6, <1>7 DEF PastResult
  <2>2. FilingOf(u)' = FilingOf(u) BY <1>0, <1>7, <1>g DEF FilingOf
  <2>3. DueFor(u) => status[u] \in Terminal BY <1>1 DEF TurnTold
  <2>4. StoppingTurn(u) => status[u] \in Active \cup {"interrupted"} BY <1>1 DEF TurnTold
  <2> QED BY <1>0, <1>1, <1>2, <1>3, <1>6, <2>1, <2>2, <2>3, <2>4, ToldKeeps DEF turns
<1>8. CASE u = f.t
  <2>1. status[u] \in Terminal /\ Result(u) \subseteq rows
    BY <1>1, <1>8 DEF TurnTold, FilingOf
  <2>2. "code" \notin env BY DEF FInv, Undisturbed
  <2>3. FileTold(u, f.i)'
    <3>1. CASE q \in rows' BY <1>4, <1>8, <3>1 DEF FileTold
    <3>2. CASE q \notin rows'
      <4>1. PICK r \in rows : SameKey(q, r) BY <1>5, <3>2 DEF Enqueue
      <4>2. r.t = u /\ r.o = q.o /\ r.k = q.k /\ r.i \in Nat /\ r.o \in Int
        BY <1>0, <1>4, <1>8, <4>1 DEF SameKey, Row
      <4>3. r.kind \in {"file", "lost"} /\ r.i = f.i
        BY <1>0, <1>4, <2>2, <4>2, DeliveryAssumption DEF FInv, FileOrdinal, LostOrdinal
      <4> QED BY <1>6, <4>2, <4>3 DEF FileTold
    <3> QED BY <3>1, <3>2
  <2>4. \A i : FileTold(u, i) => FileTold(u, i)' BY <1>6 DEF FileTold
  <2>5. wants[u] => DueFor(u) \/
          \A i \in 1..Files : FileTold(u, i)' \/ \E g \in FilingOf(u)' : g.i <= i
    <3> SUFFICES ASSUME wants[u], ~DueFor(u), NEW i \in 1..Files, ~FileTold(u, i)'
                 PROVE  \E g \in FilingOf(u)' : g.i <= i
      OBVIOUS
    <3>1. PICK g \in FilingOf(u) : g.i <= i BY <1>1, <2>4 DEF TurnTold
    <3>2. CASE g # f BY <1>0, <3>1, <3>2 DEF FilingOf
    <3>3. CASE g = f
      <4>1. f.i # i /\ f.i \in Int /\ i \in Int /\ i <= Files
        BY <1>0, <2>3, DeliveryAssumption
      <4>2. f.i < Files /\ f.i + 1 <= i BY <3>1, <3>3, <4>1, DeliveryAssumption
      <4>3. [f EXCEPT !.i = @ + 1] \in FilingOf(u)' BY <1>0, <1>8, <1>g, <4>2 DEF FilingOf
      <4> QED BY <1>g, <4>2, <4>3
    <3> QED BY <3>2, <3>3
  <2>6. Result(u)' = Result(u) BY <1>0 DEF Result, turns
  <2>7. /\ StoppingTurn(u) => status[u] \in Active \cup {"interrupted"}
        /\ ends[u] = IF status[u] \in Terminal THEN 1 ELSE 0
    BY <1>1 DEF TurnTold
  <2> QED BY <1>0, <1>2, <1>3, <1>6, <2>1, <2>5, <2>6, <2>7 DEF TurnTold, turns
<1> QED BY <1>7, <1>8

\* What may happen is settled at first.
LEMMA EnvStays == [Next]_vars => env' = env
<1> SUFFICES ASSUME [Next]_vars PROVE env' = env
  OBVIOUS
<1>1. CASE UNCHANGED vars BY <1>1 DEF vars
<1>2. ASSUME NEW t \in Turn,
             \/ Create(t) \/ Dispatch(t) \/ AskApproval(t) \/ Decide(t)
             \/ CodexExit(t) \/ Overflow(t) \/ Resume(t) \/ Stop(t)
             \/ \E s \in {"completed", "failed", "interrupted"} : Finish(t, s)
      PROVE  env' = env
  BY <1>2 DEF Create, Dispatch, AskApproval, Decide, CodexExit, Overflow, Resume, Stop, Finish
<1>3. ASSUME NEW t \in Turn,
             \/ \E c \in Command : CommandStatus(c, t) \/ CommandDecide(c, t) \/ CommandStop(c, t)
             \/ Compacted(t) \/ \E reported \in BOOLEAN : CompactionFails(t, reported)
      PROVE  env' = env
  BY <1>3 DEF CommandStatus, CommandDecide, CommandStop, Compacted, CompactionFails
<1>4. CASE \/ Restart
           \/ \E d \in due : Deliver(d)
           \/ \E f \in filing, ok \in BOOLEAN : RegisterFile(f, ok)
           \/ \E s \in stopping : StopReturns(s) \/ StopFails(s)
           \/ \E a \in owed : Answer(a)
  BY <1>4 DEF Restart, Deliver, RegisterFile, StopReturns, StopFails, Answer
<1> QED BY <1>1, <1>2, <1>3, <1>4 DEF Next

LEMMA StepCalm ==
  /\ MaxCommands < 50 /\ Chunks <= 200
  /\ IInv /\ TInv /\ TInv' /\ CInv /\ AInv /\ CalmInv /\ [Next]_vars
  => CalmInv'
<1> SUFFICES ASSUME MaxCommands < 50, Chunks <= 200, IInv, TInv, TInv', CInv, AInv, CalmInv,
                    [Next]_vars, Undisturbed
             PROVE  NInv' /\ FInv' /\ RInv'
  BY EnvStays DEF CalmInv, Undisturbed
<1>0. NInv /\ FInv /\ RInv /\ compacting = {}
  BY DEF CalmInv, IInv, Undisturbed
<1>g. Goes => RInv' BY <1>0, GoesKeeps
<1>1. CASE UNCHANGED vars
  <2>1. NInv' BY <1>0, <1>1 DEF NInv, vars, turns, process, Ordinals
  <2>2. FInv' BY <1>0, <1>1 DEF FInv, vars, turns, process
  <2>3. Goes BY <1>1 DEF Goes, vars, turns, process, StoppingTurn, PastResult
  <2> QED BY <1>g, <2>1, <2>2, <2>3
<1>2. ASSUME NEW t \in Turn, Create(t) \/ Dispatch(t) \/ AskApproval(t) \/ Decide(t)
      PROVE  NInv' /\ FInv' /\ RInv'
  BY <1>0, <1>2, <1>g, CreateN, TurnN, TurnF, CreateGoes, AskApprovalGoes, TurnGoes
<1>3. ASSUME NEW t \in Turn, CodexExit(t) PROVE NInv' /\ FInv' /\ RInv'
  BY <1>0, <1>3, TurnN, TurnF, CodexExitR
<1>4. ASSUME NEW t \in Turn, NEW s \in {"completed", "failed", "interrupted"}, Finish(t, s)
      PROVE  NInv' /\ FInv' /\ RInv'
  BY <1>0, <1>4, TurnN, TurnF, FinishR
<1>5. ASSUME NEW t \in Turn, Stop(t) PROVE NInv' /\ FInv' /\ RInv'
  <2>1. NInv' /\ FInv' BY <1>0, <1>5, StopN, TurnF
  <2>2. recovery' = recovery /\ wants' = wants /\ filing' = filing /\ rows' = rows
    BY <1>5 DEF Stop
  <2>3. CASE status[t] = "queued" /\ Cancel(t) BY <1>0, <2>1, <2>2, <2>3, CancelR
  <2>4. CASE AwaitStop(t, 0) BY <1>g, <2>1, <2>2, <2>4, AwaitStopGoes
  <2> QED BY <1>5, <2>1, <2>3, <2>4 DEF Stop
<1>6. ASSUME NEW t \in Turn, NEW c \in Command, CommandStatus(c, t) \/ CommandDecide(c, t)
      PROVE  NInv' /\ FInv' /\ RInv'
  <2>1. NInv' /\ FInv' BY <1>0, <1>6, CommandN, CommandF
  <2>2. /\ Comes(c, t) /\ Enqueue({Reply(t, c)})
        /\ \/ status' = status
           \/ status' = [status EXCEPT ![t] = IF @ = "awaiting" THEN "running" ELSE @]
        /\ stopping' = stopping /\ recovery' = recovery /\ wants' = wants /\ ends' = ends
        /\ due' = due /\ filing' = filing
    BY <1>6 DEF CommandStatus, CommandDecide, turns, process
  <2>3. Goes BY <1>0, <2>2, CommandGoes
  <2> QED BY <1>g, <2>1, <2>3
<1>7. ASSUME NEW t \in Turn, NEW c \in Command, CommandStop(c, t)
      PROVE  NInv' /\ FInv' /\ RInv'
  <2>1. NInv' /\ FInv' BY <1>0, <1>7, StopN, CommandF
  <2>2. Comes(c, t) /\ recovery' = recovery /\ wants' = wants /\ filing' = filing
    BY <1>7 DEF CommandStop
  <2>3. CASE status[t] = "queued" /\ Cancel(t) /\ rows' = rows
    BY <1>0, <2>1, <2>2, <2>3, CancelR
  <2>4. CASE AwaitStop(t, c) /\ rows' = rows BY <1>g, <2>1, <2>2, <2>4, AwaitStopGoes
  <2>5. CASE Enqueue({Reply(t, c)}) /\ UNCHANGED <<status, ends, due, stopping, owed>>
    <3>1. Goes BY <1>0, <2>2, <2>5, CommandGoes
    <3> QED BY <1>g, <2>1, <3>1
  <2> QED BY <1>7, <2>3, <2>4, <2>5 DEF CommandStop
<1>8. ASSUME NEW t \in Turn,
             \/ Overflow(t) \/ Resume(t) \/ Compacted(t)
             \/ \E reported \in BOOLEAN : CompactionFails(t, reported)
      PROVE  FALSE
  BY <1>0, <1>8 DEF Undisturbed, Overflow, Resume, Compacted, CompactionFails
<1>9. CASE Restart BY <1>9 DEF Restart, Undisturbed
<1>10. ASSUME NEW d \in due, Deliver(d) PROVE NInv' /\ FInv' /\ RInv'
  BY <1>0, <1>10, RestN, DeliverF, DeliverR
<1>11. ASSUME NEW f \in filing, NEW ok \in BOOLEAN, RegisterFile(f, ok)
       PROVE  NInv' /\ FInv' /\ RInv'
  BY <1>0, <1>11, RestN, RegisterFileF, RegisterFileR
<1>12. ASSUME NEW s \in stopping, StopReturns(s) \/ StopFails(s)
       PROVE  NInv' /\ FInv' /\ RInv'
  BY <1>0, <1>12, <1>g, SettlesN, SettlesF, StopReturnsR, StopFailsGoes
<1>13. ASSUME NEW a \in owed, Answer(a) PROVE NInv' /\ FInv' /\ RInv'
  BY <1>0, <1>13, <1>g, RestN, CommandF, AnswerGoes
<1> QED BY <1>1, <1>2, <1>3, <1>4, <1>5, <1>6, <1>7, <1>8, <1>9, <1>10, <1>11, <1>12, <1>13
        DEF Next

THEOREM CalmInvariant == MaxCommands < 50 /\ Chunks <= 200 /\ Spec => []CalmInv
<1> SUFFICES ASSUME MaxCommands < 50, Chunks <= 200 PROVE Spec => []CalmInv
  OBVIOUS
<1>1. Init => CalmInv
  <2> SUFFICES ASSUME Init PROVE NInv /\ FInv /\ RInv
    BY DEF CalmInv
  <2>1. NInv BY DeliveryAssumption DEF Init, NInv
  <2>2. FInv BY DEF Init, FInv
  <2>3. RInv
    BY DEF Init, RInv, TurnTold, StoppingTurn, DueFor, PastResult, FilingOf, Terminal
  <2> QED BY <2>1, <2>2, <2>3
<1>2. IInv /\ TInv /\ TInv' /\ CInv /\ AInv /\ CalmInv /\ [Next]_vars => CalmInv'
  BY StepCalm
<1>3. Spec => []AInv BY AsksInvariant
<1> QED BY <1>1, <1>2, <1>3, Invariant, CommandsInvariant, PTL DEF Spec

\* The user is told how a turn ended: once its deliveries are done, every part of its
\* result is in the outbox, and every file of it or a word about it.  So whatever
\* approvals, commands, stops and exits of the app-server come between, where a turn
\* ends once (Undisturbed), a result has at most 200 parts (those after would take the
\* ordinals of the words about files), and there is room for the answers.
THEOREM ResultToldCorrect == MaxCommands < 50 /\ Chunks <= 200 /\ Spec => []ResultTold
<1>1. CalmInv => ResultTold
  <2> SUFFICES ASSUME CalmInv, Undisturbed, Macrotask, NEW t \in Turn,
                      status[t] \in Terminal, recovery[t] = "none"
               PROVE  /\ Result(t) \subseteq rows
                      /\ wants[t] /\ ~(\E f \in filing : f.t = t) =>
                           \A i \in 1..Files :
                             \E r \in rows : r.t = t /\ r.kind \in {"file", "lost"} /\ r.i = i
    BY DEF ResultTold
  <2>1. TurnTold(t) /\ ~DueFor(t) BY DEF CalmInv, RInv, DueFor, Macrotask
  <2> QED BY <2>1 DEF TurnTold, FileTold, FilingOf
<1> QED BY <1>1, CalmInvariant, PTL

-----------------------------------------------------------------------------
\* The browsers of the client

\* Every browser is the current client's, or that of the client a start replaces,
\* or of the client a logout leaves.
Referred == \A c \in Client : browser[c] # "none" => c \in {client, previous, leaving}

\* A run of initializeClient has taken the client away, and knows the one it has to
\* destroy only until it has done so.
StartAlone ==
  /\ init # "none" => client = 0
  /\ init # "destroying" => previous = 0

\* While logout awaits, nothing starts or is about to.
LogoutAlone ==
  /\ logout # "none" => init = "none" /\ client = 0 /\ ~retry /\ ~enabled
  /\ logout # "client" => leaving = 0

LinkInv == LinkTypeOK /\ Referred /\ StartAlone /\ LogoutAlone

\* One of the three, so one browser.
LEMMA LinkInvOneBrowser == LinkInv => OneBrowser
BY DEF LinkInv, LinkTypeOK, Referred, StartAlone, LogoutAlone, OneBrowser, Client

-----------------------------------------------------------------------------
LEMMA InitLinkInv == LinkInit => LinkInv
<1> SUFFICES ASSUME LinkInit PROVE LinkInv
  OBVIOUS
<1>1. client \in 0..Clients /\ previous \in 0..Clients /\ leaving \in 0..Clients
      /\ faults \in 0..MaxFaults
  BY LinkAssumption DEF LinkInit
<1>2. LinkTypeOK
  BY <1>1 DEF LinkInit, LinkTypeOK
<1> QED
  BY <1>2 DEF LinkInit, LinkInv, Referred, StartAlone, LogoutAlone

\* start() alone takes a client away for a run of initializeClient.
LEMMA StartKeeps ==
  ASSUME LinkInv, NEW safe \in BOOLEAN, StartClient(safe), logout = "none",
         UNCHANGED <<linked, leave, callbacks, browser, faults, faultKinds>>,
         retry' \in BOOLEAN
  PROVE  LinkInv'
<1> USE DEF LinkInv, LinkTypeOK, Referred, StartAlone, LogoutAlone, StartClient, starting, leave,
            callbacks
<1>1. CASE HasClient
  BY <1>1
<1>2. CASE ~HasClient /\ init # "none"
  BY <1>2
<1>3. CASE ~HasClient /\ init = "none"
  BY <1>3 DEF DestroyPrevious
<1> QED
  BY <1>1, <1>2, <1>3

-----------------------------------------------------------------------------
\* Preservation, by the step taken

LEMMA StartSteps ==
  ASSUME LinkInv, faultKinds \cap {"overlap"} = {},
         Start \/ RetryDue \/ PreviousDestroyed \/ CreationFails
  PROVE  LinkInv'
<1>1. CASE Start
  <2>1. StartClient(FALSE) /\ logout = "none" /\ retry' = retry
        /\ UNCHANGED <<linked, leave, callbacks, browser, faults, faultKinds>>
    BY <1>1 DEF Start
  <2>2. retry' \in BOOLEAN
    BY <2>1 DEF LinkInv, LinkTypeOK
  <2> QED
    BY <2>1, <2>2, StartKeeps
<1>2. CASE RetryDue
  <2>1. StartClient(TRUE) /\ retry' = FALSE
        /\ UNCHANGED <<linked, leave, callbacks, browser, faults, faultKinds>>
    BY <1>2 DEF RetryDue
  <2>2. logout = "none"
    BY <1>2 DEF RetryDue, LinkInv, LogoutAlone
  <2> QED
    BY <2>1, <2>2, StartKeeps
<1>3. CASE PreviousDestroyed
  BY <1>3 DEF PreviousDestroyed, LinkInv, LinkTypeOK, Referred, StartAlone, LogoutAlone,
              disk, leave, callbacks
<1>4. CASE CreationFails
  <2>1. faults' \in 0..MaxFaults
    BY <1>4, LinkAssumption DEF CreationFails, Fault, LinkInv, LinkTypeOK
  <2>2. /\ logout = "none" /\ previous = 0 /\ init' = "none"
        /\ UNCHANGED <<client, previous, leave, browser>>
    BY <1>4 DEF CreationFails, LinkInv, StartAlone, LogoutAlone
  <2>3. retry' \in BOOLEAN
    BY <1>4 DEF CreationFails, ScheduleReconnect, LinkInv, LinkTypeOK
  <2>4. LinkTypeOK'
    <3>1. /\ init' = "none" /\ safely' = FALSE /\ state' = "error"
          /\ UNCHANGED <<enabled, linked, client, previous, logout, leaving, drawing, readying,
                         browser, faultKinds>>
      BY <1>4 DEF CreationFails, disk, leave, callbacks
    <3> QED
      BY <2>1, <2>3, <3>1 DEF Failed, LinkInv, LinkTypeOK
  <2> QED
    BY <2>2, <2>4 DEF LinkInv, Referred, StartAlone, LogoutAlone, leave
<1> QED
  BY <1>1, <1>2, <1>3, <1>4

LEMMA BrowserSteps ==
  ASSUME LinkInv, NEW c \in Client, BrowserStep(c) \/ Callback(c)
  PROVE  LinkInv'
<1> USE DEF LinkInv, LinkTypeOK, Referred, StartAlone, LogoutAlone, disk, starting, leave, callbacks
<1>1. CASE ClientCreated(c)
  <2>0. init = "creating"
    BY <1>1 DEF ClientCreated
  <2>1. client = 0 /\ previous = 0 /\ leaving = 0 /\ logout = "none"
    BY <2>0
  <2>2. c \in 0..Clients /\ \A o \in Client : browser[o] = "none"
    BY <2>1 DEF Client
  <2>3. /\ client' = c /\ browser' = [browser EXCEPT ![c] = "launching"] /\ init' = "none"
        /\ safely' = FALSE
        /\ UNCHANGED <<disk, state, retry, previous, leave, callbacks, faults, faultKinds>>
    BY <1>1 DEF ClientCreated
  <2>4. LinkTypeOK'
    BY <2>2, <2>3
  <2>5. Referred'
    BY <2>2, <2>3
  <2> QED
    BY <2>1, <2>3, <2>4, <2>5
<1>2. CASE QrShown(c)
  BY <1>2 DEF QrShown
<1>3. CASE Authenticated(c)
  BY <1>3 DEF Authenticated
<1>4. CASE ReadyEvent(c)
  BY <1>4 DEF ReadyEvent
<1>5. CASE QrDrawn(c)
  BY <1>5 DEF QrDrawn
<1>6. CASE ReadyDone(c)
  BY <1>6 DEF ReadyDone
<1> QED
  BY <1>1, <1>2, <1>3, <1>4, <1>5, <1>6 DEF BrowserStep, Callback

\* A browser that fails; no logout has to fear the reconnect.
LEMMA FailureSteps ==
  ASSUME LinkInv, NEW c \in Client, NEW reason,
         InitializeFails(c) \/ AuthFailure(c) \/ Disconnected(c, reason)
  PROVE  LinkInv'
<1> USE LinkAssumption
    DEF LinkInv, LinkTypeOK, Referred, StartAlone, LogoutAlone, disk, starting, leave, callbacks,
        Fault, ScheduleReconnect, Failed
<1>1. CASE InitializeFails(c)
  BY <1>1 DEF InitializeFails
<1>2. CASE AuthFailure(c)
  <2>1. faults' \in 0..MaxFaults
    BY <1>2 DEF AuthFailure
  <2>2. LinkTypeOK'
    BY <1>2, <2>1 DEF AuthFailure
  <2> QED
    BY <1>2, <2>2 DEF AuthFailure
<1>3. CASE Disconnected(c, reason)
  BY <1>3 DEF Disconnected, DisconnectedState
<1> QED
  BY <1>1, <1>2, <1>3

LEMMA LogoutSteps ==
  ASSUME LinkInv, faultKinds \cap {"overlap"} = {}, Logout \/ ClientLeft \/ LogoutDone \/ Crash
  PROVE  LinkInv'
<1> USE DEF LinkInv, LinkTypeOK, Referred, StartAlone, LogoutAlone, disk, starting, leave, callbacks
<1>1. CASE Logout
  BY <1>1 DEF Logout
<1>2. CASE ClientLeft
  BY <1>2 DEF ClientLeft
<1>3. CASE LogoutDone
  BY <1>3 DEF LogoutDone
<1>4. CASE Crash
  <2>1. faults' \in 0..MaxFaults /\ client' \in 0..Clients /\ previous' \in 0..Clients
        /\ leaving' \in 0..Clients
    BY <1>4, LinkAssumption DEF Crash, Fault
  <2>2. LinkTypeOK'
    BY <1>4, <2>1 DEF Crash, Failed
  <2> QED
    BY <1>4, <2>2 DEF Crash
<1> QED
  BY <1>1, <1>2, <1>3, <1>4

\* faultKinds never changes, so that one assumption covers a whole behaviour.
LEMMA FaultKindsStay == [LinkNext]_linkVars => faultKinds' = faultKinds
BY DEF LinkNext, linkVars, Start, RetryDue, PreviousDestroyed, CreationFails, BrowserStep, Callback,
       ClientCreated, QrShown, Authenticated, ReadyEvent, QrDrawn, ReadyDone, InitializeFails,
       AuthFailure, Disconnected, Logout, ClientLeft, LogoutDone, Crash

LEMMA StepLinkInv == LinkInv /\ faultKinds \cap {"overlap"} = {} /\ [LinkNext]_linkVars => LinkInv'
<1> SUFFICES ASSUME LinkInv, faultKinds \cap {"overlap"} = {}, [LinkNext]_linkVars PROVE LinkInv'
  OBVIOUS
<1>1. CASE UNCHANGED linkVars
  BY <1>1 DEF LinkInv, LinkTypeOK, Referred, StartAlone, LogoutAlone, linkVars,
              disk, starting, leave, callbacks
<1>2. CASE LinkNext
  BY <1>2, StartSteps, BrowserSteps, FailureSteps, LogoutSteps DEF LinkNext
<1> QED
  BY <1>1, <1>2

-----------------------------------------------------------------------------
\* What is to be assumed of the environment: no fault of a behaviour is "overlap", by
\* which a start or a reconnect and a logout overlap.
Apart == \A f \in Faults : "overlap" \notin f

\* The inductive invariant, in such an environment: a client that may start a browser
\* is alone.
THEOREM LinkInvariant == Apart => (LinkSpec => []LinkInv)
<1> SUFFICES ASSUME Apart PROVE LinkSpec => []LinkInv
  OBVIOUS
<1> DEFINE I == LinkInv /\ faultKinds \cap {"overlap"} = {}
<1>1. LinkInit => I
  BY InitLinkInv DEF LinkInit, Apart
<1>2. I /\ [LinkNext]_linkVars => I'
  BY StepLinkInv, FaultKindsStay
<1>3. I => LinkInv
  OBVIOUS
<1> HIDE DEF I
<1> QED
  BY <1>1, <1>2, <1>3, PTL DEF LinkSpec

\* The profile directory of the session is open in one browser at most, through
\* starts, failures, reconnects, logouts and crashes.
THEOREM OneBrowserCorrect == Apart => (LinkSpec => []OneBrowser)
<1> SUFFICES ASSUME Apart PROVE LinkSpec => []OneBrowser
  OBVIOUS
<1>1. LinkSpec => []LinkInv
  BY LinkInvariant
<1> QED
  BY <1>1, LinkInvOneBrowser, PTL
=============================================================================
