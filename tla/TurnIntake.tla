----------------------------- MODULE TurnIntake -----------------------------
(***************************************************************************)
(* How input becomes turns: the missions and whatsapp_batches tables, one  *)
(* enqueue sequence for both, browser requests that may be retried, and    *)
(* WhatsApp messages that are claimed, saved, collected in a batch for     *)
(* five seconds and flushed into one turn.                                 *)
(*                                                                         *)
(* Every SQL statement outside a transaction commits on its own, so the    *)
(* process may die between any two.  flushBatches runs without an await:   *)
(* while `flushing' is not empty nothing but a crash interrupts it.        *)
(***************************************************************************)
EXTENDS Naturals, Sequences, FiniteSets, FiniteSetsExt

CONSTANTS
  Msg,         \* WhatsApp messages in the self chat
  MediaMsg,    \* those with an attachment to download
  Web,         \* browser requests, by their client message id
  Capacity,    \* MAX_PENDING_TURNS
  BatchLimit,  \* MAX_BATCH_MESSAGES
  Faults,      \* sets of events: a behaviour performs those of one of them
  MaxCrashes   \* bound: crashes of the application

ASSUME IntakeAssumption ==
  /\ MediaMsg \subseteq Msg /\ \A w \in Web : w \notin Nat
  /\ Capacity \in Nat \ {0} /\ BatchLimit \in Nat \ {0} /\ MaxCrashes \in Nat

VARIABLES
  \* the database
  turns,      \* missions: in, seq, st and the messages in the prompt
  batches,    \* whatsapp_batches: seq, st, due, and turn once linked
  callbacks,  \* whatsapp_callbacks: the messages seen
  row,        \* whatsapp_messages.status of each message
  batchOf,    \* whatsapp_messages.batch_id: 0 is null
  tried,      \* the turns whose recoveryMetadata counts an attempt
  \* the process
  handling,   \* where the onMessage of each message is
  flushing,   \* batches flushBatches has still to go through
  linking,    \* the turn created for the first of them, not linked yet
  timer,      \* batchTimer is set
  clearing,   \* clearingContext
  recovering, \* pendingCompactionRecoveryId: 0 is null, compacting is set if it is not
  online,     \* the WhatsApp client is ready
  \* history and bounds
  resumed,    \* turns queued again by the operator
  overflowed, \* turns whose context overflowed
  crashes,
  env

db   == <<turns, batches, callbacks, row, batchOf>>
proc == <<handling, flushing, linking, timer, clearing, online>>
recovery == <<tried, recovering>>
hist == <<resumed, overflowed, crashes>>
vars == <<db, proc, recovery, hist, env>>

TurnStatus == {"queued", "running", "interrupted", "done"}
BatchStatus == {"open", "queued", "rejected"}
RowStatus == {"none", "received", "batched", "routed", "failed"}

TypeOK ==
  /\ turns \in Seq([in : Web \cup Nat, seq : Nat, st : TurnStatus, msgs : SUBSET Msg])
  /\ batches \in Seq([seq : Nat, st : BatchStatus, due : BOOLEAN, turn : Nat])
  /\ callbacks \subseteq Msg
  /\ row \in [Msg -> RowStatus]
  /\ batchOf \in [Msg -> 0..Len(batches)]
  /\ handling \in [Msg -> {"idle", "chat", "media"}]
  /\ flushing \subseteq DOMAIN batches
  /\ linking \in 0..Len(turns)
  /\ timer \in BOOLEAN /\ clearing \in BOOLEAN /\ online \in BOOLEAN
  /\ recovering \in 0..Len(turns)
  /\ tried \subseteq DOMAIN turns
  /\ resumed \subseteq DOMAIN turns /\ overflowed \subseteq DOMAIN turns
  /\ crashes \in 0..MaxCrashes
  /\ env \in Faults

Init ==
  /\ turns = <<>> /\ batches = <<>> /\ callbacks = {}
  /\ row = [m \in Msg |-> "none"]
  /\ batchOf = [m \in Msg |-> 0]
  /\ handling = [m \in Msg |-> "idle"]
  /\ flushing = {} /\ linking = 0 /\ timer = FALSE
  /\ clearing = FALSE /\ recovering = 0 /\ online = TRUE
  /\ tried = {} /\ resumed = {} /\ overflowed = {} /\ crashes = 0
  /\ env \in Faults

-----------------------------------------------------------------------------
\* Operators named ...Mutant are wrong on purpose: each stands for a plausible
\* slip in the operator after it, and shows which property would catch it.

Open == {b \in DOMAIN batches : batches[b].st = "open"}
Running == {i \in DOMAIN turns : turns[i].st = "running"}
Pending == {i \in DOMAIN turns : turns[i].st \in {"queued", "running"}}
\* pendingCount: an open batch counts as the turn it will be.
PendingCountMutant == Cardinality(Pending)
PendingCount == Cardinality(Pending) + Cardinality(Open)

\* reserveEnqueueSequence and nextEnqueueSequence: one more than the greatest
\* sequence in either table.
PendingSequenceMutant == PendingCount + 1
NextSequence ==
  Max({0} \cup {turns[i].seq : i \in DOMAIN turns} \cup {batches[b].seq : b \in DOMAIN batches}) + 1

\* findByIngress: the turn created for an input, 0 if there is none.
NoIngressMutant(in) == 0
FindByIngress(in) ==
  IF \E i \in DOMAIN turns : turns[i].in = in
    THEN CHOOSE i \in DOMAIN turns : turns[i].in = in
    ELSE 0

\* MissionsService.create accepts an input: the capacity is looked at before
\* the ingress key.
MayCreate == ~clearing /\ PendingCount < Capacity

\* repository.create: the row of a new turn.
NewTurn(in, seq, msgs) == [in |-> in, seq |-> seq, st |-> "queued", msgs |-> msgs]

\* Nothing interleaves with the synchronous loop of flushBatches.
Idle == flushing = {}

-----------------------------------------------------------------------------
\* The browser and the dispatcher

\* POST /turns.  A retry of an accepted request finds its turn.
CreateFromBrowser(w) ==
  /\ Idle /\ MayCreate
  /\ FindByIngress(w) = 0
  /\ turns' = Append(turns, NewTurn(w, NextSequence, {}))
  /\ UNCHANGED <<batches, callbacks, row, batchOf, proc, recovery, hist, env>>

\* nextQueued
IsNext(i) ==
  /\ turns[i].st = "queued"
  /\ \A k \in DOMAIN turns : turns[k].st = "queued" => turns[i].seq <= turns[k].seq

\* The dispatcher (TurnDispatch) begins the next turn and ends it.  create calls
\* processNext before flushBatches goes on.
Begin(i) ==
  /\ Idle \/ linking # 0
  /\ ~clearing /\ recovering = 0
  /\ Running = {}
  /\ IsNext(i)
  /\ turns' = [turns EXCEPT ![i].st = "running"]
  /\ UNCHANGED <<batches, callbacks, row, batchOf, proc, recovery, hist, env>>

\* The turn ends.  A turn whose context overflowed may still be reported to have ended
\* while it waits for the compaction.
Finish(i) ==
  /\ Idle
  /\ turns[i].st = "running" \/ (turns[i].st = "interrupted" /\ recovering = i)
  /\ turns' = [turns EXCEPT ![i].st = "done"]
  /\ UNCHANGED <<batches, callbacks, row, batchOf, proc, recovery, hist, env>>

\* interrupt: a turn that waits is cancelled, one that runs may be resumed.
Interrupt(i) ==
  /\ "operator" \in env /\ Idle
  /\ \/ turns[i].st = "queued" /\ turns' = [turns EXCEPT ![i].st = "done"]
     \/ turns[i].st = "running" /\ turns' = [turns EXCEPT ![i].st = "interrupted"]
  /\ UNCHANGED <<batches, callbacks, row, batchOf, proc, recovery, hist, env>>

\* resume: back to its old place, without a look at the capacity, and with a recovery
\* to spend again.
Resume(i) ==
  /\ "operator" \in env /\ Idle
  /\ turns[i].st = "interrupted"
  /\ turns' = [turns EXCEPT ![i].st = "queued"]
  /\ tried' = tried \ {i}
  /\ resumed' = resumed \cup {i}
  /\ UNCHANGED <<batches, callbacks, row, batchOf, proc, recovering, overflowed, crashes, env>>

\* processNext puts a turn back when Codex turns out to be unreachable.
Defer(i) ==
  /\ "exit" \in env /\ Idle
  /\ turns[i].st = "running"
  /\ turns' = [turns EXCEPT ![i].st = "queued"]
  /\ tried' = tried \cup {i}
  /\ UNCHANGED <<batches, callbacks, row, batchOf, proc, recovering, hist, env>>

\* What is done with running turns that are cut off: those in `again' go back to the
\* queue, which needs a thread to go on with and an attempt that is not spent.
CutOff(again) ==
  /\ again \subseteq Running \ tried
  /\ turns' = [i \in DOMAIN turns |->
                 IF i \notin Running THEN turns[i]
                 ELSE [turns[i] EXCEPT !.st = IF i \in again THEN "queued" ELSE "interrupted"]]
  /\ tried' = tried \cup again

\* handleCodexExit
CodexExits ==
  /\ "exit" \in env /\ Idle
  /\ Running # {}
  /\ \E again \in SUBSET Running : CutOff(again)
  /\ UNCHANGED <<batches, callbacks, row, batchOf, proc, recovering, hist, env>>

\* recoverFromContextWindow: the turn is out of the queue's count until the thread is
\* compacted.  (One whose recovery is spent fails: Finish.)
Overflow(i) ==
  /\ "context" \in env /\ Idle
  /\ turns[i].st = "running" /\ i \notin tried
  /\ turns' = [turns EXCEPT ![i].st = "interrupted"]
  /\ tried' = tried \cup {i}
  /\ recovering' = i
  /\ overflowed' = overflowed \cup {i}
  /\ UNCHANGED <<batches, callbacks, row, batchOf, proc, resumed, crashes, env>>

\* The compaction ends, fails or takes too long: the turn is queued in its old place or
\* failed, whatever its status, without a look at the capacity.
CompactionEnds ==
  /\ Idle /\ recovering # 0
  /\ \E st \in {"queued", "done"} : turns' = [turns EXCEPT ![recovering].st = st]
  /\ recovering' = 0
  /\ UNCHANGED <<batches, callbacks, row, batchOf, proc, tried, hist, env>>

\* clearContext up to the await of the new thread, and after it.
BeginClear ==
  /\ "clear" \in env /\ Idle
  /\ ~clearing /\ recovering = 0 /\ PendingCount = 0
  /\ clearing' = TRUE
  /\ UNCHANGED <<db, handling, flushing, linking, timer, online, recovery, hist, env>>

EndClear ==
  /\ Idle /\ clearing
  /\ clearing' = FALSE
  /\ UNCHANGED <<db, handling, flushing, linking, timer, online, recovery, hist, env>>

-----------------------------------------------------------------------------
\* onMessage

\* claimCallback comes first: a message is reported as "message" and as
\* "message_create", and the handler of the second report goes no further.
Hear(m) ==
  /\ Idle /\ online
  /\ m \notin callbacks
  /\ handling' = [handling EXCEPT ![m] = "chat"]
  /\ callbacks' = callbacks \cup {m}
  /\ UNCHANGED <<turns, batches, row, batchOf, flushing, linking, timer, clearing, online,
                 recovery, hist, env>>

\* The batch a message is added to: the newest open one, if it has room.
AnyBatchMutant(b) ==
  /\ b = Len(batches) /\ b # 0
  /\ Cardinality({m \in Msg : batchOf[m] = b}) < BatchLimit
CanAppend(b) ==
  /\ b \in Open /\ \A c \in Open : batches[c].seq <= batches[b].seq
  /\ Cardinality({m \in Msg : batchOf[m] = b}) < BatchLimit

\* addToBatch, with its throw when the queue is full: the message is answered
\* "Could not send the message".  A full batch is due at once.
AddToBatch(m) ==
  IF PendingCount >= Capacity
    THEN /\ row' = [row EXCEPT ![m] = "failed"]
         /\ UNCHANGED <<batches, batchOf, timer>>
    ELSE /\ \/ \E b \in DOMAIN batches :
                 /\ CanAppend(b)
                 /\ batches' = [batches EXCEPT ![b].due =
                      Cardinality({k \in Msg : batchOf[k] = b}) + 1 >= BatchLimit]
                 /\ batchOf' = [batchOf EXCEPT ![m] = b]
            \/ /\ \A b \in DOMAIN batches : ~CanAppend(b)
               /\ batches' = Append(batches, [seq |-> NextSequence, st |-> "open",
                                              due |-> BatchLimit = 1, turn |-> 0])
               /\ batchOf' = [batchOf EXCEPT ![m] = Len(batches) + 1]
         /\ row' = [row EXCEPT ![m] = "batched"]
         /\ timer' = TRUE

\* onMessage after getChat: claimInboundMessage, then the media is awaited or
\* the text batched.
Claim(m) ==
  /\ Idle
  /\ handling[m] = "chat" /\ row[m] = "none"
  /\ IF m \in MediaMsg
       THEN /\ handling' = [handling EXCEPT ![m] = "media"]
            /\ row' = [row EXCEPT ![m] = "received"]
            /\ UNCHANGED <<batches, batchOf, timer>>
       ELSE /\ handling' = [handling EXCEPT ![m] = "idle"]
            /\ AddToBatch(m)
  /\ UNCHANGED <<turns, callbacks, flushing, linking, clearing, online, recovery, hist, env>>

\* onMessage after saveIncomingMedia, which may fail.
MediaSaved(m) ==
  /\ Idle
  /\ handling[m] = "media"
  /\ handling' = [handling EXCEPT ![m] = "idle"]
  /\ AddToBatch(m)
  /\ UNCHANGED <<turns, callbacks, flushing, linking, clearing, online, recovery, hist, env>>

MediaFails(m) ==
  /\ Idle
  /\ handling[m] = "media"
  /\ handling' = [handling EXCEPT ![m] = "idle"]
  /\ row' = [row EXCEPT ![m] = "failed"]
  /\ UNCHANGED <<turns, batches, callbacks, batchOf, flushing, linking, timer, clearing,
                 online, recovery, hist, env>>

-----------------------------------------------------------------------------
\* flushBatches

\* Five seconds pass without another message for the batch.
Elapse(b) ==
  /\ Idle
  /\ b \in Open /\ ~batches[b].due
  /\ batches' = [batches EXCEPT ![b].due = TRUE]
  /\ UNCHANGED <<turns, callbacks, row, batchOf, proc, recovery, hist, env>>

\* batchTimer fires: the open batches that are due.
BeginFlush ==
  LET due == {b \in Open : batches[b].due}
  IN  /\ Idle /\ timer /\ due # {}
      /\ timer' = FALSE
      /\ flushing' = due
      /\ UNCHANGED <<db, handling, linking, clearing, online, recovery, hist, env>>

\* scheduleBatchFlush: the timer is set if a batch is open.
NeverAgainMutant(bs) == FALSE
Reschedule(bs) == \E b \in DOMAIN bs : bs[b].st = "open"

\* They are gone through in the order of their sequences.
IsFirst(b) == b \in flushing /\ \A c \in flushing : batches[b].seq <= batches[c].seq

\* The loop has done with batch b: it goes on with the next, or ends and schedules
\* the next flush.
NextBatch(b) ==
  /\ flushing' = flushing \ {b}
  /\ linking' = 0
  /\ timer' = (flushing' = {} /\ Reschedule(batches'))

\* missions.create for a batch: its turn is inserted, or found if an
\* earlier flush died after inserting it.
FlushCreate(b) ==
  /\ IsFirst(b) /\ linking = 0 /\ MayCreate
  /\ IF FindByIngress(b) # 0
       THEN linking' = FindByIngress(b) /\ UNCHANGED turns
       ELSE /\ turns' = Append(turns, NewTurn(b, batches[b].seq, {m \in Msg : batchOf[m] = b}))
            /\ linking' = Len(turns) + 1
  /\ UNCHANGED <<batches, callbacks, row, batchOf, handling, flushing, timer, clearing,
                 online, recovery, hist, env>>

\* The messages of a flushed batch.
Routed(b) == [m \in Msg |-> IF batchOf[m] = b THEN "routed" ELSE row[m]]

\* The transaction that links batch, messages and turn.
FlushLink(b) ==
  /\ IsFirst(b) /\ linking # 0
  /\ batches' = [batches EXCEPT ![b].st = "queued", ![b].turn = linking]
  /\ row' = Routed(b)
  /\ NextBatch(b)
  /\ UNCHANGED <<turns, callbacks, batchOf, handling, clearing, online, recovery, hist, env>>

\* missions.create throws: the batch is rejected and the user told.
FlushReject(b) ==
  /\ IsFirst(b) /\ linking = 0 /\ ~MayCreate
  /\ batches' = [batches EXCEPT ![b].st = "rejected"]
  /\ NextBatch(b)
  /\ UNCHANGED <<turns, callbacks, row, batchOf, handling, clearing, online, recovery, hist, env>>

-----------------------------------------------------------------------------
\* The application dies and starts again: handlers are gone, a running turn is queued
\* again or interrupted, and a turn that was being recovered stays interrupted; the
\* start sets the batch timer.
Restart ==
  /\ "crash" \in env /\ crashes < MaxCrashes
  /\ crashes' = crashes + 1
  /\ handling' = [m \in Msg |-> "idle"]
  /\ flushing' = {} /\ linking' = 0 /\ clearing' = FALSE /\ online' = FALSE
  /\ timer' = Reschedule(batches)
  /\ \E again \in SUBSET Running : CutOff(again)
  /\ recovering' = 0
  /\ UNCHANGED <<batches, callbacks, row, batchOf, resumed, overflowed, env>>

\* The WhatsApp client is ready seconds after the start, later than the flush of
\* the batches that were due at the start.
GoOnline ==
  /\ Idle /\ ~online
  /\ \A b \in Open : ~batches[b].due
  /\ online' = TRUE
  /\ UNCHANGED <<db, handling, flushing, linking, timer, clearing, recovery, hist, env>>

-----------------------------------------------------------------------------
Handle == \E m \in Msg : Claim(m) \/ MediaSaved(m) \/ MediaFails(m)
Flush == \/ BeginFlush
         \/ \E b \in flushing : FlushCreate(b) \/ FlushLink(b) \/ FlushReject(b)

Next ==
  \/ \E w \in Web : CreateFromBrowser(w)
  \/ \E i \in DOMAIN turns : Begin(i) \/ Finish(i) \/ Interrupt(i) \/ Resume(i)
                            \/ Defer(i) \/ Overflow(i)
  \/ CodexExits \/ CompactionEnds
  \/ BeginClear \/ EndClear
  \/ \E m \in Msg : Hear(m)
  \/ Handle
  \/ \E b \in DOMAIN batches : Elapse(b)
  \/ Flush
  \/ Restart \/ GoOnline

Spec == Init /\ [][Next]_vars

\* Awaited calls settle, the batch window passes, and the timer fires.
Fairness ==
  /\ WF_vars(Handle) /\ WF_vars(Flush)
  /\ WF_vars(\E b \in DOMAIN batches : Elapse(b))
FairSpec == Spec /\ Fairness

-----------------------------------------------------------------------------
\* Properties

\* Browser turns and batches share one sequence: no two of them have the same
\* place, except a batch and its own turn.
OneSequence ==
  /\ \A i, k \in DOMAIN turns : turns[i].seq = turns[k].seq => i = k
  /\ \A b, c \in DOMAIN batches : batches[b].seq = batches[c].seq => b = c
  /\ \A i \in DOMAIN turns, b \in DOMAIN batches : turns[i].seq = batches[b].seq => turns[i].in = b

\* An input is one turn in one place, however often it is retried, by the browser
\* or by a flush that died half way, and no message is in the prompts of two turns.
OneTurnPerInput ==
  /\ \A i, k \in DOMAIN turns :
       i # k => turns[i].in # turns[k].in /\ turns[i].msgs \cap turns[k].msgs = {}
  /\ OneSequence

\* What the queue has accepted and not done: the turns it counts and the one that is
\* being compacted.  What the operator resumes comes on top.
Load == (Pending \cup ({recovering} \ {0})) \ resumed

\* "At most 250 open/pending turns and WhatsApp batches are accepted."  A turn leaves the
\* count when its context overflows and comes back when the compaction ends, so that with
\* such a turn there may be one more; never two, however many overflow, and whatever is
\* stopped, deferred or cut off.
CapacityKept ==
  Cardinality(Load) + Cardinality(Open) <= Capacity + (IF Load \cap overflowed # {} THEN 1 ELSE 0)

\* The prompt of a batch's turn holds exactly the messages routed to it: none
\* joined the batch after its turn was written, even across a crash.
PromptComplete ==
  \A b \in DOMAIN batches : batches[b].st = "queued" =>
    turns[batches[b].turn].msgs = {m \in Msg : batchOf[m] = b}

\* queuePosition: how many inputs are ahead of a queued turn, itself included.
Position(i) ==
  1 + Cardinality({k \in DOMAIN turns \ {i} : turns[k].st = "queued" /\ turns[k].seq < turns[i].seq})
    + Cardinality({b \in Open : batches[b].seq < turns[i].seq})

\* The older turns that this step puts back into the queue: resumed, deferred, cut off
\* or compacted.
PutBack(i) ==
  {k \in DOMAIN turns : turns[k].st # "queued" /\ turns'[k].st = "queued" /\ turns[k].seq < turns[i].seq}

\* The position shown to the user grows only by older turns that are put back, by one
\* for each: no later input gets ahead of an earlier one, and what is put back takes its
\* old place.  (A batch counts once more between its turn's insertion and the link,
\* when it is both.)
PositionNeverGrows ==
  [][\A i \in DOMAIN turns : turns[i].st = "queued" /\ turns'[i].st = "queued" =>
       Position(i)' <= Position(i) + Cardinality(PutBack(i))
                       + (IF linking = 0 /\ linking' # 0 THEN 1 ELSE 0)]_vars

\* A message the server received is settled: in a turn's prompt, answered with
\* an error, or in a batch answered with an error.  (Without crashes.)
Settled(m) ==
  \/ row[m] \in {"routed", "failed"}
  \/ batchOf[m] # 0 /\ batches[batchOf[m]].st = "rejected"
MessagesSettle == \A m \in Msg : (m \in callbacks /\ "crash" \notin env) ~> Settled(m)
=============================================================================
