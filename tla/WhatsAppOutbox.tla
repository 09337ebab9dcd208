--------------------------- MODULE WhatsAppOutbox ---------------------------
(***************************************************************************)
(* The outbox of WhatsAppService: texts and files are rows of              *)
(* whatsapp_outbox, sent one at a time to the user's self chat, and resent *)
(* until WhatsApp acknowledges them.  The self chat is also where the      *)
(* user's messages come from, so each of them comes back as an event (its  *)
(* echo), which must not be taken for input.                               *)
(*                                                                         *)
(* WhatsApp may create the message without telling its id, or although the *)
(* call fails; echoes and acknowledgements come late, in any order or      *)
(* never.  Time is abstracted to what has elapsed: next_attempt_at of a    *)
(* row, and the minute for which a text or a file is remembered.           *)
(***************************************************************************)
EXTENDS Naturals, Sequences, FiniteSets

CONSTANTS
  Rows,       \* how many rows the outbox gets; they are numbered by created_at
  BodyOf,     \* the text of each row, when they are texts
  Faults,     \* sets of events: a behaviour performs those of one of them
  MaxSends,   \* bound: messages created in WhatsApp
  MaxCrashes  \* bound: crashes of the application

Row == 1..Rows
Body == {BodyOf[r] : r \in Row}
Id == 1..MaxSends

ASSUME OutboxAssumption ==
  /\ Rows \in Nat \ {0} /\ BodyOf = [r \in Row |-> BodyOf[r]]
  /\ MaxSends \in Nat /\ MaxCrashes \in Nat

VARIABLES
  env,       \* the behaviour's events; with "media" the rows are files
  \* the database
  status,    \* whatsapp_outbox.status
  remote,    \* whatsapp_outbox.remote_message_id: 0 is null
  due,       \* next_attempt_at has passed
  outbound,  \* whatsapp_outbound_messages: ids known to be ours
  \* the process
  flight,    \* the row whose send flushOutbox awaits, 0 if none
  recent,    \* recentOutboundTexts: how often a text was sent in the last minute
  ready,     \* the client is connected
  \* WhatsApp
  sent,      \* the rows of which it created messages, in order
  created,   \* the message created by the call in flight, 0 if none yet
  echoes,    \* messages whose echo is on its way
  acks,      \* messages whose acknowledgement is on its way
  \* history and bounds
  inputs,    \* messages taken for the user's input
  crashes

db == <<status, remote, due, outbound>>
process == <<flight, recent, ready>>
whatsapp == <<sent, created, echoes, acks>>
vars == <<db, process, whatsapp, inputs, crashes, env>>

Status == {"none", "pending", "sending", "sent_unconfirmed", "failed", "acknowledged", "discarded"}

TypeOK ==
  /\ status \in [Row -> Status]
  /\ remote \in [Row -> 0..Len(sent)]
  /\ due \in [Row -> BOOLEAN]
  /\ outbound \subseteq 1..Len(sent)
  /\ flight \in 0..Rows
  /\ recent \in [Body -> 0..MaxSends]
  /\ ready \in BOOLEAN
  /\ sent \in Seq(Row) /\ Len(sent) <= MaxSends
  /\ created \in 0..Len(sent)
  /\ echoes \subseteq 1..Len(sent) /\ acks \subseteq 1..Len(sent)
  /\ inputs \subseteq 1..Len(sent)
  /\ crashes \in 0..MaxCrashes
  /\ env \in Faults

Init ==
  /\ status = [r \in Row |-> "none"]
  /\ remote = [r \in Row |-> 0]
  /\ due = [r \in Row |-> FALSE]
  /\ outbound = {}
  /\ flight = 0
  /\ recent = [b \in Body |-> 0]
  /\ ready = TRUE
  /\ sent = <<>> /\ created = 0 /\ echoes = {} /\ acks = {}
  /\ inputs = {} /\ crashes = 0
  /\ env \in Faults

Media == "media" \in env

\* What an echo or a user can tell of two rows: texts are told apart by their
\* bodies only.
Alike(r, o) == IF Media THEN r = o ELSE BodyOf[r] = BodyOf[o]

-----------------------------------------------------------------------------
\* Operators named ...Mutant are wrong on purpose: each stands for a plausible
\* slip in the operator after it, and shows which property would catch it.

\* whatsapp_outbox_remote_idx: an UPDATE that gives a row the id of another row
\* throws.  Discarded rows are deleted.
SharedMutant(r, id) == FALSE
Taken(r, id) == id # 0 /\ \E o \in Row \ {r} : status[o] # "discarded" /\ remote[o] = id

\* The rows flushOutbox looks for.
Sendable(r) == status[r] \in {"pending", "failed", "sent_unconfirmed"} /\ due[r]

\* enqueueText, or enqueueMedia for a file.
Enqueue(r) ==
  /\ status[r] = "none"
  /\ r > 1 => status[r - 1] # "none"
  /\ status' = [status EXCEPT ![r] = "pending"]
  /\ due' = [due EXCEPT ![r] = TRUE]
  /\ UNCHANGED <<remote, outbound, process, whatsapp, inputs, crashes, env>>

-----------------------------------------------------------------------------
\* flushOutbox

\* sendToSelf remembers the text before it calls sendMessage.
sendToSelf(b) == recent' = [recent EXCEPT ![b] = IF @ < MaxSends THEN @ + 1 ELSE @]

\* The oldest row that is due is marked and its send awaited; `outboxFlushing'
\* keeps a second loop out.  (A count of MaxSends outlasts every echo there can be.)
BeginSend(r) ==
  /\ ready /\ flight = 0
  /\ Sendable(r) /\ \A o \in Row : Sendable(o) => r <= o
  /\ Len(sent) < MaxSends
  /\ status' = [status EXCEPT ![r] = "sending"]
  /\ flight' = r
  /\ IF Media THEN UNCHANGED recent ELSE sendToSelf(BodyOf[r])
  /\ UNCHANGED <<remote, due, outbound, ready, whatsapp, inputs, crashes, env>>

\* WhatsApp creates the message of the call in flight.
CreateMessage ==
  /\ flight # 0 /\ created = 0
  /\ sent' = Append(sent, flight)
  /\ created' = Len(sent) + 1
  /\ echoes' = echoes \cup {Len(sent) + 1}
  /\ acks' = acks \cup {Len(sent) + 1}
  /\ UNCHANGED <<db, process, inputs, crashes, env>>

\* The row of a call that failed.
SendFailed(r) == status' = [status EXCEPT ![r] = "failed"] /\ UNCHANGED remote

\* The call returns, with the id or without; for a file, the id that its row got
\* from the echo meanwhile will do.  A row that is no longer "sending"
\* is left alone; an id that another row holds makes the UPDATE throw.
SendReturns ==
  /\ flight # 0 /\ created # 0
  /\ \E id \in {created} \cup (IF "noid" \in env THEN {IF Media THEN remote[flight] ELSE 0} ELSE {}) :
       /\ outbound' = outbound \cup ({id} \ {0})
       /\ IF status[flight] # "sending" THEN UNCHANGED <<status, remote>>
          ELSE IF Taken(flight, id) THEN SendFailed(flight)
          ELSE /\ status' = [status EXCEPT ![flight] = "sent_unconfirmed"]
               /\ remote' = [remote EXCEPT ![flight] = id]
  /\ due' = [due EXCEPT ![flight] = @ /\ status[flight] # "sending"]
  /\ flight' = 0 /\ created' = 0
  /\ UNCHANGED <<recent, ready, sent, echoes, acks, inputs, crashes, env>>

\* The call fails, the connection with it or not; the row is "failed" whatever
\* happened to it since.
SendThrows ==
  /\ "throw" \in env /\ flight # 0
  /\ IF status[flight] = "discarded" THEN UNCHANGED <<status, remote>> ELSE SendFailed(flight)
  /\ due' = [due EXCEPT ![flight] = FALSE]
  /\ ready' \in {ready, FALSE}
  /\ flight' = 0 /\ created' = 0
  /\ UNCHANGED <<outbound, recent, sent, echoes, acks, inputs, crashes, env>>

\* The retry delay of a row passes.
Elapse(r) ==
  /\ status[r] \in {"failed", "sent_unconfirmed"} /\ ~due[r]
  /\ due' = [due EXCEPT ![r] = TRUE]
  /\ UNCHANGED <<status, remote, outbound, process, whatsapp, inputs, crashes, env>>

-----------------------------------------------------------------------------
\* What comes back

\* consumeRecentOutboundText: the text was sent in the last minute.
Remembered(b) == recent[b] # 0

\* onMessage takes a message that is neither remembered nor known to be ours for
\* input.
AnyTextMutant(id) == id \notin outbound
Unrecognised(id) == ~Remembered(BodyOf[sent[id]]) /\ id \notin outbound

\* The row an echo is matched to becomes acknowledged, and the id known; the
\* UPDATE throws if another row has the id.
Matched(r, id) ==
  IF Taken(r, id)
    THEN UNCHANGED <<status, remote, outbound>>
    ELSE /\ status' = [status EXCEPT ![r] = "acknowledged"]
         /\ remote' = [remote EXCEPT ![r] = id]
         /\ outbound' = outbound \cup {id}

Awaiting == {r \in Row : status[r] \in {"sending", "sent_unconfirmed"}}

\* onMessage, for the echo of our own message; claimCallback has it handled once.
\* Nothing forces an echo to come.
EchoComes(id) ==
  /\ ready /\ id \in echoes
  /\ echoes' = echoes \ {id}
  /\ UNCHANGED <<due, flight, ready, sent, created, acks, crashes, env>>

\* A remembered text is taken for the acknowledgement of the oldest row with it.
TextEcho(id) ==
  /\ ~Media /\ EchoComes(id)
  /\ inputs' = IF Unrecognised(id) THEN inputs \cup {id} ELSE inputs
  /\ LET b == BodyOf[sent[id]]
         alike == {r \in Awaiting : BodyOf[r] = b}
     IN  IF ~Remembered(b)
           THEN UNCHANGED <<status, remote, outbound, recent>>
           ELSE /\ recent' = [recent EXCEPT ![b] = @ - 1]
                /\ IF alike = {}
                     THEN outbound' = outbound \cup {id} /\ UNCHANGED <<status, remote>>
                     ELSE \E r \in alike : (\A o \in alike : r <= o) /\ Matched(r, id)

\* consumeOutboundMedia: a file is taken for the row being sent, or for one sent
\* in the last minute.  (Which of several is a matter of milliseconds.)
MediaEcho(id) ==
  /\ Media /\ EchoComes(id)
  /\ \/ \E r \in Awaiting :
          /\ \A o \in Awaiting : status[o] = "sending" => status[r] = "sending"
          /\ Matched(r, id)
          /\ UNCHANGED inputs
     \/ /\ Awaiting = {} \/ "late" \in env
        /\ inputs' = IF id \in outbound THEN inputs ELSE inputs \cup {id}
        /\ UNCHANGED <<status, remote, outbound>>
  /\ UNCHANGED recent

\* onMessageAck: of the row that holds the id, if one still does.
Holder(id) == {r \in Row : remote[r] = id /\ status[r] # "discarded"}
Acknowledge(id) ==
  /\ ready /\ id \in acks
  /\ acks' = acks \ {id}
  /\ status' = [r \in Row |-> IF r \in Holder(id) THEN "acknowledged" ELSE status[r]]
  /\ UNCHANGED <<remote, due, outbound, process, sent, created, echoes, inputs,
                 crashes, env>>

\* A negative acknowledgement.
Refuse(id) ==
  /\ "nack" \in env
  /\ ready /\ id \in acks
  /\ acks' = acks \ {id}
  /\ status' = [r \in Row |-> IF r \in Holder(id) THEN "failed" ELSE status[r]]
  /\ due' = [r \in Row |-> IF r \in Holder(id) THEN FALSE ELSE due[r]]
  /\ UNCHANGED <<remote, outbound, process, sent, created, echoes, inputs,
                 crashes, env>>

\* pruneOutboundTexts: a minute passes.
Forget(b) ==
  /\ "late" \in env
  /\ recent[b] # 0
  /\ recent' = [recent EXCEPT ![b] = 0]
  /\ UNCHANGED <<db, flight, ready, whatsapp, inputs, crashes, env>>

-----------------------------------------------------------------------------
\* The user, the connection and the process

\* retryOutbox looks at no status.
RetryOutbox(r) ==
  /\ "operator" \in env
  /\ status[r] \notin {"none", "discarded"}
  /\ status' = [status EXCEPT ![r] = "pending"]
  /\ due' = [due EXCEPT ![r] = TRUE]
  /\ UNCHANGED <<remote, outbound, process, whatsapp, inputs, crashes, env>>

DiscardOutbox(r) ==
  /\ "operator" \in env
  /\ status[r] \notin {"none", "discarded"}
  /\ status' = [status EXCEPT ![r] = "discarded"]
  /\ UNCHANGED <<remote, due, outbound, process, whatsapp, inputs, crashes, env>>

\* A client that lost its connection is ready again (scheduleReconnect).
Reconnect ==
  /\ ~ready
  /\ ready' = TRUE
  /\ UNCHANGED <<db, flight, recent, whatsapp, inputs, crashes, env>>

\* recoverOutbox: a send that was in flight is tried again.
ForgottenMutant == status
RecoveredStatus == [r \in Row |-> IF status[r] = "sending" THEN "pending" ELSE status[r]]

\* The browser that would report the echoes dies with the process.
Restart ==
  /\ "crash" \in env /\ crashes < MaxCrashes
  /\ crashes' = crashes + 1
  /\ status' = RecoveredStatus
  /\ due' = [r \in Row |-> due[r] \/ status[r] = "sending"]
  /\ flight' = 0 /\ created' = 0
  /\ recent' = [b \in Body |-> 0]
  /\ ready' = FALSE
  /\ echoes' = {}
  /\ UNCHANGED <<remote, outbound, sent, acks, inputs, env>>

-----------------------------------------------------------------------------
Send == \E r \in Row : BeginSend(r)
Settle == SendReturns \/ SendThrows

Next ==
  \/ \E r \in Row : Enqueue(r) \/ Elapse(r) \/ RetryOutbox(r) \/ DiscardOutbox(r)
  \/ Send \/ CreateMessage \/ SendReturns \/ SendThrows
  \/ \E id \in Id : TextEcho(id) \/ MediaEcho(id) \/ Acknowledge(id) \/ Refuse(id)
  \/ \E b \in Body : Forget(b)
  \/ Reconnect \/ Restart

Spec == Init /\ [][Next]_vars

\* outboxTimer fires every five seconds, time passes, a call settles in the end,
\* the client reconnects, and WhatsApp takes one of the texts it is offered again
\* and again.
Fairness ==
  /\ WF_vars(Send) /\ SF_vars(CreateMessage) /\ WF_vars(Settle) /\ WF_vars(Reconnect)
  /\ \A r \in Row : WF_vars(Elapse(r))
FairSpec == Spec /\ Fairness

-----------------------------------------------------------------------------
\* Properties

\* "Delivery is at least once": of the rows with a text, or of a file, no more are
\* acknowledged than messages of them were created, although an echo may
\* acknowledge another row than its own.  A row whose call is pending can be ahead
\* of its message; a crash then costs the file, and so does a call that fails
\* before the acknowledgement of the other file comes.
AtLeastOnce ==
  ~(Media /\ env \cap {"throw", "crash"} # {}) =>
    \A r \in Row :
      Cardinality({o \in Row \ {flight} : Alike(o, r) /\ status[o] = "acknowledged"})
        <= Cardinality({i \in DOMAIN sent : Alike(sent[i], r)})

\* Our own message is not taken for one of the user, which would be answered
\* with the next turn, provided that its echo comes within a minute: before or
\* after the call returns, with or without an id, after a resend of the text.
\* (A file is remembered by its row alone: not when it was sent twice, nor when
\* its call failed, or it was refused or discarded.)
SentOnce == \A i, j \in DOMAIN sent : sent[i] = sent[j] => i = j
EchoIsNotInput ==
  /\ "late" \notin env
  /\ Media => SentOnce /\ env \cap {"throw", "nack", "operator"} = {}
  => inputs = {}

\* "The durable outbox retries": a row that is neither acknowledged nor being
\* sent is sent again, unless the user discards it, also after a crash.
Waiting(r) ==
  \/ status[r] \in {"pending", "failed", "sent_unconfirmed"}
  \/ status[r] = "sending" /\ flight # r
RetriesUntilSettled ==
  \A r \in Row : Waiting(r) ~> \/ status[r] \in {"acknowledged", "discarded"}
                               \/ flight = r
                               \/ Len(sent) = MaxSends
=============================================================================
