------------------------ MODULE WhatsAppOutboxProofs -------------------------
(***************************************************************************)
(* Proofs about WhatsAppOutbox, for every number of rows, their texts,     *)
(* every environment and every bound: what is acknowledged was created,    *)
(* and an echo is not taken for the user's input.                          *)
(***************************************************************************)
EXTENDS WhatsAppOutbox, FiniteSetTheorems, TLAPS

\* The message of the call in flight is of the row in flight, and there is room for it
\* while it is not created.
Call ==
  /\ flight = 0 => created = 0
  /\ created # 0 => sent[created] = flight
  /\ flight # 0 /\ created = 0 => Len(sent) < MaxSends

Types == TypeOK /\ Call

-----------------------------------------------------------------------------
LEMMA InitTypes == Init => Types
<1> SUFFICES ASSUME Init PROVE Types
  OBVIOUS
<1> USE OutboxAssumption
<1>1. /\ flight \in 0..Rows /\ crashes \in 0..MaxCrashes
      /\ sent \in Seq(Row) /\ Len(sent) = 0 /\ created \in 0..Len(sent)
      /\ remote \in [Row -> 0..Len(sent)] /\ recent \in [Body -> 0..MaxSends]
  BY DEF Init
<1>2. Len(sent) <= MaxSends
  BY <1>1
<1>3. QED
  BY <1>1, <1>2 DEF Init, Types, TypeOK, Call, Status

\* A message is added to those WhatsApp created.
LEMMA Appended ==
  ASSUME NEW s \in Seq(Row), NEW f \in Row
  PROVE  /\ Append(s, f) \in Seq(Row) /\ Len(Append(s, f)) = Len(s) + 1 /\ Len(s) \in Nat
         /\ Append(s, f)[Len(s) + 1] = f
         /\ \A i \in 1..Len(s) : Append(s, f)[i] = s[i]
OBVIOUS

\* The steps that touch neither the call nor WhatsApp's messages: a status, a row's
\* delay and a remembered text change.
LEMMA RowTypes ==
  ASSUME Types, UNCHANGED <<outbound, flight, ready, whatsapp, inputs, crashes, env>>,
         status' \in [Row -> Status], remote' = remote, due' \in [Row -> BOOLEAN],
         recent' \in [Body -> 0..MaxSends]
  PROVE  Types'
BY DEF Types, TypeOK, Call, whatsapp

\* The status of a row is set.
LEMMA SetTypes ==
  ASSUME TypeOK
  PROVE  /\ \A r \in Row, s \in Status : [status EXCEPT ![r] = s] \in [Row -> Status]
         /\ \A r \in Row, d \in BOOLEAN : [due EXCEPT ![r] = d] \in [Row -> BOOLEAN]
BY DEF TypeOK

LEMMA UserTypes ==
  ASSUME Types, NEW r \in Row, Enqueue(r) \/ Elapse(r) \/ RetryOutbox(r) \/ DiscardOutbox(r)
  PROVE  Types'
<1>1. TypeOK
  BY DEF Types
<1>2. /\ status' \in [Row -> Status] /\ remote' = remote /\ due' \in [Row -> BOOLEAN]
      /\ UNCHANGED <<outbound, flight, recent, ready, whatsapp, inputs, crashes, env>>
  <2>1. CASE Enqueue(r)
    BY <1>1, <2>1, SetTypes DEF Enqueue, process, Status
  <2>2. CASE Elapse(r)
    BY <1>1, <2>2, SetTypes DEF Elapse, process, TypeOK
  <2>3. CASE RetryOutbox(r)
    BY <1>1, <2>3, SetTypes DEF RetryOutbox, process, Status
  <2>4. CASE DiscardOutbox(r)
    BY <1>1, <2>4, SetTypes DEF DiscardOutbox, process, Status, TypeOK
  <2>5. QED
    BY <2>1, <2>2, <2>3, <2>4
<1>3. recent' \in [Body -> 0..MaxSends]
  BY <1>1, <1>2 DEF TypeOK
<1>4. QED
  BY <1>2, <1>3, RowTypes

LEMMA CallTypes ==
  ASSUME Types, Send \/ CreateMessage \/ SendReturns \/ SendThrows
  PROVE  Types'
<1> USE OutboxAssumption
<1>0. TypeOK /\ Call /\ sent \in Seq(Row) /\ Len(sent) \in Nat
  BY DEF Types, TypeOK
<1>1. ASSUME NEW r \in Row, BeginSend(r) PROVE Types'
  <2>1. recent' \in [Body -> 0..MaxSends]
    <3>1. CASE Media
      BY <1>0, <1>1, <3>1 DEF BeginSend, TypeOK
    <3>2. CASE ~Media
      <4>1. recent' = [recent EXCEPT ![BodyOf[r]] = IF @ < MaxSends THEN @ + 1 ELSE @]
        BY <1>1, <3>2 DEF BeginSend, sendToSelf
      <4>2. BodyOf[r] \in Body /\ recent[BodyOf[r]] \in 0..MaxSends /\ recent \in [Body -> 0..MaxSends]
        BY <1>0 DEF TypeOK, Body
      <4>3. (IF recent[BodyOf[r]] < MaxSends THEN recent[BodyOf[r]] + 1 ELSE recent[BodyOf[r]]) \in 0..MaxSends
        BY <4>2
      <4>4. QED
        BY <4>1, <4>2, <4>3
    <3>3. QED
      BY <3>1, <3>2
  <2>2. status' \in [Row -> Status] /\ flight' \in 0..Rows
    BY <1>0, <1>1, SetTypes DEF BeginSend, Status, Row
  <2>3. /\ created = 0 /\ Len(sent) < MaxSends
        /\ UNCHANGED <<remote, due, outbound, ready, sent, created, echoes, acks, inputs, crashes, env>>
    BY <1>0, <1>1 DEF BeginSend, whatsapp, Call
  <2>4. QED
    BY <1>0, <2>1, <2>2, <2>3 DEF Types, TypeOK, Call
<1>2. ASSUME CreateMessage PROVE Types'
  <2>1. /\ flight \in Row /\ created = 0 /\ Len(sent) < MaxSends
        /\ sent' = Append(sent, flight) /\ created' = Len(sent) + 1
        /\ echoes' = echoes \cup {Len(sent) + 1} /\ acks' = acks \cup {Len(sent) + 1}
        /\ UNCHANGED <<status, remote, due, outbound, flight, recent, ready, inputs, crashes, env>>
    BY <1>0, <1>2 DEF CreateMessage, db, process, TypeOK, Call, Row
  <2>2. /\ sent' \in Seq(Row) /\ Len(sent') = Len(sent) + 1 /\ sent'[created'] = flight
    BY <1>0, <2>1, Appended
  <2>3. remote' \in [Row -> 0..Len(sent')]
    BY <1>0, <2>1, <2>2 DEF TypeOK
  <2>4. /\ outbound' \subseteq 1..Len(sent') /\ inputs' \subseteq 1..Len(sent')
        /\ echoes' \subseteq 1..Len(sent') /\ acks' \subseteq 1..Len(sent')
        /\ created' \in 0..Len(sent') /\ Len(sent') <= MaxSends
    BY <1>0, <2>1, <2>2 DEF TypeOK
  <2>5. TypeOK'
    BY <1>0, <2>1, <2>2, <2>3, <2>4 DEF TypeOK
  <2>6. created' # 0 /\ flight' # 0
    BY <1>0, <2>1 DEF Row
  <2>7. QED
    BY <2>1, <2>2, <2>5, <2>6 DEF Types, Call
<1>3. ASSUME SendReturns PROVE Types'
  <2>1. flight \in Row /\ created \in 1..Len(sent)
    BY <1>0, <1>3 DEF SendReturns, TypeOK, Row
  <2>2. PICK id \in {created} \cup (IF "noid" \in env THEN {IF Media THEN remote[flight] ELSE 0} ELSE {}) :
          /\ outbound' = outbound \cup ({id} \ {0})
          /\ IF status[flight] # "sending" THEN UNCHANGED <<status, remote>>
             ELSE IF Taken(flight, id) THEN SendFailed(flight)
             ELSE /\ status' = [status EXCEPT ![flight] = "sent_unconfirmed"]
                  /\ remote' = [remote EXCEPT ![flight] = id]
    BY <1>3 DEF SendReturns
  <2>3. id \in 0..Len(sent)
    BY <1>0, <2>1, <2>2 DEF TypeOK
  <2>4. status' \in [Row -> Status] /\ remote' \in [Row -> 0..Len(sent)]
    <3>1. CASE status' = status
      BY <1>0, <2>1, <2>2, <2>3, <3>1 DEF TypeOK, SendFailed
    <3>2. CASE status' # status
      <4>1. \/ SendFailed(flight)
            \/ /\ status' = [status EXCEPT ![flight] = "sent_unconfirmed"]
               /\ remote' = [remote EXCEPT ![flight] = id]
        BY <2>2, <3>2
      <4>2. /\ [status EXCEPT ![flight] = "failed"] \in [Row -> Status]
            /\ [status EXCEPT ![flight] = "sent_unconfirmed"] \in [Row -> Status]
            /\ [remote EXCEPT ![flight] = id] \in [Row -> 0..Len(sent)]
            /\ remote \in [Row -> 0..Len(sent)]
        BY <1>0, <2>1, <2>3 DEF TypeOK, Status
      <4>3. QED
        BY <4>1, <4>2 DEF SendFailed
    <3>3. QED
      BY <3>1, <3>2
  <2>5. outbound' \subseteq 1..Len(sent) /\ due' \in [Row -> BOOLEAN]
    BY <1>0, <1>3, <2>1, <2>2, <2>3 DEF SendReturns, TypeOK
  <2>6. /\ flight' = 0 /\ created' = 0
        /\ UNCHANGED <<recent, ready, sent, echoes, acks, inputs, crashes, env>>
    BY <1>3 DEF SendReturns
  <2>7. TypeOK'
    <3>1. /\ sent' \in Seq(Row) /\ Len(sent') <= MaxSends /\ Len(sent') = Len(sent)
          /\ flight' \in 0..Rows /\ created' \in 0..Len(sent')
      BY <1>0, <2>6 DEF TypeOK
    <3>2. /\ recent' \in [Body -> 0..MaxSends] /\ ready' \in BOOLEAN /\ env' \in Faults
          /\ crashes' \in 0..MaxCrashes
          /\ echoes' \subseteq 1..Len(sent') /\ acks' \subseteq 1..Len(sent')
          /\ inputs' \subseteq 1..Len(sent')
      BY <1>0, <2>6 DEF TypeOK
    <3>3. QED
      BY <2>4, <2>5, <3>1, <3>2 DEF TypeOK
  <2>8. QED
    BY <2>6, <2>7 DEF Types, Call
<1>4. ASSUME SendThrows PROVE Types'
  <2>1. flight \in Row /\ remote' = remote
    BY <1>0, <1>4 DEF SendThrows, SendFailed, TypeOK, Row
  <2>2. status' \in [Row -> Status] /\ due' \in [Row -> BOOLEAN]
    <3>1. status' = status \/ status' = [status EXCEPT ![flight] = "failed"]
      BY <1>4 DEF SendThrows, SendFailed
    <3>2. status' \in [Row -> Status]
      BY <1>0, <2>1, <3>1 DEF TypeOK, Status
    <3>3. due' = [due EXCEPT ![flight] = FALSE]
      BY <1>4 DEF SendThrows
    <3>4. QED
      BY <1>0, <2>1, <3>2, <3>3 DEF TypeOK
  <2>3. /\ flight' = 0 /\ created' = 0 /\ ready' \in BOOLEAN
        /\ UNCHANGED <<outbound, recent, sent, echoes, acks, inputs, crashes, env>>
    BY <1>0, <1>4 DEF SendThrows, TypeOK
  <2>4. QED
    BY <1>0, <2>1, <2>2, <2>3 DEF Types, TypeOK, Call
<1>5. QED
  BY <1>1, <1>2, <1>3, <1>4 DEF Send

\* The row that an echo is matched to.
LEMMA MatchedTypes ==
  ASSUME TypeOK, NEW r \in Row, NEW id \in 1..Len(sent), Matched(r, id)
  PROVE  /\ status' \in [Row -> Status] /\ remote' \in [Row -> 0..Len(sent)]
         /\ outbound' \subseteq 1..Len(sent)
<1>1. CASE Taken(r, id)
  BY <1>1 DEF Matched, TypeOK
<1>2. CASE ~Taken(r, id)
  <2>1. /\ status' = [status EXCEPT ![r] = "acknowledged"] /\ outbound' = outbound \cup {id}
        /\ remote' = [remote EXCEPT ![r] = id]
    BY <1>2 DEF Matched
  <2>2. QED
    BY <2>1, SetTypes DEF TypeOK, Status
<1>3. QED
  BY <1>1, <1>2

LEMMA EchoTypes ==
  ASSUME Types, NEW id \in Id, TextEcho(id) \/ MediaEcho(id)
  PROVE  Types'
<1>0. TypeOK /\ Call /\ sent \in Seq(Row) /\ Len(sent) \in Nat
  BY DEF Types, TypeOK
<1>1. /\ id \in 1..Len(sent) /\ echoes' = echoes \ {id}
      /\ UNCHANGED <<due, flight, ready, sent, created, acks, crashes, env>>
  BY <1>0 DEF TextEcho, MediaEcho, EchoComes, TypeOK
<1> DEFINE Leaves == /\ status' \in [Row -> Status] /\ remote' \in [Row -> 0..Len(sent)]
                     /\ outbound' \subseteq 1..Len(sent) /\ inputs' \subseteq 1..Len(sent)
                     /\ recent' \in [Body -> 0..MaxSends]
<1>2. SUFFICES Leaves
  BY <1>0, <1>1 DEF Types, TypeOK, Call
<1>3. ASSUME TextEcho(id) PROVE Leaves
  <2>1. inputs' \subseteq 1..Len(sent)
    BY <1>0, <1>1, <1>3 DEF TextEcho, TypeOK
  <2> DEFINE b == BodyOf[sent[id]]
  <2>2. CASE ~Remembered(b)
    BY <1>0, <1>3, <2>1, <2>2 DEF TextEcho, TypeOK
  <2>3. CASE Remembered(b)
    <3>1. recent' \in [Body -> 0..MaxSends]
      <4>1. recent' = [recent EXCEPT ![b] = @ - 1] /\ recent[b] # 0 /\ b \in Body
        BY <1>0, <1>1, <1>3, <2>3 DEF TextEcho, Remembered, Body
      <4>2. QED
        BY <1>0, <4>1, OutboxAssumption DEF TypeOK
    <3>2. \/ outbound' = outbound \cup {id} /\ UNCHANGED <<status, remote>>
          \/ \E r \in Row : Matched(r, id)
      BY <1>3, <2>3 DEF TextEcho, Awaiting
    <3>3. QED
      BY <1>0, <1>1, <2>1, <3>1, <3>2, MatchedTypes DEF TypeOK
  <2>4. QED
    BY <2>2, <2>3
<1>4. ASSUME MediaEcho(id) PROVE Leaves
  <2>1. recent' = recent
    BY <1>4 DEF MediaEcho
  <2>2. \/ (\E r \in Row : Matched(r, id)) /\ inputs' = inputs
        \/ inputs' \subseteq inputs \cup {id} /\ UNCHANGED <<status, remote, outbound>>
    BY <1>4 DEF MediaEcho, Awaiting
  <2>3. QED
    BY <1>0, <1>1, <2>1, <2>2, MatchedTypes DEF TypeOK
<1>5. QED
  BY <1>3, <1>4

LEMMA OtherTypes ==
  ASSUME Types,
         \/ \E id \in Id : Acknowledge(id) \/ Refuse(id)
         \/ \E b \in Body : Forget(b)
         \/ Reconnect \/ Restart \/ UNCHANGED vars
  PROVE  Types'
<1> USE OutboxAssumption
<1>0. TypeOK /\ Call
  BY DEF Types
<1>1. ASSUME NEW id \in Id, Acknowledge(id) PROVE Types'
  <2>1. /\ status' \in [Row -> Status] /\ acks' \subseteq acks
        /\ UNCHANGED <<remote, due, outbound, flight, recent, ready, sent, created, echoes, inputs, crashes, env>>
    BY <1>0, <1>1 DEF Acknowledge, process, TypeOK, Status
  <2>2. QED
    BY <1>0, <2>1 DEF Types, TypeOK, Call
<1>2. ASSUME NEW id \in Id, Refuse(id) PROVE Types'
  <2>1. /\ status' \in [Row -> Status] /\ acks' \subseteq acks /\ due' \in [Row -> BOOLEAN]
        /\ UNCHANGED <<remote, outbound, flight, recent, ready, sent, created, echoes, inputs, crashes, env>>
    BY <1>0, <1>2 DEF Refuse, process, TypeOK, Status
  <2>2. QED
    BY <1>0, <2>1 DEF Types, TypeOK, Call
<1>3. ASSUME NEW b \in Body, Forget(b) PROVE Types'
  <2>1. recent' \in [Body -> 0..MaxSends]
    BY <1>0, <1>3 DEF Forget, TypeOK
  <2>2. UNCHANGED <<status, remote, due, outbound, flight, ready, whatsapp, inputs, crashes, env>>
    BY <1>3 DEF Forget, db
  <2>3. QED
    BY <1>0, <2>1, <2>2, RowTypes DEF TypeOK
<1>4. CASE Reconnect
  BY <1>0, <1>4 DEF Reconnect, db, whatsapp, Types, TypeOK, Call
<1>5. CASE Restart
  <2>1. /\ status' = RecoveredStatus /\ due' \in [Row -> BOOLEAN] /\ flight' = 0 /\ created' = 0
        /\ recent' \in [Body -> 0..MaxSends] /\ ready' = FALSE /\ echoes' = {}
        /\ crashes' \in 0..MaxCrashes /\ UNCHANGED <<remote, outbound, sent, acks, inputs, env>>
    BY <1>0, <1>5 DEF Restart, TypeOK
  <2>2. status' \in [Row -> Status]
    BY <1>0, <2>1 DEF RecoveredStatus, TypeOK, Status
  <2>3. remote' \in [Row -> 0..Len(sent')] /\ created' \in 0..Len(sent') /\ flight' \in 0..Rows
    BY <1>0, <2>1 DEF TypeOK
  <2>4. TypeOK'
    BY <1>0, <2>1, <2>2, <2>3 DEF TypeOK
  <2>5. QED
    BY <2>1, <2>4 DEF Types, Call
<1>6. CASE UNCHANGED vars
  BY <1>0, <1>6 DEF vars, db, process, whatsapp, Types, TypeOK, Call
<1>7. QED
  BY <1>1, <1>2, <1>3, <1>4, <1>5, <1>6

LEMMA TypesStep == Types /\ [Next]_vars => Types'
BY UserTypes, CallTypes, EchoTypes, OtherTypes DEF Next

\* Every variable keeps its type, and a call has room for its message.
THEOREM TypesCorrect == Spec => []Types
BY InitTypes, TypesStep, PTL DEF Spec

-----------------------------------------------------------------------------
\* What is acknowledged was created

\* Two rows that are kept never have one message: the UPDATE would throw.
Distinct ==
  \A r, o \in Row :
    (/\ r # o /\ status[r] # "discarded" /\ status[o] # "discarded"
     /\ remote[r] # 0) => remote[r] # remote[o]

\* A row is acknowledged by a message, of its text if it is a text.
Held == \A r \in Row : status[r] = "acknowledged" => remote[r] # 0
SameText == ~Media => \A r \in Row : remote[r] # 0 => BodyOf[sent[remote[r]]] = BodyOf[r]

Rowed == Distinct /\ Held /\ SameText

\* A file whose send was settled, or that has a message, was created.
Created(r) == \E i \in DOMAIN sent : sent[i] = r
Settled(r) == \/ status[r] \in {"sending", "sent_unconfirmed", "failed", "acknowledged"}
              \/ remote[r] # 0
Undisturbed == Media /\ env \cap {"throw", "crash"} = {}
Tried == Undisturbed => \A r \in Row : r # flight /\ Settled(r) => Created(r)

AInv == Rowed /\ Tried

\* A step that gives no row another message: discarded rows stay so, and a row is
\* acknowledged only if it has one.
Keeps == /\ remote' = remote /\ env' = env
         /\ \A r \in Row : status[r] = "discarded" => status'[r] = "discarded"
         /\ \A r \in Row : status'[r] = "acknowledged" => status[r] = "acknowledged" \/ remote[r] # 0
         /\ \A i \in DOMAIN sent : i \in DOMAIN sent' /\ sent'[i] = sent[i]

LEMMA KeepsRowed ==
  ASSUME Types, Rowed, Keeps
  PROVE  Rowed'
<1>0. \A r \in Row : remote[r] \in Nat /\ (remote[r] # 0 => remote[r] \in DOMAIN sent)
  BY DEF Types, TypeOK
<1>1. Distinct'
  BY DEF Rowed, Distinct, Keeps
<1>2. Held'
  BY DEF Rowed, Held, Keeps
<1>3. SameText'
  BY <1>0 DEF Rowed, SameText, Keeps, Media
<1>4. QED
  BY <1>1, <1>2, <1>3 DEF Rowed

\* A step that gives a row a message which no other has.
Gives(r, id, s) == /\ status' = [status EXCEPT ![r] = s] /\ remote' = [remote EXCEPT ![r] = id]
                   /\ sent' = sent /\ env' = env
                   /\ ~Taken(r, id) /\ status[r] # "discarded"
                   /\ s = "acknowledged" => id # 0
                   /\ ~Media /\ id # 0 => BodyOf[sent[id]] = BodyOf[r]

LEMMA GivesRowed ==
  ASSUME Types, Rowed, NEW r \in Row, NEW id, NEW s, Gives(r, id, s)
  PROVE  Rowed'
<1>0. /\ status \in [Row -> Status] /\ remote \in [Row -> 0..Len(sent)]
      /\ status' = [status EXCEPT ![r] = s] /\ remote' = [remote EXCEPT ![r] = id]
  BY DEF Types, TypeOK, Gives
<1>1. Distinct'
  <2>1. SUFFICES ASSUME NEW a \in Row, NEW b \in Row, a # b, status'[a] # "discarded",
                        status'[b] # "discarded", remote'[a] # 0
                 PROVE  remote'[a] # remote'[b]
    BY DEF Distinct
  <2>2. \A o \in Row \ {r} : status[o] # "discarded" /\ id # 0 => remote[o] # id
    BY DEF Gives, Taken
  <2>3. CASE a = r
    BY <1>0, <2>1, <2>2, <2>3
  <2>4. CASE b = r
    BY <1>0, <2>1, <2>2, <2>4
  <2>5. CASE a # r /\ b # r
    BY <1>0, <2>1, <2>5 DEF Rowed, Distinct
  <2>6. QED
    BY <2>3, <2>4, <2>5
<1>2. Held'
  BY <1>0 DEF Rowed, Held, Gives
<1>3. SameText'
  BY <1>0 DEF Rowed, SameText, Gives, Media
<1>4. QED
  BY <1>1, <1>2, <1>3 DEF Rowed

\* A row that counts as settled did before, or has its message.
SettlesCreated ==
  \A r \in Row : r # flight' /\ Settled(r)' =>
    (\E i \in DOMAIN sent' : sent'[i] = r) \/ (r # flight /\ Settled(r))

LEMMA SettlesTried ==
  ASSUME Tried, env' = env,
         \A i \in DOMAIN sent : i \in DOMAIN sent' /\ sent'[i] = sent[i],
         Undisturbed => SettlesCreated
  PROVE  Tried'
BY DEF Tried, SettlesCreated, Created, Undisturbed, Media

LEMMA UserAInv ==
  ASSUME Types, AInv, NEW r \in Row, Enqueue(r) \/ Elapse(r) \/ RetryOutbox(r) \/ DiscardOutbox(r)
  PROVE  AInv'
<1>0. status \in [Row -> Status] /\ remote' = remote /\ sent' = sent /\ flight' = flight /\ env' = env
  BY DEF Types, TypeOK, Enqueue, Elapse, RetryOutbox, DiscardOutbox, whatsapp, process
<1>1. \/ status' = status
      \/ status' = [status EXCEPT ![r] = "pending"] /\ status[r] # "discarded"
      \/ status' = [status EXCEPT ![r] = "discarded"]
  BY DEF Enqueue, Elapse, RetryOutbox, DiscardOutbox
<1>2. Keeps
  BY <1>0, <1>1 DEF Keeps
<1>3. SettlesCreated
  BY <1>0, <1>1 DEF SettlesCreated, Settled
<1>4. QED
  BY <1>0, <1>2, <1>3, KeepsRowed, SettlesTried DEF AInv

LEMMA CallAInv ==
  ASSUME Types, AInv, Send \/ CreateMessage \/ SendReturns \/ SendThrows
  PROVE  AInv'
<1>0. /\ status \in [Row -> Status] /\ remote \in [Row -> 0..Len(sent)] /\ sent \in Seq(Row)
      /\ flight \in 0..Rows /\ Len(sent) \in Nat
  BY DEF Types, TypeOK
<1>1. ASSUME NEW r \in Row, BeginSend(r) PROVE AInv'
  <2>1. /\ status' = [status EXCEPT ![r] = "sending"] /\ flight' = r /\ flight = 0
        /\ status[r] # "discarded" /\ UNCHANGED <<remote, sent, env>>
    BY <1>1 DEF BeginSend, Sendable, whatsapp
  <2>2. Keeps
    BY <1>0, <2>1 DEF Keeps
  <2>3. SettlesCreated
    BY <1>0, <2>1 DEF SettlesCreated, Settled, Row
  <2>4. QED
    BY <2>1, <2>2, <2>3, KeepsRowed, SettlesTried DEF AInv
<1>2. ASSUME CreateMessage PROVE AInv'
  <2>1. flight \in Row /\ sent' = Append(sent, flight) /\ UNCHANGED <<status, remote, flight, env>>
    BY <1>0, <1>2 DEF CreateMessage, db, process, Row
  <2>2. \A i \in DOMAIN sent : i \in DOMAIN sent' /\ sent'[i] = sent[i]
    BY <1>0, <2>1
  <2>3. Keeps
    BY <2>1, <2>2 DEF Keeps
  <2>4. SettlesCreated
    BY <2>1 DEF SettlesCreated, Settled
  <2>5. QED
    BY <2>1, <2>2, <2>3, <2>4, KeepsRowed, SettlesTried DEF AInv
<1>3. ASSUME SendReturns PROVE AInv'
  <2>1. flight \in Row /\ created \in 1..Len(sent) /\ sent[created] = flight
    BY <1>0, <1>3 DEF SendReturns, Types, TypeOK, Call, Row
  <2>2. sent' = sent /\ env' = env /\ flight' = 0
    BY <1>3 DEF SendReturns
  <2>3. PICK id \in {created} \cup (IF "noid" \in env THEN {IF Media THEN remote[flight] ELSE 0} ELSE {}) :
          IF status[flight] # "sending" THEN UNCHANGED <<status, remote>>
          ELSE IF Taken(flight, id) THEN SendFailed(flight)
          ELSE /\ status' = [status EXCEPT ![flight] = "sent_unconfirmed"]
               /\ remote' = [remote EXCEPT ![flight] = id]
    BY <1>3 DEF SendReturns
  <2>4. ~Media /\ id # 0 => BodyOf[sent[id]] = BodyOf[flight]
    BY <2>1, <2>3
  <2>5. Rowed'
    <3>1. CASE status[flight] # "sending" \/ Taken(flight, id)
      <4>1. /\ status' \in {status, [status EXCEPT ![flight] = "failed"]} /\ remote' = remote
            /\ status' = status \/ status[flight] = "sending"
        BY <2>3, <3>1 DEF SendFailed
      <4>2. Keeps
        BY <1>0, <2>1, <2>2, <4>1 DEF Keeps
      <4>3. QED
        BY <4>2, KeepsRowed DEF AInv
    <3>2. CASE status[flight] = "sending" /\ ~Taken(flight, id)
      <4>1. Gives(flight, id, "sent_unconfirmed")
        BY <2>2, <2>3, <2>4, <3>2 DEF Gives
      <4>2. QED
        BY <2>1, <4>1, GivesRowed DEF AInv
    <3>3. QED
      BY <3>1, <3>2
  <2>6. SettlesCreated
    <3>1. \A r \in Row \ {flight} : status'[r] = status[r] /\ remote'[r] = remote[r]
      <4>1. /\ status' = status \/ \E s : status' = [status EXCEPT ![flight] = s]
            /\ remote' = remote \/ remote' = [remote EXCEPT ![flight] = id]
        BY <2>3 DEF SendFailed
      <4>2. QED
        BY <1>0, <4>1
    <3>2. QED
      BY <2>1, <2>2, <3>1 DEF SettlesCreated, Settled
  <2>7. QED
    BY <2>2, <2>5, <2>6, SettlesTried DEF AInv
<1>4. ASSUME SendThrows PROVE AInv'
  <2>1. /\ status' = status \/ (status' = [status EXCEPT ![flight] = "failed"] /\ status[flight] # "discarded")
        /\ UNCHANGED <<remote, sent, env>> /\ "throw" \in env
    BY <1>4 DEF SendThrows, SendFailed
  <2>2. Keeps
    BY <1>0, <2>1 DEF Keeps
  <2>3. ~Undisturbed
    BY <2>1 DEF Undisturbed
  <2>4. QED
    BY <2>1, <2>2, <2>3, KeepsRowed, SettlesTried DEF AInv
<1>5. QED
  BY <1>1, <1>2, <1>3, <1>4 DEF Send

LEMMA EchoAInv ==
  ASSUME Types, AInv, NEW id \in Id, TextEcho(id) \/ MediaEcho(id)
  PROVE  AInv'
<1>0. /\ status \in [Row -> Status] /\ remote \in [Row -> 0..Len(sent)]
      /\ UNCHANGED <<sent, flight, env>> /\ id # 0
  BY DEF Types, TypeOK, TextEcho, MediaEcho, EchoComes, Id
<1>1. \/ UNCHANGED <<status, remote>>
      \/ \E r \in Row : Matched(r, id) /\ r \in Awaiting /\ (~Media => BodyOf[sent[id]] = BodyOf[r])
  <2>1. CASE TextEcho(id)
    BY <2>1 DEF TextEcho, Awaiting
  <2>2. CASE MediaEcho(id)
    BY <2>2 DEF MediaEcho, Awaiting
  <2>3. QED
    BY <2>1, <2>2
<1>2. CASE UNCHANGED <<status, remote>>
  <2>1. Keeps /\ SettlesCreated
    BY <1>0, <1>2 DEF Keeps, SettlesCreated, Settled
  <2>2. QED
    BY <1>0, <2>1, KeepsRowed, SettlesTried DEF AInv
<1>3. ASSUME NEW r \in Row, Matched(r, id), r \in Awaiting, ~Media => BodyOf[sent[id]] = BodyOf[r],
             ~Taken(r, id)
      PROVE  AInv'
  <2>1. Gives(r, id, "acknowledged")
    BY <1>0, <1>3 DEF Matched, Awaiting, Gives
  <2>2. SettlesCreated
    BY <1>0, <1>3, <2>1 DEF SettlesCreated, Settled, Gives, Awaiting
  <2>3. QED
    BY <1>0, <2>1, <2>2, GivesRowed, SettlesTried DEF AInv
<1>4. QED
  BY <1>1, <1>2, <1>3 DEF Matched

LEMMA OtherAInv ==
  ASSUME Types, AInv,
         \/ \E id \in Id : Acknowledge(id) \/ Refuse(id)
         \/ \E b \in Body : Forget(b)
         \/ Reconnect \/ Restart \/ UNCHANGED vars
  PROVE  AInv'
<1>0. status \in [Row -> Status] /\ remote \in [Row -> 0..Len(sent)]
  BY DEF Types, TypeOK
<1>1. ASSUME NEW id \in Id, Acknowledge(id) \/ Refuse(id) PROVE AInv'
  <2>1. /\ UNCHANGED <<remote, sent, flight, env>> /\ id # 0
        /\ \A r \in Row : status'[r] = status[r] \/ (remote[r] = id /\ status[r] # "discarded")
    <3>1. id # 0
      BY OutboxAssumption DEF Id
    <3>2. UNCHANGED <<remote, sent, flight, env>>
      BY <1>1 DEF Acknowledge, Refuse, process
    <3>3. \E s : status' = [r \in Row |-> IF r \in Holder(id) THEN s ELSE status[r]]
      BY <1>1 DEF Acknowledge, Refuse
    <3>4. QED
      BY <3>1, <3>2, <3>3 DEF Holder
  <2>2. Keeps
    BY <2>1 DEF Keeps
  <2>3. SettlesCreated
    BY <2>1 DEF SettlesCreated, Settled
  <2>4. QED
    BY <2>1, <2>2, <2>3, KeepsRowed, SettlesTried DEF AInv
<1>2. CASE Restart
  <2>1. UNCHANGED <<remote, sent, env>> /\ "crash" \in env /\ status' = RecoveredStatus
    BY <1>2 DEF Restart
  <2>2. Keeps
    BY <1>0, <2>1 DEF Keeps, RecoveredStatus
  <2>3. ~Undisturbed
    BY <2>1 DEF Undisturbed
  <2>4. QED
    BY <2>1, <2>2, <2>3, KeepsRowed, SettlesTried DEF AInv
<1>3. CASE (\E b \in Body : Forget(b)) \/ Reconnect \/ UNCHANGED vars
  <2>1. UNCHANGED <<status, remote, sent, flight, env>>
    BY <1>3 DEF Forget, Reconnect, vars, db, process, whatsapp
  <2>2. Keeps /\ SettlesCreated
    BY <2>1 DEF Keeps, SettlesCreated, Settled
  <2>3. QED
    BY <2>1, <2>2, KeepsRowed, SettlesTried DEF AInv
<1>4. QED
  BY <1>1, <1>2, <1>3

\* One message cannot acknowledge two rows.
LEMMA AInvAtLeastOnce ==
  ASSUME Types, AInv
  PROVE  AtLeastOnce
<1>0. /\ status \in [Row -> Status] /\ remote \in [Row -> 0..Len(sent)] /\ sent \in Seq(Row)
      /\ Len(sent) \in Nat
  BY DEF Types, TypeOK
<1>1. SUFFICES ASSUME ~(Media /\ env \cap {"throw", "crash"} # {}), NEW r \in Row
               PROVE  Cardinality({o \in Row \ {flight} : Alike(o, r) /\ status[o] = "acknowledged"})
                        <= Cardinality({i \in DOMAIN sent : Alike(sent[i], r)})
  BY DEF AtLeastOnce
<1> DEFINE A == {o \in Row \ {flight} : Alike(o, r) /\ status[o] = "acknowledged"}
           B == {i \in DOMAIN sent : Alike(sent[i], r)}
<1>2. IsFiniteSet(B)
  <2>1. B \subseteq 1..Len(sent)
    BY <1>0
  <2>2. IsFiniteSet(1..Len(sent))
    BY <1>0, FS_Interval
  <2> HIDE DEF B
  <2>3. QED
    BY <2>1, <2>2, FS_Subset
<1>3. \E f : f \in Injection(A, B)
  <2>1. CASE ~Media
    <3> DEFINE f == [o \in A |-> remote[o]]
    <3>1. \A o \in A : remote[o] \in B
      BY <1>0, <2>1 DEF AInv, Rowed, Held, SameText, Alike
    <3>2. \A a, b \in A : remote[a] = remote[b] => a = b
      BY DEF AInv, Rowed, Held, Distinct
    <3>3. f \in Injection(A, B)
      BY <3>1, <3>2 DEF Injection, IsInjective
    <3>4. QED
      BY <3>3
  <2>2. CASE Media
    <3>1. A \subseteq {r}
      BY <2>2 DEF Alike
    <3>2. CASE A = {}
      <4>1. [o \in A |-> 0] \in Injection(A, B)
        BY <3>2 DEF Injection, IsInjective
      <4>2. QED
        BY <4>1
    <3>3. CASE A = {r}
      <4>1. r # flight /\ status[r] = "acknowledged"
        BY <3>3
      <4>2. PICK i \in DOMAIN sent : sent[i] = r
        BY <1>1, <2>2, <4>1 DEF AInv, Tried, Undisturbed, Settled, Created
      <4>3. i \in B
        BY <2>2, <4>2 DEF Alike
      <4>4. [o \in A |-> i] \in Injection(A, B)
        BY <3>3, <4>3 DEF Injection, IsInjective
      <4>5. QED
        BY <4>4
    <3>4. QED
      BY <3>1, <3>2, <3>3
  <2>3. QED
    BY <2>1, <2>2
<1>4. QED
  <2>1. PICK f : f \in Injection(A, B)
    BY <1>3
  <2> HIDE DEF A, B
  <2>2. Cardinality(A) <= Cardinality(B)
    BY <1>2, <2>1, FS_Injection
  <2>3. QED
    BY <2>2 DEF A, B

\* "Delivery is at least once": of the rows of a text no more are acknowledged than messages
\* of it were created, whatever is resent, retried, refused or lost.  Of the rows of a file
\* too, where no call fails and the application does not crash.
THEOREM AtLeastOnceCorrect == Spec => []AtLeastOnce
<1>1. Init => AInv
  <2>1. ASSUME Init PROVE \A r \in Row : status[r] = "none" /\ remote[r] = 0
    BY <2>1 DEF Init
  <2>2. QED
    BY <2>1 DEF AInv, Rowed, Distinct, Held, SameText, Tried, Settled
<1>2. Types /\ AInv /\ [Next]_vars => AInv'
  BY UserAInv, CallAInv, EchoAInv, OtherAInv DEF Next
<1>3. QED
  BY <1>1, <1>2, TypesCorrect, AInvAtLeastOnce, PTL DEF Spec

-----------------------------------------------------------------------------
\* An echo is not taken for input

\* What a step adds to a finite set and takes from it.
LEMMA Counting ==
  ASSUME NEW S, NEW T, IsFiniteSet(S), IsFiniteSet(T)
  PROVE  /\ Cardinality(S) \in Nat /\ Cardinality(T) \in Nat
         /\ T \subseteq S => Cardinality(T) <= Cardinality(S)
         /\ \A x : x \notin S /\ S \subseteq T /\ x \in T => Cardinality(S) + 1 <= Cardinality(T)
         /\ \A x : T \subseteq S \cup {x} => Cardinality(T) <= Cardinality(S) + 1
<1>1. Cardinality(S) \in Nat /\ Cardinality(T) \in Nat
  BY FS_CardinalityType
<1>2. ASSUME T \subseteq S PROVE Cardinality(T) <= Cardinality(S)
  BY <1>2, FS_Subset
<1>3. ASSUME NEW x, x \notin S, S \subseteq T, x \in T PROVE Cardinality(S) + 1 <= Cardinality(T)
  <2>1. Cardinality(S \cup {x}) = Cardinality(S) + 1
    BY <1>3, FS_AddElement
  <2>2. S \cup {x} \subseteq T
    BY <1>3
  <2>3. Cardinality(S \cup {x}) <= Cardinality(T)
    BY <2>2, FS_Subset
  <2>4. QED
    BY <2>1, <2>3
<1>4. ASSUME NEW x, T \subseteq S \cup {x} PROVE Cardinality(T) <= Cardinality(S) + 1
  <2>1. IsFiniteSet(S \cup {x}) /\ Cardinality(S \cup {x}) <= Cardinality(S) + 1
    BY <1>1, FS_AddElement
  <2>2. Cardinality(T) <= Cardinality(S \cup {x}) /\ Cardinality(S \cup {x}) \in Nat
    BY <1>4, <2>1, FS_Subset, FS_CardinalityType
  <2>3. QED
    BY <1>1, <2>1, <2>2
<1>5. QED
  BY <1>1, <1>2, <1>3, <1>4

\* Of texts: one is remembered for each of its echoes on their way, and for its message
\* that is still to be created.
EchoesOf(b) == {id \in echoes : BodyOf[sent[id]] = b}
Unsent(b) == IF flight # 0 /\ created = 0 /\ BodyOf[flight] = b THEN 1 ELSE 0
TextInv ==
  ~Media /\ "late" \notin env =>
    /\ inputs = {}
    /\ \A b \in Body : Cardinality(EchoesOf(b)) + Unsent(b) <= recent[b]

LEMMA FiniteIds ==
  ASSUME NEW n \in Nat, NEW S \in SUBSET (1..n)
  PROVE  IsFiniteSet(S) /\ Cardinality(S) \in Nat /\ Cardinality(S) <= n
<1>1. IsFiniteSet(1..n)
  BY FS_Interval
<1>2. Cardinality(1..n) = IF 1 > n THEN 0 ELSE n - 1 + 1
  BY FS_Interval
<1>3. IsFiniteSet(S) /\ Cardinality(S) <= Cardinality(1..n)
  BY <1>1, FS_Subset
<1>4. Cardinality(S) \in Nat
  BY <1>3, FS_CardinalityType
<1>5. QED
  BY <1>2, <1>3, <1>4

LEMMA EchoTypesOf ==
  ASSUME Types, NEW b \in Body
  PROVE  /\ Len(sent) \in Nat /\ EchoesOf(b) \subseteq 1..Len(sent)
         /\ recent[b] \in Nat /\ Unsent(b) \in {0, 1}
<1>1. recent[b] \in 0..MaxSends
  BY DEF Types, TypeOK
<1>2. QED
  BY <1>1, OutboxAssumption DEF Types, TypeOK, EchoesOf, Unsent

\* Nothing new is under way.
LEMMA QuietText ==
  ASSUME Types, Types', TextInv,
         env' = env, sent' = sent, recent' = recent, inputs' = inputs, echoes' \subseteq echoes,
         flight' = 0 \/ (flight' = flight /\ created' = created)
  PROVE  TextInv'
<1>1. SUFFICES ASSUME ~Media, "late" \notin env, NEW b \in Body
               PROVE  Cardinality(EchoesOf(b)') + Unsent(b)' <= recent'[b]
  BY DEF TextInv, Media
<1>2. EchoesOf(b)' \subseteq EchoesOf(b) /\ (Unsent(b)' = Unsent(b) \/ Unsent(b)' = 0)
  BY DEF EchoesOf, Unsent
<1>3. /\ Len(sent) \in Nat /\ EchoesOf(b) \subseteq 1..Len(sent)
      /\ recent[b] \in Nat /\ Unsent(b) \in {0, 1}
  BY EchoTypesOf
<1>4. Cardinality(EchoesOf(b)') <= Cardinality(EchoesOf(b))
      /\ Cardinality(EchoesOf(b)') \in Nat /\ Cardinality(EchoesOf(b)) \in Nat
  <2>1. EchoesOf(b)' \subseteq 1..Len(sent)
    BY <1>2, <1>3
  <2>2. IsFiniteSet(EchoesOf(b)) /\ IsFiniteSet(EchoesOf(b)')
    BY <1>3, <2>1, FiniteIds
  <2>3. QED
    BY <1>2, <2>2, Counting
<1>5. Cardinality(EchoesOf(b)) + Unsent(b) <= recent[b]
  BY <1>1 DEF TextInv
<1>6. QED
  BY <1>2, <1>3, <1>4, <1>5

LEMMA BeginText ==
  ASSUME Types, Types', TextInv, NEW r \in Row, BeginSend(r)
  PROVE  TextInv'
<1>0. /\ flight = 0 /\ created = 0 /\ flight' = r /\ Len(sent) < MaxSends
      /\ UNCHANGED <<sent, created, echoes, inputs, env>>
  BY DEF BeginSend, whatsapp, Types, Call
<1>1. SUFFICES ASSUME ~Media, "late" \notin env, NEW b \in Body
               PROVE  Cardinality(EchoesOf(b)') + Unsent(b)' <= recent'[b]
  BY <1>0 DEF TextInv, Media
<1>2. EchoesOf(b)' = EchoesOf(b)
  BY <1>0 DEF EchoesOf
<1>3. /\ Len(sent) \in Nat /\ EchoesOf(b) \subseteq 1..Len(sent) /\ recent \in [Body -> 0..MaxSends]
      /\ Unsent(b) = 0
  BY <1>0, EchoTypesOf DEF Types, TypeOK, Unsent
<1>4. Cardinality(EchoesOf(b)) \in Nat /\ Cardinality(EchoesOf(b)) <= Len(sent)
  BY <1>3, FiniteIds
<1>5. Cardinality(EchoesOf(b)) <= recent[b]
  BY <1>1, <1>3, <1>4 DEF TextInv
<1>6. recent' = [recent EXCEPT ![BodyOf[r]] = IF @ < MaxSends THEN @ + 1 ELSE @]
  BY <1>1 DEF BeginSend, sendToSelf
<1>7. CASE BodyOf[r] = b
  <2>1. Unsent(b)' = 1
    BY <1>0, <1>7 DEF Unsent, Row
  <2>2. recent'[b] = IF recent[b] < MaxSends THEN recent[b] + 1 ELSE recent[b]
    BY <1>1, <1>3, <1>6, <1>7
  <2>3. recent[b] \in Nat /\ recent[b] <= MaxSends
    BY <1>1, <1>3, OutboxAssumption
  <2>4. QED
    BY <1>0, <1>2, <1>3, <1>4, <1>5, <2>1, <2>2, <2>3, OutboxAssumption
<1>8. CASE BodyOf[r] # b
  <2>1. Unsent(b)' = 0 /\ recent'[b] = recent[b]
    BY <1>0, <1>1, <1>3, <1>6, <1>8 DEF Unsent
  <2>2. QED
    BY <1>2, <1>4, <1>5, <2>1
<1>9. QED
  BY <1>7, <1>8

LEMMA CreateText ==
  ASSUME Types, Types', TextInv, CreateMessage
  PROVE  TextInv'
<1>0. /\ flight \in Row /\ created = 0 /\ sent \in Seq(Row) /\ sent' = Append(sent, flight)
      /\ created' = Len(sent) + 1 /\ echoes' = echoes \cup {Len(sent) + 1} /\ echoes \subseteq 1..Len(sent)
      /\ UNCHANGED <<flight, recent, inputs, env>>
  BY DEF CreateMessage, process, Types, TypeOK, Row
<1>1. SUFFICES ASSUME ~Media, "late" \notin env, NEW b \in Body
               PROVE  Cardinality(EchoesOf(b)') + Unsent(b)' <= recent'[b]
  BY <1>0 DEF TextInv, Media
<1>2. /\ Len(sent) \in Nat /\ EchoesOf(b) \subseteq 1..Len(sent)
      /\ recent[b] \in Nat /\ Unsent(b) \in {0, 1}
  BY EchoTypesOf
<1>3. Len(sent') \in Nat /\ EchoesOf(b)' \subseteq 1..Len(sent')
  <2>1. sent' \in Seq(Row) /\ echoes' \subseteq 1..Len(sent')
    BY DEF Types, TypeOK
  <2>2. Len(sent') \in Nat
    BY <2>1
  <2>3. EchoesOf(b)' \subseteq echoes'
    BY DEF EchoesOf
  <2>4. QED
    BY <2>1, <2>2, <2>3
<1>4. /\ IsFiniteSet(EchoesOf(b)) /\ IsFiniteSet(EchoesOf(b)')
      /\ Cardinality(EchoesOf(b)) \in Nat /\ Cardinality(EchoesOf(b)') \in Nat
  BY <1>2, <1>3, FiniteIds
<1>5. Unsent(b)' = 0
  BY <1>0, <1>2 DEF Unsent
<1>6. Cardinality(EchoesOf(b)) + Unsent(b) <= recent[b]
  BY <1>1 DEF TextInv
<1>7. /\ sent'[Len(sent) + 1] = flight /\ \A i \in 1..Len(sent) : sent'[i] = sent[i]
  BY <1>0, Appended
<1>8. CASE BodyOf[flight] = b
  <2>1. EchoesOf(b)' \subseteq EchoesOf(b) \cup {Len(sent) + 1}
    BY <1>0, <1>7 DEF EchoesOf
  <2>2. Unsent(b) = 1
    BY <1>0, <1>8 DEF Unsent, Row
  <2>3. Cardinality(EchoesOf(b)') <= Cardinality(EchoesOf(b)) + 1
    BY <1>4, <2>1, Counting
  <2>4. QED
    BY <1>0, <1>2, <1>4, <1>5, <1>6, <2>2, <2>3
<1>9. CASE BodyOf[flight] # b
  <2>1. EchoesOf(b)' \subseteq EchoesOf(b)
    BY <1>0, <1>7, <1>9 DEF EchoesOf
  <2>2. Cardinality(EchoesOf(b)') <= Cardinality(EchoesOf(b))
    BY <1>4, <2>1, Counting
  <2>3. QED
    BY <1>0, <1>2, <1>4, <1>5, <1>6, <2>2
<1>10. QED
  BY <1>8, <1>9

\* The echo of a text finds it remembered.
LEMMA TextEchoText ==
  ASSUME Types, Types', TextInv, NEW id \in Id, TextEcho(id)
  PROVE  TextInv'
<1> DEFINE c == BodyOf[sent[id]]
<1>0. /\ id \in echoes /\ echoes' = echoes \ {id} /\ sent[id] \in Row /\ c \in Body
      /\ UNCHANGED <<flight, sent, created, env>>
  BY DEF TextEcho, EchoComes, Types, TypeOK, Body
<1>1. SUFFICES ASSUME ~Media, "late" \notin env
               PROVE  /\ inputs' = {}
                      /\ \A b \in Body : Cardinality(EchoesOf(b)') + Unsent(b)' <= recent'[b]
  BY <1>0 DEF TextInv, Media
<1>2. \A b \in Body :
        /\ Cardinality(EchoesOf(b)) + Unsent(b) <= recent[b]
        /\ recent[b] \in Nat /\ Unsent(b) \in {0, 1} /\ Unsent(b)' = Unsent(b)
        /\ IsFiniteSet(EchoesOf(b)) /\ Cardinality(EchoesOf(b)) \in Nat
        /\ IsFiniteSet(EchoesOf(b)') /\ Cardinality(EchoesOf(b)') \in Nat
        /\ EchoesOf(b)' \subseteq EchoesOf(b)
  <2>1. SUFFICES ASSUME NEW b \in Body
                 PROVE  /\ Cardinality(EchoesOf(b)) + Unsent(b) <= recent[b]
                        /\ recent[b] \in Nat /\ Unsent(b) \in {0, 1} /\ Unsent(b)' = Unsent(b)
                        /\ IsFiniteSet(EchoesOf(b)) /\ Cardinality(EchoesOf(b)) \in Nat
                        /\ IsFiniteSet(EchoesOf(b)') /\ Cardinality(EchoesOf(b)') \in Nat
                        /\ EchoesOf(b)' \subseteq EchoesOf(b)
    OBVIOUS
  <2>2. /\ Len(sent) \in Nat /\ EchoesOf(b) \subseteq 1..Len(sent)
        /\ recent[b] \in Nat /\ Unsent(b) \in {0, 1}
    BY EchoTypesOf
  <2>3. EchoesOf(b)' \subseteq EchoesOf(b) /\ Unsent(b)' = Unsent(b)
    BY <1>0 DEF EchoesOf, Unsent
  <2>4. EchoesOf(b)' \subseteq 1..Len(sent)
    BY <2>2, <2>3
  <2>5. Cardinality(EchoesOf(b)) + Unsent(b) <= recent[b]
    BY <1>1 DEF TextInv
  <2>6. QED
    BY <2>2, <2>3, <2>4, <2>5, FiniteIds
<1>3. id \in EchoesOf(c) /\ id \notin EchoesOf(c)'
  BY <1>0 DEF EchoesOf
<1>4. Cardinality(EchoesOf(c)') + 1 <= Cardinality(EchoesOf(c))
  BY <1>0, <1>2, <1>3, Counting
<1>5. recent[c] # 0
  BY <1>0, <1>2, <1>4
<1>6. inputs' = {} /\ recent' = [recent EXCEPT ![c] = @ - 1]
  BY <1>1, <1>5 DEF TextEcho, Remembered, Unrecognised, TextInv
<1>7. \A b \in Body : Cardinality(EchoesOf(b)') + Unsent(b)' <= recent'[b]
  <2>1. SUFFICES ASSUME NEW b \in Body
                 PROVE  Cardinality(EchoesOf(b)') + Unsent(b)' <= recent'[b]
    OBVIOUS
  <2>2. recent \in [Body -> 0..MaxSends]
    BY DEF Types, TypeOK
  <2>3. CASE b = c
    <3>1. recent'[b] = recent[b] - 1
      <4>1. recent' = [recent EXCEPT ![b] = recent[b] - 1]
        BY <1>6, <2>3
      <4>2. b \in DOMAIN recent
        BY <2>2
      <4>3. QED
        BY <4>1, <4>2
    <3>2. Cardinality(EchoesOf(b)') + 1 <= Cardinality(EchoesOf(b))
      <4>1. id \in EchoesOf(b) /\ id \notin EchoesOf(b)'
        BY <1>0, <2>3 DEF EchoesOf
      <4>2. QED
        BY <1>2, <4>1, Counting
    <3>3. QED
      BY <1>2, <3>1, <3>2
  <2>4. CASE b # c
    <3>1. recent'[b] = recent[b]
      BY <1>6, <2>2, <2>4
    <3>2. Cardinality(EchoesOf(b)') <= Cardinality(EchoesOf(b))
      BY <1>2, Counting
    <3>3. QED
      BY <1>2, <3>1, <3>2
  <2>5. QED
    BY <2>3, <2>4
<1>8. QED
  BY <1>6, <1>7

LEMMA RestartText ==
  ASSUME Types, Types', TextInv, Restart
  PROVE  TextInv'
<1>1. SUFFICES ASSUME ~Media, "late" \notin env, NEW b \in Body
               PROVE  Cardinality(EchoesOf(b)') + Unsent(b)' <= recent'[b]
  BY DEF TextInv, Media, Restart
<1>2. EchoesOf(b)' = {} /\ Unsent(b)' = 0 /\ recent'[b] = 0
  BY DEF Restart, EchoesOf, Unsent
<1>3. QED
  BY <1>2, FS_EmptySet

LEMMA TextStep == Types /\ Types' /\ TextInv /\ [Next]_vars => TextInv'
<1> SUFFICES ASSUME Types, Types', TextInv, [Next]_vars PROVE TextInv'
  OBVIOUS
<1>1. ASSUME NEW r \in Row, Enqueue(r) \/ Elapse(r) \/ RetryOutbox(r) \/ DiscardOutbox(r)
      PROVE  TextInv'
  <2>1. UNCHANGED <<process, whatsapp, inputs, env>>
    BY <1>1 DEF Enqueue, Elapse, RetryOutbox, DiscardOutbox
  <2>2. QED
    BY <2>1, QuietText DEF process, whatsapp
<1>2. CASE SendReturns \/ SendThrows
  <2>1. UNCHANGED <<recent, sent, echoes, inputs, env>> /\ flight' = 0
    BY <1>2 DEF SendReturns, SendThrows
  <2>2. QED
    BY <2>1, QuietText
<1>3. ASSUME NEW id \in Id, Acknowledge(id) \/ Refuse(id) PROVE TextInv'
  <2>1. UNCHANGED <<process, sent, created, echoes, inputs, env>>
    BY <1>3 DEF Acknowledge, Refuse
  <2>2. QED
    BY <2>1, QuietText DEF process
<1>4. ASSUME NEW b \in Body, Forget(b) PROVE TextInv'
  BY <1>4 DEF Forget, TextInv
<1>5. ASSUME NEW id \in Id, MediaEcho(id) PROVE TextInv'
  BY <1>5 DEF MediaEcho, EchoComes, TextInv, Media
<1>6. CASE Reconnect \/ UNCHANGED vars
  <2>1. UNCHANGED <<flight, recent, whatsapp, inputs, env>>
    BY <1>6 DEF Reconnect, vars, process
  <2>2. QED
    BY <2>1, QuietText DEF whatsapp
<1>7. QED
  BY <1>1, <1>2, <1>3, <1>4, <1>5, <1>6, BeginText, CreateText, TextEchoText, RestartText
     DEF Next, Send

-----------------------------------------------------------------------------
\* Of files, each sent once: there is a row that awaits its echo, and has no message yet,
\* for each echo on its way that is of no row's message, and for the message still to be
\* created.
Loose == {id \in echoes : \A r \in Row : remote[r] # id}
Open == {r \in Awaiting : remote[r] = 0}
Pending == IF flight # 0 /\ created = 0 /\ ~Created(flight) THEN 1 ELSE 0
Counted == Cardinality(Loose) + Pending <= Cardinality(Open)

\* What is known of a row then.  Only the row in flight is "sending", until an echo
\* acknowledges it; its own echo has not come before.  A row that is sent again has its
\* message, and one whose message was not created is new.
RowKnown(r) ==
  /\ status[r] # "discarded"
  /\ remote[r] # 0 => remote[r] \in outbound
  /\ status[r] = "sending" => r = flight
  /\ r = flight => status[r] \in {"sending", "acknowledged"}
  /\ r = flight /\ created # 0 /\ status[r] = "sending" => created \in Loose
  /\ status[r] \in {"pending", "sending"} /\ remote[r] # 0 =>
       \E i \in DOMAIN sent : i # created /\ sent[i] = r
  /\ r # flight /\ ~Created(r) =>
       status[r] \in {"none", "pending", "acknowledged"} /\ (status[r] # "acknowledged" => remote[r] = 0)

Calm == Media /\ SentOnce /\ env \cap {"late", "throw", "nack", "operator"} = {}
Matching == inputs = {} /\ Counted /\ \A r \in Row : RowKnown(r)
MediaInv == Calm => Matching

LEMMA CountTypes ==
  ASSUME Types
  PROVE  /\ Loose \subseteq 1..Len(sent) /\ Open \subseteq 1..Rows /\ Len(sent) \in Nat /\ Rows \in Nat
         /\ IsFiniteSet(Loose) /\ Cardinality(Loose) \in Nat
         /\ IsFiniteSet(Open) /\ Cardinality(Open) \in Nat /\ Pending \in {0, 1}
<1>1. Loose \subseteq 1..Len(sent) /\ Open \subseteq 1..Rows /\ Len(sent) \in Nat
  <2>1. echoes \subseteq 1..Len(sent) /\ sent \in Seq(Row)
    BY DEF Types, TypeOK
  <2>2. Loose \subseteq echoes
    BY DEF Loose
  <2>3. Open \subseteq 1..Rows
    BY DEF Open, Awaiting, Row
  <2>4. Len(sent) \in Nat
    BY <2>1
  <2>5. QED
    BY <2>1, <2>2, <2>3, <2>4
<1>2. Rows \in Nat
  BY OutboxAssumption
<1>3. QED
  BY <1>1, <1>2, FiniteIds DEF Pending

\* The same of the next state.
LEMMA CountTypesNext ==
  ASSUME Types'
  PROVE  /\ IsFiniteSet(Loose') /\ Cardinality(Loose') \in Nat
         /\ IsFiniteSet(Open') /\ Cardinality(Open') \in Nat /\ Pending' \in {0, 1}
<1>1. echoes' \subseteq 1..Len(sent') /\ Len(sent') \in Nat
  BY DEF Types, TypeOK
<1>2. Loose' \subseteq 1..Len(sent')
  BY <1>1 DEF Loose
<1>3. Open' \subseteq 1..Rows
  BY DEF Open, Awaiting, Row
<1>4. Rows \in Nat
  BY OutboxAssumption
<1>5. QED
  BY <1>1, <1>2, <1>3, <1>4, FiniteIds DEF Pending

\* Less is under way, and no fewer rows await.
LEMMA LessCounted ==
  ASSUME Types, Types', Counted,
         Loose' \subseteq Loose, Open \subseteq Open', Pending' \in {0, Pending}
  PROVE  Counted'
<1>1. /\ IsFiniteSet(Loose) /\ Cardinality(Loose) \in Nat
      /\ IsFiniteSet(Open) /\ Cardinality(Open) \in Nat /\ Pending \in {0, 1}
  BY CountTypes
<1>2. /\ IsFiniteSet(Loose') /\ Cardinality(Loose') \in Nat
      /\ IsFiniteSet(Open') /\ Cardinality(Open') \in Nat /\ Pending' \in {0, 1}
  BY CountTypesNext
<1>3. Cardinality(Loose') <= Cardinality(Loose) /\ Cardinality(Open) <= Cardinality(Open')
  BY <1>1, <1>2, Counting
<1>4. QED
  BY <1>1, <1>2, <1>3 DEF Counted

\* An echo goes, and one row with it.
LEMMA OneCounted ==
  ASSUME Types, Types', Counted,
         NEW id \in Loose, id \notin Loose', Loose' \subseteq Loose,
         NEW r, Open \subseteq Open' \cup {r}, Pending' \in {0, Pending}
  PROVE  Counted'
<1>1. /\ IsFiniteSet(Loose) /\ Cardinality(Loose) \in Nat
      /\ IsFiniteSet(Open) /\ Cardinality(Open) \in Nat /\ Pending \in {0, 1}
  BY CountTypes
<1>2. /\ IsFiniteSet(Loose') /\ Cardinality(Loose') \in Nat
      /\ IsFiniteSet(Open') /\ Cardinality(Open') \in Nat /\ Pending' \in {0, 1}
  BY CountTypesNext
<1>3. Cardinality(Loose') + 1 <= Cardinality(Loose)
  BY <1>1, <1>2, Counting
<1>4. Cardinality(Open) <= Cardinality(Open') + 1
  BY <1>1, <1>2, Counting
<1>5. QED
  BY <1>1, <1>2, <1>3, <1>4 DEF Counted

\* Nothing comes or goes: a row is added, or acknowledged by its message.
LEMMA StillMatching ==
  ASSUME Types, Types', Matching,
         UNCHANGED <<remote, outbound, flight, sent, created, echoes, inputs>>,
         \A r \in Row : \/ status'[r] = status[r]
                        \/ status[r] = "none" /\ status'[r] = "pending"
                        \/ remote[r] # 0 /\ status'[r] = "acknowledged"
  PROVE  Matching'
<1>0. (\A r \in Row : RowKnown(r)) /\ Counted /\ inputs = {} /\ flight \in 0..Rows
      /\ Call /\ status \in [Row -> Status]
  BY DEF Matching, Types, TypeOK
<1>1. Loose' = Loose /\ Pending' = Pending
  BY DEF Loose, Pending, Created
<1>2. Open' = Open
  BY DEF Open, Awaiting
<1>3. Counted'
  BY <1>0, <1>1, <1>2, LessCounted
<1>4. ASSUME NEW r \in Row PROVE RowKnown(r)'
  <2>1. RowKnown(r)
    BY <1>0
  <2>2. CASE status'[r] = status[r]
    BY <1>1, <2>1, <2>2 DEF RowKnown, Created
  <2>3. CASE remote[r] # 0 /\ status'[r] = "acknowledged"
    BY <1>1, <2>1, <2>3 DEF RowKnown, Created
  <2>4. CASE status[r] = "none" /\ status'[r] = "pending"
    <3>1. r # flight
      BY <2>1, <2>4 DEF RowKnown
    <3>2. remote[r] # 0 => \E i \in DOMAIN sent : i # created /\ sent[i] = r
      <4>1. SUFFICES ASSUME remote[r] # 0 PROVE \E i \in DOMAIN sent : i # created /\ sent[i] = r
        OBVIOUS
      <4>2. PICK i \in DOMAIN sent : sent[i] = r
        BY <2>1, <2>4, <3>1, <4>1 DEF RowKnown, Created
      <4>3. i # 0
        BY DEF Types, TypeOK
      <4>4. i # created
        BY <1>0, <3>1, <4>2, <4>3 DEF Call
      <4>5. QED
        BY <4>2, <4>4
    <3>3. QED
      BY <1>1, <2>1, <2>4, <3>1, <3>2 DEF RowKnown, Created
  <2>5. QED
    BY <2>2, <2>3, <2>4
<1>5. QED
  BY <1>0, <1>3, <1>4 DEF Matching

LEMMA BeginMatching ==
  ASSUME Types, Types', Matching, NEW r \in Row, BeginSend(r)
  PROVE  Matching'
<1>0. (\A o \in Row : RowKnown(o)) /\ Counted /\ inputs = {} /\ status \in [Row -> Status]
  BY DEF Matching, Types, TypeOK
<1>1. /\ flight = 0 /\ created = 0 /\ flight' = r /\ r # 0
      /\ status[r] \in {"pending", "failed", "sent_unconfirmed"}
      /\ status' = [status EXCEPT ![r] = "sending"]
      /\ UNCHANGED <<remote, outbound, sent, created, echoes, inputs>>
  BY DEF BeginSend, Sendable, whatsapp, Types, Call, Row
<1>2. Loose' = Loose
  BY <1>1 DEF Loose
<1>3. \A i \in DOMAIN sent : i # 0
  BY DEF Types, TypeOK
<1>4. Counted'
  <2>1. CASE Created(r)
    <3>1. Pending' = 0
      BY <1>1, <2>1 DEF Pending, Created
    <3>2. Open \subseteq Open'
      BY <1>0, <1>1 DEF Open, Awaiting
    <3>3. QED
      BY <1>0, <1>2, <3>1, <3>2, LessCounted
  <2>2. CASE ~Created(r)
    <3>1. status[r] = "pending" /\ remote[r] = 0
      BY <1>0, <1>1, <2>2 DEF RowKnown
    <3>2. r \notin Open /\ Open \subseteq Open' /\ r \in Open'
      BY <1>0, <1>1, <3>1 DEF Open, Awaiting
    <3>3. IsFiniteSet(Open) /\ IsFiniteSet(Open') /\ Cardinality(Open) \in Nat
          /\ Cardinality(Open') \in Nat /\ Cardinality(Loose) \in Nat
      BY CountTypes, CountTypesNext
    <3>4. Cardinality(Open) + 1 <= Cardinality(Open')
      BY <3>2, <3>3, Counting
    <3>5. Pending = 0 /\ Pending' \in {0, 1}
      BY <1>1 DEF Pending
    <3>6. QED
      BY <1>0, <1>2, <3>3, <3>4, <3>5 DEF Counted
  <2>3. QED
    BY <2>1, <2>2
<1>5. ASSUME NEW o \in Row PROVE RowKnown(o)'
  <2>1. CASE o # r
    <3>1. o # flight
      BY <1>1, OutboxAssumption DEF Row
    <3>2. QED
      BY <1>0, <1>1, <1>2, <2>1, <3>1 DEF RowKnown, Created
  <2>2. CASE o = r
    <3>1. remote[r] # 0 => \E i \in DOMAIN sent : i # created /\ sent[i] = r
      BY <1>0, <1>1, <1>3 DEF RowKnown, Created
    <3>2. QED
      BY <1>0, <1>1, <2>2, <3>1 DEF RowKnown
  <2>3. QED
    BY <2>1, <2>2
<1>6. QED
  BY <1>0, <1>1, <1>4, <1>5 DEF Matching

LEMMA CreateMatching ==
  ASSUME Types, Types', Matching, SentOnce', CreateMessage
  PROVE  Matching'
<1> DEFINE n == Len(sent) + 1
<1>0. /\ \A o \in Row : RowKnown(o)
      /\ Counted /\ inputs = {} /\ sent \in Seq(Row) /\ Len(sent) \in Nat
      /\ remote \in [Row -> 0..Len(sent)] /\ echoes \subseteq 1..Len(sent)
  <2>1. (\A o \in Row : RowKnown(o)) /\ Counted /\ inputs = {}
    BY DEF Matching
  <2>2. /\ sent \in Seq(Row) /\ remote \in [Row -> 0..Len(sent)]
        /\ echoes \subseteq 1..Len(sent)
    BY DEF Types, TypeOK
  <2>3. Len(sent) \in Nat
    BY <2>2
  <2>4. QED
    BY <2>1, <2>2, <2>3
<1>1. /\ flight \in Row /\ flight # 0 /\ created = 0 /\ sent' = Append(sent, flight) /\ created' = n
      /\ echoes' = echoes \cup {n} /\ UNCHANGED <<status, remote, outbound, flight, inputs>>
  BY DEF CreateMessage, db, process, Types, TypeOK, Row
<1>2. /\ n # 0 /\ n \notin DOMAIN sent /\ n \in DOMAIN sent' /\ sent'[n] = flight
      /\ \A i \in DOMAIN sent : i \in DOMAIN sent' /\ sent'[i] = sent[i]
  BY <1>0, <1>1
<1>3. ~Created(flight)
  BY <1>2 DEF Created, SentOnce
<1>4. Pending = 1 /\ Pending' = 0
  BY <1>1, <1>2, <1>3 DEF Pending
<1>5. Loose' \subseteq Loose \cup {n} /\ n \in Loose'
  BY <1>0, <1>1 DEF Loose
<1>6. Open' = Open
  BY <1>1 DEF Open, Awaiting
<1>7. Counted'
  <2>1. /\ IsFiniteSet(Loose) /\ IsFiniteSet(Loose') /\ Cardinality(Loose) \in Nat
        /\ Cardinality(Loose') \in Nat /\ Cardinality(Open) \in Nat
    BY CountTypes, CountTypesNext
  <2>2. Cardinality(Loose') <= Cardinality(Loose) + 1
    BY <1>5, <2>1, Counting
  <2>3. QED
    BY <1>0, <1>4, <1>6, <2>1, <2>2 DEF Counted
<1>8. ASSUME NEW r \in Row PROVE RowKnown(r)'
  <2>0. RowKnown(r) /\ created' = n /\ (Created(r) => Created(r)')
    BY <1>0, <1>1, <1>2 DEF Created
  <2>1. CASE r # flight
    <3>1. (\E i \in DOMAIN sent : i # created /\ sent[i] = r) =>
             \E i \in DOMAIN sent' : i # created' /\ sent'[i] = r
      BY <1>1, <1>2
    <3>2. QED
      BY <1>1, <2>0, <2>1, <3>1 DEF RowKnown
  <2>2. CASE r = flight
    <3>1. ~(status[r] \in {"pending", "sending"} /\ remote[r] # 0)
      BY <1>3, <2>0, <2>2 DEF RowKnown, Created
    <3>2. QED
      BY <1>1, <1>5, <2>0, <2>2, <3>1 DEF RowKnown
  <2>3. QED
    BY <2>1, <2>2
<1>9. QED
  BY <1>0, <1>1, <1>7, <1>8 DEF Matching

LEMMA ReturnMatching ==
  ASSUME Types, Types', Matching, SentOnce, Media, SendReturns
  PROVE  Matching'
<1>0. /\ \A o \in Row : RowKnown(o)
      /\ Counted /\ inputs = {} /\ status \in [Row -> Status] /\ remote \in [Row -> 0..Len(sent)]
  BY DEF Matching, Types, TypeOK
<1>1. /\ flight \in Row /\ flight # 0 /\ created # 0 /\ created \in DOMAIN sent /\ sent[created] = flight
      /\ flight' = 0 /\ created' = 0 /\ UNCHANGED <<sent, echoes, inputs>>
  BY DEF SendReturns, Types, TypeOK, Call, Row
<1>2. PICK id \in {created} \cup (IF "noid" \in env THEN {IF Media THEN remote[flight] ELSE 0} ELSE {}) :
        /\ outbound' = outbound \cup ({id} \ {0})
        /\ IF status[flight] # "sending" THEN UNCHANGED <<status, remote>>
           ELSE IF Taken(flight, id) THEN SendFailed(flight)
           ELSE /\ status' = [status EXCEPT ![flight] = "sent_unconfirmed"]
                /\ remote' = [remote EXCEPT ![flight] = id]
  BY DEF SendReturns
<1>3. Pending' = 0 /\ (\A r : Created(r)' <=> Created(r)) /\ \A r \in Row : r # flight'
  BY <1>1, OutboxAssumption DEF Pending, Created, Row
<1>4. \A i \in DOMAIN sent : i # 0
  BY DEF Types, TypeOK
<1>5. Created(flight)
  BY <1>1 DEF Created
\* A row other than the one in flight keeps what is known of it.
<1>6. ASSUME NEW r \in Row, r # flight, status'[r] = status[r], remote'[r] = remote[r]
      PROVE  RowKnown(r)'
  <2>1. RowKnown(r) /\ outbound \subseteq outbound'
    BY <1>0, <1>2
  <2>2. status[r] # "sending"
    BY <1>6, <2>1 DEF RowKnown
  <2>3. (\E i \in DOMAIN sent : i # created /\ sent[i] = r) =>
           \E i \in DOMAIN sent' : i # created' /\ sent'[i] = r
    BY <1>1, <1>4
  <2>4. QED
    BY <1>3, <1>6, <2>1, <2>2, <2>3 DEF RowKnown
<1>7. CASE status[flight] # "sending"
  <2>1. status[flight] = "acknowledged" /\ UNCHANGED <<status, remote>>
    BY <1>0, <1>1, <1>2, <1>7 DEF RowKnown
  <2>2. Loose' = Loose /\ Open' = Open
    BY <1>1, <2>1 DEF Loose, Open, Awaiting
  <2>3. Counted'
    BY <1>0, <1>3, <2>2, LessCounted
  <2>4. RowKnown(flight) /\ outbound \subseteq outbound'
    BY <1>0, <1>1, <1>2
  <2>5. ASSUME NEW r \in Row PROVE RowKnown(r)'
    <3>1. CASE r # flight
      BY <1>6, <2>1, <3>1
    <3>2. CASE r = flight
      BY <1>3, <2>1, <2>4, <3>2 DEF RowKnown
    <3>3. QED
      BY <3>1, <3>2
  <2>6. QED
    BY <1>0, <1>1, <2>3, <2>5 DEF Matching
<1>8. CASE status[flight] = "sending"
  <2>1. created \in Loose /\ remote[flight] = 0
    BY <1>0, <1>1, <1>8 DEF RowKnown, SentOnce
  <2>2. id \in {created, 0} /\ ~Taken(flight, id)
    BY <1>2, <2>1 DEF Taken, Loose
  <2>3. /\ status' = [status EXCEPT ![flight] = "sent_unconfirmed"]
        /\ remote' = [remote EXCEPT ![flight] = id]
    BY <1>2, <1>8, <2>2
  <2>4. \A r \in Row \ {flight} : status'[r] = status[r] /\ remote'[r] = remote[r]
    BY <1>0, <2>3
  <2>5. status'[flight] = "sent_unconfirmed" /\ remote'[flight] = id
    BY <1>0, <1>1, <2>3
  <2>6. Counted'
    <3>1. CASE id = created
      <4>1. Loose' \subseteq Loose /\ created \notin Loose'
        <5>1. 0 \notin echoes
          BY DEF Types, TypeOK
        <5>2. QED
          BY <1>1, <2>1, <2>4, <2>5, <3>1, <5>1 DEF Loose
      <4>2. Open \subseteq Open' \cup {flight}
        BY <2>4 DEF Open, Awaiting
      <4>3. QED
        BY <1>0, <1>3, <2>1, <4>1, <4>2, OneCounted
    <3>2. CASE id = 0
      <4>1. \A r \in Row : remote'[r] = remote[r]
        BY <2>1, <2>4, <2>5, <3>2
      <4>2. Loose' \subseteq Loose
        BY <1>1, <4>1 DEF Loose
      <4>3. Open \subseteq Open'
        BY <2>4, <2>5, <4>1 DEF Open, Awaiting
      <4>4. QED
        BY <1>0, <1>3, <4>2, <4>3, LessCounted
    <3>3. QED
      BY <2>2, <3>1, <3>2
  <2>7. ASSUME NEW r \in Row PROVE RowKnown(r)'
    <3>1. CASE r # flight
      BY <1>6, <2>4, <3>1
    <3>2. CASE r = flight
      <4>1. id # 0 => id \in outbound'
        BY <1>2
      <4>2. QED
        BY <1>3, <1>5, <2>5, <3>2, <4>1 DEF RowKnown
    <3>3. QED
      BY <3>1, <3>2
  <2>8. QED
    BY <1>0, <1>1, <2>6, <2>7 DEF Matching
<1>9. QED
  BY <1>7, <1>8

\* The row that an echo is matched to has it, or is given it.
LEMMA MatchedMatching ==
  ASSUME Types, Types', Matching, NEW id \in Id, NEW r \in Awaiting,
         \A o \in Awaiting : status[o] = "sending" => status[r] = "sending",
         EchoComes(id), Matched(r, id), inputs' = inputs
  PROVE  Matching'
<1>0. /\ \A o \in Row : RowKnown(o)
      /\ Counted /\ inputs = {} /\ status \in [Row -> Status] /\ remote \in [Row -> 0..Len(sent)]
      /\ r \in Row
  BY DEF Matching, Types, TypeOK, Awaiting
<1>1. /\ id # 0 /\ id \in echoes /\ echoes' = echoes \ {id} /\ 0 \notin echoes
      /\ UNCHANGED <<flight, sent, created>>
  BY DEF EchoComes, Types, TypeOK
<1>2. Pending' = Pending /\ \A o : Created(o)' <=> Created(o)
  BY <1>1 DEF Pending, Created
<1>3. CASE Taken(r, id)
  <2>1. UNCHANGED <<status, remote, outbound>>
    BY <1>3 DEF Matched
  <2>2. id \notin Loose
    BY <1>3 DEF Taken, Loose
  <2>3. Loose' = Loose /\ Open' = Open
    BY <1>1, <2>1, <2>2 DEF Loose, Open, Awaiting
  <2>4. Counted'
    BY <1>0, <1>2, <2>3, LessCounted
  <2>5. ASSUME NEW o \in Row PROVE RowKnown(o)'
    BY <1>0, <1>1, <1>2, <2>1, <2>3 DEF RowKnown
  <2>6. QED
    BY <1>0, <2>4, <2>5 DEF Matching
<1>4. CASE ~Taken(r, id)
  <2>1. /\ status' = [status EXCEPT ![r] = "acknowledged"] /\ remote' = [remote EXCEPT ![r] = id]
        /\ outbound' = outbound \cup {id}
    BY <1>4 DEF Matched
  <2>2. /\ status'[r] = "acknowledged" /\ remote'[r] = id
        /\ \A o \in Row \ {r} : status'[o] = status[o] /\ remote'[o] = remote[o]
    BY <1>0, <2>1
  <2>3. ASSUME NEW o \in Row PROVE RowKnown(o)'
    <3>1. CASE o = r
      BY <2>1, <2>2, <3>1 DEF RowKnown
    <3>2. CASE o # r
      <4>1. RowKnown(o) /\ RowKnown(r)
        BY <1>0
      <4>2. status[o] # "sending"
        BY <3>2, <4>1 DEF RowKnown, Awaiting
      <4>3. QED
        BY <1>1, <1>2, <2>1, <2>2, <3>2, <4>1, <4>2 DEF RowKnown
    <3>3. QED
      BY <3>1, <3>2
  <2>4. id \notin Loose'
    BY <1>1 DEF Loose
  <2>5. Counted'
    <3>1. CASE remote[r] = 0
      <4>1. id \in Loose
        <5>1. SUFFICES ASSUME NEW o \in Row, remote[o] = id PROVE FALSE
          BY <1>1 DEF Loose
        <5>2. status[o] # "discarded" /\ o # r
          BY <1>0, <1>1, <3>1, <5>1 DEF RowKnown
        <5>3. QED
          BY <1>1, <1>4, <5>1, <5>2 DEF Taken
      <4>2. Loose' \subseteq Loose
        BY <1>1, <2>2, <3>1 DEF Loose
      <4>3. Open \subseteq Open' \cup {r}
        BY <2>2 DEF Open, Awaiting
      <4>4. QED
        BY <1>0, <1>2, <2>4, <4>1, <4>2, <4>3, OneCounted
    <3>2. CASE remote[r] # 0
      <4>1. Open \subseteq Open'
        BY <2>2, <3>2 DEF Open, Awaiting
      <4>2. CASE id \in Loose
        <5>1. Loose' \subseteq (Loose \ {id}) \cup {remote[r]}
          BY <1>1, <2>2 DEF Loose
        <5>2. /\ IsFiniteSet(Loose) /\ IsFiniteSet(Loose') /\ Cardinality(Loose) \in Nat
              /\ Cardinality(Loose') \in Nat /\ Cardinality(Open) \in Nat /\ Cardinality(Open') \in Nat
              /\ IsFiniteSet(Open) /\ IsFiniteSet(Open') /\ Pending \in {0, 1}
          BY CountTypes, CountTypesNext
        <5> DEFINE L == Loose \ {id}
        <5>3. IsFiniteSet(L) /\ Cardinality(L) = Cardinality(Loose) - 1
          BY <4>2, <5>2, FS_RemoveElement
        <5>4. Loose' \subseteq L \cup {remote[r]}
          BY <5>1
        <5> HIDE DEF L
        <5>5. Cardinality(Loose') <= Cardinality(L) + 1
          BY <5>2, <5>3, <5>4, Counting
        <5>6. Cardinality(Open) <= Cardinality(Open')
          BY <4>1, <5>2, Counting
        <5>7. QED
          BY <1>0, <1>2, <5>2, <5>3, <5>5, <5>6 DEF Counted
      <4>3. CASE id \notin Loose
        <5>1. PICK o \in Row : remote[o] = id
          BY <1>1, <4>3 DEF Loose
        <5>2. o = r
          BY <1>0, <1>1, <1>4, <5>1 DEF Taken, RowKnown
        <5>3. Loose' \subseteq Loose
          BY <1>1, <2>2, <5>1, <5>2 DEF Loose
        <5>4. QED
          BY <1>0, <1>2, <4>1, <5>3, LessCounted
      <4>4. QED
        BY <4>2, <4>3
    <3>3. QED
      BY <3>1, <3>2
  <2>6. QED
    BY <1>0, <2>3, <2>5 DEF Matching
<1>5. QED
  BY <1>3, <1>4

\* The echo of a file finds a row that awaits it, or its id known.
LEMMA MediaEchoMatching ==
  ASSUME Types, Types', Matching, "late" \notin env, NEW id \in Id, MediaEcho(id)
  PROVE  Matching'
<1>0. /\ \A o \in Row : RowKnown(o)
      /\ Counted /\ inputs = {} /\ EchoComes(id)
  BY DEF Matching, MediaEcho
<1>1. ASSUME NEW r \in Awaiting, \A o \in Awaiting : status[o] = "sending" => status[r] = "sending",
             Matched(r, id), inputs' = inputs
      PROVE  Matching'
  BY <1>0, <1>1, MatchedMatching
<1>2. ASSUME Awaiting = {}, inputs' = (IF id \in outbound THEN inputs ELSE inputs \cup {id}),
             UNCHANGED <<status, remote, outbound>>
      PROVE  Matching'
  <2>1. /\ id # 0 /\ id \in echoes /\ echoes' = echoes \ {id} /\ UNCHANGED <<flight, sent, created>>
    BY <1>0 DEF EchoComes, Types, TypeOK
  <2>2. Open = {} /\ Open' = {}
    BY <1>2 DEF Open, Awaiting
  <2>3. Loose = {}
    <3>1. Cardinality(Open) = 0
      BY <2>2, FS_EmptySet
    <3>2. IsFiniteSet(Loose) /\ Cardinality(Loose) \in Nat /\ Pending \in {0, 1}
      BY CountTypes
    <3>3. Cardinality(Loose) = 0
      BY <1>0, <3>1, <3>2 DEF Counted
    <3>4. QED
      BY <3>2, <3>3, FS_EmptySet
  <2>4. Loose' = {}
    BY <1>2, <2>1, <2>3 DEF Loose
  <2>5. id \in outbound
    <3>1. PICK o \in Row : remote[o] = id
      BY <2>1, <2>3 DEF Loose
    <3>2. QED
      BY <1>0, <2>1, <3>1 DEF RowKnown
  <2>6. Pending' = Pending /\ \A o : Created(o)' <=> Created(o)
    BY <2>1 DEF Pending, Created
  <2>7. Counted'
    BY <1>0, <2>2, <2>3, <2>4, <2>6 DEF Counted
  <2>8. ASSUME NEW o \in Row PROVE RowKnown(o)'
    <3>1. RowKnown(o) /\ status[o] # "sending"
      BY <1>0, <1>2 DEF Awaiting
    <3>2. QED
      BY <1>2, <2>1, <2>6, <3>1 DEF RowKnown
  <2>9. QED
    BY <1>0, <1>2, <2>5, <2>7, <2>8 DEF Matching
<1>3. QED
  BY <1>1, <1>2 DEF MediaEcho

LEMMA RestartMatching ==
  ASSUME Types, Types', Matching, Restart
  PROVE  Matching'
<1>0. /\ \A o \in Row : RowKnown(o)
      /\ inputs = {} /\ status \in [Row -> Status]
  BY DEF Matching, Types, TypeOK
<1>1. /\ status' = RecoveredStatus /\ flight' = 0 /\ created' = 0 /\ echoes' = {}
      /\ UNCHANGED <<remote, outbound, sent, inputs>>
  BY DEF Restart
<1>2. Loose' = {} /\ Pending' = 0
  BY <1>1 DEF Loose, Pending
<1>3. Counted'
  <2>1. Cardinality(Open') \in Nat
    BY CountTypesNext
  <2>2. Cardinality(Loose') = 0
    BY <1>2, FS_EmptySet
  <2>3. QED
    BY <1>2, <2>1, <2>2 DEF Counted
<1>4. \A i \in DOMAIN sent : i # 0
  BY DEF Types, TypeOK
<1>5. ASSUME NEW r \in Row PROVE RowKnown(r)'
  <2>1. RowKnown(r) /\ r # flight' /\ (Created(r)' <=> Created(r))
    BY <1>0, <1>1, OutboxAssumption DEF Row, Created
  <2>2. status'[r] = IF status[r] = "sending" THEN "pending" ELSE status[r]
    BY <1>1 DEF RecoveredStatus
  <2>3. (\E i \in DOMAIN sent : i # created /\ sent[i] = r) =>
           Created(r) /\ \E i \in DOMAIN sent' : i # created' /\ sent'[i] = r
    BY <1>1, <1>4 DEF Created
  <2>4. QED
    BY <1>1, <2>1, <2>2, <2>3 DEF RowKnown
<1>6. QED
  BY <1>0, <1>1, <1>3, <1>5 DEF Matching

\* Messages are only added, and the environment is of one kind.
LEMMA SentGrows ==
  ASSUME Types, [Next]_vars
  PROVE  env' = env /\ \A i \in DOMAIN sent : i \in DOMAIN sent' /\ sent'[i] = sent[i]
<1>1. CASE CreateMessage
  <2>1. sent \in Seq(Row) /\ flight \in Row /\ sent' = Append(sent, flight) /\ env' = env
    BY <1>1 DEF CreateMessage, Types, TypeOK, Row
  <2>2. QED
    BY <2>1
<1>2. CASE ~CreateMessage
  <2>1. sent' = sent /\ env' = env
    BY <1>2 DEF Next, Enqueue, Elapse, RetryOutbox, DiscardOutbox, Send, BeginSend, SendReturns,
       SendThrows, TextEcho, MediaEcho, EchoComes, Acknowledge, Refuse, Forget, Reconnect, Restart,
       vars, whatsapp
  <2>2. QED
    BY <2>1
<1>3. QED
  BY <1>1, <1>2

LEMMA MediaStep == Types /\ Types' /\ MediaInv /\ [Next]_vars => MediaInv'
<1> SUFFICES ASSUME Types, Types', MediaInv, [Next]_vars, Calm' PROVE Matching'
  BY DEF MediaInv
<1>1. Media /\ SentOnce /\ env \cap {"late", "throw", "nack", "operator"} = {} /\ SentOnce'
  BY SentGrows DEF Calm, Media, SentOnce
<1>2. Matching
  BY <1>1 DEF MediaInv, Calm
<1>3. ASSUME NEW r \in Row, Enqueue(r) \/ Elapse(r) \/ RetryOutbox(r) \/ DiscardOutbox(r)
      PROVE  Matching'
  <2>1. Enqueue(r) \/ Elapse(r)
    BY <1>1, <1>3 DEF RetryOutbox, DiscardOutbox
  <2>2. /\ UNCHANGED <<remote, outbound, flight, sent, created, echoes, inputs>>
        /\ status \in [Row -> Status]
        /\ status' = status \/ (status[r] = "none" /\ status' = [status EXCEPT ![r] = "pending"])
    BY <2>1 DEF Enqueue, Elapse, process, whatsapp, Types, TypeOK
  <2>3. QED
    BY <1>2, <2>2, StillMatching
<1>4. CASE SendThrows \/ (\E id \in Id : TextEcho(id) \/ Refuse(id)) \/ \E b \in Body : Forget(b)
  BY <1>1, <1>4 DEF SendThrows, TextEcho, Refuse, Forget
<1>5. ASSUME NEW id \in Id, Acknowledge(id) PROVE Matching'
  <2>1. id # 0
    BY OutboxAssumption DEF Id
  <2>2. /\ UNCHANGED <<remote, outbound, flight, sent, created, echoes, inputs>>
        /\ \A r \in Row : status'[r] = status[r] \/ (remote[r] # 0 /\ status'[r] = "acknowledged")
    BY <1>5, <2>1 DEF Acknowledge, Holder, process
  <2>3. QED
    BY <1>2, <2>2, StillMatching
<1>6. CASE Reconnect \/ UNCHANGED vars
  <2>1. UNCHANGED <<status, remote, outbound, flight, sent, created, echoes, inputs>>
    BY <1>6 DEF Reconnect, vars, db, process, whatsapp
  <2>2. QED
    BY <1>2, <2>1, StillMatching
<1>7. ASSUME NEW id \in Id, MediaEcho(id) PROVE Matching'
  BY <1>1, <1>2, <1>7, MediaEchoMatching
<1>8. CASE Send \/ CreateMessage \/ SendReturns \/ Restart
  BY <1>1, <1>2, <1>8, BeginMatching, CreateMatching, ReturnMatching, RestartMatching DEF Send
<1>9. QED
  BY <1>3, <1>4, <1>5, <1>6, <1>7, <1>8 DEF Next

LEMMA InitEchoes == Init => TextInv /\ MediaInv
<1> SUFFICES ASSUME Init PROVE TextInv /\ MediaInv
  OBVIOUS
<1>1. Cardinality({}) = 0
  BY FS_EmptySet
<1>2. ASSUME NEW b \in Body PROVE Cardinality(EchoesOf(b)) + Unsent(b) <= recent[b]
  <2>1. EchoesOf(b) = {} /\ Unsent(b) = 0 /\ recent[b] = 0
    BY DEF Init, EchoesOf, Unsent
  <2>2. QED
    BY <1>1, <2>1
<1>3. Loose = {} /\ Open = {} /\ Pending = 0
  BY DEF Init, Loose, Open, Awaiting, Pending
<1>4. ASSUME NEW r \in Row PROVE RowKnown(r)
  <2>1. r # flight
    BY OutboxAssumption DEF Init, Row
  <2>2. QED
    BY <2>1 DEF Init, RowKnown
<1>5. Matching
  BY <1>1, <1>3, <1>4 DEF Init, Matching, Counted
<1>6. QED
  BY <1>2, <1>5 DEF Init, TextInv, MediaInv

\* Our own message is not taken for one of the user: a text while it is remembered for each
\* echo that may come, a file while a row awaits each echo that no row can explain.
THEOREM EchoIsNotInputCorrect == Spec => []EchoIsNotInput
<1>1. TextInv /\ MediaInv => EchoIsNotInput
  BY DEF TextInv, MediaInv, Matching, Calm, EchoIsNotInput
<1>2. QED
  BY <1>1, InitEchoes, TextStep, MediaStep, TypesCorrect, PTL DEF Spec
=============================================================================
