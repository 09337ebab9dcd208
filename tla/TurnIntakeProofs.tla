-------------------------- MODULE TurnIntakeProofs ---------------------------
(***************************************************************************)
(* Proofs about TurnIntake, for every set of messages and browser          *)
(* requests, capacity, batch limit and number of crashes: an input is one  *)
(* turn in one place of the queue, the queue keeps its capacity and its    *)
(* order, and a prompt holds exactly the messages of its batch.            *)
(***************************************************************************)
EXTENDS TurnIntake, TLAPS, SequenceTheorems, FiniteSetTheorems

Turn == [in : Web \cup Nat, seq : Nat, st : TurnStatus, msgs : SUBSET Msg]
Batch == [seq : Nat, st : BatchStatus, due : BOOLEAN, turn : Nat]
MsgsOf(b) == {m \in Msg : batchOf[m] = b}
Sequences == {0} \cup {turns[i].seq : i \in DOMAIN turns}
                 \cup {batches[b].seq : b \in DOMAIN batches}

\* A turn is of a browser request, and has no messages of WhatsApp, or of a batch, and
\* has the batch's place and messages that are in no other.
TurnsOfInputs ==
  \A i \in DOMAIN turns :
    \/ turns[i].in \in Web /\ turns[i].msgs = {}
    \/ /\ turns[i].in \in DOMAIN batches
       /\ turns[i].seq = batches[turns[i].in].seq
       /\ turns[i].msgs \subseteq MsgsOf(turns[i].in)

InputsApart == \A i, k \in DOMAIN turns : turns[i].in = turns[k].in => i = k
PlacesApart == \A b, c \in DOMAIN batches : batches[b].seq = batches[c].seq => b = c
TurnsApart ==
  \A i, k \in DOMAIN turns : turns[i].seq = turns[k].seq => i = k
BatchesApart ==
  \A i \in DOMAIN turns, b \in DOMAIN batches : turns[i].seq = batches[b].seq => turns[i].in = b

\* There is a greatest sequence, so that the next is greater than all.
Bounded == \E n \in Sequences : \A s \in Sequences : s <= n

\* A message enters one batch, once.
Unbatched == \A m \in Msg : row[m] = "none" \/ handling[m] = "media" => batchOf[m] = 0

\* Until WhatsApp is back after a crash no handler runs.
Offline == ~online => \A m \in Msg : handling[m] = "idle"

\* The loop goes through open batches that are due, and links the turn of the first.
Flushed ==
  /\ \A b \in flushing : b \in Open /\ batches[b].due
  /\ linking # 0 => /\ linking \in DOMAIN turns
                    /\ \E b \in flushing : IsFirst(b) /\ turns[linking].in = b

\* A batch whose turn is inserted but not linked is closed to messages: the loop is
\* not through with it, or has died and WhatsApp is not back yet.
HalfFlushed ==
  \A i \in DOMAIN turns : turns[i].in \in Open =>
    /\ turns[i].msgs = MsgsOf(turns[i].in)
    /\ batches[turns[i].in].due
    /\ turns[i].in \in flushing \/ ~online

QueuedComplete ==
  \A b \in DOMAIN batches : batches[b].st = "queued" =>
    /\ batches[b].turn \in DOMAIN turns
    /\ turns[batches[b].turn].msgs = MsgsOf(b)

Structure == /\ TurnsOfInputs /\ InputsApart /\ PlacesApart /\ TurnsApart /\ BatchesApart
             /\ Bounded /\ QueuedComplete
Progress == Unbatched /\ Offline /\ Flushed /\ HalfFlushed

\* A turn that is being compacted has overflowed.
Counted == /\ recovering # 0 => recovering \in overflowed
           /\ CapacityKept

IInv == TypeOK /\ Structure /\ Progress /\ Counted

LEMMA IInvProperties == IInv => OneTurnPerInput /\ PromptComplete
<1> SUFFICES ASSUME IInv PROVE OneTurnPerInput /\ PromptComplete
  OBVIOUS
<1>1. OneSequence
  BY DEF IInv, Structure, PlacesApart, TurnsApart, BatchesApart, OneSequence
<1>2. ASSUME NEW i \in DOMAIN turns, NEW k \in DOMAIN turns, i # k
      PROVE  turns[i].in # turns[k].in /\ turns[i].msgs \cap turns[k].msgs = {}
  <2>1. turns[i].in # turns[k].in
    BY <1>2 DEF IInv, Structure, InputsApart
  <2> QED
    BY <2>1 DEF IInv, Structure, TurnsOfInputs, MsgsOf
<1>3. PromptComplete
  BY DEF IInv, Structure, QueuedComplete, PromptComplete, MsgsOf
<1> QED
  BY <1>1, <1>2, <1>3 DEF OneTurnPerInput

LEMMA InitIInv == Init => IInv
<1> SUFFICES ASSUME Init PROVE IInv
  OBVIOUS
<1>1. /\ turns \in Seq(Turn) /\ Len(turns) = 0 /\ DOMAIN turns = {}
      /\ batches \in Seq(Batch) /\ Len(batches) = 0 /\ DOMAIN batches = {}
  BY DEF Init
<1>2. TypeOK
  <2>1. /\ batchOf \in [Msg -> 0..Len(batches)] /\ crashes \in 0..MaxCrashes
        /\ linking \in 0..Len(turns) /\ recovering \in 0..Len(turns)
    BY <1>1, IntakeAssumption DEF Init
  <2>2. row \in [Msg -> RowStatus] /\ handling \in [Msg -> {"idle", "chat", "media"}]
    BY DEF Init, RowStatus
  <2> QED
    BY <1>1, <2>1, <2>2 DEF Init, TypeOK, Turn, Batch
<1>3. Structure
  <2>1. Sequences = {0}
    BY <1>1 DEF Sequences
  <2> QED
    BY <1>1, <2>1 DEF Structure, TurnsOfInputs, InputsApart, PlacesApart, TurnsApart,
       BatchesApart, Bounded, QueuedComplete
<1>4. Progress
  BY <1>1 DEF Init, Progress, Unbatched, Offline, Flushed, HalfFlushed
<1>5. Counted
  <2>1. Load = {} /\ Open = {} /\ recovering = 0
    BY <1>1 DEF Init, Load, Pending, Open
  <2> QED
    BY <2>1, FS_EmptySet, IntakeAssumption DEF Counted, CapacityKept
<1> QED
  BY <1>2, <1>3, <1>4, <1>5 DEF IInv

-----------------------------------------------------------------------------
\* Facts about one state.

LEMMA Shapes ==
  ASSUME TypeOK
  PROVE  /\ turns \in Seq(Turn) /\ Len(turns) \in Nat /\ DOMAIN turns = 1..Len(turns)
         /\ batches \in Seq(Batch) /\ Len(batches) \in Nat /\ DOMAIN batches = 1..Len(batches)
         /\ \A i \in DOMAIN turns : turns[i] \in Turn
         /\ \A b \in DOMAIN batches : batches[b] \in Batch
<1>1. turns \in Seq(Turn) /\ batches \in Seq(Batch)
  BY DEF TypeOK, Turn, Batch
<1> QED
  BY <1>1

LEMMA FinitePending ==
  ASSUME TypeOK
  PROVE  /\ IsFiniteSet(Pending) /\ IsFiniteSet(Open) /\ IsFiniteSet(Load)
         /\ Cardinality(Pending) \in Nat /\ Cardinality(Open) \in Nat
         /\ Cardinality(Load) \in Nat
<1>1. IsFiniteSet(DOMAIN turns) /\ IsFiniteSet(DOMAIN batches)
  BY Shapes, FS_Interval
<1>2. Pending \subseteq DOMAIN turns /\ Open \subseteq DOMAIN batches
  BY DEF Pending, Open
<1>3. IsFiniteSet(Pending) /\ IsFiniteSet(Open)
  BY <1>1, <1>2, FS_Subset
<1>4. Load \subseteq DOMAIN turns
  BY <1>2, Shapes DEF Load, TypeOK
<1>5. IsFiniteSet(Load)
  BY <1>1, <1>4, FS_Subset
<1> QED
  BY <1>3, <1>5, FS_CardinalityType

\* nextEnqueueSequence: greater than every sequence in either table.
LEMMA NextIsGreater ==
  ASSUME TypeOK, Bounded
  PROVE  /\ NextSequence \in Nat /\ 0 < NextSequence
         /\ \A i \in DOMAIN turns : turns[i].seq < NextSequence
         /\ \A b \in DOMAIN batches : batches[b].seq < NextSequence
<1>1. Sequences \subseteq Nat
  BY Shapes DEF Sequences, Turn, Batch
<1>2. \E n \in Sequences : \A s \in Sequences : n >= s
  BY <1>1 DEF Bounded
<1>3. Max(Sequences) \in Sequences /\ \A s \in Sequences : Max(Sequences) >= s
  BY <1>2 DEF Max
<1>4. NextSequence = Max(Sequences) + 1
  BY DEF NextSequence, Sequences
<1>5. /\ 0 \in Sequences
      /\ \A i \in DOMAIN turns : turns[i].seq \in Sequences
      /\ \A b \in DOMAIN batches : batches[b].seq \in Sequences
  BY DEF Sequences
<1> DEFINE n == Max(Sequences)
<1>6. n \in Nat /\ \A x \in Sequences : x <= n /\ x \in Nat
  BY <1>1, <1>3
<1> HIDE DEF n
<1>7. NextSequence = n + 1
  BY <1>4 DEF n
<1> QED
  BY <1>5, <1>6, <1>7

\* findByIngress
LEMMA NoTurnYet ==
  ASSUME TypeOK, NEW x, FindByIngress(x) = 0
  PROVE  \A i \in DOMAIN turns : turns[i].in # x
BY Shapes DEF FindByIngress

LEMMA TurnFound ==
  ASSUME NEW x, FindByIngress(x) # 0
  PROVE  FindByIngress(x) \in DOMAIN turns /\ turns[FindByIngress(x)].in = x
BY DEF FindByIngress

-----------------------------------------------------------------------------
\* What kinds of steps keep.

\* The inputs, places and messages of the turns, and the places of the batches, are as
\* they were.
SameTurns ==
  /\ DOMAIN turns' = DOMAIN turns
  /\ \A i \in DOMAIN turns : /\ turns'[i].in = turns[i].in /\ turns'[i].seq = turns[i].seq
                             /\ turns'[i].msgs = turns[i].msgs
SameBatches ==
  /\ DOMAIN batches' = DOMAIN batches
  /\ \A b \in DOMAIN batches : batches'[b].seq = batches[b].seq

LEMMA StructureMoves ==
  ASSUME Structure, SameTurns, SameBatches, QueuedComplete',
         \A b \in DOMAIN batches : MsgsOf(b) \subseteq MsgsOf(b)'
  PROVE  Structure'
<1>1. Sequences' = Sequences
  BY DEF SameTurns, SameBatches, Sequences
<1>2. Bounded'
  BY <1>1 DEF Structure, Bounded
<1>3. TurnsOfInputs'
  <2> SUFFICES ASSUME NEW i \in DOMAIN turns, NEW b, b = turns[i].in
               PROVE  \/ b \in Web /\ turns[i].msgs = {}
                      \/ /\ b \in DOMAIN batches'
                         /\ turns[i].seq = batches'[b].seq
                         /\ turns[i].msgs \subseteq {m \in Msg : batchOf'[m] = b}
    BY DEF SameTurns, TurnsOfInputs, MsgsOf
  <2>1. \/ b \in Web /\ turns[i].msgs = {}
        \/ /\ b \in DOMAIN batches
           /\ turns[i].seq = batches[b].seq
           /\ turns[i].msgs \subseteq MsgsOf(b)
    BY DEF Structure, TurnsOfInputs
  <2>2. b \in DOMAIN batches => MsgsOf(b) \subseteq {m \in Msg : batchOf'[m] = b}
    BY DEF MsgsOf
  <2> QED
    BY <2>1, <2>2 DEF SameBatches
<1>4. InputsApart' /\ PlacesApart' /\ TurnsApart' /\ BatchesApart'
  BY DEF SameTurns, SameBatches, Structure, InputsApart, PlacesApart, TurnsApart, BatchesApart
<1> QED
  BY <1>2, <1>3, <1>4 DEF Structure

LEMMA StructureStays ==
  ASSUME Structure, SameTurns, SameBatches, batchOf' = batchOf,
         \A b \in DOMAIN batches : batches'[b].st = "queued" =>
           batches[b].st = "queued" /\ batches'[b].turn = batches[b].turn
  PROVE  Structure'
<1>1. \A b : MsgsOf(b)' = MsgsOf(b)
  BY DEF MsgsOf
<1>2. QueuedComplete'
  BY <1>1 DEF SameTurns, SameBatches, Structure, QueuedComplete
<1> QED
  BY <1>1, <1>2, StructureMoves

\* A new turn for an input that has none: of the browser at the end of the queue, of a
\* batch in the batch's place.
LEMMA StructureAdds ==
  ASSUME TypeOK, Structure, NEW x \in Web \cup Nat, NEW s \in Nat, NEW ms \in SUBSET Msg,
         turns' = Append(turns, NewTurn(x, s, ms)), batches' = batches, batchOf' = batchOf,
         \A i \in DOMAIN turns : turns[i].in # x,
         \/ x \in Web /\ s = NextSequence /\ ms = {}
         \/ x \in DOMAIN batches /\ s = batches[x].seq /\ ms = MsgsOf(x)
  PROVE  /\ Structure'
         /\ turns' \in Seq(Turn) /\ Len(turns') = Len(turns) + 1
         /\ turns'[Len(turns) + 1] = NewTurn(x, s, ms)
         /\ \A i \in DOMAIN turns : turns'[i] = turns[i]
<1> DEFINE e == NewTurn(x, s, ms)
           n == Len(turns) + 1
<1>1. e.in = x /\ e.seq = s /\ e.msgs = ms
  BY DEF NewTurn
<1>2. e \in Turn
  BY DEF NewTurn, Turn, TurnStatus
<1> HIDE DEF e
<1>3. turns \in Seq(Turn) /\ Len(turns) \in Nat /\ DOMAIN turns = 1..Len(turns)
  BY Shapes
<1>4. /\ turns' \in Seq(Turn) /\ Len(turns') = n /\ DOMAIN turns' = 1..n
      /\ turns'[n] = e
      /\ \A i \in DOMAIN turns : turns'[i] = turns[i]
  BY <1>2, <1>3 DEF e
<1>5. \A i \in DOMAIN turns' : i \in DOMAIN turns \/ i = n
  BY <1>3, <1>4
<1>6. n \in DOMAIN turns' /\ n \notin DOMAIN turns /\ DOMAIN turns \subseteq DOMAIN turns'
  BY <1>3, <1>4
<1> HIDE DEF n
<1>7. \A b : MsgsOf(b)' = MsgsOf(b)
  BY DEF MsgsOf
<1>8. TurnsOfInputs'
  BY <1>1, <1>4, <1>5, <1>7 DEF Structure, TurnsOfInputs
<1>9. InputsApart'
  BY <1>1, <1>4, <1>5 DEF Structure, InputsApart
<1>10. \/ /\ \A i \in DOMAIN turns : turns[i].seq < s
          /\ \A b \in DOMAIN batches : batches[b].seq < s
          /\ 0 < s
       \/ x \in DOMAIN batches /\ s = batches[x].seq
  BY NextIsGreater DEF Structure
<1>11. /\ \A i \in DOMAIN turns : turns[i].seq \in Nat
       /\ \A b \in DOMAIN batches : batches[b].seq \in Nat
  BY Shapes DEF Turn, Batch
<1>12. \A i \in DOMAIN turns : turns[i].seq # s
  BY <1>10, <1>11 DEF Structure, BatchesApart
<1>13. TurnsApart'
  BY <1>1, <1>4, <1>5, <1>12 DEF Structure, TurnsApart
<1>14. \A b \in DOMAIN batches : batches[b].seq = s => x = b
  BY <1>10, <1>11 DEF Structure, PlacesApart
<1>15. BatchesApart'
  BY <1>1, <1>4, <1>5, <1>14 DEF Structure, BatchesApart
<1>16. Bounded'
  <2>1. Sequences' = Sequences \cup {s}
    <3>1. {turns'[i].seq : i \in DOMAIN turns'} = {turns[i].seq : i \in DOMAIN turns} \cup {s}
      BY <1>1, <1>4, <1>5, <1>6
    <3> QED
      BY <3>1 DEF Sequences
  <2>2. s \in Sequences \/ \A r \in Sequences : r < s
    BY <1>10 DEF Sequences
  <2>3. Sequences \subseteq Nat
    BY <1>11 DEF Sequences
  <2>4. CASE s \in Sequences
    BY <2>1, <2>4 DEF Structure, Bounded
  <2>5. CASE \A r \in Sequences : r < s
    <3>1. \A r \in Sequences' : r <= s
      BY <2>1, <2>3, <2>5
    <3> QED
      BY <2>1, <3>1 DEF Bounded
  <2> QED
    BY <2>2, <2>4, <2>5
<1>17. QueuedComplete'
  BY <1>4, <1>6, <1>7 DEF Structure, QueuedComplete
<1>18. PlacesApart'
  BY DEF Structure, PlacesApart
<1> QED
  BY <1>4, <1>8, <1>9, <1>13, <1>15, <1>16, <1>17, <1>18 DEF Structure, e, n

\* A set with one more element.
LEMMA OneMore ==
  ASSUME NEW S, IsFiniteSet(S), NEW x, NEW T \in SUBSET (S \cup {x})
  PROVE  /\ Cardinality(S) \in Nat /\ Cardinality(T) \in Nat
         /\ Cardinality(T) <= Cardinality(S) + 1
<1>1. Cardinality(S) \in Nat
  BY FS_CardinalityType
<1>2. /\ IsFiniteSet(S \cup {x})
      /\ Cardinality(S \cup {x}) = IF x \in S THEN Cardinality(S) ELSE Cardinality(S) + 1
  BY FS_AddElement
<1>3. IsFiniteSet(T) /\ Cardinality(T) <= Cardinality(S \cup {x})
  BY <1>2, FS_Subset
<1>4. Cardinality(T) \in Nat
  BY <1>3, FS_CardinalityType
<1> QED
  BY <1>1, <1>2, <1>3, <1>4

\* The capacity is kept when no turn or batch is added: if the last turn that has
\* overflowed leaves the load, the load is less by it ...
LEMMA CapacityStays ==
  ASSUME TypeOK, Counted, Load' \subseteq Load, Open' \subseteq Open,
         overflowed \subseteq overflowed', recovering' # 0 => recovering' \in overflowed'
  PROVE  Counted'
<1> DEFINE l == Cardinality(Load)
           m == Cardinality(Load')
           o == Cardinality(Open)
           p == Cardinality(Open')
<1>1. IsFiniteSet(Load) /\ l \in Nat /\ o \in Nat /\ IsFiniteSet(Open)
  BY FinitePending
<1>2. m <= l /\ m \in Nat /\ p <= o /\ p \in Nat
  BY <1>1, FS_Subset, FS_CardinalityType
<1>3. l + o <= Capacity + (IF Load \cap overflowed # {} THEN 1 ELSE 0)
  BY DEF Counted, CapacityKept
<1>4. ASSUME NEW x \in Load \cap overflowed, x \notin Load' PROVE m <= l - 1
  <2>1. Load' \subseteq Load \ {x}
    BY <1>4
  <2>2. IsFiniteSet(Load \ {x}) /\ Cardinality(Load \ {x}) = l - 1
    BY <1>1, <1>4, FS_RemoveElement
  <2> QED
    BY <2>1, <2>2, FS_Subset
<1>5. \/ Load' \cap overflowed' # {}
      \/ Load \cap overflowed = {}
      \/ m <= l - 1
  BY <1>4
<1> HIDE DEF l, m, o, p
<1>6. m + p <= Capacity + (IF Load' \cap overflowed' # {} THEN 1 ELSE 0)
  BY <1>1, <1>2, <1>3, <1>5, IntakeAssumption
<1> QED
  BY <1>6 DEF Counted, CapacityKept, l, m, o, p

\* ... and when one is, after the check.
LEMMA CapacityAdds ==
  ASSUME TypeOK, Counted, PendingCount < Capacity, UNCHANGED <<resumed, recovering, overflowed>>, NEW x,
         \/ Pending' \subseteq Pending \cup {x} /\ Open' \subseteq Open
         \/ Pending' \subseteq Pending /\ Open' \subseteq Open \cup {x}
  PROVE  Counted'
<1> DEFINE c == Cardinality(Pending)
           d == Cardinality(Pending')
           o == Cardinality(Open)
           p == Cardinality(Open')
           m == Cardinality(Load')
<1>1. IsFiniteSet(Pending) /\ IsFiniteSet(Open) /\ c + o < Capacity
  BY FinitePending DEF PendingCount
<1>2. c \in Nat /\ d \in Nat /\ o \in Nat /\ p \in Nat /\ d + p <= c + o + 1
  <2>1. CASE Pending' \subseteq Pending \cup {x} /\ Open' \subseteq Open
    <3>1. d <= c + 1 /\ c \in Nat /\ d \in Nat
      BY <1>1, <2>1, OneMore
    <3>2. p <= o /\ o \in Nat /\ p \in Nat
      BY <1>1, <2>1, FS_Subset, FS_CardinalityType
    <3> HIDE DEF c, d, o, p
    <3> QED
      BY <3>1, <3>2
  <2>2. CASE Pending' \subseteq Pending /\ Open' \subseteq Open \cup {x}
    <3>1. p <= o + 1 /\ o \in Nat /\ p \in Nat
      BY <1>1, <2>2, OneMore
    <3>2. d <= c /\ c \in Nat /\ d \in Nat
      BY <1>1, <2>2, FS_Subset, FS_CardinalityType
    <3> HIDE DEF c, d, o, p
    <3> QED
      BY <3>1, <3>2
  <2> QED
    BY <2>1, <2>2
<1>3. IsFiniteSet(Pending')
  <2>1. IsFiniteSet(Pending \cup {x}) /\ Pending' \subseteq Pending \cup {x}
    BY <1>1, FS_AddElement
  <2> QED
    BY <2>1, FS_Subset
<1>4. CASE recovering \in resumed \cup {0}
  <2>1. Load' \subseteq Pending'
    BY <1>4 DEF Load
  <2>2. m <= d /\ m \in Nat
    BY <1>3, <2>1, FS_Subset, FS_CardinalityType
  <2> HIDE DEF c, d, o, p, m
  <2>3. m + p <= Capacity
    BY <1>1, <1>2, <2>2, IntakeAssumption
  <2>4. m + p <= Capacity + (IF Load' \cap overflowed' # {} THEN 1 ELSE 0)
    BY <1>2, <2>2, <2>3, IntakeAssumption
  <2> QED
    BY <2>4 DEF Counted, CapacityKept, m, p
<1>5. CASE recovering \notin resumed \cup {0}
  <2>1. Load' \subseteq Pending' \cup {recovering} /\ recovering \in Load' \cap overflowed'
    BY <1>5 DEF Load, Counted
  <2>2. m <= d + 1 /\ m \in Nat
    BY <1>3, <2>1, OneMore
  <2> HIDE DEF c, d, o, p, m
  <2>3. m + p <= Capacity + 1
    BY <1>1, <1>2, <2>2, IntakeAssumption
  <2> QED
    BY <2>1, <2>3 DEF Counted, CapacityKept, m, p
<1> QED
  BY <1>4, <1>5

-----------------------------------------------------------------------------
\* The steps of the dispatcher and the operator change the status of turns, those of a
\* restart also take the handlers and the loop away.
LEMMA StatusKeeps ==
  ASSUME IInv, turns' \in Seq(Turn), Len(turns') = Len(turns), SameTurns,
         UNCHANGED <<batches, callbacks, row, batchOf>>,
         tried' \subseteq DOMAIN turns, recovering' \in 0..Len(turns),
         resumed' \subseteq DOMAIN turns, overflowed' \subseteq DOMAIN turns,
         crashes' \in 0..MaxCrashes, env' = env,
         clearing' \in BOOLEAN, timer' \in BOOLEAN,
         Load' \subseteq Load, overflowed \subseteq overflowed',
         recovering' # 0 => recovering' \in overflowed',
         \/ UNCHANGED <<handling, flushing, linking, online>>
         \/ /\ handling' = [m \in Msg |-> "idle"]
            /\ flushing' = {} /\ linking' = 0 /\ online' = FALSE
  PROVE  IInv'
<1>1. TypeOK'
  <2>1. /\ handling' \in [Msg -> {"idle", "chat", "media"}] /\ online' \in BOOLEAN
        /\ flushing' \subseteq DOMAIN batches /\ linking' \in 0..Len(turns)
    <3>1. /\ handling \in [Msg -> {"idle", "chat", "media"}] /\ online \in BOOLEAN
          /\ flushing \subseteq DOMAIN batches /\ linking \in 0..Len(turns)
          /\ Len(turns) \in Nat
      BY Shapes DEF IInv, TypeOK
    <3>2. CASE UNCHANGED <<handling, flushing, linking, online>>
      BY <3>1, <3>2
    <3>3. CASE /\ handling' = [m \in Msg |-> "idle"]
               /\ flushing' = {} /\ linking' = 0 /\ online' = FALSE
      <4>1. handling' \in [Msg -> {"idle", "chat", "media"}]
        BY <3>3
      <4>2. flushing' \subseteq DOMAIN batches /\ linking' \in 0..Len(turns)
        BY <3>1, <3>3
      <4> QED
        BY <3>3, <4>1, <4>2
    <3> QED
      BY <3>2, <3>3
  <2>2. DOMAIN turns' = DOMAIN turns
    BY DEF SameTurns
  <2> QED
    BY <2>1, <2>2 DEF IInv, TypeOK, Turn
<1>2. Structure'
  BY StructureStays DEF IInv, SameBatches
<1>3. Open' = Open
  BY DEF Open
<1>4. Progress'
  <2>1. Unbatched' /\ Offline'
    BY DEF IInv, Progress, Unbatched, Offline
  <2>2. Flushed'
    BY <1>3 DEF SameTurns, IInv, Progress, Flushed, IsFirst
  <2>3. HalfFlushed'
    BY <1>3 DEF SameTurns, IInv, Progress, HalfFlushed, MsgsOf
  <2> QED
    BY <2>1, <2>2, <2>3 DEF Progress
<1>5. Counted'
  BY <1>3, CapacityStays DEF IInv
<1> QED
  BY <1>1, <1>2, <1>4, <1>5 DEF IInv

\* The status of one turn.
LEMMA SetStatus ==
  ASSUME TypeOK, NEW i \in DOMAIN turns, NEW st \in TurnStatus,
         turns' = [turns EXCEPT ![i].st = st]
  PROVE  /\ turns' \in Seq(Turn) /\ Len(turns') = Len(turns) /\ SameTurns
         /\ turns'[i].st = st
         /\ \A k \in DOMAIN turns : k # i => turns'[k] = turns[k]
<1>1. turns \in Seq(Turn) /\ turns[i] \in Turn
  BY Shapes
<1>2. /\ DOMAIN turns' = DOMAIN turns
      /\ turns'[i] = [turns[i] EXCEPT !.st = st]
      /\ \A k \in DOMAIN turns : k # i => turns'[k] = turns[k]
  BY <1>1
<1>3. /\ turns'[i] \in Turn /\ turns'[i].st = st
      /\ turns'[i].in = turns[i].in /\ turns'[i].seq = turns[i].seq
      /\ turns'[i].msgs = turns[i].msgs
  BY <1>1, <1>2 DEF Turn
<1>4. turns' \in Seq(Turn) /\ Len(turns') = Len(turns)
  BY <1>1, <1>2, <1>3, Shapes
<1> QED
  BY <1>2, <1>3, <1>4 DEF SameTurns

\* The turns that run are cut off.
LEMMA CutOffTurns ==
  ASSUME TypeOK, NEW again, CutOff(again)
  PROVE  /\ turns' \in Seq(Turn) /\ Len(turns') = Len(turns) /\ SameTurns
         /\ Pending' \subseteq Pending /\ tried' \subseteq DOMAIN turns
<1>1. /\ turns \in Seq(Turn) /\ DOMAIN turns = 1..Len(turns) /\ Len(turns) \in Nat
      /\ \A i \in DOMAIN turns : turns[i] \in Turn
  BY Shapes
<1>2. /\ DOMAIN turns' = DOMAIN turns
      /\ \A i \in DOMAIN turns :
           \/ turns'[i] = turns[i]
           \/ turns[i].st = "running" /\ \E st \in {"queued", "interrupted"} :
                                           turns'[i] = [turns[i] EXCEPT !.st = st]
  BY DEF CutOff, Running
<1>3. \A i \in DOMAIN turns :
        /\ turns'[i] \in Turn /\ turns'[i].in = turns[i].in /\ turns'[i].seq = turns[i].seq
        /\ turns'[i].msgs = turns[i].msgs
        /\ turns'[i].st \in {"queued", "running"} => turns[i].st \in {"queued", "running"}
  <2> SUFFICES ASSUME NEW i \in DOMAIN turns
               PROVE  /\ turns'[i] \in Turn /\ turns'[i].in = turns[i].in /\ turns'[i].seq = turns[i].seq
                      /\ turns'[i].msgs = turns[i].msgs
                      /\ turns'[i].st \in {"queued", "running"} => turns[i].st \in {"queued", "running"}
    OBVIOUS
  <2>1. turns[i] \in Turn
    BY <1>1
  <2>2. CASE turns'[i] = turns[i]
    BY <2>1, <2>2
  <2>3. ASSUME NEW st \in {"queued", "interrupted"}, turns[i].st = "running",
               turns'[i] = [turns[i] EXCEPT !.st = st]
        PROVE  /\ turns'[i] \in Turn /\ turns'[i].in = turns[i].in /\ turns'[i].seq = turns[i].seq
               /\ turns'[i].msgs = turns[i].msgs
    BY <2>1, <2>3 DEF Turn, TurnStatus
  <2> QED
    BY <1>2, <2>2, <2>3
<1>4. turns' \in Seq(Turn) /\ Len(turns') = Len(turns)
  <2>1. turns' = [i \in DOMAIN turns' |-> turns'[i]]
    BY DEF CutOff
  <2>2. turns' \in [1..Len(turns) -> Turn]
    BY <1>1, <1>2, <1>3, <2>1
  <2>3. turns' \in Seq(Turn)
    BY <1>1, <2>2, SeqDef
  <2> QED
    BY <1>1, <2>2, <2>3
<1>5. SameTurns
  BY <1>2, <1>3 DEF SameTurns
<1>6. Pending' \subseteq Pending
  BY <1>2, <1>3 DEF Pending
<1>7. tried' \subseteq DOMAIN turns
  BY DEF CutOff, Running, TypeOK
<1> QED
  BY <1>4, <1>5, <1>6, <1>7

LEMMA DispatchSteps ==
  ASSUME IInv, NEW i \in DOMAIN turns,
         Begin(i) \/ Finish(i) \/ Interrupt(i) \/ Resume(i) \/ Defer(i) \/ Overflow(i)
  PROVE  IInv'
<1>1. TypeOK /\ tried \subseteq DOMAIN turns /\ resumed \subseteq DOMAIN turns
      /\ overflowed \subseteq DOMAIN turns /\ recovering \in 0..Len(turns)
      /\ crashes \in 0..MaxCrashes /\ clearing \in BOOLEAN /\ timer \in BOOLEAN
      /\ (recovering # 0 => recovering \in overflowed)
  BY DEF IInv, TypeOK, Counted
<1>2. i \in 0..Len(turns) /\ i # 0
  BY <1>1, Shapes
<1>3. ASSUME NEW st \in TurnStatus, turns' = [turns EXCEPT ![i].st = st],
             \/ UNCHANGED <<recovering, resumed, overflowed>>
             \/ UNCHANGED <<recovering, overflowed>> /\ resumed' = resumed \cup {i}
             \/ recovering' = i /\ UNCHANGED resumed /\ overflowed' = overflowed \cup {i}
                /\ turns[i].st = "running" /\ st = "interrupted",
             st \in {"queued", "running"} =>
               turns[i].st \in {"queued", "running"} \/ resumed' = resumed \cup {i},
             tried' \subseteq tried \cup {i},
             UNCHANGED <<batches, callbacks, row, batchOf, proc, crashes, env>>
      PROVE  IInv'
  <2>1. /\ turns' \in Seq(Turn) /\ Len(turns') = Len(turns) /\ SameTurns
        /\ turns'[i].st = st
        /\ \A k \in DOMAIN turns : k # i => turns'[k] = turns[k]
    BY <1>1, <1>3, SetStatus
  <2>2. Pending' \subseteq Pending \cup {i}
    BY <2>1 DEF Pending, SameTurns
  <2>3. i \in Pending' => i \in Pending \/ i \in resumed'
    BY <1>3, <2>1 DEF Pending
  <2>4. i \in Load \/ recovering' = recovering \/ i \in resumed
    BY <1>3 DEF Load, Pending
  <2>5. Load' \subseteq Load
    BY <1>2, <1>3, <2>2, <2>3, <2>4 DEF Load
  <2>6. tried' \subseteq DOMAIN turns /\ resumed' \subseteq DOMAIN turns
        /\ overflowed' \subseteq DOMAIN turns
        /\ overflowed \subseteq overflowed' /\ recovering' \in 0..Len(turns)
        /\ (recovering' # 0 => recovering' \in overflowed')
    BY <1>1, <1>2, <1>3
  <2> QED
    BY <1>1, <1>3, <2>1, <2>5, <2>6, StatusKeeps DEF proc
<1>4. {"queued", "running", "interrupted", "done"} \subseteq TurnStatus
  BY DEF TurnStatus
<1>5. CASE Begin(i)
  BY <1>3, <1>4, <1>5 DEF Begin, IsNext, recovery, hist
<1>6. CASE Finish(i)
  BY <1>3, <1>4, <1>6 DEF Finish, recovery, hist
<1>7. CASE Interrupt(i)
  BY <1>3, <1>4, <1>7 DEF Interrupt, recovery, hist
<1>8. CASE Resume(i)
  BY <1>3, <1>4, <1>8 DEF Resume
<1>9. CASE Defer(i)
  BY <1>3, <1>4, <1>9 DEF Defer, hist
<1>10. CASE Overflow(i)
  BY <1>3, <1>4, <1>10 DEF Overflow
<1> QED
  BY <1>5, <1>6, <1>7, <1>8, <1>9, <1>10

\* The end of a compaction: the turn was counted all the time.
LEMMA CompactionKeeps == ASSUME IInv, CompactionEnds PROVE IInv'
<1>1. TypeOK /\ tried \subseteq DOMAIN turns /\ resumed \subseteq DOMAIN turns
      /\ overflowed \subseteq DOMAIN turns /\ crashes \in 0..MaxCrashes
      /\ clearing \in BOOLEAN /\ timer \in BOOLEAN
  BY DEF IInv, TypeOK
<1>2. recovering \in DOMAIN turns /\ recovering # 0 /\ 0 \in 0..Len(turns)
  BY <1>1, Shapes DEF CompactionEnds, TypeOK
<1>3. PICK st \in {"queued", "done"} : turns' = [turns EXCEPT ![recovering].st = st]
  BY DEF CompactionEnds
<1>4. /\ turns' \in Seq(Turn) /\ Len(turns') = Len(turns) /\ SameTurns
      /\ \A k \in DOMAIN turns : k # recovering => turns'[k] = turns[k]
  BY <1>1, <1>2, <1>3, SetStatus DEF TurnStatus
<1>5. UNCHANGED <<batches, callbacks, row, batchOf, proc, tried, resumed, overflowed, crashes, env>>
      /\ recovering' = 0
  BY DEF CompactionEnds, hist
<1>6. Pending' \subseteq Pending \cup {recovering}
  BY <1>4 DEF Pending, SameTurns
<1>7. Load' \subseteq Load
  BY <1>2, <1>5, <1>6 DEF Load
<1> QED
  BY <1>1, <1>2, <1>4, <1>5, <1>7, StatusKeeps DEF proc

LEMMA ExitKeeps == ASSUME IInv, CodexExits PROVE IInv'
<1>1. PICK again \in SUBSET Running : CutOff(again)
  BY DEF CodexExits
<1>2. /\ turns' \in Seq(Turn) /\ Len(turns') = Len(turns) /\ SameTurns
      /\ Pending' \subseteq Pending /\ tried' \subseteq DOMAIN turns
  BY <1>1, CutOffTurns DEF IInv
<1>3. UNCHANGED <<batches, callbacks, row, batchOf, proc, recovering, resumed, overflowed, crashes, env>>
  BY DEF CodexExits, hist
<1>4. Load' \subseteq Load
  BY <1>2, <1>3 DEF Load
<1>5. /\ resumed' \subseteq DOMAIN turns /\ overflowed' \subseteq DOMAIN turns
      /\ recovering' \in 0..Len(turns) /\ crashes' \in 0..MaxCrashes
      /\ overflowed \subseteq overflowed' /\ (recovering' # 0 => recovering' \in overflowed')
  BY <1>3 DEF IInv, TypeOK, Counted
<1>6. clearing' \in BOOLEAN /\ timer' \in BOOLEAN
  BY <1>3 DEF proc, IInv, TypeOK
<1> QED
  BY <1>2, <1>3, <1>4, <1>5, <1>6, StatusKeeps DEF proc

LEMMA RestartKeeps == ASSUME IInv, Restart PROVE IInv'
<1>1. PICK again \in SUBSET Running : CutOff(again)
  BY DEF Restart
<1>2. /\ turns' \in Seq(Turn) /\ Len(turns') = Len(turns) /\ SameTurns
      /\ Pending' \subseteq Pending /\ tried' \subseteq DOMAIN turns
  BY <1>1, CutOffTurns DEF IInv
<1>3. Load' \subseteq Load
  BY <1>2 DEF Load, Restart
<1>4. crashes' \in 0..MaxCrashes
  BY IntakeAssumption DEF Restart, IInv, TypeOK
<1>5. timer' \in BOOLEAN /\ clearing' \in BOOLEAN /\ resumed' \subseteq DOMAIN turns
      /\ overflowed' \subseteq DOMAIN turns /\ overflowed \subseteq overflowed'
  BY DEF Restart, Reschedule, IInv, TypeOK
<1>6. recovering' = 0 /\ 0 \in 0..Len(turns)
  BY Shapes DEF Restart, IInv
<1> QED
  BY <1>2, <1>3, <1>4, <1>5, <1>6, StatusKeeps DEF Restart

-----------------------------------------------------------------------------
\* A turn is created: of the browser, or by the loop for its first batch.
LEMMA BrowserKeeps == ASSUME IInv, NEW w \in Web, CreateFromBrowser(w) PROVE IInv'
<1>1. /\ turns' = Append(turns, NewTurn(w, NextSequence, {}))
      /\ UNCHANGED <<batches, callbacks, row, batchOf, handling, flushing, linking, timer,
                     clearing, online, tried, recovering, resumed, overflowed, crashes, env>>
  BY DEF CreateFromBrowser, proc, recovery, hist
<1>2. TypeOK /\ Structure /\ NextSequence \in Nat
  BY NextIsGreater DEF IInv, Structure
<1>3. \A i \in DOMAIN turns : turns[i].in # w
  BY <1>2, NoTurnYet DEF CreateFromBrowser
<1>4. /\ Structure'
      /\ turns' \in Seq(Turn) /\ Len(turns') = Len(turns) + 1
      /\ turns'[Len(turns) + 1] = NewTurn(w, NextSequence, {})
      /\ \A i \in DOMAIN turns : turns'[i] = turns[i]
  BY <1>1, <1>2, <1>3, StructureAdds
<1>5. /\ Len(turns) \in Nat /\ DOMAIN turns = 1..Len(turns)
      /\ DOMAIN turns' = 1..(Len(turns) + 1)
  BY <1>2, <1>4, Shapes
<1>6. /\ DOMAIN turns \subseteq DOMAIN turns'
      /\ \A i \in DOMAIN turns' : i \in DOMAIN turns \/ i = Len(turns) + 1
  BY <1>5
<1>7. TypeOK'
  <2>1. /\ linking' \in 0..Len(turns') /\ recovering' \in 0..Len(turns') /\ tried' \subseteq DOMAIN turns'
        /\ resumed' \subseteq DOMAIN turns' /\ overflowed' \subseteq DOMAIN turns'
    BY <1>1, <1>4, <1>5, <1>6 DEF IInv, TypeOK
  <2> QED
    BY <1>1, <1>4, <2>1 DEF IInv, TypeOK, Turn
<1>8. Progress'
  <2>1. Open' = Open /\ \A b : MsgsOf(b)' = MsgsOf(b)
    BY <1>1 DEF Open, MsgsOf
  <2>2. Unbatched' /\ Offline'
    BY <1>1 DEF IInv, Progress, Unbatched, Offline
  <2>3. Flushed'
    BY <1>1, <1>4, <1>6, <2>1 DEF IInv, Progress, Flushed, IsFirst
  <2>4. w \notin Open
    BY <1>2, IntakeAssumption, Shapes DEF Open
  <2>5. turns'[Len(turns) + 1].in \notin Open'
    BY <1>4, <2>1, <2>4 DEF NewTurn
  <2>6. HalfFlushed'
    BY <1>1, <1>4, <1>6, <2>1, <2>5 DEF IInv, Progress, HalfFlushed
  <2> QED
    BY <2>2, <2>3, <2>6 DEF Progress
<1>9. Counted'
  <2>1. Pending' \subseteq Pending \cup {Len(turns) + 1} /\ Open' \subseteq Open
    BY <1>1, <1>4, <1>6 DEF Pending, Open
  <2> QED
    BY <1>1, <1>2, <2>1, CapacityAdds DEF CreateFromBrowser, MayCreate, IInv
<1> QED
  BY <1>4, <1>7, <1>8, <1>9 DEF IInv

LEMMA FlushCreateKeeps == ASSUME IInv, NEW b \in flushing, FlushCreate(b) PROVE IInv'
<1>1. UNCHANGED <<batches, callbacks, row, batchOf, handling, flushing, timer, clearing,
                  online, tried, recovering, resumed, overflowed, crashes, env>>
  BY DEF FlushCreate, recovery, hist
<1>2. TypeOK /\ Structure /\ b \in DOMAIN batches /\ b \in Open /\ batches[b].due /\ b \in Nat
      /\ IsFirst(b)
  <2>1. TypeOK /\ Structure
    BY DEF IInv
  <2>2. b \in Open /\ batches[b].due /\ IsFirst(b)
    BY DEF FlushCreate, IInv, Progress, Flushed
  <2>3. b \in DOMAIN batches
    BY <2>2 DEF Open
  <2>4. b \in Nat
    BY <2>1, <2>3, Shapes
  <2> QED
    BY <2>1, <2>2, <2>3, <2>4
<1>3. Open' = Open /\ \A c : MsgsOf(c)' = MsgsOf(c) /\ IsFirst(c)' = IsFirst(c)
  BY <1>1 DEF Open, MsgsOf, IsFirst
<1>4. Unbatched' /\ Offline'
  BY <1>1 DEF IInv, Progress, Unbatched, Offline
<1>5. CASE FindByIngress(b) # 0
  <2>1. turns' = turns /\ linking' \in DOMAIN turns /\ turns[linking'].in = b
    BY <1>5, TurnFound DEF FlushCreate
  <2>2. TypeOK'
    <3>1. linking' \in 0..Len(turns)
      BY <1>2, <2>1, Shapes
    <3> QED
      BY <1>1, <2>1, <3>1 DEF IInv, TypeOK
  <2>3. Structure'
    BY <1>1, <2>1, StructureStays DEF IInv, SameTurns, SameBatches
  <2>4. Flushed'
    BY <1>1, <1>2, <1>3, <2>1 DEF IInv, Progress, Flushed
  <2>5. HalfFlushed'
    BY <1>1, <1>3, <2>1 DEF IInv, Progress, HalfFlushed
  <2>6. Counted'
    BY <1>1, <1>3, <2>1 DEF IInv, Counted, CapacityKept, Load, Pending
  <2> QED
    BY <1>4, <2>2, <2>3, <2>4, <2>5, <2>6 DEF IInv, Progress
<1>6. CASE FindByIngress(b) = 0
  <2>1. /\ turns' = Append(turns, NewTurn(b, batches[b].seq, MsgsOf(b)))
        /\ linking' = Len(turns) + 1
    BY <1>6 DEF FlushCreate, MsgsOf
  <2>2. \A i \in DOMAIN turns : turns[i].in # b
    BY <1>2, <1>6, NoTurnYet
  <2>3. batches[b].seq \in Nat /\ MsgsOf(b) \in SUBSET Msg
    BY <1>2, Shapes DEF Batch, MsgsOf
  <2>4. /\ Structure'
        /\ turns' \in Seq(Turn) /\ Len(turns') = Len(turns) + 1
        /\ turns'[Len(turns) + 1] = NewTurn(b, batches[b].seq, MsgsOf(b))
        /\ \A i \in DOMAIN turns : turns'[i] = turns[i]
    BY <1>1, <1>2, <2>1, <2>2, <2>3, StructureAdds
  <2>5. /\ Len(turns) \in Nat /\ DOMAIN turns = 1..Len(turns)
        /\ DOMAIN turns' = 1..(Len(turns) + 1)
    BY <1>2, <2>4, Shapes
  <2>6. /\ DOMAIN turns \subseteq DOMAIN turns' /\ Len(turns) + 1 \in DOMAIN turns'
        /\ \A i \in DOMAIN turns' : i \in DOMAIN turns \/ i = Len(turns) + 1
    BY <2>5
  <2>7. turns'[Len(turns) + 1].in = b /\ turns'[Len(turns) + 1].msgs = MsgsOf(b)
    BY <2>4 DEF NewTurn
  <2>8. TypeOK'
    <3>1. /\ linking' \in 0..Len(turns') /\ recovering' \in 0..Len(turns') /\ tried' \subseteq DOMAIN turns'
        /\ resumed' \subseteq DOMAIN turns' /\ overflowed' \subseteq DOMAIN turns'
      BY <1>1, <2>1, <2>4, <2>5, <2>6 DEF IInv, TypeOK
    <3> QED
      BY <1>1, <2>4, <3>1 DEF IInv, TypeOK, Turn
  <2>9. Flushed'
    BY <1>1, <1>2, <1>3, <2>1, <2>6, <2>7 DEF IInv, Progress, Flushed
  <2>10. HalfFlushed'
    BY <1>1, <1>2, <1>3, <2>4, <2>6, <2>7 DEF IInv, Progress, HalfFlushed
  <2>11. Counted'
    <3>1. Pending' \subseteq Pending \cup {Len(turns) + 1} /\ Open' \subseteq Open
      BY <1>3, <2>4, <2>6 DEF Pending
    <3> QED
      BY <1>1, <1>2, <3>1, CapacityAdds DEF FlushCreate, MayCreate, IInv
  <2> QED
    BY <1>4, <2>4, <2>8, <2>9, <2>10, <2>11 DEF IInv, Progress
<1> QED
  BY <1>5, <1>6

-----------------------------------------------------------------------------
\* The loop ends with a batch, and its timer.

\* What a step makes of one batch.
LEMMA SetBatch ==
  ASSUME TypeOK, NEW b \in DOMAIN batches, NEW e \in Batch,
         batches' = [batches EXCEPT ![b] = e], e.seq = batches[b].seq
  PROVE  /\ batches' \in Seq(Batch) /\ Len(batches') = Len(batches) /\ SameBatches
         /\ batches'[b] = e
         /\ \A c \in DOMAIN batches : c # b => batches'[c] = batches[c]
<1>1. batches \in Seq(Batch)
  BY Shapes
<1>2. /\ DOMAIN batches' = DOMAIN batches /\ batches'[b] = e
      /\ \A c \in DOMAIN batches : c # b => batches'[c] = batches[c]
  BY <1>1
<1>3. batches' \in Seq(Batch) /\ Len(batches') = Len(batches)
  BY <1>1
<1> QED
  BY <1>2, <1>3 DEF SameBatches

LEMMA ElapseKeeps == ASSUME IInv, NEW b \in DOMAIN batches, Elapse(b) PROVE IInv'
<1> DEFINE e == [batches[b] EXCEPT !.due = TRUE]
<1>1. TypeOK /\ batches[b] \in Batch
  BY Shapes DEF IInv
<1>2. e \in Batch /\ e.seq = batches[b].seq /\ e.due = TRUE /\ e.st = batches[b].st
      /\ e.turn = batches[b].turn
  BY <1>1 DEF Batch
<1>3. batches' = [batches EXCEPT ![b] = e]
  BY DEF Elapse
<1> HIDE DEF e
<1>4. /\ batches' \in Seq(Batch) /\ Len(batches') = Len(batches) /\ SameBatches
      /\ batches'[b] = e
      /\ \A c \in DOMAIN batches : c # b => batches'[c] = batches[c]
  BY <1>1, <1>2, <1>3, SetBatch
<1>5. UNCHANGED <<turns, callbacks, row, batchOf, handling, flushing, linking, timer, clearing,
                  online, tried, recovering, resumed, overflowed, crashes, env>>
  BY DEF Elapse, proc, recovery, hist
<1>6. DOMAIN batches' = DOMAIN batches
      /\ \A c \in DOMAIN batches : /\ batches'[c].st = batches[c].st
                                   /\ batches'[c].turn = batches[c].turn
                                   /\ batches'[c].seq = batches[c].seq
                                   /\ batches[c].due => batches'[c].due
  BY <1>2, <1>4 DEF SameBatches
<1>7. TypeOK'
  BY <1>4, <1>5, <1>6 DEF IInv, TypeOK, Batch
<1>8. Structure'
  BY <1>4, <1>5, <1>6, StructureStays DEF IInv, SameTurns
<1>9. Open' = Open /\ \A c : MsgsOf(c)' = MsgsOf(c)
  BY <1>5, <1>6 DEF Open, MsgsOf
<1>10. Unbatched' /\ Offline'
  BY <1>5 DEF IInv, Progress, Unbatched, Offline
<1>11. flushing = {}
  BY DEF Elapse, Idle
<1>12. Flushed'
  BY <1>5, <1>11 DEF IInv, Progress, Flushed
<1>13. HalfFlushed'
  BY <1>5, <1>6, <1>9 DEF IInv, Progress, HalfFlushed, Open
<1>14. Counted'
  BY <1>5, <1>9 DEF IInv, Counted, CapacityKept, Load, Pending
<1> QED
  BY <1>7, <1>8, <1>10, <1>12, <1>13, <1>14 DEF IInv, Progress

\* The batch leaves the loop, queued or rejected.
LEMMA BatchDone ==
  ASSUME IInv, NEW b \in flushing, NEW e \in Batch, IsFirst(b),
         batches' = [batches EXCEPT ![b] = e], e.seq = batches[b].seq, e.st # "open",
         row' \in [Msg -> RowStatus],
         \A m \in Msg : row'[m] = "none" => row[m] = "none",
         NextBatch(b),
         UNCHANGED <<turns, callbacks, batchOf, handling, clearing, online, tried, recovering,
                     resumed, overflowed, crashes, env>>,
         e.st = "queued" => /\ e.turn \in DOMAIN turns
                            /\ turns[e.turn].msgs = MsgsOf(b)
  PROVE  IInv'
<1>1. TypeOK /\ b \in DOMAIN batches
  BY DEF IInv, TypeOK
<1>2. /\ batches' \in Seq(Batch) /\ Len(batches') = Len(batches) /\ SameBatches
      /\ batches'[b] = e
      /\ \A c \in DOMAIN batches : c # b => batches'[c] = batches[c]
  BY <1>1, SetBatch
<1>3. flushing' = flushing \ {b} /\ linking' = 0 /\ timer' \in BOOLEAN
  BY DEF NextBatch, Reschedule
<1>4. DOMAIN batches' = DOMAIN batches
  BY <1>2 DEF SameBatches
<1>5. TypeOK'
  <2>1. linking' \in 0..Len(turns')
    BY <1>1, <1>3, Shapes
  <2>2. flushing' \subseteq DOMAIN batches'
    BY <1>3, <1>4 DEF IInv, TypeOK
  <2> QED
    BY <1>2, <1>3, <2>1, <2>2 DEF IInv, TypeOK, Batch
<1>6. \A c : MsgsOf(c)' = MsgsOf(c)
  BY DEF MsgsOf
<1>7. QueuedComplete'
  BY <1>2, <1>4, <1>6 DEF IInv, Structure, QueuedComplete
<1>8. Structure'
  BY <1>2, <1>6, <1>7, StructureMoves DEF IInv, SameTurns
<1>9. Open' = Open \ {b}
  BY <1>2, <1>4 DEF Open
<1>10. Unbatched' /\ Offline'
  BY DEF IInv, Progress, Unbatched, Offline
<1>11. Flushed'
  BY <1>2, <1>3, <1>4, <1>9 DEF IInv, Progress, Flushed, Open
<1>12. HalfFlushed'
  BY <1>2, <1>3, <1>6, <1>9 DEF IInv, Progress, HalfFlushed, Open
<1>13. Counted'
  <2>1. Load' \subseteq Load /\ Open' \subseteq Open
    BY <1>9 DEF Load, Pending
  <2> QED
    BY <2>1, CapacityStays DEF IInv, Counted
<1> QED
  BY <1>5, <1>8, <1>10, <1>11, <1>12, <1>13 DEF IInv, Progress

LEMMA LinkKeeps == ASSUME IInv, NEW b \in flushing, FlushLink(b) PROVE IInv'
<1> DEFINE e == [batches[b] EXCEPT !.st = "queued", !.turn = linking]
<1>1. TypeOK /\ b \in DOMAIN batches /\ batches[b] \in Batch /\ linking \in Nat
  BY Shapes DEF IInv, TypeOK
<1>2. e \in Batch /\ e.seq = batches[b].seq /\ e.st = "queued" /\ e.turn = linking
  BY <1>1 DEF Batch, BatchStatus
<1>3. batches' = [batches EXCEPT ![b] = e]
  BY <1>1 DEF FlushLink
<1> HIDE DEF e
<1>4. linking \in DOMAIN turns /\ turns[linking].in = b
  <2>1. PICK c \in flushing : IsFirst(c) /\ turns[linking].in = c
    BY DEF FlushLink, IInv, Progress, Flushed
  <2>2. batches[b].seq \in Nat /\ batches[c].seq \in Nat /\ c \in DOMAIN batches
    BY <1>1, Shapes DEF IInv, TypeOK, Batch
  <2>3. batches[b].seq = batches[c].seq
    BY <2>1, <2>2 DEF FlushLink, IsFirst
  <2>4. b = c
    BY <1>1, <2>2, <2>3 DEF IInv, Structure, PlacesApart
  <2> QED
    BY <2>1, <2>4 DEF FlushLink, IInv, Progress, Flushed
<1>5. turns[linking].msgs = MsgsOf(b)
  <2>1. b \in Open
    BY DEF IInv, Progress, Flushed
  <2> QED
    BY <1>4, <2>1 DEF IInv, Progress, HalfFlushed
<1>6. /\ row' \in [Msg -> RowStatus]
      /\ \A m \in Msg : row'[m] = "none" => row[m] = "none"
  BY DEF FlushLink, Routed, RowStatus, IInv, TypeOK
<1> QED
  BY <1>2, <1>3, <1>4, <1>5, <1>6, BatchDone DEF FlushLink, recovery, hist

LEMMA RejectKeeps == ASSUME IInv, NEW b \in flushing, FlushReject(b) PROVE IInv'
<1> DEFINE e == [batches[b] EXCEPT !.st = "rejected"]
<1>1. TypeOK /\ b \in DOMAIN batches /\ batches[b] \in Batch
  BY Shapes DEF IInv, TypeOK
<1>2. e \in Batch /\ e.seq = batches[b].seq /\ e.st = "rejected"
  BY <1>1 DEF Batch, BatchStatus
<1>3. batches' = [batches EXCEPT ![b] = e]
  BY DEF FlushReject
<1> HIDE DEF e
<1> QED
  BY <1>2, <1>3, BatchDone DEF FlushReject, recovery, hist, IInv, TypeOK

-----------------------------------------------------------------------------
\* A message enters a batch: an open one has no turn then, since the loop is not under
\* way and a handler runs.
LEMMA NoTurnOpen ==
  ASSUME IInv, Idle, NEW m \in Msg, handling[m] # "idle"
  PROVE  online = TRUE /\ \A i \in DOMAIN turns : turns[i].in \notin Open
<1>1. online = TRUE
  BY DEF IInv, TypeOK, Progress, Offline
<1> QED
  BY <1>1 DEF Idle, IInv, Progress, HalfFlushed

\* addToBatch, as a part of the step of a handler that ends with it.
LEMMA AddKeeps ==
  ASSUME IInv, Idle, NEW m \in Msg, handling[m] # "idle", batchOf[m] = 0,
         handling' = [handling EXCEPT ![m] = "idle"], AddToBatch(m),
         UNCHANGED <<turns, callbacks, flushing, linking, clearing, online, tried, recovering,
                     resumed, overflowed, crashes, env>>
  PROVE  IInv'
<1>1. TypeOK /\ Structure /\ flushing = {} /\ online = TRUE
      /\ \A i \in DOMAIN turns : turns[i].in \notin Open
  BY NoTurnOpen DEF IInv, Idle
<1>2. /\ batches \in Seq(Batch) /\ Len(batches) \in Nat /\ DOMAIN batches = 1..Len(batches)
      /\ \A b \in DOMAIN batches : batches[b] \in Batch
  BY <1>1, Shapes
<1>3. handling' \in [Msg -> {"idle", "chat", "media"}]
  BY <1>1 DEF TypeOK
<1>4. \A k \in Msg : handling'[k] = IF k = m THEN "idle" ELSE handling[k]
  BY DEF IInv, TypeOK
<1>5. Offline'
  BY <1>1 DEF Offline
<1>6. SameTurns
  BY DEF SameTurns
<1>7. linking = 0 /\ linking' = 0
  BY <1>1 DEF IInv, Progress, Flushed
<1>8. Flushed'
  BY <1>1, <1>7 DEF Flushed
<1>9. CASE PendingCount >= Capacity
  <2>1. row' = [row EXCEPT ![m] = "failed"] /\ UNCHANGED <<batches, batchOf, timer>>
    BY <1>9 DEF AddToBatch
  <2>2. row' \in [Msg -> RowStatus] /\ \A k \in Msg : row'[k] = "none" => row[k] = "none"
    BY <2>1 DEF RowStatus, IInv, TypeOK
  <2>3. TypeOK'
    BY <1>3, <2>1, <2>2 DEF IInv, TypeOK
  <2>4. Structure'
    BY <1>1, <1>6, <2>1, StructureStays DEF SameBatches
  <2>5. Unbatched'
    BY <1>4, <2>1, <2>2 DEF IInv, Progress, Unbatched
  <2>6. HalfFlushed' /\ Counted'
    BY <2>1 DEF IInv, Progress, HalfFlushed, Counted, CapacityKept, Load, Open, Pending, MsgsOf
  <2> QED
    BY <1>5, <1>8, <2>3, <2>4, <2>5, <2>6 DEF IInv, Progress
<1>10. ASSUME row' = [row EXCEPT ![m] = "batched"], NEW b \in Nat,
              batchOf' = [batchOf EXCEPT ![m] = b]
       PROVE  /\ row' \in [Msg -> RowStatus] /\ Unbatched'
              /\ \A c : c # b /\ c # 0 => MsgsOf(c)' = MsgsOf(c)
              /\ \A c : c # 0 => MsgsOf(c) \subseteq MsgsOf(c)'
  <2>1. row' \in [Msg -> RowStatus]
    BY <1>10 DEF RowStatus, IInv, TypeOK
  <2>2. \A k \in Msg : /\ row'[k] = IF k = m THEN "batched" ELSE row[k]
                       /\ batchOf'[k] = IF k = m THEN b ELSE batchOf[k]
    BY <1>10 DEF IInv, TypeOK
  <2>3. Unbatched'
    BY <1>4, <2>2 DEF IInv, Progress, Unbatched
  <2>4. \A c : c # b /\ c # 0 => MsgsOf(c)' = MsgsOf(c)
    BY <2>2 DEF MsgsOf
  <2>5. \A c : c # 0 => MsgsOf(c) \subseteq MsgsOf(c)'
    BY <2>2 DEF MsgsOf
  <2> QED
    BY <2>1, <2>3, <2>4, <2>5
<1>11. ASSUME ~(PendingCount >= Capacity), NEW b \in DOMAIN batches, CanAppend(b),
              batches' = [batches EXCEPT ![b].due =
                           Cardinality({k \in Msg : batchOf[k] = b}) + 1 >= BatchLimit],
              batchOf' = [batchOf EXCEPT ![m] = b],
              row' = [row EXCEPT ![m] = "batched"], timer' = TRUE
       PROVE  IInv'
  <2> DEFINE full == Cardinality({k \in Msg : batchOf[k] = b}) + 1 >= BatchLimit
             e == [batches[b] EXCEPT !.due = full]
  <2>1. b \in Nat /\ b # 0 /\ b \in Open /\ batches[b] \in Batch
    BY <1>2, <1>11 DEF CanAppend
  <2>2. full \in BOOLEAN
    OBVIOUS
  <2>3. batches' = [batches EXCEPT ![b] = e]
    BY <1>11
  <2> HIDE DEF full
  <2>4. e \in Batch /\ e.seq = batches[b].seq /\ e.st = batches[b].st /\ e.turn = batches[b].turn
    BY <2>1, <2>2 DEF Batch
  <2> HIDE DEF e
  <2>5. /\ batches' \in Seq(Batch) /\ Len(batches') = Len(batches) /\ SameBatches
        /\ batches'[b] = e
        /\ \A c \in DOMAIN batches : c # b => batches'[c] = batches[c]
    BY <1>1, <2>3, <2>4, SetBatch
  <2>6. /\ row' \in [Msg -> RowStatus] /\ Unbatched'
        /\ \A c : c # b /\ c # 0 => MsgsOf(c)' = MsgsOf(c)
        /\ \A c : c # 0 => MsgsOf(c) \subseteq MsgsOf(c)'
    BY <1>10, <1>11, <2>1
  <2>7. DOMAIN batches' = DOMAIN batches
        /\ \A c \in DOMAIN batches : batches'[c].st = batches[c].st /\ batches'[c].turn = batches[c].turn
    BY <2>4, <2>5 DEF SameBatches
  <2>8. Open' = Open
    BY <2>7 DEF Open
  <2>9. TypeOK'
    <3>1. batchOf' \in [Msg -> 0..Len(batches')] /\ flushing' \subseteq DOMAIN batches'
      BY <1>1, <1>2, <1>11, <2>5 DEF TypeOK
    <3> QED
      BY <1>3, <1>11, <2>5, <2>6, <3>1 DEF IInv, TypeOK, Batch
  <2>10. QueuedComplete'
    <3>1. \A c \in DOMAIN batches : batches[c].st = "queued" => c # b /\ c # 0
      BY <1>2, <2>1 DEF Open
    <3> QED
      BY <2>6, <2>7, <3>1 DEF Structure, IInv, QueuedComplete
  <2>11. Structure'
    <3>1. \A c \in DOMAIN batches : MsgsOf(c) \subseteq MsgsOf(c)'
      BY <1>2, <2>6
    <3> QED
      BY <1>1, <1>6, <2>5, <2>10, <3>1, StructureMoves
  <2>12. HalfFlushed'
    BY <1>1, <2>8 DEF HalfFlushed
  <2>13. Counted'
    BY <2>8 DEF IInv, Counted, CapacityKept, Load, Pending
  <2> QED
    BY <1>5, <1>8, <2>6, <2>9, <2>11, <2>12, <2>13 DEF IInv, Progress
<1>12. ASSUME ~(PendingCount >= Capacity),
              batches' = Append(batches, [seq |-> NextSequence, st |-> "open",
                                          due |-> BatchLimit = 1, turn |-> 0]),
              batchOf' = [batchOf EXCEPT ![m] = Len(batches) + 1],
              row' = [row EXCEPT ![m] = "batched"], timer' = TRUE
       PROVE  IInv'
  <2> DEFINE full == BatchLimit = 1
             e == [seq |-> NextSequence, st |-> "open", due |-> full, turn |-> 0]
             n == Len(batches) + 1
  <2>1. full \in BOOLEAN
    OBVIOUS
  <2>2. batches' = Append(batches, e)
    BY <1>12
  <2> HIDE DEF full
  <2>3. /\ NextSequence \in Nat /\ 0 < NextSequence
        /\ \A i \in DOMAIN turns : turns[i].seq < NextSequence
        /\ \A b \in DOMAIN batches : batches[b].seq < NextSequence
    BY <1>1, NextIsGreater DEF Structure
  <2>4. e \in Batch /\ e.seq = NextSequence /\ e.st = "open"
    BY <2>1, <2>3 DEF Batch, BatchStatus
  <2> HIDE DEF e
  <2>5. /\ batches' \in Seq(Batch) /\ Len(batches') = n /\ DOMAIN batches' = 1..n
        /\ batches'[n] = e
        /\ \A b \in DOMAIN batches : batches'[b] = batches[b]
    BY <1>2, <2>2, <2>4
  <2>6. /\ n \in Nat /\ n # 0 /\ n \in DOMAIN batches' /\ n \notin DOMAIN batches
        /\ DOMAIN batches \subseteq DOMAIN batches'
        /\ \A b \in DOMAIN batches' : b \in DOMAIN batches \/ b = n
        /\ 0 \notin DOMAIN batches
    BY <1>2, <2>5
  <2>7. batchOf' \in [Msg -> 0..Len(batches')]
    BY <1>1, <1>2, <1>12, <2>5 DEF TypeOK
  <2>8. batchOf' = [batchOf EXCEPT ![m] = n]
    BY <1>12
  <2> HIDE DEF n
  <2>9. /\ row' \in [Msg -> RowStatus] /\ Unbatched'
        /\ \A c : c # n /\ c # 0 => MsgsOf(c)' = MsgsOf(c)
    BY <1>10, <1>12, <2>6, <2>8
  <2>10. TypeOK'
    BY <1>1, <1>3, <1>12, <2>5, <2>7, <2>9 DEF TypeOK, Batch
  <2>11. \A c \in DOMAIN batches : MsgsOf(c)' = MsgsOf(c)
    BY <2>6, <2>9
  <2>12. \A i \in DOMAIN turns : turns[i].seq \in Nat
    BY <1>1, Shapes DEF Turn
  <2>13. \A b \in DOMAIN batches : batches[b].seq \in Nat
    BY <1>2 DEF Batch
  <2>14. Structure'
    <3>1. TurnsOfInputs'
      <4> SUFFICES ASSUME NEW i \in DOMAIN turns, NEW b, b = turns[i].in
                   PROVE  \/ b \in Web /\ turns[i].msgs = {}
                          \/ /\ b \in DOMAIN batches'
                             /\ turns[i].seq = batches'[b].seq
                             /\ turns[i].msgs \subseteq {k \in Msg : batchOf'[k] = b}
        BY DEF TurnsOfInputs, MsgsOf
      <4>1. b \in DOMAIN batches => MsgsOf(b) \subseteq {k \in Msg : batchOf'[k] = b}
        BY <2>11 DEF MsgsOf
      <4> QED
        BY <1>1, <2>5, <2>6, <4>1 DEF Structure, TurnsOfInputs
    <3>2. PlacesApart'
      BY <1>1, <2>3, <2>4, <2>5, <2>6, <2>13 DEF Structure, PlacesApart
    <3>3. BatchesApart'
      BY <1>1, <2>3, <2>4, <2>5, <2>6, <2>12 DEF Structure, BatchesApart
    <3>4. Bounded'
      <4>1. Sequences' = Sequences \cup {NextSequence}
        <5>1. {batches'[b].seq : b \in DOMAIN batches'}
                = {batches[b].seq : b \in DOMAIN batches} \cup {NextSequence}
          BY <2>4, <2>5, <2>6
        <5> QED
          BY <5>1 DEF Sequences
      <4>2. \A s \in Sequences : s \in Nat /\ s < NextSequence
        BY <2>3, <2>12, <2>13 DEF Sequences
      <4>3. \A s \in Sequences' : s <= NextSequence
        BY <2>3, <4>1, <4>2
      <4> QED
        BY <4>1, <4>3 DEF Bounded
    <3>5. QueuedComplete'
      BY <1>1, <2>4, <2>5, <2>6, <2>11 DEF Structure, QueuedComplete
    <3>6. InputsApart' /\ TurnsApart'
      BY <1>1 DEF Structure, InputsApart, TurnsApart
    <3> QED
      BY <3>1, <3>2, <3>3, <3>4, <3>5, <3>6 DEF Structure
  <2>15. Open' = Open \cup {n}
    BY <2>4, <2>5, <2>6 DEF Open
  <2>16. \A i \in DOMAIN turns : turns[i].in # n
    BY <1>1, <1>2, <2>6, IntakeAssumption DEF Structure, TurnsOfInputs
  <2>17. HalfFlushed'
    BY <1>1, <2>15, <2>16 DEF HalfFlushed
  <2>18. Counted'
    <3>1. PendingCount < Capacity
      BY <1>1, <1>12, FinitePending, IntakeAssumption DEF PendingCount
    <3>2. Pending' = Pending
      BY DEF Pending
    <3> QED
      BY <1>1, <2>15, <3>1, <3>2, CapacityAdds DEF IInv
  <2> QED
    BY <1>5, <1>8, <2>9, <2>10, <2>14, <2>17, <2>18 DEF IInv, Progress
<1> QED
  BY <1>9, <1>11, <1>12 DEF AddToBatch

-----------------------------------------------------------------------------
\* The steps that leave turns and batches alone.
LEMMA QuietKeeps ==
  ASSUME IInv, UNCHANGED <<turns, batches, batchOf, tried, recovering, resumed, overflowed,
                           crashes, env>>,
         TypeOK', Progress'
  PROVE  IInv'
<1>1. Structure'
  BY StructureStays DEF IInv, SameTurns, SameBatches
<1>2. Counted'
  BY DEF IInv, Counted, CapacityKept, Load, Pending, Open
<1> QED
  BY <1>1, <1>2 DEF IInv

LEMMA MessageSteps ==
  ASSUME IInv, NEW m \in Msg, Hear(m) \/ Claim(m) \/ MediaSaved(m) \/ MediaFails(m)
  PROVE  IInv'
<1>1. /\ handling \in [Msg -> {"idle", "chat", "media"}] /\ row \in [Msg -> RowStatus]
      /\ callbacks \subseteq Msg
  BY DEF IInv, TypeOK
<1>2. ASSUME NEW x \in {"idle", "chat", "media"}, handling' = [handling EXCEPT ![m] = x],
             \/ row' = row
             \/ row' = [row EXCEPT ![m] = "failed"]
             \/ row' = [row EXCEPT ![m] = "received"],
             x = "media" => batchOf[m] = 0,
             Idle, online = TRUE, callbacks' \subseteq Msg,
             UNCHANGED <<turns, batches, batchOf, flushing, linking, timer, clearing, online,
                         tried, recovering, resumed, overflowed, crashes, env>>
      PROVE  IInv'
  <2>1. handling' \in [Msg -> {"idle", "chat", "media"}] /\ row' \in [Msg -> RowStatus]
    BY <1>1, <1>2 DEF RowStatus
  <2>2. TypeOK'
    BY <1>2, <2>1 DEF IInv, TypeOK
  <2>3. \A k \in Msg : /\ handling'[k] = IF k = m THEN x ELSE handling[k]
                       /\ row'[k] = "none" => row[k] = "none"
    BY <1>1, <1>2
  <2>4. Unbatched'
    BY <1>2, <2>3 DEF IInv, Progress, Unbatched
  <2>5. Offline' /\ Flushed' /\ HalfFlushed'
    BY <1>2 DEF IInv, Progress, Offline, Flushed, HalfFlushed, Open, MsgsOf, IsFirst
  <2> QED
    BY <1>2, <2>2, <2>4, <2>5, QuietKeeps DEF Progress
<1>3. handling[m] # "idle" /\ Idle => online = TRUE
  BY NoTurnOpen
<1>4. row[m] = "none" \/ handling[m] = "media" => batchOf[m] = 0
  BY DEF IInv, Progress, Unbatched
<1>5. CASE Hear(m)
  <2>1. row' = row /\ handling' = [handling EXCEPT ![m] = "chat"] /\ callbacks' \subseteq Msg
    BY <1>1, <1>5 DEF Hear
  <2>2. Idle /\ online = TRUE
    BY <1>5 DEF Hear, IInv, TypeOK
  <2> QED
    BY <1>2, <1>5, <2>1, <2>2 DEF Hear, recovery, hist
<1>6. CASE Claim(m)
  <2>1. Idle /\ handling[m] = "chat" /\ row[m] = "none" /\ online = TRUE /\ batchOf[m] = 0
    BY <1>3, <1>4, <1>6 DEF Claim
  <2>2. CASE m \in MediaMsg
    <3>1. /\ handling' = [handling EXCEPT ![m] = "media"]
          /\ row' = [row EXCEPT ![m] = "received"]
          /\ UNCHANGED <<turns, batches, callbacks, batchOf, flushing, linking, timer,
                         clearing, online, tried, recovering, resumed, overflowed, crashes,
                         env>>
      BY <1>6, <2>2 DEF Claim, recovery, hist
    <3> QED
      BY <1>1, <1>2, <2>1, <3>1
  <2>3. CASE m \notin MediaMsg
    BY <1>6, <2>1, <2>3, AddKeeps DEF Claim, recovery, hist
  <2> QED
    BY <2>2, <2>3
<1>7. CASE MediaSaved(m)
  BY <1>4, <1>7, AddKeeps DEF MediaSaved, recovery, hist
<1>8. CASE MediaFails(m)
  BY <1>1, <1>2, <1>3, <1>8 DEF MediaFails, recovery, hist
<1> QED
  BY <1>5, <1>6, <1>7, <1>8

LEMMA OtherSteps ==
  ASSUME IInv, BeginFlush \/ BeginClear \/ EndClear \/ GoOnline \/ UNCHANGED vars
  PROVE  IInv'
<1>1. CASE BeginClear \/ EndClear \/ UNCHANGED vars
  <2>1. /\ clearing' \in BOOLEAN
        /\ UNCHANGED <<turns, batches, callbacks, row, batchOf, handling, flushing, linking,
                       timer, online, tried, recovering, resumed, overflowed, crashes, env>>
    BY <1>1 DEF BeginClear, EndClear, vars, db, proc, recovery, hist, IInv, TypeOK
  <2>2. TypeOK'
    BY <2>1 DEF IInv, TypeOK
  <2>3. Progress'
    BY <2>1 DEF IInv, Progress, Unbatched, Offline, Flushed, HalfFlushed, Open, MsgsOf, IsFirst
  <2> QED
    BY <2>1, <2>2, <2>3, QuietKeeps
<1>2. CASE BeginFlush
  <2>1. /\ flushing' = {b \in Open : batches[b].due} /\ flushing = {} /\ timer' = FALSE
        /\ UNCHANGED <<turns, batches, callbacks, row, batchOf, handling, linking, clearing,
                       online, tried, recovering, resumed, overflowed, crashes, env>>
    BY <1>2 DEF BeginFlush, Idle, db, recovery, hist
  <2>2. linking = 0
    BY <2>1 DEF IInv, Progress, Flushed
  <2>3. TypeOK'
    BY <2>1 DEF Open, IInv, TypeOK
  <2>4. Unbatched' /\ Offline'
    BY <2>1 DEF IInv, Progress, Unbatched, Offline
  <2>5. Flushed'
    BY <2>1, <2>2 DEF Flushed, Open
  <2>6. HalfFlushed'
    BY <2>1 DEF IInv, Progress, HalfFlushed, Open, MsgsOf
  <2> QED
    BY <2>1, <2>3, <2>4, <2>5, <2>6, QuietKeeps DEF Progress
<1>3. CASE GoOnline
  <2>1. /\ online' = TRUE /\ flushing = {}
        /\ UNCHANGED <<turns, batches, callbacks, row, batchOf, handling, flushing, linking,
                       timer, clearing, tried, recovering, resumed, overflowed, crashes, env>>
    BY <1>3 DEF GoOnline, Idle, db, recovery, hist
  <2>2. TypeOK'
    BY <2>1 DEF IInv, TypeOK
  <2>3. \A i \in DOMAIN turns : turns[i].in \notin Open
    BY <1>3 DEF GoOnline, IInv, Progress, HalfFlushed
  <2>4. Unbatched' /\ Offline'
    BY <2>1 DEF IInv, Progress, Unbatched, Offline
  <2>5. Flushed' /\ HalfFlushed'
    BY <2>1, <2>3 DEF IInv, Progress, Flushed, HalfFlushed, Open, IsFirst
  <2> QED
    BY <2>1, <2>2, <2>4, <2>5, QuietKeeps DEF Progress
<1> QED
  BY <1>1, <1>2, <1>3

LEMMA StepIInv == IInv /\ [Next]_vars => IInv'
BY BrowserKeeps, DispatchSteps, CompactionKeeps, ExitKeeps, MessageSteps, ElapseKeeps, FlushCreateKeeps, LinkKeeps, RejectKeeps,
   OtherSteps, RestartKeeps DEF Next, Handle, Flush

-----------------------------------------------------------------------------
\* The position of a turn in the queue

\* What Position counts: queued turns and open batches with a lower sequence.
AheadTurns(i) == {k \in DOMAIN turns \ {i} : turns[k].st = "queued" /\ turns[k].seq < turns[i].seq}
AheadBatches(i) == {b \in Open : batches[b].seq < turns[i].seq}

\* A step of PositionNeverGrows.
PositionStep ==
  \A i \in DOMAIN turns : turns[i].st = "queued" /\ turns'[i].st = "queued" =>
    Position(i)' <= Position(i) + Cardinality(PutBack(i))
                    + (IF linking = 0 /\ linking' # 0 THEN 1 ELSE 0)

LEMMA AheadFinite ==
  ASSUME TypeOK, NEW i
  PROVE  /\ IsFiniteSet(AheadTurns(i)) /\ IsFiniteSet(AheadBatches(i))
         /\ Cardinality(AheadTurns(i)) \in Nat /\ Cardinality(AheadBatches(i)) \in Nat
<1>1. IsFiniteSet(DOMAIN turns) /\ IsFiniteSet(DOMAIN batches)
  BY Shapes, FS_Interval
<1>2. AheadTurns(i) \subseteq DOMAIN turns /\ AheadBatches(i) \subseteq DOMAIN batches
  BY DEF AheadTurns, AheadBatches, Open
<1>3. IsFiniteSet(AheadTurns(i)) /\ IsFiniteSet(AheadBatches(i))
  BY <1>1, <1>2, FS_Subset
<1> QED
  BY <1>3, FS_CardinalityType

LEMMA PutBackFinite ==
  ASSUME TypeOK, NEW i
  PROVE  IsFiniteSet(PutBack(i)) /\ Cardinality(PutBack(i)) \in Nat
<1>1. IsFiniteSet(DOMAIN turns) /\ PutBack(i) \subseteq DOMAIN turns
  BY Shapes, FS_Interval DEF PutBack
<1>2. IsFiniteSet(PutBack(i))
  BY <1>1, FS_Subset
<1> QED
  BY <1>2, FS_CardinalityType

\* Nothing gets ahead of i but X.
LEMMA PositionBound ==
  ASSUME TypeOK, NEW i, NEW X, IsFiniteSet(X),
         AheadTurns(i)' \subseteq AheadTurns(i) \cup X, AheadBatches(i)' \subseteq AheadBatches(i)
  PROVE  Position(i) \in Nat /\ Position(i)' \in Nat /\ Cardinality(X) \in Nat
         /\ Position(i)' <= Position(i) + Cardinality(X)
<1> DEFINE T == AheadTurns(i)
           B == AheadBatches(i)
           U == AheadTurns(i)'
           C == AheadBatches(i)'
           p == Position(i)
           q == Position(i)'
<1>1. /\ p = 1 + Cardinality(T) + Cardinality(B)
      /\ q = 1 + Cardinality(U) + Cardinality(C)
  BY DEF Position, AheadTurns, AheadBatches
<1>2. /\ IsFiniteSet(T) /\ IsFiniteSet(B) /\ U \subseteq T \cup X /\ C \subseteq B
  BY AheadFinite
<1>3. p = Position(i) /\ q = Position(i)'
  OBVIOUS
<1> HIDE DEF T, B, U, C, p, q
<1>4. IsFiniteSet(T \cup X) /\ IsFiniteSet(T \cap X)
      /\ Cardinality(T \cup X) = Cardinality(T) + Cardinality(X) - Cardinality(T \cap X)
  <2>1. IsFiniteSet(T \cup X)
        /\ Cardinality(T \cup X) = Cardinality(T) + Cardinality(X) - Cardinality(T \cap X)
    BY <1>2, FS_Union
  <2>2. IsFiniteSet(T \cap X)
    BY <1>2, FS_Subset
  <2> QED
    BY <2>1, <2>2
<1>5. /\ Cardinality(T) \in Nat /\ Cardinality(X) \in Nat /\ Cardinality(T \cap X) \in Nat
      /\ Cardinality(B) \in Nat
  BY <1>2, <1>4, FS_CardinalityType
<1>6. IsFiniteSet(U) /\ Cardinality(U) <= Cardinality(T \cup X)
  BY <1>2, <1>4, FS_Subset
<1>7. IsFiniteSet(C) /\ Cardinality(C) <= Cardinality(B)
  BY <1>2, FS_Subset
<1>8. Cardinality(U) \in Nat /\ Cardinality(C) \in Nat
  BY <1>6, <1>7, FS_CardinalityType
<1>9. p \in Nat /\ q \in Nat /\ q <= p + Cardinality(X)
  BY <1>1, <1>4, <1>5, <1>6, <1>7, <1>8
<1> QED
  BY <1>3, <1>5, <1>9

\* No turn and no batch is added.
LEMMA QueueMoves ==
  ASSUME TypeOK, SameTurns, SameBatches, Open' \subseteq Open
  PROVE  PositionStep
<1> SUFFICES ASSUME NEW i \in DOMAIN turns
             PROVE  /\ Position(i) \in Nat /\ Position(i)' \in Nat /\ Cardinality(PutBack(i)) \in Nat
                    /\ Position(i)' <= Position(i) + Cardinality(PutBack(i))
  BY DEF PositionStep
<1>1. AheadTurns(i)' \subseteq AheadTurns(i) \cup PutBack(i)
  BY DEF AheadTurns, SameTurns, PutBack
<1>2. AheadBatches(i)' \subseteq AheadBatches(i)
  BY DEF AheadBatches, SameTurns, SameBatches, Open
<1> QED
  BY <1>1, <1>2, PutBackFinite, PositionBound

\* A turn is added behind all others, or it is that of the batch that is flushed.
LEMMA QueueGrows ==
  ASSUME TypeOK, NEW x \in Web \cup Nat, NEW s \in Nat, NEW ms \in SUBSET Msg,
         turns' = Append(turns, NewTurn(x, s, ms)), batches' = batches,
         \/ \A i \in DOMAIN turns : turns[i].seq < s
         \/ linking = 0 /\ linking' # 0
  PROVE  PositionStep
<1> DEFINE n == Len(turns) + 1
<1>1. /\ turns \in Seq(Turn) /\ DOMAIN turns = 1..Len(turns) /\ Len(turns) \in Nat
      /\ \A i \in DOMAIN turns : turns[i].seq \in Nat
  BY Shapes DEF Turn
<1>2. /\ DOMAIN turns' = 1..n /\ turns'[n].seq = s
      /\ \A k \in DOMAIN turns : turns'[k] = turns[k]
  BY <1>1 DEF NewTurn
<1>3. n \notin DOMAIN turns /\ DOMAIN turns' = DOMAIN turns \cup {n}
  BY <1>1, <1>2
<1> HIDE DEF n
<1> SUFFICES ASSUME NEW i \in DOMAIN turns
             PROVE  /\ Position(i) \in Nat /\ Position(i)' \in Nat /\ Cardinality(PutBack(i)) \in Nat
                    /\ Position(i)' <= Position(i) + 1
                    /\ (linking = 0 /\ linking' # 0) \/ Position(i)' <= Position(i)
  BY DEF PositionStep
<1>4. AheadTurns(i)' \subseteq AheadTurns(i) \cup {n}
  BY <1>2, <1>3 DEF AheadTurns
<1>5. AheadBatches(i)' \subseteq AheadBatches(i)
  BY <1>2 DEF AheadBatches, Open
<1>6. ASSUME \A k \in DOMAIN turns : turns[k].seq < s PROVE AheadTurns(i)' \subseteq AheadTurns(i) \cup {}
  <2>1. turns'[i].seq < s /\ turns'[i].seq \in Nat
    BY <1>1, <1>2, <1>6
  <2>2. ~(turns'[n].seq < turns'[i].seq)
    BY <1>2, <2>1
  <2> QED
    BY <1>4, <2>2 DEF AheadTurns
<1>7. IsFiniteSet({n}) /\ Cardinality({n}) = 1 /\ IsFiniteSet({}) /\ Cardinality({}) = 0
  BY FS_Singleton, FS_EmptySet
<1>8. Position(i) \in Nat /\ Position(i)' \in Nat /\ Position(i)' <= Position(i) + Cardinality({n})
  BY <1>4, <1>5, <1>7, PositionBound
<1>9. ASSUME \A k \in DOMAIN turns : turns[k].seq < s
      PROVE  Position(i)' <= Position(i) + Cardinality({})
  BY <1>5, <1>6, <1>7, <1>9, PositionBound
<1>10. ASSUME \A k \in DOMAIN turns : turns[k].seq < s
       PROVE  Position(i)' <= Position(i)
  BY <1>7, <1>8, <1>9, <1>10
<1>11. Cardinality(PutBack(i)) \in Nat
  BY PutBackFinite
<1> QED
  BY <1>7, <1>8, <1>10, <1>11

LEMMA StatusPosition ==
  ASSUME IInv, \/ \E i \in DOMAIN turns : Begin(i) \/ Finish(i) \/ Interrupt(i) \/ Resume(i)
                                         \/ Defer(i) \/ Overflow(i)
               \/ CompactionEnds \/ CodexExits \/ Restart
  PROVE  PositionStep
<1>1. TypeOK
  BY DEF IInv
<1>2. batches' = batches
  BY DEF Begin, Finish, Interrupt, Resume, Defer, Overflow, CompactionEnds, CodexExits, Restart
<1>3. SameBatches /\ Open' \subseteq Open
  BY <1>2 DEF SameBatches, Open
<1>4. ASSUME NEW i \in DOMAIN turns, NEW st \in TurnStatus, turns' = [turns EXCEPT ![i].st = st]
      PROVE  PositionStep
  BY <1>1, <1>3, <1>4, SetStatus, QueueMoves
<1>5. ASSUME NEW i \in DOMAIN turns,
             Begin(i) \/ Finish(i) \/ Interrupt(i) \/ Resume(i) \/ Defer(i) \/ Overflow(i)
      PROVE  PositionStep
  BY <1>4, <1>5 DEF Begin, Finish, Interrupt, Resume, Defer, Overflow, TurnStatus
<1>6. CASE CompactionEnds
  <2>1. recovering \in DOMAIN turns
    BY <1>1, <1>6, Shapes DEF CompactionEnds, TypeOK
  <2> QED
    BY <1>4, <1>6, <2>1 DEF CompactionEnds, TurnStatus
<1>7. CASE CodexExits \/ Restart
  BY <1>1, <1>3, <1>7, CutOffTurns, QueueMoves DEF CodexExits, Restart
<1> QED
  BY <1>5, <1>6, <1>7

LEMMA BatchPosition ==
  ASSUME IInv, NEW b \in DOMAIN batches, Elapse(b) \/ FlushLink(b) \/ FlushReject(b)
  PROVE  PositionStep
<1>1. TypeOK /\ turns' = turns /\ SameTurns
  BY DEF IInv, Elapse, FlushLink, FlushReject, SameTurns
<1>2. batches \in Seq(Batch) /\ batches[b] \in Batch
  BY <1>1, Shapes
<1>3. /\ DOMAIN batches' = DOMAIN batches /\ batches'[b].seq = batches[b].seq
      /\ \A c \in DOMAIN batches : c # b => batches'[c] = batches[c]
      /\ batches'[b].st = "open" => batches[b].st = "open"
  BY <1>2 DEF Elapse, FlushLink, FlushReject, Batch, Open
<1>4. SameBatches /\ Open' \subseteq Open
  BY <1>3 DEF SameBatches, Open
<1> QED
  BY <1>1, <1>4, QueueMoves

LEMMA MessagePosition ==
  ASSUME IInv, NEW m \in Msg, Hear(m) \/ Claim(m) \/ MediaSaved(m) \/ MediaFails(m)
  PROVE  PositionStep
<1>1. TypeOK /\ Bounded /\ turns' = turns /\ SameTurns
  BY DEF IInv, Structure, Hear, Claim, MediaSaved, MediaFails, SameTurns
<1>2. CASE batches' = batches
  BY <1>1, <1>2, QueueMoves DEF SameBatches, Open
<1>3. CASE AddToBatch(m)
  <2>1. batches \in Seq(Batch) /\ DOMAIN batches = 1..Len(batches) /\ Len(batches) \in Nat
    BY <1>1, Shapes
  <2>2. ASSUME NEW b \in DOMAIN batches, CanAppend(b), NEW due,
               batches' = [batches EXCEPT ![b].due = due]
        PROVE  PositionStep
    <3>1. SameBatches /\ Open' \subseteq Open
      <4>1. /\ DOMAIN batches' = DOMAIN batches /\ batches[b] \in Batch
            /\ batches'[b] = [batches[b] EXCEPT !.due = due]
            /\ \A c \in DOMAIN batches : c # b => batches'[c] = batches[c]
        BY <1>1, <2>1, <2>2, Shapes
      <4>2. batches'[b].seq = batches[b].seq /\ batches'[b].st = batches[b].st
        BY <4>1 DEF Batch
      <4> QED
        BY <4>1, <4>2 DEF SameBatches, Open
    <3> QED
      BY <1>1, <3>1, QueueMoves
  <2>3. ASSUME NEW e, e.seq = NextSequence, batches' = Append(batches, e)
        PROVE  PositionStep
    <3>1. /\ DOMAIN batches' = DOMAIN batches \cup {Len(batches) + 1}
          /\ batches'[Len(batches) + 1].seq = NextSequence
          /\ \A c \in DOMAIN batches : batches'[c] = batches[c]
      BY <2>1, <2>3
    <3> SUFFICES ASSUME NEW i \in DOMAIN turns
                 PROVE  /\ Position(i) \in Nat /\ Position(i)' \in Nat
                        /\ Cardinality(PutBack(i)) \in Nat
                        /\ Position(i)' <= Position(i) + Cardinality(PutBack(i))
      BY DEF PositionStep
    <3>2. AheadTurns(i)' \subseteq AheadTurns(i) \cup PutBack(i)
      BY <1>1 DEF AheadTurns
    <3>3. turns'[i].seq = turns[i].seq /\ turns[i].seq < NextSequence
          /\ turns[i].seq \in Nat /\ NextSequence \in Nat
      BY <1>1, NextIsGreater, Shapes DEF Turn
    <3>4. ~(NextSequence < turns'[i].seq)
      BY <3>3
    <3>5. AheadBatches(i)' \subseteq AheadBatches(i)
      BY <1>1, <3>1, <3>4 DEF AheadBatches, Open
    <3> QED
      BY <1>1, <3>2, <3>5, PutBackFinite, PositionBound
  <2> QED
    BY <1>2, <1>3, <2>2, <2>3 DEF AddToBatch
<1> QED
  BY <1>2, <1>3 DEF Hear, Claim, MediaSaved, MediaFails

LEMMA CreatePosition ==
  ASSUME IInv, \/ \E w \in Web : CreateFromBrowser(w)
               \/ \E b \in flushing : FlushCreate(b)
  PROVE  PositionStep
<1>1. TypeOK /\ Bounded
  BY DEF IInv, Structure
<1>2. ASSUME NEW w \in Web, CreateFromBrowser(w) PROVE PositionStep
  BY <1>1, <1>2, NextIsGreater, QueueGrows DEF CreateFromBrowser
<1>3. ASSUME NEW b \in flushing, FlushCreate(b) PROVE PositionStep
  <2>1. /\ b \in DOMAIN batches /\ b \in Nat /\ batches[b].seq \in Nat
        /\ {m \in Msg : batchOf[m] = b} \in SUBSET Msg /\ Len(turns) \in Nat
    BY <1>1, Shapes DEF TypeOK, Batch
  <2>2. linking = 0 /\ batches' = batches
    BY <1>3 DEF FlushCreate
  <2>3. CASE turns' = turns
    BY <1>1, <2>2, <2>3, QueueMoves DEF SameTurns, SameBatches, Open
  <2>4. CASE /\ turns' = Append(turns, NewTurn(b, batches[b].seq, {m \in Msg : batchOf[m] = b}))
             /\ linking' = Len(turns) + 1
    <3>1. linking' # 0
      BY <2>1, <2>4
    <3> QED
      BY <1>1, <2>1, <2>2, <2>4, <3>1, QueueGrows
  <2> QED
    BY <1>3, <2>3, <2>4 DEF FlushCreate
<1> QED
  BY <1>2, <1>3

LEMMA StepPosition == IInv /\ [Next]_vars => [PositionStep]_vars
<1> SUFFICES ASSUME IInv, Next PROVE PositionStep
  OBVIOUS
<1>1. CASE BeginClear \/ EndClear \/ BeginFlush \/ GoOnline
  <2>1. TypeOK /\ turns' = turns /\ batches' = batches
    BY <1>1 DEF IInv, BeginClear, EndClear, BeginFlush, GoOnline, db
  <2> QED
    BY <2>1, QueueMoves DEF SameTurns, SameBatches, Open
<1>2. \A b \in flushing : b \in DOMAIN batches
  BY DEF IInv, TypeOK
<1> QED
  BY <1>1, <1>2, StatusPosition, BatchPosition, MessagePosition, CreatePosition
  DEF Next, Handle, Flush

-----------------------------------------------------------------------------
\* Turns, batches and messages agree on who is where, in every reachable state.
THEOREM Invariant == Spec => []IInv
BY InitIInv, StepIInv, PTL DEF Spec

\* Every variable of the intake keeps its type.
THEOREM TypeCorrect == Spec => []TypeOK
<1>1. IInv => TypeOK
  BY DEF IInv
<1> QED
  BY <1>1, Invariant, PTL

\* An input is one turn in one place of the queue, however often it is retried and
\* wherever the application dies.
THEOREM OneTurnPerInputCorrect == Spec => []OneTurnPerInput
BY IInvProperties, Invariant, PTL

\* The queue keeps its capacity, with open batches counted, the operator's resumes apart
\* and one more place while a turn is there whose context overflowed: however many
\* overflow, are stopped, deferred or cut off, and wherever the application dies.
THEOREM CapacityKeptCorrect == Spec => []CapacityKept
<1>1. IInv => CapacityKept
  BY DEF IInv, Counted
<1> QED
  BY <1>1, Invariant, PTL

\* The prompt of a batch's turn holds exactly the messages routed to it.
THEOREM PromptCompleteCorrect == Spec => []PromptComplete
BY IInvProperties, Invariant, PTL

\* The position shown to the user grows only by the older turns that a step puts back,
\* one for each: no later input gets ahead of an earlier one, also when turns are
\* resumed, deferred, cut off or compacted.
THEOREM PositionNeverGrowsCorrect == Spec => PositionNeverGrows
<1>1. IInv /\ [Next]_vars =>
        [\A i \in DOMAIN turns : turns[i].st = "queued" /\ turns'[i].st = "queued" =>
           Position(i)' <= Position(i) + Cardinality(PutBack(i))
                           + (IF linking = 0 /\ linking' # 0 THEN 1 ELSE 0)]_vars
  BY StepPosition DEF PositionStep
<1> QED
  BY <1>1, Invariant, PTL DEF Spec, PositionNeverGrows
=============================================================================
