---------------------------- MODULE ServiceProofs ----------------------------
(***************************************************************************)
(* Proofs about Timers and CodexConnection, the services that live by      *)
(* their timers.                                                           *)
(*                                                                         *)
(* For every set of timers and schedules and every bound: the schedule     *)
(* never waits for an occurrence it has recorded, runs no burst of old     *)
(* ones, and keeps one turn of a timer at work.                            *)
(*                                                                         *)
(* For every number of clients, faults and device codes: the client that   *)
(* is handed out has a transport, a lost connection is on its way back,    *)
(* and the device code on display is replaced before it expires.           *)
(***************************************************************************)
EXTENDS Timers, CodexConnection, FiniteSetTheorems, SequenceTheorems, TLAPS

-----------------------------------------------------------------------------
\* The timers

\* The parts of the inductive invariant that Timers does not state: what was
\* recorded or created lies in the past, a turn that was due was created before
\* the occurrence its timer waits for, and only the newest turn is pending.
RecordedPast == \A t \in Timer : \A r \in recorded[t] : r <= now

TurnsPast == \A t \in Timer : \A i \in DOMAIN work[t] : work[t][i].at <= now

RunsBeforeNext ==
  \A t \in Timer : \A i \in DOMAIN work[t] :
    work[t][i].for # 0 /\ nextRunAt[t] # 0 => work[t][i].at < nextRunAt[t]

PendingIsLast ==
  \A t \in Timer : \A i \in DOMAIN work[t] :
    work[t][i].st = "pending" => i = Len(work[t])

IInv == /\ TypeOK
        /\ RecordedPast /\ NextIsFresh
        /\ TurnsPast /\ RunsBeforeNext /\ NoBackfill
        /\ PendingIsLast

-----------------------------------------------------------------------------
\* The arithmetic of schedules

\* The next multiple of a period is strictly later: a cron schedule cannot name
\* the occurrence that has just been settled.
LEMMA NextMultiple ==
  ASSUME NEW n \in Nat, NEW v \in Nat \ {0}
  PROVE  /\ (n \div v + 1) * v \in Nat
         /\ n < (n \div v + 1) * v
<1> DEFINE q == n \div v
<1>1. q \in Nat /\ n = v * q + (n % v) /\ n % v \in 0..(v - 1)
  BY SMT
<1> HIDE DEF q
<1>2. (q + 1) * v = v * q + v
  BY <1>1, SMT
<1> QED
  BY <1>1, <1>2, SMT DEF q

\* nextAfter: an occurrence strictly after the given time, none only for a
\* one-time schedule.
LEMMA NextAfterIsLater ==
  ASSUME NEW s \in Schedule, NEW time \in Nat
  PROVE  /\ NextAfter(s, time) \in Nat
         /\ s.kind = "once" => NextAfter(s, time) = 0
         /\ s.kind # "once" => time < NextAfter(s, time)
<1>1. s.kind \in Kind /\ s.value \in Nat \ {0}
  BY TimersAssumption
<1>2. CASE s.kind = "once"
  BY <1>2 DEF NextAfter
<1>3. CASE s.kind = "interval"
  BY <1>1, <1>3 DEF NextAfter
<1>4. CASE s.kind \notin {"once", "interval"}
  BY <1>1, <1>4, NextMultiple DEF NextAfter, Kind
<1> QED
  BY <1>2, <1>3, <1>4

-----------------------------------------------------------------------------
\* Sequences of turns

\* The fields of a turn of a sequence.
LEMMA TurnFields ==
  ASSUME NEW w \in Seq(Turn), NEW i \in DOMAIN w
  PROVE  w[i].at \in Nat /\ w[i].for \in Nat /\ i \in Nat
<1>1. i \in 1..Len(w) /\ Len(w) \in Nat /\ w[i] \in Turn
  BY ElementOfSeq, LenProperties
<1> QED
  BY <1>1 DEF Turn

\* A turn changes its status; nothing else of the sequence changes.
LEMMA ChangeStatus ==
  ASSUME NEW w \in Seq(Turn), NEW i \in DOMAIN w,
         NEW x \in {"pending", "resumed", "interrupted", "done"}
  PROVE  LET c == [w EXCEPT ![i].st = x]
         IN  /\ c \in Seq(Turn)
             /\ Len(c) = Len(w) /\ DOMAIN c = DOMAIN w
             /\ \A k \in DOMAIN w : /\ c[k].for = w[k].for /\ c[k].at = w[k].at
                                    /\ c[k].st = IF k = i THEN x ELSE w[k].st
<1> DEFINE e == [w[i] EXCEPT !.st = x]
           c == [w EXCEPT ![i] = e]
<1>1. w[i] \in Turn /\ i \in 1..Len(w) /\ DOMAIN w = 1..Len(w)
  BY ElementOfSeq, LenProperties
<1>2. e \in Turn /\ e.for = w[i].for /\ e.at = w[i].at /\ e.st = x
  BY <1>1 DEF Turn
<1> HIDE DEF e
<1>3. c \in Seq(Turn) /\ Len(c) = Len(w)
  BY <1>1, <1>2, ExceptSeq
<1>4. DOMAIN c = DOMAIN w /\ \A k \in DOMAIN w : c[k] = IF k = i THEN e ELSE w[k]
  OBVIOUS
<1> QED
  BY <1>2, <1>3, <1>4 DEF e

\* A turn is added at the end.
LEMMA AddTurn ==
  ASSUME NEW w \in Seq(Turn), NEW e \in Turn
  PROVE  LET c == Append(w, e)
         IN  /\ c \in Seq(Turn)
             /\ Len(c) = Len(w) + 1 /\ Len(w) \in Nat
             /\ DOMAIN c = DOMAIN w \cup {Len(c)}
             /\ DOMAIN w = 1..Len(w)
             /\ c[Len(c)] = e
             /\ \A k \in DOMAIN w : c[k] = w[k] /\ k # Len(c)
  BY LenProperties, SMT

-----------------------------------------------------------------------------
\* Preservation, by what a step changes

LEMMA InitIInv == Init => IInv
<1> SUFFICES ASSUME Init PROVE IInv
  OBVIOUS
<1>1. (CHOOSE s \in Schedule : TRUE) \in Schedule
  BY TimersAssumption
<1>2. <<>> \in Seq(Turn) /\ DOMAIN <<>> = {}
  BY EmptySeq, SMT
<1>3. TypeOK
  BY <1>1, <1>2, TimersAssumption DEF Init, TypeOK
<1> QED
  BY <1>2, <1>3 DEF Init, IInv, RecordedPast, NextIsFresh, TurnsPast, RunsBeforeNext,
                    NoBackfill, PendingIsLast

\* Steps that leave schedules, runs and turns alone; time may pass.
LEMMA QuietStep ==
  ASSUME IInv, TypeOK', now' \in Nat, now <= now',
         UNCHANGED <<nextRunAt, recorded, work>>
  PROVE  IInv'
<1> USE DEF IInv
<1>1. \A t \in Timer : /\ recorded[t] \subseteq Nat /\ work[t] \in Seq(Turn)
                       /\ \A i \in DOMAIN work[t] : work[t][i] \in Turn
  BY ElementOfSeq, LenProperties DEF TypeOK
<1>2. RecordedPast'
  BY <1>1 DEF RecordedPast, TypeOK
<1>3. TurnsPast'
  BY <1>1 DEF TurnsPast, TypeOK, Turn
<1>4. NextIsFresh' /\ RunsBeforeNext' /\ NoBackfill' /\ PendingIsLast'
  BY DEF NextIsFresh, RunsBeforeNext, NoBackfill, PendingIsLast
<1> QED
  BY <1>2, <1>3, <1>4

\* Steps that give a timer another next occurrence, later than now or none, and
\* may forget what it recorded.
LEMMA ScheduleStep ==
  ASSUME IInv, TypeOK', UNCHANGED <<now, work>>,
         \A t \in Timer : \/ nextRunAt'[t] = nextRunAt[t]
                          \/ nextRunAt'[t] = 0 \/ now < nextRunAt'[t],
         \A t \in Timer : recorded'[t] \subseteq recorded[t]
  PROVE  IInv'
<1> USE DEF IInv
<1>1. \A t \in Timer : work[t] \in Seq(Turn) /\ recorded[t] \subseteq Nat
  BY DEF TypeOK
<1>2. \A t \in Timer : \A i \in DOMAIN work[t] : work[t][i].at \in Nat
  BY <1>1, TurnFields
<1>3. now \in Nat /\ \A t \in Timer : nextRunAt[t] \in Nat /\ nextRunAt'[t] \in Nat
  BY DEF TypeOK
<1>4. RecordedPast'
  BY DEF RecordedPast
<1>5. NextIsFresh'
  <2>1. \A t \in Timer : \A r \in recorded'[t] : r \in Nat /\ r \in recorded[t] /\ r <= now
    BY <1>1 DEF RecordedPast
  <2> QED
    BY <2>1, <1>3 DEF NextIsFresh
<1>6. RunsBeforeNext'
  <2> SUFFICES ASSUME NEW t \in Timer, NEW i \in DOMAIN work[t],
                      work[t][i].for # 0, nextRunAt'[t] # 0
               PROVE  work[t][i].at < nextRunAt'[t]
    BY DEF RunsBeforeNext
  <2>1. CASE nextRunAt'[t] = nextRunAt[t]
    BY <2>1 DEF RunsBeforeNext
  <2>2. CASE now < nextRunAt'[t]
    BY <2>2, <1>2, <1>3 DEF TurnsPast
  <2> QED
    BY <2>1, <2>2
<1>7. TurnsPast' /\ NoBackfill' /\ PendingIsLast'
  BY DEF TurnsPast, NoBackfill, PendingIsLast
<1> QED
  BY <1>4, <1>5, <1>6, <1>7

\* A turn changes its status, and not to "pending".
LEMMA StatusStep ==
  ASSUME IInv, UNCHANGED <<now, nextRunAt, recorded>>,
         NEW t \in Timer, NEW i \in DOMAIN work[t],
         NEW x \in {"resumed", "interrupted", "done"},
         work' = [work EXCEPT ![t][i].st = x], TypeOK'
  PROVE  IInv'
<1> USE DEF IInv
<1> DEFINE c == [work[t] EXCEPT ![i].st = x]
<1>1. work \in [Timer -> Seq(Turn)] /\ work[t] \in Seq(Turn)
  BY DEF TypeOK
<1>2. work'[t] = c /\ \A u \in Timer \ {t} : work'[u] = work[u]
  BY <1>1
<1>3. /\ Len(c) = Len(work[t]) /\ DOMAIN c = DOMAIN work[t]
      /\ \A k \in DOMAIN work[t] : /\ c[k].for = work[t][k].for /\ c[k].at = work[t][k].at
                                   /\ c[k].st = IF k = i THEN x ELSE work[t][k].st
  BY <1>1, ChangeStatus
<1> HIDE DEF c
<1>4. \A u \in Timer : /\ Len(work'[u]) = Len(work[u]) /\ DOMAIN work'[u] = DOMAIN work[u]
                       /\ \A k \in DOMAIN work[u] :
                            /\ work'[u][k].for = work[u][k].for
                            /\ work'[u][k].at = work[u][k].at
                            /\ work'[u][k].st = "pending" => work[u][k].st = "pending"
  BY <1>2, <1>3
<1>5. TurnsPast'
  BY <1>4 DEF TurnsPast
<1>6. RunsBeforeNext'
  BY <1>4 DEF RunsBeforeNext
<1>7. NoBackfill'
  BY <1>4 DEF NoBackfill
<1>8. PendingIsLast'
  BY <1>4 DEF PendingIsLast
<1>9. RecordedPast' /\ NextIsFresh'
  BY DEF RecordedPast, NextIsFresh
<1> QED
  BY <1>5, <1>6, <1>7, <1>8, <1>9

\* A turn is created for the occurrence f, 0 for Run now, of each timer of S; a
\* timer of S that runs an occurrence waits for a later one afterwards.
LEMMA CreateStep ==
  ASSUME IInv, TypeOK', now' = now, NEW S \in SUBSET Timer, NEW f \in [S -> Nat],
         \A t \in S : ~HasPendingWork(t) /\ (f[t] # 0 => f[t] = nextRunAt[t] /\ now <= f[t] + Late),
         work' = [t \in Timer |-> IF t \in S THEN Append(work[t], NewTurn(f[t])) ELSE work[t]],
         \A t \in Timer : \/ nextRunAt'[t] = nextRunAt[t] /\ (t \in S => f[t] = 0)
                          \/ nextRunAt'[t] = 0 \/ now < nextRunAt'[t],
         RecordedPast', NextIsFresh'
  PROVE  IInv'
<1> USE DEF IInv
<1>1. /\ now \in Nat /\ work \in [Timer -> Seq(Turn)]
      /\ \A t \in Timer : nextRunAt[t] \in Nat /\ nextRunAt'[t] \in Nat
  BY DEF TypeOK
<1>2. \A t \in Timer : \A i \in DOMAIN work[t] :
        work[t][i].at \in Nat /\ work[t][i].for \in Nat /\ i \in Nat
  BY <1>1, TurnFields
<1>3. Late \in Nat
  BY TimersAssumption
<1>4. ASSUME NEW t \in S
      PROVE  /\ Len(work'[t]) = Len(work[t]) + 1 /\ Len(work[t]) \in Nat
             /\ DOMAIN work'[t] = DOMAIN work[t] \cup {Len(work'[t])}
             /\ DOMAIN work[t] = 1..Len(work[t])
             /\ work'[t][Len(work'[t])] = NewTurn(f[t])
             /\ \A k \in DOMAIN work[t] : work'[t][k] = work[t][k] /\ k # Len(work'[t])
  <2>1. NewTurn(f[t]) \in Turn
    BY <1>1 DEF NewTurn, Turn
  <2>2. work'[t] = Append(work[t], NewTurn(f[t])) /\ work[t] \in Seq(Turn)
    BY <1>1
  <2> QED
    BY <2>1, <2>2, AddTurn
<1>5. \A t \in Timer \ S : work'[t] = work[t]
  OBVIOUS
<1>6. \A t \in S : NewTurn(f[t]).for = f[t] /\ NewTurn(f[t]).at = now /\ f[t] \in Nat
  BY DEF NewTurn
<1>7. TurnsPast'
  BY <1>1, <1>4, <1>5, <1>6 DEF TurnsPast
<1>8. RunsBeforeNext'
  <2> SUFFICES ASSUME NEW t \in Timer, NEW i \in DOMAIN work'[t],
                      work'[t][i].for # 0, nextRunAt'[t] # 0
               PROVE  work'[t][i].at < nextRunAt'[t]
    BY DEF RunsBeforeNext
  <2>1. CASE i \in DOMAIN work[t] /\ work'[t][i] = work[t][i]
    <3>1. work[t][i].at \in Nat /\ work[t][i].at <= now
      BY <2>1, <1>2 DEF TurnsPast
    <3>2. CASE nextRunAt'[t] = nextRunAt[t]
      BY <2>1, <3>2 DEF RunsBeforeNext
    <3>3. CASE now < nextRunAt'[t]
      BY <2>1, <3>1, <3>3, <1>1
    <3> QED
      BY <3>2, <3>3
  <2>2. CASE t \in S /\ work'[t][i] = NewTurn(f[t])
    BY <2>2, <1>6
  <2> QED
    BY <2>1, <2>2, <1>4, <1>5
<1>9. NoBackfill'
  <2> SUFFICES ASSUME NEW t \in Timer, NEW i \in DOMAIN work'[t], NEW k \in DOMAIN work'[t],
                      work'[t][k].for # 0
               PROVE  /\ work'[t][k].at <= work'[t][k].for + Late
                      /\ i < k /\ work'[t][i].for # 0 => work'[t][i].at < work'[t][k].for
    BY DEF NoBackfill
  <2>1. CASE k \in DOMAIN work[t] /\ work'[t][k] = work[t][k]
    <3>1. i < k => i \in DOMAIN work[t] /\ work'[t][i] = work[t][i]
      BY <2>1, <1>4, <1>5
    <3> QED
      BY <2>1, <3>1 DEF NoBackfill
  <2>2. CASE t \in S /\ k = Len(work'[t]) /\ work'[t][k] = NewTurn(f[t])
    <3>1. /\ work'[t][k].for = nextRunAt[t] /\ nextRunAt[t] # 0
          /\ work'[t][k].at = now /\ now <= nextRunAt[t] + Late
      BY <2>2, <1>6
    <3>2. i < k => i \in DOMAIN work[t] /\ work'[t][i] = work[t][i]
      BY <2>2, <1>4
    <3> QED
      BY <3>1, <3>2 DEF RunsBeforeNext
  <2> QED
    BY <2>1, <2>2, <1>4, <1>5
<1>10. PendingIsLast'
  <2>1. \A t \in S : \A k \in DOMAIN work[t] : work[t][k].st # "pending"
    BY DEF HasPendingWork
  <2> QED
    BY <2>1, <1>4, <1>5 DEF PendingIsLast
<1> QED
  BY <1>7, <1>8, <1>9, <1>10

-----------------------------------------------------------------------------
\* One lemma for each action that is more than one of the steps above

LEMMA WritePreserves ==
  ASSUME IInv, NEW t \in Timer, NEW s \in Schedule, NEW e \in BOOLEAN,
         Create(t, s, e) \/ Update(t, s, e)
  PROVE  IInv'
<1> USE DEF IInv
<1>1. TypeOK /\ now \in Nat /\ Write(t, s, e) /\ state' \in [Timer -> {"new", "live", "removed"}]
  BY DEF Create, Update, TypeOK
<1>2. NextRun(s) \in Nat /\ now < NextRun(s)
  <2>1. s.kind \in Kind /\ s.value \in Nat
    BY TimersAssumption
  <2>2. CASE s.kind = "once"
    BY <2>1, <2>2, <1>1 DEF Write, Acceptable, NextRun
  <2>3. CASE s.kind # "once"
    BY <2>3, <1>1, NextAfterIsLater DEF NextRun
  <2> QED
    BY <2>2, <2>3
<1> DEFINE next == IF e THEN NextRun(s) ELSE 0
<1>4. /\ next \in Nat /\ (e <=> next # 0)
      /\ next = 0 \/ now < next
  BY <1>1, <1>2
<1> HIDE DEF next
<1>5. /\ nextRunAt' = [nextRunAt EXCEPT ![t] = next]
      /\ enabled' = [enabled EXCEPT ![t] = e]
      /\ schedule' = [schedule EXCEPT ![t] = s]
      /\ edits' = edits + 1
      /\ UNCHANGED <<now, recorded, work, room, up, manual, stops, downs>>
  BY <1>1 DEF Write, next
<1>6. TypeOK'
  BY <1>1, <1>4, <1>5 DEF TypeOK
<1>7. \A u \in Timer : nextRunAt'[u] = IF u = t THEN next ELSE nextRunAt[u]
  BY <1>1, <1>5 DEF TypeOK
<1> QED
  BY <1>4, <1>5, <1>6, <1>7, ScheduleStep

LEMMA RemovePreserves ==
  ASSUME IInv, NEW t \in Timer, Remove(t)
  PROVE  IInv'
<1> USE DEF IInv
<1>1. TypeOK'
  BY DEF Remove, TypeOK, bounds
<1>2. \A u \in Timer : /\ nextRunAt'[u] = IF u = t THEN 0 ELSE nextRunAt[u]
                       /\ recorded'[u] = IF u = t THEN {} ELSE recorded[u]
  BY DEF Remove, TypeOK
<1>3. UNCHANGED <<now, work>>
  BY DEF Remove
<1> QED
  BY <1>1, <1>2, <1>3, ScheduleStep

LEMMA RunNowPreserves ==
  ASSUME IInv, NEW t \in Timer, RunNow(t)
  PROVE  IInv'
<1> USE DEF IInv
<1> DEFINE f == [u \in {t} |-> 0]
<1>1. work \in [Timer -> Seq(Turn)] /\ now \in Nat /\ room \in Nat
  BY DEF TypeOK
<1>2. work' = [u \in Timer |-> IF u \in {t} THEN Append(work[u], NewTurn(f[u])) ELSE work[u]]
  BY <1>1 DEF RunNow
<1>3. TypeOK'
  <2>1. NewTurn(0) \in Turn
    BY <1>1 DEF NewTurn, Turn
  <2>2. Append(work[t], NewTurn(0)) \in Seq(Turn)
    BY <1>1, <2>1
  <2>3. work' \in [Timer -> Seq(Turn)]
    BY <1>1, <2>2 DEF RunNow
  <2>4. room' \in Nat /\ manual' \in Nat
    BY <1>1 DEF RunNow, TypeOK
  <2> QED
    BY <2>3, <2>4 DEF RunNow, TypeOK
<1>4. RecordedPast' /\ NextIsFresh' /\ UNCHANGED <<now, nextRunAt>>
  BY DEF RunNow, RecordedPast, NextIsFresh
<1>5. ~HasPendingWork(t) /\ f \in [{t} -> Nat] /\ f[t] = 0 /\ {t} \in SUBSET Timer
  BY DEF RunNow
<1> HIDE DEF f
<1> QED
  BY <1>2, <1>3, <1>4, <1>5, CreateStep

LEMMA TickPreserves ==
  ASSUME IInv, Tick
  PROVE  IInv'
<1> USE DEF IInv
<1>1. PICK S \in SUBSET Claimable :
        /\ Accepted(S)
        /\ recorded' = [t \in Timer |-> IF t \in Settled(S)
                                          THEN recorded[t] \cup {nextRunAt[t]} ELSE recorded[t]]
        /\ work' = [t \in Timer |-> IF t \in S
                                      THEN Append(work[t], NewTurn(nextRunAt[t])) ELSE work[t]]
        /\ nextRunAt' = [t \in Timer |-> IF t \in Settled(S)
                                           THEN Following(t) ELSE nextRunAt[t]]
        /\ enabled' = [t \in Timer |-> IF t \in Settled(S)
                                         THEN StaysEnabled(t) ELSE enabled[t]]
        /\ room' = room - Cardinality(S)
  BY DEF Tick
<1>2. UNCHANGED <<now, state, schedule, up, bounds>>
  BY DEF Tick
<1>3. now \in Nat /\ \A t \in Timer : nextRunAt[t] \in Nat /\ schedule[t] \in Schedule
  BY DEF TypeOK
<1>4. S \subseteq Timer /\ Settled(S) \subseteq Timer /\ S \subseteq Settled(S)
  BY DEF Claimable, Settled, Due
<1>5. \A t \in Settled(S) : nextRunAt[t] # 0 /\ nextRunAt[t] <= now
  BY DEF Settled, Due
<1>6. \A t \in Timer : /\ Following(t) \in Nat
                       /\ Following(t) = 0 \/ now < Following(t)
                       /\ StaysEnabled(t) \in BOOLEAN
                       /\ StaysEnabled(t) <=> Following(t) # 0
  <2> SUFFICES ASSUME NEW t \in Timer
               PROVE  /\ Following(t) \in Nat
                      /\ Following(t) = 0 \/ now < Following(t)
                      /\ StaysEnabled(t) \in BOOLEAN
                      /\ StaysEnabled(t) <=> Following(t) # 0
    OBVIOUS
  <2>1. /\ NextAfter(schedule[t], now) \in Nat
        /\ schedule[t].kind = "once" => NextAfter(schedule[t], now) = 0
        /\ schedule[t].kind # "once" => now < NextAfter(schedule[t], now)
    BY <1>3, NextAfterIsLater
  <2>2. CASE schedule[t].kind = "uneven" /\ ~Missed(t)
    BY <2>2 DEF Following, StaysEnabled
  <2>3. CASE ~(schedule[t].kind = "uneven" /\ ~Missed(t))
    BY <2>1, <2>3, <1>3 DEF Following, StaysEnabled
  <2> QED
    BY <2>2, <2>3
<1>7. TypeOK'
  <2>1. \A t \in Timer : NewTurn(nextRunAt[t]) \in Turn
    BY <1>3 DEF NewTurn, Turn
  <2>2. work' \in [Timer -> Seq(Turn)]
    BY <1>1, <2>1 DEF TypeOK
  <2>3. room' \in Nat
    <3>1. IsFiniteSet(S)
      BY <1>4, FS_Subset, TimersAssumption
    <3>2. Cardinality(S) \in Nat /\ Cardinality(S) <= room /\ room \in Nat
      BY <3>1, <1>1, FS_CardinalityType DEF Accepted, TypeOK
    <3> QED
      BY <3>2, <1>1
  <2>4. recorded' \in [Timer -> SUBSET Nat]
    BY <1>1, <1>3 DEF TypeOK
  <2>5. nextRunAt' \in [Timer -> Nat] /\ enabled' \in [Timer -> BOOLEAN]
    BY <1>1, <1>6 DEF TypeOK
  <2>6. \A t \in Timer : enabled'[t] <=> nextRunAt'[t] # 0
    BY <1>1, <1>6 DEF TypeOK
  <2> QED
    BY <1>2, <2>2, <2>3, <2>4, <2>5, <2>6 DEF TypeOK, bounds
<1>8. RecordedPast'
  BY <1>1, <1>2, <1>5 DEF RecordedPast
<1>9. NextIsFresh'
  <2> SUFFICES ASSUME NEW t \in Timer, nextRunAt'[t] # 0, NEW r \in recorded'[t]
               PROVE  r < nextRunAt'[t]
    BY DEF NextIsFresh
  <2>1. CASE t \in Settled(S)
    <3>1. nextRunAt'[t] = Following(t) /\ now < Following(t) /\ Following(t) \in Nat
      BY <1>1, <1>6, <2>1
    <3>2. r <= now /\ r \in Nat
      BY <1>2, <1>7, <1>8 DEF RecordedPast, TypeOK
    <3> QED
      BY <3>1, <3>2, <1>3
  <2>2. CASE t \notin Settled(S)
    BY <1>1, <2>2 DEF NextIsFresh
  <2> QED
    BY <2>1, <2>2
<1>10. QED
  <2> DEFINE f == [t \in S |-> nextRunAt[t]]
  <2>1. f \in [S -> Nat] /\ \A t \in S : f[t] = nextRunAt[t]
    BY <1>3, <1>4
  <2>2. \A t \in S : ~HasPendingWork(t) /\ now <= f[t] + Late
    <3>1. \A t \in S : ~HasPendingWork(t) /\ ~(now > nextRunAt[t] + Late)
      BY DEF Claimable, Missed
    <3> QED
      BY <3>1, <2>1, <1>3, <1>4, TimersAssumption
  <2>3. work' = [t \in Timer |-> IF t \in S THEN Append(work[t], NewTurn(f[t])) ELSE work[t]]
    BY <1>1, <2>1
  <2>4. \A t \in Timer : \/ nextRunAt'[t] = nextRunAt[t] /\ t \notin S
                         \/ nextRunAt'[t] = 0 \/ now < nextRunAt'[t]
    BY <1>1, <1>4, <1>6
  <2> HIDE DEF f
  <2> QED
    BY <1>2, <1>4, <1>7, <1>8, <1>9, <2>1, <2>2, <2>3, <2>4, CreateStep DEF bounds

LEMMA TurnPreserves ==
  ASSUME IInv, NEW t \in Timer, NEW i \in DOMAIN work[t],
         EndTurn(t, i) \/ StopTurn(t, i) \/ ResumeTurn(t, i)
  PROVE  IInv'
<1> USE DEF IInv
<1>1. PICK x \in {"resumed", "interrupted", "done"} :
        work' = [work EXCEPT ![t][i].st = x]
  BY DEF EndTurn, StopTurn, ResumeTurn
<1>2. UNCHANGED <<now, state, schedule, enabled, nextRunAt, recorded, room, up, manual, edits, downs>>
  BY DEF EndTurn, StopTurn, ResumeTurn, bounds
<1>3. stops' \in Nat
  BY DEF EndTurn, StopTurn, ResumeTurn, bounds, TypeOK
<1>4. work' \in [Timer -> Seq(Turn)]
  <2>1. work \in [Timer -> Seq(Turn)]
    BY DEF TypeOK
  <2>2. [work[t] EXCEPT ![i].st = x] \in Seq(Turn)
    BY <2>1, ChangeStatus
  <2> QED
    BY <1>1, <2>1, <2>2
<1>5. TypeOK'
  BY <1>2, <1>3, <1>4 DEF TypeOK
<1> QED
  BY <1>1, <1>2, <1>5, StatusStep

\* Every step preserves the invariant.
LEMMA NextPreserves == IInv /\ [Next]_vars => IInv'
<1> SUFFICES ASSUME IInv, [Next]_vars PROVE IInv'
  OBVIOUS
<1>1. CASE UNCHANGED vars
  <2>1. now \in Nat /\ TypeOK'
    BY <1>1 DEF IInv, TypeOK, vars, bounds
  <2> QED
    BY <1>1, <2>1, QuietStep DEF vars
<1>2. CASE \E t \in Timer, s \in Schedule, e \in BOOLEAN : Create(t, s, e) \/ Update(t, s, e)
  BY <1>2, WritePreserves
<1>3. CASE \E t \in Timer : Remove(t)
  BY <1>3, RemovePreserves
<1>4. CASE \E t \in Timer : RunNow(t)
  BY <1>4, RunNowPreserves
<1>5. CASE Tick
  BY <1>5, TickPreserves
<1>6. CASE \E t \in Timer : \E i \in DOMAIN work[t] :
             EndTurn(t, i) \/ StopTurn(t, i) \/ ResumeTurn(t, i)
  BY <1>6, TurnPreserves
<1>7. CASE Queue \/ Advance \/ Down \/ Up
  <2>1. TypeOK /\ now \in Nat
    BY DEF IInv, TypeOK
  <2>2. /\ now' \in Nat /\ now <= now'
        /\ UNCHANGED <<nextRunAt, recorded, work>>
    BY <1>7, <2>1 DEF Queue, Advance, Down, Up, bounds
  <2>3. TypeOK'
    <3>1. CASE Queue
      <4>1. room' \in Nat /\ UNCHANGED <<now, state, schedule, enabled, nextRunAt,
                                        recorded, work, up, bounds>>
        BY <3>1, TimersAssumption DEF Queue
      <4> QED
        BY <4>1, <2>1 DEF TypeOK, bounds
    <3>2. CASE Advance
      <4>1. now' \in Nat /\ UNCHANGED <<state, schedule, enabled, nextRunAt,
                                       recorded, work, room, up, bounds>>
        BY <3>2, <2>1 DEF Advance
      <4> QED
        BY <4>1, <2>1 DEF TypeOK, bounds
    <3>3. CASE Down
      <4>1. downs' \in Nat
        BY <3>3, <2>1 DEF Down, TypeOK
      <4> QED
        BY <3>3, <4>1, <2>1 DEF Down, TypeOK
    <3>4. CASE Up
      BY <3>4, <2>1 DEF Up, TypeOK, bounds
    <3> QED
      BY <1>7, <3>1, <3>2, <3>3, <3>4
  <2> QED
    BY <2>2, <2>3, QuietStep
<1> QED
  BY <1>1, <1>2, <1>3, <1>4, <1>5, <1>6, <1>7 DEF Next

\* The inductive invariant holds in every behaviour of TimersService.
THEOREM Invariance == Spec => []IInv
<1>1. Init => IInv
  BY InitIInv
<1>2. IInv /\ [Next]_vars => IInv'
  BY NextPreserves
<1> QED
  BY <1>1, <1>2, PTL DEF Spec

-----------------------------------------------------------------------------
\* The theorems

\* The rows of the timers and timer_runs tables keep their types; in particular
\* a timer is enabled exactly while it has a next_run_at.
THEOREM TypeCorrect == Spec => []TypeOK
<1>1. IInv => TypeOK
  BY DEF IInv
<1> QED
  BY <1>1, Invariance, PTL

\* A claim never meets the row of an occurrence that was recorded before, so no
\* timer is stuck with a next_run_at that tick can neither claim nor advance.
THEOREM NextIsFreshCorrect == Spec => []NextIsFresh
<1>1. IInv => NextIsFresh
  BY DEF IInv
<1> QED
  BY <1>1, Invariance, PTL

\* Whatever the downtime and the edits, tick runs no occurrence that is too late
\* and none that was due before the last one had run.
THEOREM NoBackfillCorrect == Spec => []NoBackfill
<1>1. IInv => NoBackfill
  BY DEF IInv
<1> QED
  BY <1>1, Invariance, PTL

\* Neither tick nor Run now adds a turn while the timer has one that is pending.
THEOREM NoOverlapCorrect == Spec => []NoOverlap
<1>1. IInv => NoOverlap
  <2> SUFFICES ASSUME IInv, NEW t \in Timer, NEW i \in DOMAIN work[t], NEW k \in DOMAIN work[t],
                      work[t][i].st = "pending", work[t][k].st \in {"pending", "resumed"}, i # k
               PROVE  k < i /\ work[t][k].st = "resumed"
    BY DEF NoOverlap
  <2>1. work[t] \in Seq(Turn) /\ i \in Nat /\ k \in Nat
    BY TurnFields DEF IInv, TypeOK
  <2>2. i = Len(work[t]) /\ k <= Len(work[t])
    BY <2>1 DEF IInv, PendingIsLast
  <2>3. work[t][k].st # "pending"
    BY <2>2 DEF IInv, PendingIsLast
  <2> QED
    BY <2>1, <2>2, <2>3
<1> QED
  BY <1>1, Invariance, PTL

-----------------------------------------------------------------------------
\* The connection to Codex

\* A run that waits for its handshake has its transport, and one that has yet to choose a
\* transport is not of the client in use, whose transport it would replace.
Handshakes ==
  /\ \A c \in Client : run[c] = "initialize" => Live(c) \/ shuttingDown
  /\ \A c \in Client : run[c] = "resolve" => current # c
  /\ process = "ready" => current # 0

\* Only a request for a code makes a rotation wait, for the code on display or for one a
\* login has removed.
Rotation ==
  /\ asked = 0 => rotating = 0
  /\ rotating # 0 => login.id \in {0, rotating}

\* While somebody is logged in, too: a logout leaves the code and its timer as they are.
Armed == login.id \notin {0, lapsed} /\ ~shuttingDown => Kept(login.id)

Connected == Handshakes /\ ReadyMeansLive /\ ReconnectPending
Refreshed == Rotation /\ Armed

LEMMA ConnectionInitTypes == ConnectionInit => ConnectionTypeOK
<1> SUFFICES ASSUME ConnectionInit PROVE ConnectionTypeOK
  OBVIOUS
<1>1. /\ current \in 0..Clients /\ agent \in 0..Clients /\ asked \in 0..Clients
      /\ refreshTimer \in 0..MaxCodes /\ rotating \in 0..MaxCodes /\ issued \in 0..MaxCodes
      /\ lapsed \in 0..MaxCodes /\ faults \in 0..MaxFaults
  BY ConnectionAssumption DEF ConnectionInit
<1>2. login \in [state : {"idle", "waiting", "succeeded", "failed"}, id : 0..MaxCodes]
  BY ConnectionAssumption DEF ConnectionInit
<1>3. /\ run \in [Client -> Waiting \cup {"none", "resolve"}]
      /\ link \in [Client -> {"none", "opening", "local", "desk"}]
  BY DEF ConnectionInit
<1>4. QED
  BY <1>1, <1>2, <1>3 DEF ConnectionInit, ConnectionTypeOK

\* What an action leaves alone keeps its type.
LEMMA ServiceTypes ==
  ASSUME ConnectionTypeOK, UNCHANGED <<loginState, env>>,
         process' \in {"starting", "ready", "error"}, current' \in 0..Clients,
         restart' \in BOOLEAN, deskSelected' \in BOOLEAN, shuttingDown' \in BOOLEAN,
         run' \in [Client -> Waiting \cup {"none", "resolve"}],
         link' \in [Client -> {"none", "opening", "local", "desk"}],
         agent' \in 0..Clients, healthy' \in BOOLEAN, faults' \in 0..MaxFaults
  PROVE  ConnectionTypeOK'
BY DEF ConnectionTypeOK, loginState

LEMMA LoginTypes ==
  ASSUME ConnectionTypeOK, UNCHANGED <<service, desk, env>>,
         authenticated' \in BOOLEAN, account' \in BOOLEAN,
         login' \in [state : {"idle", "waiting", "succeeded", "failed"}, id : 0..MaxCodes],
         refreshTimer' \in 0..MaxCodes, asked' \in 0..Clients, rotating' \in 0..MaxCodes,
         issued' \in 0..MaxCodes, lapsed' \in 0..MaxCodes, faults' \in 0..MaxFaults
  PROVE  ConnectionTypeOK'
BY DEF ConnectionTypeOK, service, desk

LEMMA FaultCounts ==
  ASSUME ConnectionTypeOK, NEW k, Fault(k)
  PROVE  faults' \in 0..MaxFaults
BY ConnectionAssumption DEF ConnectionTypeOK, Fault

\* A request whose answer will not come, and one that a rotation sends.
LEMMA RequestLostKeeps ==
  ASSUME ConnectionTypeOK, Refreshed, RequestLost,
         UNCHANGED <<lapsed, shuttingDown>>
  PROVE  /\ Refreshed'
         /\ login' \in [state : {"idle", "waiting", "succeeded", "failed"}, id : 0..MaxCodes]
         /\ refreshTimer' \in 0..MaxCodes /\ asked' \in 0..Clients /\ rotating' \in 0..MaxCodes
<1>1. CASE rotating = 0
  BY <1>1, ConnectionAssumption
     DEF RequestLost, Refreshed, Rotation, Armed, Kept, ConnectionTypeOK
<1>2. CASE rotating # 0
  <2>1. /\ login' = [login EXCEPT !.state = "failed"] /\ refreshTimer' = rotating
        /\ asked' = 0 /\ rotating' = 0
    BY <1>2 DEF RequestLost, RotationFails
  <2>2. login'.id = login.id
    BY <2>1 DEF ConnectionTypeOK
  <2>3. QED
    BY <1>2, <2>1, <2>2, ConnectionAssumption
       DEF Refreshed, Rotation, Armed, Kept, ConnectionTypeOK
<1>3. QED
  BY <1>1, <1>2

\* rotateDeviceLogin, for a login with the code on display.
LEMMA RotateKeeps ==
  ASSUME ConnectionTypeOK, Refreshed, Handshakes,
         NEW l \in [state : {"idle", "waiting", "succeeded", "failed"}, id : 0..MaxCodes],
         l.id = login.id, NEW id \in 0..MaxCodes, NEW t \in 0..MaxCodes,
         t # refreshTimer => id = refreshTimer,
         Rotate(id, l, t), UNCHANGED <<authenticated, shuttingDown>>,
         lapsed' \in {lapsed, login.id},
         t # refreshTimer /\ authenticated /\ login.id = id => lapsed' = id
  PROVE  /\ Refreshed'
         /\ login' \in [state : {"idle", "waiting", "succeeded", "failed"}, id : 0..MaxCodes]
         /\ refreshTimer' \in 0..MaxCodes /\ asked' \in 0..Clients /\ rotating' \in 0..MaxCodes
<1>1. CASE id = 0 \/ authenticated \/ l.id # id
  <2>1. login' = l /\ refreshTimer' = t /\ UNCHANGED <<asked, rotating>>
    BY <1>1 DEF Rotate
  <2>2. QED
    BY <1>1, <2>1 DEF Refreshed, Rotation, Armed, Kept, ConnectionTypeOK
<1>2. CASE id # 0 /\ ~authenticated /\ l.id = id /\ asked = 0 /\ process # "ready"
  <2>1. /\ login' = [l EXCEPT !.state = "failed"] /\ refreshTimer' = id
        /\ UNCHANGED <<asked, rotating>>
    BY <1>2 DEF Rotate, RotationFails
  <2>2. login'.id = login.id
    BY <2>1
  <2>3. QED
    BY <1>2, <2>1, <2>2 DEF Refreshed, Rotation, Armed, Kept, ConnectionTypeOK
<1>3. CASE id # 0 /\ ~authenticated /\ l.id = id /\ ~(asked = 0 /\ process # "ready")
  <2>1. /\ login' = l /\ refreshTimer' = t /\ rotating' = id
        /\ asked' = IF asked = 0 THEN current ELSE asked
    BY <1>3 DEF Rotate
  <2>2. asked' # 0 /\ asked' \in 0..Clients
    BY <1>3, <2>1 DEF Handshakes, ConnectionTypeOK
  <2>3. QED
    BY <1>3, <2>1, <2>2 DEF Refreshed, Rotation, Armed, Kept, ConnectionTypeOK
<1>4. QED
  BY <1>1, <1>2, <1>3

ConnectionInv == ConnectionTypeOK /\ Connected /\ Refreshed

LEMMA InitConnectionInv == ConnectionInit => ConnectionInv
<1> SUFFICES ASSUME ConnectionInit PROVE ConnectionInv
  OBVIOUS
<1>1. ConnectionTypeOK
  BY ConnectionInitTypes
<1>2. 1 \in Client /\ run[1] = "resolve" /\ \A c \in Client : c # 0
  BY ConnectionAssumption DEF ConnectionInit, Client
<1>3. Connected
  BY <1>2 DEF ConnectionInit, Connected, Handshakes, ReadyMeansLive, ReconnectPending
<1>4. Refreshed
  BY DEF ConnectionInit, Refreshed, Rotation, Armed, Kept
<1>5. QED
  BY <1>1, <1>3, <1>4 DEF ConnectionInv

\* The steps of the login leave the connection alone.
LEMMA LoginKeeps ==
  ASSUME ConnectionInv, UNCHANGED <<service, desk, env>>, Refreshed',
         authenticated' \in BOOLEAN, account' \in BOOLEAN,
         login' \in [state : {"idle", "waiting", "succeeded", "failed"}, id : 0..MaxCodes],
         refreshTimer' \in 0..MaxCodes, asked' \in 0..Clients, rotating' \in 0..MaxCodes,
         issued' \in 0..MaxCodes, lapsed' \in 0..MaxCodes, faults' \in 0..MaxFaults
  PROVE  ConnectionInv'
<1>1. ConnectionTypeOK'
  BY LoginTypes DEF ConnectionInv
<1>2. Connected'
  BY DEF ConnectionInv, Connected, Handshakes, ReadyMeansLive, ReconnectPending, Live, service
<1>3. QED
  BY <1>1, <1>2 DEF ConnectionInv

LEMMA LoginStepKeeps == ASSUME ConnectionInv, LoginStep PROVE ConnectionInv'
<1> USE DEF ConnectionInv
<1>0. /\ authenticated \in BOOLEAN /\ account \in BOOLEAN
      /\ login \in [state : {"idle", "waiting", "succeeded", "failed"}, id : 0..MaxCodes]
      /\ refreshTimer \in 0..MaxCodes /\ asked \in 0..Clients /\ rotating \in 0..MaxCodes
      /\ issued \in 0..MaxCodes /\ lapsed \in 0..MaxCodes /\ faults \in 0..MaxFaults
      /\ current \in 0..Clients
  BY DEF ConnectionTypeOK
<1>1. CASE StartDeviceLogin
  <2>1. /\ asked' = current /\ asked = 0
        /\ UNCHANGED <<service, desk, authenticated, login, refreshTimer, rotating, issued,
                       account, lapsed, faults, env>>
    BY <1>1 DEF StartDeviceLogin
  <2>2. shuttingDown' = shuttingDown
    BY <2>1 DEF service
  <2>3. Refreshed'
    BY <2>1, <2>2 DEF Refreshed, Rotation, Armed, Kept
  <2>4. QED
    BY <1>0, <2>1, <2>3, LoginKeeps
<1>2. CASE RefreshDue
  <2>1. /\ Rotate(refreshTimer, login, 0)
        /\ lapsed' = IF authenticated /\ login.id = refreshTimer THEN login.id ELSE lapsed
        /\ UNCHANGED <<service, desk, authenticated, issued, account, faults, env>>
    BY <1>2 DEF RefreshDue
  <2>2. shuttingDown' = shuttingDown /\ 0 \in 0..MaxCodes
    BY <2>1, ConnectionAssumption DEF service
  <2>3. /\ Refreshed'
        /\ login' \in [state : {"idle", "waiting", "succeeded", "failed"}, id : 0..MaxCodes]
        /\ refreshTimer' \in 0..MaxCodes /\ asked' \in 0..Clients /\ rotating' \in 0..MaxCodes
    BY <1>0, <2>1, <2>2, RotateKeeps DEF Connected
  <2>4. QED
    BY <1>0, <2>1, <2>3, LoginKeeps
<1>3. CASE DeviceCodeIssued
  <2>1. /\ issued' = issued + 1 /\ issued < MaxCodes
        /\ login' = [state |-> "waiting", id |-> issued + 1] /\ refreshTimer' = issued + 1
        /\ asked' = 0 /\ rotating' = 0
        /\ UNCHANGED <<service, desk, authenticated, account, lapsed, faults, env>>
    BY <1>3 DEF DeviceCodeIssued
  <2>2. issued + 1 \in 0..MaxCodes /\ 0 \in 0..MaxCodes /\ 0 \in 0..Clients
    BY <1>0, <2>1, ConnectionAssumption
  <2>3. Refreshed'
    BY <2>1 DEF Refreshed, Rotation, Armed, Kept
  <2>4. QED
    BY <1>0, <2>1, <2>2, <2>3, LoginKeeps
<1>4. CASE DeviceCodeRefused
  <2>1. /\ Fault("refused") /\ RequestLost
        /\ UNCHANGED <<service, desk, authenticated, issued, account, lapsed, env>>
    BY <1>4 DEF DeviceCodeRefused
  <2>2. shuttingDown' = shuttingDown
    BY <2>1 DEF service
  <2>3. /\ Refreshed'
        /\ login' \in [state : {"idle", "waiting", "succeeded", "failed"}, id : 0..MaxCodes]
        /\ refreshTimer' \in 0..MaxCodes /\ asked' \in 0..Clients /\ rotating' \in 0..MaxCodes
    BY <2>1, <2>2, RequestLostKeeps
  <2>4. QED
    BY <1>0, <2>1, <2>3, FaultCounts, LoginKeeps
<1>5. CASE AccountUpdated
  <2>1. /\ authenticated' = account
        /\ \/ login' = [state |-> "succeeded", id |-> 0] /\ refreshTimer' = 0
           \/ UNCHANGED <<login, refreshTimer>>
        /\ UNCHANGED <<service, desk, asked, rotating, issued, account, lapsed, faults, env>>
    BY <1>5 DEF AccountUpdated
  <2>2. shuttingDown' = shuttingDown
    BY <2>1 DEF service
  <2>3. Refreshed'
    BY <2>1, <2>2 DEF Refreshed, Rotation, Armed, Kept
  <2>4. /\ login' \in [state : {"idle", "waiting", "succeeded", "failed"}, id : 0..MaxCodes]
        /\ refreshTimer' \in 0..MaxCodes
    BY <1>0, <2>1, ConnectionAssumption
  <2>5. QED
    BY <1>0, <2>1, <2>3, <2>4, LoginKeeps
<1>6. CASE LoginApiKey
  <2>1. /\ login' = [state |-> "waiting", id |-> 0] /\ refreshTimer' = 0 /\ account' = TRUE
        /\ UNCHANGED <<service, desk, authenticated, asked, rotating, issued, lapsed, faults, env>>
    BY <1>6 DEF LoginApiKey
  <2>2. Refreshed'
    BY <2>1 DEF Refreshed, Rotation, Armed, Kept
  <2>3. 0 \in 0..MaxCodes
    BY ConnectionAssumption
  <2>4. QED
    BY <1>0, <2>1, <2>2, <2>3, LoginKeeps
<1>7. CASE RefreshAccount
  <2>1. /\ authenticated' = account
        /\ UNCHANGED <<service, desk, login, refreshTimer, asked, rotating, issued, account,
                       lapsed, faults, env>>
    BY <1>7 DEF RefreshAccount
  <2>2. shuttingDown' = shuttingDown
    BY <2>1 DEF service
  <2>3. Refreshed'
    BY <2>1, <2>2 DEF Refreshed, Rotation, Armed, Kept
  <2>4. QED
    BY <1>0, <2>1, <2>3, LoginKeeps
<1>8. ASSUME NEW id \in Code, NEW o \in {"success", "failure", "expired"},
             LoginCompleted(id, o)
      PROVE  ConnectionInv'
  <2>1. /\ account' = (account \/ o = "success")
        /\ UNCHANGED <<service, desk, authenticated, issued, lapsed, faults, env>>
    BY <1>8 DEF LoginCompleted
  <2>2. shuttingDown' = shuttingDown /\ account' \in BOOLEAN /\ 0 \in 0..MaxCodes
    BY <1>0, <2>1, ConnectionAssumption DEF service
  <2>3. CASE login.id \notin {0, id}
    <3>1. UNCHANGED <<login, refreshTimer, asked, rotating>>
      BY <1>8, <2>3 DEF LoginCompleted
    <3>2. Refreshed'
      BY <2>1, <2>2, <3>1 DEF Refreshed, Rotation, Armed, Kept
    <3>3. QED
      BY <1>0, <2>1, <2>2, <3>1, <3>2, LoginKeeps
  <2>4. CASE login.id \in {0, id} /\ o = "success"
    <3>1. /\ login' = [state |-> "succeeded", id |-> 0] /\ refreshTimer' = 0
          /\ UNCHANGED <<asked, rotating>>
      BY <1>8, <2>4 DEF LoginCompleted
    <3>2. Refreshed'
      BY <2>1, <2>2, <2>4, <3>1 DEF Refreshed, Rotation, Armed, Kept
    <3>3. QED
      BY <1>0, <2>1, <2>2, <3>1, <3>2, LoginKeeps
  <2>5. CASE login.id \in {0, id} /\ o = "expired"
    <3>1. Rotate(login.id, LoginFailed(o), refreshTimer) /\ account' = account
      BY <1>0, <1>8, <2>1, <2>5 DEF LoginCompleted
    <3>2. /\ LoginFailed(o) \in
               [state : {"idle", "waiting", "succeeded", "failed"}, id : 0..MaxCodes]
          /\ LoginFailed(o).id = login.id /\ login.id \in 0..MaxCodes
      BY <1>0 DEF LoginFailed
    <3>3. /\ Refreshed'
          /\ login' \in [state : {"idle", "waiting", "succeeded", "failed"}, id : 0..MaxCodes]
          /\ refreshTimer' \in 0..MaxCodes /\ asked' \in 0..Clients /\ rotating' \in 0..MaxCodes
      BY <1>0, <2>1, <2>2, <3>1, <3>2, RotateKeeps DEF Connected
    <3>4. QED
      BY <1>0, <2>1, <2>2, <3>3, LoginKeeps
  <2>6. CASE login.id \in {0, id} /\ o = "failure"
    <3>1. login' = LoginFailed(o) /\ UNCHANGED <<refreshTimer, asked, rotating>>
      BY <1>8, <2>6 DEF LoginCompleted
    <3>2. /\ login' \in [state : {"idle", "waiting", "succeeded", "failed"}, id : 0..MaxCodes]
          /\ login'.id = login.id
      BY <1>0, <3>1 DEF LoginFailed
    <3>3. Refreshed'
      BY <1>0, <2>1, <2>2, <2>6, <3>1, <3>2 DEF Refreshed, Rotation, Armed, Kept
    <3>4. QED
      BY <1>0, <2>1, <2>2, <3>1, <3>2, <3>3, LoginKeeps
  <2>7. QED
    BY <2>3, <2>4, <2>5, <2>6
<1>9. CASE LoggedOut
  <2>1. /\ account' = FALSE /\ Fault("logout")
        /\ UNCHANGED <<service, desk, authenticated, login, refreshTimer, asked, rotating,
                       issued, lapsed, env>>
    BY <1>9 DEF LoggedOut
  <2>2. shuttingDown' = shuttingDown
    BY <2>1 DEF service
  <2>3. Refreshed'
    BY <2>1, <2>2 DEF Refreshed, Rotation, Armed, Kept
  <2>4. faults' \in 0..MaxFaults
    BY <2>1, FaultCounts
  <2>5. QED
    BY <1>0, <2>1, <2>3, <2>4, LoginKeeps
<1>10. QED
  BY <1>1, <1>2, <1>3, <1>4, <1>5, <1>6, <1>7, <1>8, <1>9 DEF LoginStep

\* The steps of the connection, those that leave the login alone.
LEMMA ConnectionKeeps ==
  ASSUME ConnectionInv, UNCHANGED <<loginState, shuttingDown, env>>, Connected',
         process' \in {"starting", "ready", "error"}, current' \in 0..Clients,
         restart' \in BOOLEAN, deskSelected' \in BOOLEAN,
         run' \in [Client -> Waiting \cup {"none", "resolve"}],
         link' \in [Client -> {"none", "opening", "local", "desk"}],
         agent' \in 0..Clients, healthy' \in BOOLEAN, faults' \in 0..MaxFaults
  PROVE  ConnectionInv'
<1>1. shuttingDown' \in BOOLEAN
  BY DEF ConnectionInv, ConnectionTypeOK
<1>2. ConnectionTypeOK'
  BY <1>1, ServiceTypes DEF ConnectionInv
<1>3. Refreshed'
  BY DEF ConnectionInv, Refreshed, Rotation, Armed, Kept, loginState
<1>4. QED
  BY <1>2, <1>3 DEF ConnectionInv

\* startClient fails: a restart is due, unless the service shuts down.
LEMMA FailedKeeps ==
  ASSUME ConnectionTypeOK, Handshakes, NEW c \in Client, Failed(c), shuttingDown' = shuttingDown,
         current' \in {0, current},
         link' = link \/ link' = [link EXCEPT ![c] = "none"]
  PROVE  /\ Connected' /\ process' \in {"starting", "ready", "error"} /\ restart' \in BOOLEAN
         /\ run' \in [Client -> Waiting \cup {"none", "resolve"}]
         /\ link' \in [Client -> {"none", "opening", "local", "desk"}]
<1>1. /\ process' = "error" /\ run' = [run EXCEPT ![c] = "none"]
      /\ restart' = (restart \/ ~shuttingDown)
  BY DEF Failed, ScheduleRestart
<1>2. /\ run \in [Client -> Waiting \cup {"none", "resolve"}]
      /\ link \in [Client -> {"none", "opening", "local", "desk"}]
      /\ restart \in BOOLEAN /\ shuttingDown \in BOOLEAN
  BY DEF ConnectionTypeOK
<1>3. /\ run' \in [Client -> Waiting \cup {"none", "resolve"}]
      /\ link' \in [Client -> {"none", "opening", "local", "desk"}]
  BY <1>1, <1>2
<1>4. \A d \in Client : d # c => run'[d] = run[d] /\ link'[d] = link[d]
  BY <1>1, <1>2
<1>5. \A d \in Client : run'[d] = "initialize" => Live(d)' \/ shuttingDown'
  BY <1>1, <1>2, <1>4 DEF Handshakes, Live
<1>6. \A d \in Client : run'[d] = "resolve" => current' # d
  <2>1. \A d \in Client : d # 0
    BY ConnectionAssumption DEF Client
  <2>2. QED
    BY <1>1, <1>2, <1>4, <2>1 DEF Handshakes
<1>7. Connected'
  BY <1>1, <1>2, <1>5, <1>6 DEF Connected, Handshakes, ReadyMeansLive, ReconnectPending
<1>8. QED
  BY <1>1, <1>2, <1>3, <1>7

LEMMA StartKeeps ==
  ASSUME ConnectionInv, NEW c \in Client, RestartDue(c) \/ StartStep(c) \/ RequestFails(c)
  PROVE  ConnectionInv'
<1> USE DEF ConnectionInv
<1>0. /\ process \in {"starting", "ready", "error"} /\ current \in 0..Clients
      /\ restart \in BOOLEAN /\ deskSelected \in BOOLEAN /\ shuttingDown \in BOOLEAN
      /\ run \in [Client -> Waiting \cup {"none", "resolve"}]
      /\ link \in [Client -> {"none", "opening", "local", "desk"}]
      /\ agent \in 0..Clients /\ healthy \in BOOLEAN /\ faults \in 0..MaxFaults
      /\ c \in 0..Clients /\ c # 0
  BY ConnectionAssumption DEF ConnectionTypeOK, Client
<1>1. Handshakes /\ ReadyMeansLive /\ ReconnectPending
  BY DEF Connected
<1>2. CASE RestartDue(c)
  <2>1. /\ restart' = FALSE /\ process' = "starting" /\ run' = [run EXCEPT ![c] = "resolve"]
        /\ c # current
        /\ UNCHANGED <<loginState, current, deskSelected, shuttingDown, link, agent, healthy,
                       faults, env>>
    BY <1>2 DEF RestartDue, Free, NoLogin, desk
  <2>2. run' \in [Client -> Waiting \cup {"none", "resolve"}] /\ run'[c] = "resolve"
    BY <1>0, <2>1
  <2>3. Connected'
    BY <1>0, <1>1, <2>1, <2>2 DEF Connected, Handshakes, ReadyMeansLive, ReconnectPending, Live
  <2>4. QED
    BY <1>0, <2>1, <2>2, <2>3, ConnectionKeeps
<1>3. CASE ResolveLocal(c)
  <2>1. /\ run[c] = "resolve" /\ run' = [run EXCEPT ![c] = "initialize"]
        /\ link' = [link EXCEPT ![c] = "local"]
        /\ UNCHANGED <<loginState, process, current, restart, deskSelected, shuttingDown, agent,
                       healthy, faults, env>>
    BY <1>3 DEF ResolveLocal, NoLogin, desk
  <2>2. /\ run' \in [Client -> Waiting \cup {"none", "resolve"}] /\ run'[c] = "initialize"
        /\ link' \in [Client -> {"none", "opening", "local", "desk"}] /\ link'[c] = "local"
        /\ \A d \in Client : d # c => run'[d] = run[d] /\ link'[d] = link[d]
    BY <1>0, <2>1 DEF Waiting
  <2>3. Handshakes' /\ ReadyMeansLive'
    BY <1>0, <1>1, <2>1, <2>2 DEF Handshakes, ReadyMeansLive, Live, Client
  <2>4. ReconnectPending'
    BY <1>0, <1>1, <2>1, <2>2 DEF ReconnectPending
  <2>5. QED
    BY <1>0, <2>1, <2>2, <2>3, <2>4, ConnectionKeeps DEF Connected
<1>4. CASE ResolveDesk(c)
  <2>1. /\ run[c] = "resolve" /\ run' = [run EXCEPT ![c] = "connect"]
        /\ link' = [link EXCEPT ![c] = "opening"]
        /\ UNCHANGED <<loginState, process, current, restart, deskSelected, shuttingDown, agent,
                       healthy, faults, env>>
    BY <1>4 DEF ResolveDesk, NoLogin, desk
  <2>2. /\ run' \in [Client -> Waiting \cup {"none", "resolve"}] /\ run'[c] = "connect"
        /\ link' \in [Client -> {"none", "opening", "local", "desk"}]
        /\ \A d \in Client : d # c => run'[d] = run[d] /\ link'[d] = link[d]
        /\ current # c
    BY <1>0, <1>1, <2>1 DEF Waiting, Handshakes
  <2>3. Handshakes' /\ ReadyMeansLive'
    BY <1>0, <1>1, <2>1, <2>2 DEF Handshakes, ReadyMeansLive, Live, Client
  <2>4. ReconnectPending'
    BY <1>0, <1>1, <2>1, <2>2 DEF ReconnectPending
  <2>5. QED
    BY <1>0, <2>1, <2>2, <2>3, <2>4, ConnectionKeeps DEF Connected
<1>5. CASE ResolveFails(c)
  <2>1. /\ Failed(c) /\ (faults' = faults \/ Fault("version"))
        /\ UNCHANGED <<loginState, current, deskSelected, shuttingDown, link, agent, healthy, env>>
    BY <1>5 DEF ResolveFails, NoLogin, desk
  <2>2. faults' \in 0..MaxFaults
    BY <1>0, <2>1, FaultCounts
  <2>3. /\ Connected' /\ process' \in {"starting", "ready", "error"} /\ restart' \in BOOLEAN
        /\ run' \in [Client -> Waiting \cup {"none", "resolve"}]
        /\ link' \in [Client -> {"none", "opening", "local", "desk"}]
    BY <1>1, <2>1, FailedKeeps
  <2>4. QED
    BY <1>0, <2>1, <2>2, <2>3, ConnectionKeeps
<1>6. CASE AgentAccepts(c)
  <2>1. /\ run' = [run EXCEPT ![c] = "initialize"] /\ link' = [link EXCEPT ![c] = "desk"]
        /\ agent' = c
        /\ UNCHANGED <<loginState, process, current, restart, deskSelected, shuttingDown,
                       healthy, faults, env>>
    BY <1>6 DEF AgentAccepts, NoLogin
  <2>2. /\ run' \in [Client -> Waiting \cup {"none", "resolve"}] /\ run'[c] = "initialize"
        /\ link' \in [Client -> {"none", "opening", "local", "desk"}] /\ link'[c] = "desk"
        /\ \A d \in Client : d # c => run'[d] = run[d] /\ link'[d] = link[d]
    BY <1>0, <2>1 DEF Waiting
  <2>3. Handshakes' /\ ReadyMeansLive'
    BY <1>0, <1>1, <2>1, <2>2 DEF Handshakes, ReadyMeansLive, Live, Client
  <2>4. ReconnectPending'
    BY <1>0, <1>1, <2>1, <2>2 DEF ReconnectPending
  <2>5. QED
    BY <1>0, <2>1, <2>2, <2>3, <2>4, ConnectionKeeps DEF Connected
<1>7. CASE ConnectFails(c)
  <2>1. /\ Failed(c) /\ (faults' = faults \/ Fault("timeout"))
        /\ link' = [link EXCEPT ![c] = "none"]
        /\ UNCHANGED <<loginState, current, deskSelected, shuttingDown, agent, healthy, env>>
    BY <1>7 DEF ConnectFails, NoLogin, desk
  <2>2. faults' \in 0..MaxFaults
    BY <1>0, <2>1, FaultCounts
  <2>3. /\ Connected' /\ process' \in {"starting", "ready", "error"} /\ restart' \in BOOLEAN
        /\ run' \in [Client -> Waiting \cup {"none", "resolve"}]
        /\ link' \in [Client -> {"none", "opening", "local", "desk"}]
    BY <1>1, <2>1, FailedKeeps
  <2>4. QED
    BY <1>0, <2>1, <2>2, <2>3, ConnectionKeeps
<1>8. CASE Initialized(c)
  <2>1. /\ run[c] = "initialize" /\ run' = [run EXCEPT ![c] = "account"]
        /\ process' = "ready" /\ current' = c /\ deskSelected' = (deskSelected \/ link[c] = "desk")
        /\ UNCHANGED <<loginState, restart, shuttingDown, link, agent, healthy, faults, env>>
    BY <1>8 DEF Initialized, NoLogin, desk
  <2>2. /\ run' \in [Client -> Waiting \cup {"none", "resolve"}] /\ run'[c] = "account"
        /\ \A d \in Client : d # c => run'[d] = run[d]
    BY <1>0, <2>1 DEF Waiting
  <2>3. Handshakes' /\ ReadyMeansLive'
    BY <1>0, <1>1, <2>1, <2>2 DEF Handshakes, ReadyMeansLive, Live
  <2>4. ReconnectPending' /\ deskSelected' \in BOOLEAN
    BY <1>0, <2>1 DEF ReconnectPending
  <2>5. QED
    BY <1>0, <2>1, <2>2, <2>3, <2>4, ConnectionKeeps DEF Connected
<1>9. CASE AccountRead(c)
  <2>1. /\ run[c] = "account" /\ run' = [run EXCEPT ![c] = IF account THEN "models" ELSE "none"]
        /\ authenticated' = account
        /\ UNCHANGED <<process, current, restart, deskSelected, shuttingDown, link, desk, login,
                       refreshTimer, asked, rotating, issued, account, lapsed, faults, env>>
    BY <1>9 DEF AccountRead
  <2>2. /\ run' \in [Client -> Waiting \cup {"none", "resolve"}]
        /\ run'[c] \notin {"resolve", "connect", "initialize"}
        /\ \A d \in Client : d # c => run'[d] = run[d]
    BY <1>0, <2>1 DEF Waiting
  <2>3. Connected'
    BY <1>0, <1>1, <2>1, <2>2 DEF Connected, Handshakes, ReadyMeansLive, ReconnectPending, Live
  <2>4. Refreshed'
    BY <2>1 DEF Refreshed, Rotation, Armed, Kept
  <2>5. ConnectionTypeOK'
    BY <2>1, <2>2 DEF ConnectionTypeOK, desk
  <2>6. QED
    BY <2>3, <2>4, <2>5
<1>10. CASE ModelsListed(c)
  <2>1. /\ run[c] = "models" /\ run' = [run EXCEPT ![c] = "none"]
        /\ UNCHANGED <<loginState, process, current, restart, deskSelected, shuttingDown, link,
                       agent, healthy, faults, env>>
    BY <1>10 DEF ModelsListed, NoLogin, desk
  <2>2. /\ run' \in [Client -> Waiting \cup {"none", "resolve"}] /\ run'[c] = "none"
        /\ \A d \in Client : d # c => run'[d] = run[d]
    BY <1>0, <2>1 DEF Waiting
  <2>3. Connected'
    BY <1>0, <1>1, <2>1, <2>2 DEF Connected, Handshakes, ReadyMeansLive, ReconnectPending, Live
  <2>4. QED
    BY <1>0, <2>1, <2>2, <2>3, ConnectionKeeps
<1>11. CASE RequestFails(c)
  <2>1. /\ Failed(c) /\ (Fault("initialize") \/ Fault("refresh"))
        /\ UNCHANGED <<loginState, current, deskSelected, shuttingDown, link, agent, healthy, env>>
    BY <1>11 DEF RequestFails, NoLogin, desk
  <2>2. faults' \in 0..MaxFaults
    BY <2>1, FaultCounts
  <2>3. /\ Connected' /\ process' \in {"starting", "ready", "error"} /\ restart' \in BOOLEAN
        /\ run' \in [Client -> Waiting \cup {"none", "resolve"}]
        /\ link' \in [Client -> {"none", "opening", "local", "desk"}]
    BY <1>1, <2>1, FailedKeeps
  <2>4. QED
    BY <1>0, <2>1, <2>2, <2>3, ConnectionKeeps
<1>12. QED
  BY <1>2, <1>3, <1>4, <1>5, <1>6, <1>7, <1>8, <1>9, <1>10, <1>11 DEF StartStep

\* A connection is lost: a request that waits for its answer is lost with it.
LEMMA ExitedKeeps ==
  ASSUME ConnectionInv, NEW c \in Client, Exited(c),
         UNCHANGED <<deskSelected, shuttingDown, desk, authenticated, issued, account,
                     lapsed, env>>,
         faults' \in 0..MaxFaults
  PROVE  ConnectionInv'
<1> USE DEF ConnectionInv
<1>1. /\ Failed(c) /\ link' = [link EXCEPT ![c] = "none"] /\ current' \in {0, current}
  BY DEF Exited
<1>2. /\ Connected' /\ process' \in {"starting", "ready", "error"} /\ restart' \in BOOLEAN
      /\ run' \in [Client -> Waiting \cup {"none", "resolve"}]
      /\ link' \in [Client -> {"none", "opening", "local", "desk"}]
  BY <1>1, FailedKeeps DEF Connected
<1>3. /\ Refreshed'
      /\ login' \in [state : {"idle", "waiting", "succeeded", "failed"}, id : 0..MaxCodes]
      /\ refreshTimer' \in 0..MaxCodes /\ asked' \in 0..Clients /\ rotating' \in 0..MaxCodes
  <2>1. CASE asked = c
    BY <2>1, RequestLostKeeps DEF Exited
  <2>2. CASE asked # c
    <3>1. UNCHANGED <<login, refreshTimer, asked, rotating>>
      BY <2>2 DEF Exited
    <3>2. QED
      BY <3>1 DEF Refreshed, Rotation, Armed, Kept, ConnectionTypeOK
  <2>3. QED
    BY <2>1, <2>2
<1>4. current' \in 0..Clients
  BY <1>1, ConnectionAssumption DEF ConnectionTypeOK
<1>5. ConnectionTypeOK'
  BY <1>2, <1>3, <1>4 DEF ConnectionTypeOK, desk
<1>6. QED
  BY <1>2, <1>3, <1>5

\* The Desk: neither the connection nor the login of the service notices at once.
LEMMA DeskKeeps ==
  ASSUME ConnectionInv, AgentSeesClose \/ AgentDrops \/ DeskRestarts \/ DeskReady
  PROVE  ConnectionInv'
<1>1. UNCHANGED <<service, loginState, env>>
  BY DEF AgentSeesClose, AgentDrops, DeskRestarts, DeskReady
<1>2. /\ agent' \in 0..Clients /\ healthy' \in BOOLEAN
  <2>1. agent' \in {0, agent}
    BY DEF AgentSeesClose, AgentDrops, DeskRestarts, DeskReady
  <2>2. healthy' \in BOOLEAN
    BY DEF AgentSeesClose, AgentDrops, DeskRestarts, DeskReady, ConnectionInv, ConnectionTypeOK
  <2>3. QED
    BY <2>1, <2>2, ConnectionAssumption DEF ConnectionInv, ConnectionTypeOK
<1>3. faults' \in 0..MaxFaults
  BY FaultCounts
     DEF ConnectionInv, ConnectionTypeOK, AgentSeesClose, AgentDrops, DeskRestarts, DeskReady
<1>4. Connected'
  BY <1>1 DEF ConnectionInv, Connected, Handshakes, ReadyMeansLive, ReconnectPending, Live, service
<1>5. QED
  BY <1>1, <1>2, <1>3, <1>4, ConnectionKeeps DEF ConnectionInv, ConnectionTypeOK, service

LEMMA ShutdownKeeps == ASSUME ConnectionInv, Shutdown PROVE ConnectionInv'
<1> USE DEF ConnectionInv
<1>1. /\ shuttingDown' = TRUE /\ restart' = FALSE
      /\ UNCHANGED <<current, deskSelected, desk, authenticated, issued, account, lapsed,
                     faults, env>>
  BY DEF Shutdown
<1>2. /\ process' \in {process, "error"}
      /\ run' = run \/ (current \in Client /\ run' = [run EXCEPT ![current] = "none"])
      /\ link' = link \/ (current \in Client /\ link' = [link EXCEPT ![current] = "none"])
  BY ConnectionAssumption DEF Shutdown, ConnectionTypeOK, Client
<1>3. /\ process' \in {"starting", "ready", "error"}
      /\ run' \in [Client -> Waiting \cup {"none", "resolve"}]
      /\ link' \in [Client -> {"none", "opening", "local", "desk"}]
      /\ \A d \in Client : run'[d] \in {run[d], "none"}
  BY <1>2 DEF ConnectionTypeOK
<1>4. Connected'
  BY <1>1, <1>2, <1>3 DEF Connected, Handshakes, ReadyMeansLive, ReconnectPending
<1>5. /\ login' \in [state : {"idle", "waiting", "succeeded", "failed"}, id : 0..MaxCodes]
      /\ login'.id = login.id /\ refreshTimer' \in 0..MaxCodes
  <2>1. login' = [login EXCEPT !.state = "failed"] \/ login' = login
    BY DEF Shutdown, RotationFails
  <2>2. refreshTimer' \in {rotating, 0}
    BY DEF Shutdown, RotationFails
  <2>3. QED
    BY <2>1, <2>2, ConnectionAssumption DEF ConnectionTypeOK
<1>6. (asked' = 0 /\ rotating' = 0) \/ UNCHANGED <<asked, rotating>>
  BY DEF Shutdown
<1>7. Refreshed'
  BY <1>1, <1>5, <1>6 DEF Refreshed, Rotation, Armed, Kept
<1>8. asked' \in 0..Clients /\ rotating' \in 0..MaxCodes
  BY <1>6, ConnectionAssumption DEF ConnectionTypeOK
<1>9. ConnectionTypeOK'
  BY <1>1, <1>3, <1>5, <1>8 DEF ConnectionTypeOK, desk
<1>10. QED
  BY <1>4, <1>7, <1>9

LEMMA StepConnectionInv == ConnectionInv /\ [ConnectionNext]_connectionVars => ConnectionInv'
<1> SUFFICES ASSUME ConnectionInv, [ConnectionNext]_connectionVars PROVE ConnectionInv'
  OBVIOUS
<1>1. CASE UNCHANGED connectionVars
  BY <1>1 DEF connectionVars, service, desk, loginState, ConnectionInv, ConnectionTypeOK,
              Connected, Handshakes, ReadyMeansLive, ReconnectPending, Live,
              Refreshed, Rotation, Armed, Kept
<1>2. CASE LoginStep
  BY <1>2, LoginStepKeeps
<1>3. ASSUME NEW c \in Client, RestartDue(c) \/ StartStep(c) \/ RequestFails(c)
      PROVE  ConnectionInv'
  BY <1>3, StartKeeps
<1>4. ASSUME NEW c \in Client, AppServerExits(c) \/ SocketCloses(c)
      PROVE  ConnectionInv'
  <2>1. /\ Exited(c) /\ (faults' = faults \/ Fault("exit"))
        /\ UNCHANGED <<deskSelected, shuttingDown, desk, authenticated, issued, account,
                       lapsed, env>>
    BY <1>4 DEF AppServerExits, SocketCloses
  <2>2. faults' \in 0..MaxFaults
    BY <2>1, FaultCounts DEF ConnectionInv, ConnectionTypeOK
  <2>3. QED
    BY <1>4, <2>1, <2>2, ExitedKeeps
<1>5. CASE AgentSeesClose \/ AgentDrops \/ DeskRestarts \/ DeskReady
  BY <1>5, DeskKeeps
<1>6. CASE Shutdown
  BY <1>6, ShutdownKeeps
<1>7. QED
  BY <1>1, <1>2, <1>3, <1>4, <1>5, <1>6 DEF ConnectionNext

THEOREM ConnectionInvariant == ConnectionSpec => []ConnectionInv
BY InitConnectionInv, StepConnectionInv, PTL DEF ConnectionSpec

\* Every variable of the connection and of the login keeps its type.
THEOREM ConnectionTypeCorrect == ConnectionSpec => []ConnectionTypeOK
<1>1. ConnectionInv => ConnectionTypeOK
  BY DEF ConnectionInv
<1>2. QED
  BY <1>1, ConnectionInvariant, PTL

\* The client that requireClient hands out has a transport.
THEOREM ReadyMeansLiveCorrect == ConnectionSpec => []ReadyMeansLive
<1>1. ConnectionInv => ReadyMeansLive
  BY DEF ConnectionInv, Connected
<1>2. QED
  BY <1>1, ConnectionInvariant, PTL

\* A service that is not ready has a restart due or a run of startClient on its way.
THEOREM ReconnectPendingCorrect == ConnectionSpec => []ReconnectPending
<1>1. ConnectionInv => ReconnectPending
  BY DEF ConnectionInv, Connected
<1>2. QED
  BY <1>1, ConnectionInvariant, PTL

\* The device code on display is replaced before it expires, whatever becomes of the
\* requests, the connections, the logins and the logouts, unless its refresh fell due
\* while somebody was logged in.
THEOREM CodeIsRefreshedCorrect == ConnectionSpec => []CodeIsRefreshed
<1>1. ConnectionInv => CodeIsRefreshed
  BY DEF ConnectionInv, Refreshed, Armed, CodeIsRefreshed
<1>2. QED
  BY <1>1, ConnectionInvariant, PTL
=============================================================================
