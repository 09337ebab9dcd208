------------------------------- MODULE Timers -------------------------------
(***************************************************************************)
(* TimersService: schedules in the timers table, one timer_runs row for    *)
(* each occurrence, and a tick every fifteen seconds that turns the due    *)
(* occurrences into turns.                                                 *)
(*                                                                         *)
(* A tick runs without an await, so nothing interleaves with it; each row  *)
(* it handles is a transaction of its own, so a crash may leave the rest.  *)
(* Time is a counter whose unit is the grain of a schedule.  Daily, weekly *)
(* and hourly schedules are cron schedules: their next occurrence is the   *)
(* first one strictly after a given time.                                  *)
(***************************************************************************)
EXTENDS Naturals, Sequences, FiniteSets

CONSTANTS
  Timer,     \* the timers a user may create; an id is not used again
  Schedule,  \* schedules they may be given: records [kind, value]
  Late,      \* MISSED_AFTER_MS
  Places,    \* the most free places the turn queue may have
  Horizon,   \* bound: the last time
  MaxManual, \* bound: Run now requests
  MaxEdits,  \* bound: timers created or edited
  MaxStops,  \* bound: turns that are stopped
  MaxDown    \* bound: times the server goes down

Kind == {"once", "interval", "cron", "uneven"}

ASSUME TimersAssumption ==
  /\ IsFiniteSet(Timer) /\ Schedule # {}
  /\ Schedule \subseteq [kind : Kind, value : Nat \ {0}]
  /\ Late \in Nat /\ Places \in Nat /\ Horizon \in Nat
  /\ MaxManual \in Nat /\ MaxEdits \in Nat
  /\ MaxStops \in Nat /\ MaxDown \in Nat

VARIABLES
  now,
  state,     \* of a timer: it does not exist yet, exists, was removed
  schedule,  \* timers.schedule_kind and schedule_value
  enabled,   \* timers.enabled
  nextRunAt, \* timers.next_run_at: 0 is null
  recorded,  \* timer_runs.scheduled_for of the scheduled runs
  work,      \* the turns with the timer's id, oldest first
  room,      \* turns that missions.create would accept now
  up,        \* the server runs
  manual, edits, stops, downs  \* bounds

bounds == <<manual, edits, stops, downs>>
vars == <<now, state, schedule, enabled, nextRunAt, recorded, work, room, up, bounds>>

Time == 1..Horizon
\* A turn: the occurrence it is for (0: Run now), when it was created, its
\* status.  "resumed" is pending again after an interruption.
Turn == [for : Nat, at : Nat, st : {"pending", "resumed", "interrupted", "done"}]

TypeOK ==
  /\ now \in Nat
  /\ state \in [Timer -> {"new", "live", "removed"}]
  /\ schedule \in [Timer -> Schedule]
  /\ enabled \in [Timer -> BOOLEAN]
  /\ nextRunAt \in [Timer -> Nat]
  /\ \A t \in Timer : enabled[t] <=> nextRunAt[t] # 0
  /\ recorded \in [Timer -> SUBSET Nat]
  /\ work \in [Timer -> Seq(Turn)]
  /\ room \in Nat
  /\ up \in BOOLEAN
  /\ manual \in Nat /\ edits \in Nat /\ stops \in Nat /\ downs \in Nat

Init ==
  /\ now = 1
  /\ state = [t \in Timer |-> "new"]
  /\ schedule = [t \in Timer |-> CHOOSE s \in Schedule : TRUE]
  /\ enabled = [t \in Timer |-> FALSE]
  /\ nextRunAt = [t \in Timer |-> 0]
  /\ recorded = [t \in Timer |-> {}]
  /\ work = [t \in Timer |-> <<>>]
  /\ room = Places
  /\ up = TRUE
  /\ manual = 0 /\ edits = 0 /\ stops = 0 /\ downs = 0

-----------------------------------------------------------------------------
\* Operators named ...Mutant are wrong on purpose: each stands for a plausible
\* slip in the operator after it, and shows which property would catch it.

\* nextAfter: the occurrence that follows a time, 0 if there is none.  The next
\* occurrence of a cron schedule comes strictly after the time.
NextAfter(s, time) ==
  CASE s.kind = "once" -> 0
    [] s.kind = "interval" -> time + s.value
    [] OTHER -> (time \div s.value + 1) * s.value

\* nextRun, of a timer that is created or edited.
NextRun(s) == IF s.kind = "once" THEN s.value ELSE NextAfter(s, now)

\* parseTimerInput refuses a one-time schedule that is not in the future, also
\* when the timer is being disabled.
Acceptable(s) == s.kind = "once" => s.value > now

\* timerHasPendingWork
UncheckedMutant(t) == FALSE
HasPendingWork(t) == \E i \in DOMAIN work[t] : work[t][i].st \in {"pending", "resumed"}

\* The time an occurrence may be late and still run.
NeverMissedMutant(t) == FALSE
Missed(t) == now > nextRunAt[t] + Late

Due == {t \in Timer : enabled[t] /\ nextRunAt[t] # 0 /\ nextRunAt[t] <= now}

NewTurn(for) == [for |-> for, at |-> now, st |-> "pending"]

-----------------------------------------------------------------------------
\* The user

\* create and update: the rest of the row depends on the schedule alone.
Write(t, s, e) ==
  /\ up /\ Acceptable(s)
  /\ edits < MaxEdits
  /\ edits' = edits + 1
  /\ schedule' = [schedule EXCEPT ![t] = s]
  /\ enabled' = [enabled EXCEPT ![t] = e]
  /\ nextRunAt' = [nextRunAt EXCEPT ![t] = IF e THEN NextRun(s) ELSE 0]
  /\ UNCHANGED <<now, recorded, work, room, up, manual, stops, downs>>

Create(t, s, e) ==
  /\ state[t] = "new"
  /\ state' = [state EXCEPT ![t] = "live"]
  /\ Write(t, s, e)

Update(t, s, e) ==
  /\ state[t] = "live"
  /\ Write(t, s, e)
  /\ UNCHANGED state

\* remove deletes the timer and, by the foreign key, its runs; its turns stay.
Remove(t) ==
  /\ up /\ state[t] = "live"
  /\ state' = [state EXCEPT ![t] = "removed"]
  /\ enabled' = [enabled EXCEPT ![t] = FALSE]
  /\ nextRunAt' = [nextRunAt EXCEPT ![t] = 0]
  /\ recorded' = [recorded EXCEPT ![t] = {}]
  /\ UNCHANGED <<now, schedule, work, room, up, bounds>>

\* runNow answers 409 while the timer has pending work; it leaves the schedule
\* as it is.
RunNow(t) ==
  /\ up /\ state[t] = "live"
  /\ manual < MaxManual
  /\ ~HasPendingWork(t) /\ room > 0
  /\ work' = [work EXCEPT ![t] = Append(@, NewTurn(0))]
  /\ room' = room - 1
  /\ manual' = manual + 1
  /\ UNCHANGED <<now, state, schedule, enabled, nextRunAt, recorded, up, edits, stops, downs>>

-----------------------------------------------------------------------------
\* tick

\* The due timers whose occurrence becomes a turn if missions.create accepts it.
\* A row that cannot claim its occurrence is left as it is.
Fresh(t) == nextRunAt[t] \notin recorded[t]
Claimable == {t \in Due : /\ Fresh(t) /\ ~Missed(t)
                          /\ schedule[t].kind # "uneven" /\ ~HasPendingWork(t)}

\* The rows a tick settles when the queue takes the turns of `accepted': missed,
\* failed and skipped occurrences are recorded without a turn, and a refused
\* claim rolls back and is tried again.
Settled(accepted) == {t \in Due : Fresh(t) /\ (t \in Claimable => t \in accepted)}

\* The earliest occurrences are claimed first, until the queue is full.
Accepted(S) ==
  /\ S \subseteq Claimable
  /\ Cardinality(S) <= room
  /\ Claimable # S => Cardinality(S) = room
  /\ \A t \in S, u \in Claimable \ S : nextRunAt[t] <= nextRunAt[u]

\* A failed schedule is disabled, and so is a one-time schedule that was settled.
StaysEnabled(t) ==
  /\ schedule[t].kind # "once"
  /\ ~(schedule[t].kind = "uneven" /\ ~Missed(t))

BackfillMutant(t) == NextAfter(schedule[t], nextRunAt[t])
Following(t) == IF schedule[t].kind = "uneven" /\ ~Missed(t) THEN 0 ELSE NextAfter(schedule[t], now)

Tick ==
  /\ up
  /\ \E accepted \in SUBSET Claimable :
       /\ Accepted(accepted)
       /\ recorded' = [t \in Timer |-> IF t \in Settled(accepted)
                                         THEN recorded[t] \cup {nextRunAt[t]} ELSE recorded[t]]
       /\ work' = [t \in Timer |-> IF t \in accepted
                                     THEN Append(work[t], NewTurn(nextRunAt[t])) ELSE work[t]]
       /\ nextRunAt' = [t \in Timer |-> IF t \in Settled(accepted)
                                          THEN Following(t) ELSE nextRunAt[t]]
       /\ enabled' = [t \in Timer |-> IF t \in Settled(accepted)
                                        THEN StaysEnabled(t) ELSE enabled[t]]
       /\ room' = room - Cardinality(accepted)
  /\ UNCHANGED <<now, state, schedule, up, bounds>>

-----------------------------------------------------------------------------
\* The rest of the system

\* The dispatcher (TurnDispatch) ends a turn, or it is stopped and resumed.
EndTurn(t, i) ==
  /\ up
  /\ work[t][i].st \in {"pending", "resumed"}
  /\ work' = [work EXCEPT ![t][i].st = "done"]
  /\ UNCHANGED <<now, state, schedule, enabled, nextRunAt, recorded, room, up, bounds>>

StopTurn(t, i) ==
  /\ up /\ stops < MaxStops
  /\ work[t][i].st \in {"pending", "resumed"}
  /\ work' = [work EXCEPT ![t][i].st = "interrupted"]
  /\ stops' = stops + 1
  /\ UNCHANGED <<now, state, schedule, enabled, nextRunAt, recorded, room, up, manual, edits, downs>>

ResumeTurn(t, i) ==
  /\ up
  /\ work[t][i].st = "interrupted"
  /\ work' = [work EXCEPT ![t][i].st = "resumed"]
  /\ UNCHANGED <<now, state, schedule, enabled, nextRunAt, recorded, room, up, bounds>>

\* The queue fills and drains.
Queue ==
  /\ up
  /\ room' \in 0..Places \ {room}
  /\ UNCHANGED <<now, state, schedule, enabled, nextRunAt, recorded, work, up, bounds>>

Advance ==
  /\ now < Horizon
  /\ now' = now + 1
  /\ UNCHANGED <<state, schedule, enabled, nextRunAt, recorded, work, room, up, bounds>>

Down ==
  /\ up /\ downs < MaxDown
  /\ up' = FALSE
  /\ downs' = downs + 1
  /\ UNCHANGED <<now, state, schedule, enabled, nextRunAt, recorded, work, room, manual, edits, stops>>

Up ==
  /\ ~up
  /\ up' = TRUE
  /\ UNCHANGED <<now, state, schedule, enabled, nextRunAt, recorded, work, room, bounds>>

-----------------------------------------------------------------------------
Next ==
  \/ \E t \in Timer, s \in Schedule, e \in BOOLEAN : Create(t, s, e) \/ Update(t, s, e)
  \/ \E t \in Timer : Remove(t) \/ RunNow(t)
  \/ Tick
  \/ \E t \in Timer : \E i \in DOMAIN work[t] : EndTurn(t, i) \/ StopTurn(t, i) \/ ResumeTurn(t, i)
  \/ Queue
  \/ Advance
  \/ Down \/ Up

Spec == Init /\ [][Next]_vars

\* The interval fires as long as the process lives, time passes, and a process
\* that died is started again.
FairSpec == Spec /\ WF_vars(Tick) /\ WF_vars(Advance) /\ WF_vars(Up)

-----------------------------------------------------------------------------
\* Properties

\* The occurrence a timer waits for was never recorded before, so the INSERT OR
\* IGNORE that claims it cannot find a row: a timer whose claim is ignored would
\* keep its next_run_at and never run again.  An edit, a skipped or a missed
\* occurrence and a restart all keep it so.
NextIsFresh == \A t \in Timer : nextRunAt[t] # 0 => \A r \in recorded[t] : r < nextRunAt[t]

\* "never backfills a burst": an occurrence that runs was due only after the one
\* before it had run, and is at most MISSED_AFTER_MS late.
NoBackfill ==
  \A t \in Timer : \A i, k \in DOMAIN work[t] :
    work[t][k].for # 0 =>
      /\ work[t][k].at <= work[t][k].for + Late
      /\ i < k /\ work[t][i].for # 0 => work[t][i].at < work[t][k].for

\* A timer has one turn in the queue or at work, those a user resumed apart:
\* neither a tick nor Run now adds a second one.
NoOverlap ==
  \A t \in Timer : \A i, k \in DOMAIN work[t] :
    work[t][i].st = "pending" /\ work[t][k].st \in {"pending", "resumed"} /\ i # k =>
      k < i /\ work[t][k].st = "resumed"

\* A due occurrence is settled in the end, however long the queue is full or the
\* server is down: it runs, or is recorded as skipped, missed or failed, or the
\* user takes it away.
EveryOccurrenceSettled ==
  \A t \in Timer : \A due \in Time :
    (t \in Due /\ nextRunAt[t] = due /\ due + Late < Horizon) ~> (nextRunAt[t] # due)

=============================================================================
