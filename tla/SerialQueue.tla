----------------------------- MODULE SerialQueue -----------------------------
(***************************************************************************)
(* What the dispatcher promises, without its flags, continuations and      *)
(* failures: tasks numbered in their queue order, one worker.  A task      *)
(* waits, is worked on alone, and ends; a task interrupted or resumed      *)
(* waits again in its old place.  One step may submit a task and begin it. *)
(***************************************************************************)
EXTENDS Naturals

CONSTANT Task  \* a set of numbers, in queue order

VARIABLE phase

Phases == {"new", "waiting", "working", "done"}

Init == phase = [j \in Task |-> "new"]

\* What may become of one task in a step.
Moves == [new     |-> {"new", "waiting", "working"},
          waiting |-> {"waiting", "working", "done"},
          working |-> {"working", "waiting", "done"},
          done    |-> {"done", "waiting", "working"}]

\* The worker is free before it begins a task, and no task that stays waiting
\* is ahead of the one it begins.
Begins(j) == phase[j] # "working" /\ phase'[j] = "working"
FreeAndFirst(j) ==
  \A k \in Task \ {j} : /\ phase[k] # "working" /\ phase'[k] # "working"
                        /\ k < j => phase'[k] # "waiting"

Next == /\ \A j \in Task : phase'[j] \in Moves[phase[j]]
        /\ \A j \in Task : Begins(j) => FreeAndFirst(j)

Spec == Init /\ [][Next]_phase
=============================================================================
