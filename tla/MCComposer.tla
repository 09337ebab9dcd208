----------------------------- MODULE MCComposer -----------------------------
(* Composer with the faults TLC runs.  Texts are interchangeable. *)
EXTENDS Composer, TLC

CONSTANTS a, b

MCText == {a, b}
MCFaults == {{"lost", "reload"}, {"lost", "crash"}, {"expire"}}
Symmetry == Permutations(MCText)
=============================================================================
