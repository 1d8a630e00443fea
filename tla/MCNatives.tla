------------------------------ MODULE MCNatives ------------------------------
(***************************************************************************)
(* Natives for TLC: two isolate threads, which is what it takes for one to *)
(* create or use the table between two steps of the other.                 *)
(***************************************************************************)
EXTENDS Natives, TLC

CONSTANTS t1, t2

MCThreads == {t1, t2}

\* The threads are interchangeable.
Symmetric == Permutations(MCThreads)

=============================================================================
