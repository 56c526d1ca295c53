----------------------------- MODULE MCJobQueue -----------------------------
(* Small instances of JobQueue for TLC. *)
EXTENDS JobQueue, TLC

(* Jobs are interchangeable before they are submitted, and so are workers. *)
Symmetry == Permutations(Job) \cup Permutations(Worker)
=============================================================================
