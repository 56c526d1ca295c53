--------------------------- MODULE MCConfigBackup ---------------------------
(* Small instances of ConfigBackup for TLC. *)
EXTENDS ConfigBackup, TLC

(* Threads are interchangeable, and so are boards: no action or property   *)
(* names one.                                                              *)
Symmetry == Permutations(Handler) \cup Permutations(Board)
=============================================================================
