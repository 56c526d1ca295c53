----------------------------- MODULE MCRegistry -----------------------------
(* Small instances of Registry for TLC.                                    *)
EXTENDS Registry, TLC

(* Threads and heap cells are interchangeable: no action or safety         *)
(* property names one.  Devices are not: NewRequests chooses one for the   *)
(* requests that are about no device.                                      *)
Symmetry == Permutations(Thread) \cup Permutations(Ref)
=============================================================================
