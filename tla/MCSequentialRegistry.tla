------------------------ MODULE MCSequentialRegistry ------------------------
(* Registry with and without failing statements, against AtomicRegistry.   *)
EXTENDS MCRegistry

(* Two kinds of behaviour in one instance: may statements fail in it, or   *)
(* do they never?                                                          *)
VARIABLE faulty

MCInit == Init /\ faulty \in BOOLEAN

MCNext ==
  /\ (\E t \in Thread : Work(t) \/ (faulty /\ Fault(t))) \/ Restart
  /\ UNCHANGED faulty

MCSpec == MCInit /\ [][MCNext]_<<vars, faulty>>

(* Unless a statement failed, what the cache answers to a reader between   *)
(* requests is what the database holds.                                    *)
CacheUnlessFaulty == faulty \/ CacheIsDatabase

(* While requests do not overlap and no statement fails, the threads, the  *)
(* cache and the two-table rewrite implement a store in which each request *)
(* takes effect atomically, once, and before its answer, also across       *)
(* crashes.  A behaviour in which statements may fail is mapped to a store *)
(* nobody uses.                                                            *)
Atomic == INSTANCE AtomicRegistry WITH
            devices <- IF faulty THEN {} ELSE Known(db),
            seen <- IF faulty THEN None ELSE db.seen,
            events <- IF faulty THEN {} ELSE db.tel,
            pruned <- IF faulty THEN {} ELSE pruned,
            acked <- IF faulty THEN {} ELSE acked
ImplementsAtomicRegistry == Atomic!Spec
=============================================================================
