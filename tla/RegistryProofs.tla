--------------------------- MODULE RegistryProofs ---------------------------
(***************************************************************************)
(* Theorems about Registry, for every set of threads and devices, any      *)
(* number of heap cells, and whether or not SQLite fails and the process   *)
(* crashes.                                                                *)
(***************************************************************************)
EXTENDS Registry, TLAPS

(* A thread inside a handler serves a well-formed request, and one that    *)
(* saves or has loaded holds an object.                                    *)
HandlerOK ==
  \A t \in Thread :
    /\ pc[t] # "idle" => req[t] \in Request
    /\ pc[t] \in {"captured", "saving", "loaded"} => ref[t] \in Ref

(* The committed tables satisfy the schema: what SaveDevices and           *)
(* SaveTelemetry check, said of the database.  The proofs about the object *)
(* start from it.                                                          *)
DbIntegrity == Consistent(db)

(* The inductive invariant.  Device rows reach rows only past the          *)
(* uniqueness check, and the database only from rows.                      *)
IInv ==
  /\ TypeOK
  /\ HandlerOK
  /\ UniqueDevices(rows)
  /\ DbIntegrity

-----------------------------------------------------------------------------
(* The empty tables are well formed and have no duplicate. *)
LEMMA BlankOK == Blank \in State /\ UniqueDevices(Blank)
  BY ConstantsAssumption DEF Blank, None, State, Stamp, UniqueDevices

(* Collecting garbage keeps a heap a heap. *)
LEMMA CollectType ==
  ASSUME NEW h \in [Ref -> State], NEW s, NEW rf
  PROVE  Collect(h, s, rf) \in [Ref -> State]
  BY BlankOK DEF Collect

(* The requests a client may send are requests. *)
LEMMA NewRequestType ==
  ASSUME clock \in Stamp, clock < MaxClock, NEW q \in NewRequests
  PROVE  q \in Request
  BY ConstantsAssumption DEF NewRequests, Request, Stamp

(* Appending a device entry, touching one and appending an event keep a    *)
(* runtime-state object well formed.                                       *)
LEMMA UpdateType ==
  ASSUME NEW s \in State, NEW q \in Request
  PROVE  /\ AppendDevice(s, q) \in State
         /\ Touch(s, q) \in State
         /\ AppendEvent(s, q) \in State
<1>1. q.dev \in Device /\ q.stamp \in Stamp /\ EventOf(q) \in Event
  BY DEF Request, EventOf, Event
<1>2. s.count \in [Device -> Nat] /\ s.seen \in [Device -> Stamp]
      /\ s.tel \in SUBSET Event
  BY DEF State
<1>3. AppendDevice(s, q) \in State
  BY <1>1, <1>2 DEF AppendDevice, State
<1>4. Touch(s, q) \in State
  BY <1>1, <1>2 DEF Touch, State
<1>5. AppendEvent(s, q) \in State
  BY <1>1, <1>2 DEF AppendEvent, State
<1>6. QED
  BY <1>3, <1>4, <1>5

(* The handler's change keeps the heap well formed, whichever objects it   *)
(* reaches.                                                                *)
LEMMA MutatedType ==
  ASSUME NEW h \in [Ref -> State], self \in Ref,
         NEW q \in Request, NEW r \in Ref \cup {NoRef}
  PROVE  Mutated(h, q, r) \in [Ref -> State]
<1>1. CASE r = NoRef
  BY <1>1, UpdateType DEF Mutated
<1>2. CASE r # NoRef
  <2>1. r \in Ref
    BY <1>2
  <2>2. [h EXCEPT ![r] = Touch(@, q)] \in [Ref -> State]
    BY <2>1, UpdateType
  <2>3. [[h EXCEPT ![r] = Touch(@, q)] EXCEPT ![self] = AppendEvent(@, q)]
          \in [Ref -> State]
    BY <2>2, UpdateType
  <2>4. QED
    BY <1>2, <2>2, <2>3 DEF Mutated
<1>3. QED
  BY <1>1, <1>2

-----------------------------------------------------------------------------
(* The initial states satisfy the inductive invariant. *)
LEMMA InitIInv == Init => IInv
<1> SUFFICES ASSUME Init PROVE IInv
  OBVIOUS
<1>1. PICK S \in SUBSET Device :
        db = [count |-> [d \in Device |-> IF d \in S THEN 1 ELSE 0],
              seen |-> None, tel |-> {}]
  BY DEF Init
<1>2. db \in State
  BY <1>1, ConstantsAssumption DEF State, None, Stamp
<1>3. DbIntegrity
  BY <1>1 DEF DbIntegrity, Consistent, UniqueDevices, NoOrphans
<1>4. obj \in [Ref -> State]
  BY <1>2, BlankOK DEF Init
<1>5. TypeOK
  BY <1>2, <1>4, BlankOK, ConstantsAssumption DEF Init, TypeOK, Steps, Stamp
<1>6. HandlerOK
  BY DEF Init, HandlerOK
<1>7. UniqueDevices(rows)
  BY BlankOK DEF Init
<1>8. QED
  BY <1>3, <1>5, <1>6, <1>7 DEF IInv

(* Leaving a handler, with an answer or an exception, keeps the types. *)
LEMMA LeaveType ==
  ASSUME TypeOK, HandlerOK, NEW t \in Thread, Leave(t)
  PROVE  /\ obj' \in [Ref -> State]
         /\ pc' \in [Thread -> Steps]
         /\ req' \in [Thread -> Request \cup {NoRequest}]
         /\ ref' \in [Thread -> Ref \cup {NoRef}]
         /\ \A u \in Thread :
              /\ pc'[u] # "idle" => req'[u] \in Request
              /\ pc'[u] \in {"captured", "saving", "loaded"} => ref'[u] \in Ref
<1>1. obj' \in [Ref -> State]
  BY CollectType DEF Leave, TypeOK
<1>2. QED
  BY <1>1 DEF Leave, TypeOK, HandlerOK, Steps

(* Every step of the program preserves the inductive invariant. *)
LEMMA NextIInv == IInv /\ [Next]_vars => IInv'
<1> SUFFICES ASSUME IInv, [Next]_vars PROVE IInv'
  OBVIOUS
<1> USE DEF IInv
<1>1. ASSUME NEW t \in Thread, NEW q \in NewRequests, Receive(t, q)
      PROVE  IInv'
  <2>1. q \in Request
    BY <1>1, NewRequestType DEF Receive, TypeOK
  <2>2. clock' \in Stamp
    BY <1>1, ConstantsAssumption DEF Receive, TypeOK, Stamp
  <2>3. pc' \in [Thread -> Steps] /\ pc'[t] \in {"pruning", "saved", "found"}
    BY <1>1 DEF Receive, TypeOK, Steps
  <2>4. req' \in [Thread -> Request \cup {NoRequest}] /\ req'[t] = q
    BY <1>1, <2>1 DEF Receive, TypeOK
  <2>5. ref' \in [Thread -> Ref \cup {NoRef}]
    BY <1>1 DEF Receive, TypeOK
  <2>6. TypeOK'
    BY <1>1, <2>2, <2>3, <2>4, <2>5 DEF Receive, TypeOK
  <2>7. HandlerOK'
    BY <1>1, <2>1, <2>3, <2>4 DEF Receive, TypeOK, HandlerOK
  <2>8. QED
    BY <1>1, <2>6, <2>7 DEF Receive, DbIntegrity
<1>2. ASSUME NEW t \in Thread, Reject(t)
      PROVE  IInv'
  <2>1. clock' \in Stamp
    BY <1>2, ConstantsAssumption DEF Reject, TypeOK, Stamp
  <2>2. QED
    BY <1>2, <2>1 DEF Reject, TypeOK, HandlerOK, DbIntegrity
<1>3. ASSUME NEW t \in Thread, Mutate(t)
      PROVE  IInv'
  <2>1. Mutated(obj, req[t], ref[t]) \in [Ref -> State]
    BY <1>3, MutatedType DEF Mutate, TypeOK, HandlerOK
  <2>2. obj' \in [Ref -> State]
    BY <1>3, <2>1, CollectType DEF Mutate
  <2>3. TypeOK'
    BY <1>3, <2>2 DEF Mutate, TypeOK, Steps
  <2>4. HandlerOK'
    BY <1>3 DEF Mutate, TypeOK, HandlerOK
  <2>5. QED
    BY <1>3, <2>3, <2>4 DEF Mutate, DbIntegrity
<1>4. ASSUME NEW t \in Thread, Capture(t)
      PROVE  IInv'
  <2>1. TypeOK'
    BY <1>4 DEF Capture, TypeOK, Steps
  <2>2. HandlerOK'
    BY <1>4 DEF Capture, TypeOK, HandlerOK
  <2>3. QED
    BY <1>4, <2>1, <2>2 DEF Capture, DbIntegrity
<1>5. ASSUME NEW t \in Thread, SaveDevices(t)
      PROVE  IInv'
  <2>1. obj[ref[t]] \in State
    BY <1>5 DEF SaveDevices, TypeOK, HandlerOK
  <2>2. rows' \in State /\ UniqueDevices(rows')
    BY <1>5, <2>1 DEF SaveDevices, State, UniqueDevices
  <2>3. TypeOK'
    BY <1>5, <2>2 DEF SaveDevices, TypeOK, Steps
  <2>4. HandlerOK'
    BY <1>5 DEF SaveDevices, TypeOK, HandlerOK
  <2>5. UniqueDevices(rows)'
    BY <2>2 DEF UniqueDevices
  <2>6. QED
    BY <1>5, <2>3, <2>4, <2>5 DEF SaveDevices, DbIntegrity
<1>6. ASSUME NEW t \in Thread, SaveTelemetry(t)
      PROVE  IInv'
  <2>1. obj[ref[t]] \in State
    BY <1>6 DEF SaveTelemetry, TypeOK, HandlerOK
  <2>2. /\ db' \in State
        /\ db'.count = rows.count
        /\ db'.tel = obj[ref[t]].tel
    BY <1>6, <2>1 DEF SaveTelemetry, TypeOK, State
  <2>3. obj' \in [Ref -> State]
    BY <1>6, CollectType DEF SaveTelemetry, TypeOK
  <2>4. TypeOK'
    BY <1>6, <2>2, <2>3, BlankOK DEF SaveTelemetry, TypeOK, Steps
  <2>5. HandlerOK'
    BY <1>6 DEF SaveTelemetry, TypeOK, HandlerOK
  <2>6. Known(db') = Known(rows)
    BY <2>2 DEF Known
  <2>7. DbIntegrity'
    BY <1>6, <2>2, <2>6 DEF SaveTelemetry, DbIntegrity, Consistent, UniqueDevices,
       NoOrphans, Known
  <2>8. UniqueDevices(rows)'
    BY <1>6, BlankOK DEF SaveTelemetry, UniqueDevices
  <2>9. QED
    BY <2>4, <2>5, <2>7, <2>8
<1>7. ASSUME NEW t \in Thread, IntegrityError(t) \/ Fault(t)
      PROVE  IInv'
  <2>1. /\ Leave(t)
        /\ lock' = NoThread
        /\ rows' = Blank
        /\ UNCHANGED <<db, self, clock, acked, pruned>>
    BY <1>7 DEF IntegrityError, Fault
  <2>2. TypeOK'
    BY <2>1, LeaveType, BlankOK DEF TypeOK
  <2>3. HandlerOK'
    BY <2>1, LeaveType DEF HandlerOK
  <2>4. UniqueDevices(rows)'
    BY <2>1, BlankOK DEF UniqueDevices
  <2>5. QED
    BY <2>1, <2>2, <2>3, <2>4 DEF DbIntegrity
<1>8. ASSUME NEW t \in Thread, Load(t)
      PROVE  IInv'
  <2>1. PICK r \in Ref : /\ obj' = [obj EXCEPT ![r] = db]
                         /\ ref' = [ref EXCEPT ![t] = r]
    BY <1>8 DEF Load
  <2>2. TypeOK'
    BY <1>8, <2>1 DEF Load, TypeOK, Steps
  <2>3. HandlerOK'
    BY <1>8, <2>1 DEF Load, TypeOK, HandlerOK
  <2>4. QED
    BY <1>8, <2>2, <2>3 DEF Load, DbIntegrity
<1>9. ASSUME NEW t \in Thread, Assign(t)
      PROVE  IInv'
  <2>1. obj' \in [Ref -> State]
    BY <1>9, CollectType DEF Assign, TypeOK
  <2>2. self' \in Ref
    BY <1>9 DEF Assign, HandlerOK
  <2>3. TypeOK'
    BY <1>9, <2>1, <2>2 DEF Assign, TypeOK, Steps
  <2>4. HandlerOK'
    BY <1>9 DEF Assign, TypeOK, HandlerOK
  <2>5. QED
    BY <1>9, <2>3, <2>4 DEF Assign, DbIntegrity
<1>10. ASSUME NEW t \in Thread, Answer(t)
       PROVE  IInv'
  <2>1. /\ Leave(t)
        /\ UNCHANGED <<db, self, lock, rows, clock, pruned>>
        /\ acked' = acked \cup {req[t]}
        /\ req[t] \in Request
    BY <1>10 DEF Answer, HandlerOK
  <2>2. TypeOK'
    BY <2>1, LeaveType DEF TypeOK
  <2>3. HandlerOK'
    BY <2>1, LeaveType DEF HandlerOK
  <2>4. QED
    BY <2>1, <2>2, <2>3 DEF DbIntegrity
<1>11. ASSUME NEW t \in Thread, Prune(t)
       PROVE  IInv'
  <2>1. PICK kept \in SUBSET db.tel :
          /\ db' = [db EXCEPT !.tel = kept]
          /\ pruned' = pruned \cup (db.tel \ kept)
    BY <1>11 DEF Prune
  <2>2. db' \in State /\ db'.count = db.count /\ db'.tel = kept
    BY <2>1 DEF TypeOK, State
  <2>3. pruned' \subseteq Event
    BY <2>1 DEF TypeOK, State
  <2>4. TypeOK'
    BY <1>11, <2>2, <2>3 DEF Prune, TypeOK, Steps
  <2>5. HandlerOK'
    BY <1>11 DEF Prune, TypeOK, HandlerOK
  <2>6. DbIntegrity'
    BY <2>1, <2>2 DEF DbIntegrity, Consistent, UniqueDevices, NoOrphans, Known
  <2>7. QED
    BY <1>11, <2>4, <2>5, <2>6 DEF Prune
<1>12. CASE Restart
  <2>1. TypeOK'
    BY <1>12, BlankOK DEF Restart, TypeOK, Steps
  <2>2. HandlerOK'
    BY <1>12 DEF Restart, HandlerOK
  <2>3. UniqueDevices(rows)'
    BY <1>12, BlankOK DEF Restart, UniqueDevices
  <2>4. QED
    BY <1>12, <2>1, <2>2, <2>3 DEF Restart, DbIntegrity
<1>13. CASE UNCHANGED vars
  BY <1>13 DEF vars, TypeOK, HandlerOK, DbIntegrity
<1>14. QED
  BY <1>1, <1>2, <1>3, <1>4, <1>5, <1>6, <1>7, <1>8, <1>9, <1>10, <1>11, <1>12,
     <1>13 DEF Next, Work, Step

(* The inductive invariant holds throughout every behaviour. *)
LEMMA SpecIInv == Spec => []IInv
<1>1. QED
  BY InitIInv, NextIInv, PTL DEF Spec

-----------------------------------------------------------------------------
(* Every variable keeps its type. *)
THEOREM TypeCorrect == Spec => []TypeOK
<1>1. IInv => TypeOK
  BY DEF IInv
<1>2. QED
  BY <1>1, SpecIInv, PTL
=============================================================================
