----------------------- MODULE SequentialRegistryProofs -----------------------
(***************************************************************************)
(* Theorems about Registry served by one thread, for every set of devices, *)
(* any number of requests and heap cells, with or without crashes and      *)
(* failing statements.                                                     *)
(*                                                                         *)
(* When requests do not overlap, the cache is never behind the database: a *)
(* failed statement may leave it ahead, but a device, an event or a        *)
(* last_seen that was stored is in it, so that writing the whole of it     *)
(* back loses nothing.                                                     *)
(***************************************************************************)
EXTENDS MCSequentialRegistry, RegistryProofs, FiniteSetTheorems

(* Requests do not overlap. *)
OneThread == \A t, u \in Thread : t = u

Changes == {"register", "heartbeat", "ingest"}
Saving == {"found", "mutated", "captured", "saving"}

(* What a change of a device does to a runtime-state object.               *)
Change(s, q) ==
  IF q.dev \notin Known(s) THEN AppendDevice(s, q)
  ELSE IF q.kind = "ingest" THEN AppendEvent(Touch(s, q), q)
  ELSE Touch(s, q)

Effect(q, s) ==
  /\ q.dev \in Known(s)
  /\ s.seen[q.dev] = q.stamp
  /\ q.kind = "ingest" => EventOf(q) \in s.tel

Few(tel) == \A d \in Device : Cardinality(OfDevice(tel, d)) <= Retain

(* The cache is well formed and has all that the database has.             *)
CacheInv ==
  /\ Consistent(obj[self])
  /\ IsFiniteSet(obj[self].tel)
  /\ Known(db) \subseteq Known(obj[self])
  /\ db.tel \subseteq obj[self].tel
  /\ \A d \in Device : db.seen[d] <= obj[self].seen[d] /\ obj[self].seen[d] <= clock

(* How far the request has got. *)
RequestInv(t) ==
  /\ pc[t] # "idle" => req[t].stamp = clock
  /\ pc[t] \in Saving => req[t].kind \in Changes /\ \A d \in Device : db.seen[d] < clock
  /\ pc[t] = "found" =>
       /\ req[t].kind # "register" => req[t].dev \in Known(obj[self])
       /\ ref[t] = IF req[t].dev \in Known(obj[self]) THEN self ELSE NoRef
  /\ pc[t] \in {"mutated", "captured", "saving"} => Effect(req[t], obj[self])
  /\ pc[t] \in {"captured", "saving"} => ref[t] = self
  /\ pc[t] = "saving" => rows = [obj[self] EXCEPT !.tel = {}]
  /\ pc[t] = "pruning" => req[t].kind = "prune"
  /\ pc[t] \in {"saved", "loaded", "assigned"} =>
       /\ req[t].kind \in Changes => Effect(req[t], db)
       /\ req[t].kind = "prune" => Few(db.tel)
  /\ pc[t] = "loaded" => obj[ref[t]] = db
  /\ pc[t] = "assigned" => obj[self] = db

SInv ==
  /\ IInv
  /\ CacheInv
  /\ \A t \in Thread : RequestInv(t)
  /\ AckedIsDurable
  /\ LastSeenIsLatest
-----------------------------------------------------------------------------
LEMMA Types ==
  ASSUME IInv
  PROVE  /\ TypeOK /\ HandlerOK
         /\ clock \in Nat /\ db \in State /\ self \in Ref /\ obj[self] \in State
         /\ Consistent(db)
         /\ \A d \in Device : db.seen[d] \in Nat /\ obj[self].seen[d] \in Nat
<1>1. /\ TypeOK /\ HandlerOK /\ Consistent(db)
      /\ clock \in Stamp /\ db \in State /\ self \in Ref /\ obj[self] \in State
  BY DEF IInv, TypeOK, DbIntegrity
<1>2. QED
  BY <1>1, ConstantsAssumption DEF State, Stamp

(* A change of a device leaves an object well formed, with the device, and *)
(* otherwise as it was.                                                    *)
LEMMA ChangeFacts ==
  ASSUME NEW s \in State, Consistent(s), NEW q \in Request, q.kind \in Changes,
         q.kind # "register" => q.dev \in Known(s)
  PROVE  /\ Change(s, q) \in State
         /\ Consistent(Change(s, q))
         /\ Known(Change(s, q)) = Known(s) \cup {q.dev}
         /\ Change(s, q).seen = [s.seen EXCEPT ![q.dev] = q.stamp]
         /\ Change(s, q).tel = IF q.kind = "ingest" THEN s.tel \cup {EventOf(q)} ELSE s.tel
         /\ Effect(q, Change(s, q))
<1>1. /\ q.dev \in Device /\ q.stamp \in Stamp /\ EventOf(q).dev = q.dev
      /\ s.count \in [Device -> Nat] /\ s.seen \in [Device -> Stamp] /\ s.tel \subseteq Event
  BY DEF Request, EventOf, State
<1>2. CASE q.dev \notin Known(s)
  <2>1. s.count[q.dev] = 0 /\ q.kind = "register"
    BY <1>1, <1>2 DEF Known, Changes
  <2>2. s.count[q.dev] + 1 = 1
    BY <2>1
  <2>3. /\ Change(s, q) = AppendDevice(s, q)
        /\ AppendDevice(s, q).tel = s.tel
        /\ AppendDevice(s, q).count = [s.count EXCEPT ![q.dev] = 1]
        /\ AppendDevice(s, q).seen = [s.seen EXCEPT ![q.dev] = q.stamp]
    BY <1>2, <2>1, <2>2 DEF Change, AppendDevice
  <2>4. Known(Change(s, q)) = Known(s) \cup {q.dev}
    BY <1>1, <2>3 DEF Known
  <2>5. Consistent(Change(s, q))
    BY <1>1, <2>3, <2>4 DEF Consistent, UniqueDevices, NoOrphans
  <2>6. Change(s, q) \in State
    BY <2>3, UpdateType
  <2>7. QED
    BY <1>1, <2>1, <2>3, <2>4, <2>5, <2>6 DEF Effect
<1>3. CASE q.dev \in Known(s)
  <2>1. /\ Touch(s, q).count = s.count /\ Touch(s, q).tel = s.tel
        /\ Touch(s, q).seen = [s.seen EXCEPT ![q.dev] = q.stamp]
        /\ Touch(s, q) \in State
    BY <1>1, UpdateType DEF Touch, State
  <2>2. /\ AppendEvent(Touch(s, q), q).count = s.count
        /\ AppendEvent(Touch(s, q), q).tel = s.tel \cup {EventOf(q)}
        /\ AppendEvent(Touch(s, q), q).seen = [s.seen EXCEPT ![q.dev] = q.stamp]
        /\ AppendEvent(Touch(s, q), q) \in State
    BY <2>1, UpdateType DEF AppendEvent, State
  <2>3. /\ Change(s, q).count = s.count
        /\ Change(s, q).tel = IF q.kind = "ingest" THEN s.tel \cup {EventOf(q)} ELSE s.tel
        /\ Change(s, q).seen = [s.seen EXCEPT ![q.dev] = q.stamp]
        /\ Change(s, q) \in State
    BY <1>3, <2>1, <2>2 DEF Change
  <2>4. Known(Change(s, q)) = Known(s) /\ Known(s) = Known(s) \cup {q.dev}
    BY <1>3, <2>3 DEF Known
  <2>5. Consistent(Change(s, q))
    BY <1>1, <1>3, <2>3, <2>4 DEF Consistent, UniqueDevices, NoOrphans
  <2>6. QED
    BY <1>1, <1>3, <2>3, <2>4, <2>5 DEF Effect
<1>4. QED
  BY <1>2, <1>3

(* A step that leaves the store and the cache as they are. *)
LEMMA KeepsCache ==
  ASSUME SInv, IInv', db' = db, obj'[self'] = obj[self], clock' \in {clock, clock + 1},
         UNCHANGED <<acked, pruned>>
  PROVE  CacheInv' /\ AckedIsDurable' /\ LastSeenIsLatest'
<1>1. CacheInv'
  BY Types DEF SInv, CacheInv
<1>2. QED
  BY <1>1 DEF SInv, AckedIsDurable, LastSeenIsLatest

LEMMA ReceiveKeeps ==
  ASSUME OneThread, SInv, IInv', NEW t \in Thread, NEW q \in NewRequests, Receive(t, q)
  PROVE  SInv'
<1>1. /\ pc[t] = "idle" /\ UNCHANGED <<db, obj, self, acked, pruned>> /\ clock' = clock + 1
      /\ pc'[t] = CASE q.kind = "prune" -> "pruning"
                    [] q.kind = "refresh" -> "saved"
                    [] OTHER -> "found"
      /\ req'[t] = q
      /\ ref'[t] = IF /\ q.kind \in {"register", "heartbeat", "ingest"}
                      /\ q.dev \in Known(obj[self])
                   THEN self ELSE NoRef
      /\ q.kind \in {"heartbeat", "ingest"} => q.dev \in Known(obj[self])
  BY Types DEF Receive, SInv, TypeOK
<1>2. q.stamp = clock + 1 /\ q.kind \in AllKinds
  BY ConstantsAssumption DEF NewRequests
<1>3. CacheInv' /\ AckedIsDurable' /\ LastSeenIsLatest'
  BY <1>1, KeepsCache
<1>4. \A d \in Device : db.seen[d] < clock + 1
  BY Types DEF SInv, CacheInv
<1>5. RequestInv(t)'
  <2>1. CASE q.kind \in Changes
    <3>1. pc'[t] = "found"
      BY <1>1, <2>1 DEF Changes
    <3>2. QED
      BY <1>1, <1>2, <1>4, <2>1, <3>1 DEF RequestInv, Changes
  <2>2. CASE q.kind \in {"prune", "refresh"}
    <3>1. pc'[t] = IF q.kind = "prune" THEN "pruning" ELSE "saved"
      BY <1>1, <2>2
    <3>2. QED
      BY <1>1, <1>2, <2>2, <3>1 DEF RequestInv, Changes, Saving
  <2>3. QED
    BY <1>2, <2>1, <2>2 DEF AllKinds, Changes
<1>6. QED
  BY <1>3, <1>5 DEF SInv, OneThread

LEMMA RejectKeeps ==
  ASSUME OneThread, SInv, IInv', NEW t \in Thread, Reject(t)
  PROVE  SInv'
<1>1. CacheInv' /\ AckedIsDurable' /\ LastSeenIsLatest'
  BY KeepsCache DEF Reject
<1>2. RequestInv(t)'
  BY DEF Reject, RequestInv, Saving
<1>3. QED
  BY <1>1, <1>2 DEF SInv, OneThread

(* With one thread, what was found when the handler started is still in    *)
(* the cache when it is changed.                                           *)
LEMMA MutateFacts ==
  ASSUME SInv, NEW t \in Thread, Mutate(t)
  PROVE  /\ obj'[self] = Change(obj[self], req[t])
         /\ req[t] \in Request /\ req[t].kind \in Changes /\ req[t].stamp = clock
         /\ req[t].kind # "register" => req[t].dev \in Known(obj[self])
<1>1. /\ pc[t] = "found" /\ req[t] \in Request /\ req[t].kind \in Changes
      /\ req[t].stamp = clock
      /\ req[t].kind # "register" => req[t].dev \in Known(obj[self])
      /\ ref[t] = IF req[t].dev \in Known(obj[self]) THEN self ELSE NoRef
      /\ self \in Ref /\ NoRef \notin Ref /\ obj \in [Ref -> State]
  BY Types, ConstantsAssumption DEF Mutate, SInv, RequestInv, HandlerOK, Saving, TypeOK
<1>2. Mutated(obj, req[t], ref[t])[self] = Change(obj[self], req[t])
  <2>1. CASE req[t].dev \notin Known(obj[self])
    BY <1>1, <2>1 DEF Mutated, Change
  <2>2. CASE req[t].dev \in Known(obj[self]) /\ req[t].kind = "ingest"
    BY <1>1, <2>2 DEF Mutated, Change
  <2>3. CASE req[t].dev \in Known(obj[self]) /\ req[t].kind # "ingest"
    BY <1>1, <2>3 DEF Mutated, Change
  <2>4. QED
    BY <2>1, <2>2, <2>3
<1>3. obj'[self] = Mutated(obj, req[t], ref[t])[self]
  BY <1>1 DEF Mutate, Collect, Live
<1>4. QED
  BY <1>1, <1>2, <1>3

LEMMA MutateKeeps ==
  ASSUME OneThread, SInv, IInv', NEW t \in Thread, Mutate(t)
  PROVE  SInv'
<1> DEFINE s == obj[self]
           q == req[t]
<1>1. /\ pc[t] = "found" /\ pc'[t] = "mutated" /\ req' = req
      /\ UNCHANGED <<db, self, clock, acked, pruned>>
  BY Types DEF Mutate, SInv, TypeOK
<1>2. /\ s \in State /\ Consistent(s) /\ q \in Request /\ q.kind \in Changes
      /\ q.kind # "register" => q.dev \in Known(s)
      /\ obj'[self] = Change(s, q)
      /\ q.stamp = clock /\ clock \in Nat /\ q.dev \in Device
      /\ s.seen \in [Device -> Stamp] /\ IsFiniteSet(s.tel)
  BY MutateFacts, Types DEF SInv, CacheInv, Request, State
<1>3. /\ Consistent(obj'[self])
      /\ Known(obj'[self]) = Known(s) \cup {q.dev}
      /\ obj'[self].seen = [s.seen EXCEPT ![q.dev] = q.stamp]
      /\ obj'[self].tel = IF q.kind = "ingest" THEN s.tel \cup {EventOf(q)} ELSE s.tel
      /\ Effect(q, obj'[self])
  BY <1>2, ChangeFacts
<1>4. IsFiniteSet(obj'[self].tel)
  <2>1. IsFiniteSet(s.tel \cup {EventOf(q)})
    BY <1>2, FS_AddElement
  <2>2. QED
    BY <1>2, <1>3, <2>1
<1>5. \A d \in Device : db.seen[d] <= obj'[self].seen[d] /\ obj'[self].seen[d] <= clock
  BY <1>2, <1>3, Types DEF SInv, CacheInv
<1>6. CacheInv'
  BY <1>1, <1>3, <1>4, <1>5 DEF SInv, CacheInv
<1>7. \A d \in Device : db.seen[d] < clock
  BY <1>1 DEF SInv, RequestInv, Saving
<1>8. RequestInv(t)'
  BY <1>1, <1>2, <1>3, <1>7 DEF RequestInv
<1>9. AckedIsDurable' /\ LastSeenIsLatest'
  BY <1>1 DEF SInv, AckedIsDurable, LastSeenIsLatest
<1>10. QED
  BY <1>6, <1>8, <1>9 DEF SInv, OneThread

LEMMA CaptureKeeps ==
  ASSUME OneThread, SInv, IInv', NEW t \in Thread, Capture(t)
  PROVE  SInv'
<1>1. /\ pc[t] = "mutated" /\ pc'[t] = "captured" /\ req' = req /\ ref'[t] = self
      /\ UNCHANGED <<db, obj, self, clock, acked, pruned>>
  BY Types DEF Capture, SInv, TypeOK
<1>2. CacheInv' /\ AckedIsDurable' /\ LastSeenIsLatest'
  BY <1>1, KeepsCache
<1>3. RequestInv(t)'
  BY <1>1 DEF SInv, RequestInv, Saving, Effect
<1>4. QED
  BY <1>2, <1>3 DEF SInv, OneThread

LEMMA SaveDevicesKeeps ==
  ASSUME OneThread, SInv, IInv', NEW t \in Thread, SaveDevices(t)
  PROVE  SInv'
<1>1. /\ pc[t] = "captured" /\ pc'[t] = "saving" /\ req' = req /\ ref' = ref
      /\ rows' = [obj[ref[t]] EXCEPT !.tel = {}]
      /\ UNCHANGED <<db, obj, self, clock, acked, pruned>>
  BY Types DEF SaveDevices, SInv, TypeOK
<1>2. CacheInv' /\ AckedIsDurable' /\ LastSeenIsLatest'
  BY <1>1, KeepsCache
<1>3. RequestInv(t)'
  BY <1>1 DEF SInv, RequestInv, Saving, Effect
<1>4. QED
  BY <1>2, <1>3 DEF SInv, OneThread

(* The save writes the whole cache: the database is then what it is.       *)
LEMMA SaveFacts ==
  ASSUME SInv, NEW t \in Thread, SaveTelemetry(t)
  PROVE  /\ db' = obj[self] /\ obj'[self] = obj[self]
         /\ pc[t] = "saving" /\ pc'[t] = "saved" /\ req' = req
         /\ UNCHANGED <<self, clock, acked, pruned>>
<1>1. /\ pc[t] = "saving" /\ pc'[t] = "saved" /\ UNCHANGED <<self, req, clock, acked, pruned>>
      /\ self \in Ref /\ obj[self] \in State
  BY Types DEF SaveTelemetry, SInv, TypeOK
<1>2. ref[t] = self /\ rows = [obj[self] EXCEPT !.tel = {}]
  BY <1>1 DEF SInv, RequestInv
<1>3. db' = [rows EXCEPT !.tel = obj[self].tel]
  BY <1>2 DEF SaveTelemetry
<1>4. db' = obj[self]
  BY <1>1, <1>2, <1>3 DEF State
<1>5. obj'[self] = obj[self]
  BY <1>1 DEF SaveTelemetry, Collect, Live
<1>6. QED
  BY <1>1, <1>4, <1>5

LEMMA SaveTelemetryKeeps ==
  ASSUME OneThread, SInv, IInv', NEW t \in Thread, SaveTelemetry(t)
  PROVE  SInv'
<1>1. /\ db' = obj[self] /\ obj'[self'] = obj[self]
      /\ pc[t] = "saving" /\ pc'[t] = "saved" /\ req' = req
      /\ UNCHANGED <<self, clock, acked, pruned>>
  BY SaveFacts
<1>2. CacheInv'
  BY <1>1, Types DEF SInv, CacheInv
<1>3. AckedIsDurable'
  BY <1>1 DEF SInv, AckedIsDurable, CacheInv
<1>4. LastSeenIsLatest'
  <2>1. SUFFICES ASSUME NEW q \in acked, q.kind \in Changes
                 PROVE  q.stamp <= obj[self].seen[q.dev]
    BY <1>1 DEF LastSeenIsLatest, Changes
  <2>2. q.stamp <= db.seen[q.dev] /\ q.dev \in Device /\ q.stamp \in Nat
    BY <2>1, Types DEF SInv, LastSeenIsLatest, TypeOK, Request, Changes, Stamp
  <2>3. QED
    BY <2>2, Types DEF SInv, CacheInv
<1>5. RequestInv(t)'
  BY <1>1 DEF SInv, RequestInv, Saving, Effect, Changes
<1>6. QED
  BY <1>2, <1>3, <1>4, <1>5 DEF SInv, OneThread

(* A handler that raises leaves the cache as it is. *)
LEMMA LeaveKeeps ==
  ASSUME OneThread, SInv, IInv', NEW t \in Thread, Leave(t),
         UNCHANGED <<db, self, clock, acked, pruned>>
  PROVE  SInv'
<1>1. pc'[t] = "idle" /\ obj'[self'] = obj[self]
  BY Types DEF Leave, Collect, Live, SInv, TypeOK
<1>2. CacheInv' /\ AckedIsDurable' /\ LastSeenIsLatest'
  BY <1>1, KeepsCache
<1>3. RequestInv(t)'
  BY <1>1 DEF RequestInv, Saving
<1>4. QED
  BY <1>2, <1>3 DEF SInv, OneThread

LEMMA LoadKeeps ==
  ASSUME OneThread, SInv, IInv', NEW t \in Thread, Load(t)
  PROVE  SInv'
<1>1. PICK r \in Ref \ Live(self, ref) :
        obj' = [obj EXCEPT ![r] = db] /\ ref' = [ref EXCEPT ![t] = r]
  BY DEF Load
<1>2. /\ pc[t] = "saved" /\ pc'[t] = "loaded" /\ req' = req /\ ref'[t] = r
      /\ UNCHANGED <<db, self, clock, acked, pruned>>
      /\ obj'[self] = obj[self] /\ obj'[r] = db
  BY <1>1, Types DEF Load, SInv, TypeOK, Live
<1>3. CacheInv' /\ AckedIsDurable' /\ LastSeenIsLatest'
  BY <1>2, KeepsCache
<1>4. RequestInv(t)'
  BY <1>2 DEF SInv, RequestInv, Saving, Effect
<1>5. QED
  BY <1>3, <1>4 DEF SInv, OneThread

(* What was read from the database becomes the cache. *)
LEMMA FreshCache ==
  ASSUME SInv, IInv', db' = db, obj'[self'] = db, clock' = clock,
         UNCHANGED <<acked, pruned>>
  PROVE  CacheInv' /\ AckedIsDurable' /\ LastSeenIsLatest'
<1>1. IsFiniteSet(db.tel)
  BY FS_Subset DEF SInv, CacheInv
<1>2. \A d \in Device : db.seen[d] <= clock
  BY Types DEF SInv, CacheInv
<1>3. CacheInv'
  BY <1>1, <1>2, Types DEF SInv, CacheInv
<1>4. QED
  BY <1>3 DEF SInv, AckedIsDurable, LastSeenIsLatest

LEMMA AssignKeeps ==
  ASSUME OneThread, SInv, IInv', NEW t \in Thread, Assign(t)
  PROVE  SInv'
<1>1. /\ pc[t] = "loaded" /\ pc'[t] = "assigned" /\ req' = req
      /\ UNCHANGED <<db, clock, acked, pruned>>
      /\ self' = ref[t] /\ ref[t] \in Ref /\ obj[ref[t]] = db
  BY Types DEF Assign, SInv, TypeOK, HandlerOK, RequestInv
<1>2. obj'[self'] = db
  BY <1>1 DEF Assign, Collect, Live
<1>3. CacheInv' /\ AckedIsDurable' /\ LastSeenIsLatest'
  BY <1>1, <1>2, FreshCache
<1>4. RequestInv(t)'
  BY <1>1, <1>2 DEF SInv, RequestInv, Saving, Effect
<1>5. QED
  BY <1>3, <1>4 DEF SInv, OneThread

(* What a request is answered is true of the database. *)
LEMMA AnswerKeeps ==
  ASSUME OneThread, SInv, IInv', NEW t \in Thread, Answer(t)
  PROVE  SInv'
<1>1. /\ pc[t] = "assigned" /\ pc'[t] = "idle" /\ obj'[self'] = obj[self]
      /\ acked' = acked \cup {req[t]} /\ UNCHANGED <<db, self, clock, pruned>>
  BY Types DEF Answer, Leave, Collect, Live, SInv, TypeOK
<1>2. /\ req[t].kind \in Changes => Effect(req[t], db)
      /\ req[t] \in Request
  BY <1>1, Types DEF SInv, RequestInv, HandlerOK
<1>3. CacheInv'
  BY <1>1 DEF SInv, CacheInv
<1>4. AckedIsDurable'
  BY <1>1, <1>2 DEF SInv, AckedIsDurable, Effect, Changes
<1>5. LastSeenIsLatest'
  <2>1. req[t].kind \in Changes => req[t].stamp <= db.seen[req[t].dev]
    BY <1>2, Types DEF Effect, SInv, Request
  <2>2. QED
    BY <1>1, <2>1 DEF SInv, LastSeenIsLatest, Changes
<1>6. RequestInv(t)'
  BY <1>1 DEF RequestInv, Saving
<1>7. QED
  BY <1>3, <1>4, <1>5, <1>6 DEF SInv, OneThread

(* A prune leaves few events of each device. *)
LEMMA PruneFacts ==
  ASSUME SInv, NEW kept \in SUBSET db.tel, \A d \in Device : Latest(kept, db.tel, d)
  PROVE  /\ Few(kept)
         /\ \A d \in Device : OfDevice(db.tel \ kept, d) # {} =>
              Cardinality(OfDevice(kept, d)) = Retain
<1>1. ASSUME NEW d \in Device
      PROVE  /\ Cardinality(OfDevice(kept, d)) <= Retain
             /\ OfDevice(db.tel \ kept, d) # {} => Cardinality(OfDevice(kept, d)) = Retain
  <2>1. /\ IsFiniteSet(OfDevice(db.tel, d))
        /\ OfDevice(kept, d) \subseteq OfDevice(db.tel, d)
    <3>1. IsFiniteSet(db.tel)
      BY FS_Subset DEF SInv, CacheInv
    <3>2. OfDevice(db.tel, d) \subseteq db.tel /\ OfDevice(kept, d) \subseteq OfDevice(db.tel, d)
      BY DEF OfDevice
    <3>3. QED
      BY <3>1, <3>2, FS_Subset
  <2>2. /\ Cardinality(OfDevice(db.tel, d)) \in Nat
        /\ Cardinality(OfDevice(kept, d)) = Cardinality(OfDevice(db.tel, d)) =>
             OfDevice(kept, d) = OfDevice(db.tel, d)
    BY <2>1, FS_CardinalityType, FS_Subset
  <2>3. OfDevice(kept, d) = OfDevice(db.tel, d) => OfDevice(db.tel \ kept, d) = {}
    BY DEF OfDevice
  <2>4. Cardinality(OfDevice(kept, d)) =
          IF Cardinality(OfDevice(db.tel, d)) < Retain
          THEN Cardinality(OfDevice(db.tel, d)) ELSE Retain
    BY DEF Latest
  <2>5. QED
    BY <2>2, <2>3, <2>4, ConstantsAssumption
<1>2. QED
  BY <1>1 DEF Few

LEMMA PruneKeeps ==
  ASSUME OneThread, SInv, IInv', NEW t \in Thread, Prune(t)
  PROVE  SInv'
<1>1. PICK kept \in SUBSET db.tel :
        /\ \A d \in Device : Latest(kept, db.tel, d)
        /\ db' = [db EXCEPT !.tel = kept]
        /\ pruned' = pruned \cup (db.tel \ kept)
  BY DEF Prune
<1>2. /\ pc[t] = "pruning" /\ pc'[t] = "saved" /\ req' = req
      /\ UNCHANGED <<obj, self, clock, acked>>
      /\ db'.count = db.count /\ db'.seen = db.seen /\ db'.tel = kept
      /\ Known(db') = Known(db)
  BY <1>1, Types DEF Prune, SInv, TypeOK, State, Known
<1>3. CacheInv'
  BY <1>2 DEF SInv, CacheInv
<1>4. AckedIsDurable' /\ LastSeenIsLatest'
  BY <1>1, <1>2 DEF SInv, AckedIsDurable, LastSeenIsLatest
<1>5. RequestInv(t)'
  BY <1>1, <1>2, PruneFacts DEF SInv, RequestInv, Saving, Changes
<1>6. QED
  BY <1>3, <1>4, <1>5 DEF SInv, OneThread

LEMMA RestartKeeps ==
  ASSUME SInv, IInv', Restart
  PROVE  SInv'
<1>1. /\ obj'[self'] = db /\ UNCHANGED <<db, self, clock, acked, pruned>>
      /\ \A t \in Thread : pc'[t] = "idle"
  BY Types DEF Restart, SInv
<1>2. CacheInv' /\ AckedIsDurable' /\ LastSeenIsLatest'
  BY <1>1, FreshCache
<1>3. \A t \in Thread : RequestInv(t)'
  BY <1>1 DEF RequestInv, Saving
<1>4. QED
  BY <1>2, <1>3 DEF SInv

LEMMA StutterKeeps ==
  ASSUME SInv, IInv', UNCHANGED vars
  PROVE  SInv'
<1>1. UNCHANGED <<db, obj, self, pc, req, ref, rows, clock, acked, pruned>>
  BY DEF vars
<1>2. CacheInv' /\ AckedIsDurable' /\ LastSeenIsLatest'
  BY <1>1, KeepsCache
<1>3. \A t \in Thread : RequestInv(t)'
  BY <1>1 DEF SInv, RequestInv, Saving, Effect
<1>4. QED
  BY <1>2, <1>3 DEF SInv

LEMMA InitSInv ==
  ASSUME Init
  PROVE  SInv
<1>1. IInv
  BY InitIInv
<1>2. /\ obj[self] = db /\ clock = 0 /\ acked = {} /\ db.tel = {} /\ db.seen = None
      /\ \A t \in Thread : pc[t] = "idle"
  BY DEF Init
<1>3. CacheInv
  <2>1. IsFiniteSet({})
    BY FS_EmptySet
  <2>2. \A d \in Device : db.seen[d] = 0
    BY <1>2 DEF None
  <2>3. QED
    BY <1>1, <1>2, <2>1, <2>2, Types DEF CacheInv
<1>4. \A t \in Thread : RequestInv(t)
  BY <1>2 DEF RequestInv, Saving
<1>5. QED
  BY <1>1, <1>2, <1>3, <1>4 DEF SInv, AckedIsDurable, LastSeenIsLatest

LEMMA NextSInv ==
  ASSUME OneThread, SInv, [Next]_vars
  PROVE  SInv'
<1>1. IInv'
  BY NextIInv DEF SInv
<1>2. ASSUME NEW t \in Thread, NEW q \in NewRequests, Receive(t, q)
      PROVE  SInv'
  BY <1>1, <1>2, ReceiveKeeps
<1>3. ASSUME NEW t \in Thread, Reject(t) \/ Mutate(t) \/ Capture(t) \/ SaveDevices(t)
      PROVE  SInv'
  BY <1>1, <1>3, RejectKeeps, MutateKeeps, CaptureKeeps, SaveDevicesKeeps
<1>4. ASSUME NEW t \in Thread,
             SaveTelemetry(t) \/ Load(t) \/ Assign(t) \/ Answer(t) \/ Prune(t)
      PROVE  SInv'
  BY <1>1, <1>4, SaveTelemetryKeeps, LoadKeeps, AssignKeeps, AnswerKeeps, PruneKeeps
<1>5. ASSUME NEW t \in Thread, IntegrityError(t) \/ Fault(t)
      PROVE  SInv'
  BY <1>1, <1>5, LeaveKeeps DEF IntegrityError, Fault
<1>6. CASE Restart
  BY <1>1, <1>6, RestartKeeps
<1>7. CASE UNCHANGED vars
  BY <1>1, <1>7, StutterKeeps
<1>8. QED
  BY <1>2, <1>3, <1>4, <1>5, <1>6, <1>7 DEF Next, Work, Step
-----------------------------------------------------------------------------
(* With one thread, the cache is never behind the database, whatever       *)
(* statements fail and wherever the process stops.                         *)
THEOREM SequentialInvariant ==
  ASSUME OneThread
  PROVE  Spec => []SInv
<1>1. Init => SInv
  BY InitSInv
<1>2. SInv /\ [Next]_vars => SInv'
  BY NextSInv
<1>3. QED
  BY <1>1, <1>2, PTL DEF Spec

(* With one thread, what a request was answered stays in the database: no  *)
(* later save, failure, crash or load undoes it.                           *)
THEOREM AckedHolds ==
  ASSUME OneThread
  PROVE  Spec => []AckedIsDurable
<1>1. SInv => AckedIsDurable
  BY DEF SInv
<1>2. QED
  BY <1>1, SequentialInvariant, PTL

(* With one thread, no older last_seen comes back. *)
THEOREM LastSeenHolds ==
  ASSUME OneThread
  PROVE  Spec => []LastSeenIsLatest
<1>1. SInv => LastSeenIsLatest
  BY DEF SInv
<1>2. QED
  BY <1>1, SequentialInvariant, PTL

(* With one thread, a device whose registration was answered is found by   *)
(* every later lookup.                                                     *)
THEOREM KnownHolds ==
  ASSUME OneThread
  PROVE  Spec => []AckedIsKnown
<1>1. SInv => AckedIsKnown
  BY DEF SInv, AckedIsKnown, AckedIsDurable, CacheInv
<1>2. QED
  BY <1>1, SequentialInvariant, PTL
-----------------------------------------------------------------------------
(* Unless a statement fails, the cache is the database, or the database    *)
(* with the change that is about to be saved.                              *)
FaithfulInv(t) ==
  /\ pc[t] \in {"idle", "found", "pruning", "assigned"} => obj[self] = db
  /\ pc[t] \in {"mutated", "captured", "saving"} => obj[self] = Change(db, req[t])
  /\ pc[t] \in Saving /\ req[t].kind # "register" => req[t].dev \in Known(db)

MCInv ==
  /\ SInv
  /\ faulty \in BOOLEAN
  /\ faulty \/ (CacheIsDatabase /\ \A t \in Thread : FaithfulInv(t))

(* The save of a consistent cache is not refused. *)
LEMMA NeverRefused ==
  ASSUME SInv, NEW t \in Thread
  PROVE  ~IntegrityError(t)
<1>1. UniqueDevices(obj[self]) /\ NoOrphans(Known(obj[self]), obj[self].tel)
  BY DEF SInv, CacheInv, Consistent
<1>2. pc[t] = "captured" => UniqueDevices(obj[ref[t]])
  BY <1>1 DEF SInv, RequestInv
<1>3. pc[t] = "saving" => NoOrphans(Known(rows), obj[ref[t]].tel)
  <2>1. SUFFICES ASSUME pc[t] = "saving"
                 PROVE  Known(rows) = Known(obj[self]) /\ ref[t] = self
    BY <1>1
  <2>2. rows = [obj[self] EXCEPT !.tel = {}] /\ ref[t] = self /\ obj[self] \in State
    BY <2>1, Types DEF SInv, RequestInv
  <2>3. QED
    BY <2>2 DEF Known, State
<1>4. QED
  BY <1>2, <1>3 DEF IntegrityError

LEMMA WorkFaithful ==
  ASSUME OneThread, SInv, SInv', NEW t \in Thread, FaithfulInv(t), Work(t)
  PROVE  CacheIsDatabase' /\ FaithfulInv(t)'
<1>0. ASSUME FaithfulInv(t)' PROVE CacheIsDatabase'
  BY <1>0 DEF FaithfulInv, CacheIsDatabase, Idle
<1>1. ASSUME NEW q \in NewRequests, Receive(t, q) PROVE FaithfulInv(t)'
  <2>1. /\ pc[t] = "idle" /\ UNCHANGED <<db, obj, self>> /\ obj[self] = db
        /\ pc'[t] = CASE q.kind = "prune" -> "pruning"
                      [] q.kind = "refresh" -> "saved"
                      [] OTHER -> "found"
        /\ pc'[t] \in {"found", "pruning", "saved"}
    BY <1>1, Types DEF Receive, SInv, TypeOK, FaithfulInv
  <2>2. pc'[t] = "found" /\ req'[t].kind # "register" => req'[t].dev \in Known(db)
    BY <2>1 DEF SInv, RequestInv
  <2>3. QED
    BY <2>1, <2>2 DEF FaithfulInv, Saving
<1>2. ASSUME Reject(t) PROVE FaithfulInv(t)'
  BY <1>2 DEF Reject, FaithfulInv, Saving
<1>3. ASSUME Mutate(t) PROVE FaithfulInv(t)'
  <2>1. /\ pc[t] = "found" /\ pc'[t] = "mutated" /\ UNCHANGED <<db, self, req>>
        /\ obj'[self] = Change(obj[self], req[t]) /\ obj[self] = db
    BY <1>3, MutateFacts, Types DEF Mutate, SInv, TypeOK, FaithfulInv
  <2>2. QED
    BY <2>1 DEF FaithfulInv, Saving
<1>4. ASSUME Capture(t) \/ SaveDevices(t) PROVE FaithfulInv(t)'
  <2>1. /\ pc[t] \in {"mutated", "captured"} /\ pc'[t] \in {"captured", "saving"}
        /\ UNCHANGED <<db, obj, self, req>>
    BY <1>4, Types DEF Capture, SaveDevices, SInv, TypeOK
  <2>2. QED
    BY <2>1 DEF FaithfulInv, Saving
<1>5. ASSUME SaveTelemetry(t) \/ Load(t) \/ Prune(t) PROVE FaithfulInv(t)'
  <2>1. pc'[t] \in {"saved", "loaded"}
    BY <1>5, Types DEF SaveTelemetry, Load, Prune, SInv, TypeOK
  <2>2. QED
    BY <2>1 DEF FaithfulInv, Saving
<1>6. ASSUME Assign(t) PROVE FaithfulInv(t)'
  <2>1. pc'[t] = "assigned"
    BY <1>6, Types DEF Assign, SInv, TypeOK
  <2>2. QED
    BY <2>1 DEF FaithfulInv, Saving, SInv, RequestInv
<1>7. ASSUME Answer(t) PROVE FaithfulInv(t)'
  <2>1. /\ pc[t] = "assigned" /\ pc'[t] = "idle" /\ obj'[self'] = obj[self] /\ db' = db
    BY <1>7, Types DEF Answer, Leave, Collect, Live, SInv, TypeOK
  <2>2. QED
    BY <2>1 DEF FaithfulInv, Saving
<1>8. QED
  BY <1>0, <1>1, <1>2, <1>3, <1>4, <1>5, <1>6, <1>7, NeverRefused DEF Work, Step

LEMMA NextMCInv ==
  ASSUME OneThread, MCInv, [MCNext]_<<vars, faulty>>
  PROVE  MCInv'
<1>1. [Next]_vars /\ faulty' = faulty
  BY DEF MCNext, Next
<1>2. SInv /\ SInv' /\ faulty' \in BOOLEAN
  BY <1>1, NextSInv DEF MCInv
<1>3. ASSUME ~faulty
      PROVE  CacheIsDatabase' /\ \A t \in Thread : FaithfulInv(t)'
  <2>1. CacheIsDatabase /\ \A t \in Thread : FaithfulInv(t)
    BY <1>3 DEF MCInv
  <2>2. ASSUME NEW t \in Thread, Work(t)
        PROVE  CacheIsDatabase' /\ \A u \in Thread : FaithfulInv(u)'
    BY <1>2, <2>1, <2>2, WorkFaithful DEF OneThread
  <2>3. CASE Restart
    <3>1. obj'[self'] = db' /\ \A t \in Thread : pc'[t] = "idle"
      BY <1>2, <2>3, Types DEF Restart, SInv
    <3>2. QED
      BY <3>1 DEF CacheIsDatabase, FaithfulInv, Saving
  <2>4. CASE UNCHANGED vars
    BY <2>1, <2>4 DEF vars, CacheIsDatabase, Idle, FaithfulInv, Saving
  <2>5. QED
    BY <1>3, <2>2, <2>3, <2>4 DEF MCNext
<1>4. QED
  BY <1>1, <1>2, <1>3 DEF MCInv

LEMMA InitMCInv ==
  ASSUME MCInit
  PROVE  MCInv
<1>1. SInv /\ faulty \in BOOLEAN
  BY InitSInv DEF MCInit
<1>2. obj[self] = db /\ \A t \in Thread : pc[t] = "idle"
  BY DEF MCInit, Init
<1>3. QED
  BY <1>1, <1>2 DEF MCInv, CacheIsDatabase, FaithfulInv, Saving

(* With one thread and no failing statement, a reader between requests is  *)
(* answered what the database holds.                                       *)
THEOREM CacheHolds ==
  ASSUME OneThread
  PROVE  MCSpec => []CacheUnlessFaulty
<1>1. MCInit => MCInv
  BY InitMCInv
<1>2. MCInv /\ [MCNext]_<<vars, faulty>> => MCInv'
  BY NextMCInv
<1>3. MCInv => CacheUnlessFaulty
  BY DEF MCInv, CacheUnlessFaulty
<1>4. QED
  BY <1>1, <1>2, <1>3, PTL DEF MCSpec

-----------------------------------------------------------------------------
(* The database, without its layout: what AtomicRegistry is about.         *)
LEMMA InitRefines ==
  ASSUME MCInit
  PROVE  Atomic!Init
<1>1. /\ db.seen = None /\ db.tel = {} /\ pruned = {} /\ acked = {}
      /\ Known(db) \subseteq Device
  BY DEF MCInit, Init, Known
<1>2. QED
  BY <1>1 DEF Atomic!Init, None

(* A committed save is the one step of a change.                           *)
LEMMA SaveRefines ==
  ASSUME MCInv, ~faulty, faulty' = faulty, NEW t \in Thread, SaveTelemetry(t)
  PROVE  Atomic!Next
<1> DEFINE q == req[t]
<1>1. /\ pc[t] = "saving" /\ db' = obj[self] /\ UNCHANGED <<acked, pruned>>
      /\ SInv /\ FaithfulInv(t)
  BY SaveFacts DEF MCInv
<1>2. /\ q \in Request /\ q.kind \in Changes /\ q.stamp = clock
      /\ \A d \in Device : db.seen[d] < clock
      /\ db' = Change(db, q)
      /\ q.kind # "register" => q.dev \in Known(db)
      /\ db \in State /\ Consistent(db)
  BY <1>1, Types DEF SInv, HandlerOK, RequestInv, FaithfulInv, Saving
<1>3. /\ Known(db') = Known(db) \cup {q.dev}
      /\ db'.seen = [db.seen EXCEPT ![q.dev] = q.stamp]
      /\ db'.tel = IF q.kind = "ingest" THEN db.tel \cup {EventOf(q)} ELSE db.tel
  BY <1>2, ChangeFacts
<1>4. q.dev \in Device /\ q.stamp \in Stamp
      /\ EventOf(q) \in Event /\ EventOf(q).dev = q.dev /\ EventOf(q).id = q.stamp
  BY <1>2 DEF Request, EventOf, Event
<1>5. Atomic!Newest(q.stamp)
  BY <1>2 DEF Atomic!Newest
<1>6. CASE q.kind = "register"
  <2>1. Atomic!Register(q.dev, q.stamp)
    BY <1>1, <1>3, <1>5, <1>6 DEF Atomic!Register
  <2>2. QED
    BY <1>4, <2>1 DEF Atomic!Next, Atomic!Stamp, Stamp
<1>7. CASE q.kind = "heartbeat"
  <2>1. Known(db') = Known(db) /\ q.dev \in Known(db)
    BY <1>2, <1>3, <1>7
  <2>2. Atomic!Heartbeat(q.dev, q.stamp)
    BY <1>1, <1>3, <1>5, <1>7, <2>1 DEF Atomic!Heartbeat
  <2>3. QED
    BY <1>4, <2>2 DEF Atomic!Next, Atomic!Stamp, Stamp
<1>8. CASE q.kind = "ingest"
  <2>1. Known(db') = Known(db) /\ q.dev \in Known(db)
    BY <1>2, <1>3, <1>8
  <2>2. Atomic!Ingest(EventOf(q))
    BY <1>1, <1>3, <1>4, <1>5, <1>8, <2>1 DEF Atomic!Ingest
  <2>3. QED
    BY <1>4, <2>2 DEF Atomic!Next, Atomic!Event, Atomic!Stamp, Event, Stamp
<1>9. QED
  BY <1>2, <1>6, <1>7, <1>8 DEF Changes

(* The store counts its events as the database does.                       *)
LEMMA SameCardinality ==
  ASSUME NEW S
  PROVE  Atomic!Cardinality(S) = Cardinality(S)
  BY Zenon DEF Cardinality, Atomic!Cardinality

LEMMA PruneRefines ==
  ASSUME MCInv, ~faulty, faulty' = faulty, NEW t \in Thread, Prune(t)
  PROVE  Atomic!Next
<1>1. PICK kept \in SUBSET db.tel :
        /\ \A d \in Device : Latest(kept, db.tel, d)
        /\ db' = [db EXCEPT !.tel = kept]
        /\ pruned' = pruned \cup (db.tel \ kept)
  BY DEF Prune
<1>2. /\ acked' = acked /\ SInv /\ db \in State
      /\ db'.seen = db.seen /\ db'.tel = kept /\ Known(db') = Known(db)
  BY <1>1, Types DEF MCInv, SInv, Prune, State, Known
<1>3. Few(kept)
  BY <1>1, <1>2, PruneFacts
<1> DEFINE lost == db.tel \ kept
<1>4. db.tel \ lost = kept
  OBVIOUS
<1>5. ASSUME NEW e \in lost
      PROVE  LET left == {f \in db.tel \ lost : f.dev = e.dev}
             IN  Cardinality(left) = Retain /\ \A f \in left : e.at <= f.at
  <2>1. e.dev \in Device
    BY <1>2 DEF State, Event
  <2>2. {f \in db.tel \ lost : f.dev = e.dev} = OfDevice(kept, e.dev)
    BY <1>4 DEF OfDevice
  <2>3. e \in OfDevice(db.tel \ kept, e.dev)
    BY DEF OfDevice
  <2>4. Cardinality(OfDevice(kept, e.dev)) = Retain
    BY <1>1, <1>2, <2>1, <2>3, PruneFacts
  <2>5. \A f \in OfDevice(kept, e.dev) : e.at <= f.at
    BY <1>1, <2>1, <2>3 DEF Latest
  <2>6. QED
    BY <2>2, <2>4, <2>5
<1>6. Atomic!Prune
  <2>1. \A d \in Device : Cardinality({e \in kept : e.dev = d}) <= Retain
    BY <1>3 DEF Few, OfDevice
  <2>2. lost \in SUBSET db.tel
    OBVIOUS
  <2> DEFINE events == IF faulty THEN {} ELSE db.tel
             few(d) == {e \in events' : e.dev = d}
             left(e) == {f \in events \ lost : f.dev = e.dev}
  <2>3. events = db.tel /\ events' = kept
    BY <1>2
  <2>4. \A d \in Device : Cardinality(few(d)) <= Retain
    BY <2>1, <2>3
  <2>5. \A e \in lost : Cardinality(left(e)) = Retain /\ \A f \in left(e) : e.at <= f.at
    BY <1>5, <2>3
  <2>6. events' = events \ lost /\ lost \in SUBSET events
    BY <1>4, <2>3
  <2> HIDE DEF lost
  <2>7. /\ (IF faulty THEN {} ELSE pruned)' = (IF faulty THEN {} ELSE pruned) \cup lost
        /\ UNCHANGED <<IF faulty THEN {} ELSE Known(db),
                       IF faulty THEN None ELSE db.seen,
                       IF faulty THEN {} ELSE acked>>
    BY <1>1, <1>2 DEF lost
  <2>8. QED
    BY <2>4, <2>5, <2>6, <2>7, SameCardinality, Zenon DEF Atomic!Prune
<1>7. QED
  BY <1>6 DEF Atomic!Next

LEMMA AnswerRefines ==
  ASSUME MCInv, ~faulty, faulty' = faulty, NEW t \in Thread, Answer(t)
  PROVE  Atomic!Next
<1>1. /\ pc[t] = "assigned" /\ acked' = acked \cup {req[t]} /\ UNCHANGED <<db, pruned>>
      /\ SInv
  BY DEF Answer, MCInv
<1>2. /\ req[t].kind \in Changes => Effect(req[t], db)
      /\ req[t].kind = "prune" => Few(db.tel)
      /\ req[t] \in Request
  BY <1>1, Types DEF SInv, RequestInv, HandlerOK
<1>3. Atomic!TookEffect(req[t])
  <2> DEFINE events == IF faulty THEN {} ELSE db.tel
             few(d) == {e \in events : e.dev = d}
  <2>1. req[t].kind = "prune" => \A d \in Device : Cardinality(few(d)) <= Retain
    BY <1>2 DEF Few, OfDevice
  <2>2. CASE req[t].kind = "prune"
    BY <2>1, <2>2, SameCardinality, Zenon DEF Atomic!TookEffect
  <2>3. CASE req[t].kind = "ingest"
    BY <1>2, <2>3 DEF Atomic!TookEffect, Effect, EventOf, Changes
  <2>4. CASE req[t].kind \in {"register", "heartbeat"}
    BY <1>2, <2>4 DEF Atomic!TookEffect, Effect, Changes
  <2>5. CASE req[t].kind = "refresh"
    BY <2>5 DEF Atomic!TookEffect
  <2>6. QED
    BY <1>2, <2>2, <2>3, <2>4, <2>5 DEF Request, AllKinds
<1>4. Atomic!Acknowledge(req[t])
  BY <1>1, <1>3 DEF Atomic!Acknowledge
<1>5. req[t] \in Atomic!Request
  BY <1>2 DEF Request, AllKinds, Stamp, Atomic!Request, Atomic!Stamp
<1>6. QED
  BY <1>4, <1>5 DEF Atomic!Next

(* Every other step is one of the mechanism's own.                         *)
LEMMA NextRefines ==
  ASSUME MCInv, [MCNext]_<<vars, faulty>>
  PROVE  [Atomic!Next]_(Atomic!vars)
<1>1. faulty' = faulty
  BY DEF MCNext
<1>2. CASE faulty
  BY <1>1, <1>2 DEF Atomic!vars
<1>3. CASE ~faulty
  <2>1. UNCHANGED <<db, pruned, acked>> => UNCHANGED Atomic!vars
    BY <1>1 DEF Atomic!vars
  <2>2. ASSUME NEW t \in Thread,
               \/ \E q \in NewRequests : Receive(t, q)
               \/ Reject(t) \/ Mutate(t) \/ Capture(t) \/ SaveDevices(t)
               \/ IntegrityError(t) \/ Load(t) \/ Assign(t)
        PROVE  UNCHANGED <<db, pruned, acked>>
    BY <2>2 DEF Receive, Reject, Mutate, Capture, SaveDevices, IntegrityError, Load,
       Assign
  <2>3. ASSUME NEW t \in Thread, SaveTelemetry(t) \/ Prune(t) \/ Answer(t)
        PROVE  Atomic!Next
    BY <1>1, <1>3, <2>3, SaveRefines, PruneRefines, AnswerRefines
  <2>4. Restart \/ UNCHANGED vars => UNCHANGED <<db, pruned, acked>>
    BY DEF Restart, vars
  <2>5. QED
    BY <1>3, <2>1, <2>2, <2>3, <2>4 DEF MCNext, Work, Step
<1>4. QED
  BY <1>2, <1>3 DEF MCInv

(* With one thread and no failing statement, the cache, the two-table      *)
(* rewrite and the handlers' steps implement a store in which every        *)
(* request takes effect once, atomically and before its answer, also       *)
(* across crashes.                                                         *)
THEOREM RefinesAtomicRegistry ==
  ASSUME OneThread
  PROVE  MCSpec => ImplementsAtomicRegistry
<1>1. MCInit => MCInv /\ Atomic!Init
  BY InitMCInv, InitRefines
<1>2. MCInv /\ [MCNext]_<<vars, faulty>> => MCInv' /\ [Atomic!Next]_(Atomic!vars)
  BY NextMCInv, NextRefines
<1>3. QED
  BY <1>1, <1>2, PTL DEF MCSpec, ImplementsAtomicRegistry, Atomic!Spec
=============================================================================
