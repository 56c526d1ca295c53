------------------------------ MODULE Registry ------------------------------
(***************************************************************************)
(* The device registry and telemetry store of the IoTron control plane:    *)
(* iotron/service.py over iotron/storage.py.                               *)
(*                                                                         *)
(* One IoTronService object serves every HTTP request.  FastAPI runs the   *)
(* handlers, plain functions, on the threads of a pool, and no lock is     *)
(* held around a service method: threads share service._runtime_state, a   *)
(* cached copy of two SQLite tables.  A mutating handler looks its device  *)
(* up in the cache, changes the cached object in place, writes the whole   *)
(* object over both tables in one transaction (under storage._DB_LOCK),    *)
(* reads both tables back into a fresh object, makes that the cache, and   *)
(* writes an audit row.                                                    *)
(*                                                                         *)
(* Objects are modelled as heap cells (Ref): a handler that found a device *)
(* or captured self._runtime_state keeps its object although another       *)
(* thread has since replaced the cache.                                    *)
(***************************************************************************)
EXTENDS Naturals, FiniteSets

CONSTANTS
  Thread,       \* threads of the server's pool
  Device,       \* device identifiers
  Ref,          \* heap cells that can hold a runtime-state object
  NoThread,     \* the free value of the lock
  NoRef,        \* a thread that holds no object
  Kind,         \* the requests the clients send, a subset of AllKinds
  Retain,       \* retain_latest_per_device
  MaxClock,     \* bound: how many requests are received
  Faults,       \* may SQLite raise OperationalError?
  Crashes       \* may the process stop and be started again?

AllKinds == {"register", "heartbeat", "ingest", "prune", "refresh"}

ASSUME ConstantsAssumption ==
  /\ NoThread \notin Thread
  /\ NoRef \notin Ref
  /\ Kind \subseteq AllKinds
  /\ Retain \in Nat
  /\ MaxClock \in Nat
  /\ Faults \in BOOLEAN
  /\ Crashes \in BOOLEAN

VARIABLES
  db,       \* the committed rows of tables devices and telemetry
  obj,      \* the runtime-state object in each heap cell
  self,     \* the cell of service._runtime_state
  pc,       \* the next step of each thread
  req,      \* the request each thread serves
  ref,      \* the cell a thread's local variable or call argument refers to
  lock,     \* owner of storage._DB_LOCK while a save is between statements
  rows,     \* device rows inserted by the open transaction
  clock,    \* requests received so far: the source of timestamps
  acked,    \* history: requests answered with success
  pruned    \* history: events a prune deleted

vars == <<db, obj, self, pc, req, ref, lock, rows, clock, acked, pruned>>

-----------------------------------------------------------------------------
Stamp == 0 .. MaxClock

(* An event carries the request that recorded it (id) and recorded_at: the *)
(* server's time, or 0 for an older time supplied by the device.           *)
Event == [dev : Device, id : Stamp, at : Stamp]

(* Two tables, or the two lists of a runtime-state object.  count is how   *)
(* many entries a device has, seen the request that wrote the last_seen of *)
(* its first entry.                                                        *)
State == [count : [Device -> Nat], seen : [Device -> Stamp], tel : SUBSET Event]

Request == [kind : AllKinds, dev : Device, stamp : Stamp, at : Stamp]

Steps == {"idle", "found", "mutated", "captured", "saving", "pruning",
          "saved", "loaded", "assigned"}

None == [d \in Device |-> 0]
Blank == [count |-> None, seen |-> None, tel |-> {}]
Known(s) == {d \in Device : s.count[d] > 0}
NoRequest == [kind |-> "none"]

(* Cells nothing refers to are garbage: they keep no contents. *)
Live(s, rf) == {s} \cup {rf[t] : t \in Thread}
Collect(h, s, rf) == [r \in Ref |-> IF r \in Live(s, rf) THEN h[r] ELSE Blank]

(* The schema's constraints: devices.device_id is a primary key and        *)
(* telemetry.device_id references it (foreign_keys=ON).                    *)
UniqueDevices(s) == \A d \in Device : s.count[d] <= 1
NoOrphans(devs, tel) == \A e \in tel : e.dev \in devs
Consistent(s) == UniqueDevices(s) /\ NoOrphans(Known(s), s.tel)

-----------------------------------------------------------------------------
(* IoTronService.__init__: the cache is a copy of what the database holds. *)
Init ==
  /\ \E S \in SUBSET Device :
       db = [count |-> [d \in Device |-> IF d \in S THEN 1 ELSE 0],
             seen |-> None, tel |-> {}]
  /\ self \in Ref
  /\ obj = [r \in Ref |-> IF r = self THEN db ELSE Blank]
  /\ pc = [t \in Thread |-> "idle"]
  /\ req = [t \in Thread |-> NoRequest]
  /\ ref = [t \in Thread |-> NoRef]
  /\ lock = NoThread
  /\ rows = Blank
  /\ clock = 0
  /\ acked = {}
  /\ pruned = {}

(* The thread leaves the handler, with an answer or an exception. *)
Leave(t) ==
  /\ pc' = [pc EXCEPT ![t] = "idle"]
  /\ req' = [req EXCEPT ![t] = NoRequest]
  /\ ref' = [ref EXCEPT ![t] = NoRef]
  /\ obj' = Collect(obj, self, ref')

(* A handler starts: _find_device reads the cache.  The found entry is a   *)
(* part of the object the cache held at that moment.                       *)
Receive(t, q) ==
  /\ pc[t] = "idle"
  /\ clock < MaxClock
  /\ q.kind \in {"heartbeat", "ingest"} => q.dev \in Known(obj[self])
  /\ clock' = clock + 1
  /\ req' = [req EXCEPT ![t] = q]
  /\ pc' = [pc EXCEPT ![t] = CASE q.kind = "prune" -> "pruning"
                               [] q.kind = "refresh" -> "saved"
                               [] OTHER -> "found"]
  /\ ref' = [ref EXCEPT ![t] =
               IF /\ q.kind \in {"register", "heartbeat", "ingest"}
                  /\ q.dev \in Known(obj[self])
               THEN self ELSE NoRef]
  /\ UNCHANGED <<db, obj, self, lock, rows, acked, pruned>>

(* A heartbeat or a reading of a device the cache does not know: the       *)
(* handler raises ValueError.                                              *)
Reject(t) ==
  /\ pc[t] = "idle"
  /\ clock < MaxClock
  /\ \E d \in Device : d \notin Known(obj[self])
  /\ {"heartbeat", "ingest"} \cap Kind # {}
  /\ clock' = clock + 1
  /\ UNCHANGED <<db, obj, self, pc, req, ref, lock, rows, acked, pruned>>

EventOf(q) == [dev |-> q.dev, id |-> q.stamp, at |-> q.at]

(* register_device appends a new entry to the current cache or updates the *)
(* entry it found; a heartbeat updates the entry it found; a reading is    *)
(* appended to the current cache and updates the entry it found.           *)
AppendDevice(s, q) ==
  [count |-> [s.count EXCEPT ![q.dev] = @ + 1],
   seen  |-> [s.seen EXCEPT ![q.dev] = IF s.count[q.dev] = 0 THEN q.stamp ELSE @],
   tel   |-> s.tel]
TouchNothing(s, q) == s   \* mutant: last_seen is not written
Touch(s, q) == [s EXCEPT !.seen[q.dev] = q.stamp]
AppendEvent(s, q) == [s EXCEPT !.tel = @ \cup {EventOf(q)}]

Mutated(h, q, r) ==
  IF r = NoRef THEN [h EXCEPT ![self] = AppendDevice(@, q)]
  ELSE LET touched == [h EXCEPT ![r] = Touch(@, q)]
       IN  IF q.kind = "ingest"
           THEN [touched EXCEPT ![self] = AppendEvent(@, q)]
           ELSE touched

Mutate(t) ==
  /\ pc[t] = "found"
  /\ pc' = [pc EXCEPT ![t] = "mutated"]
  /\ ref' = [ref EXCEPT ![t] = NoRef]
  /\ obj' = Collect(Mutated(obj, req[t], ref[t]), self, ref')
  /\ UNCHANGED <<db, self, req, lock, rows, clock, acked, pruned>>

(* save_runtime_state(self._runtime_state): the argument is evaluated      *)
(* before the call waits for the lock.                                     *)
Capture(t) ==
  /\ pc[t] = "mutated"
  /\ pc' = [pc EXCEPT ![t] = "captured"]
  /\ ref' = [ref EXCEPT ![t] = self]
  /\ UNCHANGED <<db, obj, self, req, lock, rows, clock, acked, pruned>>

(* save_runtime_state: under the lock, delete both tables and insert the   *)
(* object's devices...                                                     *)
SaveDevices(t) ==
  /\ pc[t] = "captured"
  /\ lock = NoThread
  /\ UniqueDevices(obj[ref[t]])
  /\ lock' = t
  /\ rows' = [obj[ref[t]] EXCEPT !.tel = {}]
  /\ pc' = [pc EXCEPT ![t] = "saving"]
  /\ UNCHANGED <<db, obj, self, req, ref, clock, acked, pruned>>

(* ...then its telemetry, as the list is by now, and commit. *)
SaveTelemetry(t) ==
  /\ pc[t] = "saving"
  /\ NoOrphans(Known(rows), obj[ref[t]].tel)
  /\ db' = [rows EXCEPT !.tel = obj[ref[t]].tel]
  /\ lock' = NoThread
  /\ rows' = Blank
  /\ pc' = [pc EXCEPT ![t] = "saved"]
  /\ ref' = [ref EXCEPT ![t] = NoRef]
  /\ obj' = Collect(obj, self, ref')
  /\ UNCHANGED <<self, req, clock, acked, pruned>>

(* SQLite refuses a row: the connection closes without a commit and the    *)
(* exception leaves the handler.  The cached object keeps its changes.     *)
IntegrityError(t) ==
  /\ \/ pc[t] = "captured" /\ lock = NoThread /\ ~UniqueDevices(obj[ref[t]])
     \/ pc[t] = "saving" /\ ~NoOrphans(Known(rows), obj[ref[t]].tel)
  /\ Leave(t)
  /\ lock' = NoThread
  /\ rows' = Blank
  /\ UNCHANGED <<db, self, clock, acked, pruned>>

(* Mutant: the two tables are joined, so a silent device is not loaded. *)
LoadJoined(t) ==
  /\ pc[t] = "saved"
  /\ lock = NoThread
  /\ \E r \in Ref \ Live(self, ref) :
       /\ obj' = [obj EXCEPT ![r] =
            [db EXCEPT !.count = [d \in Device |->
               IF \E e \in db.tel : e.dev = d THEN db.count[d] ELSE 0]]]
       /\ ref' = [ref EXCEPT ![t] = r]
  /\ pc' = [pc EXCEPT ![t] = "loaded"]
  /\ UNCHANGED <<db, self, req, lock, rows, clock, acked, pruned>>

(* refresh(): load_runtime_state builds a new object from both tables...   *)
Load(t) ==
  /\ pc[t] = "saved"
  /\ lock = NoThread
  /\ \E r \in Ref \ Live(self, ref) :
       /\ obj' = [obj EXCEPT ![r] = db]
       /\ ref' = [ref EXCEPT ![t] = r]
  /\ pc' = [pc EXCEPT ![t] = "loaded"]
  /\ UNCHANGED <<db, self, req, lock, rows, clock, acked, pruned>>

(* Mutant: the local variable is cleared first. *)
AssignCleared(t) ==
  /\ pc[t] = "loaded"
  /\ ref' = [ref EXCEPT ![t] = NoRef]
  /\ self' = ref'[t]
  /\ obj' = Collect(obj, self, ref')
  /\ pc' = [pc EXCEPT ![t] = "assigned"]
  /\ UNCHANGED <<db, req, lock, rows, clock, acked, pruned>>

(* ...and the result is stored in self._runtime_state.                     *)
Assign(t) ==
  /\ pc[t] = "loaded"
  /\ self' = ref[t]
  /\ ref' = [ref EXCEPT ![t] = NoRef]
  /\ obj' = Collect(obj, self', ref')
  /\ pc' = [pc EXCEPT ![t] = "assigned"]
  /\ UNCHANGED <<db, req, lock, rows, clock, acked, pruned>>

(* _log inserts the audit row and the handler returns. *)
Answer(t) ==
  /\ pc[t] = "assigned"
  /\ lock = NoThread
  /\ acked' = acked \cup {req[t]}
  /\ Leave(t)
  /\ UNCHANGED <<db, self, lock, rows, clock, pruned>>

(* prune_telemetry keeps the Retain latest events of every device in the   *)
(* table, by recorded_at; among equal times SQLite may keep any.           *)
OfDevice(tel, d) == {e \in tel : e.dev = d}
Oldest(kept, tel, d) ==   \* mutant: ORDER BY recorded_at ASC
  /\ Cardinality(OfDevice(kept, d)) =
       IF Cardinality(OfDevice(tel, d)) < Retain
       THEN Cardinality(OfDevice(tel, d)) ELSE Retain
  /\ \A e \in OfDevice(kept, d), f \in OfDevice(tel \ kept, d) : e.at <= f.at
Latest(kept, tel, d) ==
  /\ Cardinality(OfDevice(kept, d)) =
       IF Cardinality(OfDevice(tel, d)) < Retain
       THEN Cardinality(OfDevice(tel, d)) ELSE Retain
  /\ \A e \in OfDevice(kept, d), f \in OfDevice(tel \ kept, d) : f.at <= e.at

(* Mutant: prune_runtime_data does not refresh the cache. *)
PruneStale(t) ==
  /\ pc[t] = "pruning"
  /\ lock = NoThread
  /\ \E kept \in SUBSET db.tel :
       /\ \A d \in Device : Latest(kept, db.tel, d)
       /\ db' = [db EXCEPT !.tel = kept]
       /\ pruned' = pruned \cup (db.tel \ kept)
  /\ pc' = [pc EXCEPT ![t] = "assigned"]
  /\ UNCHANGED <<obj, self, req, ref, lock, rows, clock, acked>>

Prune(t) ==
  /\ pc[t] = "pruning"
  /\ lock = NoThread
  /\ \E kept \in SUBSET db.tel :
       /\ \A d \in Device : Latest(kept, db.tel, d)
       /\ db' = [db EXCEPT !.tel = kept]
       /\ pruned' = pruned \cup (db.tel \ kept)
  /\ pc' = [pc EXCEPT ![t] = "saved"]
  /\ UNCHANGED <<obj, self, req, ref, lock, rows, clock, acked>>

(* Mutant: a failed statement does not release the lock. *)
FaultHoldsLock(t) ==
  /\ Faults
  /\ \/ pc[t] \in {"captured", "pruning", "saved", "assigned"} /\ lock = NoThread
     \/ pc[t] = "saving"
  /\ Leave(t)
  /\ UNCHANGED <<db, self, lock, rows, clock, acked, pruned>>

(* Mutant: the failure of the save is swallowed and the request goes on. *)
FaultSwallowed(t) ==
  /\ Faults
  /\ pc[t] \in {"captured", "saving"}
  /\ pc' = [pc EXCEPT ![t] = "assigned"]
  /\ lock' = NoThread
  /\ rows' = Blank
  /\ UNCHANGED <<db, obj, self, req, ref, clock, acked, pruned>>

(* OperationalError (the file is locked by another process, the disk is    *)
(* full) in any statement: the transaction is rolled back, the lock is     *)
(* released by the context manager, the handler fails.                     *)
Fault(t) ==
  /\ Faults
  /\ \/ pc[t] \in {"captured", "pruning", "saved", "assigned"} /\ lock = NoThread
     \/ pc[t] = "saving"
  /\ Leave(t)
  /\ lock' = NoThread
  /\ rows' = Blank
  /\ UNCHANGED <<db, self, clock, acked, pruned>>

(* The process stops anywhere and is started again: an open transaction    *)
(* is lost and the cache is read from the database.                        *)
Restart ==
  /\ Crashes
  /\ pc' = [t \in Thread |-> "idle"]
  /\ req' = [t \in Thread |-> NoRequest]
  /\ ref' = [t \in Thread |-> NoRef]
  /\ obj' = [r \in Ref |-> IF r = self THEN db ELSE Blank]
  /\ lock' = NoThread
  /\ rows' = Blank
  /\ UNCHANGED <<db, self, clock, acked, pruned>>

(* Only a reading carries a time of its own; requests about no device      *)
(* (prune, refresh) have an arbitrary one.                                 *)
NewRequests ==
  {q \in [kind : Kind, dev : Device, stamp : {clock + 1}, at : {0, clock + 1}] :
     /\ q.kind # "ingest" => q.at = 0
     /\ q.kind \in {"prune", "refresh"} => q.dev = CHOOSE d \in Device : TRUE}

Step(t) == \/ Mutate(t) \/ Capture(t) \/ SaveDevices(t) \/ SaveTelemetry(t)
           \/ IntegrityError(t) \/ Load(t) \/ Assign(t) \/ Answer(t) \/ Prune(t)

(* What a thread does if no statement fails. *)
Work(t) == (\E q \in NewRequests : Receive(t, q)) \/ Reject(t) \/ Step(t)

Next == (\E t \in Thread : Work(t) \/ Fault(t)) \/ Restart

Spec == Init /\ [][Next]_vars

(* A thread that can go on is scheduled.  Weak fairness is enough because  *)
(* finitely many requests are received; nothing makes a client send, a     *)
(* fault happen or a crash occur.                                          *)
FairSpec == Spec /\ \A t \in Thread : WF_vars(Step(t))

-----------------------------------------------------------------------------
(* Every variable has its type: rows, heap cells and requests are well     *)
(* formed.                                                                 *)
TypeOK ==
  /\ db \in State
  /\ obj \in [Ref -> State]
  /\ self \in Ref
  /\ pc \in [Thread -> Steps]
  /\ req \in [Thread -> Request \cup {NoRequest}]
  /\ ref \in [Thread -> Ref \cup {NoRef}]
  /\ lock \in Thread \cup {NoThread}
  /\ rows \in State
  /\ clock \in Stamp
  /\ acked \subseteq Request
  /\ pruned \subseteq Event

Idle == \A t \in Thread : pc[t] = "idle"

(* A successful answer means the request's effect is in the database: the  *)
(* device is registered, and the event is there unless it was pruned.      *)
AckedIsDurable ==
  \A q \in acked :
    /\ q.kind \in {"register", "heartbeat", "ingest"} => q.dev \in Known(db)
    /\ q.kind = "ingest" => EventOf(q) \in db.tel \cup pruned

(* last_seen in the database was written by the last answered request      *)
(* about the device or by a later one: no older value comes back.          *)
LastSeenIsLatest ==
  \A q \in acked :
    q.kind \in {"register", "heartbeat", "ingest"} => q.stamp <= db.seen[q.dev]

(* Whoever was told a device is registered is never told it is unknown:    *)
(* the lookup of _find_device in the cache succeeds for it.                *)
AckedIsKnown ==
  \A q \in acked : q.kind = "register" => q.dev \in Known(obj[self])

(* Between requests, what the cache answers to a reader is what the        *)
(* database holds.                                                         *)
CacheIsDatabase == Idle => obj[self] = db

(* Every request that is received is answered, with success or failure:    *)
(* no thread waits for the lock forever.                                   *)
RequestAnswered == \A t \in Thread : pc[t] # "idle" ~> pc[t] = "idle"
=============================================================================
