--------------------------- MODULE AtomicRegistry ---------------------------
(***************************************************************************)
(* What the device registry promises its clients: a store in which every   *)
(* request takes effect once, at one instant, on the newest contents, and  *)
(* is answered only afterwards.  Registry implements it when requests do   *)
(* not overlap and SQLite does not fail, whatever the crashes.             *)
(***************************************************************************)
EXTENDS Naturals, FiniteSets

CONSTANTS
  Device,     \* device identifiers
  Retain,     \* how many events of a device a prune keeps
  MaxClock    \* bound on the request stamps

VARIABLES
  devices,    \* registered devices
  seen,       \* the request that last touched each device
  events,     \* stored telemetry
  pruned,     \* telemetry deleted by a prune
  acked       \* requests answered with success

vars == <<devices, seen, events, pruned, acked>>

Stamp == 0 .. MaxClock
Event == [dev : Device, id : Stamp, at : Stamp]
Request == [kind : {"register", "heartbeat", "ingest", "prune", "refresh"},
            dev : Device, stamp : Stamp, at : Stamp]

Init ==
  /\ devices \in SUBSET Device
  /\ seen = [d \in Device |-> 0]
  /\ events = {}
  /\ pruned = {}
  /\ acked = {}

(* Requests take effect in the order in which they were received. *)
Newest(s) == \A d \in Device : seen[d] < s

Register(d, s) ==
  /\ Newest(s)
  /\ devices' = devices \cup {d}
  /\ seen' = [seen EXCEPT ![d] = s]
  /\ UNCHANGED <<events, pruned, acked>>

Heartbeat(d, s) ==
  /\ d \in devices
  /\ Newest(s)
  /\ seen' = [seen EXCEPT ![d] = s]
  /\ UNCHANGED <<devices, events, pruned, acked>>

Ingest(e) ==
  /\ e.dev \in devices
  /\ Newest(e.id)
  /\ events' = events \cup {e}
  /\ seen' = [seen EXCEPT ![e.dev] = e.id]
  /\ UNCHANGED <<devices, pruned, acked>>

(* Only a device with more than Retain events loses any, and it keeps that *)
(* many, none older than one it loses.                                     *)
Prune ==
  /\ \E lost \in SUBSET events :
       /\ \A e \in lost :
            LET kept == {f \in events \ lost : f.dev = e.dev}
            IN  Cardinality(kept) = Retain /\ \A f \in kept : e.at <= f.at
       /\ events' = events \ lost
       /\ pruned' = pruned \cup lost
  /\ \A d \in Device : Cardinality({e \in events' : e.dev = d}) <= Retain
  /\ UNCHANGED <<devices, seen, acked>>

(* An answer: the effect is in the store. *)
TookEffect(q) ==
  CASE q.kind = "ingest"    -> /\ q.dev \in devices
                               /\ [dev |-> q.dev, id |-> q.stamp, at |-> q.at]
                                    \in events \cup pruned
                               /\ seen[q.dev] = q.stamp
    [] q.kind \in {"register", "heartbeat"}
                            -> q.dev \in devices /\ seen[q.dev] = q.stamp
    [] q.kind = "prune"     -> \A d \in Device :
                                 Cardinality({e \in events : e.dev = d}) <= Retain
    [] OTHER                -> TRUE

Acknowledge(q) ==
  /\ TookEffect(q)
  /\ acked' = acked \cup {q}
  /\ UNCHANGED <<devices, seen, events, pruned>>

Next ==
  \/ \E d \in Device, s \in Stamp : Register(d, s) \/ Heartbeat(d, s)
  \/ \E e \in Event : Ingest(e)
  \/ Prune
  \/ \E q \in Request : Acknowledge(q)

Spec == Init /\ [][Next]_vars
=============================================================================
