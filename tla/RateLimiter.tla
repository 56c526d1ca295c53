---------------------------- MODULE RateLimiter ----------------------------
(***************************************************************************)
(* RateLimitMiddleware of iotron/security.py: per client a deque of the    *)
(* times at which requests were admitted.  dispatch runs on the event loop *)
(* and does not await before it has decided, so a decision is one step.    *)
(* The time is that of time.time(), which is taken to be monotonic.        *)
(***************************************************************************)
EXTENDS Naturals, Sequences

CONSTANTS
  Client,        \* client hosts
  Limit,         \* requests_per_minute
  Period,        \* length of the window: 60 seconds
  MaxTime,       \* bound on the time
  MaxRefusals    \* bound on the refusals of a client that are counted

ASSUME ConstantsAssumption ==
  /\ Limit \in Nat /\ Period \in Nat
  /\ MaxTime \in Nat /\ MaxRefusals \in Nat

VARIABLES
  now,       \* the time
  hits,      \* _hits: the deque of each client
  log,       \* history: every admission of each client, in order
  refusals   \* history: how many requests of each client were refused

vars == <<now, hits, log, refusals>>

Init ==
  /\ now = 0
  /\ hits = [c \in Client |-> <<>>]   \* a defaultdict
  /\ log = [c \in Client |-> <<>>]
  /\ refusals = [c \in Client |-> 0]

Tick ==
  /\ now' \in now + 1 .. MaxTime
  /\ UNCHANGED <<hits, log, refusals>>

ExpiredEarly(h, t) == h + Period <= t   \* mutant: >= 60
Expired(h, t) == h + Period < t   \* now - window[0] > 60

(* The popleft loop drops k entries: it stops at an empty deque or at the  *)
(* first entry that has not expired.                                       *)
Drops(w, t, k) ==
  /\ \A i \in 1 .. k : Expired(w[i], t)
  /\ k < Len(w) => ~Expired(w[k + 1], t)

Rest(w, k) == SubSeq(w, k + 1, Len(w))

HasRoomForOneMore(w) == Len(w) <= Limit   \* mutant: > instead of >=

HasRoom(w) == Len(w) < Limit

(* dispatch lets the request through... *)
Admit(c) ==
  \E k \in 0 .. Len(hits[c]) :
    LET w == Rest(hits[c], k) IN
    /\ Drops(hits[c], now, k)
    /\ HasRoom(w)
    /\ hits' = [hits EXCEPT ![c] = Append(w, now)]
    /\ log' = [log EXCEPT ![c] = Append(@, now)]
    /\ UNCHANGED <<now, refusals>>

(* ...or answers 429; a refused request is not entered in the deque. *)
Refuse(c) ==
  \E k \in 0 .. Len(hits[c]) :
    LET w == Rest(hits[c], k) IN
    /\ Drops(hits[c], now, k)
    /\ ~HasRoom(w)
    /\ refusals[c] < MaxRefusals
    /\ hits' = [hits EXCEPT ![c] = w]
    /\ refusals' = [refusals EXCEPT ![c] = @ + 1]
    /\ UNCHANGED <<now, log>>

Next == Tick \/ \E c \in Client : Admit(c) \/ Refuse(c)

Spec == Init /\ [][Next]_vars

-----------------------------------------------------------------------------
(* Every variable has its type. *)
TypeOK ==
  /\ now \in Nat
  /\ hits \in [Client -> Seq(Nat)]
  /\ log \in [Client -> Seq(Nat)]
  /\ refusals \in [Client -> Nat]

(* No interval of length Period, wherever it starts, holds more than Limit *)
(* admissions of a client: an admission is later by more than Period than  *)
(* the one Limit places before it.                                         *)
WindowLimit ==
  \A c \in Client : \A i \in 1 .. Len(log[c]) :
    i > Limit => log[c][i - Limit] + Period < log[c][i]

(* The deque, which forgets, decides every request as the complete log     *)
(* would: it neither admits too much nor refuses a client that has room.   *)
Window == INSTANCE SlidingWindow
ImplementsSlidingWindow == Window!Spec
=============================================================================
