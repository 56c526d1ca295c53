--------------------------- MODULE SlidingWindow ---------------------------
(***************************************************************************)
(* What rate limiting promises a client: a request is admitted exactly     *)
(* when fewer than Limit requests were admitted in the last Period, judged *)
(* from the complete log of admissions.                                    *)
(***************************************************************************)
EXTENDS Naturals, Sequences, FiniteSets

CONSTANTS Client, Limit, Period

VARIABLES
  now,       \* the time
  log,       \* every admission of each client, in order
  refusals   \* how many requests of each client were refused

vars == <<now, log, refusals>>

Recent(c) == {i \in 1 .. Len(log[c]) : now <= log[c][i] + Period}

Init ==
  /\ now \in Nat
  /\ log = [c \in Client |-> <<>>]
  /\ refusals = [c \in Client |-> 0]

Tick == now' \in Nat /\ now' > now /\ UNCHANGED <<log, refusals>>

Admit(c) ==
  /\ Cardinality(Recent(c)) < Limit
  /\ log' = [log EXCEPT ![c] = Append(@, now)]
  /\ UNCHANGED <<now, refusals>>

Refuse(c) ==
  /\ Cardinality(Recent(c)) >= Limit
  /\ refusals' = [refusals EXCEPT ![c] = @ + 1]
  /\ UNCHANGED <<now, log>>

Next == Tick \/ \E c \in Client : Admit(c) \/ Refuse(c)

Spec == Init /\ [][Next]_vars
=============================================================================
