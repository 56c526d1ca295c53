------------------------- MODULE RateLimiterProofs -------------------------
(***************************************************************************)
(* Theorems about RateLimiter, for every set of clients, limit and window. *)
(***************************************************************************)
EXTENDS RateLimiter, FiniteSetTheorems, TLAPS

(* A deque is the end of the client's log: what was forgotten has expired, *)
(* and what is left never exceeds the limit.                               *)
Forgotten(c) == Len(log[c]) - Len(hits[c])

Suffix(c) ==
  /\ Len(hits[c]) <= Len(log[c])
  /\ \A i \in 1 .. Len(hits[c]) : hits[c][i] = log[c][Forgotten(c) + i]
  /\ \A i \in 1 .. Forgotten(c) : log[c][i] + Period < now

(* The log is in order of time and not ahead of it. *)
Ordered(c) ==
  /\ \A i \in 1 .. Len(log[c]) : log[c][i] <= now
  /\ \A i, j \in 1 .. Len(log[c]) : i <= j => log[c][i] <= log[c][j]

Spaced(c) ==
  \A i \in 1 .. Len(log[c]) : i > Limit => log[c][i - Limit] + Period < log[c][i]

IInv == TypeOK /\ \A c \in Client : Suffix(c) /\ Ordered(c) /\ Spaced(c)

-----------------------------------------------------------------------------
(* What is left of a deque after k entries are dropped. *)
LEMMA RestFacts ==
  ASSUME NEW w \in Seq(Nat), NEW k \in 0 .. Len(w)
  PROVE  /\ Rest(w, k) \in Seq(Nat)
         /\ Len(Rest(w, k)) = Len(w) - k
         /\ \A i \in 1 .. Len(w) - k : Rest(w, k)[i] = w[k + i]
  BY DEF Rest

(* Dropping expired entries leaves an end of the log, and everything that  *)
(* is not in it has expired.                                               *)
LEMMA RestIsSuffix ==
  ASSUME ConstantsAssumption, TypeOK, NEW c \in Client, Suffix(c),
         NEW k \in 0 .. Len(hits[c]), Drops(hits[c], now, k)
  PROVE  LET w == Rest(hits[c], k)
             a == log[c]
         IN  /\ w \in Seq(Nat) /\ a \in Seq(Nat)
             /\ Len(w) <= Len(a)
             /\ \A i \in 1 .. Len(w) : w[i] = a[Len(a) - Len(w) + i]
             /\ \A i \in 1 .. Len(a) - Len(w) : a[i] + Period < now
<1> DEFINE h == hits[c]
           a == log[c]
           w == Rest(h, k)
<1>1. h \in Seq(Nat) /\ a \in Seq(Nat) /\ now \in Nat
  BY DEF TypeOK
<1>2. /\ w \in Seq(Nat)
      /\ Len(w) = Len(h) - k
      /\ \A i \in 1 .. Len(h) - k : w[i] = h[k + i]
  BY <1>1, RestFacts
<1>3. /\ Len(h) \in Nat /\ Len(a) \in Nat /\ Len(w) \in Nat
      /\ k \in Nat /\ k <= Len(h) /\ Len(h) <= Len(a)
  BY <1>1, <1>2 DEF Suffix
<1>4. \A i \in 1 .. Len(h) : h[i] = a[Len(a) - Len(h) + i]
  BY DEF Suffix, Forgotten
<1>5. Len(w) <= Len(a)
  BY <1>2, <1>3
<1> HIDE DEF h, a, w
<1>6. ASSUME NEW i \in 1 .. Len(w)
      PROVE  w[i] = a[Len(a) - Len(w) + i]
  <2>1. w[i] = h[k + i] /\ k + i \in 1 .. Len(h)
    BY <1>2, <1>3
  <2>2. h[k + i] = a[Len(a) - Len(h) + (k + i)]
    BY <2>1, <1>4
  <2>3. Len(a) - Len(h) + (k + i) = Len(a) - Len(w) + i
    BY <1>2, <1>3
  <2>4. QED
    BY <2>1, <2>2, <2>3
<1>7. ASSUME NEW i \in 1 .. Len(a) - Len(w)
      PROVE  a[i] + Period < now
  <2>1. CASE i <= Len(a) - Len(h)
    BY <2>1, <1>3 DEF Suffix, Forgotten, a, h
  <2>2. CASE i > Len(a) - Len(h)
    <3> DEFINE j == i - (Len(a) - Len(h))
    <3>1. j \in 1 .. k
      BY <2>2, <1>2, <1>3
    <3>2. h[j] + Period < now
      BY <3>1 DEF Drops, Expired, h
    <3>3. h[j] = a[Len(a) - Len(h) + j]
      BY <3>1, <1>3, <1>4
    <3>4. Len(a) - Len(h) + j = i
      BY <1>3
    <3>5. QED
      BY <3>2, <3>3, <3>4
  <2>3. QED
    BY <2>1, <2>2, <1>3
<1>8. QED
  BY <1>1, <1>2, <1>5, <1>6, <1>7 DEF h, a, w

(* The instance counts as this module does. *)
LEMMA SameCardinality ==
  ASSUME NEW S
  PROVE  Window!Cardinality(S) = Cardinality(S)
  BY DEF Cardinality, Window!Cardinality

(* The entries left are exactly the recent admissions of the log, so their *)
(* number is what the complete log would count.                            *)
LEMMA RestIsRecent ==
  ASSUME ConstantsAssumption, TypeOK, NEW c \in Client, Suffix(c), Ordered(c),
         NEW k \in 0 .. Len(hits[c]), Drops(hits[c], now, k)
  PROVE  Cardinality(Window!Recent(c)) = Len(Rest(hits[c], k))
<1> DEFINE h == hits[c]
           a == log[c]
           w == Rest(h, k)
           first == Len(a) - Len(w) + 1
<1>1. /\ w \in Seq(Nat) /\ a \in Seq(Nat)
      /\ Len(w) <= Len(a)
      /\ \A i \in 1 .. Len(w) : w[i] = a[Len(a) - Len(w) + i]
      /\ \A i \in 1 .. Len(a) - Len(w) : a[i] + Period < now
  BY RestIsSuffix
<1>2. /\ Len(w) \in Nat /\ Len(a) \in Nat /\ now \in Nat /\ Period \in Nat
      /\ \A i \in 1 .. Len(a) : a[i] \in Nat
  BY <1>1, ConstantsAssumption DEF TypeOK
<1>3. /\ h \in Seq(Nat) /\ k \in 0 .. Len(h)
      /\ Len(w) = Len(h) - k
      /\ \A i \in 1 .. Len(h) - k : w[i] = h[k + i]
      /\ k < Len(h) => ~(h[k + 1] + Period < now)
  BY RestFacts DEF TypeOK, Drops, Expired
<1>4. \A i, j \in 1 .. Len(a) : i <= j => a[i] <= a[j]
  BY DEF Ordered
<1>5. Window!Recent(c) = {i \in 1 .. Len(a) : now <= a[i] + Period}
  BY DEF Window!Recent
<1> HIDE DEF h, a, w
<1>0. ASSUME Len(w) > 0
      PROVE  now <= a[first] + Period
  <2>1. k \in Nat /\ Len(h) \in Nat /\ k < Len(h)
    BY <1>0, <1>3
  <2>2. w[1] = h[k + 1] /\ h[k + 1] \in Nat
    <3>1. 1 \in 1 .. Len(h) - k /\ k + 1 \in 1 .. Len(h)
      BY <2>1
    <3>2. QED
      BY <1>3, <3>1
  <2>3. w[1] = a[first]
    BY <1>1, <1>2, <1>0
  <2>4. now <= h[k + 1] + Period
    BY <1>2, <1>3, <2>1, <2>2
  <2>5. QED
    BY <2>2, <2>3, <2>4
<1>6. ASSUME NEW i \in first .. Len(a)
      PROVE  i \in 1 .. Len(a) /\ now <= a[i] + Period
  <2>1. i \in 1 .. Len(a) /\ first \in 1 .. Len(a) /\ Len(w) > 0
    BY <1>1, <1>2
  <2>2. a[first] <= a[i]
    BY <2>1, <1>4
  <2>3. a[first] \in Nat /\ a[i] \in Nat
    BY <2>1, <1>2
  <2>4. QED
    BY <1>2, <1>0, <2>1, <2>2, <2>3
<1>7. ASSUME NEW i \in 1 .. Len(a), now <= a[i] + Period
      PROVE  i \in first .. Len(a)
  <2>1. ~(a[i] + Period < now) /\ a[i] \in Nat
    BY <1>2, <1>7
  <2>2. ~(i \in 1 .. Len(a) - Len(w))
    BY <1>1, <2>1
  <2>3. QED
    BY <1>1, <1>2, <2>2
<1>8. Window!Recent(c) = first .. Len(a)
  BY <1>5, <1>6, <1>7
<1>9. Cardinality(first .. Len(a)) = Len(w)
  <2>1. first \in Int /\ Len(a) \in Int
    BY <1>2
  <2>2. Cardinality(first .. Len(a)) =
          IF first > Len(a) THEN 0 ELSE Len(a) - first + 1
    BY <2>1, FS_Interval
  <2>3. Len(w) = IF first > Len(a) THEN 0 ELSE Len(a) - first + 1
    BY <1>1, <1>2
  <2>4. QED
    BY <2>2, <2>3
<1>10. QED
  BY <1>8, <1>9 DEF w, h

-----------------------------------------------------------------------------
(* An admission extends the deque and the log by the same entry, which is  *)
(* later by more than Period than the one Limit places before it.          *)
LEMMA AdmitPreserves ==
  ASSUME ConstantsAssumption, IInv, NEW c \in Client, Admit(c)
  PROVE  IInv'
<1> USE DEF IInv
<1>1. PICK k \in 0 .. Len(hits[c]) :
        /\ Drops(hits[c], now, k)
        /\ HasRoom(Rest(hits[c], k))
        /\ hits' = [hits EXCEPT ![c] = Append(Rest(hits[c], k), now)]
        /\ log' = [log EXCEPT ![c] = Append(log[c], now)]
        /\ UNCHANGED <<now, refusals>>
  BY DEF Admit
<1> DEFINE a == log[c]
           w == Rest(hits[c], k)
           a1 == Append(a, now)
           w1 == Append(w, now)
<1>2. /\ w \in Seq(Nat) /\ a \in Seq(Nat)
      /\ Len(w) <= Len(a)
      /\ \A i \in 1 .. Len(w) : w[i] = a[Len(a) - Len(w) + i]
      /\ \A i \in 1 .. Len(a) - Len(w) : a[i] + Period < now
  BY <1>1, RestIsSuffix
<1>3. /\ Len(w) \in Nat /\ Len(a) \in Nat /\ now \in Nat
      /\ Limit \in Nat /\ Period \in Nat
      /\ Len(w) < Limit
  BY <1>1, <1>2, ConstantsAssumption DEF TypeOK, HasRoom
<1>4. /\ hits'[c] = w1 /\ log'[c] = a1 /\ now' = now
      /\ \A d \in Client \ {c} : hits'[d] = hits[d] /\ log'[d] = log[d]
  BY <1>1 DEF TypeOK
<1>5. TypeOK'
  BY <1>1, <1>2, <1>3 DEF TypeOK
<1>6. Ordered(c) /\ Spaced(c)
  OBVIOUS
<1>7. /\ \A i \in 1 .. Len(a) : a[i] <= now /\ a[i] \in Nat
      /\ \A i, j \in 1 .. Len(a) : i <= j => a[i] <= a[j]
      /\ \A i \in 1 .. Len(a) : i > Limit => a[i - Limit] + Period < a[i]
  BY <1>2, <1>6 DEF Ordered, Spaced
<1> HIDE DEF a, w
<1>8. /\ Len(w1) = Len(w) + 1 /\ Len(a1) = Len(a) + 1
      /\ \A i \in 1 .. Len(w) : w1[i] = w[i]
      /\ \A i \in 1 .. Len(a) : a1[i] = a[i]
      /\ w1[Len(w) + 1] = now /\ a1[Len(a) + 1] = now
  BY <1>2, <1>3 DEF w1, a1
<1> HIDE DEF w1, a1
<1>9. Suffix(c)'
  <2>1. ASSUME NEW i \in 1 .. Len(w) + 1
        PROVE  w1[i] = a1[Len(a) - Len(w) + i]
    <3>1. CASE i \in 1 .. Len(w)
      <4>1. Len(a) - Len(w) + i \in 1 .. Len(a)
        BY <1>2, <1>3, <3>1
      <4>2. w1[i] = w[i]
        BY <1>8, <3>1
      <4>3. w[i] = a[Len(a) - Len(w) + i]
        BY <1>2, <3>1
      <4>4. a1[Len(a) - Len(w) + i] = a[Len(a) - Len(w) + i]
        BY <1>8, <4>1
      <4>5. QED
        BY <4>2, <4>3, <4>4
    <3>2. CASE i = Len(w) + 1
      BY <1>3, <1>8, <3>2
    <3>3. QED
      BY <1>3, <3>1, <3>2
  <2>2. ASSUME NEW i \in 1 .. Len(a) - Len(w)
        PROVE  a1[i] + Period < now
    <3>1. i \in 1 .. Len(a)
      BY <1>3
    <3>2. QED
      BY <1>2, <1>8, <3>1
  <2>3. (Len(a) + 1) - (Len(w) + 1) = Len(a) - Len(w)
    BY <1>3
  <2>4. Len(w) + 1 <= Len(a) + 1
    BY <1>2, <1>3
  <2>5. Len(hits'[c]) = Len(w) + 1 /\ Len(log'[c]) = Len(a) + 1
    BY <1>4, <1>8
  <2>6. Forgotten(c)' = Len(a) - Len(w)
    BY <2>3, <2>5 DEF Forgotten
  <2>7. QED
    BY <1>4, <2>1, <2>2, <2>4, <2>5, <2>6 DEF Suffix
<1>10. Ordered(c)'
  <2>1. ASSUME NEW i \in 1 .. Len(a) + 1
        PROVE  a1[i] <= now
    <3>1. CASE i \in 1 .. Len(a)
      <4>1. a1[i] = a[i]
        BY <1>8, <3>1
      <4>2. a[i] <= now
        BY <1>7, <3>1
      <4>3. QED
        BY <4>1, <4>2
    <3>2. CASE i = Len(a) + 1
      <4>1. a1[i] = now
        BY <1>8, <3>2
      <4>2. QED
        BY <1>3, <4>1
    <3>3. QED
      BY <1>3, <3>1, <3>2
  <2>2. ASSUME NEW i \in 1 .. Len(a) + 1, NEW j \in 1 .. Len(a) + 1, i <= j
        PROVE  a1[i] <= a1[j]
    <3>1. CASE j \in 1 .. Len(a)
      <4>1. i \in 1 .. Len(a)
        BY <1>3, <2>2, <3>1
      <4>2. QED
        BY <1>7, <1>8, <2>2, <3>1, <4>1
    <3>2. CASE j = Len(a) + 1
      BY <1>8, <2>1, <3>2
    <3>3. QED
      BY <1>3, <3>1, <3>2
  <2>3. QED
    BY <1>4, <1>8, <2>1, <2>2 DEF Ordered
<1>11. Spaced(c)'
  <2>1. ASSUME NEW i \in 1 .. Len(a) + 1, i > Limit
        PROVE  a1[i - Limit] + Period < a1[i]
    <3>1. CASE i \in 1 .. Len(a)
      <4>1. i - Limit \in 1 .. Len(a)
        BY <1>3, <2>1, <3>1
      <4>2. QED
        BY <1>7, <1>8, <2>1, <3>1, <4>1
    <3>2. CASE i = Len(a) + 1
      <4>1. i - Limit \in 1 .. Len(a) - Len(w) /\ i - Limit \in 1 .. Len(a)
        BY <1>3, <2>1, <3>2
      <4>2. a1[i - Limit] = a[i - Limit] /\ a[i - Limit] + Period < now
        BY <1>2, <1>8, <4>1
      <4>3. a1[i] = now
        BY <1>8, <3>2
      <4>4. QED
        BY <4>2, <4>3
    <3>3. QED
      BY <1>3, <3>1, <3>2
  <2>2. QED
    BY <1>4, <1>8, <2>1 DEF Spaced
<1>12. ASSUME NEW d \in Client \ {c}
       PROVE  Suffix(d)' /\ Ordered(d)' /\ Spaced(d)'
  BY <1>4 DEF Suffix, Forgotten, Ordered, Spaced
<1>13. QED
  BY <1>5, <1>9, <1>10, <1>11, <1>12

(* A refusal only drops expired entries. *)
LEMMA RefusePreserves ==
  ASSUME ConstantsAssumption, IInv, NEW c \in Client, Refuse(c)
  PROVE  IInv'
<1> USE DEF IInv
<1>1. PICK k \in 0 .. Len(hits[c]) :
        /\ Drops(hits[c], now, k)
        /\ hits' = [hits EXCEPT ![c] = Rest(hits[c], k)]
        /\ refusals' = [refusals EXCEPT ![c] = @ + 1]
        /\ UNCHANGED <<now, log>>
  BY DEF Refuse
<1> DEFINE w == Rest(hits[c], k)
<1>2. /\ w \in Seq(Nat)
      /\ Len(w) <= Len(log[c])
      /\ \A i \in 1 .. Len(w) : w[i] = log[c][Len(log[c]) - Len(w) + i]
      /\ \A i \in 1 .. Len(log[c]) - Len(w) : log[c][i] + Period < now
  BY <1>1, RestIsSuffix
<1>3. /\ hits'[c] = w
      /\ \A d \in Client \ {c} : hits'[d] = hits[d]
  BY <1>1 DEF TypeOK
<1>4. TypeOK'
  BY <1>1, <1>2 DEF TypeOK
<1>5. Suffix(c)'
  BY <1>1, <1>2, <1>3 DEF Suffix, Forgotten
<1>6. ASSUME NEW d \in Client \ {c}
      PROVE  Suffix(d)'
  <2>1. hits'[d] = hits[d] /\ log' = log /\ now' = now
    BY <1>1, <1>3
  <2>2. Forgotten(d)' = Forgotten(d)
    BY <2>1 DEF Forgotten
  <2>3. QED
    BY <2>1, <2>2 DEF Suffix
<1>7. ASSUME NEW d \in Client
      PROVE  Ordered(d)' /\ Spaced(d)'
  BY <1>1 DEF Ordered, Spaced
<1>8. QED
  BY <1>4, <1>5, <1>6, <1>7

(* As time passes, what has expired stays expired. *)
LEMMA TickPreserves ==
  ASSUME ConstantsAssumption, IInv, Tick
  PROVE  IInv'
<1> USE DEF IInv
<1>1. now' \in Nat /\ now < now' /\ UNCHANGED <<hits, log, refusals>>
  BY ConstantsAssumption DEF Tick, TypeOK
<1>2. now \in Nat /\ Period \in Nat
  BY ConstantsAssumption DEF TypeOK
<1>3. TypeOK'
  BY <1>1 DEF TypeOK
<1>4. ASSUME NEW c \in Client
      PROVE  Suffix(c)' /\ Ordered(c)' /\ Spaced(c)'
  <2>1. log[c] \in Seq(Nat) /\ hits[c] \in Seq(Nat)
    BY DEF TypeOK
  <2>2. \A i \in 1 .. Len(log[c]) : log[c][i] \in Nat
    BY <2>1
  <2>3. ASSUME NEW i \in 1 .. Forgotten(c)
        PROVE  log[c][i] + Period < now'
    <3>1. i \in 1 .. Len(log[c])
      BY <2>1 DEF Suffix, Forgotten
    <3>2. log[c][i] + Period < now
      BY DEF Suffix
    <3>3. QED
      BY <1>1, <1>2, <2>2, <3>1, <3>2
  <2>4. Suffix(c)'
    BY <1>1, <2>3 DEF Suffix, Forgotten
  <2>5. Ordered(c)'
    BY <1>1, <1>2, <2>2 DEF Ordered
  <2>6. Spaced(c)'
    BY <1>1 DEF Spaced
  <2>7. QED
    BY <2>4, <2>5, <2>6
<1>5. QED
  BY <1>3, <1>4

LEMMA InitIInv == Init => IInv
<1> SUFFICES ASSUME Init PROVE IInv
  OBVIOUS
<1>1. TypeOK
  BY DEF Init, TypeOK
<1>2. ASSUME NEW c \in Client
      PROVE  Suffix(c) /\ Ordered(c) /\ Spaced(c)
  <2>1. hits[c] = <<>> /\ log[c] = <<>>
    BY DEF Init
  <2>2. QED
    BY <2>1 DEF Suffix, Forgotten, Ordered, Spaced
<1>3. QED
  BY <1>1, <1>2 DEF IInv

LEMMA NextIInv == IInv /\ [Next]_vars => IInv'
<1> SUFFICES ASSUME IInv, [Next]_vars PROVE IInv'
  OBVIOUS
<1>1. CASE Tick
  BY <1>1, TickPreserves, ConstantsAssumption
<1>2. ASSUME NEW c \in Client, Admit(c)
      PROVE  IInv'
  BY <1>2, AdmitPreserves, ConstantsAssumption
<1>3. ASSUME NEW c \in Client, Refuse(c)
      PROVE  IInv'
  BY <1>3, RefusePreserves, ConstantsAssumption
<1>4. CASE UNCHANGED vars
  BY <1>4 DEF vars, IInv, TypeOK, Suffix, Forgotten, Ordered, Spaced
<1>5. QED
  BY <1>1, <1>2, <1>3, <1>4 DEF Next

LEMMA SpecIInv == Spec => []IInv
<1>1. QED
  BY InitIInv, NextIInv, PTL DEF Spec

-----------------------------------------------------------------------------
(* The deques and the log are sequences of times; refusals are counted.    *)
THEOREM TypeCorrect == Spec => []TypeOK
<1>1. IInv => TypeOK
  BY DEF IInv
<1>2. QED
  BY <1>1, SpecIInv, PTL

(* No interval of length Period holds more than Limit admissions of a      *)
(* client, for every number of clients, limit and length of the window.    *)
THEOREM LimitHolds == Spec => []WindowLimit
<1>1. IInv => WindowLimit
  BY DEF IInv, Spaced, WindowLimit
<1>2. QED
  BY <1>1, SpecIInv, PTL

(* A decision from the deque is the decision from the complete log. *)
LEMMA StepRefines ==
  ASSUME ConstantsAssumption, IInv, [Next]_vars
  PROVE  [Window!Next]_(Window!vars)
<1> USE DEF IInv
<1>1. CASE Tick
  <2>1. now' \in Nat /\ now' > now /\ UNCHANGED <<log, refusals>>
    BY <1>1, ConstantsAssumption DEF Tick, TypeOK
  <2>2. QED
    BY <2>1 DEF Window!Next, Window!Tick
<1>2. ASSUME NEW c \in Client, Admit(c)
      PROVE  Window!Admit(c)
  <2>1. PICK k \in 0 .. Len(hits[c]) :
          /\ Drops(hits[c], now, k)
          /\ Len(Rest(hits[c], k)) < Limit
          /\ log' = [log EXCEPT ![c] = Append(@, now)]
          /\ UNCHANGED <<now, refusals>>
    BY <1>2 DEF Admit, HasRoom
  <2>2. Cardinality(Window!Recent(c)) = Len(Rest(hits[c], k))
    BY <2>1, RestIsRecent
  <2>3. Window!Cardinality(Window!Recent(c)) < Limit
    BY <2>1, <2>2, SameCardinality
  <2>4. QED
    BY <2>1, <2>3 DEF Window!Admit
<1>3. ASSUME NEW c \in Client, Refuse(c)
      PROVE  Window!Refuse(c)
  <2>1. PICK k \in 0 .. Len(hits[c]) :
          /\ Drops(hits[c], now, k)
          /\ ~(Len(Rest(hits[c], k)) < Limit)
          /\ refusals' = [refusals EXCEPT ![c] = @ + 1]
          /\ UNCHANGED <<now, log>>
    BY <1>3 DEF Refuse, HasRoom
  <2>2. Cardinality(Window!Recent(c)) = Len(Rest(hits[c], k))
    BY <2>1, RestIsRecent
  <2>3. Len(Rest(hits[c], k)) \in Nat /\ Limit \in Nat
    BY RestFacts, ConstantsAssumption DEF TypeOK
  <2>4. Window!Cardinality(Window!Recent(c)) >= Limit
    BY <2>1, <2>2, <2>3, SameCardinality
  <2>5. QED
    BY <2>1, <2>4 DEF Window!Refuse
<1>4. CASE UNCHANGED vars
  BY <1>4 DEF vars, Window!vars
<1>5. QED
  BY <1>1, <1>2, <1>3, <1>4 DEF Next, Window!Next

(* The middleware implements the limiter that keeps the complete log. *)
THEOREM RefinesSlidingWindow == Spec => ImplementsSlidingWindow
<1>1. Init => Window!Init
  BY DEF Init, Window!Init
<1>2. IInv /\ [Next]_vars => [Window!Next]_(Window!vars)
  BY StepRefines, ConstantsAssumption
<1>3. QED
  BY <1>1, <1>2, SpecIInv, PTL DEF Spec, ImplementsSlidingWindow, Window!Spec
=============================================================================
