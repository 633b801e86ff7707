----------------------------- MODULE ListsProofs -----------------------------
(***************************************************************************)
(* Facts about lists, rings and counters that wrap, for the proofs of the   *)
(* components that keep one.                                                *)
(***************************************************************************)
EXTENDS Lists, SequenceTheorems, WellFoundedInduction, TLAPS

\* The first place of a set of places that is not empty is one of them.
LEMMA FirstIsFirst ==
    ASSUME NEW S, S \subseteq Nat, S # {}
    PROVE  First(S) \in S /\ \A y \in S : First(S) <= y
<1> DEFINE R == OpToRel(<, Nat)
<1>1. IsWellFoundedOn(R, Nat)
  BY NatLessThanWellFounded, Zenon
<1>2. \A x, y \in Nat : y < x => <<y, x>> \in R
  BY Zenon DEF OpToRel
<1> HIDE DEF R
<1>3. PICK x \in S : \A y \in S : ~ (<<y, x>> \in R)
  BY <1>1, WFMin, Zenon
<1>4. \A y \in S : ~(y < x)
  BY <1>2, <1>3, Zenon
<1>5. \A y \in S : x <= y
  BY <1>4
<1> QED
  BY <1>3, <1>5, Zenon DEF First

\* What is left of a list without one of its elements: each of the others, once.
LEMMA RemovedAt ==
    ASSUME NEW S, NEW s \in Seq(S), NEW m \in 1..Len(s)
    PROVE  /\ Without(s, m) \in Seq(S) /\ Len(Without(s, m)) = Len(s) - 1
           /\ \A i \in 1..(Len(s) - 1) :
                Without(s, m)[i] = IF i < m THEN s[i] ELSE s[i + 1]
<1> DEFINE a == SubSeq(s, 1, m - 1)
           b == SubSeq(s, m + 1, Len(s))
<1>1. /\ a \in Seq(S) /\ Len(a) = m - 1 /\ \A i \in 1..(m - 1) : a[i] = s[i]
  BY SubSeqProperties
<1>2. /\ b \in Seq(S) /\ Len(b) = Len(s) - m /\ \A i \in 1..(Len(s) - m) : b[i] = s[m + i]
  OBVIOUS
<1>3. Without(s, m) = a \o b
  BY Zenon DEF Without
<1> HIDE DEF a, b
<1>4. /\ a \o b \in Seq(S) /\ Len(a \o b) = Len(a) + Len(b)
      /\ \A i \in 1..(Len(a) + Len(b)) :
           (a \o b)[i] = IF i <= Len(a) THEN a[i] ELSE b[i - Len(a)]
  BY <1>1, <1>2, ConcatProperties, Zenon
<1>5. ASSUME NEW i \in 1..(Len(s) - 1)
      PROVE  (a \o b)[i] = IF i < m THEN s[i] ELSE s[i + 1]
  <2>1. CASE i < m
    BY <1>1, <1>2, <1>4, <2>1
  <2>2. CASE ~(i < m)
    <3>1. i - (m - 1) \in 1..(Len(s) - m) /\ m + (i - (m - 1)) = i + 1
      BY <2>2
    <3>2. (a \o b)[i] = b[i - (m - 1)]
      BY <1>1, <1>2, <1>4, <2>2, SMTT(30)
    <3> QED
      BY <1>2, <2>2, <3>1, <3>2, Zenon
  <2> QED
    BY <2>1, <2>2, Zenon
<1> QED
  BY <1>1, <1>2, <1>3, <1>4, <1>5, SMTT(30)

\* The list r is s with e at place m, the others in their order around it.
HasAt(r, s, m, e, S) ==
    /\ r \in Seq(S) /\ Len(r) = Len(s) + 1
    /\ \A i \in 1..(Len(s) + 1) : r[i] = IF i < m THEN s[i] ELSE IF i = m THEN e ELSE s[i - 1]

\* A list with a new element: the others keep their order around it.
LEMMA InsertedAt ==
    ASSUME NEW S, NEW s \in Seq(S), NEW e \in S, NEW m \in 1..(Len(s) + 1)
    PROVE  HasAt(Inserted(s, m, e), s, m, e, S)
<1> DEFINE a == SubSeq(s, 1, m - 1)
           b == SubSeq(s, m, Len(s))
           c == <<e>>
<1>1. /\ a \in Seq(S) /\ Len(a) = m - 1 /\ \A i \in 1..(m - 1) : a[i] = s[i]
  BY SubSeqProperties
<1>2. /\ b \in Seq(S) /\ Len(b) = Len(s) - (m - 1)
      /\ \A i \in 1..(Len(s) - (m - 1)) : b[i] = s[(m - 1) + i]
  OBVIOUS
<1>3. c \in Seq(S) /\ Len(c) = 1 /\ c[1] = e
  OBVIOUS
<1>4. Inserted(s, m, e) = (a \o c) \o b
  BY Zenon DEF Inserted
<1> HIDE DEF a, b, c
<1>5. /\ a \o c \in Seq(S) /\ Len(a \o c) = m
      /\ \A i \in 1..m : (a \o c)[i] = IF i < m THEN s[i] ELSE e
  <2>1. /\ a \o c \in Seq(S) /\ Len(a \o c) = Len(a) + Len(c)
        /\ \A i \in 1..(Len(a) + Len(c)) : (a \o c)[i] = IF i <= Len(a) THEN a[i] ELSE c[i - Len(a)]
    BY <1>1, <1>3, ConcatProperties, Zenon
  <2> QED
    BY <1>1, <1>3, <2>1, SMTT(30)
<1> DEFINE d == a \o c
<1>6. d \in Seq(S) /\ Len(d) = m /\ \A i \in 1..m : d[i] = IF i < m THEN s[i] ELSE e
  BY <1>5, Zenon
<1> HIDE DEF d
<1>7. /\ d \o b \in Seq(S) /\ Len(d \o b) = Len(d) + Len(b)
      /\ \A i \in 1..(Len(d) + Len(b)) : (d \o b)[i] = IF i <= Len(d) THEN d[i] ELSE b[i - Len(d)]
  BY <1>2, <1>6, ConcatProperties, Zenon
<1>8. ASSUME NEW i \in 1..(Len(s) + 1)
      PROVE  (d \o b)[i] = IF i < m THEN s[i] ELSE IF i = m THEN e ELSE s[i - 1]
  <2>1. CASE i <= m
    BY <1>2, <1>6, <1>7, <2>1, SMTT(30)
  <2>2. CASE ~(i <= m)
    <3>1. i - m \in 1..(Len(s) - (m - 1)) /\ (m - 1) + (i - m) = i - 1
      BY <2>2
    <3>2. b[i - m] = s[i - 1]
      BY <1>2, <3>1, Zenon
    <3> QED
      BY <1>2, <1>6, <1>7, <2>2, <3>2, SMTT(30)
  <2> QED
    BY <2>1, <2>2, Zenon
<1>9. Inserted(s, m, e) = d \o b
  BY <1>4, Zenon DEF d
<1>10. d \o b \in Seq(S) /\ Len(d \o b) = Len(s) + 1
  BY <1>2, <1>6, <1>7
<1> QED
  BY <1>8, <1>9, <1>10, Zenon DEF HasAt

-----------------------------------------------------------------------------
(* Rings.                                                                   *)

\* Places at different distances from the head are different places.
LEMMA RingPlaces ==
    ASSUME NEW n \in Nat \ {0}, NEW h \in 0..(n - 1),
           NEW a \in 0..(n - 1), NEW b \in 0..(n - 1), a < b
    PROVE  (h + a) % n # (h + b) % n
OBVIOUS

\* One place on from k places behind h is k + 1 places behind it, however the
\* sum is taken.
LEMMA RingSteps ==
    ASSUME NEW n \in Nat \ {0}, NEW h \in 0..(n - 1), NEW k \in 0..(n - 1)
    PROVE  /\ (((h + k) % n) + 1) % n = (h + k + 1) % n
           /\ (((h + 1) % n) + k) % n = (h + k + 1) % n
           /\ (h + k) % n \in 0..(n - 1)
           /\ (h + 1) % n \in 0..(n - 1)
OBVIOUS

-----------------------------------------------------------------------------
(* Counters.                                                                *)

\* A whole number of turns of a counter, and what it shows.
LEMMA Turns ==
    ASSUME NEW n \in Nat \ {0}, NEW x \in Int
    PROVE  x = n * (x \div n) + (x % n) /\ x % n \in 0..(n - 1) /\ x \div n \in Int
OBVIOUS

\* What it shows after q turns and r.
LEMMA ShownAfterTurns ==
    ASSUME NEW n \in Nat \ {0}, NEW q \in Int, NEW r \in 0..(n - 1)
    PROVE  (n * q + r) % n = r
<1> DEFINE x == n * q + r
           p == x \div n
           s == x % n
<1>1. x \in Int
  OBVIOUS
<1>2. x = n * p + s /\ s \in 0..(n - 1) /\ p \in Int
  BY <1>1, Turns, Zenon
<1>3. n * (p - q) = r - s
  BY <1>2
<1> HIDE DEF x, p, s
<1>4. p - q >= 1 => n * (p - q) >= n
  BY <1>2
<1>5. p - q <= -1 => n * (p - q) <= -n
  BY <1>2
<1>6. p - q = 0
  BY <1>2, <1>3, <1>4, <1>5
<1> QED
  BY <1>2, <1>3, <1>6 DEF s, x

\* The difference of what a counter shows at two moments less than a turn
\* apart is the time between them.
LEMMA ElapsedOnCounter ==
    ASSUME NEW n \in Nat \ {0}, NEW x \in Nat, NEW y \in 0..x, x - y < n
    PROVE  ((x % n) - (y % n)) % n = x - y
<1> DEFINE p == x \div n
           s == x % n
           q == y \div n
           t == y % n
           k == q - p
           d == x - y
<1>1. x = n * p + s /\ s \in 0..(n - 1) /\ p \in Int
  BY Turns
<1>2. y = n * q + t /\ t \in 0..(n - 1) /\ q \in Int
  BY Turns
<1> HIDE DEF p, s, q, t
<1>3. s - t = n * k + d /\ k \in Int /\ d \in 0..(n - 1)
  BY <1>1, <1>2
<1> HIDE DEF k, d
<1>4. (n * k + d) % n = d
  BY <1>3, ShownAfterTurns, Zenon
<1> QED
  BY <1>3, <1>4, Zenon DEF s, t, d

=============================================================================
