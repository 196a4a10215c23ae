------------------------- MODULE RateLimiterProofs --------------------------
(***************************************************************************)
(* The rings of the rate limiter implement the sliding log, for every      *)
(* number of keys, routes and limits and for every window; the log, and    *)
(* the history of what was admitted, give the limit that holds and the     *)
(* time a refused caller is told.                                          *)
(*                                                                         *)
(* What a ring holds is its Chronological sequence.  The lemmas say what   *)
(* the operations of the ring do to that sequence: an append adds at the   *)
(* end and drops the front once the ring is full, a rebuild keeps the      *)
(* newest, and a cutoff leaves a suffix, because the sequence is in order  *)
(* of time.                                                                *)
(***************************************************************************)
EXTENDS RateLimiter, CollectionLemmas

-----------------------------------------------------------------------------
(* Positions in a ring.                                                    *)

LEMMA Modulus ==
    ASSUME NEW n \in Nat \ {0}, NEW a \in Nat, a < n + n
    PROVE  a % n = IF a < n THEN a ELSE a - n
OBVIOUS

RingsOf(max, last) ==
    [timestamps : [0..(max - 1) -> 0..last], head : 0..(max - 1), filled : BOOLEAN,
     capacity : {max}]

\* How many timestamps a ring holds, and where the i-th oldest is.
Count(r) == IF r.filled THEN r.capacity ELSE r.head

Place(r, i) ==
    IF ~r.filled THEN i - 1
    ELSE IF r.head + i - 1 < r.capacity THEN r.head + i - 1
    ELSE r.head + i - 1 - r.capacity

LEMMA ChronologicalProperties ==
    ASSUME NEW max \in Nat \ {0}, NEW last \in Nat, NEW r \in RingsOf(max, last)
    PROVE  /\ Chronological(r) \in Seq(0..last)
           /\ Len(Chronological(r)) = Count(r)
           /\ Count(r) \in 0..max
           /\ \A i \in 1..Count(r) :
                 Place(r, i) \in 0..(max - 1) /\ Chronological(r)[i] = r.timestamps[Place(r, i)]
<1>1. /\ r.capacity = max /\ r.head \in 0..(max - 1) /\ r.filled \in BOOLEAN
      /\ r.timestamps \in [0..(max - 1) -> 0..last]
  BY DEF RingsOf
<1>2. Count(r) \in 0..max
  BY <1>1 DEF Count
<1>3. ASSUME NEW i \in 1..Count(r)
      PROVE  /\ Place(r, i) \in 0..(max - 1)
             /\ ((IF r.filled THEN r.head ELSE 0) + i - 1) % r.capacity = Place(r, i)
  <2>1. CASE ~r.filled
    <3>1. i - 1 \in 0..(max - 1)
      BY <1>1, <2>1 DEF Count
    <3>2. (i - 1) % max = i - 1
      <4> DEFINE b == i - 1
      <4> HIDE DEF b
      <4>1. b \in Nat /\ b < max /\ b < max + max
        BY <3>1 DEF b
      <4>2. b % max = b
        BY <4>1, Modulus
      <4> QED
        BY <4>2 DEF b
    <3>3. (IF r.filled THEN r.head ELSE 0) + i - 1 = i - 1
      BY <2>1
    <3>4. Place(r, i) = i - 1
      BY <2>1 DEF Place
    <3> QED
      BY <1>1, <3>1, <3>2, <3>3, <3>4
  <2>2. CASE r.filled
    <3> DEFINE a == r.head + i - 1
    <3>1. a \in Nat /\ a < max + max
      BY <1>1, <2>2 DEF Count
    <3>2. (IF r.filled THEN r.head ELSE 0) + i - 1 = a
      BY <2>2
    <3>3. Place(r, i) = IF a < max THEN a ELSE a - max
      BY <1>1, <2>2 DEF Place
    <3> HIDE DEF a
    <3>4. a % max = IF a < max THEN a ELSE a - max
      BY <3>1, Modulus
    <3>5. Place(r, i) \in 0..(max - 1)
      BY <3>1, <3>3
    <3> QED
      BY <1>1, <3>2, <3>3, <3>4, <3>5
  <2> QED
    BY <1>1, <2>1, <2>2
<1>4. Chronological(r) =
        [i \in 1..Count(r) |->
            r.timestamps[((IF r.filled THEN r.head ELSE 0) + i - 1) % r.capacity]]
  BY DEF Chronological, Count
<1>5. \A i \in 1..Count(r) : Chronological(r)[i] = r.timestamps[Place(r, i)]
  BY <1>3, <1>4
<1>6. \A i \in 1..Count(r) : Chronological(r)[i] \in 0..last
  BY <1>1, <1>3, <1>5
<1>7. Chronological(r) \in [1..Count(r) -> 0..last]
  BY <1>4, <1>6
<1>8. Chronological(r) \in Seq(0..last) /\ Len(Chronological(r)) = Count(r)
  <2> HIDE DEF Chronological, Count
  <2> QED
    BY <1>2, <1>7, IsASeq, LenProperties
<1> QED
  BY <1>2, <1>3, <1>5, <1>8

-----------------------------------------------------------------------------
(* Suffixes: what a cutoff, a full ring and a rebuild leave of a sequence. *)

Suffix(s, d) == SubSeq(s, d + 1, Len(s))

LEMMA SuffixProperties ==
    ASSUME NEW S, NEW s \in Seq(S), NEW d \in 0..Len(s)
    PROVE  /\ Suffix(s, d) \in Seq(S)
           /\ Len(Suffix(s, d)) = Len(s) - d
           /\ \A i \in 1..(Len(s) - d) : Suffix(s, d)[i] = s[i + d]
BY DEF Suffix

LEMMA SuffixAll ==
    ASSUME NEW S, NEW s \in Seq(S)
    PROVE  Suffix(s, 0) = s
BY SubSeqFull DEF Suffix

LEMMA SuffixOfSuffix ==
    ASSUME NEW S, NEW s \in Seq(S), NEW d \in 0..Len(s), NEW e \in 0..(Len(s) - d)
    PROVE  Suffix(Suffix(s, d), e) = Suffix(s, d + e)
<1> DEFINE u == Suffix(s, d)
           v == Suffix(u, e)
           w == Suffix(s, d + e)
<1>1. u \in Seq(S) /\ Len(u) = Len(s) - d /\ \A i \in 1..(Len(s) - d) : u[i] = s[i + d]
  BY SuffixProperties
<1> HIDE DEF u
<1>2. v \in Seq(S) /\ Len(v) = Len(u) - e /\ \A i \in 1..(Len(u) - e) : v[i] = u[i + e]
  BY <1>1, SuffixProperties
<1>3. /\ w \in Seq(S) /\ Len(w) = Len(s) - (d + e)
      /\ \A i \in 1..(Len(s) - (d + e)) : w[i] = s[i + (d + e)]
  <2>1. d + e \in 0..Len(s)
    OBVIOUS
  <2> QED
    BY <2>1, SuffixProperties
<1> HIDE DEF v, w
<1>4. ASSUME NEW i \in 1..Len(v) PROVE v[i] = w[i]
  <2>1. i \in 1..(Len(u) - e) /\ i + e \in 1..(Len(s) - d) /\ i \in 1..(Len(s) - (d + e))
    BY <1>1, <1>2
  <2>2. v[i] = s[i + e + d]
    BY <1>1, <1>2, <2>1
  <2>3. i + e + d = i + (d + e)
    BY <2>1
  <2> QED
    BY <1>3, <2>1, <2>2, <2>3
<1>5. Len(v) = Len(w)
  BY <1>1, <1>2, <1>3
<1>6. v = w
  BY <1>2, <1>3, <1>4, <1>5, SeqEqual
<1> QED
  BY <1>6 DEF u, v, w

LEMMA SuffixOfAppend ==
    ASSUME NEW S, NEW s \in Seq(S), NEW x \in S, NEW d \in 0..Len(s)
    PROVE  Suffix(Append(s, x), d) = Append(Suffix(s, d), x)
<1> DEFINE a == Append(s, x)
           u == Suffix(s, d)
           v == Suffix(a, d)
           w == Append(u, x)
<1>1. /\ a \in Seq(S) /\ Len(a) = Len(s) + 1 /\ a[Len(s) + 1] = x
      /\ \A i \in 1..Len(s) : a[i] = s[i]
  BY AppendProperties
<1>2. u \in Seq(S) /\ Len(u) = Len(s) - d /\ \A i \in 1..(Len(s) - d) : u[i] = s[i + d]
  BY SuffixProperties
<1> HIDE DEF a, u
<1>3. v \in Seq(S) /\ Len(v) = Len(a) - d /\ \A i \in 1..(Len(a) - d) : v[i] = a[i + d]
  <2>1. d \in 0..Len(a)
    BY <1>1
  <2> QED
    BY <1>1, <2>1, SuffixProperties
<1>4. /\ w \in Seq(S) /\ Len(w) = Len(u) + 1 /\ w[Len(u) + 1] = x
      /\ \A i \in 1..Len(u) : w[i] = u[i]
  BY <1>2, AppendProperties
<1> HIDE DEF v, w
<1>5. ASSUME NEW i \in 1..Len(v) PROVE v[i] = w[i]
  <2>1. v[i] = a[i + d]
    BY <1>3
  <2>2. CASE i = Len(u) + 1
    <3>1. i + d = Len(s) + 1
      BY <1>2, <2>2
    <3> QED
      BY <1>1, <1>4, <2>1, <2>2, <3>1
  <2>3. CASE i # Len(u) + 1
    <3>1. i \in 1..(Len(s) - d) /\ i \in 1..Len(u) /\ i + d \in 1..Len(s)
      BY <1>1, <1>2, <1>3, <2>3
    <3> QED
      BY <1>1, <1>2, <1>4, <2>1, <3>1
  <2> QED
    BY <2>2, <2>3
<1>6. Len(v) = Len(w)
  BY <1>1, <1>2, <1>3, <1>4
<1>7. v = w
  BY <1>3, <1>4, <1>5, <1>6, SeqEqual
<1> QED
  BY <1>7 DEF a, u, v, w

InOrder(s) == \A i, j \in 1..Len(s) : i <= j => s[i] <= s[j]

LEMMA SuffixInOrder ==
    ASSUME NEW S, NEW s \in Seq(S), NEW d \in 0..Len(s), InOrder(s)
    PROVE  InOrder(Suffix(s, d))
<1> DEFINE u == Suffix(s, d)
<1>1. Len(u) = Len(s) - d /\ \A i \in 1..(Len(s) - d) : u[i] = s[i + d]
  BY SuffixProperties
<1> HIDE DEF u
<1>2. ASSUME NEW i \in 1..Len(u), NEW j \in 1..Len(u), i <= j
      PROVE  u[i] <= u[j]
  <2>1. /\ i \in 1..(Len(s) - d) /\ j \in 1..(Len(s) - d)
        /\ i + d \in 1..Len(s) /\ j + d \in 1..Len(s) /\ i + d <= j + d
    BY <1>1, <1>2
  <2> QED
    BY <1>1, <2>1 DEF InOrder
<1>3. InOrder(u)
  BY <1>2 DEF InOrder
<1> QED
  BY <1>3 DEF u

LEMMA AppendInOrder ==
    ASSUME NEW last \in Nat, NEW s \in Seq(0..last), InOrder(s)
    PROVE  InOrder(Append(s, last))
<1> DEFINE a == Append(s, last)
<1>1. /\ a \in Seq(0..last) /\ Len(a) = Len(s) + 1 /\ a[Len(s) + 1] = last
      /\ \A i \in 1..Len(s) : a[i] = s[i]
  BY AppendProperties
<1> HIDE DEF a
<1>2. ASSUME NEW i \in 1..Len(a), NEW j \in 1..Len(a), i <= j
      PROVE  a[i] <= a[j]
  <2>1. CASE j = Len(s) + 1
    <3>1. a[i] \in 0..last
      BY <1>1, ElementOfSeq
    <3> QED
      BY <1>1, <2>1, <3>1
  <2>2. CASE j # Len(s) + 1
    <3>1. i \in 1..Len(s) /\ j \in 1..Len(s)
      BY <1>1, <1>2, <2>2
    <3> QED
      BY <1>1, <1>2, <3>1 DEF InOrder
  <2> QED
    BY <2>1, <2>2
<1>3. InOrder(a)
  BY <1>2 DEF InOrder
<1> QED
  BY <1>3 DEF a

\* At most the n last elements of s.
NewestUpTo(s, n) == Suffix(s, IF Len(s) <= n THEN 0 ELSE Len(s) - n)

LEMMA NewestUpToIsSuffix ==
    ASSUME NEW S, NEW s \in Seq(S), NEW n \in Nat
    PROVE  /\ Len(s) <= n => NewestUpTo(s, n) = s
           /\ \E d \in 0..Len(s) : NewestUpTo(s, n) = Suffix(s, d)
           /\ Len(s) > n => NewestUpTo(s, n) = Suffix(s, Len(s) - n)
           /\ Len(NewestUpTo(s, n)) = IF Len(s) <= n THEN Len(s) ELSE n
<1>1. Len(s) \in Nat
  OBVIOUS
<1>2. CASE Len(s) <= n
  BY <1>1, <1>2, SuffixAll DEF NewestUpTo
<1>3. CASE ~(Len(s) <= n)
  <2>1. Len(s) - n \in 0..Len(s) /\ NewestUpTo(s, n) = Suffix(s, Len(s) - n)
    BY <1>1, <1>3 DEF NewestUpTo
  <2>2. Len(Suffix(s, Len(s) - n)) = Len(s) - (Len(s) - n)
    BY <2>1, SuffixProperties
  <2> QED
    BY <1>1, <1>3, <2>1, <2>2
<1> QED
  BY <1>2, <1>3

LEMMA NewestOfAppend ==
    ASSUME NEW S, NEW s \in Seq(S), NEW x \in S, NEW n \in Nat \ {0}
    PROVE  NewestUpTo(Append(NewestUpTo(s, n), x), n) = NewestUpTo(Append(s, x), n)
<1>1. CASE Len(s) <= n
  BY <1>1, NewestUpToIsSuffix
<1>2. CASE ~(Len(s) <= n)
  <2> DEFINE d == Len(s) - n
             a == Append(s, x)
             u == Suffix(a, d)
  <2>1. d \in 0..Len(s) /\ NewestUpTo(s, n) = Suffix(s, d)
    BY <1>2, NewestUpToIsSuffix
  <2>2. Append(Suffix(s, d), x) = u
    BY <2>1, SuffixOfAppend
  <2>3. a \in Seq(S) /\ Len(a) = Len(s) + 1
    BY AppendProperties
  <2>4. Len(a) > n /\ Len(a) - n = d + 1
    BY <1>2, <2>3
  <2> HIDE DEF a
  <2>5. d \in 0..Len(a) /\ 1 \in 0..(Len(a) - d)
    BY <1>2, <2>3
  <2>6. u \in Seq(S) /\ Len(u) = n + 1
    BY <1>2, <2>3, <2>5, SuffixProperties
  <2>7. NewestUpTo(u, n) = Suffix(u, 1)
    <3> HIDE DEF u
    <3>1. Len(u) > n /\ Len(u) - n = 1
      BY <2>6
    <3> QED
      BY <2>6, <3>1, NewestUpToIsSuffix
  <2>8. Suffix(u, 1) = Suffix(a, d + 1)
    <3> HIDE DEF d
    <3> QED
      BY <2>3, <2>5, SuffixOfSuffix
  <2>9. NewestUpTo(a, n) = Suffix(a, d + 1)
    <3>1. NewestUpTo(a, n) = Suffix(a, Len(a) - n)
      BY <2>3, <2>4, NewestUpToIsSuffix
    <3> QED
      BY <2>4, <3>1
  <2> QED
    BY <2>1, <2>2, <2>7, <2>8, <2>9 DEF a
<1> QED
  BY <1>1, <1>2

LEMMA RingAppendProperties ==
    ASSUME NEW max \in Nat \ {0}, NEW last \in Nat, NEW r \in RingsOf(max, last),
           NEW t \in 0..last
    PROVE  /\ RingAppend(r, t) \in RingsOf(max, last)
           /\ Chronological(RingAppend(r, t)) = NewestUpTo(Append(Chronological(r), t), max)
<1> DEFINE q == RingAppend(r, t)
           c == Chronological(r)
           n == Count(r)
<1>1. /\ r.capacity = max /\ r.head \in 0..(max - 1) /\ r.filled \in BOOLEAN
      /\ r.timestamps \in [0..(max - 1) -> 0..last]
  BY DEF RingsOf
<1>2. (r.head + 1) % max = IF r.head + 1 = max THEN 0 ELSE r.head + 1
  <2> DEFINE b == r.head + 1
  <2>1. b \in Nat /\ b <= max
    BY <1>1
  <2> HIDE DEF b
  <2>2. b < max + max
    BY <2>1
  <2>3. b % max = IF b = max THEN 0 ELSE b
    <3>1. CASE b = max
      BY <3>1, Modulus
    <3>2. CASE b # max
      BY <2>1, <2>2, <3>2, Modulus
    <3> QED
      BY <3>1, <3>2
  <2> QED
    BY <2>3 DEF b
<1>3. /\ q.capacity = max
      /\ q.head = IF r.head + 1 = max THEN 0 ELSE r.head + 1
      /\ q.filled = (r.filled \/ r.head + 1 = max)
      /\ q.timestamps = [r.timestamps EXCEPT ![r.head] = t]
  BY <1>1, <1>2 DEF RingAppend
<1>4. q \in RingsOf(max, last)
  <2>1. /\ q.head \in 0..(max - 1) /\ q.filled \in BOOLEAN
        /\ q.timestamps \in [0..(max - 1) -> 0..last]
    BY <1>1, <1>3
  <2> QED
    BY <1>3, <2>1 DEF RingAppend, RingsOf
<1>5. /\ c \in Seq(0..last) /\ Len(c) = n /\ n \in 0..max
      /\ \A i \in 1..n : Place(r, i) \in 0..(max - 1) /\ c[i] = r.timestamps[Place(r, i)]
  BY ChronologicalProperties
<1>6. /\ Chronological(q) \in Seq(0..last) /\ Len(Chronological(q)) = Count(q)
      /\ Count(q) \in 0..max
      /\ \A i \in 1..Count(q) :
            Place(q, i) \in 0..(max - 1) /\ Chronological(q)[i] = q.timestamps[Place(q, i)]
  BY <1>4, ChronologicalProperties
<1> DEFINE s == Append(c, t)
<1>7. /\ s \in Seq(0..last) /\ Len(s) = n + 1 /\ s[n + 1] = t
      /\ \A i \in 1..n : s[i] = c[i]
  BY <1>5, AppendProperties
<1> HIDE DEF q, c, n, s
<1>8. CASE n < max
  <2>1. ~r.filled /\ n = r.head
    BY <1>1, <1>8 DEF n, Count
  <2>2. Count(q) = n + 1
    <3>1. CASE r.head + 1 = max
      BY <1>1, <1>3, <2>1, <3>1 DEF Count
    <3>2. CASE r.head + 1 # max
      BY <1>1, <1>3, <2>1, <3>2 DEF Count
    <3> QED
      BY <3>1, <3>2
  <2>3. \A i \in 1..(n + 1) : Place(q, i) = i - 1
    BY <1>1, <1>3, <2>1, <2>2 DEF Place, Count
  <2>4. \A i \in 1..n : Place(r, i) = i - 1
    BY <2>1, <2>2 DEF Place
  <2>5. Chronological(q)[n + 1] = t
    <3>1. n + 1 \in 1..(n + 1) /\ (n + 1) - 1 = r.head
      BY <1>5, <2>1, <2>2
    <3>2. Place(q, n + 1) = r.head
      BY <2>3, <3>1
    <3>3. Chronological(q)[n + 1] = q.timestamps[Place(q, n + 1)]
      BY <1>6, <2>1, <2>2, <3>1
    <3> QED
      BY <1>1, <1>3, <3>2, <3>3
  <2>6. ASSUME NEW i \in 1..n PROVE Chronological(q)[i] = c[i]
    <3>1. i \in 1..(n + 1) /\ i - 1 \in 0..(max - 1) /\ i - 1 # r.head
      BY <1>1, <1>5, <1>8, <2>1, <2>2
    <3>2. Chronological(q)[i] = q.timestamps[i - 1]
      BY <1>6, <2>1, <2>2, <2>3, <3>1
    <3>3. c[i] = r.timestamps[i - 1]
      BY <1>5, <2>4
    <3> QED
      BY <1>1, <1>3, <3>1, <3>2, <3>3
  <2>7. \A i \in 1..(n + 1) : Chronological(q)[i] = s[i]
    <3>1. \A i \in 1..(n + 1) : i = n + 1 \/ i \in 1..n
      BY <1>5
    <3> QED
      BY <1>7, <2>5, <2>6, <3>1
  <2>8. Chronological(q) = s
    <3>1. Len(Chronological(q)) = n + 1
      BY <1>6, <2>1, <2>2
    <3> QED
      BY <1>6, <1>7, <2>7, <3>1, SeqEqual
  <2>9. NewestUpTo(s, max) = s
    <3>1. Len(s) <= max
      BY <1>5, <1>7, <1>8
    <3> QED
      BY <1>7, <3>1, NewestUpToIsSuffix
  <2> QED
    BY <1>4, <2>8, <2>9 DEF q, c, s
<1>9. CASE n = max
  <2>1. r.filled /\ q.filled /\ Count(q) = max
    BY <1>1, <1>3, <1>9 DEF n, Count
  <2>2. Place(q, max) = r.head
    BY <1>1, <1>3, <2>1 DEF Place
  <2>3. Chronological(q)[max] = t
    BY <1>1, <1>3, <1>6, <2>1, <2>2
  <2>4. ASSUME NEW i \in 1..(max - 1) PROVE Chronological(q)[i] = c[i + 1]
    <3>1. i \in 1..max /\ i + 1 \in 1..max
      OBVIOUS
    <3>2. Place(q, i) = Place(r, i + 1) /\ Place(q, i) # r.head
      <4>1. CASE r.head + 1 = max
        BY <1>1, <1>3, <2>1, <4>1 DEF Place
      <4>2. CASE r.head + 1 # max
        <5>1. q.head = r.head + 1 /\ r.head + i = r.head + (i + 1) - 1
          BY <1>1, <1>3, <4>2
        <5>2. q.head \in Nat /\ q.capacity = max /\ q.filled
          BY <1>1, <1>3, <2>1, <5>1
        <5>3. CASE r.head + i < max
          <6>1. Place(q, i) = r.head + i
            BY <1>1, <5>1, <5>2, <5>3 DEF Place
          <6>2. Place(r, i + 1) = r.head + i
            BY <1>1, <2>1, <5>3 DEF Place
          <6> QED
            BY <1>1, <6>1, <6>2
        <5>4. CASE ~(r.head + i < max)
          <6>1. Place(q, i) = r.head + i - max
            BY <1>1, <5>1, <5>2, <5>4 DEF Place
          <6>2. Place(r, i + 1) = r.head + i - max
            BY <1>1, <2>1, <5>4 DEF Place
          <6> QED
            BY <1>1, <6>1, <6>2
        <5> QED
          BY <5>3, <5>4
      <4> QED
        BY <4>1, <4>2
    <3>3. Chronological(q)[i] = q.timestamps[Place(q, i)] /\ Place(q, i) \in 0..(max - 1)
      BY <1>6, <2>1, <3>1
    <3>4. c[i + 1] = r.timestamps[Place(r, i + 1)]
      BY <1>5, <1>9, <3>1
    <3> QED
      BY <1>1, <1>3, <3>2, <3>3, <3>4
  <2>5. /\ NewestUpTo(s, max) \in Seq(0..last)
        /\ Len(NewestUpTo(s, max)) = max
        /\ \A i \in 1..max : NewestUpTo(s, max)[i] = s[i + 1]
    <3>1. Len(s) > max /\ Len(s) - max = 1 /\ 1 \in 0..Len(s)
      BY <1>7, <1>9
    <3>2. NewestUpTo(s, max) = Suffix(s, 1)
      BY <1>7, <3>1, NewestUpToIsSuffix
    <3>3. Len(s) - 1 = max
      BY <1>7, <1>9
    <3>4. /\ Suffix(s, 1) \in Seq(0..last) /\ Len(Suffix(s, 1)) = Len(s) - 1
          /\ \A i \in 1..(Len(s) - 1) : Suffix(s, 1)[i] = s[i + 1]
      BY <1>7, <3>1, SuffixProperties
    <3> QED
      BY <3>2, <3>3, <3>4
  <2>6. ASSUME NEW i \in 1..max PROVE Chronological(q)[i] = s[i + 1]
    <3>1. CASE i = max
      BY <1>7, <1>9, <2>3, <3>1
    <3>2. CASE i # max
      <4>1. i \in 1..(max - 1) /\ i + 1 \in 1..n
        BY <1>9, <3>2
      <4> QED
        BY <1>7, <2>4, <4>1
    <3> QED
      BY <3>1, <3>2
  <2>7. Chronological(q) = NewestUpTo(s, max)
    <3>1. Len(Chronological(q)) = max
      BY <1>6, <2>1
    <3>2. \A i \in 1..max : Chronological(q)[i] = NewestUpTo(s, max)[i]
      BY <2>5, <2>6
    <3> QED
      BY <1>6, <2>5, <3>1, <3>2, SeqEqual
  <2> QED
    BY <1>4, <2>7 DEF q, c, s
<1> QED
  BY <1>5, <1>8, <1>9

-----------------------------------------------------------------------------
(* The rebuild: it exists, and holds the newest of what it is given.       *)

\* The equation of the function inside Rebuilt, over positions up to n.
RebuiltUpTo(f, live, max, n) ==
    f = [i \in 0..n |-> IF i = 0 THEN NewRing(max) ELSE RingAppend(f[i - 1], live[i])]

LEMMA RebuildExists ==
    ASSUME NEW live, NEW max, NEW n \in Nat
    PROVE  \E f : RebuiltUpTo(f, live, max, n)
<1> DEFINE T == {m \in Nat : ~ \E f : RebuiltUpTo(f, live, max, m)}
<1>1. ASSUME T # {} PROVE FALSE
  <2>1. PICK m \in T : \A k \in T : m <= k
    <3>1. T \in SUBSET Nat
      OBVIOUS
    <3> QED
      BY <1>1, <3>1, LeastOf
  <2>2. m \in Nat /\ ~ \E f : RebuiltUpTo(f, live, max, m)
    OBVIOUS
  <2>3. CASE m = 0
    <3> DEFINE f == [i \in 0..0 |-> NewRing(max)]
    <3>1. RebuiltUpTo(f, live, max, 0)
      BY DEF RebuiltUpTo
    <3> QED
      BY <2>2, <2>3, <3>1
  <2>4. CASE m # 0
    <3>1. m - 1 \in Nat /\ m - 1 \notin T
      BY <2>1, <2>2, <2>4
    <3>2. PICK f : RebuiltUpTo(f, live, max, m - 1)
      BY <3>1
    <3> DEFINE g == [i \in 0..m |-> IF i = m THEN RingAppend(f[m - 1], live[m]) ELSE f[i]]
    <3>3. ASSUME NEW i \in 0..m
          PROVE  g[i] = IF i = 0 THEN NewRing(max) ELSE RingAppend(g[i - 1], live[i])
      <4>1. CASE i = m
        <5>1. m - 1 \in 0..m /\ m - 1 # m
          BY <2>2, <3>1
        <5>2. g[m - 1] = f[m - 1]
          BY <5>1
        <5>3. g[m] = RingAppend(f[m - 1], live[m])
          BY <2>2
        <5> QED
          BY <2>4, <4>1, <5>2, <5>3
      <4>2. CASE i # m
        <5>1. i \in 0..(m - 1)
          BY <2>2, <4>2
        <5>2. f[i] = IF i = 0 THEN NewRing(max) ELSE RingAppend(f[i - 1], live[i])
          BY <3>2, <5>1 DEF RebuiltUpTo
        <5>3. i # 0 => i - 1 \in 0..m /\ i - 1 # m
          BY <2>2, <5>1
        <5>4. g[i] = f[i] /\ (i # 0 => g[i - 1] = f[i - 1])
          BY <4>2, <5>3
        <5> QED
          BY <5>2, <5>4
      <4> QED
        BY <4>1, <4>2
    <3>4. g = [i \in 0..m |-> g[i]]
      OBVIOUS
    <3> HIDE DEF g
    <3>5. RebuiltUpTo(g, live, max, m)
      BY <3>3, <3>4 DEF RebuiltUpTo
    <3> QED
      BY <2>2, <3>5
  <2> QED
    BY <2>3, <2>4
<1> QED
  BY <1>1

LEMMA NewRingProperties ==
    ASSUME NEW max \in Nat \ {0}, NEW last \in Nat
    PROVE  /\ NewRing(max) \in RingsOf(max, last)
           /\ Chronological(NewRing(max)) = << >>
<1>1. NewRing(max) \in RingsOf(max, last)
  BY DEF NewRing, RingsOf
<1>2. Count(NewRing(max)) = 0
  BY DEF NewRing, Count
<1>3. Chronological(NewRing(max)) \in Seq(0..last) /\ Len(Chronological(NewRing(max))) = 0
  BY <1>1, <1>2, ChronologicalProperties
<1> QED
  BY <1>1, <1>3, EmptySeq

LEMMA RebuiltProperties ==
    ASSUME NEW max \in Nat \ {0}, NEW last \in Nat, NEW live \in Seq(0..last)
    PROVE  /\ Rebuilt(live, max) \in RingsOf(max, last)
           /\ Chronological(Rebuilt(live, max)) = NewestUpTo(live, max)
<1> DEFINE n == Len(live)
           f == CHOOSE h : RebuiltUpTo(h, live, max, n)
           Good(i) == /\ f[i] \in RingsOf(max, last)
                      /\ Chronological(f[i]) = NewestUpTo(SubSeq(live, 1, i), max)
           T == {i \in 0..n : ~Good(i)}
<1>1. RebuiltUpTo(f, live, max, n)
  <2>1. n \in Nat
    OBVIOUS
  <2>2. \E h : RebuiltUpTo(h, live, max, n)
    BY <2>1, RebuildExists
  <2> QED
    BY <2>2
<1>2. Rebuilt(live, max) = f[n]
  BY DEF Rebuilt, RebuiltUpTo
<1> HIDE DEF f
<1>3. ASSUME NEW m \in T, \A k \in T : m <= k PROVE FALSE
  <2>1. m \in 0..n /\ ~Good(m)
    OBVIOUS
  <2>2. CASE m = 0
    <3>1. f[0] = NewRing(max)
      BY <1>1, <2>1, <2>2 DEF RebuiltUpTo
    <3>2. SubSeq(live, 1, 0) = << >> /\ << >> \in Seq(0..last) /\ Len(<< >>) = 0
      BY SubSeqEmpty
    <3>3. NewestUpTo(<< >>, max) = << >>
      <4>1. Len(<< >>) <= max /\ max \in Nat
        OBVIOUS
      <4> QED
        BY <3>2, <4>1, NewestUpToIsSuffix
    <3> QED
      BY <2>1, <2>2, <3>1, <3>2, <3>3, NewRingProperties
  <2>3. CASE m # 0
    <3> DEFINE u == SubSeq(live, 1, m - 1)
    <3>1. m \in 1..n /\ m - 1 \in 0..n /\ m - 1 \notin T
      BY <1>3, <2>1, <2>3
    <3>2. f[m - 1] \in RingsOf(max, last) /\ Chronological(f[m - 1]) = NewestUpTo(u, max)
      BY <3>1
    <3>3. f[m] = RingAppend(f[m - 1], live[m])
      BY <1>1, <2>1, <2>3 DEF RebuiltUpTo
    <3>4. live[m] \in 0..last /\ u \in Seq(0..last) /\ SubSeq(live, 1, m) = Append(u, live[m])
      BY <3>1
    <3> HIDE DEF u
    <3>5. /\ f[m] \in RingsOf(max, last)
          /\ Chronological(f[m]) = NewestUpTo(Append(NewestUpTo(u, max), live[m]), max)
      BY <3>2, <3>3, <3>4, RingAppendProperties
    <3>6. Chronological(f[m]) = NewestUpTo(SubSeq(live, 1, m), max)
      <4>1. NewestUpTo(Append(NewestUpTo(u, max), live[m]), max)
              = NewestUpTo(Append(u, live[m]), max)
        BY <3>4, NewestOfAppend
      <4> QED
        BY <3>4, <3>5, <4>1
    <3> QED
      BY <2>1, <3>5, <3>6
  <2> QED
    BY <2>2, <2>3
<1>4. T = {}
  <2>1. T \in SUBSET Nat
    OBVIOUS
  <2> HIDE DEF T
  <2> QED
    BY <1>3, <2>1, LeastOf
<1>5. Good(n)
  BY <1>4
<1>6. SubSeq(live, 1, n) = live
  BY SubSeqFull
<1> QED
  BY <1>2, <1>5, <1>6

-----------------------------------------------------------------------------
(* The cutoff: of a sequence in order of time it leaves a suffix.          *)

Live(s, t) == Kept(s, [i \in DOMAIN s |-> s[i] + Window >= t])

\* Cut(s, t, d): the first d of s are too old at t and the others are not.
Cut(s, t, d) == \A i \in 1..Len(s) : s[i] + Window >= t <=> i > d

LEMMA LiveIsSuffix ==
    ASSUME NEW s \in Seq(Nat), NEW t, NEW d \in 0..Len(s), Cut(s, t, d)
    PROVE  Live(s, t) = Suffix(s, d)
<1> DEFINE keep == [i \in DOMAIN s |-> s[i] + Window >= t]
<1>1. \A i \in 1..Len(s) : keep[i] <=> i > d
  <2>1. \A i \in 1..Len(s) : keep[i] = (s[i] + Window >= t)
    OBVIOUS
  <2> HIDE DEF keep
  <2> QED
    BY <2>1 DEF Cut
<1> HIDE DEF keep
<1>2. Kept(s, keep) = SubSeq(s, d + 1, Len(s))
  BY <1>1, KeptIsSuffix
<1> QED
  BY <1>2 DEF keep, Live, Suffix

LEMMA CutExists ==
    ASSUME NEW s \in Seq(Nat), InOrder(s), NEW t \in Nat
    PROVE  \E d \in 0..Len(s) : Cut(s, t, d)
<1> DEFINE T == {d \in 0..Len(s) : \A i \in 1..Len(s) : i > d => s[i] + Window >= t}
<1>1. T \in SUBSET Nat /\ Len(s) \in T
  OBVIOUS
<1>2. PICK d \in T : \A k \in T : d <= k
  BY <1>1, LeastOf
<1>3. d \in 0..Len(s) /\ \A i \in 1..Len(s) : i > d => s[i] + Window >= t
  OBVIOUS
<1>4. ASSUME NEW i \in 1..Len(s), i <= d, s[i] + Window >= t PROVE FALSE
  <2>1. ASSUME NEW j \in 1..Len(s), j > i - 1 PROVE s[j] + Window >= t
    <3>1. s[i] <= s[j] /\ s[i] \in Nat /\ s[j] \in Nat
      BY <2>1 DEF InOrder
    <3> QED
      BY <1>4, <3>1, RateAssumption
  <2>2. i - 1 \in T /\ ~(d <= i - 1)
    BY <1>3, <1>4, <2>1
  <2> QED
    BY <1>2, <2>2
<1> QED
  BY <1>3, <1>4 DEF Cut

LEMMA LiveProperties ==
    ASSUME NEW last \in Nat, NEW s \in Seq(0..last), InOrder(s), NEW t \in Nat
    PROVE  /\ Live(s, t) \in Seq(0..last)
           /\ InOrder(Live(s, t))
           /\ Len(Live(s, t)) <= Len(s)
           /\ \A i \in 1..Len(Live(s, t)) : Live(s, t)[i] + Window >= t
<1>1. s \in Seq(Nat)
  <2>1. \A i \in 1..Len(s) : s[i] \in Nat
    BY ElementOfSeq
  <2> QED
    BY <2>1
<1>2. PICK d \in 0..Len(s) : Cut(s, t, d)
  BY <1>1, CutExists
<1>3. Live(s, t) = Suffix(s, d)
  BY <1>1, <1>2, LiveIsSuffix
<1>4. /\ Suffix(s, d) \in Seq(0..last)
      /\ Len(Suffix(s, d)) = Len(s) - d
      /\ \A i \in 1..(Len(s) - d) : Suffix(s, d)[i] = s[i + d]
  BY SuffixProperties
<1>5. InOrder(Suffix(s, d))
  BY SuffixInOrder
<1>6. ASSUME NEW i \in 1..(Len(s) - d) PROVE Suffix(s, d)[i] + Window >= t
  <2>1. i + d \in 1..Len(s) /\ i + d > d
    OBVIOUS
  <2>2. s[i + d] + Window >= t
    BY <1>2, <2>1 DEF Cut
  <2> QED
    BY <1>4, <2>2
<1> QED
  BY <1>3, <1>4, <1>5, <1>6

LEMMA LiveOfLive ==
    ASSUME NEW s \in Seq(Nat), InOrder(s), NEW t \in Nat, NEW u \in Nat, t <= u
    PROVE  Live(Live(s, t), u) = Live(s, u)
<1>1. PICK d \in 0..Len(s) : Cut(s, t, d)
  BY CutExists
<1>2. PICK e \in 0..Len(s) : Cut(s, u, e)
  BY CutExists
<1>3. ASSUME e < d PROVE FALSE
  <2>1. d \in 1..Len(s) /\ s[d] \in Nat
    BY <1>3
  <2>2. s[d] + Window >= u /\ ~(s[d] + Window >= t)
    BY <1>1, <1>2, <1>3, <2>1 DEF Cut
  <2> QED
    BY <2>1, <2>2, RateAssumption
<1>4. e - d \in 0..(Len(s) - d)
  BY <1>3
<1> DEFINE v == Suffix(s, d)
<1>5. v \in Seq(Nat) /\ Len(v) = Len(s) - d /\ \A i \in 1..(Len(s) - d) : v[i] = s[i + d]
  BY SuffixProperties
<1> HIDE DEF v
<1>6. Cut(v, u, e - d)
  <2>1. ASSUME NEW i \in 1..Len(v) PROVE v[i] + Window >= u <=> i > e - d
    <3>1. i + d \in 1..Len(s) /\ v[i] = s[i + d] /\ (i + d > e <=> i > e - d)
      BY <1>5
    <3>2. s[i + d] + Window >= u <=> i + d > e
      BY <1>2, <3>1 DEF Cut
    <3> QED
      BY <3>1, <3>2
  <2> QED
    BY <2>1 DEF Cut
<1>7. Live(v, u) = Suffix(v, e - d)
  BY <1>4, <1>5, <1>6, LiveIsSuffix
<1>8. Suffix(v, e - d) = Suffix(s, e)
  <2>1. d + (e - d) = e
    OBVIOUS
  <2> QED
    BY <1>4, <2>1, SuffixOfSuffix DEF v
<1>9. Live(s, t) = v /\ Live(s, u) = Suffix(s, e)
  BY <1>1, <1>2, LiveIsSuffix DEF v
<1> QED
  BY <1>7, <1>8, <1>9

LEMMA LiveWhole ==
    ASSUME NEW s \in Seq(Nat), NEW t, \A i \in 1..Len(s) : s[i] + Window >= t
    PROVE  Live(s, t) = s
<1>1. Cut(s, t, 0) /\ 0 \in 0..Len(s)
  BY DEF Cut
<1> QED
  BY <1>1, LiveIsSuffix, SuffixAll

LEMMA LiveNone ==
    ASSUME NEW s \in Seq(Nat), NEW t, \A i \in 1..Len(s) : ~(s[i] + Window >= t)
    PROVE  Live(s, t) = << >>
<1>1. Cut(s, t, Len(s)) /\ Len(s) \in 0..Len(s)
  BY DEF Cut
<1>2. Suffix(s, Len(s)) = << >>
  BY SubSeqEmpty DEF Suffix
<1> QED
  BY <1>1, <1>2, LiveIsSuffix

-----------------------------------------------------------------------------
(* The rings of the map.                                                   *)

AllRings(last) == UNION {RingsOf(Limit[route], last) : route \in Route}

RingInv ==
    /\ now \in Nat
    /\ windows \in [Key -> AllRings(now) \cup {NoRing}]
    /\ \A k \in Key : windows[k] # NoRing => InOrder(Chronological(windows[k]))

LEMMA RingsAreNotAbsent ==
    ASSUME NEW route \in Route, NEW last \in Nat, NEW r \in RingsOf(Limit[route], last)
    PROVE  r # NoRing
BY NoRingAssumption DEF RingsOf

LEMMA LiveTimestampsIsLive ==
    ASSUME NEW r, NEW t
    PROVE  LiveTimestamps(r, t) = Live(Chronological(r), t)
BY DEF LiveTimestamps, Live

LEMMA RingOfKey ==
    ASSUME RingInv, NEW k \in Key, windows[k] # NoRing
    PROVE  \E route \in Route :
              /\ windows[k] \in RingsOf(Limit[route], now)
              /\ Limit[route] \in Nat \ {0}
              /\ windows[k].capacity = Limit[route]
              /\ Chronological(windows[k]) \in Seq(0..now)
              /\ Chronological(windows[k]) \in Seq(Nat)
              /\ Len(Chronological(windows[k])) <= windows[k].capacity
              /\ InOrder(Chronological(windows[k]))
<1>1. windows[k] \in AllRings(now)
  BY DEF RingInv
<1>2. PICK route \in Route : windows[k] \in RingsOf(Limit[route], now)
  BY <1>1 DEF AllRings
<1> DEFINE r == windows[k]
           c == Chronological(r)
<1>3. Limit[route] \in Nat \ {0} /\ now \in Nat
  BY RateAssumption DEF RingInv
<1>4. r.capacity = Limit[route]
  BY <1>2 DEF RingsOf
<1>5. c \in Seq(0..now) /\ Len(c) = Count(r) /\ Count(r) \in 0..Limit[route]
  BY <1>2, <1>3, ChronologicalProperties
<1>6. InOrder(c)
  BY DEF RingInv
<1> HIDE DEF c
<1>7. c \in Seq(Nat)
  <2>1. \A i \in 1..Len(c) : c[i] \in Nat
    BY <1>3, <1>5, ElementOfSeq
  <2> QED
    BY <1>5, <2>1
<1>8. Len(c) <= r.capacity
  BY <1>3, <1>4, <1>5
<1> QED
  BY <1>2, <1>3, <1>4, <1>5, <1>6, <1>7, <1>8 DEF c

LEMMA LiveLogProperties ==
    ASSUME RingInv, NEW k \in Key
    PROVE  /\ LiveLog(k) \in Seq(0..now)
           /\ InOrder(LiveLog(k))
           /\ \A i \in 1..Len(LiveLog(k)) : LiveLog(k)[i] + Window >= now
<1>1. CASE windows[k] = NoRing
  <2>1. LiveLog(k) = << >> /\ << >> \in Seq(0..now) /\ Len(<< >>) = 0
    BY <1>1 DEF LiveLog
  <2> QED
    BY <2>1 DEF InOrder
<1>2. CASE windows[k] # NoRing
  <2>1. LiveLog(k) = Live(Chronological(windows[k]), now)
    BY <1>2, LiveTimestampsIsLive DEF LiveLog
  <2>2. Chronological(windows[k]) \in Seq(0..now) /\ InOrder(Chronological(windows[k]))
    BY <1>2, RingOfKey
  <2>3. now \in Nat
    BY DEF RingInv
  <2> QED
    BY <2>1, <2>2, <2>3, LiveProperties
<1> QED
  BY <1>1, <1>2

\* The ring a call works with holds as much of the log as it has room for.
LEMMA RingForProperties ==
    ASSUME RingInv, NEW k \in Key, NEW max \in Nat \ {0}
    PROVE  /\ RingFor(k, max) \in RingsOf(max, now)
           /\ InOrder(Chronological(RingFor(k, max)))
           /\ LiveTimestamps(RingFor(k, max), now) = NewestUpTo(LiveLog(k), max)
<1> DEFINE log == LiveLog(k)
           r == windows[k]
<1>1. log \in Seq(0..now) /\ InOrder(log) /\ \A i \in 1..Len(log) : log[i] + Window >= now
  BY LiveLogProperties
<1>2. now \in Nat
  BY DEF RingInv
<1>3. CASE r = NoRing
  <2>1. RingFor(k, max) = NewRing(max) /\ log = << >>
    BY <1>3 DEF RingFor, LiveLog
  <2>2. NewRing(max) \in RingsOf(max, now) /\ Chronological(NewRing(max)) = << >>
    BY <1>2, NewRingProperties
  <2>3. << >> \in Seq(Nat) /\ Len(<< >>) = 0
    OBVIOUS
  <2>4. Live(<< >>, now) = << >> /\ InOrder(<< >>)
    <3>1. \A i \in 1..Len(<< >>) : FALSE
      BY <2>3
    <3>2. \A i \in 1..Len(<< >>) : << >>[i] + Window >= now
      BY <3>1
    <3>3. Live(<< >>, now) = << >>
      BY <2>3, <3>2, LiveWhole
    <3> QED
      BY <3>1, <3>3 DEF InOrder
  <2>5. NewestUpTo(<< >>, max) = << >>
    <3>1. Len(<< >>) <= max /\ max \in Nat
      BY <2>3
    <3> QED
      BY <2>3, <3>1, NewestUpToIsSuffix
  <2> QED
    BY <2>1, <2>2, <2>4, <2>5, LiveTimestampsIsLive
<1>4. CASE r # NoRing /\ r.capacity # max
  <2> DEFINE q == Rebuilt(log, max)
             c == NewestUpTo(log, max)
  <2>1. RingFor(k, max) = q
    BY <1>4 DEF RingFor, LiveLog
  <2>2. q \in RingsOf(max, now) /\ Chronological(q) = c
    BY <1>1, <1>2, RebuiltProperties
  <2>3. PICK d \in 0..Len(log) : c = Suffix(log, d)
    BY <1>1, NewestUpToIsSuffix
  <2>4. InOrder(c)
    BY <1>1, <2>3, SuffixInOrder
  <2>5. c \in Seq(0..now) /\ Len(c) = Len(log) - d /\ \A i \in 1..(Len(log) - d) : c[i] = log[i + d]
    BY <1>1, <2>3, SuffixProperties
  <2> HIDE DEF c
  <2>6. ASSUME NEW i \in 1..Len(c) PROVE c[i] \in Nat /\ c[i] + Window >= now
    <3>1. i + d \in 1..Len(log) /\ c[i] = log[i + d]
      BY <1>1, <2>5
    <3>2. c[i] \in 0..now
      BY <2>5, ElementOfSeq
    <3> QED
      BY <1>1, <1>2, <3>1, <3>2
  <2>7. c \in Seq(Nat)
    BY <2>5, <2>6
  <2>8. Live(c, now) = c
    BY <2>6, <2>7, LiveWhole
  <2> QED
    BY <2>1, <2>2, <2>4, <2>8, LiveTimestampsIsLive DEF c
<1>5. CASE r # NoRing /\ r.capacity = max
  <2> DEFINE c == Chronological(r)
  <2>1. RingFor(k, max) = r
    BY <1>5 DEF RingFor
  <2>2. /\ r \in RingsOf(max, now) /\ c \in Seq(0..now) /\ Len(c) <= max /\ InOrder(c)
    BY <1>5, RingOfKey
  <2>3. log = Live(c, now)
    BY <1>5, LiveTimestampsIsLive DEF LiveLog
  <2> HIDE DEF c
  <2>4. Len(log) <= Len(c)
    BY <1>2, <2>2, <2>3, LiveProperties
  <2>5. Len(log) <= max
    BY <1>1, <2>2, <2>4
  <2>6. NewestUpTo(log, max) = log
    BY <1>1, <2>5, NewestUpToIsSuffix
  <2> QED
    BY <2>1, <2>2, <2>3, <2>6, LiveTimestampsIsLive DEF c
<1> QED
  BY <1>3, <1>4, <1>5

-----------------------------------------------------------------------------
(* What a step does to the rings and to what they tell.                    *)

LEMMA LiveLogAfter ==
    ASSUME NEW k \in Key
    PROVE  LiveLog(k)' = IF windows'[k] = NoRing THEN << >>
                         ELSE LiveTimestamps(windows'[k], now')
BY DEF LiveLog

LEMMA AllowEffect ==
    ASSUME RingInv, NEW k \in Key, NEW route \in Route, Allow(k, route)
    PROVE  \E r \in RingsOf(Limit[route], now) :
              /\ windows' = [windows EXCEPT ![k] = r]
              /\ InOrder(Chronological(r))
              /\ \/ /\ Len(LiveLog(k)) < Limit[route]
                    /\ LiveTimestamps(r, now) = Append(LiveLog(k), now)
                    /\ answer' = [key |-> k, route |-> route, allowed |-> TRUE, retry |-> 0]
                    /\ admitted' = [admitted EXCEPT ![k] =
                                       Append(@, [at |-> now, route |-> route])]
                 \/ /\ Len(LiveLog(k)) >= Limit[route]
                    /\ LiveTimestamps(r, now) = NewestUpTo(LiveLog(k), Limit[route])
                    /\ Len(LiveTimestamps(r, now)) = Limit[route]
                    /\ answer' = [key |-> k, route |-> route, allowed |-> FALSE,
                                  retry |-> Retry(LiveTimestamps(r, now))]
                    /\ UNCHANGED admitted
<1> DEFINE max == Limit[route]
           log == LiveLog(k)
           ring == RingFor(k, max)
           live == LiveTimestamps(ring, now)
<1>1. max \in Nat \ {0} /\ now \in Nat
  BY RateAssumption DEF RingInv
<1>2. log \in Seq(0..now) /\ InOrder(log) /\ \A i \in 1..Len(log) : log[i] + Window >= now
  BY LiveLogProperties
<1>3. /\ ring \in RingsOf(max, now) /\ InOrder(Chronological(ring))
      /\ live = NewestUpTo(log, max)
  BY <1>1, RingForProperties
<1>4. /\ Len(live) = IF Len(log) <= max THEN Len(log) ELSE max
      /\ Len(log) \in Nat
  BY <1>1, <1>2, <1>3, NewestUpToIsSuffix
<1>5. CASE Len(live) >= max
  <2>1. Len(log) >= max /\ Len(live) = max
    BY <1>1, <1>4, <1>5
  <2>2. /\ windows' = [windows EXCEPT ![k] = ring]
        /\ answer' = [key |-> k, route |-> route, allowed |-> FALSE, retry |-> Retry(live)]
        /\ UNCHANGED admitted
    BY <1>5 DEF Allow
  <2> QED
    BY <1>3, <2>1, <2>2
<1>6. CASE ~(Len(live) >= max)
  <2> DEFINE b == Rebuilt(live, max)
             r == RingAppend(b, now)
             a == Append(log, now)
  <2>1. Len(log) < max /\ live = log
    BY <1>1, <1>2, <1>3, <1>4, <1>6, NewestUpToIsSuffix
  <2>2. /\ windows' = [windows EXCEPT ![k] = r]
        /\ answer' = [key |-> k, route |-> route, allowed |-> TRUE, retry |-> 0]
        /\ admitted' = [admitted EXCEPT ![k] = Append(@, [at |-> now, route |-> route])]
    BY <1>6 DEF Allow
  <2>3. b \in RingsOf(max, now) /\ Chronological(b) = log
    <3>1. NewestUpTo(log, max) = log
      BY <1>3, <2>1
    <3> QED
      BY <1>1, <1>2, <2>1, <3>1, RebuiltProperties
  <2>4. now \in 0..now
    BY <1>1
  <2>5. r \in RingsOf(max, now) /\ Chronological(r) = NewestUpTo(a, max)
    <3> HIDE DEF b
    <3> QED
      BY <1>1, <2>3, <2>4, RingAppendProperties
  <2>6. /\ a \in Seq(0..now) /\ Len(a) = Len(log) + 1 /\ a[Len(log) + 1] = now
        /\ \A i \in 1..Len(log) : a[i] = log[i]
    BY <1>2, <2>4, AppendProperties
  <2>7. InOrder(a)
    BY <1>1, <1>2, AppendInOrder
  <2> HIDE DEF a, r
  <2>8. Chronological(r) = a
    <3>1. Len(a) <= max
      BY <1>1, <1>4, <2>1, <2>6
    <3> QED
      BY <1>1, <2>5, <2>6, <3>1, NewestUpToIsSuffix
  <2>9. ASSUME NEW i \in 1..Len(a) PROVE a[i] \in Nat /\ a[i] + Window >= now
    <3>1. CASE i = Len(log) + 1
      BY <1>1, <2>6, <3>1, RateAssumption
    <3>2. CASE i # Len(log) + 1
      <4>1. i \in 1..Len(log)
        BY <1>4, <2>6, <3>2
      <4>2. log[i] \in 0..now
        BY <1>2, <4>1, ElementOfSeq
      <4> QED
        BY <1>1, <1>2, <2>6, <4>1, <4>2
    <3> QED
      BY <3>1, <3>2
  <2>10. a \in Seq(Nat)
    BY <2>6, <2>9
  <2>11. LiveTimestamps(r, now) = a
    BY <2>8, <2>9, <2>10, LiveWhole, LiveTimestampsIsLive
  <2> QED
    BY <2>1, <2>2, <2>5, <2>7, <2>8, <2>11 DEF a, r
<1> QED
  BY <1>5, <1>6

\* Replacing a key's ring by another changes what is told of that key only.
LEMMA LogsAfterAllow ==
    ASSUME RingInv, NEW k \in Key, NEW route \in Route, NEW r \in RingsOf(Limit[route], now),
           InOrder(Chronological(r)), windows' = [windows EXCEPT ![k] = r], now' = now
    PROVE  /\ RingInv'
           /\ windows'[k] = r
           /\ [j \in Key |-> LiveLog(j)]'
                = [[j \in Key |-> LiveLog(j)] EXCEPT ![k] = LiveTimestamps(r, now)]
<1>1. r # NoRing
  BY RingsAreNotAbsent DEF RingInv
<1>2. windows \in [Key -> AllRings(now) \cup {NoRing}] /\ r \in AllRings(now)
  BY DEF RingInv, AllRings
<1>3. /\ windows' \in [Key -> AllRings(now) \cup {NoRing}]
      /\ windows'[k] = r /\ \A j \in Key : j # k => windows'[j] = windows[j]
  BY <1>2
<1>4. RingInv'
  BY <1>3 DEF RingInv
<1>5. LiveLog(k)' = LiveTimestamps(r, now)
  BY <1>1, <1>3, LiveLogAfter
<1>6. ASSUME NEW j \in Key, j # k PROVE LiveLog(j)' = LiveLog(j)
  BY <1>3, <1>6, LiveLogAfter DEF LiveLog
<1> QED
  BY <1>3, <1>4, <1>5, <1>6

\* The collector drops only what holds no call of the window.
LEMMA GCKeepsLogs ==
    ASSUME RingInv, GC
    PROVE  RingInv' /\ [j \in Key |-> LiveLog(j)]' = [j \in Key |-> LiveLog(j)]
<1>1. now \in Nat /\ now' = now
  BY DEF RingInv, GC
<1>2. ASSUME NEW k \in Key
      PROVE  \/ windows'[k] = windows[k]
             \/ windows'[k] = NoRing /\ windows[k] # NoRing /\ Stale(windows[k])
  BY DEF GC
<1>3. windows' \in [Key -> AllRings(now) \cup {NoRing}]
  <2>1. \A k \in Key : windows'[k] \in AllRings(now) \cup {NoRing}
    BY <1>2 DEF RingInv
  <2>2. windows' = [k \in Key |-> windows'[k]]
    BY DEF GC
  <2> QED
    BY <2>1, <2>2
<1>4. RingInv'
  <2>1. \A k \in Key : windows'[k] # NoRing => InOrder(Chronological(windows'[k]))
    BY <1>2 DEF RingInv
  <2> QED
    BY <1>1, <1>3, <2>1 DEF RingInv
<1>5. ASSUME NEW k \in Key, windows[k] # NoRing, Stale(windows[k])
      PROVE  LiveTimestamps(windows[k], now) = << >>
  <2> DEFINE r == windows[k]
             c == Chronological(r)
  <2>1. PICK route \in Route : /\ r \in RingsOf(Limit[route], now)
                               /\ Limit[route] \in Nat \ {0}
                               /\ r.capacity = Limit[route]
                               /\ c \in Seq(Nat) /\ InOrder(c)
    BY <1>5, RingOfKey
  <2>2. /\ Len(c) = Count(r)
        /\ \A i \in 1..Count(r) : c[i] = r.timestamps[Place(r, i)]
    BY <1>1, <2>1, ChronologicalProperties
  <2>3. r.head \in 0..(r.capacity - 1) /\ r.filled \in BOOLEAN
    BY <2>1 DEF RingsOf
  <2> HIDE DEF c
  <2>4. ASSUME NEW i \in 1..Len(c) PROVE ~(c[i] + Window >= now)
    <3>1. c[Len(c)] = LastTimestamp(r)
      <4>1. Len(c) \in 1..Count(r)
        BY <2>1, <2>2
      <4>2. Place(r, Count(r)) = IF r.head = 0 THEN r.capacity - 1 ELSE r.head - 1
        <5>1. CASE ~r.filled
          BY <2>1, <2>2, <2>3, <4>1, <5>1 DEF Count, Place
        <5>2. CASE r.filled
          BY <2>1, <2>2, <2>3, <4>1, <5>2 DEF Count, Place
        <5> QED
          BY <5>1, <5>2
      <4>3. ~(~r.filled /\ r.head = 0)
        BY <4>1 DEF Count
      <4> QED
        BY <2>2, <4>1, <4>2, <4>3 DEF LastTimestamp
    <3>2. c[i] \in Nat /\ c[Len(c)] \in Nat /\ c[i] <= c[Len(c)]
      BY <2>1 DEF InOrder
    <3>3. c[Len(c)] + GcAge < now
      BY <1>5, <3>1 DEF Stale
    <3> QED
      BY <1>1, <3>2, <3>3, RateAssumption
  <2>5. Live(c, now) = << >>
    BY <2>1, <2>4, LiveNone
  <2> QED
    BY <2>5, LiveTimestampsIsLive DEF c
<1>6. ASSUME NEW k \in Key PROVE LiveLog(k)' = LiveLog(k)
  BY <1>1, <1>2, <1>5, LiveLogAfter DEF LiveLog
<1> QED
  BY <1>4, <1>6

\* As time passes each log loses what is too old.
LEMMA TickCutsLogs ==
    ASSUME RingInv, Tick
    PROVE  RingInv' /\ \A k \in Key : LiveLog(k)' = Live(LiveLog(k), now')
<1>1. now \in Nat /\ now' = now + 1 /\ windows' = windows
  BY DEF RingInv, Tick
<1>2. AllRings(now) \subseteq AllRings(now + 1)
  <2>1. \A route \in Route : RingsOf(Limit[route], now) \subseteq RingsOf(Limit[route], now + 1)
    BY <1>1 DEF RingsOf
  <2> QED
    BY <2>1 DEF AllRings
<1>3. RingInv'
  BY <1>1, <1>2 DEF RingInv
<1>4. ASSUME NEW k \in Key PROVE LiveLog(k)' = Live(LiveLog(k), now')
  <2>1. CASE windows[k] = NoRing
    <3>1. LiveLog(k) = << >> /\ LiveLog(k)' = << >>
      BY <1>1, <2>1, LiveLogAfter DEF LiveLog
    <3>2. << >> \in Seq(Nat) /\ \A i \in 1..Len(<< >>) : << >>[i] + Window >= now'
      OBVIOUS
    <3> QED
      BY <3>1, <3>2, LiveWhole
  <2>2. CASE windows[k] # NoRing
    <3> DEFINE c == Chronological(windows[k])
    <3>1. c \in Seq(Nat) /\ InOrder(c)
      BY <2>2, RingOfKey
    <3>2. LiveLog(k) = Live(c, now) /\ LiveLog(k)' = Live(c, now')
      BY <1>1, <2>2, LiveTimestampsIsLive, LiveLogAfter DEF LiveLog
    <3>3. now <= now' /\ now' \in Nat
      BY <1>1
    <3> HIDE DEF c
    <3> QED
      BY <1>1, <3>1, <3>2, <3>3, LiveOfLive
  <2> QED
    BY <2>1, <2>2
<1> QED
  BY <1>3, <1>4

LEMMA InitRings == Init => RingInv
BY DEF Init, RingInv

LEMMA NextRings == RingInv /\ [Next]_vars => RingInv'
<1> SUFFICES ASSUME RingInv, [Next]_vars PROVE RingInv'
  OBVIOUS
<1>1. CASE Tick
  BY <1>1, TickCutsLogs
<1>2. CASE GC
  BY <1>2, GCKeepsLogs
<1>3. ASSUME NEW k \in Key, NEW route \in Route, Allow(k, route) PROVE RingInv'
  <2>1. now' = now
    BY <1>3 DEF Allow
  <2> QED
    BY <1>3, <2>1, AllowEffect, LogsAfterAllow
<1>4. CASE UNCHANGED vars
  BY <1>4 DEF vars, RingInv
<1> QED
  BY <1>1, <1>2, <1>3, <1>4 DEF Next

-----------------------------------------------------------------------------
(* The refinement.                                                         *)

LEMMA RecentIsLive ==
    ASSUME NEW s, NEW t
    PROVE  Sliding!Recent(s, t) = Live(s, t)
<1>1. [i \in DOMAIN s |-> t <= s[i] + Window] = [i \in DOMAIN s |-> s[i] + Window >= t]
  OBVIOUS
<1>2. \A keep : Sliding!Kept(s, keep) = Kept(s, keep)
  BY DEF Sliding!Kept, Kept
<1> QED
  BY <1>1, <1>2 DEF Sliding!Recent, Live

LEMMA AllowIsAdmitOrDeny ==
    ASSUME RingInv, NEW k \in Key, NEW route \in Route, Allow(k, route)
    PROVE  Sliding!Admit(k, route) \/ Sliding!Deny(k, route)
<1> DEFINE log == [j \in Key |-> LiveLog(j)]
           max == Limit[route]
<1>1. now' = now /\ now <= MaxCall
  BY DEF Allow
<1>2. PICK r \in RingsOf(max, now) :
         /\ windows' = [windows EXCEPT ![k] = r]
         /\ InOrder(Chronological(r))
         /\ \/ /\ Len(LiveLog(k)) < max
               /\ LiveTimestamps(r, now) = Append(LiveLog(k), now)
               /\ answer' = [key |-> k, route |-> route, allowed |-> TRUE, retry |-> 0]
            \/ /\ Len(LiveLog(k)) >= max
               /\ LiveTimestamps(r, now) = NewestUpTo(LiveLog(k), max)
               /\ answer' = [key |-> k, route |-> route, allowed |-> FALSE,
                             retry |-> Retry(LiveTimestamps(r, now))]
  BY AllowEffect
<1>3. log' = [log EXCEPT ![k] = LiveTimestamps(r, now)]
  BY <1>1, <1>2, LogsAfterAllow
<1>4. log[k] = LiveLog(k)
  OBVIOUS
<1>5. CASE Len(LiveLog(k)) < max /\ LiveTimestamps(r, now) = Append(LiveLog(k), now)
           /\ answer' = [key |-> k, route |-> route, allowed |-> TRUE, retry |-> 0]
  <2> HIDE DEF log
  <2>1. log' = [log EXCEPT ![k] = Append(@, now)]
    BY <1>3, <1>4, <1>5
  <2>2. Len(log[k]) < Limit[route]
    BY <1>4, <1>5
  <2> QED
    BY <1>1, <1>5, <2>1, <2>2 DEF log, Sliding!Admit, Sliding!Admitted
<1>6. CASE Len(LiveLog(k)) >= max /\ LiveTimestamps(r, now) = NewestUpTo(LiveLog(k), max)
           /\ answer' = [key |-> k, route |-> route, allowed |-> FALSE,
                         retry |-> Retry(LiveTimestamps(r, now))]
  <2>1. NewestUpTo(LiveLog(k), max) = Sliding!Newest(LiveLog(k), max)
    <3>1. LiveLog(k) \in Seq(0..now) /\ max \in Nat
      BY LiveLogProperties, RateAssumption
    <3>2. CASE Len(LiveLog(k)) = max
      <4>1. Len(LiveLog(k)) <= max /\ Len(LiveLog(k)) - max + 1 = 1
        BY <3>1, <3>2
      <4> QED
        BY <3>1, <4>1, NewestUpToIsSuffix, SubSeqFull DEF Sliding!Newest
    <3>3. CASE Len(LiveLog(k)) > max
      BY <3>1, <3>3, NewestUpToIsSuffix DEF Suffix, Sliding!Newest
    <3> QED
      BY <1>6, <3>1, <3>2, <3>3
  <2>2. /\ Len(log[k]) >= max
        /\ LiveTimestamps(r, now) = Sliding!Newest(log[k], max)
    BY <1>4, <1>6, <2>1
  <2> HIDE DEF log
  <2>3. log' = [log EXCEPT ![k] = Sliding!Newest(log[k], max)]
    BY <1>3, <2>2
  <2>4. answer' = Sliding!Denied(k, route, (Head(Sliding!Newest(log[k], max)) + Window) - now)
    BY <1>6, <2>2 DEF Sliding!Denied, Retry
  <2> QED
    BY <1>1, <2>2, <2>3, <2>4 DEF log, Sliding!Deny
<1> QED
  BY <1>2, <1>5, <1>6

\* The rings, rebuilt, overwritten and collected as ratelimit.go does it, tell
\* of a key exactly what the sliding log of the last window tells, and answer
\* every call as that log would.
THEOREM RingsImplementTheLog == Spec => ImplementsSlidingLog
<1>1. Init => Sliding!Init
  BY DEF Init, Sliding!Init, LiveLog
<1>2. RingInv /\ [Next]_vars => [Sliding!Next]_(Sliding!svars)
  <2> SUFFICES ASSUME RingInv, [Next]_vars PROVE [Sliding!Next]_(Sliding!svars)
    OBVIOUS
  <2>1. CASE Tick
    <3>1. now < MaxTime /\ now' = now + 1 /\ answer' = NoAnswer
      BY <2>1 DEF Tick
    <3>2. [k \in Key |-> LiveLog(k)]'
            = [k \in Key |-> Sliding!Recent([j \in Key |-> LiveLog(j)][k], now')]
      BY <2>1, TickCutsLogs, RecentIsLive
    <3>3. Sliding!Tick
      BY <3>1, <3>2 DEF Sliding!Tick
    <3> QED
      BY <3>3 DEF Sliding!Next
  <2>2. CASE GC
    <3>1. now' = now /\ answer' = answer
      BY <2>2 DEF GC
    <3>2. [k \in Key |-> LiveLog(k)]' = [k \in Key |-> LiveLog(k)]
      BY <2>2, GCKeepsLogs
    <3> QED
      BY <3>1, <3>2 DEF Sliding!svars
  <2>3. ASSUME NEW k \in Key, NEW route \in Route, Allow(k, route)
        PROVE  Sliding!Next
    BY <2>3, AllowIsAdmitOrDeny DEF Sliding!Next
  <2>4. CASE UNCHANGED vars
    BY <2>4 DEF vars, LiveLog, Sliding!svars
  <2> QED
    BY <2>1, <2>2, <2>3, <2>4 DEF Next
<1>3. Spec => []RingInv
  BY InitRings, NextRings, PTL DEF Spec
<1> QED
  BY <1>1, <1>2, <1>3, PTL DEF Spec, ImplementsSlidingLog, Sliding!Spec

-----------------------------------------------------------------------------
(* The history of the window and the last answer.                          *)

Times(k) == [i \in 1..Len(admitted[k]) |-> admitted[k][i].at]

Call == [at : 0..now, route : Route]

HistoryInv ==
    /\ admitted \in [Key -> Seq(Call)]
    /\ \A k \in Key : InOrder(Times(k))

AnswerInv ==
    answer # NoAnswer =>
        answer \in [key : Key, route : Route, allowed : BOOLEAN, retry : 0..Window]

\* The ring a refused call leaves is full, and its oldest call is the one that
\* the answer waits for.
DeniedInv ==
    answer # NoAnswer /\ ~answer.allowed =>
        LET c == Chronological(windows[answer.key]) IN
        /\ windows[answer.key] # NoRing
        /\ Len(c) = Limit[answer.route]
        /\ c[1] + Window >= now
        /\ answer.retry = (c[1] + Window) - now

LEMMA TimesProperties ==
    ASSUME HistoryInv, NEW k \in Key, now \in Nat
    PROVE  /\ admitted[k] \in Seq(Call)
           /\ Times(k) \in Seq(0..now) /\ Times(k) \in Seq(Nat)
           /\ Len(Times(k)) = Len(admitted[k])
           /\ InOrder(Times(k))
           /\ \A i \in 1..Len(admitted[k]) : Times(k)[i] = admitted[k][i].at
<1>1. admitted[k] \in Seq(Call) /\ InOrder(Times(k))
  BY DEF HistoryInv
<1>2. \A i \in 1..Len(admitted[k]) : admitted[k][i].at \in 0..now
  <2>1. \A i \in 1..Len(admitted[k]) : admitted[k][i] \in Call
    BY <1>1, ElementOfSeq
  <2> QED
    BY <2>1 DEF Call
<1>3. \A i \in 1..Len(admitted[k]) : Times(k)[i] = admitted[k][i].at
  BY DEF Times
<1>4. Len(admitted[k]) \in Nat /\ Times(k) \in [1..Len(admitted[k]) -> 0..now]
  BY <1>1, <1>2 DEF Times
<1>5. Times(k) \in Seq(0..now) /\ Len(Times(k)) = Len(admitted[k])
  BY <1>4, IsASeq, LenProperties
<1>6. Times(k) \in Seq(Nat)
  <2>1. \A i \in 1..Len(Times(k)) : Times(k)[i] \in Nat
    BY <1>2, <1>3, <1>5
  <2> QED
    BY <1>5, <2>1
<1> QED
  BY <1>1, <1>3, <1>5, <1>6

\* Time passes: the history keeps the calls after the cut of its times.
LEMMA TickCutsHistory ==
    ASSUME HistoryInv, now \in Nat, Tick, NEW k \in Key
    PROVE  \E e \in 0..Len(admitted[k]) :
              /\ Cut(Times(k), now', e)
              /\ admitted'[k] = Suffix(admitted[k], e)
              /\ Times(k)' = Suffix(Times(k), e)
<1> DEFINE s == admitted[k]
           a == Times(k)
           keep == [i \in DOMAIN s |-> s[i].at + Window >= now']
<1>1. /\ s \in Seq(Call) /\ a \in Seq(Nat) /\ Len(a) = Len(s) /\ InOrder(a)
      /\ \A i \in 1..Len(s) : a[i] = s[i].at
  BY TimesProperties
<1>2. now' \in Nat /\ admitted'[k] = Kept(s, keep)
  BY DEF Tick
<1>3. \A i \in 1..Len(s) : keep[i] = (s[i].at + Window >= now')
  BY <1>1
<1> HIDE DEF a, keep
<1>4. PICK e \in 0..Len(a) : Cut(a, now', e)
  BY <1>1, <1>2, CutExists
<1>5. \A i \in 1..Len(s) : keep[i] <=> i > e
  BY <1>1, <1>3, <1>4 DEF Cut
<1>6. e \in 0..Len(s)
  BY <1>1
<1> HIDE DEF s
<1>7. Kept(s, keep) = Suffix(s, e)
  BY <1>1, <1>5, <1>6, KeptIsSuffix DEF Suffix
<1> DEFINE u == Suffix(s, e)
           v == Suffix(a, e)
<1>8. /\ u \in Seq(Call) /\ Len(u) = Len(s) - e
      /\ \A i \in 1..(Len(s) - e) : u[i] = s[i + e]
  BY <1>1, <1>6, SuffixProperties
<1>9. /\ v \in Seq(Nat) /\ Len(v) = Len(a) - e
      /\ \A i \in 1..(Len(a) - e) : v[i] = a[i + e]
  BY <1>1, SuffixProperties
<1> HIDE DEF u, v
<1>10. [i \in 1..Len(u) |-> u[i].at] = v
  <2> DEFINE w == [i \in 1..Len(u) |-> u[i].at]
  <2>1. \A i \in 1..Len(u) : w[i] = v[i] /\ v[i] \in Nat
    <3>1. \A i \in 1..Len(u) : i \in 1..(Len(s) - e) /\ i + e \in 1..Len(s)
      BY <1>6, <1>8
    <3>2. \A i \in 1..Len(u) : v[i] = a[i + e] /\ u[i] = s[i + e]
      BY <1>1, <1>8, <1>9, <3>1
    <3>3. \A i \in 1..Len(u) : v[i] \in Nat
      <4>1. Len(v) = Len(u)
        BY <1>1, <1>8, <1>9
      <4> QED
        BY <1>9, <4>1, ElementOfSeq
    <3> QED
      BY <1>1, <3>1, <3>2, <3>3
  <2>2. Len(u) \in Nat /\ w \in [1..Len(u) -> Nat]
    BY <1>8, <2>1
  <2> HIDE DEF w
  <2>3. w \in Seq(Nat) /\ Len(w) = Len(u)
    BY <2>2, IsASeq, LenProperties
  <2>4. w = v
    BY <1>1, <1>8, <1>9, <2>1, <2>3, SeqEqual
  <2> QED
    BY <2>4 DEF w
<1>11. admitted'[k] = u
  BY <1>2, <1>7 DEF u
<1>12. Times(k)' = [i \in 1..Len(u) |-> u[i].at]
  BY <1>11 DEF Times
<1> QED
  BY <1>4, <1>6, <1>10, <1>11, <1>12 DEF u, v, s, a

\* A call that is admitted: its time is added, and no other history changes.
LEMMA AppendToHistory ==
    ASSUME HistoryInv, now \in Nat, now' = now, NEW k \in Key, NEW route \in Route,
           admitted' = [admitted EXCEPT ![k] = Append(@, [at |-> now, route |-> route])]
    PROVE  /\ HistoryInv'
           /\ Len(admitted'[k]) = Len(admitted[k]) + 1
           /\ Times(k)' = Append(Times(k), now)
           /\ \A j \in Key : j # k => admitted'[j] = admitted[j] /\ Times(j)' = Times(j)
<1> DEFINE s == admitted[k]
           a == Times(k)
           c == [at |-> now, route |-> route]
           u == Append(s, c)
           v == Append(a, now)
<1>1. /\ s \in Seq(Call) /\ a \in Seq(0..now) /\ Len(a) = Len(s) /\ InOrder(a)
      /\ \A i \in 1..Len(s) : a[i] = s[i].at
  BY TimesProperties
<1>2. c \in Call /\ c.at = now /\ now \in 0..now
  BY DEF Call
<1>3. admitted \in [Key -> Seq(Call)]
  BY DEF HistoryInv
<1>4. admitted'[k] = u /\ \A j \in Key : j # k => admitted'[j] = admitted[j]
  BY <1>3
<1>5. admitted' = [admitted EXCEPT ![k] = u]
  OBVIOUS
<1> HIDE DEF s, a, c
<1>6. /\ u \in Seq(Call) /\ Len(u) = Len(s) + 1 /\ u[Len(s) + 1] = c
      /\ \A i \in 1..Len(s) : u[i] = s[i]
  BY <1>1, <1>2, AppendProperties
<1>7. /\ v \in Seq(0..now) /\ Len(v) = Len(a) + 1 /\ v[Len(a) + 1] = now
      /\ \A i \in 1..Len(a) : v[i] = a[i]
  BY <1>1, <1>2, AppendProperties
<1>8. InOrder(v)
  BY <1>1, AppendInOrder
<1> HIDE DEF u, v
<1>9. [i \in 1..Len(u) |-> u[i].at] = v
  <2> DEFINE w == [i \in 1..Len(u) |-> u[i].at]
  <2>1. ASSUME NEW i \in 1..Len(u) PROVE w[i] = v[i] /\ v[i] \in 0..now
    <3>1. CASE i = Len(s) + 1
      BY <1>1, <1>2, <1>6, <1>7, <3>1
    <3>2. CASE i # Len(s) + 1
      <4>1. i \in 1..Len(s) /\ i \in 1..Len(v)
        BY <1>1, <1>6, <1>7, <3>2
      <4>2. v[i] \in 0..now
        BY <1>7, <4>1, ElementOfSeq
      <4> QED
        BY <1>1, <1>6, <1>7, <4>1, <4>2
    <3> QED
      BY <3>1, <3>2
  <2>2. Len(u) \in Nat /\ w \in [1..Len(u) -> 0..now]
    BY <1>6, <2>1
  <2> HIDE DEF w
  <2>3. w \in Seq(0..now) /\ Len(w) = Len(u)
    BY <2>2, IsASeq, LenProperties
  <2>4. w = v
    BY <1>1, <1>6, <1>7, <2>1, <2>3, SeqEqual
  <2> QED
    BY <2>4 DEF w
<1>10. Times(k)' = v
  BY <1>4, <1>9 DEF Times
<1>11. \A j \in Key : j # k => Times(j)' = Times(j)
  BY <1>4 DEF Times
<1>12. HistoryInv'
  <2>1. Call' = Call
    BY DEF Call
  <2>2. admitted' \in [Key -> Seq(Call)]
    BY <1>3, <1>5, <1>6
  <2>3. \A j \in Key : InOrder(Times(j)')
    BY <1>8, <1>10, <1>11 DEF HistoryInv
  <2> QED
    BY <2>1, <2>2, <2>3 DEF HistoryInv
<1> QED
  BY <1>4, <1>6, <1>10, <1>11, <1>12 DEF s, a, u, v

LEMMA LimitsArePositive == \A route \in Route : Limit[route] \in Nat \ {0}
BY RateAssumption

TypeInv == RingInv /\ HistoryInv /\ AnswerInv /\ DeniedInv

LEMMA TickHistory ==
    ASSUME HistoryInv, now \in Nat, Tick
    PROVE  HistoryInv'
<1>1. ASSUME NEW k \in Key PROVE admitted'[k] \in Seq(Call)' /\ InOrder(Times(k)')
  <2>1. PICK e \in 0..Len(admitted[k]) : /\ admitted'[k] = Suffix(admitted[k], e)
                                         /\ Times(k)' = Suffix(Times(k), e)
    BY TickCutsHistory
  <2>2. /\ admitted[k] \in Seq(Call) /\ Times(k) \in Seq(Nat)
        /\ Len(Times(k)) = Len(admitted[k]) /\ InOrder(Times(k))
    BY TimesProperties
  <2>3. admitted'[k] \in Seq(Call)
    BY <2>1, <2>2, SuffixProperties
  <2>4. Call \subseteq Call'
    BY DEF Call, Tick
  <2>5. \A i \in 1..Len(admitted'[k]) : admitted'[k][i] \in Call'
    BY <2>3, <2>4, ElementOfSeq
  <2>6. InOrder(Suffix(Times(k), e))
    BY <2>2, SuffixInOrder
  <2> QED
    BY <2>1, <2>3, <2>5, <2>6
<1>2. admitted' = [k \in Key |-> admitted'[k]]
  BY DEF Tick
<1>3. admitted' \in [Key -> Seq(Call)']
  BY <1>1, <1>2
<1> QED
  BY <1>1, <1>3 DEF HistoryInv

\* What a refusal answers, and what it leaves behind.
LEMMA AllowAnswers ==
    ASSUME TypeInv, NEW k \in Key, NEW route \in Route, Allow(k, route)
    PROVE  AnswerInv' /\ DeniedInv' /\ HistoryInv'
<1> DEFINE max == Limit[route]
<1>1. now \in Nat /\ now' = now /\ max \in Nat \ {0} /\ Window \in Nat
  BY RateAssumption DEF TypeInv, RingInv, Allow
<1>2. PICK r \in RingsOf(max, now) :
         /\ windows' = [windows EXCEPT ![k] = r]
         /\ InOrder(Chronological(r))
         /\ \/ /\ answer' = [key |-> k, route |-> route, allowed |-> TRUE, retry |-> 0]
               /\ admitted' = [admitted EXCEPT ![k] = Append(@, [at |-> now, route |-> route])]
            \/ /\ Len(LiveTimestamps(r, now)) = max
               /\ answer' = [key |-> k, route |-> route, allowed |-> FALSE,
                             retry |-> Retry(LiveTimestamps(r, now))]
               /\ UNCHANGED admitted
  BY AllowEffect DEF TypeInv
<1>3. CASE /\ answer' = [key |-> k, route |-> route, allowed |-> TRUE, retry |-> 0]
           /\ admitted' = [admitted EXCEPT ![k] = Append(@, [at |-> now, route |-> route])]
  <2>1. AnswerInv' /\ DeniedInv'
    BY <1>1, <1>3 DEF AnswerInv, DeniedInv
  <2>2. HistoryInv'
    BY <1>1, <1>3, AppendToHistory DEF TypeInv
  <2> QED
    BY <2>1, <2>2
<1>4. CASE /\ Len(LiveTimestamps(r, now)) = max
           /\ answer' = [key |-> k, route |-> route, allowed |-> FALSE,
                         retry |-> Retry(LiveTimestamps(r, now))]
           /\ UNCHANGED admitted
  <2> DEFINE c == Chronological(r)
  <2>1. c \in Seq(0..now) /\ Len(c) = Count(r) /\ Count(r) \in 0..max
    BY <1>1, ChronologicalProperties
  <2>2. windows'[k] = r /\ r # NoRing
    BY <1>1, <1>2, RingsAreNotAbsent DEF TypeInv, RingInv
  <2>3. InOrder(c) /\ LiveTimestamps(r, now) = Live(c, now)
    BY <1>2, LiveTimestampsIsLive
  <2> HIDE DEF c
  <2>4. /\ Live(c, now) = c /\ Len(c) = max
        /\ \A i \in 1..Len(c) : c[i] + Window >= now
    <3>1. Len(Live(c, now)) = max
      BY <1>4, <2>3
    <3>2. c \in Seq(Nat)
      <4>1. \A i \in 1..Len(c) : c[i] \in Nat
        BY <1>1, <2>1, ElementOfSeq
      <4> QED
        BY <2>1, <4>1
    <3>3. PICK d \in 0..Len(c) : Cut(c, now, d)
      BY <1>1, <2>3, <3>2, CutExists
    <3>4. Live(c, now) = Suffix(c, d)
      BY <3>2, <3>3, LiveIsSuffix
    <3>5. Len(Suffix(c, d)) = Len(c) - d
      BY <3>2, SuffixProperties
    <3>6. d = 0 /\ Len(c) = max
      BY <1>1, <2>1, <3>1, <3>4, <3>5
    <3> QED
      BY <3>2, <3>3, <3>4, <3>6, SuffixAll DEF Cut
  <2>5. 1 \in 1..Len(c) /\ c[1] \in 0..now /\ c[1] + Window >= now
    BY <1>1, <2>1, <2>4
  <2>6. Retry(LiveTimestamps(r, now)) = (c[1] + Window) - now
    BY <2>3, <2>4 DEF Retry
  <2>7. (c[1] + Window) - now \in 0..Window
    BY <1>1, <2>5
  <2>8. AnswerInv'
    BY <1>4, <2>6, <2>7 DEF AnswerInv
  <2>9. DeniedInv'
    <3>1. answer'.key = k /\ answer'.route = route /\ answer'.retry = (c[1] + Window) - now
      BY <1>4, <2>6
    <3>2. Chronological(windows'[k]) = c
      BY <2>2 DEF c
    <3> QED
      BY <1>1, <2>2, <2>4, <2>5, <3>1, <3>2 DEF DeniedInv
  <2>10. HistoryInv'
    <3>1. HistoryInv
      BY DEF TypeInv
    <3> QED
      BY <1>1, <1>4, <3>1 DEF HistoryInv, Call, Times
  <2> QED
    BY <2>8, <2>9, <2>10
<1> QED
  BY <1>2, <1>3, <1>4

LEMMA InitType == Init => TypeInv
<1> SUFFICES ASSUME Init PROVE TypeInv
  OBVIOUS
<1>1. RingInv
  BY InitRings
<1>2. HistoryInv
  <2>1. \A k \in Key : admitted[k] = << >> /\ Len(admitted[k]) = 0
    BY DEF Init
  <2>2. \A k \in Key : InOrder(Times(k))
    <3> SUFFICES ASSUME NEW k \in Key PROVE InOrder(Times(k))
      OBVIOUS
    <3>1. Times(k) \in [1..0 -> Nat]
      BY <2>1 DEF Times
    <3>2. Len(Times(k)) = 0
      BY <3>1, LenProperties, IsASeq
    <3> QED
      BY <3>2 DEF InOrder
  <2>3. admitted \in [Key -> Seq(Call)]
    BY DEF Init
  <2> QED
    BY <2>2, <2>3 DEF HistoryInv
<1>3. AnswerInv /\ DeniedInv
  BY DEF Init, AnswerInv, DeniedInv
<1> QED
  BY <1>1, <1>2, <1>3 DEF TypeInv

LEMMA NextType == TypeInv /\ [Next]_vars => TypeInv'
<1> SUFFICES ASSUME TypeInv, [Next]_vars PROVE TypeInv'
  OBVIOUS
<1>1. RingInv'
  BY NextRings DEF TypeInv
<1>2. now \in Nat /\ Window \in Nat \ {0}
  BY RateAssumption DEF TypeInv, RingInv
<1>3. CASE Tick
  <2>1. AnswerInv' /\ DeniedInv'
    BY <1>3 DEF Tick, AnswerInv, DeniedInv
  <2> QED
    BY <1>1, <1>2, <1>3, <2>1, TickHistory DEF TypeInv
<1>4. CASE GC
  <2>1. UNCHANGED << now, answer, admitted >>
    BY <1>4 DEF GC
  <2>2. HistoryInv' /\ AnswerInv'
    BY <2>1 DEF TypeInv, HistoryInv, AnswerInv, Call, Times
  <2>3. ASSUME NEW k \in Key, windows[k] # NoRing,
               Len(Chronological(windows[k])) # 0,
               Chronological(windows[k])[1] + Window >= now
        PROVE  windows'[k] = windows[k]
    <3> DEFINE c == Chronological(windows[k])
    <3>2. windows[k] # NoRing /\ Len(c) # 0 /\ c[1] + Window >= now
      BY <2>3
    <3>3. c \in Seq(Nat) /\ InOrder(c)
      BY <3>2, RingOfKey DEF TypeInv
    <3>4. LiveLog(k) = Live(c, now)
      BY <3>2, LiveTimestampsIsLive DEF LiveLog
    <3>5. windows'[k] = windows[k] \/ windows'[k] = NoRing
      BY <1>4 DEF GC
    <3>6. LiveLog(k)' = LiveLog(k)
      <4>1. [j \in Key |-> LiveLog(j)]' = [j \in Key |-> LiveLog(j)]
        BY <1>4, GCKeepsLogs DEF TypeInv
      <4>2. [j \in Key |-> LiveLog(j)]'[k] = LiveLog(k)'
        OBVIOUS
      <4>3. [j \in Key |-> LiveLog(j)][k] = LiveLog(k)
        OBVIOUS
      <4> QED
        BY <4>1, <4>2, <4>3
    <3>7. windows'[k] = NoRing => LiveLog(k)' = << >>
      BY LiveLogAfter
    <3> HIDE DEF c
    <3>8. Live(c, now) = c
      <4>1. ASSUME NEW i \in 1..Len(c) PROVE c[i] + Window >= now
        <5>1. 1 \in 1..Len(c) /\ c[1] \in Nat /\ c[i] \in Nat /\ c[1] <= c[i]
          BY <3>3 DEF InOrder
        <5> QED
          BY <1>2, <3>2, <5>1
      <4> QED
        BY <3>3, <4>1, LiveWhole
    <3>9. c # << >>
      BY <3>2
    <3> QED
      BY <3>4, <3>5, <3>6, <3>7, <3>8, <3>9
  <2>4. ASSUME answer # NoAnswer, ~answer.allowed
        PROVE  windows'[answer.key] = windows[answer.key]
    <3>1. answer.key \in Key /\ Limit[answer.route] \in Nat \ {0}
      BY <2>4, LimitsArePositive DEF TypeInv, AnswerInv
    <3>2. /\ windows[answer.key] # NoRing
          /\ Len(Chronological(windows[answer.key])) = Limit[answer.route]
          /\ Chronological(windows[answer.key])[1] + Window >= now
      BY <2>4 DEF TypeInv, DeniedInv
    <3> QED
      BY <2>3, <3>1, <3>2
  <2>5. DeniedInv'
    BY <2>1, <2>4 DEF TypeInv, DeniedInv
  <2> QED
    BY <1>1, <2>2, <2>5 DEF TypeInv
<1>5. ASSUME NEW k \in Key, NEW route \in Route, Allow(k, route) PROVE TypeInv'
  BY <1>1, <1>5, AllowAnswers DEF TypeInv
<1>6. CASE UNCHANGED vars
  <2>1. HistoryInv' /\ AnswerInv' /\ DeniedInv'
    BY <1>6 DEF vars, TypeInv, HistoryInv, AnswerInv, DeniedInv, Call, Times
  <2> QED
    BY <1>1, <2>1 DEF TypeInv
<1> QED
  BY <1>3, <1>4, <1>5, <1>6 DEF Next

LEMMA AlwaysType == Spec => []TypeInv
BY InitType, NextType, PTL DEF Spec

\* Every ring of the map is one of a route, and every answer is well formed: a
\* retry is between nothing and a window.
THEOREM RateTypeOK == Spec => []TypeOK
<1>1. TypeInv => TypeOK
  <2> SUFFICES ASSUME TypeInv PROVE TypeOK
    OBVIOUS
  <2>1. ASSUME NEW k \in Key, windows[k] # NoRing PROVE IsRing(windows[k])
    <3>1. PICK route \in Route : windows[k] \in RingsOf(Limit[route], now)
      BY <2>1, RingOfKey DEF TypeInv
    <3> QED
      BY <3>1 DEF RingsOf, IsRing
  <2>2. \A k \in Key : admitted[k] \in Seq([at : 0..now, route : Route])
    BY DEF TypeInv, HistoryInv, Call
  <2>3. now \in Nat
    BY DEF TypeInv, RingInv
  <2> QED
    BY <2>1, <2>2, <2>3 DEF TypeInv, AnswerInv, TypeOK
<1> QED
  BY <1>1, AlwaysType, PTL

\* A refused caller who waits as long as it is told to is still refused, and is
\* admitted one instant later, when nobody else uses its key.
THEOREM RetriesAreExact == Spec => []RetryIsExact
<1>1. TypeInv => RetryIsExact
  <2> SUFFICES ASSUME TypeInv, answer # NoAnswer, ~answer.allowed
               PROVE  LET ring == windows[answer.key]
                          then == now + answer.retry
                          max == Limit[answer.route]
                      IN  /\ Len(LiveTimestamps(ring, then)) >= max
                          /\ Len(LiveTimestamps(ring, then + 1)) < max
    BY DEF RetryIsExact
  <2> DEFINE max == Limit[answer.route]
             c == Chronological(windows[answer.key])
             then == now + answer.retry
  <2>1. /\ answer.key \in Key /\ max \in Nat \ {0} /\ now \in Nat
        /\ Window \in Nat /\ answer.retry \in Nat
    BY LimitsArePositive, RateAssumption DEF TypeInv, AnswerInv, RingInv
  <2>2. /\ windows[answer.key] # NoRing /\ Len(c) = max
        /\ answer.retry = (c[1] + Window) - now
    BY DEF TypeInv, DeniedInv
  <2>3. c \in Seq(Nat) /\ InOrder(c)
    BY <2>1, <2>2, RingOfKey DEF TypeInv
  <2>4. \A t : LiveTimestamps(windows[answer.key], t) = Live(c, t)
    BY LiveTimestampsIsLive
  <2> HIDE DEF c, max
  <2>5. 1 \in 1..Len(c) /\ c[1] \in Nat
    BY <2>1, <2>2, <2>3
  <2>6. then = c[1] + Window /\ then + 1 \in Nat
    BY <2>1, <2>2, <2>5
  <2> HIDE DEF then
  <2>7. Live(c, then) = c
    <3>1. ASSUME NEW i \in 1..Len(c) PROVE c[i] + Window >= then
      <4>1. c[i] \in Nat /\ c[1] <= c[i]
        BY <2>3, <2>5 DEF InOrder
      <4> QED
        BY <2>1, <2>5, <2>6, <4>1
    <3> QED
      BY <2>3, <3>1, LiveWhole
  <2>8. Len(Live(c, then + 1)) < max
    <3>1. PICK d \in 0..Len(c) : Cut(c, then + 1, d)
      BY <2>3, <2>6, CutExists
    <3>2. Live(c, then + 1) = Suffix(c, d) /\ Len(Suffix(c, d)) = Len(c) - d
      BY <2>3, <3>1, LiveIsSuffix, SuffixProperties
    <3>3. ~(c[1] + Window >= then + 1)
      BY <2>1, <2>5, <2>6
    <3>4. ~(1 > d)
      BY <2>5, <3>1, <3>3 DEF Cut
    <3> QED
      BY <2>1, <2>2, <3>2, <3>4
  <2>9. Len(Live(c, then)) >= max
    BY <2>1, <2>2, <2>7
  <2> QED
    BY <2>4, <2>8, <2>9 DEF max, then
<1> QED
  BY <1>1, AlwaysType, PTL

-----------------------------------------------------------------------------
(* The smallest limit: the log of a key is the end of its history, and it  *)
(* is all of it unless it is as long as the smallest limit.                *)

Smallest(route) == \A other \in Route : Limit[route] <= Limit[other]

LogIsEnough(k, min) ==
    \E d \in 0..Len(Times(k)) :
        /\ LiveLog(k) = Suffix(Times(k), d)
        /\ d = 0 \/ Len(LiveLog(k)) >= min

LogInv == \A route \in Route, k \in Key : Smallest(route) => LogIsEnough(k, Limit[route])

LEMMA LogAfterTick ==
    ASSUME TypeInv, Tick, NEW k \in Key, NEW min \in Nat, LogIsEnough(k, min)
    PROVE  LogIsEnough(k, min)'
<1> DEFINE a == Times(k)
           log == LiveLog(k)
           t == now'
<1>1. now \in Nat /\ t \in Nat
  BY DEF TypeInv, RingInv, Tick
<1>2. a \in Seq(Nat) /\ Len(a) = Len(admitted[k]) /\ InOrder(a)
  BY <1>1, TimesProperties DEF TypeInv
<1>3. PICK d \in 0..Len(a) : log = Suffix(a, d) /\ (d = 0 \/ Len(log) >= min)
  BY DEF LogIsEnough
<1>4. PICK e \in 0..Len(a) : Cut(a, t, e) /\ Times(k)' = Suffix(a, e)
  BY <1>1, <1>2, TickCutsHistory DEF TypeInv
<1>5. LiveLog(k)' = Live(log, t)
  BY TickCutsLogs DEF TypeInv
<1>6. /\ log \in Seq(Nat) /\ Len(log) = Len(a) - d
      /\ \A i \in 1..(Len(a) - d) : log[i] = a[i + d]
  BY <1>2, <1>3, SuffixProperties
<1>7. Suffix(a, e) \in Seq(Nat) /\ Len(Suffix(a, e)) = Len(a) - e
  BY <1>2, SuffixProperties
<1> HIDE DEF a, log, t
<1>8. CASE e <= d
  <2>1. ASSUME NEW i \in 1..Len(log) PROVE log[i] + Window >= t
    <3>1. i + d \in 1..Len(a) /\ i + d > e /\ log[i] = a[i + d]
      BY <1>6, <1>8
    <3> QED
      BY <1>4, <3>1 DEF Cut
  <2>2. Live(log, t) = log
    BY <1>6, <2>1, LiveWhole
  <2>3. d - e \in 0..(Len(a) - e) /\ e + (d - e) = d
    BY <1>8
  <2>4. log = Suffix(Suffix(a, e), d - e)
    BY <1>2, <1>3, <2>3, SuffixOfSuffix
  <2>5. d - e = 0 \/ Len(log) >= min
    BY <1>3, <1>8
  <2> QED
    BY <1>4, <1>5, <1>7, <2>2, <2>3, <2>4, <2>5 DEF LogIsEnough
<1>9. CASE ~(e <= d)
  <2>1. e - d \in 0..Len(log) /\ e - d \in 0..(Len(a) - d) /\ d + (e - d) = e
    BY <1>6, <1>9
  <2>2. ASSUME NEW i \in 1..Len(log) PROVE log[i] + Window >= t <=> i > e - d
    <3>1. i + d \in 1..Len(a) /\ log[i] = a[i + d] /\ (i + d > e <=> i > e - d)
      BY <1>6
    <3>2. a[i + d] + Window >= t <=> i + d > e
      BY <1>4, <3>1 DEF Cut
    <3> QED
      BY <3>1, <3>2
  <2>3. Live(log, t) = Suffix(log, e - d)
    BY <1>6, <2>1, <2>2, LiveIsSuffix DEF Cut
  <2>4. Suffix(log, e - d) = Suffix(a, e)
    BY <1>2, <1>3, <2>1, SuffixOfSuffix
  <2>5. Suffix(a, e) = Suffix(Suffix(a, e), 0) /\ 0 \in 0..Len(Suffix(a, e))
    BY <1>7, SuffixAll
  <2> QED
    BY <1>4, <1>5, <2>3, <2>4, <2>5 DEF LogIsEnough
<1> QED
  BY <1>8, <1>9

LEMMA LogAfterAllow ==
    ASSUME TypeInv, NEW k \in Key, NEW route \in Route, Allow(k, route),
           NEW j \in Key, NEW min \in Nat, min <= Limit[route], LogIsEnough(j, min)
    PROVE  /\ LogIsEnough(j, min)'
           /\ j = k /\ min = Limit[route] /\ answer'.allowed => Len(admitted'[k]) <= min
<1> DEFINE max == Limit[route]
           a == Times(j)
           log == LiveLog(j)
<1>1. now \in Nat /\ now' = now /\ max \in Nat \ {0}
  BY LimitsArePositive DEF TypeInv, RingInv, Allow
<1>2. PICK r \in RingsOf(max, now) :
         /\ windows' = [windows EXCEPT ![k] = r]
         /\ InOrder(Chronological(r))
         /\ \/ /\ Len(LiveLog(k)) < max
               /\ LiveTimestamps(r, now) = Append(LiveLog(k), now)
               /\ answer' = [key |-> k, route |-> route, allowed |-> TRUE, retry |-> 0]
               /\ admitted' = [admitted EXCEPT ![k] = Append(@, [at |-> now, route |-> route])]
            \/ /\ Len(LiveLog(k)) >= max
               /\ LiveTimestamps(r, now) = NewestUpTo(LiveLog(k), max)
               /\ Len(LiveTimestamps(r, now)) = max
               /\ answer' = [key |-> k, route |-> route, allowed |-> FALSE,
                             retry |-> Retry(LiveTimestamps(r, now))]
               /\ UNCHANGED admitted
  BY AllowEffect DEF TypeInv
<1>3. /\ LiveLog(k)' = LiveTimestamps(r, now)
      /\ j # k => LiveLog(j)' = LiveLog(j)
  <2>1. /\ windows'[k] = r
        /\ [i \in Key |-> LiveLog(i)]'
             = [[i \in Key |-> LiveLog(i)] EXCEPT ![k] = LiveTimestamps(r, now)]
    BY <1>1, <1>2, LogsAfterAllow DEF TypeInv
  <2>2. /\ [i \in Key |-> LiveLog(i)]'[k] = LiveLog(k)'
        /\ [i \in Key |-> LiveLog(i)]'[j] = LiveLog(j)'
    OBVIOUS
  <2> QED
    BY <2>1, <2>2
<1>4. /\ a \in Seq(0..now) /\ a \in Seq(Nat) /\ Len(a) = Len(admitted[j])
  BY <1>1, TimesProperties DEF TypeInv
<1>5. PICK d \in 0..Len(a) : log = Suffix(a, d) /\ (d = 0 \/ Len(log) >= min)
  BY DEF LogIsEnough
<1>6. log \in Seq(0..now) /\ Len(log) = Len(a) - d
  BY <1>4, <1>5, SuffixProperties
<1>7. CASE j # k
  <2>1. Times(j)' = a
    <3>1. CASE admitted' = [admitted EXCEPT ![k] = Append(@, [at |-> now, route |-> route])]
      BY <1>1, <1>7, <3>1, AppendToHistory DEF TypeInv
    <3>2. CASE UNCHANGED admitted
      BY <3>2 DEF Times
    <3> QED
      BY <1>2, <3>1, <3>2
  <2> QED
    BY <1>3, <1>5, <1>7, <2>1 DEF LogIsEnough
<1>8. CASE /\ j = k
           /\ Len(LiveLog(k)) < max
           /\ LiveTimestamps(r, now) = Append(LiveLog(k), now)
           /\ admitted' = [admitted EXCEPT ![k] = Append(@, [at |-> now, route |-> route])]
  <2>1. Times(k)' = Append(a, now) /\ Len(admitted'[k]) = Len(admitted[k]) + 1
    BY <1>1, <1>8, AppendToHistory DEF TypeInv
  <2>2. LiveLog(k)' = Append(log, now)
    BY <1>3, <1>8
  <2> HIDE DEF a, log
  <2>3. now \in 0..now
    BY <1>1
  <2>4. Append(log, now) = Suffix(Append(a, now), d)
    BY <1>4, <1>5, <2>3, SuffixOfAppend
  <2>5. Len(Append(a, now)) = Len(a) + 1 /\ Len(Append(log, now)) = Len(log) + 1
    <3>1. Len(Append(a, now)) = Len(a) + 1
      BY <1>4, <2>3, AppendProperties
    <3>2. Len(Append(log, now)) = Len(log) + 1
      BY <1>6, <2>3, AppendProperties
    <3> QED
      BY <3>1, <3>2
  <2>6. d \in 0..Len(Append(a, now)) /\ (d = 0 \/ Len(Append(log, now)) >= min)
    BY <1>4, <1>5, <1>6, <2>5
  <2>7. LogIsEnough(k, min)'
    BY <2>1, <2>2, <2>4, <2>6 DEF LogIsEnough
  <2>8. min = Limit[route] => Len(admitted'[k]) <= min
    <3> SUFFICES ASSUME min = max PROVE Len(admitted'[k]) <= min
      OBVIOUS
    <3>1. Len(log) < min
      BY <1>8 DEF log
    <3>2. d = 0
      BY <1>5, <1>6, <3>1
    <3> QED
      BY <1>4, <1>6, <1>8, <2>1, <3>1, <3>2
  <2> QED
    BY <1>8, <2>7, <2>8
<1>9. CASE /\ j = k
           /\ LiveTimestamps(r, now) = NewestUpTo(LiveLog(k), max)
           /\ Len(LiveTimestamps(r, now)) = max
           /\ answer' = [key |-> k, route |-> route, allowed |-> FALSE,
                         retry |-> Retry(LiveTimestamps(r, now))]
           /\ UNCHANGED admitted
  <2>1. LiveLog(k)' = NewestUpTo(log, max) /\ Len(LiveLog(k)') = max /\ Times(k)' = a
    BY <1>3, <1>9 DEF Times
  <2> HIDE DEF a, log
  <2>2. PICK e \in 0..Len(log) : NewestUpTo(log, max) = Suffix(log, e)
    BY <1>1, <1>6, NewestUpToIsSuffix
  <2>3. Suffix(log, e) = Suffix(a, d + e) /\ d + e \in 0..Len(a)
    <3>1. e \in 0..(Len(a) - d)
      BY <1>6
    <3> QED
      BY <1>4, <1>5, <3>1, SuffixOfSuffix
  <2>4. LogIsEnough(k, min)'
    BY <2>1, <2>2, <2>3 DEF LogIsEnough
  <2> QED
    BY <1>9, <2>4
<1> QED
  BY <1>2, <1>7, <1>8, <1>9

LEMMA InitLog == Init => LogInv
<1> SUFFICES ASSUME Init, NEW k \in Key, NEW min \in Nat PROVE LogIsEnough(k, min)
  BY LimitsArePositive DEF LogInv
<1>1. TypeInv
  BY InitType
<1>2. Times(k) \in Seq(Nat) /\ Len(Times(k)) = 0
  <2>1. now \in Nat /\ Len(admitted[k]) = 0
    BY DEF Init
  <2> QED
    BY <1>1, <2>1, TimesProperties DEF TypeInv
<1>3. Times(k) = << >> /\ LiveLog(k) = << >>
  BY <1>2, EmptySeq DEF LiveLog, Init
<1>4. LiveLog(k) = Suffix(Times(k), 0) /\ 0 \in 0..Len(Times(k))
  <2>1. Suffix(Times(k), 0) = Times(k)
    BY <1>2, SuffixAll
  <2>2. 0 \in 0..Len(Times(k))
    BY <1>2
  <2> QED
    BY <1>3, <2>1, <2>2
<1> QED
  BY <1>4 DEF LogIsEnough

LEMMA NextLog == TypeInv /\ LogInv /\ SmallestLimitHolds /\ [Next]_vars
                   => LogInv' /\ SmallestLimitHolds'
<1> SUFFICES ASSUME TypeInv, LogInv, SmallestLimitHolds, [Next]_vars
             PROVE  LogInv' /\ SmallestLimitHolds'
  OBVIOUS
<1>1. CASE Tick
  <2>1. LogInv'
    BY <1>1, LogAfterTick, LimitsArePositive DEF LogInv
  <2>2. SmallestLimitHolds'
    BY <1>1 DEF Tick, SmallestLimitHolds
  <2> QED
    BY <2>1, <2>2
<1>2. CASE GC
  <2>1. UNCHANGED << now, answer, admitted >>
    BY <1>2 DEF GC
  <2>2. ASSUME NEW k \in Key PROVE LiveLog(k)' = LiveLog(k) /\ Times(k)' = Times(k)
    <3>1. [j \in Key |-> LiveLog(j)]' = [j \in Key |-> LiveLog(j)]
      BY <1>2, GCKeepsLogs DEF TypeInv
    <3>2. [j \in Key |-> LiveLog(j)]'[k] = LiveLog(k)'
      OBVIOUS
    <3>3. [j \in Key |-> LiveLog(j)][k] = LiveLog(k)
      OBVIOUS
    <3> QED
      BY <2>1, <3>1, <3>2, <3>3 DEF Times
  <2>3. LogInv'
    BY <2>2 DEF LogInv, LogIsEnough
  <2>4. SmallestLimitHolds'
    BY <2>1 DEF SmallestLimitHolds
  <2> QED
    BY <2>3, <2>4
<1>3. ASSUME NEW k \in Key, NEW route \in Route, Allow(k, route)
      PROVE  LogInv' /\ SmallestLimitHolds'
  <2>1. ASSUME NEW least \in Route, Smallest(least), NEW j \in Key
        PROVE  /\ LogIsEnough(j, Limit[least])'
               /\ j = k /\ least = route /\ answer'.allowed
                    => Len(admitted'[k]) <= Limit[least]
    <3>1. Limit[least] \in Nat /\ Limit[least] <= Limit[route]
      BY <2>1, LimitsArePositive DEF Smallest
    <3>2. LogIsEnough(j, Limit[least])
      BY <2>1 DEF LogInv
    <3> QED
      BY <1>3, <3>1, <3>2, LogAfterAllow
  <2>2. LogInv'
    BY <2>1 DEF LogInv
  <2>3. answer'.key = k /\ answer'.route = route
    BY <1>3 DEF Allow
  <2>4. SmallestLimitHolds'
    BY <2>1, <2>3 DEF SmallestLimitHolds, Smallest
  <2> QED
    BY <2>2, <2>4
<1>4. CASE UNCHANGED vars
  BY <1>4 DEF vars, LogInv, LogIsEnough, Times, LiveLog, SmallestLimitHolds
<1> QED
  BY <1>1, <1>2, <1>3, <1>4 DEF Next

\* A call admitted under the smallest limit is within it, counting the calls of
\* every route in the window, however often the other routes resize the ring.
THEOREM SmallestLimitIsHeld == Spec => []SmallestLimitHolds
<1>1. Init => SmallestLimitHolds
  BY DEF Init, SmallestLimitHolds
<1> QED
  BY <1>1, InitLog, NextLog, AlwaysType, PTL DEF Spec

=============================================================================
