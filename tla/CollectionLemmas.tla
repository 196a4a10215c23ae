-------------------------- MODULE CollectionLemmas --------------------------
(***************************************************************************)
(* What the operators on collections do, for every input: Kept selects,    *)
(* FlattenSeq joins, and each operation of the cache leaves its list and   *)
(* its map describing the same keys, once each.  Kept and FlattenSeq are   *)
(* recursive; what is claimed of them is proved by looking at the least    *)
(* position at which it fails.                                             *)
(***************************************************************************)
EXTENDS LruCache, Selection, SequenceTheorems, WellFoundedInduction, TLAPS

LEMMA LeastOf ==
    ASSUME NEW T \in SUBSET Nat, T # {}
    PROVE  \E m \in T : \A k \in T : m <= k
<1> DEFINE R == OpToRel(<, Nat)
<1>1. PICK m \in T : \A k \in T : ~(<< k, m >> \in R)
  <2>1. IsWellFoundedOn(R, Nat)
    BY NatLessThanWellFounded
  <2> HIDE DEF R
  <2> QED
    BY <2>1, WFMin
<1>2. R = {ss \in Nat \X Nat : ss[1] < ss[2]}
  BY DEF OpToRel
<1> HIDE DEF R
<1>3. ASSUME NEW k \in T PROVE m <= k
  <2>1. k < m => << k, m >> \in R
    BY <1>2
  <2> QED
    BY <1>1, <2>1
<1> QED
  BY <1>3

-----------------------------------------------------------------------------
(* What a selection keeps of a sequence that grows at its end.             *)

\* One step of the selection, and the function inside Kept.
KeptStep(f, s, keep, i) ==
    IF i = 0 THEN << >>
    ELSE IF keep[i] THEN Append(f[i - 1], s[i]) ELSE f[i - 1]

KeptUpTo(f, s, keep, n) == f = [i \in 0..n |-> KeptStep(f, s, keep, i)]

LEMMA KeptExists ==
    ASSUME NEW s, NEW keep, NEW n \in Nat
    PROVE  \E f : KeptUpTo(f, s, keep, n)
<1> DEFINE Missing == {m \in Nat : ~ \E f : KeptUpTo(f, s, keep, m)}
<1>1. ASSUME Missing # {} PROVE FALSE
  <2>1. PICK m \in Missing : \A k \in Missing : m <= k
    BY <1>1, LeastOf
  <2>2. CASE m = 0
    <3>1. KeptUpTo([i \in 0..0 |-> << >>], s, keep, 0)
      BY DEF KeptUpTo, KeptStep
    <3> QED
      BY <2>2, <3>1
  <2>3. CASE m # 0
    <3>1. m \in Nat /\ m - 1 \in Nat /\ m - 1 \notin Missing
      BY <2>1, <2>3
    <3>2. PICK f : KeptUpTo(f, s, keep, m - 1)
      BY <3>1
    <3> DEFINE g == [i \in 0..m |-> IF i < m THEN f[i] ELSE KeptStep(f, s, keep, m)]
    <3>3. \A i \in 0..m : g[i] = IF i < m THEN f[i] ELSE KeptStep(f, s, keep, m)
      OBVIOUS
    <3>4. g = [i \in 0..m |-> g[i]]
      OBVIOUS
    <3> HIDE DEF g
    <3>5. \A i \in 0..m-1 : f[i] = KeptStep(f, s, keep, i)
      BY <3>1, <3>2 DEF KeptUpTo
    <3>6. \A i \in 0..m : i # 0 => g[i - 1] = f[i - 1]
      BY <3>1, <3>3
    <3>7. \A i \in 0..m : g[i] = KeptStep(g, s, keep, i)
      BY <3>1, <3>3, <3>5, <3>6 DEF KeptStep
    <3>8. KeptUpTo(g, s, keep, m)
      BY <3>4, <3>7 DEF KeptUpTo
    <3> QED
      BY <3>8
  <2> QED
    BY <2>2, <2>3
<1> QED
  BY <1>1

\* The first n elements are the same, and the same are kept of them.
SameUpTo(s, keep, t, also, n) ==
    \A i \in 1..n : s[i] = t[i] /\ (keep[i] <=> also[i])

\* The same choices give the same selection.
LEMMA KeptAgree ==
    ASSUME NEW s, NEW keep, NEW t, NEW also, NEW n \in Nat, NEW f, NEW g,
           NEW m \in Nat, n <= m,
           KeptUpTo(f, s, keep, n), KeptUpTo(g, t, also, m),
           SameUpTo(s, keep, t, also, n)
    PROVE  \A i \in 0..n : f[i] = g[i]
<1> DEFINE Differ == {i \in 0..n : f[i] # g[i]}
<1>1. ASSUME Differ # {} PROVE FALSE
  <2>1. PICK d \in Differ : \A k \in Differ : d <= k
    <3>1. Differ \in SUBSET Nat
      OBVIOUS
    <3> QED
      BY <1>1, <3>1, LeastOf
  <2>2. d \in 0..n /\ d \in 0..m /\ f[d] # g[d]
    OBVIOUS
  <2>3. f[d] = KeptStep(f, s, keep, d) /\ g[d] = KeptStep(g, t, also, d)
    BY <2>2 DEF KeptUpTo
  <2>4. d # 0
    BY <2>2, <2>3 DEF KeptStep
  <2>5. d \in 1..n /\ d - 1 \in 0..n /\ d - 1 \notin Differ
    BY <2>1, <2>2, <2>4
  <2>6. f[d - 1] = g[d - 1]
    BY <2>5
  <2> QED
    BY <2>2, <2>3, <2>4, <2>5, <2>6 DEF KeptStep, SameUpTo
<1> QED
  BY <1>1

\* The same of a sequence and one that continues it by one element.
LEMMA KeptAgreeOnFront ==
    ASSUME NEW s, NEW keep, NEW t, NEW also, NEW n \in Nat, NEW f, NEW g,
           KeptUpTo(f, s, keep, n), KeptUpTo(g, t, also, n + 1),
           SameUpTo(s, keep, t, also, n)
    PROVE  f[n] = g[n]
<1>1. n + 1 \in Nat /\ n <= n + 1 /\ n \in 0..n
  OBVIOUS
<1>2. \A i \in 0..n : f[i] = g[i]
  BY <1>1, KeptAgree
<1> QED
  BY <1>1, <1>2

LEMMA KeptAt ==
    ASSUME NEW s, NEW keep, Len(s) \in Nat, NEW f, KeptUpTo(f, s, keep, Len(s))
    PROVE  Kept(s, keep) = f[Len(s)]
<1> DEFINE g == CHOOSE h : KeptUpTo(h, s, keep, Len(s))
<1>1. KeptUpTo(g, s, keep, Len(s))
  OBVIOUS
<1>2. Kept(s, keep) = g[Len(s)]
  BY DEF Kept, KeptUpTo, KeptStep
<1> HIDE DEF g
<1>3. SameUpTo(s, keep, s, keep, Len(s))
  BY DEF SameUpTo
<1>4. \A i \in 0..Len(s) : g[i] = f[i]
  BY <1>1, <1>3, KeptAgree
<1> QED
  BY <1>2, <1>4

LEMMA KeptEmpty ==
    ASSUME NEW keep
    PROVE  Kept(<< >>, keep) = << >>
<1>1. Len(<< >>) = 0 /\ 0 \in Nat
  OBVIOUS
<1>2. PICK f : KeptUpTo(f, << >>, keep, 0)
  BY KeptExists
<1>3. f[0] = << >>
  BY <1>2 DEF KeptUpTo, KeptStep
<1> QED
  BY <1>1, <1>2, <1>3, KeptAt

\* An element appended is kept at the end, or not at all.
LEMMA KeptAppend ==
    ASSUME NEW S, NEW s \in Seq(S), NEW x \in S, NEW keep, NEW also,
           \A i \in 1..Len(s) : keep[i] <=> also[i]
    PROVE  Kept(Append(s, x), also) =
             IF also[Len(s) + 1] THEN Append(Kept(s, keep), x)
             ELSE Kept(s, keep)
<1> DEFINE n == Len(s)
           t == Append(s, x)
<1>1. /\ n \in Nat /\ n + 1 \in Nat /\ Len(t) = n + 1 /\ t[n + 1] = x
      /\ \A i \in 1..n : t[i] = s[i]
  BY AppendProperties, LenProperties
<1> HIDE DEF n, t
<1>2. PICK f : KeptUpTo(f, s, keep, n)
  BY <1>1, KeptExists
<1>3. PICK g : KeptUpTo(g, t, also, n + 1)
  BY <1>1, KeptExists
<1>4. f[n] = g[n]
  <2>1. SameUpTo(s, keep, t, also, n)
    BY <1>1 DEF n, SameUpTo
  <2> QED
    BY <1>1, <1>2, <1>3, <2>1, KeptAgreeOnFront
<1>5. g[n + 1] = IF also[n + 1] THEN Append(g[n], x) ELSE g[n]
  <2>1. n + 1 \in 0..n+1 /\ n + 1 # 0 /\ (n + 1) - 1 = n
    BY <1>1
  <2>2. g[n + 1] = KeptStep(g, t, also, n + 1)
    BY <1>3, <2>1 DEF KeptUpTo
  <2> QED
    BY <1>1, <2>1, <2>2 DEF KeptStep
<1>6. Kept(s, keep) = f[n] /\ Kept(t, also) = g[n + 1]
  BY <1>1, <1>2, <1>3, KeptAt DEF n
<1> QED
  BY <1>4, <1>5, <1>6 DEF n, t

\* What satisfies a test that stays true once it is true is a suffix.
LEMMA KeptIsSuffix ==
    ASSUME NEW S, NEW s \in Seq(S), NEW d \in 0..Len(s), NEW keep,
           \A i \in 1..Len(s) : keep[i] <=> i > d
    PROVE  Kept(s, keep) = SubSeq(s, d + 1, Len(s))
<1> DEFINE f == [i \in 0..Len(s) |-> SubSeq(s, d + 1, i)]
<1>1. KeptUpTo(f, s, keep, Len(s))
  <2>1. \A i \in 0..Len(s) : f[i] = SubSeq(s, d + 1, i)
    OBVIOUS
  <2>2. f = [i \in 0..Len(s) |-> f[i]]
    OBVIOUS
  <2> HIDE DEF f
  <2>3. ASSUME NEW i \in 0..Len(s), i <= d
        PROVE  f[i] = IF i = 0 THEN << >>
                      ELSE IF keep[i] THEN Append(f[i - 1], s[i]) ELSE f[i - 1]
    <3>1. f[i] = << >>
      BY <2>1, <2>3, SubSeqEmpty
    <3>2. i # 0 => ~keep[i] /\ f[i - 1] = << >>
      BY <2>1, <2>3, SubSeqEmpty
    <3> QED
      BY <3>1, <3>2
  <2>4. ASSUME NEW i \in 0..Len(s), i > d
        PROVE  f[i] = IF i = 0 THEN << >>
                      ELSE IF keep[i] THEN Append(f[i - 1], s[i]) ELSE f[i - 1]
    <3>1. i # 0 /\ keep[i] /\ f[i - 1] = SubSeq(s, d + 1, i - 1)
      BY <2>1, <2>4
    <3>2. SubSeq(s, d + 1, i) = Append(SubSeq(s, d + 1, i - 1), s[i])
      BY <2>4
    <3> QED
      BY <2>1, <3>1, <3>2
  <2>5. \A i \in 0..Len(s) :
          f[i] = IF i = 0 THEN << >>
                 ELSE IF keep[i] THEN Append(f[i - 1], s[i]) ELSE f[i - 1]
    BY <2>3, <2>4
  <2> QED
    BY <2>2, <2>5 DEF KeptUpTo, KeptStep
<1>2. Kept(s, keep) = f[Len(s)]
  <2> HIDE DEF f
  <2> QED
    BY <1>1, KeptAt
<1>3. f[Len(s)] = SubSeq(s, d + 1, Len(s))
  OBVIOUS
<1> QED
  BY <1>2, <1>3

\* A selection has the elements chosen, and repeats none that was not repeated.
LEMMA KeptMembers ==
    ASSUME NEW S, NEW s \in Seq(S), NEW keep
    PROVE  /\ Kept(s, keep) \in Seq(S)
           /\ \A x : x \in ToSet(Kept(s, keep)) <=> \E i \in 1..Len(s) : keep[i] /\ s[i] = x
           /\ IsInjective(s) => IsInjective(Kept(s, keep))
<1>0. Len(s) \in Nat /\ DOMAIN s = 1..Len(s) /\ \A i \in 1..Len(s) : s[i] \in S
  BY LenProperties
<1>1. PICK f : KeptUpTo(f, s, keep, Len(s))
  BY <1>0, KeptExists
<1>2. \A i \in 0..Len(s) : f[i] = KeptStep(f, s, keep, i)
  BY <1>1 DEF KeptUpTo
<1> DEFINE Chosen(n) == {s[i] : i \in {j \in 1..n : keep[j]}}
           Right(n) == /\ f[n] \in Seq(S) /\ ToSet(f[n]) = Chosen(n)
                       /\ IsInjective(s) => IsInjective(f[n])
           Wrong == {n \in 0..Len(s) : ~Right(n)}
<1>3. Right(0)
  <2>1. f[0] = << >> /\ Chosen(0) = {}
    BY <1>0, <1>2 DEF KeptStep
  <2> QED
    BY <2>1, EmptySeq DEF ToSet, IsInjective
<1>4. ASSUME NEW n \in 1..Len(s), Right(n - 1)
      PROVE  Right(n)
  <2> DEFINE t == f[n - 1]
             u == f[n]
  <2>1. /\ n - 1 \in 0..Len(s) /\ n \in 0..Len(s) /\ n # 0
        /\ 1..n = 1..(n - 1) \cup {n}
    BY <1>0
  <2>2. u = IF keep[n] THEN Append(t, s[n]) ELSE t
    BY <1>2, <2>1 DEF KeptStep
  <2>3. t \in Seq(S) /\ ToSet(t) = Chosen(n - 1) /\ (IsInjective(s) => IsInjective(t))
    BY <1>4
  <2>4. Chosen(n) = Chosen(n - 1) \cup (IF keep[n] THEN {s[n]} ELSE {})
    BY <2>1
  <2> HIDE DEF t, u
  <2>5. CASE ~keep[n]
    BY <2>2, <2>3, <2>4, <2>5 DEF u
  <2>6. CASE keep[n]
    <3>1. u = Append(t, s[n]) /\ s[n] \in S
      BY <1>0, <2>2, <2>6
    <3>2. /\ u \in Seq(S) /\ Len(u) = Len(t) + 1 /\ u[Len(t) + 1] = s[n]
          /\ \A i \in 1..Len(t) : u[i] = t[i]
          /\ DOMAIN u = 1..(Len(t) + 1) /\ DOMAIN t = 1..Len(t) /\ Len(t) \in Nat
      BY <2>3, <3>1, AppendProperties, LenProperties
    <3>3. ToSet(u) = ToSet(t) \cup {s[n]}
      BY <3>2 DEF ToSet
    <3>4. ASSUME IsInjective(s) PROVE IsInjective(u)
      <4>1. s[n] \notin ToSet(t)
        BY <1>0, <2>1, <2>3, <3>4 DEF IsInjective
      <4>2. \A i \in 1..Len(t) : u[i] # s[n]
        BY <3>2, <4>1 DEF ToSet
      <4>3. IsInjective(t)
        BY <2>3, <3>4
      <4> QED
        BY <3>2, <4>2, <4>3 DEF IsInjective
    <3> QED
      BY <2>3, <2>4, <2>6, <3>2, <3>3, <3>4 DEF u
  <2> QED
    BY <2>5, <2>6
<1> HIDE DEF Right
<1>5. ASSUME Wrong # {} PROVE FALSE
  <2>1. PICK n \in Wrong : \A k \in Wrong : n <= k
    <3>1. Wrong \in SUBSET Nat
      OBVIOUS
    <3> HIDE DEF Wrong
    <3> QED
      BY <1>5, <3>1, LeastOf
  <2>2. n # 0
    BY <1>3
  <2>3. n \in 1..Len(s) /\ n - 1 \in 0..Len(s) /\ n - 1 \notin Wrong
    BY <1>0, <2>1, <2>2
  <2> QED
    BY <1>4, <2>3
<1>6. Right(Len(s))
  BY <1>0, <1>5
<1>7. Kept(s, keep) = f[Len(s)]
  BY <1>0, <1>1, KeptAt
<1>8. /\ Kept(s, keep) \in Seq(S) /\ (IsInjective(s) => IsInjective(Kept(s, keep)))
      /\ ToSet(Kept(s, keep)) = Chosen(Len(s))
  BY <1>6, <1>7 DEF Right
<1>9. \A x : x \in Chosen(Len(s)) <=> \E i \in 1..Len(s) : keep[i] /\ s[i] = x
  OBVIOUS
<1> HIDE DEF Chosen
<1> QED
  BY <1>8, <1>9

\* Of a selection of positions: it has the positions chosen, each once.
LEMMA KeptPositions ==
    ASSUME NEW n \in Nat, NEW keep
    PROVE  LET kept == Kept([i \in 1..n |-> i], keep) IN
           /\ kept \in Seq(1..n)
           /\ ToSet(kept) = {i \in 1..n : keep[i]}
           /\ IsInjective(kept)
<1> DEFINE s == [i \in 1..n |-> i]
<1>1. s \in Seq(1..n) /\ Len(s) = n /\ IsInjective(s) /\ \A i \in 1..n : s[i] = i
  BY DEF IsInjective
<1> HIDE DEF s
<1>2. /\ Kept(s, keep) \in Seq(1..n) /\ IsInjective(Kept(s, keep))
      /\ \A x : x \in ToSet(Kept(s, keep)) <=> \E i \in 1..Len(s) : keep[i] /\ s[i] = x
  BY <1>1, KeptMembers
<1>3. ToSet(Kept(s, keep)) = {i \in 1..n : keep[i]}
  BY <1>1, <1>2
<1> QED
  BY <1>2, <1>3 DEF s

-----------------------------------------------------------------------------
(* What joining sequences gives.                                           *)

\* One step of the join, and the function inside FlattenSeq.
JoinStep(f, ss, i) == IF i = 1 THEN ss[i] ELSE f[i - 1] \o ss[i]

JoinedUpTo(f, ss, n) == f = [i \in 1..n |-> JoinStep(f, ss, i)]

LEMMA JoinExists ==
    ASSUME NEW ss, NEW n \in Nat
    PROVE  \E f : JoinedUpTo(f, ss, n)
<1> DEFINE Missing == {m \in Nat : ~ \E f : JoinedUpTo(f, ss, m)}
<1>1. ASSUME Missing # {} PROVE FALSE
  <2>1. PICK m \in Missing : \A k \in Missing : m <= k
    BY <1>1, LeastOf
  <2>2. CASE m = 0
    <3>1. JoinedUpTo([i \in 1..0 |-> << >>], ss, 0)
      BY DEF JoinedUpTo
    <3> QED
      BY <2>2, <3>1
  <2>3. CASE m # 0
    <3>1. m \in Nat /\ m - 1 \in Nat /\ m - 1 \notin Missing
      BY <2>1, <2>3
    <3>2. PICK f : JoinedUpTo(f, ss, m - 1)
      BY <3>1
    <3> DEFINE g == [i \in 1..m |-> IF i < m THEN f[i] ELSE JoinStep(f, ss, m)]
    <3>3. \A i \in 1..m : g[i] = IF i < m THEN f[i] ELSE JoinStep(f, ss, m)
      OBVIOUS
    <3>4. g = [i \in 1..m |-> g[i]]
      OBVIOUS
    <3> HIDE DEF g
    <3>5. \A i \in 1..m-1 : f[i] = JoinStep(f, ss, i)
      BY <3>1, <3>2 DEF JoinedUpTo
    <3>6. \A i \in 1..m : i # 1 => g[i - 1] = f[i - 1]
      BY <3>1, <3>3
    <3>7. \A i \in 1..m : g[i] = JoinStep(g, ss, i)
      BY <3>1, <3>3, <3>5, <3>6 DEF JoinStep
    <3>8. JoinedUpTo(g, ss, m)
      BY <3>4, <3>7 DEF JoinedUpTo
    <3> QED
      BY <3>8
  <2> QED
    BY <2>2, <2>3
<1> QED
  BY <1>1

\* The joined sequence has the elements of its parts.
LEMMA FlattenMembers ==
    ASSUME NEW S, NEW ss \in Seq(Seq(S))
    PROVE  /\ FlattenSeq(ss) \in Seq(S)
           /\ \A x : x \in ToSet(FlattenSeq(ss)) <=> \E i \in 1..Len(ss) : x \in ToSet(ss[i])
<1>0. /\ Len(ss) \in Nat /\ DOMAIN ss = 1..Len(ss)
      /\ \A i \in 1..Len(ss) : ss[i] \in Seq(S)
  BY LenProperties
<1>1. CASE Len(ss) = 0
  <2>1. ss = << >> /\ FlattenSeq(ss) = ss
    BY <1>1, EmptySeq DEF FlattenSeq
  <2>2. FlattenSeq(ss) \in Seq(S) /\ ToSet(FlattenSeq(ss)) = {}
    <3>1. << >> \in Seq(S) /\ ToSet(<< >>) = {}
      BY DEF ToSet
    <3> QED
      BY <2>1, <3>1
  <2> HIDE DEF FlattenSeq
  <2> QED
    BY <1>0, <1>1, <2>2
<1>2. CASE Len(ss) # 0
  <2> DEFINE f == CHOOSE g : JoinedUpTo(g, ss, Len(ss))
  <2>1. JoinedUpTo(f, ss, Len(ss))
    BY <1>0, JoinExists
  <2>2. FlattenSeq(ss) = f[Len(ss)]
    BY <1>2 DEF FlattenSeq, JoinedUpTo, JoinStep
  <2> HIDE DEF f
  <2>3. \A i \in 1..Len(ss) : f[i] = JoinStep(f, ss, i)
    BY <2>1 DEF JoinedUpTo
  <2> DEFINE Right(n) ==
               /\ f[n] \in Seq(S)
               /\ \A x : x \in ToSet(f[n]) <=> \E i \in 1..n : x \in ToSet(ss[i])
             Wrong == {n \in 1..Len(ss) : ~Right(n)}
  <2>4. Right(1)
    <3>1. 1 \in 1..Len(ss) /\ f[1] = ss[1] /\ 1..1 = {1}
      BY <1>0, <1>2, <2>3 DEF JoinStep
    <3> QED
      BY <1>0, <3>1
  <2>5. ASSUME NEW n \in 2..Len(ss), Right(n - 1)
        PROVE  Right(n)
    <3> DEFINE a == f[n - 1]
               b == ss[n]
    <3>1. f[n] = a \o b /\ n \in 1..Len(ss) /\ 1..n = 1..(n - 1) \cup {n}
      <4>1. n \in 1..Len(ss) /\ n # 1 /\ 1..n = 1..(n - 1) \cup {n}
        BY <1>0
      <4> QED
        BY <2>3, <4>1 DEF JoinStep
    <3>2. a \in Seq(S) /\ b \in Seq(S)
      BY <1>0, <2>5, <3>1
    <3>3. \A x : x \in ToSet(a) <=> \E i \in 1..(n - 1) : x \in ToSet(ss[i])
      BY <2>5
    <3>4. \A x : (\E i \in 1..n : x \in ToSet(ss[i]))
                    <=> (\E i \in 1..(n - 1) : x \in ToSet(ss[i])) \/ x \in ToSet(b)
      BY <3>1
    <3> HIDE DEF a, b
    <3>5. a \o b \in Seq(S) /\ ToSet(a \o b) = ToSet(a) \cup ToSet(b)
      <4>1. /\ a \o b \in Seq(S) /\ Len(a \o b) = Len(a) + Len(b)
            /\ \A j \in 1..Len(a)+Len(b) :
                  (a \o b)[j] = IF j <= Len(a) THEN a[j] ELSE b[j - Len(a)]
        BY <3>2, ConcatProperties
      <4>2. /\ DOMAIN a = 1..Len(a) /\ DOMAIN b = 1..Len(b)
            /\ DOMAIN (a \o b) = 1..Len(a)+Len(b)
            /\ Len(a) \in Nat /\ Len(b) \in Nat
        BY <3>2, <4>1, LenProperties
      <4>3. \A j \in 1..Len(a) : j \in 1..Len(a)+Len(b) /\ (a \o b)[j] = a[j]
        BY <4>1, <4>2
      <4>4. \A j \in 1..Len(b) : j + Len(a) \in 1..Len(a)+Len(b) /\ (a \o b)[j + Len(a)] = b[j]
        BY <4>1, <4>2
      <4>5. \A j \in 1..Len(a)+Len(b) : (a \o b)[j] \in ToSet(a) \cup ToSet(b)
        <5> SUFFICES ASSUME NEW j \in 1..Len(a)+Len(b)
                     PROVE  (a \o b)[j] \in ToSet(a) \cup ToSet(b)
          OBVIOUS
        <5>1. CASE j <= Len(a)
          <6>1. j \in 1..Len(a) /\ (a \o b)[j] = a[j]
            BY <4>1, <4>2, <5>1
          <6> QED
            BY <4>2, <6>1 DEF ToSet
        <5>2. CASE ~(j <= Len(a))
          <6>1. j - Len(a) \in 1..Len(b) /\ (a \o b)[j] = b[j - Len(a)]
            BY <4>1, <4>2, <5>2
          <6> QED
            BY <4>2, <6>1 DEF ToSet
        <5> QED
          BY <5>1, <5>2
      <4>6. ToSet(a) \subseteq ToSet(a \o b) /\ ToSet(b) \subseteq ToSet(a \o b)
        BY <4>2, <4>3, <4>4 DEF ToSet
      <4>7. ToSet(a \o b) \subseteq ToSet(a) \cup ToSet(b)
        BY <4>2, <4>5 DEF ToSet
      <4> QED
        BY <4>1, <4>6, <4>7
    <3> QED
      BY <3>1, <3>3, <3>4, <3>5
  <2> HIDE DEF Right
  <2>6. ASSUME Wrong # {} PROVE FALSE
    <3>1. PICK n \in Wrong : \A k \in Wrong : n <= k
      <4>1. Wrong \in SUBSET Nat
        OBVIOUS
      <4> HIDE DEF Wrong
      <4> QED
        BY <2>6, <4>1, LeastOf
    <3>2. n # 1
      BY <2>4
    <3>3. n \in 2..Len(ss) /\ n - 1 \in 1..Len(ss) /\ n - 1 \notin Wrong
      BY <1>0, <3>1, <3>2
    <3> QED
      BY <2>5, <3>3
  <2>7. Right(Len(ss))
    BY <1>0, <1>2, <2>6
  <2> QED
    BY <2>2, <2>7 DEF Right
<1> QED
  BY <1>1, <1>2

-----------------------------------------------------------------------------
(* Sequences without repetition.                                           *)

\* Removing the i-th element keeps the others, in order.
LEMMA RemoveAtProperties ==
    ASSUME NEW S, NEW s \in Seq(S), NEW i \in 1..Len(s)
    PROVE  /\ RemoveAt(s, i) \in Seq(S)
           /\ Len(RemoveAt(s, i)) = Len(s) - 1
           /\ \A j \in 1..Len(s)-1 :
                 RemoveAt(s, i)[j] = IF j < i THEN s[j] ELSE s[j+1]
<1> DEFINE a == SubSeq(s, 1, i-1)
           b == SubSeq(s, i+1, Len(s))
<1>0. Len(s) \in Nat /\ i \in Nat /\ i >= 1 /\ i <= Len(s)
  BY LenProperties
<1>1. /\ a \in Seq(S) /\ Len(a) = i-1
      /\ \A j \in 1..i-1 : a[j] = s[j]
  BY <1>0, SubSeqProperties
<1>2. /\ b \in Seq(S) /\ Len(b) = Len(s) - i
      /\ \A j \in 1..Len(s)-i : b[j] = s[i+j]
  BY <1>0, SubSeqProperties
<1>3. /\ a \o b \in Seq(S)
      /\ Len(a \o b) = Len(a) + Len(b)
      /\ \A j \in 1..Len(a)+Len(b) :
            (a \o b)[j] = IF j <= Len(a) THEN a[j] ELSE b[j - Len(a)]
  BY <1>1, <1>2, ConcatProperties
<1>4. RemoveAt(s, i) = a \o b
  BY DEF RemoveAt
<1> HIDE DEF a, b
<1>5. ASSUME NEW j \in 1..Len(s)-1
      PROVE  (a \o b)[j] = IF j < i THEN s[j] ELSE s[j+1]
  <2>1. j \in 1..Len(a)+Len(b) /\ j \in Nat /\ 1 <= j
    BY <1>0, <1>1, <1>2
  <2>2. CASE j < i
    BY <1>0, <1>1, <1>3, <2>1, <2>2
  <2>3. CASE ~(j < i)
    <3>1. (a \o b)[j] = b[j - (i-1)]
      BY <1>0, <1>1, <1>3, <2>1, <2>3
    <3>2. j - (i-1) \in 1..Len(s)-i /\ i + (j - (i-1)) = j+1
      BY <1>0, <2>1, <2>3
    <3> QED
      BY <1>2, <2>3, <3>1, <3>2
  <2> QED
    BY <2>2, <2>3
<1>6. Len(a \o b) = Len(s) - 1
  BY <1>0, <1>1, <1>2, <1>3
<1> QED
  BY <1>3, <1>4, <1>5, <1>6

\* Taking a key out of a list that holds it once takes out that key only.
LEMMA WithoutProperties ==
    ASSUME NEW S, NEW s \in Seq(S), NEW k, IsInjective(s), k \in ToSet(s)
    PROVE  /\ Without(s, k) \in Seq(S)
           /\ Len(Without(s, k)) = Len(s) - 1
           /\ IsInjective(Without(s, k))
           /\ ToSet(Without(s, k)) = ToSet(s) \ {k}
<1> DEFINE i == CHOOSE j \in 1..Len(s) : s[j] = k
           w == RemoveAt(s, i)
<1>0. DOMAIN s = 1..Len(s) /\ Len(s) \in Nat
  BY LenProperties
<1>1. i \in 1..Len(s) /\ s[i] = k
  BY <1>0 DEF ToSet
<1>2. Without(s, k) = w
  BY DEF Without
<1> HIDE DEF i
<1>3. /\ w \in Seq(S) /\ Len(w) = Len(s) - 1
      /\ \A j \in 1..Len(s)-1 : w[j] = IF j < i THEN s[j] ELSE s[j+1]
  BY <1>1, RemoveAtProperties
<1>4. DOMAIN w = 1..Len(s)-1
  BY <1>3, LenProperties
<1> HIDE DEF w
<1>5. IsInjective(w)
  BY <1>0, <1>1, <1>3, <1>4 DEF IsInjective
<1>6. ASSUME NEW j \in DOMAIN w
      PROVE  w[j] \in ToSet(s) \ {k}
  <2>1. j \in 1..Len(s) /\ j+1 \in 1..Len(s)
    BY <1>0, <1>4
  <2>2. CASE j < i
    BY <1>0, <1>1, <1>3, <1>4, <2>1, <2>2 DEF ToSet, IsInjective
  <2>3. CASE ~(j < i)
    <3>1. w[j] = s[j+1] /\ j+1 # i
      BY <1>0, <1>1, <1>3, <1>4, <2>1, <2>3
    <3> QED
      BY <1>0, <1>1, <2>1, <3>1 DEF ToSet, IsInjective
  <2> QED
    BY <2>2, <2>3
<1>7. ASSUME NEW x \in ToSet(s) \ {k}
      PROVE  x \in ToSet(w)
  <2>1. PICK j \in 1..Len(s) : s[j] = x
    BY <1>0 DEF ToSet
  <2>2. j # i
    BY <1>1, <2>1
  <2>3. CASE j < i
    BY <1>0, <1>1, <1>3, <1>4, <2>1, <2>3 DEF ToSet
  <2>4. CASE j > i
    <3>1. j-1 \in 1..Len(s)-1 /\ ~(j-1 < i) /\ (j-1)+1 = j
      BY <1>0, <1>1, <2>1, <2>4
    <3> QED
      BY <1>3, <1>4, <2>1, <3>1 DEF ToSet
  <2> QED
    BY <1>0, <1>1, <2>1, <2>2, <2>3, <2>4
<1>8. ToSet(w) = ToSet(s) \ {k}
  BY <1>6, <1>7 DEF ToSet
<1> QED
  BY <1>2, <1>3, <1>5, <1>8

\* Pushing a new key to the front adds that key only.
LEMMA PushFrontProperties ==
    ASSUME NEW S, NEW s \in Seq(S), NEW k \in S, IsInjective(s), k \notin ToSet(s)
    PROVE  /\ << k >> \o s \in Seq(S)
           /\ Len(<< k >> \o s) = Len(s) + 1
           /\ IsInjective(<< k >> \o s)
           /\ ToSet(<< k >> \o s) = ToSet(s) \cup {k}
<1> DEFINE w == << k >> \o s
<1>0. DOMAIN s = 1..Len(s) /\ Len(s) \in Nat
  BY LenProperties
<1>1. /\ << k >> \in Seq(S) /\ Len(<< k >>) = 1 /\ << k >>[1] = k
  OBVIOUS
<1>2. /\ w \in Seq(S) /\ Len(w) = Len(s) + 1
      /\ \A j \in 1..Len(s)+1 : w[j] = IF j <= 1 THEN << k >>[j] ELSE s[j-1]
  BY <1>0, <1>1, ConcatProperties
<1>3. DOMAIN w = 1..Len(s)+1
  BY <1>2, LenProperties
<1>4. w[1] = k /\ \A j \in 1..Len(s) : w[j+1] = s[j]
  BY <1>0, <1>1, <1>2
<1>5. \A j \in 2..Len(s)+1 : j-1 \in 1..Len(s) /\ w[j] = s[j-1]
  BY <1>0, <1>2
<1> HIDE DEF w
<1>6. IsInjective(w)
  <2> SUFFICES ASSUME NEW a \in 1..Len(s)+1, NEW b \in 1..Len(s)+1, w[a] = w[b], a # b
               PROVE  FALSE
    BY <1>3 DEF IsInjective
  <2>0. \A j \in 2..Len(s)+1 : w[j] \in ToSet(s)
    BY <1>0, <1>5 DEF ToSet
  <2>1. a # 1 /\ b # 1
    BY <1>0, <1>4, <2>0
  <2>2. a-1 \in DOMAIN s /\ b-1 \in DOMAIN s /\ s[a-1] = s[b-1]
    BY <1>0, <1>5, <2>1
  <2>3. a-1 = b-1
    BY <2>2 DEF IsInjective
  <2> QED
    BY <1>0, <2>3
<1>7. ToSet(w) = ToSet(s) \cup {k}
  <2>0. \A j \in 2..Len(s)+1 : w[j] \in ToSet(s)
    BY <1>0, <1>5 DEF ToSet
  <2>1. \A j \in DOMAIN w : w[j] \in ToSet(s) \cup {k}
    BY <1>0, <1>3, <1>4, <2>0
  <2>2. k \in ToSet(w)
    BY <1>0, <1>3, <1>4 DEF ToSet
  <2>3. \A j \in 1..Len(s) : j+1 \in DOMAIN w /\ w[j+1] = s[j]
    BY <1>0, <1>3, <1>4
  <2>4. \A x \in ToSet(s) : x \in ToSet(w)
    BY <1>0, <2>3 DEF ToSet
  <2> QED
    BY <2>1, <2>2, <2>4 DEF ToSet
<1> QED
  BY <1>2, <1>6, <1>7 DEF w

\* Dropping the back of the list drops the key at the back only.
LEMMA FrontProperties ==
    ASSUME NEW S, NEW s \in Seq(S), s # << >>, IsInjective(s)
    PROVE  /\ Front(s) \in Seq(S)
           /\ Len(Front(s)) = Len(s) - 1
           /\ IsInjective(Front(s))
           /\ ToSet(Front(s)) = ToSet(s) \ {Last(s)}
<1> DEFINE n == Len(s)
           w == SubSeq(s, 1, n-1)
<1>0. DOMAIN s = 1..n /\ n \in Nat /\ n >= 1
  BY LenProperties, EmptySeq
<1>1. /\ w \in Seq(S) /\ Len(w) = n-1
      /\ \A j \in 1..n-1 : w[j] = s[j]
  BY <1>0, SubSeqProperties
<1>2. DOMAIN w = 1..n-1
  BY <1>1, LenProperties
<1>3. Front(s) = w /\ Last(s) = s[n]
  BY DEF Front, Last
<1> HIDE DEF n, w
<1>4. IsInjective(w)
  BY <1>0, <1>1, <1>2 DEF IsInjective
<1>5. ToSet(w) = ToSet(s) \ {s[n]}
  BY <1>0, <1>1, <1>2 DEF ToSet, IsInjective
<1> QED
  BY <1>1, <1>3, <1>4, <1>5 DEF n

-----------------------------------------------------------------------------
(* The operations.                                                         *)

PartialMap(K, V) == UNION {[D -> V] : D \in SUBSET K}

Caches(K, V, n) ==
    {c \in [cap : {n}, ll : Seq(K), items : PartialMap(K, V)] : LruWellFormed(c)}

LEMMA CachesIntro ==
    ASSUME NEW K, NEW V, NEW l \in Seq(K), NEW m \in PartialMap(K, V),
           NEW n \in Nat \ {0}, IsInjective(l), Len(l) <= n, DOMAIN m = ToSet(l)
    PROVE  [cap |-> n, ll |-> l, items |-> m] \in Caches(K, V, n)
<1> DEFINE c == [cap |-> n, ll |-> l, items |-> m]
<1>1. /\ c \in [cap : {n}, ll : Seq(K), items : PartialMap(K, V)]
      /\ c.cap = n /\ c.ll = l /\ c.items = m
  OBVIOUS
<1>2. LruWellFormed(c)
  BY <1>1 DEF LruWellFormed
<1> QED
  BY <1>1, <1>2 DEF Caches

LEMMA PartialMapElim ==
    ASSUME NEW K, NEW V, NEW f \in PartialMap(K, V)
    PROVE  /\ DOMAIN f \subseteq K
           /\ f \in [DOMAIN f -> V]
BY DEF PartialMap

LEMMA BindType ==
    ASSUME NEW K, NEW V, NEW k \in K, NEW v \in V
    PROVE  \A f \in PartialMap(K, V) :
              /\ Bind(f, k, v) \in PartialMap(K, V)
              /\ DOMAIN Bind(f, k, v) = DOMAIN f \cup {k}
<1> SUFFICES ASSUME NEW f \in PartialMap(K, V)
             PROVE  /\ Bind(f, k, v) \in PartialMap(K, V)
                    /\ DOMAIN Bind(f, k, v) = DOMAIN f \cup {k}
  OBVIOUS
<1>1. DOMAIN f \cup {k} \in SUBSET K /\ f \in [DOMAIN f -> V]
  BY PartialMapElim
<1>2. Bind(f, k, v) \in [DOMAIN f \cup {k} -> V]
  BY <1>1 DEF Bind
<1> QED
  BY <1>1, <1>2 DEF PartialMap

LEMMA UnbindType ==
    ASSUME NEW K, NEW V, NEW f \in PartialMap(K, V), NEW k
    PROVE  /\ Unbind(f, k) \in PartialMap(K, V)
           /\ DOMAIN Unbind(f, k) = DOMAIN f \ {k}
<1>1. DOMAIN f \ {k} \in SUBSET K /\ f \in [DOMAIN f -> V]
  BY PartialMapElim
<1>2. Unbind(f, k) \in [DOMAIN f \ {k} -> V]
  BY <1>1 DEF Unbind, Restrict
<1> QED
  BY <1>1, <1>2 DEF PartialMap

LEMMA MoveToFrontProperties ==
    ASSUME NEW K, NEW s \in Seq(K), NEW k \in K, IsInjective(s)
    PROVE  /\ MoveToFront(s, k) \in Seq(K)
           /\ Len(MoveToFront(s, k)) = Len(s)
           /\ IsInjective(MoveToFront(s, k))
           /\ ToSet(MoveToFront(s, k)) = ToSet(s)
<1>1. CASE k \in ToSet(s)
  <2> DEFINE w == Without(s, k)
  <2>1. /\ w \in Seq(K) /\ Len(w) = Len(s) - 1
        /\ IsInjective(w) /\ ToSet(w) = ToSet(s) \ {k}
    BY <1>1, WithoutProperties
  <2>2. MoveToFront(s, k) = << k >> \o w
    BY <1>1 DEF MoveToFront
  <2>5. k \notin ToSet(w)
    BY <2>1
  <2> HIDE DEF w
  <2>3. /\ << k >> \o w \in Seq(K) /\ Len(<< k >> \o w) = Len(w) + 1
        /\ IsInjective(<< k >> \o w) /\ ToSet(<< k >> \o w) = ToSet(w) \cup {k}
    BY <2>1, <2>5, PushFrontProperties
  <2>4. Len(s) \in Nat /\ Len(w) + 1 = Len(s)
    BY <2>1, LenProperties
  <2>6. ToSet(w) \cup {k} = ToSet(s)
    BY <1>1, <2>1
  <2> QED
    BY <2>2, <2>3, <2>4, <2>6
<1>2. CASE k \notin ToSet(s)
  BY <1>2 DEF MoveToFront
<1> QED
  BY <1>1, <1>2

\* A hit reorders the list and leaves the map alone.
LEMMA LruGetPreserves ==
    ASSUME NEW K, NEW V, NEW n \in Nat \ {0}, NEW c \in Caches(K, V, n), NEW k \in K
    PROVE  /\ LruGet(c, k) \in Caches(K, V, n)
           /\ LruGet(c, k).items = c.items
<1>1. LruGet(c, k) = [cap |-> n, ll |-> MoveToFront(c.ll, k), items |-> c.items]
  BY DEF LruGet, Caches
<1> QED
  BY <1>1, MoveToFrontProperties DEF Caches, LruWellFormed

\* A put adds its own binding and loses at most one other, never changing
\* the value of a key it is not about.
LEMMA LruPutPreserves ==
    ASSUME NEW K, NEW V, NEW n \in Nat \ {0}, NEW c \in Caches(K, V, n), NEW k \in K, NEW v \in V
    PROVE  /\ LruPut(c, k, v) \in Caches(K, V, n)
           /\ \A x \in DOMAIN LruPut(c, k, v).items :
                 \/ x = k /\ LruPut(c, k, v).items[x] = v
                 \/ x # k /\ x \in DOMAIN c.items
                         /\ LruPut(c, k, v).items[x] = c.items[x]
<1> DEFINE m == Bind(c.items, k, v)
<1>0. /\ c.cap = n /\ c.ll \in Seq(K) /\ c.items \in PartialMap(K, V)
      /\ IsInjective(c.ll) /\ Len(c.ll) <= n
      /\ DOMAIN c.items = ToSet(c.ll) /\ Len(c.ll) \in Nat
  BY LenProperties DEF Caches, LruWellFormed
<1>1. /\ m \in PartialMap(K, V) /\ DOMAIN m = DOMAIN c.items \cup {k}
      /\ \A x \in DOMAIN m :
            \/ x = k /\ m[x] = v
            \/ x # k /\ x \in DOMAIN c.items /\ m[x] = c.items[x]
  <2>1. m \in PartialMap(K, V) /\ DOMAIN m = DOMAIN c.items \cup {k}
    <3>1. \A f \in PartialMap(K, V) :
             /\ Bind(f, k, v) \in PartialMap(K, V)
             /\ DOMAIN Bind(f, k, v) = DOMAIN f \cup {k}
      BY BindType
    <3> QED
      BY <1>0, <3>1
  <2>2. \A x \in DOMAIN c.items \cup {k} :
           m[x] = IF x = k THEN v ELSE c.items[x]
    BY DEF Bind
  <2> HIDE DEF m
  <2> QED
    BY <2>1, <2>2
<1> HIDE DEF m
<1>2. CASE Cached(c, k)
  <2>1. LruPut(c, k, v) = [cap |-> n, ll |-> MoveToFront(c.ll, k), items |-> m]
    BY <1>0, <1>2 DEF LruPut, m
  <2>2. DOMAIN m = DOMAIN c.items
    BY <1>1, <1>2 DEF Cached
  <2>3. LruPut(c, k, v) \in Caches(K, V, n)
    BY <1>0, <1>1, <2>1, <2>2, MoveToFrontProperties DEF Caches, LruWellFormed
  <2> QED
    BY <1>1, <2>1, <2>3
<1>3. CASE ~Cached(c, k)
  <2> DEFINE l == << k >> \o c.ll
  <2>1. /\ l \in Seq(K) /\ Len(l) = Len(c.ll) + 1
        /\ IsInjective(l) /\ ToSet(l) = DOMAIN m
    BY <1>0, <1>1, <1>3, PushFrontProperties DEF Cached
  <2>2. LruPut(c, k, v) = IF Len(l) > n
                            THEN [cap |-> n, ll |-> Front(l), items |-> Unbind(m, Last(l))]
                            ELSE [cap |-> n, ll |-> l, items |-> m]
    BY <1>0, <1>3 DEF LruPut, LruInsert, m
  <2> HIDE DEF l
  <2>3. CASE Len(l) > n
    <3>1. l # << >>
      BY <1>0, <2>1, EmptySeq
    <3>2. /\ Front(l) \in Seq(K) /\ Len(Front(l)) = Len(l) - 1
          /\ IsInjective(Front(l)) /\ ToSet(Front(l)) = DOMAIN m \ {Last(l)}
      BY <2>1, <3>1, FrontProperties
    <3>3. /\ Unbind(m, Last(l)) \in PartialMap(K, V)
          /\ DOMAIN Unbind(m, Last(l)) = DOMAIN m \ {Last(l)}
          /\ \A x \in DOMAIN m \ {Last(l)} : Unbind(m, Last(l))[x] = m[x]
      BY <1>1, UnbindType DEF Unbind, Restrict
    <3>4. LruPut(c, k, v) = [cap |-> n, ll |-> Front(l), items |-> Unbind(m, Last(l))]
      BY <2>2, <2>3
    <3>5. Len(Front(l)) <= n
      BY <1>0, <2>1, <3>2
    <3>6. [cap |-> n, ll |-> Front(l), items |-> Unbind(m, Last(l))] \in Caches(K, V, n)
      <4>1. DOMAIN Unbind(m, Last(l)) = ToSet(Front(l))
        BY <3>2, <3>3
      <4> QED
        BY <3>2, <3>3, <3>5, <4>1, CachesIntro
    <3> QED
      BY <1>1, <3>3, <3>4, <3>6
  <2>4. CASE ~(Len(l) > n)
    <3>1. LruPut(c, k, v) = [cap |-> n, ll |-> l, items |-> m]
      BY <2>2, <2>4
    <3>2. Len(l) <= n
      BY <1>0, <2>1, <2>4
    <3>3. [cap |-> n, ll |-> l, items |-> m] \in Caches(K, V, n)
      BY <1>1, <2>1, <3>2, CachesIntro
    <3> QED
      BY <1>1, <3>1, <3>3
  <2> QED
    BY <2>3, <2>4
<1> QED
  BY <1>2, <1>3

\* A removal drops its own binding only.
LEMMA LruRemovePreserves ==
    ASSUME NEW K, NEW V, NEW n \in Nat \ {0}, NEW c \in Caches(K, V, n), NEW k \in K
    PROVE  /\ LruRemove(c, k) \in Caches(K, V, n)
           /\ DOMAIN LruRemove(c, k).items = DOMAIN c.items \ {k}
           /\ \A x \in DOMAIN c.items \ {k} :
                 LruRemove(c, k).items[x] = c.items[x]
<1>0. /\ c.cap = n /\ c.ll \in Seq(K) /\ c.items \in PartialMap(K, V)
      /\ IsInjective(c.ll) /\ Len(c.ll) <= n
      /\ DOMAIN c.items = ToSet(c.ll) /\ Len(c.ll) \in Nat
  BY LenProperties DEF Caches, LruWellFormed
<1>1. CASE Cached(c, k)
  <2> DEFINE w == Without(c.ll, k)
             items == Unbind(c.items, k)
  <2>1. LruRemove(c, k) = [cap |-> n, ll |-> w, items |-> items]
    BY <1>0, <1>1 DEF LruRemove
  <2>2. /\ w \in Seq(K) /\ Len(w) = Len(c.ll) - 1
        /\ IsInjective(w) /\ ToSet(w) = ToSet(c.ll) \ {k}
    BY <1>0, <1>1, WithoutProperties DEF Cached
  <2>3. /\ items \in PartialMap(K, V) /\ DOMAIN items = DOMAIN c.items \ {k}
        /\ \A x \in DOMAIN c.items \ {k} : items[x] = c.items[x]
    BY <1>0, UnbindType DEF Unbind, Restrict
  <2> HIDE DEF w, items
  <2>4. Len(w) <= n
    BY <1>0, <2>2
  <2>5. DOMAIN items = ToSet(w)
    BY <1>0, <2>2, <2>3
  <2>6. [cap |-> n, ll |-> w, items |-> items] \in Caches(K, V, n)
    BY <2>2, <2>3, <2>4, <2>5, CachesIntro
  <2> QED
    BY <2>1, <2>3, <2>6
<1>2. CASE ~Cached(c, k)
  BY <1>2 DEF LruRemove, Cached
<1> QED
  BY <1>1, <1>2

LEMMA NewLRUType ==
    ASSUME NEW K, NEW V, NEW n \in Nat \ {0}
    PROVE  /\ NewLRU(n) \in Caches(K, V, n)
           /\ DOMAIN NewLRU(n).items = {}
<1>1. << >> \in Seq(K) /\ Len(<< >>) = 0 /\ ToSet(<< >>) = {} /\ IsInjective(<< >>)
  BY EmptySeq DEF ToSet, IsInjective
<1>2. [x \in {} |-> x] \in PartialMap(K, V) /\ DOMAIN [x \in {} |-> x] = {}
  <2>1. [x \in {} |-> x] \in [{} -> V]
    OBVIOUS
  <2> QED
    BY <2>1 DEF PartialMap
<1>3. Len(<< >>) <= n
  BY <1>1
<1>4. [cap |-> n, ll |-> << >>, items |-> [x \in {} |-> x]] \in Caches(K, V, n)
  BY <1>1, <1>2, <1>3, CachesIntro
<1> QED
  BY <1>2, <1>4 DEF NewLRU
=============================================================================
