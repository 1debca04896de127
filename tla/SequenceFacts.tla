------------------------------ MODULE SequenceFacts ------------------------------
(***************************************************************************)
(* The facts that the other proofs rest on: what appending an entry to a   *)
(* queue and taking its first entry out do to the entries, what a queue    *)
(* holds, and induction over numbers, stated about a set (no operator has  *)
(* to be passed for that).                                                 *)
(***************************************************************************)
EXTENDS Integers, Sequences, FiniteSets, SequenceTheorems, FiniteSetTheorems,
        WellFoundedInduction, TLAPS

LEMMA AppendEntries ==
    ASSUME NEW S, NEW s \in Seq(S), NEW e \in S
    PROVE  /\ Append(s, e) \in Seq(S)
           /\ Len(Append(s, e)) = Len(s) + 1
           /\ \A i \in 1..Len(s) : Append(s, e)[i] = s[i]
           /\ Append(s, e)[Len(s) + 1] = e
           /\ Append(s, e) # <<>>
           /\ s # <<>> => Head(Append(s, e)) = Head(s)
BY AppendProperties, HeadTailAppend, EmptySeq, LenProperties

LEMMA TailEntries ==
    ASSUME NEW S, NEW s \in Seq(S), s # <<>>
    PROVE  /\ Len(s) \in Nat \ {0}
           /\ Tail(s) \in Seq(S)
           /\ Len(Tail(s)) = Len(s) - 1
           /\ \A i \in 1..Len(Tail(s)) : Tail(s)[i] = s[i + 1]
           /\ Head(s) = s[1]
           /\ Head(s) \in S
BY HeadTailProperties, EmptySeq, LenProperties

(* The queue holds the entry.                                              *)
Has(queue, entry) == \E i \in 1..Len(queue) : queue[i] = entry

(* The queue holds the entry at most once.                                 *)
Once(queue, entry) ==
    \A i, j \in 1..Len(queue) : queue[i] = entry /\ queue[j] = entry => i = j

(* A new entry is held, and those that were before.                        *)
LEMMA AppendHas ==
    ASSUME NEW S, NEW s \in Seq(S), NEW x \in S, NEW e
    PROVE  /\ Has(Append(s, x), e) <=> Has(s, e) \/ e = x
           /\ Once(s, e) /\ (Has(s, e) => e # x) => Once(Append(s, x), e)
<1>1. /\ Len(s) \in Nat /\ Len(Append(s, x)) = Len(s) + 1
      /\ \A i \in 1..Len(s) : Append(s, x)[i] = s[i]
      /\ Append(s, x)[Len(s) + 1] = x
  BY AppendEntries, LenProperties
<1> DEFINE a == Append(s, x)
<1> DEFINE n == Len(s)
<1> HIDE DEF a, n
<1>2. n \in Nat /\ Len(a) = n + 1 /\ a[n + 1] = x /\ \A i \in 1..n : a[i] = s[i]
  BY <1>1 DEF a, n
<1>3. Has(a, e) <=> (\E i \in 1..n : s[i] = e) \/ e = x
  <2>1. \A i \in 1..(n + 1) : i \in 1..n \/ i = n + 1
    BY <1>2
  <2>2. n + 1 \in 1..(n + 1) /\ 1..n \subseteq 1..(n + 1)
    BY <1>2
  <2> QED BY <1>2, <2>1, <2>2 DEF Has
<1>4. ASSUME Once(s, e), Has(s, e) => e # x PROVE Once(a, e)
  <2> SUFFICES ASSUME NEW i \in 1..(n + 1), NEW j \in 1..(n + 1), a[i] = e, a[j] = e
               PROVE  i = j
    BY <1>2 DEF Once
  <2>1. CASE i \in 1..n /\ j \in 1..n
    BY <1>2, <1>4, <2>1 DEF Once, n
  <2>2. CASE i = n + 1 \/ j = n + 1
    <3>1. e = x
      BY <1>2, <2>2
    <3>2. \A k \in 1..n : a[k] # e
      BY <1>2, <1>4, <3>1 DEF Has, n
    <3> QED BY <1>2, <3>2
  <2> QED BY <1>2, <2>1, <2>2
<1> QED BY <1>3, <1>4 DEF Has, a, n

(* An entry that the queue holds once is gone when it was the first.       *)
LEMMA TailHas ==
    ASSUME NEW S, NEW s \in Seq(S), s # <<>>, NEW e
    PROVE  /\ Has(s, Head(s))
           /\ Has(s, e) <=> Has(Tail(s), e) \/ e = Head(s)
           /\ Once(s, e) => Once(Tail(s), e) /\ (Has(Tail(s), e) => e # Head(s))
<1> DEFINE t == Tail(s)
<1> DEFINE n == Len(t)
<1>1. n \in Nat /\ Len(s) = n + 1 /\ s[1] = Head(s) /\ \A i \in 1..n : t[i] = s[i + 1]
  BY TailEntries
<1> HIDE DEF t, n
<1>2. /\ \A i \in 1..n : i + 1 \in 1..(n + 1)
      /\ \A i \in 1..(n + 1) : i = 1 \/ (i - 1 \in 1..n /\ (i - 1) + 1 = i)
      /\ 1 \in 1..(n + 1)
  BY <1>1
<1>3. Has(s, Head(s))
  BY <1>1, <1>2 DEF Has
<1>4. Has(s, e) <=> Has(t, e) \/ e = Head(s)
  <2>1. ASSUME Has(s, e) PROVE Has(t, e) \/ e = Head(s)
    <3>1. PICK i \in 1..(n + 1) : s[i] = e
      BY <1>1, <2>1 DEF Has
    <3>2. CASE i = 1
      BY <1>1, <3>1, <3>2
    <3>3. CASE i - 1 \in 1..n /\ (i - 1) + 1 = i
      BY <1>1, <3>1, <3>3 DEF Has, n
    <3> QED BY <1>2, <3>2, <3>3
  <2>2. ASSUME Has(t, e) PROVE Has(s, e)
    <3>1. PICK i \in 1..n : t[i] = e
      BY <2>2 DEF Has, n
    <3> QED BY <1>1, <1>2, <3>1 DEF Has
  <2> QED BY <1>3, <2>1, <2>2
<1>5. ASSUME Once(s, e) PROVE Once(t, e) /\ (Has(t, e) => e # Head(s))
  <2>1. ASSUME NEW i \in 1..n, NEW j \in 1..n, t[i] = e, t[j] = e PROVE i = j
    <3>1. i + 1 = j + 1
      BY <1>1, <1>2, <1>5, <2>1 DEF Once
    <3> QED BY <1>1, <3>1
  <2>2. ASSUME NEW i \in 1..n, t[i] = e PROVE e # Head(s)
    <3>1. i + 1 # 1
      BY <1>1
    <3> QED BY <1>1, <1>2, <1>5, <2>2, <3>1 DEF Once
  <2> QED BY <2>1, <2>2 DEF Once, Has, n
<1> QED BY <1>3, <1>4, <1>5 DEF t

(* Where a queue holds entries of a kind it holds once at most.             *)
LEMMA OnePlace ==
    ASSUME NEW S, NEW s \in Seq(S), NEW entries,
           \A i, j \in 1..Len(s) : s[i] \in entries /\ s[j] \in entries => i = j
    PROVE  /\ Cardinality({i \in 1..Len(s) : s[i] \in entries}) \in {0, 1}
           /\ Cardinality({i \in 1..Len(s) : s[i] \in entries}) = 1
                 <=> \E i \in 1..Len(s) : s[i] \in entries
<1> DEFINE places == {i \in 1..Len(s) : s[i] \in entries}
<1>1. CASE places = {}
  <2>1. Cardinality(places) = 0
    BY <1>1, FS_EmptySet
  <2>2. ~\E i \in 1..Len(s) : s[i] \in entries
    BY <1>1
  <2> QED BY <2>1, <2>2
<1>2. CASE places # {}
  <2>1. PICK i \in 1..Len(s) : s[i] \in entries
    BY <1>2
  <2>2. places = {i}
    BY <2>1
  <2>3. Cardinality(places) = 1
    BY <2>2, FS_Singleton
  <2> QED BY <2>1, <2>3
<1> QED BY <1>1, <1>2

(* A set of two elements, or less.                                         *)
LEMMA AtMostTwo ==
    ASSUME NEW S, NEW a, NEW b, S \subseteq {a, b}
    PROVE  Cardinality(S) <= 2
<1>1. IsFiniteSet({a}) /\ Cardinality({a}) = 1
  BY FS_Singleton
<1>2. IsFiniteSet({a} \cup {b}) /\ Cardinality({a} \cup {b}) \in {1, 2}
  BY <1>1, FS_AddElement
<1>3. S \subseteq {a} \cup {b}
  OBVIOUS
<1>4. IsFiniteSet(S) /\ Cardinality(S) <= Cardinality({a} \cup {b})
  BY <1>2, <1>3, FS_Subset
<1>5. Cardinality(S) \in Nat
  BY <1>4, FS_CardinalityType
<1> QED BY <1>2, <1>4, <1>5

(* Concatenation.                                                          *)
LEMMA AppendToConcat ==
    ASSUME NEW S, NEW s \in Seq(S), NEW t \in Seq(S), NEW e \in S
    PROVE  s \o Append(t, e) = Append(s \o t, e)
<1>1. <<e>> \in Seq(S) /\ s \o t \in Seq(S)
  BY ConcatProperties
<1>2. Append(s \o t, e) = (s \o t) \o <<e>> /\ Append(t, e) = t \o <<e>>
  BY <1>1, AppendIsConcat
<1>3. (s \o t) \o <<e>> = s \o (t \o <<e>>)
  BY <1>1, ConcatAssociative
<1> QED BY <1>2, <1>3

LEMMA SplitAt ==
    ASSUME NEW S, NEW s \in Seq(S), NEW n \in 0..Len(s)
    PROVE  /\ SubSeq(s, 1, n) \in Seq(S) /\ Len(SubSeq(s, 1, n)) = n
           /\ SubSeq(s, n + 1, Len(s)) \in Seq(S)
           /\ SubSeq(s, 1, n) \o SubSeq(s, n + 1, Len(s)) = s
<1>0. Len(s) \in Nat /\ n \in Nat /\ n <= Len(s) /\ \A i \in 1..Len(s) : s[i] \in S
  BY LenProperties
<1>1. SubSeq(s, 1, n) \in Seq(S) /\ Len(SubSeq(s, 1, n)) = IF 1 <= n THEN n - 1 + 1 ELSE 0
  <2>1. \A i \in 1..n : s[i] \in S
    BY <1>0
  <2> QED BY <1>0, <2>1, SubSeqProperties
<1>2. SubSeq(s, n + 1, Len(s)) \in Seq(S)
  <2>1. \A i \in (n + 1)..Len(s) : s[i] \in S
    BY <1>0
  <2>2. n + 1 \in Int /\ Len(s) \in Int
    BY <1>0
  <2> QED BY <2>1, <2>2, SubSeqProperties
<1>3. SubSeq(s, 1, n) \o SubSeq(s, n + 1, Len(s)) = SubSeq(s, 1, Len(s))
  <2>1. 1 \in 1..(Len(s) + 1) /\ n \in (1 - 1)..Len(s) /\ Len(s) \in n..Len(s)
    BY <1>0
  <2> QED BY <2>1, ConcatAdjacentSubSeq
<1>4. Len(SubSeq(s, 1, n)) = n
  BY <1>0, <1>1
<1> QED BY <1>1, <1>2, <1>3, <1>4, SubSeqFull

LEMMA MoveHead ==
    ASSUME NEW S, NEW s \in Seq(S), NEW t \in Seq(S), t # <<>>
    PROVE  /\ Append(s, Head(t)) \in Seq(S) /\ Tail(t) \in Seq(S)
           /\ Append(s, Head(t)) \o Tail(t) = s \o t
<1>1. Head(t) \in S /\ Tail(t) \in Seq(S) /\ Len(t) \in Nat \ {0} /\ Head(t) = t[1]
  BY TailEntries
<1>2. <<Head(t)>> \in Seq(S) /\ Append(s, Head(t)) = s \o <<Head(t)>>
  BY <1>1, AppendIsConcat
<1>3. t = <<Head(t)>> \o Tail(t)
  <2>1. 1 \in 1..Len(t) /\ Len(t) \in 1..Len(t)
    BY <1>1
  <2>2. SubSeq(t, 1, Len(t)) = <<t[1]>> \o SubSeq(t, 1 + 1, Len(t))
    BY <2>1, SubSeqRecursiveFirst
  <2>3. 1 + 1 = 2
    OBVIOUS
  <2> QED BY <1>1, <2>2, <2>3, SubSeqFull, TailIsSubSeq
<1>4. (s \o <<Head(t)>>) \o Tail(t) = s \o (<<Head(t)>> \o Tail(t))
  BY <1>1, <1>2, ConcatAssociative
<1>5. Append(s, Head(t)) \in Seq(S)
  BY <1>1, AppendProperties
<1> QED BY <1>1, <1>2, <1>3, <1>4, <1>5

---------------------------------------------------------------------------------
(* A set of numbers that is not empty has a least element.                 *)
LEMMA LeastNumber ==
    ASSUME NEW T \in SUBSET Nat, T # {}
    PROVE  \E x \in T : \A y \in T : x <= y
<1> DEFINE R == OpToRel(<, Nat)
<1>1. IsWellFoundedOn(R, Nat)
  BY NatLessThanWellFounded
<1>2. \A m, n \in Nat : m < n => <<m, n>> \in R
  BY DEF OpToRel
<1> HIDE DEF R
<1>3. PICK x \in T : \A y \in T : ~(<<y, x>> \in R)
  BY <1>1, WFMin
<1>4. ASSUME NEW y \in T PROVE x <= y
  <2>1. ~(y < x)
    BY <1>2, <1>3
  <2> QED BY <2>1
<1> QED BY <1>4

(* Induction.                                                              *)
LEMMA AllNumbers ==
    ASSUME NEW S, 0 \in S, \A n \in Nat : n \in S => n + 1 \in S
    PROVE  Nat \subseteq S
<1> DEFINE T == Nat \ S
<1> SUFFICES ASSUME T # {} PROVE FALSE
  OBVIOUS
<1>1. PICK x \in T : \A y \in T : x <= y
  BY LeastNumber
<1>2. x # 0 /\ x - 1 \in Nat /\ x - 1 < x
  BY DEF T
<1>3. x - 1 \in S
  BY <1>1, <1>2
<1>4. (x - 1) + 1 = x
  BY DEF T
<1> QED BY <1>2, <1>3, <1>4

(* The last place of a kind.                                               *)
LEMMA LastPlace ==
    ASSUME NEW n \in Nat, NEW I \in SUBSET (1..n), I # {}
    PROVE  \E i \in I : \A j \in I : j <= i
<1> DEFINE T == {n - i : i \in I}
<1>1. T \in SUBSET Nat /\ T # {}
  <2>1. ASSUME NEW i \in I PROVE n - i \in Nat
    <3>1. i \in 1..n
      OBVIOUS
    <3> QED BY <3>1
  <2> QED BY <2>1
<1> HIDE DEF T
<1>2. PICK x \in T : \A y \in T : x <= y
  BY <1>1, LeastNumber
<1>3. PICK i \in I : x = n - i
  BY DEF T
<1>4. ASSUME NEW j \in I PROVE j <= i
  <2>1. n - j \in T
    BY DEF T
  <2>2. n - i <= n - j
    BY <1>2, <1>3, <2>1
  <2> QED BY <2>2
<1> QED BY <1>4

(* Induction, up to some number.                                           *)
LEMMA NumbersUpTo ==
    ASSUME NEW N \in Nat, NEW S, 0 \in S, \A n \in 1..N : n - 1 \in S => n \in S
    PROVE  0..N \subseteq S
<1> DEFINE T == {n \in Nat : n <= N => n \in S}
<1>1. 0 \in T
  OBVIOUS
<1>2. ASSUME NEW n \in Nat, n \in T PROVE n + 1 \in T
  <2>1. CASE n + 1 <= N
    <3>1. n + 1 \in 1..N /\ (n + 1) - 1 = n /\ n <= N
      BY <2>1
    <3> QED BY <1>2, <3>1
  <2> QED BY <2>1
<1> HIDE DEF T
<1>3. Nat \subseteq T
  BY <1>1, <1>2, AllNumbers
<1> QED BY <1>3 DEF T

(* A function on 0..N that is given by its value for 0 and by a step.      *)
Stepwise(g, N, a, step) ==
    g[0] = a /\ \A n \in 1..N : g[n] = step[n][g[n - 1]]

(* There is one, so that what a recursive definition chooses is such.      *)
LEMMA Recursion ==
    ASSUME NEW N \in Nat, NEW S, NEW a \in S, NEW step \in [1..N -> [S -> S]]
    PROVE  \E g \in [0..N -> S] : Stepwise(g, N, a, step)
<1> DEFINE T == {n \in 0..N : \E g \in [0..n -> S] : Stepwise(g, n, a, step)}
<1>1. 0 \in T
  <2> DEFINE g == [i \in 0..0 |-> a]
  <2>1. g \in [0..0 -> S] /\ Stepwise(g, 0, a, step) /\ 0 \in 0..N
    BY DEF Stepwise
  <2> HIDE DEF g
  <2> QED BY <2>1
<1>2. ASSUME NEW n \in 1..N, n - 1 \in T PROVE n \in T
  <2>1. PICK g \in [0..(n - 1) -> S] : Stepwise(g, n - 1, a, step)
    BY <1>2
  <2> DEFINE h == [i \in 0..n |-> IF i = n THEN step[n][g[n - 1]] ELSE g[i]]
  <2>2. \A i \in 0..n : i # n => i \in 0..(n - 1)
    OBVIOUS
  <2>3. n - 1 \in 0..(n - 1) /\ step[n][g[n - 1]] \in S
    OBVIOUS
  <2>4. h \in [0..n -> S] /\ h[0] = a
    BY <2>1, <2>2, <2>3 DEF Stepwise
  <2>5. ASSUME NEW i \in 1..n PROVE h[i] = step[i][h[i - 1]]
    <3>1. i - 1 \in 0..n /\ i - 1 # n /\ h[i - 1] = g[i - 1]
      OBVIOUS
    <3>2. CASE i = n
      BY <3>1, <3>2
    <3>3. CASE i # n
      <4>1. i \in 1..(n - 1) /\ h[i] = g[i]
        BY <3>3
      <4>2. g[i] = step[i][g[i - 1]]
        BY <2>1, <4>1 DEF Stepwise
      <4> HIDE DEF h
      <4> QED BY <3>1, <4>1, <4>2
    <3> QED BY <3>2, <3>3
  <2> HIDE DEF h
  <2>6. Stepwise(h, n, a, step)
    BY <2>4, <2>5 DEF Stepwise
  <2>7. n \in 0..N
    OBVIOUS
  <2> QED BY <2>4, <2>6, <2>7
<1> HIDE DEF T
<1>3. 0..N \subseteq T
  BY <1>1, <1>2, NumbersUpTo
<1> QED BY <1>3 DEF T
(* All values are in a set that the first is in and that no step leaves.   *)
LEMMA ValuesIn ==
    ASSUME NEW N \in Nat, NEW S, NEW f, f[0] \in S,
           \A n \in 1..N : f[n - 1] \in S => f[n] \in S
    PROVE  \A n \in 0..N : f[n] \in S
<1> DEFINE T == {n \in 0..N : f[n] \in S}
<1>1. 0 \in T
  OBVIOUS
<1>2. ASSUME NEW n \in 1..N, n - 1 \in T PROVE n \in T
  BY <1>2
<1> HIDE DEF T
<1>3. 0..N \subseteq T
  BY <1>1, <1>2, NumbersUpTo
<1> QED BY <1>3 DEF T
(* Division with remainder, the arithmetic of a grid.                      *)
LEMMA Division ==
    ASSUME NEW n \in Nat \ {0}, NEW c \in 0..(n - 1), NEW r \in Nat
    PROVE  (c + r * n) % n = c /\ (c + r * n) \div n = r
OBVIOUS

LEMMA Remainder ==
    ASSUME NEW n \in Nat \ {0}, NEW k \in Nat
    PROVE  /\ k % n \in 0..(n - 1) /\ k \div n \in Nat
           /\ k = (k % n) + (k \div n) * n
OBVIOUS
==================================================================================
