----------------------------- MODULE FilterProofs -----------------------------
(***************************************************************************)
(* What Filter returns, for every sequence and every set.                  *)
(*                                                                         *)
(* The facts about prefixes are proved by induction.  The induction        *)
(* theorems of the library take an operator; the one used here (NatInd)    *)
(* takes a set, and follows from the least element of its complement.      *)
(***************************************************************************)
EXTENDS Filters, SequenceTheorems, WellFoundedInduction, TLAPS

\* A set of numbers that is not empty has a least one.
LEMMA LeastOf ==
  ASSUME NEW T, T \subseteq Nat, T # {}
  PROVE  \E x \in T : \A y \in T : x <= y
<1> DEFINE R == OpToRel(<, Nat)
<1>1. \A x, y \in Nat : <<x, y>> \in R <=> x < y
  BY DEF OpToRel
<1>2. IsWellFoundedOn(R, Nat)
  BY NatLessThanWellFounded
<1> HIDE DEF R
<1>3. PICK x \in T : \A y \in T : ~(<<y, x>> \in R)
  BY <1>2, WFMin
<1>4. ASSUME NEW y \in T PROVE x <= y
  <2>1. x \in Nat /\ y \in Nat
    BY <1>3
  <2>2. ~(y < x)
    BY <1>1, <1>3, <2>1
  <2> QED BY <2>1, <2>2
<1> QED BY <1>4

\* Induction up to a bound: a set with 0 that has, with every number below the
\* bound, its successor.
LEMMA NatInd ==
  ASSUME NEW L \in Nat, NEW T, 0 \in T, \A n \in 0..(L - 1) : n \in T => n + 1 \in T
  PROVE  \A n \in 0..L : n \in T
<1> DEFINE F == {n \in 0..L : n \notin T}
<1> SUFFICES ASSUME F # {} PROVE FALSE
  OBVIOUS
<1>1. F \subseteq Nat
  OBVIOUS
<1> HIDE DEF F
<1>2. PICK x \in F : \A y \in F : x <= y
  BY <1>1, LeastOf
<1> USE DEF F
<1>3. x \in 0..L /\ x # 0 /\ x \notin T
  BY <1>2
<1>4. x - 1 \in 0..(L - 1) /\ (x - 1) + 1 = x /\ x - 1 \in 0..L /\ ~(x <= x - 1)
  BY <1>3
<1>5. x - 1 \in T
  BY <1>2, <1>4
<1> QED BY <1>3, <1>4, <1>5

-----------------------------------------------------------------------------
(* Concatenation under a name: its laws are cited, not worked out anew.    *)

Cat(p, q) == p \o q

\* A concatenation has its parts' type; the empty sequence is its unit.
LEMMA CatType ==
  ASSUME NEW S, NEW p \in Seq(S), NEW q \in Seq(S)
  PROVE  Cat(p, q) \in Seq(S) /\ Cat(p, << >>) = p /\ Cat(<< >>, p) = p
BY DEF Cat

\* Concatenation is associative.
LEMMA CatAssoc ==
  ASSUME NEW S, NEW p \in Seq(S), NEW q \in Seq(S), NEW r \in Seq(S)
  PROVE  Cat(Cat(p, q), r) = Cat(p, Cat(q, r))
BY SMTT(60) DEF Cat

\* To append to a concatenation is to append to its second part.
LEMMA CatAppend ==
  ASSUME NEW S, NEW p \in Seq(S), NEW q \in Seq(S), NEW x \in S
  PROVE  Append(Cat(p, q), x) = Cat(p, Append(q, x))
BY SMTT(60) DEF Cat

-----------------------------------------------------------------------------
(* Kept, prefix by prefix.                                                 *)

\* A recursive definition over 0..n has a solution when each value follows from
\* the one before: solutions for the prefixes of s, put together.
Step(s, T, g, i) == IF s[i] \in T THEN Append(g[i - 1], s[i]) ELSE g[i - 1]
Solves(s, T, n, g) ==
    g = [i \in 0..n |-> IF i = 0 THEN << >> ELSE Step(s, T, g, i)]

\* The recursive definition of Kept has a solution, for every sequence.
LEMMA Solvable ==
  ASSUME NEW S, NEW s \in Seq(S), NEW T
  PROVE  \E g : Solves(s, T, Len(s), g)
<1> DEFINE N == {n \in Nat : \E g : Solves(s, T, n, g)}
<1>1. 0 \in N
  <2> DEFINE g == [i \in 0..0 |-> << >>]
  <2>1. g = [i \in 0..0 |-> IF i = 0 THEN << >> ELSE Step(s, T, g, i)]
    OBVIOUS
  <2>2. Solves(s, T, 0, g)
    BY <2>1 DEF Solves
  <2> QED BY <2>2
<1>2. ASSUME NEW n \in 0..(Len(s) - 1), n \in N PROVE n + 1 \in N
  <2>1. PICK g : Solves(s, T, n, g)
    BY <1>2
  <2> DEFINE h == [i \in 0..(n + 1) |-> IF i = n + 1 THEN Step(s, T, g, n + 1) ELSE g[i]]
  <2>0. n \in Nat
    OBVIOUS
  <2>2. ASSUME NEW i \in 0..(n + 1)
        PROVE  h[i] = IF i = 0 THEN << >> ELSE Step(s, T, h, i)
    <3>1. CASE i = 0
      BY <2>0, <2>1, <3>1 DEF Solves
    <3>2. CASE i # 0 /\ i <= n
      <4>1. i \in 0..n /\ i - 1 \in 0..(n + 1) /\ i # n + 1 /\ i - 1 # n + 1
        BY <2>0, <3>2
      <4>2. h[i] = g[i] /\ h[i - 1] = g[i - 1]
        BY <4>1
      <4>3. g[i] = Step(s, T, g, i)
        BY <2>1, <3>2, <4>1 DEF Solves
      <4> QED BY <3>2, <4>2, <4>3 DEF Step
    <3>3. CASE i = n + 1
      <4>1. i - 1 = n /\ n \in 0..(n + 1) /\ n # n + 1 /\ i # 0
        BY <2>0, <3>3
      <4>2. h[n] = g[n] /\ h[i] = Step(s, T, g, n + 1)
        BY <2>0, <3>3, <4>1
      <4> HIDE DEF h
      <4> QED BY <3>3, <4>1, <4>2 DEF Step
    <3> QED BY <2>0, <3>1, <3>2, <3>3
  <2>3. h = [i \in 0..(n + 1) |-> h[i]]
    OBVIOUS
  <2> HIDE DEF h
  <2>4. Solves(s, T, n + 1, h)
    BY <2>2, <2>3 DEF Solves
  <2> QED BY <2>0, <2>4
<1> HIDE DEF N
<1>3. Len(s) \in 0..Len(s) /\ Len(s) \in Nat
  OBVIOUS
<1>4. Len(s) \in N
  BY <1>1, <1>2, <1>3, NatInd
<1> QED BY <1>4 DEF N

\* The equations of Kept.
LEMMA KeptSteps ==
  ASSUME NEW S, NEW s \in Seq(S), NEW T
  PROVE  /\ Kept(s, T)[0] = << >>
         /\ \A i \in 1..Len(s) : Kept(s, T)[i] = Step(s, T, Kept(s, T), i)
<1>1. \E g : g = [i \in 0..Len(s) |->
            IF i = 0 THEN << >>
            ELSE IF s[i] \in T THEN Append(g[i - 1], s[i]) ELSE g[i - 1]]
  BY Solvable, ZenonT(60) DEF Solves, Step
<1>2. Kept(s, T) = [i \in 0..Len(s) |->
            IF i = 0 THEN << >>
            ELSE IF s[i] \in T THEN Append(Kept(s, T)[i - 1], s[i]) ELSE Kept(s, T)[i - 1]]
  BY <1>1 DEF Kept
<1>3. Len(s) \in Nat
  OBVIOUS
<1> HIDE DEF Kept
<1>4. Kept(s, T)[0] = << >>
  BY <1>2, <1>3
<1>5. ASSUME NEW i \in 1..Len(s) PROVE Kept(s, T)[i] = Step(s, T, Kept(s, T), i)
  <2>1. i \in 0..Len(s) /\ i # 0
    BY <1>3
  <2> QED BY <1>2, <2>1 DEF Step
<1> QED BY <1>4, <1>5

\* What is kept of every prefix is a sequence over the elements that are in T.
LEMMA KeptType ==
  ASSUME NEW S, NEW s \in Seq(S), NEW T
  PROVE  \A i \in 0..Len(s) : Kept(s, T)[i] \in Seq(S \cap T)
<1> DEFINE N == {n \in Nat : Kept(s, T)[n] \in Seq(S \cap T)}
<1>0. Len(s) \in Nat
  OBVIOUS
<1>1. 0 \in N
  <2>1. << >> \in Seq(S \cap T)
    OBVIOUS
  <2>2. Kept(s, T)[0] = << >>
    BY KeptSteps
  <2> QED BY <2>1, <2>2
<1>2. ASSUME NEW n \in 0..(Len(s) - 1), n \in N PROVE n + 1 \in N
  <2>1. n + 1 \in 1..Len(s) /\ (n + 1) - 1 = n
    BY <1>0
  <2>2. Kept(s, T)[n + 1] = Step(s, T, Kept(s, T), n + 1)
    BY <2>1, KeptSteps
  <2>3. s[n + 1] \in S
    BY <2>1, ElementOfSeq
  <2> DEFINE k == Kept(s, T)[n]
             x == s[n + 1]
  <2>4. Step(s, T, Kept(s, T), n + 1) = IF x \in T THEN Append(k, x) ELSE k
    BY <2>1 DEF Step
  <2>5. k \in Seq(S \cap T)
    BY <1>2
  <2> HIDE DEF k, x
  <2>6. x \in T => Append(k, x) \in Seq(S \cap T)
    BY <2>3, <2>5 DEF x
  <2>7. Kept(s, T)[n + 1] \in Seq(S \cap T)
    BY <2>2, <2>4, <2>5, <2>6
  <2> QED BY <2>1, <2>7
<1> HIDE DEF N
<1>3. \A n \in 0..Len(s) : n \in N
  BY <1>0, <1>1, <1>2, NatInd
<1> QED BY <1>3 DEF N

-----------------------------------------------------------------------------
(* Filter.                                                                 *)

\* Filter keeps elements of s, and only those that are in T.
LEMMA FilterType ==
  ASSUME NEW S, NEW s \in Seq(S), NEW T
  PROVE  Filter(s, T) \in Seq(S \cap T)
<1>1. Len(s) \in 0..Len(s)
  OBVIOUS
<1> QED BY <1>1, KeptType DEF Filter

\* A sequence over a set is one over a larger set.
LEMMA SeqWidens ==
  ASSUME NEW S, NEW T, S \subseteq T, NEW s \in Seq(S)
  PROVE  s \in Seq(T)
<1>1. Len(s) \in Nat /\ s \in [1..Len(s) -> S]
  OBVIOUS
<1>2. s \in [1..Len(s) -> T]
  BY <1>1
<1> QED BY <1>1, <1>2

\* In particular, what Filter keeps is a sequence over the set s is over.
LEMMA FilterOf ==
  ASSUME NEW S, NEW s \in Seq(S), NEW T
  PROVE  Filter(s, T) \in Seq(S)
<1> DEFINE R == S \cap T
<1>1. Filter(s, T) \in Seq(R) /\ R \subseteq S
  BY FilterType
<1> HIDE DEF R
<1> QED BY <1>1, SeqWidens

\* Nothing is kept of the empty sequence.
LEMMA FilterEmpty ==
  ASSUME NEW T PROVE Filter(<< >>, T) = << >>
<1>1. << >> \in Seq({}) /\ Len(<< >>) = 0
  OBVIOUS
<1> QED BY <1>1, KeptSteps DEF Filter

\* What is kept of a prefix does not depend on what follows it.
LEMMA KeptPrefix ==
  ASSUME NEW S, NEW s \in Seq(S), NEW t \in Seq(S), NEW T
  PROVE  \A i \in 0..Len(s) : Kept(s \o t, T)[i] = Kept(s, T)[i]
<1> DEFINE N == {n \in Nat : Kept(s \o t, T)[n] = Kept(s, T)[n]}
           u == s \o t
<1>0. Len(s) \in Nat /\ Len(t) \in Nat
  OBVIOUS
<1>u. u \in Seq(S) /\ Len(u) = Len(s) + Len(t)
  BY ConcatProperties
<1>1. 0 \in N
  BY <1>u, KeptSteps
<1>2. ASSUME NEW n \in 0..(Len(s) - 1), n \in N PROVE n + 1 \in N
  <2>1. n + 1 \in 1..Len(s) /\ (n + 1) - 1 = n
    BY <1>0
  <2>2. u[n + 1] = s[n + 1]
    BY <2>1
  <2>3. Kept(u, T)[n] = Kept(s, T)[n]
    BY <1>2
  <2> HIDE DEF u
  <2>4. n + 1 \in 1..Len(u)
    BY <1>0, <1>u, <2>1
  <2>5. Kept(u, T)[n + 1] = Step(u, T, Kept(u, T), n + 1)
    BY <1>u, <2>4, KeptSteps
  <2>6. Kept(s, T)[n + 1] = Step(s, T, Kept(s, T), n + 1)
    BY <2>1, KeptSteps
  <2>7. Kept(u, T)[n + 1] = Kept(s, T)[n + 1]
    BY <2>1, <2>2, <2>3, <2>5, <2>6 DEF Step
  <2> QED BY <2>1, <2>7 DEF u
<1> HIDE DEF N
<1>3. \A n \in 0..Len(s) : n \in N
  BY <1>0, <1>1, <1>2, NatInd
<1> QED BY <1>3 DEF N

\* A sequence and what is appended to it are filtered one after the other.
THEOREM FilterConcat ==
  ASSUME NEW S, NEW s \in Seq(S), NEW t \in Seq(S), NEW T
  PROVE  Filter(s \o t, T) = Filter(s, T) \o Filter(t, T)
<1> DEFINE f == Filter(s, T)
           u == s \o t
           N == {n \in Nat : Kept(u, T)[Len(s) + n] = f \o Kept(t, T)[n]}
<1>0. Len(s) \in Nat /\ Len(t) \in Nat /\ Len(s) \in 0..Len(s) /\ Len(t) \in 0..Len(t)
  OBVIOUS
<1>u. u \in Seq(S) /\ Len(u) = Len(s) + Len(t)
  BY ConcatProperties
<1>f. f \in Seq(S \cap T)
  BY FilterType
<1>a. Kept(u, T)[Len(s)] = f
  BY <1>0, KeptPrefix DEF Filter
<1> HIDE DEF f
<1>1. 0 \in N
  <2>1. Kept(t, T)[0] = << >> /\ Len(s) + 0 = Len(s)
    BY <1>0, KeptSteps
  <2>2. f \o << >> = f
    BY <1>f, ConcatEmptySeq
  <2> QED BY <1>a, <2>1, <2>2
<1>2. ASSUME NEW n \in 0..(Len(t) - 1), n \in N PROVE n + 1 \in N
  <2>1. /\ n + 1 \in 1..Len(t) /\ (n + 1) - 1 = n /\ n \in 0..Len(t) /\ n + 1 \in Nat
        /\ Len(s) + (n + 1) \in 1..(Len(s) + Len(t))
        /\ (Len(s) + (n + 1)) - 1 = Len(s) + n /\ Len(s) + (n + 1) > Len(s)
        /\ (Len(s) + (n + 1)) - Len(s) = n + 1
    BY <1>0
  <2>2. u[Len(s) + (n + 1)] = t[n + 1]
    BY <2>1
  <2>3. Kept(u, T)[Len(s) + n] = f \o Kept(t, T)[n]
    BY <1>2
  <2>h. Len(s) + (n + 1) \in 1..Len(u)
    BY <1>u, <2>1
  <2> HIDE DEF u
  <2>4. Kept(u, T)[Len(s) + (n + 1)] = Step(u, T, Kept(u, T), Len(s) + (n + 1))
    BY <1>u, <2>h, KeptSteps
  <2>5. Kept(t, T)[n + 1] = Step(t, T, Kept(t, T), n + 1)
    BY <2>1, KeptSteps
  <2> DEFINE k == Kept(t, T)[n]
             x == t[n + 1]
  <2>6. k \in Seq(S \cap T)
    BY <2>1, KeptType
  <2>7. x \in S
    BY <2>1, ElementOfSeq
  <2>8. Kept(u, T)[Len(s) + (n + 1)] = IF x \in T THEN Append(f \o k, x) ELSE f \o k
    BY <2>1, <2>2, <2>3, <2>4 DEF Step
  <2>9. Kept(t, T)[n + 1] = IF x \in T THEN Append(k, x) ELSE k
    BY <2>1, <2>5 DEF Step
  <2> HIDE DEF k, x
  <2>10. x \in T => Append(f \o k, x) = f \o Append(k, x)
    <3> DEFINE R == S \cap T
    <3>1. f \in Seq(R) /\ k \in Seq(R) /\ (x \in T => x \in R)
      BY <1>f, <2>6, <2>7
    <3> HIDE DEF R
    <3>2. x \in T => Append(Cat(f, k), x) = Cat(f, Append(k, x))
      BY <3>1, CatAppend
    <3> QED BY <3>2 DEF Cat
  <2>11. Kept(u, T)[Len(s) + (n + 1)] = f \o Kept(t, T)[n + 1]
    BY <2>8, <2>9, <2>10
  <2> QED BY <2>1, <2>11
<1> HIDE DEF N
<1>3. Len(t) \in N
  BY <1>0, <1>1, <1>2, NatInd
<1>4. Kept(u, T)[Len(s) + Len(t)] = f \o Kept(t, T)[Len(t)]
  BY <1>3 DEF N
<1> QED BY <1>u, <1>4 DEF Filter, f

\* Nothing is kept when no element is in the set.
LEMMA FilterNone ==
  ASSUME NEW S, NEW s \in Seq(S), NEW T, \A i \in 1..Len(s) : s[i] \notin T
  PROVE  Filter(s, T) = << >>
<1> DEFINE N == {n \in Nat : Kept(s, T)[n] = << >>}
<1>0. Len(s) \in Nat /\ Len(s) \in 0..Len(s)
  OBVIOUS
<1>1. 0 \in N
  BY KeptSteps
<1>2. ASSUME NEW n \in 0..(Len(s) - 1), n \in N PROVE n + 1 \in N
  <2>1. n + 1 \in 1..Len(s) /\ (n + 1) - 1 = n /\ n + 1 \in Nat
    BY <1>0
  <2>2. Kept(s, T)[n + 1] = Step(s, T, Kept(s, T), n + 1)
    BY <2>1, KeptSteps
  <2> QED BY <1>2, <2>1, <2>2 DEF Step
<1> HIDE DEF N
<1>3. Len(s) \in N
  BY <1>0, <1>1, <1>2, NatInd
<1> QED BY <1>3 DEF N, Filter

\* Everything is kept when every element is in the set.
LEMMA FilterAll ==
  ASSUME NEW S, NEW s \in Seq(S), NEW T, \A i \in 1..Len(s) : s[i] \in T
  PROVE  Filter(s, T) = s
<1> DEFINE N == {n \in Nat : Kept(s, T)[n] = SubSeq(s, 1, n)}
<1>0. Len(s) \in Nat /\ Len(s) \in 0..Len(s)
  OBVIOUS
<1>1. 0 \in N
  <2>1. SubSeq(s, 1, 0) = << >>
    OBVIOUS
  <2> QED BY <2>1, KeptSteps
<1>2. ASSUME NEW n \in 0..(Len(s) - 1), n \in N PROVE n + 1 \in N
  <2>1. n + 1 \in 1..Len(s) /\ (n + 1) - 1 = n /\ n + 1 \in Nat
    BY <1>0
  <2>2. Kept(s, T)[n + 1] = Step(s, T, Kept(s, T), n + 1)
    BY <2>1, KeptSteps
  <2>3. Kept(s, T)[n + 1] = Append(SubSeq(s, 1, n), s[n + 1])
    BY <1>2, <2>1, <2>2 DEF Step
  <2>4. Append(SubSeq(s, 1, n), s[n + 1]) = SubSeq(s, 1, n + 1)
    BY <1>0, <2>1, SMTT(60)
  <2> QED BY <2>1, <2>3, <2>4
<1> HIDE DEF N
<1>3. Len(s) \in N
  BY <1>0, <1>1, <1>2, NatInd
<1>4. SubSeq(s, 1, Len(s)) = s
  OBVIOUS
<1> QED BY <1>3, <1>4 DEF N, Filter
==============================================================================
