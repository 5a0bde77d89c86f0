---------------------------- MODULE ForwardProofs ----------------------------
(***************************************************************************)
(* Module Control forwards each client's messages once, in order and       *)
(* whole: the proof of ForwardedOnce, for any clients and any streams.     *)
(***************************************************************************)
EXTENDS ControlProofs

-----------------------------------------------------------------------------
(* What is forwarded of a stream in pieces.                                *)

\* FilterConcat, for concatenation behind its name.
LEMMA FilterCat ==
  ASSUME NEW S, NEW s \in Seq(S), NEW t \in Seq(S), NEW T
  PROVE  Filter(Cat(s, t), T) = Cat(Filter(s, T), Filter(t, T))
BY FilterConcat DEF Cat

\* A concatenation begins with its first part.
LEMMA CatElements ==
  ASSUME NEW S, NEW s \in Seq(S), NEW t \in Seq(S)
  PROVE  /\ Cat(s, t) \in Seq(S) /\ Len(Cat(s, t)) = Len(s) + Len(t)
         /\ \A i \in 1..Len(s) : Cat(s, t)[i] = s[i]
<1> DEFINE u == s \o t
<1>0. Len(s) \in Nat /\ Len(t) \in Nat
  OBVIOUS
<1>1. /\ u \in Seq(S) /\ Len(u) = Len(s) + Len(t)
      /\ \A i \in 1..(Len(s) + Len(t)) : u[i] = IF i <= Len(s) THEN s[i] ELSE t[i - Len(s)]
  BY ConcatProperties
<1> HIDE DEF u
<1>2. \A i \in 1..Len(s) : u[i] = s[i]
  BY <1>0, <1>1
<1> QED BY <1>1, <1>2 DEF u, Cat

\* Behind the first part of a concatenation comes the second.
LEMMA CatBehind ==
  ASSUME NEW S, NEW s \in Seq(S), NEW t \in Seq(S)
  PROVE  \A i \in 1..Len(t) : Cat(s, t)[Len(s) + i] = t[i]
<1> DEFINE u == s \o t
<1>0. Len(s) \in Nat /\ Len(t) \in Nat
  OBVIOUS
<1>1. \A i \in 1..(Len(s) + Len(t)) : u[i] = IF i <= Len(s) THEN s[i] ELSE t[i - Len(s)]
  BY ConcatProperties
<1> HIDE DEF u
<1>2. ASSUME NEW i \in 1..Len(t) PROVE u[Len(s) + i] = t[i]
  <2>1. /\ Len(s) + i \in 1..(Len(s) + Len(t)) /\ ~(Len(s) + i <= Len(s))
        /\ (Len(s) + i) - Len(s) = i
    BY <1>0
  <2> QED BY <1>1, <2>1
<1> QED BY <1>2 DEF u, Cat

\* A bad header hides what follows it.
LEMMA BadHides ==
  ASSUME NEW s \in Seq(Fragment), NEW t \in Seq(Fragment), HasBad(s)
  PROVE  BeforeBad(Cat(s, t)) = BeforeBad(s)
<1> DEFINE u == Cat(s, t)
           n == SelectInSeq(s, IsBad)
           k == SelectInSeq(u, IsBad)
<1>a. Len(s) \in Nat /\ Len(t) \in Nat
  OBVIOUS
<1>b. /\ u \in Seq(Fragment) /\ Len(u) = Len(s) + Len(t)
      /\ \A i \in 1..Len(s) : u[i] = s[i]
  BY CatElements, Zenon
<1> HIDE DEF u
<1>0. /\ Len(s) \in Nat /\ Len(t) \in Nat
      /\ u \in Seq(Fragment) /\ Len(u) = Len(s) + Len(t)
      /\ \A i \in 1..Len(s) : u[i] = s[i]
  BY <1>a, <1>b
<1>1. /\ n \in 1..Len(s) /\ IsBad(s[n]) /\ \A j \in 1..Len(s) : j < n => ~IsBad(s[j])
  <2>1. /\ n \in 0..Len(s) /\ n # 0 /\ IsBad(s[n])
        /\ \A j \in 1..Len(s) : j < n => ~IsBad(s[j])
    BY FirstBad, Zenon
  <2> HIDE DEF n
  <2> QED BY <1>a, <2>1
<1>2. /\ k \in 0..Len(u) /\ (k = 0 <=> ~HasBad(u)) /\ (k # 0 => IsBad(u[k]))
      /\ \A j \in 1..Len(u) : j < k => ~IsBad(u[j])
  BY <1>0, FirstBad
<1>3. BeforeBad(u) = (IF k = 0 THEN u ELSE SubSeq(u, 1, k - 1)) /\ BeforeBad(s) = SubSeq(s, 1, n - 1)
  BY <1>1 DEF BeforeBad
<1> HIDE DEF n, k
<1>4. n \in 1..Len(u) /\ IsBad(u[n])
  BY <1>0, <1>1
<1>5. k # 0
  BY <1>2, <1>4 DEF HasBad
<1>6. k \in 1..Len(s)
  BY <1>0, <1>1, <1>2, <1>4, <1>5
<1>7. k = n
  BY <1>0, <1>1, <1>2, <1>4, <1>5, <1>6
<1>8. SubSeq(u, 1, n - 1) = SubSeq(s, 1, n - 1)
  <2>1. n - 1 \in Nat /\ n - 1 <= Len(s) /\ n - 1 <= Len(u)
    BY <1>0, <1>1
  <2> DEFINE a == SubSeq(u, 1, n - 1)
             b == SubSeq(s, 1, n - 1)
  <2>2. a \in Seq(Fragment) /\ Len(a) = n - 1 /\ \A i \in 1..(n - 1) : a[i] = u[i]
    BY <1>0, <2>1
  <2>3. b \in Seq(Fragment) /\ Len(b) = n - 1 /\ \A i \in 1..(n - 1) : b[i] = s[i]
    BY <1>0, <2>1
  <2> HIDE DEF a, b
  <2>4. \A i \in 1..Len(a) : a[i] = b[i]
    BY <1>0, <2>1, <2>2, <2>3
  <2>5. a = b
    BY <2>2, <2>3, <2>4, SeqEqual
  <2> QED BY <2>5 DEF a, b
<1> QED BY <1>3, <1>5, <1>7, <1>8 DEF u

\* Without one, what follows is found behind it.
LEMMA BehindGood ==
  ASSUME NEW s \in Seq(Fragment), NEW t \in Seq(Fragment), ~HasBad(s)
  PROVE  BeforeBad(Cat(s, t)) = Cat(s, BeforeBad(t))
<1> DEFINE u == Cat(s, t)
           m == SelectInSeq(t, IsBad)
           k == SelectInSeq(u, IsBad)
<1>a. Len(s) \in Nat /\ Len(t) \in Nat
  OBVIOUS
<1>b. /\ u \in Seq(Fragment) /\ Len(u) = Len(s) + Len(t)
      /\ \A i \in 1..Len(s) : u[i] = s[i]
  BY CatElements, Zenon
<1>c. \A i \in 1..Len(t) : u[Len(s) + i] = t[i]
  BY CatBehind
<1> HIDE DEF u
<1>0. /\ Len(s) \in Nat /\ Len(t) \in Nat
      /\ u \in Seq(Fragment) /\ Len(u) = Len(s) + Len(t)
      /\ \A i \in 1..Len(s) : u[i] = s[i]
      /\ \A i \in 1..Len(t) : u[Len(s) + i] = t[i]
  BY <1>a, <1>b, <1>c
<1>1. /\ m \in 0..Len(t) /\ (m = 0 <=> ~HasBad(t)) /\ (m # 0 => IsBad(t[m]))
      /\ \A j \in 1..Len(t) : j < m => ~IsBad(t[j])
  BY FirstBad
<1>2. /\ k \in 0..Len(u) /\ (k = 0 <=> ~HasBad(u)) /\ (k # 0 => IsBad(u[k]))
      /\ \A j \in 1..Len(u) : j < k => ~IsBad(u[j])
  BY <1>0, FirstBad
<1>3. /\ BeforeBad(u) = IF k = 0 THEN u ELSE SubSeq(u, 1, k - 1)
      /\ BeforeBad(t) = IF m = 0 THEN t ELSE SubSeq(t, 1, m - 1)
  BY DEF BeforeBad
<1> HIDE DEF m, k
<1>4. ASSUME NEW i \in 1..Len(u), IsBad(u[i])
      PROVE  i - Len(s) \in 1..Len(t) /\ IsBad(t[i - Len(s)])
  <2>1. ~(i <= Len(s))
    BY <1>0, <1>4 DEF HasBad
  <2>2. i - Len(s) \in 1..Len(t) /\ Len(s) + (i - Len(s)) = i
    BY <1>0, <2>1
  <2> QED BY <1>0, <1>4, <2>2
<1>5. CASE m = 0
  <2>1. ~HasBad(u)
    BY <1>1, <1>4, <1>5 DEF HasBad
  <2>2. BeforeBad(u) = u /\ BeforeBad(t) = t
    BY <1>2, <1>3, <1>5, <2>1
  <2> QED BY <2>2 DEF u
<1>6. CASE m # 0
  <2>1. m \in 1..Len(t) /\ Len(s) + m \in 1..Len(u) /\ IsBad(u[Len(s) + m])
    BY <1>0, <1>1, <1>6
  <2>2. k # 0
    BY <1>2, <2>1 DEF HasBad
  <2>3. k \in 1..Len(u) /\ k <= Len(s) + m
    BY <1>0, <1>2, <2>1, <2>2
  <2>4. k - Len(s) \in 1..Len(t) /\ IsBad(t[k - Len(s)])
    BY <1>2, <1>4, <2>2, <2>3
  <2>5. k = Len(s) + m
    <3>1. ~(k - Len(s) < m)
      BY <1>1, <2>4
    <3> QED BY <1>a, <2>1, <2>3, <3>1
  <2> DEFINE r == SubSeq(t, 1, m - 1)
             a == SubSeq(u, 1, (Len(s) + m) - 1)
             b == Cat(s, r)
  <2>6. m - 1 \in Nat /\ m - 1 <= Len(t) /\ (Len(s) + m) - 1 <= Len(u)
        /\ (Len(s) + m) - 1 \in Nat /\ (Len(s) + m) - 1 = Len(s) + (m - 1)
    BY <1>0, <2>1
  <2>7. r \in Seq(Fragment) /\ Len(r) = m - 1 /\ \A i \in 1..(m - 1) : r[i] = t[i]
    BY <2>6
  <2>8. /\ a \in Seq(Fragment) /\ Len(a) = (Len(s) + m) - 1
        /\ \A i \in 1..((Len(s) + m) - 1) : a[i] = u[i]
    BY <1>0, <2>6
  <2> HIDE DEF r, a
  <2>c. /\ b \in Seq(Fragment) /\ Len(b) = Len(s) + Len(r)
        /\ \A i \in 1..Len(s) : b[i] = s[i]
    BY <2>7, CatElements, Zenon
  <2>d. \A i \in 1..Len(r) : b[Len(s) + i] = r[i]
    BY <2>7, CatBehind
  <2> HIDE DEF b
  <2>9. /\ b \in Seq(Fragment) /\ Len(b) = Len(s) + (m - 1)
        /\ \A i \in 1..Len(s) : b[i] = s[i]
        /\ \A i \in 1..(m - 1) : b[Len(s) + i] = r[i]
    BY <2>7, <2>c, <2>d
  <2>10. ASSUME NEW i \in 1..Len(a) PROVE a[i] = b[i]
    <3>1. i \in 1..Len(u) /\ a[i] = u[i]
      BY <1>0, <2>6, <2>8
    <3>2. CASE i <= Len(s)
      BY <1>0, <2>9, <3>1, <3>2
    <3>3. CASE i > Len(s)
      <4>1. i - Len(s) \in 1..(m - 1) /\ i - Len(s) \in 1..Len(t) /\ Len(s) + (i - Len(s)) = i
        BY <1>0, <2>6, <2>8, <3>3
      <4>2. u[i] = t[i - Len(s)] /\ b[i] = r[i - Len(s)]
        BY <1>0, <2>9, <4>1
      <4> QED BY <2>7, <3>1, <4>1, <4>2
    <3> QED BY <1>0, <2>8, <3>2, <3>3
  <2>11. a = b
    BY <2>6, <2>8, <2>9, <2>10, SeqEqual
  <2> QED BY <1>3, <1>6, <2>2, <2>5, <2>11 DEF u, a, b, r
<1> QED BY <1>5, <1>6

\* Reading a stream in pieces forwards the same as reading it at once, up to the
\* first bad header.
THEOREM ForwardsPieces ==
  ASSUME NEW s \in Seq(Fragment), NEW t \in Seq(Fragment)
  PROVE  /\ HasBad(s) => ImsgGets(Cat(s, t)) = ImsgGets(s) /\ Forwards(Cat(s, t)) = Forwards(s)
         /\ ~HasBad(s) => /\ ImsgGets(Cat(s, t)) = Cat(ImsgGets(s), ImsgGets(t))
                          /\ Forwards(Cat(s, t)) = Cat(Forwards(s), Forwards(t))
<1>1. HasBad(s) => ImsgGets(Cat(s, t)) = ImsgGets(s) /\ Forwards(Cat(s, t)) = Forwards(s)
  BY BadHides DEF ImsgGets, Forwards
<1>2. ASSUME ~HasBad(s) PROVE ImsgGets(Cat(s, t)) = Cat(ImsgGets(s), ImsgGets(t))
  <2>1. BeforeBad(Cat(s, t)) = Cat(s, BeforeBad(t)) /\ BeforeBad(t) \in Seq(Fragment)
    BY <1>2, BehindGood, BeforeBadType
  <2>2. BeforeBad(s) = s
    BY <1>2, FirstBad DEF BeforeBad
  <2> QED BY <2>1, <2>2, FilterCat DEF ImsgGets
<1>3. ASSUME ~HasBad(s) PROVE Forwards(Cat(s, t)) = Cat(Forwards(s), Forwards(t))
  <2>1. ImsgGets(s) \in Seq(Fragment) /\ ImsgGets(t) \in Seq(Fragment)
    BY ForwardsType
  <2> QED BY <1>2, <1>3, <2>1, FilterCat DEF Forwards
<1> QED BY <1>1, <1>2, <1>3

\* Behind a stream without a bad header, a bad header is one of what follows.
LEMMA HasBadCat ==
  ASSUME NEW s \in Seq(Fragment), NEW t \in Seq(Fragment), ~HasBad(s)
  PROVE  HasBad(Cat(s, t)) <=> HasBad(t)
<1> DEFINE u == Cat(s, t)
<1>0. Len(s) \in Nat /\ Len(t) \in Nat
  OBVIOUS
<1>1. Len(u) = Len(s) + Len(t) /\ \A i \in 1..Len(s) : u[i] = s[i]
  BY CatElements, Zenon
<1>2. \A i \in 1..Len(t) : u[Len(s) + i] = t[i]
  BY CatBehind
<1> HIDE DEF u
<1>3. ASSUME NEW i \in 1..Len(u), IsBad(u[i]) PROVE HasBad(t)
  <2>1. ~(i <= Len(s))
    BY <1>0, <1>1, <1>3 DEF HasBad
  <2>2. i - Len(s) \in 1..Len(t) /\ Len(s) + (i - Len(s)) = i
    BY <1>0, <1>1, <2>1
  <2> QED BY <1>2, <1>3, <2>2 DEF HasBad
<1>4. ASSUME NEW i \in 1..Len(t), IsBad(t[i]) PROVE HasBad(u)
  <2>1. Len(s) + i \in 1..Len(u)
    BY <1>0, <1>1
  <2> QED BY <1>2, <1>4, <2>1 DEF HasBad
<1>5. HasBad(u) <=> HasBad(t)
  BY <1>3, <1>4 DEF HasBad
<1> QED BY <1>5 DEF u

\* The beginning of a message in the buffer adds nothing to what is forwarded of
\* the stream behind it.
LEMMA PartialAddsNothing ==
  ASSUME NEW b \in Seq(Partial), NEW t \in Seq(Fragment)
  PROVE  /\ b \in Seq(Fragment)
         /\ ImsgGets(Cat(b, t)) = ImsgGets(t) /\ Forwards(Cat(b, t)) = Forwards(t)
         /\ HasBad(Cat(b, t)) <=> HasBad(t)
<1>1. b \in Seq(Fragment)
  <2>1. Partial \subseteq Fragment
    BY DEF Partial
  <2> QED BY <2>1, SeqWidens
<1>2. \A i \in 1..Len(b) : ~IsBad(b[i]) /\ b[i] \notin Whole
  <2>1. \A i \in 1..Len(b) : b[i] \in Partial
    BY ElementOfSeq
  <2> QED BY <2>1 DEF Partial, Whole
<1>3. ~HasBad(b)
  BY <1>2 DEF HasBad
<1>4. BeforeBad(b) = b
  BY <1>1, <1>3, FirstBad DEF BeforeBad
<1>5. ImsgGets(b) = << >>
  BY <1>1, <1>2, <1>4, FilterNone DEF ImsgGets
<1>6. Forwards(b) = << >>
  BY <1>5, FilterEmpty DEF Forwards
<1>7. ImsgGets(t) \in Seq(Fragment) /\ Forwards(t) \in Seq(Fragment)
  BY ForwardsType
<1>8. ImsgGets(Cat(b, t)) = Cat(<< >>, ImsgGets(t)) /\ Forwards(Cat(b, t)) = Cat(<< >>, Forwards(t))
  BY <1>1, <1>3, <1>5, <1>6, ForwardsPieces
<1>9. Cat(<< >>, ImsgGets(t)) = ImsgGets(t) /\ Cat(<< >>, Forwards(t)) = Forwards(t)
  BY <1>7, CatType
<1>10. HasBad(Cat(b, t)) <=> HasBad(t)
  BY <1>1, <1>3, HasBadCat
<1> QED BY <1>1, <1>8, <1>9, <1>10

-----------------------------------------------------------------------------
(* Messages of fragments and of what was forwarded.                        *)

HaveMsg(S) == \A x \in S : x.msg \in Msg

\* MsgsOf gives the message of each element, in order.
LEMMA MsgsOfType ==
  ASSUME NEW S, HaveMsg(S), NEW s \in Seq(S)
  PROVE  /\ MsgsOf(s) \in Seq(Msg) /\ Len(MsgsOf(s)) = Len(s)
         /\ \A i \in 1..Len(s) : MsgsOf(s)[i] = s[i].msg
<1>1. DOMAIN s = 1..Len(s) /\ Len(s) \in Nat
  OBVIOUS
<1>2. \A i \in 1..Len(s) : s[i].msg \in Msg
  BY ElementOfSeq DEF HaveMsg
<1>3. MsgsOf(s) = [i \in 1..Len(s) |-> s[i].msg]
  BY <1>1 DEF MsgsOf
<1>4. MsgsOf(s) \in [1..Len(s) -> Msg]
  BY <1>2, <1>3
<1> QED BY <1>1, <1>3, <1>4

\* The messages of a concatenation are those of its parts, in order.
LEMMA MsgsOfCat ==
  ASSUME NEW S, HaveMsg(S), NEW s \in Seq(S), NEW t \in Seq(S)
  PROVE  MsgsOf(Cat(s, t)) = Cat(MsgsOf(s), MsgsOf(t))
<1> DEFINE u == Cat(s, t)
           p == MsgsOf(s)
           q == MsgsOf(t)
           a == MsgsOf(u)
           b == Cat(p, q)
<1>0. Len(s) \in Nat /\ Len(t) \in Nat
  OBVIOUS
<1>1. /\ u \in Seq(S) /\ Len(u) = Len(s) + Len(t)
      /\ \A i \in 1..Len(s) : u[i] = s[i]
  BY CatElements, Zenon
<1>2. \A i \in 1..Len(t) : u[Len(s) + i] = t[i]
  BY CatBehind
<1> HIDE DEF u
<1>3. p \in Seq(Msg) /\ Len(p) = Len(s) /\ \A i \in 1..Len(s) : p[i] = s[i].msg
  BY MsgsOfType, Zenon
<1>4. q \in Seq(Msg) /\ Len(q) = Len(t) /\ \A i \in 1..Len(t) : q[i] = t[i].msg
  BY MsgsOfType, Zenon
<1>5. a \in Seq(Msg) /\ Len(a) = Len(u) /\ \A i \in 1..Len(u) : a[i] = u[i].msg
  BY <1>1, MsgsOfType, Zenon
<1> HIDE DEF p, q, a
<1>6. /\ b \in Seq(Msg) /\ Len(b) = Len(p) + Len(q)
      /\ \A i \in 1..Len(p) : b[i] = p[i]
  BY <1>3, <1>4, CatElements, Zenon
<1>7. \A i \in 1..Len(q) : b[Len(p) + i] = q[i]
  <2>1. p \in Seq(Msg) /\ q \in Seq(Msg)
    BY <1>3, <1>4
  <2> QED BY <2>1, CatBehind
<1> HIDE DEF b
<1>8. ASSUME NEW i \in 1..Len(a) PROVE a[i] = b[i]
  <2>1. i \in 1..(Len(s) + Len(t)) /\ a[i] = u[i].msg
    BY <1>1, <1>5
  <2>2. CASE i <= Len(s)
    BY <1>0, <1>1, <1>3, <1>6, <2>1, <2>2
  <2>3. CASE i > Len(s)
    <3>1. i - Len(s) \in 1..Len(t) /\ Len(s) + (i - Len(s)) = i
      BY <1>0, <2>1, <2>3
    <3>2. u[i] = t[i - Len(s)] /\ b[i] = q[i - Len(s)]
      BY <1>2, <1>3, <1>4, <1>7, <3>1
    <3> QED BY <1>4, <2>1, <3>1, <3>2
  <2> QED BY <1>0, <2>1, <2>2, <2>3
<1>9. Len(a) = Len(b)
  BY <1>1, <1>3, <1>4, <1>5, <1>6
<1>10. a = b
  BY <1>5, <1>6, <1>8, <1>9, SeqEqual
<1> QED BY <1>10 DEF a, b, p, q, u

\* A sequence is its first k elements and the others.
LEMMA SplitAt ==
  ASSUME NEW S, NEW w \in Seq(S), NEW k \in 0..Len(w)
  PROVE  w = SubSeq(w, 1, k) \o SubSeq(w, k + 1, Len(w))
<1> DEFINE p == SubSeq(w, 1, k)
           r == SubSeq(w, k + 1, Len(w))
           u == p \o r
<1>0. Len(w) \in Nat /\ k \in Nat /\ k <= Len(w)
  OBVIOUS
<1>1. p \in Seq(S) /\ Len(p) = k /\ \A i \in 1..k : p[i] = w[i]
  BY <1>0
<1>2. r \in Seq(S) /\ Len(r) = Len(w) - k /\ \A i \in 1..(Len(w) - k) : r[i] = w[k + i]
  BY <1>0
<1> HIDE DEF p, r
<1>3. /\ u \in Seq(S) /\ Len(u) = Len(p) + Len(r)
      /\ \A i \in 1..(Len(p) + Len(r)) : u[i] = IF i <= Len(p) THEN p[i] ELSE r[i - Len(p)]
  BY <1>1, <1>2, ConcatProperties
<1> HIDE DEF u
<1>4. Len(u) = Len(w)
  BY <1>0, <1>1, <1>2, <1>3
<1>5. ASSUME NEW i \in 1..Len(w) PROVE w[i] = u[i]
  <2>1. u[i] = IF i <= k THEN p[i] ELSE r[i - k]
    BY <1>0, <1>1, <1>2, <1>3
  <2>2. CASE i <= k
    BY <1>0, <1>1, <2>1, <2>2
  <2>3. CASE i > k
    <3>1. i - k \in 1..(Len(w) - k) /\ k + (i - k) = i
      BY <1>0, <2>3
    <3> QED BY <1>0, <1>2, <2>1, <2>3, <3>1
  <2> QED BY <1>0, <2>2, <2>3
<1>6. w = u
  BY <1>3, <1>4, <1>5, SeqEqual
<1> QED BY <1>6 DEF u, p, r

\* The first part of a concatenation is a prefix of it.
LEMMA IsPrefixCat ==
  ASSUME NEW S, NEW p \in Seq(S), NEW r \in Seq(S)
  PROVE  IsPrefix(p, Cat(p, r))
<1> DEFINE u == Cat(p, r)
<1>0. Len(p) \in Nat /\ Len(r) \in Nat
  OBVIOUS
<1>1. /\ u \in Seq(S) /\ Len(u) = Len(p) + Len(r)
      /\ \A i \in 1..Len(p) : u[i] = p[i]
  BY CatElements, Zenon
<1> HIDE DEF u
<1>2. Len(p) <= Len(u)
  BY <1>0, <1>1
<1> DEFINE a == SubSeq(u, 1, Len(p))
           b == SubSeq(p, 1, Len(p))
<1>3. a \in Seq(S) /\ Len(a) = Len(p) /\ \A i \in 1..Len(p) : a[i] = u[i]
  BY <1>0, <1>1, <1>2
<1>4. b \in Seq(S) /\ Len(b) = Len(p) /\ \A i \in 1..Len(p) : b[i] = p[i]
  BY <1>0
<1> HIDE DEF a, b
<1>5. a = b
  BY <1>1, <1>3, <1>4, SeqEqual
<1> QED BY <1>2, <1>5 DEF IsPrefix, a, b, u

Messages(s) == MsgsOf(Forwards(s))

\* Reading in pieces, in terms of messages.
LEMMA MessagesPieces ==
  ASSUME NEW s \in Seq(Fragment), NEW t \in Seq(Fragment)
  PROVE  /\ Messages(s) \in Seq(Msg)
         /\ HasBad(s) => Messages(Cat(s, t)) = Messages(s)
         /\ ~HasBad(s) => Messages(Cat(s, t)) = Cat(Messages(s), Messages(t))
<1>1. Forwards(s) \in Seq(Fragment) /\ Forwards(t) \in Seq(Fragment)
  BY ForwardsType
<1>2. HaveMsg(Fragment)
  BY DEF HaveMsg, Fragment
<1>3. Messages(s) \in Seq(Msg)
  BY <1>1, <1>2, MsgsOfType DEF Messages
<1>4. HasBad(s) => Messages(Cat(s, t)) = Messages(s)
  BY ForwardsPieces DEF Messages
<1>5. ASSUME ~HasBad(s) PROVE Messages(Cat(s, t)) = Cat(Messages(s), Messages(t))
  <2>1. Forwards(Cat(s, t)) = Cat(Forwards(s), Forwards(t))
    BY <1>5, ForwardsPieces
  <2>2. MsgsOf(Cat(Forwards(s), Forwards(t))) = Cat(Messages(s), Messages(t))
    BY <1>1, <1>2, MsgsOfCat DEF Messages
  <2> QED BY <2>1, <2>2 DEF Messages
<1> QED BY <1>3, <1>4, <1>5

Sent == [from : Clients, msg : Msg]

\* What was forwarded for a client is a sequence of messages.
LEMMA OutIs ==
  ASSUME out \in Seq(Sent), NEW c
  PROVE  /\ Filter(out, From(c)) \in Seq(Sent) /\ HaveMsg(Sent)
         /\ Out(c) = MsgsOf(Filter(out, From(c))) /\ Out(c) \in Seq(Msg)
<1>1. Filter(out, From(c)) \in Seq(Sent)
  BY FilterOf
<1>2. HaveMsg(Sent)
  BY DEF HaveMsg, Sent
<1>3. Out(c) = MsgsOf(Filter(out, From(c)))
  BY DEF Out, From
<1> QED BY <1>1, <1>2, <1>3, MsgsOfType

\* What SendParent adds, seen by each client.
LEMMA SendAdds ==
  ASSUME out \in Seq(Sent), NEW c \in Clients, NEW s \in Seq(Fragment), SendParent(c, s)
  PROVE  /\ Out(c)' = Cat(Out(c), MsgsOf(s))
         /\ \A d \in Clients : d # c => Out(d)' = Out(d)
<1> DEFINE g == Tagged(c, s)
<1>1. g \in Seq(From(c)) /\ From(c) \subseteq Sent
  BY TaggedType DEF From, Sent
<1>2. g \in Seq(Sent)
  <2> HIDE DEF g
  <2> QED BY <1>1, SeqWidens
<1>3. out' = Cat(out, g)
  BY DEF SendParent, Tagged, Cat
<1>4. MsgsOf(g) = MsgsOf(s)
  <2>1. DOMAIN g = DOMAIN s /\ \A i \in DOMAIN s : g[i].msg = s[i].msg
    BY DEF Tagged
  <2> QED BY <2>1 DEF MsgsOf
<1> HIDE DEF g
<1>5. ASSUME NEW d PROVE Out(d)' = MsgsOf(Cat(Filter(out, From(d)), Filter(g, From(d))))
  <2>1. Out(d)' = MsgsOf(Filter(out', From(d)))
    BY DEF Out, From
  <2> QED BY <1>2, <1>3, <2>1, FilterCat
<1>6. \A i \in 1..Len(g) : g[i] \in From(c)
  BY <1>1, ElementOfSeq
<1>7. Out(c)' = Cat(Out(c), MsgsOf(s))
  <2>1. Filter(g, From(c)) = g
    BY <1>2, <1>6, FilterAll
  <2>2. Out(c)' = MsgsOf(Cat(Filter(out, From(c)), g))
    BY <1>5, <2>1
  <2>3. MsgsOf(Cat(Filter(out, From(c)), g)) = Cat(MsgsOf(Filter(out, From(c))), MsgsOf(g))
    BY <1>2, OutIs, MsgsOfCat
  <2> QED BY <1>4, <2>2, <2>3, OutIs
<1>8. ASSUME NEW d \in Clients, d # c PROVE Out(d)' = Out(d)
  <2>1. \A i \in 1..Len(g) : g[i] \notin From(d)
    BY <1>6, <1>8 DEF From
  <2>2. Filter(g, From(d)) = << >>
    BY <1>2, <2>1, FilterNone
  <2>3. Filter(out, From(d)) \in Seq(Sent) /\ Out(d) = MsgsOf(Filter(out, From(d)))
    BY OutIs
  <2>4. Cat(Filter(out, From(d)), << >>) = Filter(out, From(d))
    BY <2>3, CatType
  <2> QED BY <1>5, <2>2, <2>3, <2>4
<1> QED BY <1>7, <1>8

-----------------------------------------------------------------------------
(* The invariant.                                                          *)

\* A client is in one place: not yet connected, queued once, with one descriptor,
\* given up, or done.
OnePlace ==
    /\ \A i, j \in DOMAIN backlog : backlog[i] = backlog[j] => i = j
    /\ \A i \in DOMAIN backlog :
          /\ client[backlog[i]] # "idle" /\ backlog[i] \notin dropped
          /\ \A fd \in Fds : file[fd] # backlog[i]
    /\ \A fd \in Fds :
          file[fd] # NoClient =>
              /\ client[file[fd]] # "idle" /\ file[fd] \notin dropped
              /\ \A g \in Fds : file[g] = file[fd] => g = fd
    /\ \A c \in dropped : client[c] # "idle"

\* What a read buffer holds never adds to what is forwarded: what is still to
\* come of a client is in its socket and in what it has yet to write.
Coming(c) == Cat(sock[c], tosend[c])
Accounted ==
    \A c \in Clients :
        /\ IsPrefix(Out(c), Expected(c))
        /\ c \notin dropped => Cat(Out(c), Messages(Coming(c))) = Expected(c)

FInv == IInv /\ OnePlace /\ Accounted

\* A client's steps leave it where it was, or queue it when it was nowhere.
LEMMA ClientPlace ==
  ASSUME IInv, OnePlace, NEW c \in Clients, ClientNext(c) PROVE OnePlace'
<1>0. /\ client \in [Clients -> {"idle", "connected", "closed", "failed"}]
      /\ backlog \in Seq(Clients) /\ file \in [Fds -> Clients \cup {NoClient}]
      /\ dropped \subseteq Clients
  BY DEF IInv, TypeOK
<1>1. UNCHANGED <<file, dropped>>
  BY DEF ClientNext, ClientConnect, ClientWrite, ClientClose, ClientKilled, evars
<1>2. ASSUME NEW d \in Clients, client[d] # "idle" PROVE client'[d] # "idle"
  BY <1>0, <1>2 DEF ClientNext, ClientConnect, ClientWrite, ClientClose, ClientKilled
<1>a. \A i \in DOMAIN backlog : backlog[i] \in Clients
  BY <1>0
<1>3. CASE UNCHANGED backlog
  BY <1>0, <1>1, <1>2, <1>3, <1>a DEF OnePlace
<1>4. CASE ClientConnect(c) /\ backlog' = Append(backlog, c)
  <2> DEFINE L == Len(backlog)
  <2>1. /\ L \in Nat /\ DOMAIN backlog = 1..L /\ DOMAIN backlog' = 1..(L + 1)
        /\ backlog'[L + 1] = c /\ \A i \in 1..L : backlog'[i] = backlog[i]
    BY <1>0, <1>4
  <2> HIDE DEF L
  <2>2. client[c] = "idle" /\ client'[c] # "idle"
    BY <1>0, <1>4 DEF ClientConnect
  <2>3. c \notin dropped /\ (\A fd \in Fds : file[fd] # c) /\ \A i \in 1..L : backlog[i] # c
    BY <2>1, <2>2, ControlAssumption DEF OnePlace
  <2>4. \A i, j \in 1..(L + 1) : backlog'[i] = backlog'[j] => i = j
    <3>1. \A i, j \in 1..L : backlog[i] = backlog[j] => i = j
      BY <2>1 DEF OnePlace
    <3> QED BY <2>1, <2>3, <3>1
  <2>5. ASSUME NEW i \in 1..(L + 1)
        PROVE  /\ client'[backlog'[i]] # "idle" /\ backlog'[i] \notin dropped
               /\ \A fd \in Fds : file[fd] # backlog'[i]
    <3>1. CASE i = L + 1
      BY <2>1, <2>2, <2>3, <3>1
    <3>2. CASE i \in 1..L
      BY <1>2, <1>a, <2>1, <3>2 DEF OnePlace
    <3> QED BY <2>1, <3>1, <3>2
  <2>6. \A fd \in Fds :
          file[fd] # NoClient =>
              /\ client'[file[fd]] # "idle" /\ file[fd] \notin dropped
              /\ \A g \in Fds : file[g] = file[fd] => g = fd
    BY <1>0, <1>2 DEF OnePlace
  <2>7. \A d \in dropped : client'[d] # "idle"
    BY <1>0, <1>2 DEF OnePlace
  <2> QED BY <1>1, <2>1, <2>4, <2>5, <2>6, <2>7 DEF OnePlace
<1> QED BY <1>3, <1>4 DEF ClientNext, ClientConnect, ClientWrite, ClientClose, ClientKilled, evars

\* control_accept takes the first of the queue to a descriptor, or gives it up.
LEMMA AcceptPlace ==
  ASSUME IInv, OnePlace, ControlAccept PROVE OnePlace'
<1> DEFINE h == Head(backlog)
           L == Len(backlog)
<1>0. /\ client \in [Clients -> {"idle", "connected", "closed", "failed"}]
      /\ backlog \in Seq(Clients) /\ file \in [Fds -> Clients \cup {NoClient}]
      /\ dropped \subseteq Clients
  BY DEF IInv, TypeOK
<1>1. backlog # << >> /\ backlog' = Tail(backlog) /\ UNCHANGED client
  BY DEF ControlAccept, cvars
<1>2. /\ L \in Nat /\ 1 \in 1..L /\ DOMAIN backlog = 1..L /\ DOMAIN backlog' = 1..(L - 1)
      /\ h = backlog[1] /\ \A i \in 1..(L - 1) : backlog'[i] = backlog[i + 1]
  BY <1>0, <1>1
<1>3. h \in Clients /\ h # NoClient
  BY <1>0, <1>1, ControlAssumption
<1> HIDE DEF h, L
<1>4. /\ \A i, j \in 1..L : backlog[i] = backlog[j] => i = j
      /\ \A i \in 1..L : /\ client[backlog[i]] # "idle" /\ backlog[i] \notin dropped
                         /\ \A fd \in Fds : file[fd] # backlog[i]
      /\ \A fd \in Fds :
          file[fd] # NoClient =>
              /\ client[file[fd]] # "idle" /\ file[fd] \notin dropped
              /\ \A g \in Fds : file[g] = file[fd] => g = fd
      /\ \A c \in dropped : client[c] # "idle"
  BY <1>2 DEF OnePlace
<1>5. \A i, j \in 1..(L - 1) : backlog'[i] = backlog'[j] => i = j
  BY <1>2, <1>4
<1>6. ASSUME NEW i \in 1..(L - 1)
      PROVE  /\ client[backlog'[i]] # "idle" /\ backlog'[i] \notin dropped /\ backlog'[i] # h
             /\ \A fd \in Fds : file[fd] # backlog'[i]
  <2>1. i + 1 \in 1..L /\ i + 1 # 1 /\ backlog'[i] = backlog[i + 1]
    BY <1>2
  <2>2. backlog[i + 1] # h
    BY <1>2, <1>4, <2>1
  <2> QED BY <1>4, <2>1, <2>2
<1>7. client[h] # "idle" /\ h \notin dropped /\ \A fd \in Fds : file[fd] # h
  BY <1>2, <1>4
<1>8. CASE dropped' = dropped \cup {h} /\ UNCHANGED file
  <2>1. \A i \in 1..(L - 1) : backlog'[i] \notin dropped'
    BY <1>6, <1>8
  <2>2. \A fd \in Fds : file[fd] # NoClient => file[fd] \notin dropped'
    BY <1>4, <1>7, <1>8
  <2>3. \A c \in dropped' : client[c] # "idle"
    BY <1>4, <1>7, <1>8
  <2> QED BY <1>1, <1>2, <1>4, <1>5, <1>6, <1>8, <2>1, <2>2, <2>3 DEF OnePlace
<1>9. CASE file' = [file EXCEPT ![LowestFree] = h] /\ UNCHANGED dropped
  <2>1. LowestFree \in Fds
    BY FindsFree DEF ControlAccept
  <2>2. \A fd \in Fds : file'[fd] = IF fd = LowestFree THEN h ELSE file[fd]
    BY <1>0, <1>9, <2>1
  <2>3. ASSUME NEW fd \in Fds, file'[fd] # NoClient
        PROVE  /\ client[file'[fd]] # "idle" /\ file'[fd] \notin dropped
               /\ \A g \in Fds : file'[g] = file'[fd] => g = fd
    <3>1. CASE fd = LowestFree
      BY <1>7, <2>2, <3>1
    <3>2. CASE fd # LowestFree
      BY <1>4, <1>7, <2>2, <2>3, <3>2
    <3> QED BY <3>1, <3>2
  <2>4. \A i \in 1..(L - 1) : \A fd \in Fds : file'[fd] # backlog'[i]
    BY <1>6, <2>2
  <2> QED BY <1>1, <1>2, <1>4, <1>5, <1>6, <1>9, <2>3, <2>4 DEF OnePlace
<1> QED BY <1>8, <1>9 DEF ControlAccept, h

\* The read handler keeps the connection or closes it, and a client given up has
\* no other place.
LEMMA ReadPlace ==
  ASSUME IInv, OnePlace, NEW fd \in events, UNCHANGED <<client, backlog>>,
         \/ UNCHANGED <<file, dropped>>
         \/ ControlClose(fd) /\ (dropped' = dropped \/ dropped' = dropped \cup {file[fd]})
  PROVE  OnePlace'
<1>1. CASE UNCHANGED <<file, dropped>>
  BY <1>1 DEF OnePlace
<1>2. CASE /\ ControlClose(fd)
           /\ dropped' = dropped \/ dropped' = dropped \cup {file[fd]}
  <2>1. fd \in Fds /\ file[fd] \in Clients /\ file[fd] # NoClient
    BY Reads, ControlAssumption
  <2>2. file \in [Fds -> Clients \cup {NoClient}]
    BY DEF IInv, TypeOK
  <2>3. \A g \in Fds : file'[g] = IF g = fd THEN NoClient ELSE file[g]
    BY <1>2, <2>1, <2>2 DEF ControlClose
  <2>4. /\ client[file[fd]] # "idle"
        /\ \A g \in Fds : g # fd => file[g] # file[fd]
        /\ \A i \in DOMAIN backlog : backlog[i] # file[fd]
    BY <2>1 DEF OnePlace
  <2>5. \A i \in DOMAIN backlog :
          /\ client[backlog[i]] # "idle" /\ backlog[i] \notin dropped'
          /\ \A g \in Fds : file'[g] # backlog[i]
    <3>1. \A i \in DOMAIN backlog : backlog[i] # NoClient
      BY ControlAssumption DEF IInv, TypeOK
    <3> QED BY <1>2, <2>3, <2>4, <3>1 DEF OnePlace
  <2>6. \A g \in Fds :
          file'[g] # NoClient =>
              /\ client[file'[g]] # "idle" /\ file'[g] \notin dropped'
              /\ \A k \in Fds : file'[k] = file'[g] => k = g
    BY <1>2, <2>3, <2>4 DEF OnePlace
  <2>7. \A c \in dropped' : client[c] # "idle"
    BY <1>2, <2>4 DEF OnePlace
  <2> QED BY <2>5, <2>6, <2>7 DEF OnePlace
<1> QED BY <1>1, <1>2

-----------------------------------------------------------------------------
(* The account of each client.                                             *)

AccountOf(c) ==
    /\ IsPrefix(Out(c), Expected(c))
    /\ c \notin dropped => Cat(Out(c), Messages(Coming(c))) = Expected(c)

\* A step that neither moves nor forwards anything.
LEMMA Untouched ==
  ASSUME NEW c \in Clients, AccountOf(c), UNCHANGED <<program, out>>,
         sock'[c] = sock[c], tosend'[c] = tosend[c], dropped \subseteq dropped'
  PROVE  AccountOf(c)'
<1>1. Out(c)' = Out(c) /\ Expected(c)' = Expected(c)
  BY DEF Out, Expected
<1>2. Messages(Coming(c))' = Messages(Coming(c))
  BY DEF Coming, Messages
<1> QED BY <1>1, <1>2 DEF AccountOf

\* Writing moves fragments from the client to its socket, in order.
LEMMA WriteAccount ==
  ASSUME IInv, Accounted, NEW c \in Clients, ClientWrite(c) PROVE Accounted'
<1>0. /\ \A d \in Clients : tosend[d] \in Seq(Fragment) /\ sock[d] \in Seq(Fragment)
      /\ tosend \in [Clients -> Seq(Fragment)] /\ sock \in [Clients -> Seq(Fragment)]
  BY DEF IInv, TypeOK
<1>1. UNCHANGED <<program, out, dropped>>
  BY DEF ClientWrite, evars
<1>2. \A d \in Clients : AccountOf(d)
  BY DEF Accounted, AccountOf
<1>3. ASSUME NEW d \in Clients, d # c PROVE AccountOf(d)'
  <2>1. sock'[d] = sock[d] /\ tosend'[d] = tosend[d]
    BY <1>0, <1>3 DEF ClientWrite
  <2> QED BY <1>1, <1>2, <2>1, Untouched
<1>4. CASE UNCHANGED <<sock, tosend>>
  BY <1>1, <1>2, <1>4, Untouched DEF Accounted, AccountOf
<1>5. ASSUME NEW k \in 1..Len(tosend[c]),
             sock' = [sock EXCEPT ![c] = @ \o SubSeq(tosend[c], 1, k)],
             tosend' = [tosend EXCEPT ![c] = SubSeq(@, k + 1, Len(@))]
      PROVE  Accounted'
  <2> DEFINE w == tosend[c]
             p == SubSeq(w, 1, k)
             r == SubSeq(w, k + 1, Len(w))
             s == sock[c]
  <2>1. w \in Seq(Fragment) /\ s \in Seq(Fragment) /\ p \in Seq(Fragment) /\ r \in Seq(Fragment)
    BY <1>0
  <2>2. sock'[c] = Cat(s, p) /\ tosend'[c] = r
    BY <1>0, <1>5 DEF Cat
  <2>3. w = Cat(p, r)
    <3> HIDE DEF w
    <3>1. w = p \o r
      BY <2>1, <1>5, SplitAt DEF w
    <3> QED BY <3>1 DEF Cat
  <2> HIDE DEF w, p, r, s
  <2>4. Cat(Cat(s, p), r) = Cat(s, Cat(p, r))
    BY <2>1, CatAssoc
  <2>5. Coming(c)' = Coming(c)
    BY <2>2, <2>3, <2>4 DEF Coming, s, w
  <2>6. Out(c)' = Out(c) /\ Expected(c)' = Expected(c)
    BY <1>1 DEF Out, Expected
  <2>7. AccountOf(c)'
    BY <1>1, <1>2, <2>5, <2>6 DEF AccountOf, Messages
  <2> QED BY <1>3, <2>7 DEF Accounted, AccountOf
<1> QED BY <1>4, <1>5 DEF ClientWrite

\* Reading without a bad header forwards the complete messages of the socket.
LEMMA GoodRead ==
  ASSUME NEW o \in Seq(Msg), NEW s \in Seq(Fragment), NEW t \in Seq(Fragment), NEW E,
         Cat(o, Messages(Cat(s, t))) = E, ~HasBad(s)
  PROVE  /\ Cat(Cat(o, Messages(s)), Messages(Cat(<< >>, t))) = E
         /\ IsPrefix(Cat(o, Messages(s)), E)
<1>1. Messages(s) \in Seq(Msg) /\ Messages(t) \in Seq(Msg)
  BY MessagesPieces
<1>2. Messages(Cat(s, t)) = Cat(Messages(s), Messages(t))
  BY MessagesPieces
<1>3. Cat(<< >>, t) = t
  BY CatType
<1>4. Cat(Cat(o, Messages(s)), Messages(t)) = E
  BY <1>1, <1>2, CatAssoc
<1>5. Cat(o, Messages(s)) \in Seq(Msg)
  BY <1>1, CatType
<1>6. IsPrefix(Cat(o, Messages(s)), E)
  BY <1>1, <1>4, <1>5, IsPrefixCat
<1> QED BY <1>3, <1>4, <1>6

\* Reading up to a bad header forwards everything that was to be forwarded.
LEMMA BadRead ==
  ASSUME NEW o \in Seq(Msg), NEW s \in Seq(Fragment), NEW t \in Seq(Fragment), NEW E,
         Cat(o, Messages(Cat(s, t))) = E, HasBad(s)
  PROVE  IsPrefix(Cat(o, Messages(s)), E)
<1>1. Messages(s) \in Seq(Msg) /\ Messages(Cat(s, t)) = Messages(s)
  BY MessagesPieces
<1>2. E \in Seq(Msg) /\ E = Cat(o, Messages(s))
  BY <1>1, CatType
<1>3. << >> \in Seq(Msg)
  OBVIOUS
<1>4. IsPrefix(E, Cat(E, << >>)) /\ Cat(E, << >>) = E
  BY <1>2, <1>3, IsPrefixCat, CatType
<1> QED BY <1>2, <1>4

\* An interrupted read forwards a prefix of it.
LEMMA CutRead ==
  ASSUME NEW o \in Seq(Msg), NEW s \in Seq(Fragment), NEW t \in Seq(Fragment), NEW E,
         Cat(o, Messages(Cat(s, t))) = E, NEW k \in 0..Len(ImsgGets(s))
  PROVE  IsPrefix(Cat(o, MsgsOf(Filter(SubSeq(ImsgGets(s), 1, k), Forwarded))), E)
<1> DEFINE g == ImsgGets(s)
           p == SubSeq(g, 1, k)
           q == SubSeq(g, k + 1, Len(g))
           P == MsgsOf(Filter(p, Forwarded))
           Q == MsgsOf(Filter(q, Forwarded))
<1>1. g \in Seq(Fragment)
  BY ForwardsType
<1> HIDE DEF g
<1>k. k \in 0..Len(g)
  BY DEF g
<1>2. p \in Seq(Fragment) /\ q \in Seq(Fragment) /\ g = Cat(p, q)
  <2>1. p \in Seq(Fragment) /\ q \in Seq(Fragment)
    BY <1>1, <1>k
  <2>2. g = p \o q
    BY <1>1, <1>k, SplitAt
  <2> QED BY <2>1, <2>2 DEF Cat
<1> HIDE DEF p, q
<1>3. Filter(p, Forwarded) \in Seq(Fragment) /\ Filter(q, Forwarded) \in Seq(Fragment)
  BY <1>2, FilterOf
<1>4. Forwards(s) = Cat(Filter(p, Forwarded), Filter(q, Forwarded))
  BY <1>2, FilterCat DEF Forwards, g
<1>5. HaveMsg(Fragment)
  BY DEF HaveMsg, Fragment
<1>6. P \in Seq(Msg) /\ Q \in Seq(Msg)
  BY <1>3, <1>5, MsgsOfType
<1>7. Messages(s) = Cat(P, Q)
  BY <1>3, <1>4, <1>5, MsgsOfCat DEF Messages
<1> HIDE DEF P, Q
<1>8. PICK r \in Seq(Msg) : Messages(Cat(s, t)) = Cat(Cat(P, Q), r)
  <2>1. Messages(s) \in Seq(Msg) /\ Messages(t) \in Seq(Msg) /\ << >> \in Seq(Msg)
    BY MessagesPieces
  <2>2. CASE HasBad(s)
    <3>1. Messages(Cat(s, t)) = Cat(Messages(s), << >>)
      BY <2>1, <2>2, MessagesPieces, CatType
    <3> QED BY <1>7, <2>1, <3>1
  <2>3. CASE ~HasBad(s)
    BY <1>7, <2>1, <2>3, MessagesPieces
  <2> QED BY <2>2, <2>3
<1>9. Cat(Q, r) \in Seq(Msg) /\ Cat(o, P) \in Seq(Msg)
  BY <1>6, CatType
<1>10. Cat(Cat(P, Q), r) = Cat(P, Cat(Q, r))
  BY <1>6, CatAssoc
<1>11. E = Cat(o, Cat(P, Cat(Q, r)))
  BY <1>8, <1>10
<1>12. Cat(Cat(o, P), Cat(Q, r)) = Cat(o, Cat(P, Cat(Q, r)))
  BY <1>6, <1>9, CatAssoc
<1>13. IsPrefix(Cat(o, P), E)
  BY <1>9, <1>11, <1>12, IsPrefixCat
<1> QED BY <1>13 DEF P, p, g

\* What the read handler forwards is accounted for by what it takes from the socket.
LEMMA ReadAccount ==
  ASSUME FInv, NEW fd \in Fds, ControlDispatch(fd) \/ DispatchNoMemory(fd) PROVE Accounted'
<1>0. IInv /\ OnePlace /\ Accounted /\ fd \in events
  BY DEF FInv, ControlDispatch, DispatchNoMemory
<1>c. PICK c \in Clients : c = file[fd]
  BY <1>0, Reads
<1> DEFINE b == ctl_conns[ConnByFd(fd)].buf
           s == sock[c]
           w == tosend[c]
<1>1. c \in Clients /\ b \in Seq(Partial)
  BY <1>0, Reads
<1>2. c \notin dropped
  BY <1>0, <1>c, ControlAssumption DEF OnePlace
<1>3. /\ out \in Seq(Sent) /\ sock \in [Clients -> Seq(Fragment)]
      /\ s \in Seq(Fragment) /\ w \in Seq(Fragment)
  BY <1>0, <1>1 DEF IInv, TypeOK, Sent
<1>4. /\ UNCHANGED <<program, tosend>> /\ sock' = [sock EXCEPT ![c] = << >>]
      /\ dropped \subseteq dropped'
  BY <1>c DEF ControlDispatch, DispatchNoMemory
<1>5. \A d \in Clients : AccountOf(d)
  BY <1>0 DEF Accounted, AccountOf
<1>6. /\ ImsgGets(Cat(b, s)) = ImsgGets(s) /\ Forwards(Cat(b, s)) = Forwards(s)
      /\ HasBad(Cat(b, s)) <=> HasBad(s)
  BY <1>1, <1>3, PartialAddsNothing
<1>7. Cat(b, s) \in Seq(Fragment)
  BY <1>1, <1>3, PartialAddsNothing, CatType
<1>8. Out(c) \in Seq(Msg) /\ Cat(Out(c), Messages(Cat(s, w))) = Expected(c)
  BY <1>1, <1>2, <1>3, <1>5, OutIs DEF AccountOf, Coming
<1>9. Expected(c)' = Expected(c) /\ Coming(c)' = Cat(<< >>, w)
  BY <1>1, <1>3, <1>4 DEF Expected, Coming
<1>10. ASSUME NEW f \in Seq(Fragment), SendParent(c, f) , AccountOf(c)' PROVE Accounted'
  <2>1. ASSUME NEW d \in Clients, d # c PROVE AccountOf(d)'
    <3>1. Out(d)' = Out(d)
      BY <1>1, <1>3, <1>10, <2>1, SendAdds
    <3>2. Expected(d)' = Expected(d) /\ Coming(d)' = Coming(d)
      BY <1>3, <1>4, <2>1 DEF Expected, Coming
    <3> QED BY <1>4, <1>5, <3>1, <3>2 DEF AccountOf, Messages
  <2> QED BY <1>10, <2>1 DEF Accounted, AccountOf
<1>11. CASE ControlDispatch(fd)
  <2>1. /\ SendParent(c, Forwards(Cat(b, s)))
        /\ IF SelectInSeq(Cat(b, s), IsBad) = 0
              THEN UNCHANGED dropped ELSE dropped' = dropped \cup {c}
    BY <1>11, <1>c DEF ControlDispatch, Cat
  <2> HIDE DEF b, s, w
  <2>2. SendParent(c, Forwards(s)) /\ Forwards(s) \in Seq(Fragment)
    BY <1>3, <1>6, <2>1, ForwardsType
  <2>3. Out(c)' = Cat(Out(c), Messages(s))
    BY <1>1, <1>3, <2>2, SendAdds DEF Messages
  <2>4. CASE ~HasBad(s)
    <3>1. /\ Cat(Cat(Out(c), Messages(s)), Messages(Cat(<< >>, w))) = Expected(c)
          /\ IsPrefix(Cat(Out(c), Messages(s)), Expected(c))
      BY <1>3, <1>8, <2>4, GoodRead
    <3>2. AccountOf(c)'
      BY <1>9, <2>3, <3>1 DEF AccountOf, Messages
    <3> QED BY <1>10, <2>2, <3>2
  <2>5. CASE HasBad(s)
    <3>1. c \in dropped'
      BY <1>6, <1>7, <2>1, <2>5, FirstBad
    <3>2. IsPrefix(Cat(Out(c), Messages(s)), Expected(c))
      BY <1>3, <1>8, <2>5, BadRead
    <3>3. AccountOf(c)'
      BY <1>9, <2>3, <3>1, <3>2 DEF AccountOf
    <3> QED BY <1>10, <2>2, <3>3
  <2> QED BY <2>4, <2>5
<1>12. CASE DispatchNoMemory(fd)
  <2>1. PICK k \in 0..Len(ImsgGets(Cat(b, s))) :
             SendParent(c, Filter(SubSeq(ImsgGets(Cat(b, s)), 1, k), Forwarded))
    BY <1>12, <1>c DEF DispatchNoMemory, Cat
  <2>2. c \in dropped'
    BY <1>12, <1>c DEF DispatchNoMemory
  <2> HIDE DEF b, s, w
  <2> DEFINE f == Filter(SubSeq(ImsgGets(s), 1, k), Forwarded)
  <2>3. SendParent(c, f) /\ k \in 0..Len(ImsgGets(s))
    BY <1>6, <2>1
  <2>4. f \in Seq(Fragment)
    <3>1. ImsgGets(s) \in Seq(Fragment)
      BY <1>3, ForwardsType
    <3>2. SubSeq(ImsgGets(s), 1, k) \in Seq(Fragment)
      BY <2>3, <3>1
    <3> QED BY <3>2, FilterOf
  <2>5. IsPrefix(Cat(Out(c), MsgsOf(f)), Expected(c))
    BY <1>3, <1>8, <2>3, CutRead
  <2> HIDE DEF f
  <2>6. Out(c)' = Cat(Out(c), MsgsOf(f))
    BY <1>1, <1>3, <2>3, <2>4, SendAdds
  <2>7. AccountOf(c)'
    BY <1>9, <2>2, <2>5, <2>6 DEF AccountOf
  <2> QED BY <1>10, <2>3, <2>4, <2>7
<1> QED BY <1>11, <1>12

-----------------------------------------------------------------------------
(* The theorem.                                                            *)

\* Initially nothing was forwarded and everything is to be written.
LEMMA InitForward ==
  ASSUME Init PROVE FInv
<1>1. IInv
  BY InitInv
<1>2. OnePlace
  BY DEF Init, OnePlace
<1>3. ASSUME NEW c \in Clients PROVE AccountOf(c)
  <2> DEFINE w == Stream(program[c].msgs)
  <2>1. w \in Seq(Fragment)
    BY ProgramType, StreamType DEF Init
  <2>2. sock[c] = << >> /\ tosend[c] = w /\ out = << >>
    BY DEF Init
  <2>3. Expected(c) = Messages(w)
    BY DEF Expected, Messages
  <2> HIDE DEF w
  <2>4. Coming(c) = w
    BY <2>1, <2>2, CatType DEF Coming
  <2>5. Messages(w) \in Seq(Msg)
    BY <2>1, MessagesPieces
  <2>6. Out(c) = << >>
    <3>1. Filter(out, [from : {c}, msg : Msg]) = << >>
      BY <2>2, FilterEmpty
    <3>2. MsgsOf(<< >>) = << >>
      BY DEF MsgsOf
    <3> QED BY <3>1, <3>2 DEF Out
  <2>7. Cat(<< >>, Messages(w)) = Messages(w) /\ << >> \in Seq(Msg)
    BY <2>5, CatType
  <2>8. IsPrefix(<< >>, Messages(w))
    BY <2>5, <2>7, IsPrefixCat
  <2> QED BY <2>3, <2>4, <2>6, <2>7, <2>8 DEF AccountOf
<1>4. Accounted
  BY <1>3 DEF Accounted, AccountOf
<1> QED BY <1>1, <1>2, <1>4 DEF FInv

\* Every step keeps each client's account.
LEMMA NextForward ==
  ASSUME FInv, [Next]_vars PROVE FInv'
<1>0. IInv /\ OnePlace /\ Accounted
  BY DEF FInv
<1>1. IInv'
  BY <1>0, NextInv
<1>a. \A c \in Clients : AccountOf(c)
  BY <1>0 DEF Accounted, AccountOf
<1>b. UNCHANGED <<program, out, sock, tosend>> /\ dropped \subseteq dropped' => Accounted'
  BY <1>a, Untouched DEF Accounted, AccountOf
<1>2. ASSUME NEW c \in Clients, ClientNext(c) PROVE OnePlace' /\ Accounted'
  <2>1. OnePlace'
    BY <1>0, <1>2, ClientPlace
  <2>2. CASE ClientWrite(c)
    BY <1>0, <2>1, <2>2, WriteAccount
  <2>3. CASE ~ClientWrite(c)
    <3>1. UNCHANGED <<program, out, sock, tosend, dropped>>
      BY <1>2, <2>3 DEF ClientNext, ClientConnect, ClientClose, ClientKilled, evars
    <3> QED BY <1>b, <2>1, <3>1
  <2> QED BY <2>2, <2>3
<1>3. ASSUME ControlAccept PROVE OnePlace' /\ Accounted'
  <2>1. UNCHANGED <<program, out, sock, tosend>> /\ dropped \subseteq dropped'
    BY <1>3 DEF ControlAccept, cvars
  <2> QED BY <1>0, <1>3, <1>b, <2>1, AcceptPlace
<1>4. ASSUME NEW fd \in Fds, ControlDispatch(fd) \/ DispatchNoMemory(fd) \/ ControlEof(fd)
      PROVE  OnePlace' /\ Accounted'
  <2>1. /\ fd \in events /\ UNCHANGED <<client, backlog>>
        /\ \/ UNCHANGED <<file, dropped>>
           \/ ControlClose(fd) /\ (dropped' = dropped \/ dropped' = dropped \cup {file[fd]})
    BY <1>4 DEF ControlDispatch, DispatchNoMemory, ControlEof, cvars
  <2>2. OnePlace'
    BY <1>0, <2>1, ReadPlace
  <2>3. CASE ControlEof(fd)
    <3>1. UNCHANGED <<program, out, sock, tosend, dropped>>
      BY <2>3 DEF ControlEof, cvars
    <3> QED BY <1>b, <2>2, <3>1
  <2>4. CASE ControlDispatch(fd) \/ DispatchNoMemory(fd)
    BY <2>2, <2>4, ReadAccount
  <2> QED BY <1>4, <2>3, <2>4
<1>5. ASSUME UNCHANGED vars PROVE OnePlace' /\ Accounted'
  <2>1. OnePlace'
    BY <1>0, <1>5 DEF vars, OnePlace
  <2> QED BY <1>5, <1>b, <2>1 DEF vars
<1>6. OnePlace' /\ Accounted'
  BY <1>2, <1>3, <1>4, <1>5 DEF Next, Quiet
<1> QED BY <1>1, <1>6 DEF FInv

\* A read buffer never holds more than the beginning of a message, so what the
\* engine holds of a client is worth what is in its socket.
LEMMA AccountsForPending ==
  ASSUME FInv PROVE ForwardedOnce
<1>0. IInv /\ \A c \in Clients : AccountOf(c)
  BY DEF FInv, Accounted, AccountOf
<1>1. ASSUME NEW c \in Clients
      PROVE  /\ IsPrefix(Out(c), Expected(c))
             /\ c \notin dropped =>
                    Out(c) \o MsgsOf(Forwards(Pending(c) \o tosend[c])) = Expected(c)
  <2> DEFINE fds == {fd \in Fds : file[fd] = c}
             g == CHOOSE fd \in fds : TRUE
             b == IF fds = {} THEN << >> ELSE ctl_conns[ConnByFd(g)].buf
             s == sock[c]
             w == tosend[c]
  <2>1. s \in Seq(Fragment) /\ w \in Seq(Fragment)
    BY <1>0 DEF IInv, TypeOK
  <2>2. b \in Seq(Partial)
    <3>1. CASE fds = {}
      BY <3>1
    <3>2. CASE fds # {}
      <4>1. g \in Fds /\ file[g] = c
        BY <3>2
      <4> HIDE DEF g
      <4>2. g \in events
        BY <1>0, <4>1, ControlAssumption DEF IInv, ListOK, OneConnPerFd
      <4>3. ctl_conns[ConnByFd(g)].buf \in Seq(Partial)
        BY <1>0, <4>2, Reads
      <4> QED BY <3>2, <4>3
    <3> QED BY <3>1, <3>2
  <2>3. Pending(c) = Cat(b, s)
    BY DEF Pending, Cat
  <2> HIDE DEF b, s, w
  <2>4. b \in Seq(Fragment) /\ Cat(s, w) \in Seq(Fragment)
    BY <2>1, <2>2, PartialAddsNothing, CatType
  <2>5. Cat(Cat(b, s), w) = Cat(b, Cat(s, w))
    BY <2>1, <2>4, CatAssoc
  <2>6. Forwards(Cat(Cat(b, s), w)) = Forwards(Cat(s, w))
    BY <2>2, <2>4, <2>5, PartialAddsNothing
  <2>7. MsgsOf(Forwards(Pending(c) \o tosend[c])) = Messages(Coming(c))
    BY <2>3, <2>6 DEF Cat, Messages, Coming, s, w
  <2> QED BY <1>0, <2>7 DEF AccountOf, Cat
<1> QED BY <1>1 DEF ForwardedOnce

\* The engine forwards each client's messages once, in order and whole, however
\* clients, reads and descriptors interleave, whatever the clients send and
\* wherever memory runs out.
THEOREM ForwardedExactlyOnce == Spec => []ForwardedOnce
<1>1. Init => FInv
  BY InitForward
<1>2. FInv /\ [Next]_vars => FInv'
  BY NextForward
<1>3. FInv => ForwardedOnce
  BY AccountsForPending
<1> QED BY <1>1, <1>2, <1>3, PTL DEF Spec
==============================================================================
