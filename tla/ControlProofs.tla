---------------------------- MODULE ControlProofs ----------------------------
(***************************************************************************)
(* Proofs about module Control: every variable keeps its type, and the     *)
(* list of connections and the descriptors stay consistent, for any number *)
(* of clients and descriptors and whatever the clients send.               *)
(***************************************************************************)
EXTENDS Control, FilterProofs

\* What waits in a read buffer is the beginning of a message.
Partial == {f \in Fragment : ~f.last /\ ~IsBad(f)}
Conn == [fd : Fds, buf : Seq(Partial)]

\* The list of connections, the descriptors and the events agree.
ListOK ==
    /\ file \in [Fds -> Clients \cup {NoClient}]
    /\ ctl_conns \in Seq(Conn)
    /\ OneConnPerFd

-----------------------------------------------------------------------------
(* Lemmas about the list.                                                  *)

\* control_connbyfd finds the connection of an open descriptor.
LEMMA FindsConn ==
  ASSUME ListOK, NEW fd \in events
  PROVE  /\ fd \in Fds /\ file[fd] # NoClient
         /\ ConnByFd(fd) \in 1..Len(ctl_conns)
         /\ ctl_conns[ConnByFd(fd)].fd = fd
<1>1. fd \in Fds /\ file[fd] # NoClient
  BY DEF ListOK, OneConnPerFd
<1>2. DOMAIN ctl_conns = 1..Len(ctl_conns) /\ Len(ctl_conns) \in Nat
  BY DEF ListOK
<1>3. PICK i \in 1..Len(ctl_conns) : ctl_conns[i].fd = fd
  BY <1>1, <1>2 DEF ListOK, OneConnPerFd
<1>4. {j \in 1..Len(ctl_conns) : ctl_conns[j].fd = fd} = {i}
  BY <1>2, <1>3 DEF ListOK, OneConnPerFd
<1>5. Min({i}) = i
  BY <1>3 DEF Min
<1>6. ConnByFd(fd) = i
  BY <1>4, <1>5 DEF ConnByFd, SelectInSeq
<1> QED BY <1>1, <1>3, <1>6

\* An element less: those before and those behind it, in order.
LEMMA Removed ==
  ASSUME NEW S, NEW s \in Seq(S), NEW n \in 1..Len(s)
  PROVE  /\ RemoveAt(s, n) \in Seq(S) /\ Len(RemoveAt(s, n)) = Len(s) - 1
         /\ DOMAIN RemoveAt(s, n) = 1..(Len(s) - 1)
         /\ \A i \in 1..(Len(s) - 1) : RemoveAt(s, n)[i] = IF i < n THEN s[i] ELSE s[i + 1]
<1> DEFINE p == SubSeq(s, 1, n - 1)
           q == SubSeq(s, n + 1, Len(s))
<1>0. Len(s) \in Nat /\ n \in Nat
  OBVIOUS
<1>1. p \in Seq(S) /\ Len(p) = n - 1 /\ \A i \in 1..(n - 1) : p[i] = s[i]
  OBVIOUS
<1>2. q \in Seq(S) /\ Len(q) = Len(s) - n /\ \A i \in 1..(Len(s) - n) : q[i] = s[n + i]
  OBVIOUS
<1>3. RemoveAt(s, n) = p \o q
  BY DEF RemoveAt
<1> HIDE DEF p, q
<1>4. p \o q \in Seq(S) /\ Len(p \o q) = Len(s) - 1
  <2>1. p \o q \in Seq(S) /\ Len(p \o q) = Len(p) + Len(q)
    BY <1>1, <1>2, ConcatProperties
  <2>2. (n - 1) + (Len(s) - n) = Len(s) - 1
    BY <1>0
  <2> QED BY <1>1, <1>2, <2>1, <2>2
<1>5. ASSUME NEW i \in 1..(Len(s) - 1)
      PROVE  (p \o q)[i] = IF i < n THEN s[i] ELSE s[i + 1]
  <2>1. CASE i < n
    BY <1>1, <1>2, <2>1
  <2>2. CASE i >= n
    <3>1. (p \o q)[i] = q[i - (n - 1)]
      BY <1>1, <1>2, <2>2
    <3>2. i - (n - 1) \in 1..(Len(s) - n) /\ n + (i - (n - 1)) = i + 1
      BY <2>2
    <3>3. q[i - (n - 1)] = s[n + (i - (n - 1))]
      BY <1>2, <3>2
    <3> QED BY <2>2, <3>1, <3>2, <3>3
  <2>3. i < n \/ i >= n
    BY <1>0
  <2> QED BY <2>1, <2>2, <2>3
<1>6. DOMAIN (p \o q) = 1..(Len(s) - 1)
  BY <1>4
<1> QED BY <1>3, <1>4, <1>5, <1>6

\* control_close removes the connection of the descriptor and nothing else.
LEMMA CloseKeeps ==
  ASSUME ListOK, NEW fd \in events, ControlClose(fd)
  PROVE  ListOK'
<1> DEFINE n == ConnByFd(fd)
           L == Len(ctl_conns)
<1>1. ctl_conns \in Seq(Conn)
  BY DEF ListOK
<1>2. fd \in Fds /\ n \in 1..L /\ ctl_conns[n].fd = fd
  BY FindsConn
<1>3. L \in Nat /\ DOMAIN ctl_conns = 1..L
  BY <1>1
<1>4. /\ ctl_conns' \in Seq(Conn) /\ DOMAIN ctl_conns' = 1..(L - 1)
      /\ \A i \in 1..(L - 1) : ctl_conns'[i] = IF i < n THEN ctl_conns[i] ELSE ctl_conns[i + 1]
  BY <1>1, <1>2, Removed DEF ControlClose
<1>5. file' = [file EXCEPT ![fd] = NoClient] /\ events' = events \ {fd}
  BY DEF ControlClose
<1> HIDE DEF n, L
<1>6. /\ file \in [Fds -> Clients \cup {NoClient}]
      /\ \A g \in Fds : file[g] # NoClient <=> \E i \in 1..L : ctl_conns[i].fd = g
      /\ \A i, j \in 1..L : ctl_conns[i].fd = ctl_conns[j].fd => i = j
      /\ events = {g \in Fds : file[g] # NoClient}
  BY <1>3 DEF ListOK, OneConnPerFd
<1>7. file' \in [Fds -> Clients \cup {NoClient}]
  BY <1>5, <1>6
<1>8. ASSUME NEW g \in Fds
      PROVE  file'[g] # NoClient <=> \E i \in 1..(L - 1) : ctl_conns'[i].fd = g
  <2>1. CASE g = fd
    <3>1. file'[g] = NoClient
      BY <1>2, <1>5, <1>6, <2>1
    <3>2. ASSUME NEW i \in 1..(L - 1)
          PROVE  ctl_conns'[i].fd # fd
      <4>1. i \in 1..L /\ i + 1 \in 1..L /\ (i >= n => i + 1 # n)
        BY <1>2, <1>3
      <4>2. \A j \in 1..L : ctl_conns[j].fd = fd => j = n
        BY <1>2, <1>6
      <4> QED BY <1>4, <4>1, <4>2
    <3> QED BY <2>1, <3>1, <3>2
  <2>2. CASE g # fd
    <3>1. file'[g] = file[g]
      BY <1>5, <1>6, <2>2
    <3>2. ASSUME NEW i \in 1..L, ctl_conns[i].fd = g
          PROVE  \E j \in 1..(L - 1) : ctl_conns'[j].fd = g
      <4>1. CASE i < n
        BY <1>2, <1>3, <1>4, <3>2, <4>1
      <4>2. CASE i > n
        <5>1. i - 1 \in 1..(L - 1) /\ ~(i - 1 < n) /\ (i - 1) + 1 = i
          BY <1>2, <1>3, <4>2
        <5>2. ctl_conns'[i - 1] = ctl_conns[i]
          BY <1>4, <5>1
        <5> QED BY <3>2, <5>1, <5>2
      <4> QED BY <1>2, <1>3, <2>2, <3>2, <4>1, <4>2
    <3>3. ASSUME NEW j \in 1..(L - 1), ctl_conns'[j].fd = g
          PROVE  \E i \in 1..L : ctl_conns[i].fd = g
      <4>1. j \in 1..L /\ j + 1 \in 1..L
        BY <1>3
      <4> QED BY <1>4, <3>3, <4>1
    <3> QED BY <1>6, <3>1, <3>2, <3>3
  <2> QED BY <2>1, <2>2
<1>9. ASSUME NEW i \in 1..(L - 1), NEW j \in 1..(L - 1), ctl_conns'[i].fd = ctl_conns'[j].fd
      PROVE  i = j
  BY <1>2, <1>3, <1>4, <1>6, <1>9
<1>10. events' = {g \in Fds : file'[g] # NoClient}
  BY <1>2, <1>5, <1>6
<1>11. OneConnPerFd'
  BY <1>4, <1>8, <1>9, <1>10 DEF OneConnPerFd
<1> QED BY <1>4, <1>7, <1>11 DEF ListOK

Buffered(s, n, b) == [s EXCEPT ![n].buf = b]

\* Setting the buffer of one connection changes no descriptor.
LEMMA BufferSet ==
  ASSUME NEW s \in Seq(Conn), NEW n \in 1..Len(s), NEW b \in Seq(Partial)
  PROVE  /\ Buffered(s, n, b) \in Seq(Conn)
         /\ DOMAIN Buffered(s, n, b) = DOMAIN s
         /\ \A i \in DOMAIN s : Buffered(s, n, b)[i].fd = s[i].fd
<1> DEFINE new == [s[n] EXCEPT !.buf = b]
<1>1. s[n] \in Conn
  BY ElementOfSeq
<1>2. new \in Conn /\ new.fd = s[n].fd
  BY <1>1 DEF Conn
<1> HIDE DEF new
<1>3. /\ [s EXCEPT ![n] = new] \in Seq(Conn) /\ Len([s EXCEPT ![n] = new]) = Len(s)
      /\ \A i \in 1..Len(s) : [s EXCEPT ![n] = new][i] = IF i = n THEN new ELSE s[i]
  BY <1>2, ExceptSeq
<1>4. DOMAIN [s EXCEPT ![n] = new] = DOMAIN s /\ DOMAIN s = 1..Len(s)
  OBVIOUS
<1>5. Buffered(s, n, b) = [s EXCEPT ![n] = new]
  BY DEF Buffered, new
<1> QED BY <1>2, <1>3, <1>4, <1>5

\* A dispatch changes the buffer of one connection and no descriptor.
LEMMA BufferKeeps ==
  ASSUME ListOK, NEW fd \in events, NEW b \in Seq(Partial),
         ctl_conns' = Buffered(ctl_conns, ConnByFd(fd), b),
         events' = ImsgEventAdd(events \ {fd}, fd), UNCHANGED file
  PROVE  ListOK'
<1>1. ctl_conns \in Seq(Conn)
  BY DEF ListOK
<1>2. ConnByFd(fd) \in 1..Len(ctl_conns)
  BY FindsConn
<1>3. /\ ctl_conns' \in Seq(Conn)
      /\ DOMAIN ctl_conns' = DOMAIN ctl_conns
      /\ \A i \in DOMAIN ctl_conns : ctl_conns'[i].fd = ctl_conns[i].fd
  BY <1>1, <1>2, BufferSet
<1>4. events' = events
  BY DEF ImsgEventAdd
<1>5. OneConnPerFd'
  BY <1>3, <1>4, SMTT(30) DEF ListOK, OneConnPerFd
<1> QED BY <1>3, <1>5 DEF ListOK

\* The kernel finds a descriptor when one is free.
LEMMA FindsFree ==
  ASSUME FreeFds # {}
  PROVE  LowestFree \in Fds /\ file[LowestFree] = NoClient
<1>1. FreeFds \subseteq Nat
  BY ControlAssumption DEF FreeFds, Fds
<1>2. \E f \in FreeFds : \A h \in FreeFds : f <= h
  BY <1>1, LeastOf
<1> QED BY <1>2 DEF LowestFree, FreeFds

\* control_accept adds a connection for a descriptor that was not open.
LEMMA AcceptKeeps ==
  ASSUME ListOK, backlog \in Seq(Clients), ControlAccept
  PROVE  ListOK' /\ backlog' \in Seq(Clients)
<1>1. backlog' \in Seq(Clients) /\ Head(backlog) \in Clients
  BY DEF ControlAccept
<1>2. CASE UNCHANGED <<file, ctl_conns, events>>
  BY <1>1, <1>2 DEF ListOK, OneConnPerFd
<1>3. CASE /\ file' = [file EXCEPT ![LowestFree] = Head(backlog)]
           /\ ctl_conns' = Append(ctl_conns, [fd |-> LowestFree, buf |-> << >>])
           /\ events' = events \cup {LowestFree}
  <2> DEFINE g == LowestFree
             L == Len(ctl_conns)
             new == [fd |-> g, buf |-> << >>]
  <2>1. g \in Fds /\ file[g] = NoClient
    BY FindsFree DEF ControlAccept
  <2> HIDE DEF g
  <2>3. ctl_conns \in Seq(Conn)
    BY DEF ListOK
  <2>4. new \in Conn /\ new.fd = g
    BY <2>1 DEF Conn
  <2>5. ctl_conns' = Append(ctl_conns, new)
    BY <1>3 DEF g
  <2> HIDE DEF new
  <2>6. /\ ctl_conns' \in Seq(Conn) /\ DOMAIN ctl_conns' = 1..(L + 1)
        /\ DOMAIN ctl_conns = 1..L /\ L \in Nat
        /\ \A i \in 1..L : ctl_conns'[i] = ctl_conns[i]
        /\ ctl_conns'[L + 1] = new
    BY <2>3, <2>4, <2>5
  <2> HIDE DEF L
  <2>7. file' = [file EXCEPT ![g] = Head(backlog)] /\ events' = events \cup {g}
    BY <1>3 DEF g
  <2>8. /\ file \in [Fds -> Clients \cup {NoClient}]
        /\ \A h \in Fds : file[h] # NoClient <=> \E i \in 1..L : ctl_conns[i].fd = h
        /\ \A i, j \in 1..L : ctl_conns[i].fd = ctl_conns[j].fd => i = j
        /\ events = {h \in Fds : file[h] # NoClient}
    BY <2>6 DEF ListOK, OneConnPerFd
  <2>9. file' \in [Fds -> Clients \cup {NoClient}]
    BY <1>1, <2>7, <2>8
  <2>10. Head(backlog) # NoClient
    BY <1>1, ControlAssumption
  <2>11. \A i \in 1..L : ctl_conns[i].fd # g
    BY <2>1, <2>8
  <2>12. ASSUME NEW h \in Fds
         PROVE  file'[h] # NoClient <=> \E i \in 1..(L + 1) : ctl_conns'[i].fd = h
    <3>1. CASE h = g
      BY <2>1, <2>4, <2>6, <2>7, <2>8, <2>10, <3>1
    <3>2. CASE h # g
      <4>1. file'[h] = file[h]
        BY <2>7, <2>8, <3>2
      <4>2. (\E i \in 1..(L + 1) : ctl_conns'[i].fd = h) <=> \E i \in 1..L : ctl_conns[i].fd = h
        BY <2>4, <2>6, <3>2
      <4> QED BY <2>8, <4>1, <4>2
    <3> QED BY <3>1, <3>2
  <2>13. \A i, j \in 1..(L + 1) : ctl_conns'[i].fd = ctl_conns'[j].fd => i = j
    BY <2>4, <2>6, <2>8, <2>11
  <2>14. events' = {h \in Fds : file'[h] # NoClient}
    BY <2>1, <2>7, <2>8, <2>10
  <2>15. OneConnPerFd'
    BY <2>6, <2>12, <2>13, <2>14 DEF OneConnPerFd
  <2> QED BY <1>1, <2>6, <2>9, <2>15 DEF ListOK
<1> QED BY <1>2, <1>3 DEF ControlAccept

-----------------------------------------------------------------------------
(* Lemmas about fragments.                                                 *)

HasBad(s) == \E i \in 1..Len(s) : IsBad(s[i])

\* The search for a bad header finds the first one, or none.
LEMMA FirstBad ==
  ASSUME NEW s \in Seq(Fragment)
  PROVE  /\ SelectInSeq(s, IsBad) \in 0..Len(s)
         /\ SelectInSeq(s, IsBad) = 0 <=> ~HasBad(s)
         /\ SelectInSeq(s, IsBad) # 0 => IsBad(s[SelectInSeq(s, IsBad)])
         /\ \A j \in 1..Len(s) : j < SelectInSeq(s, IsBad) => ~IsBad(s[j])
<1> DEFINE I == {i \in 1..Len(s) : IsBad(s[i])}
           n == SelectInSeq(s, IsBad)
<1>0. Len(s) \in Nat /\ I \subseteq Nat
  OBVIOUS
<1>1. n = IF I = {} THEN 0 ELSE Min(I)
  BY DEF SelectInSeq
<1>2. CASE I = {}
  BY <1>0, <1>1, <1>2 DEF HasBad
<1>3. CASE I # {}
  <2> HIDE DEF I
  <2>1. \E x \in I : \A y \in I : x <= y
    BY <1>0, <1>3, LeastOf
  <2>2. Min(I) \in I /\ \A y \in I : Min(I) <= y
    BY <2>1 DEF Min
  <2>3. n = Min(I)
    BY <1>1, <1>3
  <2> HIDE DEF n
  <2>4. n \in I /\ \A y \in I : n <= y
    BY <2>2, <2>3
  <2>5. n \in 1..Len(s) /\ IsBad(s[n])
    BY <2>4 DEF I
  <2>6. \A j \in 1..Len(s) : j < n => ~IsBad(s[j])
    BY <1>0, <2>4, <2>5 DEF I
  <2>7. HasBad(s)
    BY <2>5 DEF HasBad
  <2>8. n # 0 /\ n \in 0..Len(s)
    BY <1>0, <2>5
  <2> QED BY <2>5, <2>6, <2>7, <2>8 DEF n
<1> QED BY <1>2, <1>3

\* What stays in the buffer after a read without a bad header.
LEMMA IncompleteIsPartial ==
  ASSUME NEW s \in Seq(Fragment), ~HasBad(s)
  PROVE  Incomplete(s) \in Seq(Partial)
<1>1. CASE s # << >> /\ ~Last(s).last
  <2>1. Len(s) \in 1..Len(s) /\ Last(s) = s[Len(s)]
    BY <1>1 DEF Last
  <2>2. Last(s) \in Fragment /\ ~IsBad(Last(s))
    BY <2>1, ElementOfSeq DEF HasBad
  <2>3. Last(s) \in Partial
    BY <1>1, <2>2 DEF Partial
  <2>4. Incomplete(s) = << Last(s) >>
    BY <1>1 DEF Incomplete
  <2> HIDE DEF Partial
  <2> QED BY <2>3, <2>4
<1>2. CASE ~(s # << >> /\ ~Last(s).last)
  BY <1>2 DEF Incomplete
<1> QED BY <1>1, <1>2

\* The fragments before a bad header.
LEMMA BeforeBadType ==
  ASSUME NEW s \in Seq(Fragment)
  PROVE  BeforeBad(s) \in Seq(Fragment)
<1> DEFINE n == SelectInSeq(s, IsBad)
<1>1. n \in 0..Len(s) /\ BeforeBad(s) = IF n = 0 THEN s ELSE SubSeq(s, 1, n - 1)
  BY FirstBad DEF BeforeBad
<1> HIDE DEF n
<1>2. n # 0 => SubSeq(s, 1, n - 1) \in Seq(Fragment)
  BY <1>1
<1> QED BY <1>1, <1>2

\* What imsg_get returns and what is forwarded of it are fragments.
LEMMA ForwardsType ==
  ASSUME NEW s \in Seq(Fragment)
  PROVE  ImsgGets(s) \in Seq(Fragment) /\ Forwards(s) \in Seq(Fragment)
<1>1. BeforeBad(s) \in Seq(Fragment)
  BY BeforeBadType
<1>2. ImsgGets(s) \in Seq(Fragment)
  BY <1>1, FilterOf DEF ImsgGets
<1>3. Forwards(s) \in Seq(Fragment)
  BY <1>2, FilterOf DEF Forwards
<1> QED BY <1>2, <1>3

\* A message is one fragment or two.
LEMMA FragmentsType ==
  ASSUME NEW m \in Msg PROVE Fragments(m) \in Seq(Fragment)
<1> DEFINE f == [msg |-> m, last |-> FALSE]
           g == [msg |-> m, last |-> TRUE]
<1>1. f \in Fragment /\ g \in Fragment
  BY DEF Fragment
<1>2. Fragments(m) = << g >> \/ Fragments(m) = << f, g >>
  BY DEF Fragments
<1> HIDE DEF f, g
<1>3. << g >> \in Seq(Fragment)
  BY <1>1
<1>4. << f, g >> \in Seq(Fragment)
  BY <1>1
<1> QED BY <1>2, <1>3, <1>4

\* g gives the concatenations of the first sequences of q: the recursion of FlattenSeq.
FlatSolves(q, n, g) ==
    g = [i \in 1..n |-> IF i = 1 THEN q[i] ELSE g[i - 1] \o q[i]]

\* FlattenSeq is defined by recursion along q: its equation has a solution.
LEMMA FlatSolvable ==
  ASSUME NEW S, NEW q \in Seq(Seq(S))
  PROVE  \E g : FlatSolves(q, Len(q), g)
<1> DEFINE N == {n \in Nat : \E g : FlatSolves(q, n, g)}
<1>1. 0 \in N
  <2> DEFINE g == [i \in 1..0 |-> << >>]
  <2>1. g = [i \in 1..0 |-> IF i = 1 THEN q[i] ELSE g[i - 1] \o q[i]]
    OBVIOUS
  <2>2. FlatSolves(q, 0, g)
    BY <2>1 DEF FlatSolves
  <2> QED BY <2>2
<1>2. ASSUME NEW n \in 0..(Len(q) - 1), n \in N PROVE n + 1 \in N
  <2>1. PICK g : FlatSolves(q, n, g)
    BY <1>2
  <2> DEFINE new == IF n = 0 THEN q[1] ELSE g[n] \o q[n + 1]
             h == [i \in 1..(n + 1) |-> IF i = n + 1 THEN new ELSE g[i]]
  <2>0. n \in Nat
    OBVIOUS
  <2>2. ASSUME NEW i \in 1..(n + 1)
        PROVE  h[i] = IF i = 1 THEN q[i] ELSE h[i - 1] \o q[i]
    <3>1. CASE i <= n
      <4>1. i \in 1..n /\ i # n + 1 /\ (i # 1 => i - 1 \in 1..(n + 1) /\ i - 1 # n + 1)
        BY <2>0, <3>1
      <4>2. h[i] = g[i] /\ (i # 1 => h[i - 1] = g[i - 1])
        BY <4>1
      <4>3. g[i] = IF i = 1 THEN q[i] ELSE g[i - 1] \o q[i]
        BY <2>1, <4>1 DEF FlatSolves
      <4> HIDE DEF h
      <4> QED BY <4>2, <4>3
    <3>2. CASE i = n + 1
      <4>1. (i = 1 <=> n = 0) /\ i - 1 = n /\ (i # 1 => n \in 1..(n + 1) /\ n # n + 1)
        BY <2>0, <3>2
      <4>2. h[i] = new /\ (i # 1 => h[i - 1] = g[n])
        BY <3>2, <4>1
      <4> HIDE DEF h
      <4> QED BY <3>2, <4>1, <4>2
    <3> QED BY <2>0, <3>1, <3>2
  <2>3. h = [i \in 1..(n + 1) |-> h[i]]
    OBVIOUS
  <2> HIDE DEF h
  <2>4. FlatSolves(q, n + 1, h)
    BY <2>2, <2>3 DEF FlatSolves
  <2> QED BY <2>0, <2>4
<1> HIDE DEF N
<1>3. Len(q) \in 0..Len(q) /\ Len(q) \in Nat
  OBVIOUS
<1>4. Len(q) \in N
  BY <1>1, <1>2, <1>3, NatInd
<1> QED BY <1>4 DEF N

\* The concatenation of sequences over a set is a sequence over it.
LEMMA FlattenType ==
  ASSUME NEW S, NEW q \in Seq(Seq(S))
  PROVE  FlattenSeq(q) \in Seq(S)
<1>0. Len(q) \in Nat
  OBVIOUS
<1>1. CASE Len(q) = 0
  <2>1. FlattenSeq(q) = q
    BY <1>1 DEF FlattenSeq
  <2> QED BY <1>1, <2>1
<1>2. CASE Len(q) # 0
  <2> DEFINE g == CHOOSE x : x = [i \in 1..Len(q) |-> IF i = 1 THEN q[i] ELSE x[i - 1] \o q[i]]
             N == {n \in Nat : n # 0 => g[n] \in Seq(S)}
  <2>1. FlattenSeq(q) = g[Len(q)]
    BY <1>2 DEF FlattenSeq
  <2>2. \E x : x = [i \in 1..Len(q) |-> IF i = 1 THEN q[i] ELSE x[i - 1] \o q[i]]
    BY FlatSolvable DEF FlatSolves
  <2>3. g = [i \in 1..Len(q) |-> IF i = 1 THEN q[i] ELSE g[i - 1] \o q[i]]
    BY <2>2
  <2> HIDE DEF g
  <2>4. ASSUME NEW n \in 0..(Len(q) - 1), n \in N PROVE n + 1 \in N
    <3>1. n + 1 \in 1..Len(q) /\ (n + 1 = 1 <=> n = 0) /\ (n + 1) - 1 = n
      BY <1>0
    <3>2. g[n + 1] = IF n = 0 THEN q[n + 1] ELSE g[n] \o q[n + 1]
      BY <2>3, <3>1
    <3>3. q[n + 1] \in Seq(S)
      BY <3>1, ElementOfSeq
    <3>4. n # 0 => g[n] \o q[n + 1] \in Seq(S)
      BY <2>4, <3>3, ConcatProperties
    <3>5. g[n + 1] \in Seq(S)
      BY <3>2, <3>3, <3>4
    <3> QED BY <3>1, <3>5
  <2>5. 0 \in N
    OBVIOUS
  <2> HIDE DEF N
  <2>6. \A n \in 0..Len(q) : n \in N
    BY <1>0, <2>4, <2>5, NatInd
  <2>7. Len(q) \in N
    BY <1>0, <2>6
  <2> QED BY <1>2, <2>1, <2>7 DEF N
<1> QED BY <1>1, <1>2

\* What a client writes for its messages.
LEMMA StreamType ==
  ASSUME NEW ms \in Seq(Msg) PROVE Stream(ms) \in Seq(Fragment)
<1> DEFINE q == [i \in DOMAIN ms |-> Fragments(ms[i])]
<1>1. DOMAIN ms = 1..Len(ms) /\ Len(ms) \in Nat
  OBVIOUS
<1>2. \A i \in 1..Len(ms) : Fragments(ms[i]) \in Seq(Fragment)
  BY <1>1, ElementOfSeq, FragmentsType
<1>3. q \in [1..Len(ms) -> Seq(Fragment)]
  BY <1>1, <1>2
<1> HIDE DEF q
<1>4. q \in Seq(Seq(Fragment))
  BY <1>1, <1>3
<1>5. Stream(ms) = FlattenSeq(q)
  BY DEF Stream, q
<1> QED BY <1>4, <1>5, FlattenType

\* What SendParent appends.
Tagged(c, frags) == [i \in DOMAIN frags |-> [from |-> c, msg |-> frags[i].msg]]
From(c) == [from : {c}, msg : Msg]

\* SendParent appends one record of client c for each fragment.
LEMMA TaggedType ==
  ASSUME NEW c, NEW s \in Seq(Fragment)
  PROVE  Tagged(c, s) \in Seq(From(c)) /\ Len(Tagged(c, s)) = Len(s)
<1>1. DOMAIN s = 1..Len(s) /\ Len(s) \in Nat
  OBVIOUS
<1>2. ASSUME NEW i \in 1..Len(s) PROVE [from |-> c, msg |-> s[i].msg] \in From(c)
  <2>1. s[i] \in Fragment
    BY ElementOfSeq
  <2>2. s[i].msg \in Msg
    BY <2>1 DEF Fragment
  <2> QED BY <2>2 DEF From
<1>3. Tagged(c, s) \in [1..Len(s) -> From(c)]
  BY <1>1, <1>2 DEF Tagged
<1> QED BY <1>1, <1>3

\* What was sent to the parent keeps its type when SendParent appends to it.
LEMMA SendType ==
  ASSUME out \in Seq([from : Clients, msg : Msg]), NEW c \in Clients,
         NEW s \in Seq(Fragment), SendParent(c, s)
  PROVE  out' \in Seq([from : Clients, msg : Msg])
<1> DEFINE O == [from : Clients, msg : Msg]
<1>1. Tagged(c, s) \in Seq(From(c)) /\ From(c) \subseteq O
  BY TaggedType DEF From
<1>2. out' = out \o Tagged(c, s)
  BY DEF SendParent, Tagged
<1>3. out \in Seq(O)
  OBVIOUS
<1> HIDE DEF O
<1>4. Tagged(c, s) \in Seq(O)
  BY <1>1, SeqWidens
<1>5. out' \in Seq(O)
  BY <1>2, <1>3, <1>4, ConcatProperties
<1> QED BY <1>5 DEF O

-----------------------------------------------------------------------------
(* The theorems.                                                           *)

\* The inductive invariant: the types, with the stronger one of the buffers that
\* ListOK states, and the consistency of the list.
IInv == TypeOK /\ ListOK

\* A buffer of fragments that begin a message is a buffer of fragments.
LEMMA ConnsType ==
  ASSUME NEW s \in Seq(Conn) PROVE s \in Seq([fd : Fds, buf : Seq(Fragment)])
<1>1. Partial \subseteq Fragment
  BY DEF Partial
<1>2. Seq(Partial) \subseteq Seq(Fragment)
  BY <1>1, SeqWidens
<1>3. Conn \subseteq [fd : Fds, buf : Seq(Fragment)]
  BY <1>2 DEF Conn
<1> QED BY <1>3, SeqWidens

\* The client whose messages a read event is about, its buffer and its socket.
LEMMA Reads ==
  ASSUME IInv, NEW fd \in events
  PROVE  /\ fd \in Fds /\ file[fd] \in Clients
         /\ ctl_conns[ConnByFd(fd)].buf \in Seq(Partial)
         /\ ctl_conns[ConnByFd(fd)].buf \o sock[file[fd]] \in Seq(Fragment)
<1> DEFINE b == ctl_conns[ConnByFd(fd)].buf
<1>0. ListOK
  BY DEF IInv
<1>1. fd \in Fds /\ file[fd] # NoClient /\ ConnByFd(fd) \in 1..Len(ctl_conns)
  BY <1>0, FindsConn
<1>2. file[fd] \in Clients
  BY <1>1 DEF IInv, TypeOK
<1>3. ctl_conns[ConnByFd(fd)] \in Conn
  BY <1>0, <1>1, ElementOfSeq DEF ListOK
<1>4. b \in Seq(Partial)
  BY <1>3 DEF Conn
<1> HIDE DEF b
<1>5. b \in Seq(Fragment)
  <2>1. Partial \subseteq Fragment
    BY DEF Partial
  <2> QED BY <1>4, <2>1, SeqWidens
<1>6. sock[file[fd]] \in Seq(Fragment)
  BY <1>2 DEF IInv, TypeOK
<1>7. b \o sock[file[fd]] \in Seq(Fragment)
  BY <1>5, <1>6, ConcatProperties
<1> QED BY <1>1, <1>2, <1>4, <1>7 DEF b

\* Every program's messages are messages.
LEMMA ProgramType ==
  ASSUME NEW p \in Programs PROVE p.msgs \in Seq(Msg)
<1>1. CASE p \in [cmd : {"other"}, msgs : Others]
  BY <1>1, ControlAssumption
<1>2. ASSUME NEW k \in Commands, p = [cmd |-> k, msgs |-> Composes(k)]
      PROVE  p.msgs \in Seq(Msg)
  <2> DEFINE lan == [type |-> "USE_ETHERNET", size |-> "name"]
             mon == [type |-> "IFCONFIGD_MONITOR", size |-> "none"]
  <2>1. lan \in Msg /\ mon \in Msg
    BY DEF Msg, Types, Sizes
  <2>2. Composes(k) \in {<< lan >>, << mon >>, << >>}
    BY DEF Composes
  <2> HIDE DEF lan, mon
  <2>3. << lan >> \in Seq(Msg) /\ << mon >> \in Seq(Msg) /\ << >> \in Seq(Msg)
    BY <2>1
  <2> QED BY <1>2, <2>2, <2>3
<1> QED BY <1>1, <1>2 DEF Programs

\* Initially the list is empty and every client has its program's stream to write.
LEMMA InitInv ==
  ASSUME Init PROVE IInv
<1>1. ASSUME NEW c \in Clients PROVE Stream(program[c].msgs) \in Seq(Fragment)
  BY <1>1, ProgramType, StreamType DEF Init
<1>2. tosend \in [Clients -> Seq(Fragment)]
  BY <1>1 DEF Init
<1>3. OneConnPerFd
  BY DEF Init, OneConnPerFd
<1>4. ListOK
  BY <1>3 DEF Init, ListOK
<1>5. TypeOK
  BY <1>2 DEF Init, TypeOK
<1> QED BY <1>4, <1>5 DEF IInv

\* A client's step keeps the types and does not touch the engine's list.
LEMMA ClientKeeps ==
  ASSUME IInv, NEW c \in Clients, ClientNext(c) PROVE IInv'
<1>0. TypeOK /\ ListOK
  BY DEF IInv
<1>1. UNCHANGED <<program, file, ctl_conns, events, out, dropped>>
  BY DEF ClientNext, ClientConnect, ClientWrite, ClientClose, ClientKilled, evars
<1>2. ListOK'
  BY <1>0, <1>1 DEF ListOK, OneConnPerFd
<1>3. client' \in [Clients -> {"idle", "connected", "closed", "failed"}]
  BY <1>0 DEF TypeOK, ClientNext, ClientConnect, ClientWrite, ClientClose, ClientKilled
<1>4. backlog' \in Seq(Clients)
  <2>1. backlog' = backlog \/ backlog' = Append(backlog, c)
    BY DEF ClientNext, ClientConnect, ClientWrite, ClientClose, ClientKilled, evars
  <2>2. backlog \in Seq(Clients)
    BY <1>0 DEF TypeOK
  <2> QED BY <2>1, <2>2
<1>5. /\ tosend' \in [Clients -> Seq(Fragment)]
      /\ sock' \in [Clients -> Seq(Fragment)]
  <2>1. CASE UNCHANGED <<tosend, sock>>
    BY <1>0, <2>1 DEF TypeOK
  <2>2. ASSUME NEW k \in 1..Len(tosend[c]),
               sock' = [sock EXCEPT ![c] = @ \o SubSeq(tosend[c], 1, k)],
               tosend' = [tosend EXCEPT ![c] = SubSeq(@, k + 1, Len(@))]
        PROVE  /\ tosend' \in [Clients -> Seq(Fragment)]
               /\ sock' \in [Clients -> Seq(Fragment)]
    <3> DEFINE p == SubSeq(tosend[c], 1, k)
               r == SubSeq(tosend[c], k + 1, Len(tosend[c]))
    <3>1. tosend[c] \in Seq(Fragment) /\ sock[c] \in Seq(Fragment)
      BY <1>0 DEF TypeOK
    <3>2. p \in Seq(Fragment) /\ r \in Seq(Fragment)
      BY <3>1
    <3>3. sock[c] \o p \in Seq(Fragment)
      BY <3>1, <3>2, ConcatProperties
    <3>4. sock' = [sock EXCEPT ![c] = sock[c] \o p] /\ tosend' = [tosend EXCEPT ![c] = r]
      BY <1>0, <2>2 DEF TypeOK
    <3> HIDE DEF p, r
    <3> QED BY <1>0, <3>2, <3>3, <3>4 DEF TypeOK
  <2> QED BY <2>1, <2>2 DEF ClientNext, ClientConnect, ClientWrite, ClientClose, ClientKilled
<1>6. TypeOK'
  BY <1>0, <1>1, <1>3, <1>4, <1>5 DEF TypeOK
<1> QED BY <1>2, <1>6 DEF IInv

\* The read handler keeps the types and the list, whatever it reads.
LEMMA DispatchKeeps ==
  ASSUME IInv, NEW fd \in Fds,
         ControlDispatch(fd) \/ DispatchNoMemory(fd) \/ ControlEof(fd)
  PROVE  IInv'
<1> DEFINE c == file[fd]
           buf == ctl_conns[ConnByFd(fd)].buf \o sock[c]
<1>0. TypeOK /\ ListOK
  BY DEF IInv
<1>1. fd \in events /\ UNCHANGED <<program, client, tosend, backlog>>
  BY DEF ControlDispatch, DispatchNoMemory, ControlEof, cvars
<1>2. c \in Clients /\ buf \in Seq(Fragment)
  BY <1>1, Reads
<1>3. ListOK'
  <2>1. CASE ControlClose(fd)
    BY <1>0, <1>1, <2>1, CloseKeeps
  <2>2. CASE /\ SelectInSeq(buf, IsBad) = 0
             /\ ctl_conns' = [ctl_conns EXCEPT ![ConnByFd(fd)].buf = Incomplete(buf)]
             /\ events' = ImsgEventAdd(events \ {fd}, fd)
             /\ UNCHANGED file
    <3> HIDE DEF buf
    <3>1. Incomplete(buf) \in Seq(Partial)
      BY <1>2, <2>2, FirstBad, IncompleteIsPartial
    <3>2. ctl_conns' = Buffered(ctl_conns, ConnByFd(fd), Incomplete(buf))
      BY <2>2 DEF Buffered
    <3> QED BY <1>0, <1>1, <2>2, <3>1, <3>2, BufferKeeps
  <2> QED BY <2>1, <2>2 DEF ControlDispatch, DispatchNoMemory, ControlEof
<1>4. sock' \in [Clients -> Seq(Fragment)]
  <2>1. sock' = sock \/ sock' = [sock EXCEPT ![c] = << >>]
    BY DEF ControlDispatch, DispatchNoMemory, ControlEof, cvars
  <2>2. sock \in [Clients -> Seq(Fragment)]
    BY <1>0 DEF TypeOK
  <2>3. << >> \in Seq(Fragment)
    OBVIOUS
  <2> QED BY <2>1, <2>2, <2>3
<1>5. dropped' \subseteq Clients
  <2>1. dropped' = dropped \/ dropped' = dropped \cup {c}
    BY DEF ControlDispatch, DispatchNoMemory, ControlEof
  <2> QED BY <1>0, <1>2, <2>1 DEF TypeOK
<1>6. out' \in Seq([from : Clients, msg : Msg])
  <2>1. CASE ControlDispatch(fd)
    <3>1. SendParent(c, Forwards(buf))
      BY <2>1 DEF ControlDispatch
    <3> HIDE DEF buf, c
    <3>2. Forwards(buf) \in Seq(Fragment)
      BY <1>2, ForwardsType
    <3> QED BY <1>0, <1>2, <3>1, <3>2, SendType DEF TypeOK
  <2>2. CASE DispatchNoMemory(fd)
    <3> DEFINE gets == ImsgGets(buf)
    <3>1. PICK k \in 0..Len(gets) : SendParent(c, Filter(SubSeq(gets, 1, k), Forwarded))
      BY <2>2 DEF DispatchNoMemory
    <3> HIDE DEF buf, c
    <3>2. gets \in Seq(Fragment)
      BY <1>2, ForwardsType
    <3> HIDE DEF gets
    <3>3. SubSeq(gets, 1, k) \in Seq(Fragment)
      BY <3>2
    <3>4. Filter(SubSeq(gets, 1, k), Forwarded) \in Seq(Fragment)
      BY <3>3, FilterOf
    <3> QED BY <1>0, <1>2, <3>1, <3>4, SendType DEF TypeOK
  <2>3. CASE ControlEof(fd)
    BY <1>0, <2>3 DEF ControlEof, TypeOK
  <2> QED BY <2>1, <2>2, <2>3
<1>7. TypeOK'
  <2>1. ctl_conns' \in Seq([fd : Fds, buf : Seq(Fragment)])
    BY <1>3, ConnsType DEF ListOK
  <2>2. file' \in [Fds -> Clients \cup {NoClient}] /\ events' \subseteq Fds
    BY <1>3 DEF ListOK, OneConnPerFd
  <2> QED BY <1>0, <1>1, <1>4, <1>5, <1>6, <2>1, <2>2 DEF TypeOK
<1> QED BY <1>3, <1>7 DEF IInv

\* Every event handler and every step of a client keeps the invariant.
LEMMA NextInv ==
  ASSUME IInv, [Next]_vars PROVE IInv'
<1>1. CASE \E c \in Clients : ClientNext(c)
  BY <1>1, ClientKeeps
<1>2. CASE ControlAccept
  <2>1. ListOK' /\ backlog' \in Seq(Clients)
    BY <1>2, AcceptKeeps DEF IInv, TypeOK
  <2>2. UNCHANGED <<program, client, tosend, sock, out>>
    BY <1>2 DEF ControlAccept, cvars
  <2>3. Head(backlog) \in Clients
    BY <1>2 DEF IInv, TypeOK, ControlAccept
  <2>4. dropped' \subseteq Clients
    BY <1>2, <2>3 DEF IInv, TypeOK, ControlAccept
  <2>5. ctl_conns' \in Seq([fd : Fds, buf : Seq(Fragment)])
    BY <2>1, ConnsType DEF ListOK
  <2>6. file' \in [Fds -> Clients \cup {NoClient}] /\ events' \subseteq Fds
    BY <2>1 DEF ListOK, OneConnPerFd
  <2>7. TypeOK'
    BY <2>1, <2>2, <2>4, <2>5, <2>6 DEF IInv, TypeOK
  <2> QED BY <2>1, <2>7 DEF IInv
<1>3. ASSUME NEW fd \in Fds, ControlDispatch(fd) \/ DispatchNoMemory(fd) \/ ControlEof(fd)
      PROVE  IInv'
  BY <1>3, DispatchKeeps
<1>4. CASE UNCHANGED vars
  BY <1>4 DEF vars, IInv, TypeOK, ListOK, OneConnPerFd
<1> QED BY <1>1, <1>2, <1>3, <1>4 DEF Next, Quiet

\* The invariant holds in every reachable state.
THEOREM Invariance == Spec => []IInv
<1>1. Init => IInv
  BY InitInv
<1>2. IInv /\ [Next]_vars => IInv'
  BY NextInv
<1> QED BY <1>1, <1>2, PTL DEF Spec

\* Clients, kernel and engine keep their types: nothing but messages that clients
\* wrote is read, buffered and forwarded.
THEOREM TypeCorrect == Spec => []TypeOK
<1>1. IInv => TypeOK
  BY DEF IInv
<1> QED BY Invariance, <1>1, PTL

\* control_connbyfd always finds the one connection of an open descriptor, however
\* often the kernel has reused its number.
THEOREM ConnectionsConsistent == Spec => []OneConnPerFd
<1>1. IInv => OneConnPerFd
  BY DEF IInv, ListOK
<1> QED BY Invariance, <1>1, PTL
==============================================================================
