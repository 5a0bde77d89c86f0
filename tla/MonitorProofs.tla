--------------------------- MODULE MonitorProofs ---------------------------
(***************************************************************************)
(* Proofs about module Monitor, for every configuration and every set of   *)
(* stations: type correctness, IdleIsDown, NoneSkipped, and what the       *)
(* rounding of the signal does to the comparison with minsignal.           *)
(***************************************************************************)
EXTENDS Monitor, SequenceTheorems, TLAPS

Verdicts == {"untried", "absent", "mismatch"}

\* The loop is at a wireless of the lists.
AtWireless == net \in DOMAIN conf /\ pos \in DOMAIN conf[net].wlans

-----------------------------------------------------------------------------
(* The inductive invariant.                                                *)

\* There is a verdict for each wireless of each network.
Shape == \A n \in DOMAIN conf : DOMAIN verdict[n] = DOMAIN conf[n].wlans

\* An interface that found nothing is down, except the one in hand.
Lowered ==
    pc \notin Stopped =>
        \A i \in Interfaces : scanned[i] = "absent" =>
            ~up[i] \/ (pc \in {"scan", "down"} /\ i = wlan.interface)

\* In the wireless pass everything before the loop variables is settled, and at
\* its end there is nothing behind them.
InPass == {"next", "scan", "compare", "connect", "down", "sleep"}
Covered ==
    /\ pc \in InPass =>
          \A n \in DOMAIN conf : \A k \in DOMAIN conf[n].wlans : Before(n, k) => Settled(n, k)
    /\ pc = "down" => verdict[net][pos] = "absent"
    /\ pc = "sleep" => net \notin DOMAIN conf

IInv == TypeOK /\ Shape /\ Lowered /\ Covered

-----------------------------------------------------------------------------
(* Lemmas about the lists and the verdicts.                                *)

\* A position is a wireless of a network.
LEMMA PositionsAre ==
  /\ \A n, k : <<n, k>> \in Positions <=> n \in DOMAIN conf /\ k \in DOMAIN conf[n].wlans
  /\ \A p \in Positions : p = <<p[1], p[2]>>
BY DEF Positions

\* The domains of the lists are intervals.
LEMMA Lists ==
  ASSUME TypeOK
  PROVE  /\ conf \in Seq(Network) /\ DOMAIN conf = 1..Len(conf) /\ Len(conf) \in Nat
         /\ \A n \in DOMAIN conf : /\ conf[n].wlans \in Seq(Wireless)
                                   /\ DOMAIN conf[n].wlans = 1..Len(conf[n].wlans)
                                   /\ Len(conf[n].wlans) \in Nat
<1>1. conf \in Seq(Network)
  BY MonitorAssumption DEF TypeOK
<1>2. DOMAIN conf = 1..Len(conf) /\ Len(conf) \in Nat
  BY <1>1
<1>3. ASSUME NEW n \in DOMAIN conf
      PROVE  conf[n].wlans \in Seq(Wireless)
  <2>1. conf[n] \in Network
    BY <1>1, <1>2, ElementOfSeq
  <2> QED BY <2>1 DEF Network
<1>4. \A s \in Seq(Wireless) : DOMAIN s = 1..Len(s) /\ Len(s) \in Nat
  OBVIOUS
<1> QED BY <1>1, <1>2, <1>3, <1>4

\* At a wireless, its fields have their types.
LEMMA WlanTyped ==
  ASSUME TypeOK, AtWireless
  PROVE  wlan \in Wireless /\ wlan.interface \in Interfaces
<1>1. wlan \in Wireless
  BY Lists, ElementOfSeq DEF AtWireless, wlan
<1> QED BY <1>1 DEF Wireless

\* The verdicts a pass starts with.
LEMMA UntriedTyped ==
  ASSUME TypeOK
  PROVE  /\ Untried \in [DOMAIN conf -> Seq(Verdicts)]
         /\ \A n \in DOMAIN conf : DOMAIN Untried[n] = DOMAIN conf[n].wlans
<1>1. ASSUME NEW k \in Nat
      PROVE  [j \in 1..k |-> "untried"] \in Seq(Verdicts)
  BY DEF Verdicts
<1>2. ASSUME NEW n \in DOMAIN conf
      PROVE  [k \in DOMAIN conf[n].wlans |-> "untried"] \in Seq(Verdicts)
  BY <1>1, Lists
<1> QED BY <1>2 DEF Untried

\* Judging changes one verdict.
LEMMA Judged ==
  ASSUME TypeOK, Shape, AtWireless, NEW v \in Verdicts, Judge(v), conf' = conf
  PROVE  /\ verdict' \in [DOMAIN conf -> Seq(Verdicts)]
         /\ Shape'
         /\ verdict'[net][pos] = v
         /\ \A n \in DOMAIN conf : \A k \in DOMAIN conf[n].wlans :
               n # net \/ k # pos => verdict'[n][k] = verdict[n][k]
<1>1. verdict \in [DOMAIN conf -> Seq(Verdicts)]
  BY DEF TypeOK, Verdicts
<1>2. verdict[net] \in Seq(Verdicts) /\ DOMAIN verdict[net] = DOMAIN conf[net].wlans
  BY <1>1 DEF Shape, AtWireless
<1> DEFINE row == [verdict[net] EXCEPT ![pos] = v]
<1>3. pos \in 1..Len(verdict[net])
  BY <1>2 DEF AtWireless
<1>4. row \in Seq(Verdicts) /\ DOMAIN row = DOMAIN verdict[net]
  BY <1>2, <1>3, ExceptSeq
<1>5. verdict' = [verdict EXCEPT ![net] = row]
  BY DEF Judge
<1>6. row[pos] = v /\ \A k \in DOMAIN conf[net].wlans : k # pos => row[k] = verdict[net][k]
  BY <1>2 DEF AtWireless
<1> HIDE DEF row
<1>7. verdict' \in [DOMAIN conf -> Seq(Verdicts)]
  BY <1>1, <1>4, <1>5 DEF AtWireless
<1>8. verdict'[net] = row /\ \A n \in DOMAIN conf : n # net => verdict'[n] = verdict[n]
  BY <1>1, <1>5 DEF AtWireless
<1>9. Shape'
  BY <1>2, <1>4, <1>8 DEF Shape
<1> QED BY <1>6, <1>7, <1>8, <1>9

-----------------------------------------------------------------------------
(* Every action keeps the invariant.                                       *)

\* Every step keeps the variables in their types and the verdicts in their shape.
LEMMA TypeStep == TypeOK /\ Shape /\ [Next]_vars => TypeOK' /\ Shape'
<1> SUFFICES ASSUME TypeOK, Shape, [Next]_vars PROVE TypeOK' /\ Shape'
  OBVIOUS
<1> USE DEF States, Stopped
<1>0. /\ TypeOK <=> /\ pc \in States /\ conf \in Configs
                    /\ net \in 1..(Len(conf) + 1) /\ pos \in Nat \ {0}
                    /\ pc \in {"scan", "compare", "connect", "down"} => AtWireless
                    /\ air \subseteq Stations /\ myre \in Stations \cup {None}
                    /\ up \in [Interfaces -> BOOLEAN]
                    /\ scanned \in [Interfaces -> {"never", "absent", "found"}]
                    /\ verdict \in [DOMAIN conf -> Seq(Verdicts)]
      /\ TypeOK' <=> /\ pc' \in States /\ conf' \in Configs
                     /\ net' \in 1..(Len(conf') + 1) /\ pos' \in Nat \ {0}
                     /\ pc' \in {"scan", "compare", "connect", "down"} => AtWireless'
                     /\ air' \subseteq Stations /\ myre' \in Stations \cup {None}
                     /\ up' \in [Interfaces -> BOOLEAN]
                     /\ scanned' \in [Interfaces -> {"never", "absent", "found"}]
                     /\ verdict' \in [DOMAIN conf' -> Seq(Verdicts)]
  <2>1. (\A n, k : <<n, k>> \in Positions <=> n \in DOMAIN conf /\ k \in DOMAIN conf[n].wlans)'
    BY PositionsAre, PTL
  <2> QED BY <2>1, PositionsAre DEF TypeOK, AtWireless, Verdicts
<1>1. CASE MonitorEthernet
  BY <1>0, <1>1, UntriedTyped, Lists DEF MonitorEthernet, Shape
<1>2. CASE NextWireless
  <2>1. CASE AtWireless /\ pc' = "scan" /\ up' = [up EXCEPT ![wlan.interface] = TRUE] /\ UNCHANGED <<net, pos>>
    BY <1>0, <1>2, <2>1 DEF NextWireless, AtWireless, Shape
  <2>2. CASE net \in DOMAIN conf /\ net' = net + 1 /\ pos' = 1 /\ UNCHANGED <<pc, up>>
    BY <1>0, <1>2, <2>2, Lists DEF NextWireless, Shape
  <2>3. CASE pc' = "sleep" /\ UNCHANGED <<net, pos, up>>
    BY <1>0, <1>2, <2>3 DEF NextWireless, Shape
  <2> QED BY <1>2, <2>1, <2>2, <2>3 DEF NextWireless, AtWireless
<1>3. CASE Scan \/ ScanFails
  <2>1. AtWireless /\ UNCHANGED <<conf, net, pos, air, up>>
    BY <1>0, <1>3 DEF Scan, ScanFails
  <2>2. CASE ScanGives(None, "absent", "down") /\ Judge("absent")
    <3>1. verdict' \in [DOMAIN conf -> Seq(Verdicts)] /\ Shape'
      BY <2>1, <2>2, Judged DEF Verdicts
    <3> QED BY <1>0, <2>1, <2>2, <3>1 DEF ScanGives, AtWireless
  <2>3. CASE (\E s \in air : ScanGives(s, "found", "compare")) /\ UNCHANGED verdict
    BY <1>0, <2>1, <2>3 DEF ScanGives, AtWireless, Shape
  <2>4. CASE pc' = "failed" /\ UNCHANGED <<myre, scanned, verdict>>
    BY <1>0, <2>1, <2>4 DEF AtWireless, Shape
  <2> QED BY <1>3, <2>2, <2>3, <2>4 DEF Scan, ScanFails, Hits
<1>4. CASE Compare
  <2>1. AtWireless /\ UNCHANGED <<conf, air, myre, up, scanned>>
    BY <1>0, <1>4 DEF Compare
  <2>2. CASE pc' = "connect" /\ UNCHANGED <<net, pos, verdict>>
    BY <1>0, <2>1, <2>2 DEF AtWireless, Shape
  <2>3. CASE pc' = "next" /\ net' = net + 1 /\ pos' = 1 /\ Judge("mismatch")
    <3>1. verdict' \in [DOMAIN conf -> Seq(Verdicts)] /\ Shape'
      BY <2>1, <2>3, Judged DEF Verdicts
    <3>2. net' \in 1..(Len(conf) + 1)
      BY <2>1, <2>3, Lists DEF AtWireless
    <3> QED BY <1>0, <2>1, <2>3, <3>1, <3>2
  <2> QED BY <1>4, <2>2, <2>3 DEF Compare, Break
<1>5. CASE ConnectWireless \/ WakeUp \/ MonitorAgain \/ Fail
  BY <1>0, <1>5 DEF ConnectWireless, WakeUp, MonitorAgain, Fail, AtWireless, Shape
<1>6. CASE Down
  <2>1. pos' \in Nat \ {0}
    BY <1>0, <1>6 DEF Down
  <2>2. up' \in [Interfaces -> BOOLEAN]
    BY <1>0, <1>6 DEF Down, GoesDown
  <2> QED BY <1>0, <1>6, <2>1, <2>2 DEF Down, Shape
<1>7. CASE AirChanges
  BY <1>0, <1>7 DEF AirChanges, AtWireless, Shape
<1>8. CASE UNCHANGED vars
  BY <1>0, <1>8 DEF vars, AtWireless, Shape
<1> QED BY <1>1, <1>2, <1>3, <1>4, <1>5, <1>6, <1>7, <1>8 DEF Next, Step

\* Every step keeps the interfaces that found nothing down.
LEMMA LoweredStep == TypeOK /\ Lowered /\ [Next]_vars => Lowered'
<1> SUFFICES ASSUME TypeOK, Lowered, [Next]_vars PROVE Lowered'
  OBVIOUS
<1>0. /\ up \in [Interfaces -> BOOLEAN]
      /\ scanned \in [Interfaces -> {"never", "absent", "found"}]
      /\ pc \in {"scan", "compare", "connect", "down"} => AtWireless
  BY PositionsAre DEF TypeOK, AtWireless
<1> USE <1>0 DEF Lowered, Stopped
<1>1. CASE MonitorEthernet \/ ConnectWireless \/ WakeUp \/ MonitorAgain \/ Fail
  BY <1>1 DEF MonitorEthernet, ConnectWireless, WakeUp, MonitorAgain, Fail
<1>2. CASE NextWireless
  <2>1. CASE AtWireless /\ pc' = "scan" /\ up' = [up EXCEPT ![wlan.interface] = TRUE] /\ UNCHANGED <<net, pos>>
    <3>1. wlan' = wlan
      BY <1>2, <2>1 DEF NextWireless, wlan
    <3>2. wlan.interface \in Interfaces
      BY <2>1, WlanTyped
    <3> QED BY <1>2, <2>1, <3>1, <3>2 DEF NextWireless
  <2>2. CASE pc' \in {"next", "sleep"} /\ UNCHANGED up
    BY <1>2, <2>2 DEF NextWireless
  <2> QED BY <1>2, <2>1, <2>2 DEF NextWireless, AtWireless
<1>3. CASE Scan \/ ScanFails
  <2>1. wlan' = wlan /\ UNCHANGED up
    BY <1>3 DEF Scan, ScanFails, wlan
  <2>2. AtWireless /\ pc = "scan"
    BY <1>3 DEF Scan, ScanFails
  <2>3. wlan.interface \in Interfaces
    BY <2>2, WlanTyped
  <2>4. CASE ScanGives(None, "absent", "down")
    BY <2>1, <2>2, <2>3, <2>4 DEF ScanGives
  <2>5. CASE \E s \in air : ScanGives(s, "found", "compare")
    BY <2>1, <2>2, <2>3, <2>5 DEF ScanGives
  <2>6. CASE pc' = "failed"
    BY <2>6
  <2> QED BY <1>3, <2>4, <2>5, <2>6 DEF Scan, ScanFails, Hits
<1>4. CASE Compare
  BY <1>4 DEF Compare
<1>5. CASE Down
  <2>1. wlan.interface \in Interfaces
    BY <1>5, WlanTyped DEF Down
  <2> QED BY <1>5, <2>1 DEF Down, GoesDown
<1>6. CASE AirChanges \/ UNCHANGED vars
  BY <1>6 DEF AirChanges, vars, wlan
<1> QED BY <1>1, <1>2, <1>3, <1>4, <1>5, <1>6 DEF Next, Step

\* A wireless stays settled while the verdicts up to it stay.
LEMMA StaysSettled ==
  ASSUME NEW n, NEW k \in Nat \ {0}, Settled(n, k),
         \A j \in 1..k : verdict'[n][j] = verdict[n][j]
  PROVE  Settled(n, k)'
<1>1. verdict'[n][k] = verdict[n][k]
  BY SMT
<1>2. \A j \in 1..(k - 1) : j \in 1..k
  BY SMT
<1> QED BY <1>1, <1>2, Zenon DEF Settled

\* Every step of a pass leaves only settled wireless behind.
LEMMA CoveredStep == TypeOK /\ Shape /\ Covered /\ [Next]_vars => Covered'
<1> SUFFICES ASSUME TypeOK, Shape, Covered, [Next]_vars PROVE Covered'
  OBVIOUS
<1>0. /\ net \in 1..(Len(conf) + 1) /\ pos \in Nat \ {0}
      /\ pc \in {"scan", "compare", "connect", "down"} => AtWireless
      /\ DOMAIN conf = 1..Len(conf) /\ Len(conf) \in Nat
      /\ \A n \in DOMAIN conf : /\ DOMAIN conf[n].wlans = 1..Len(conf[n].wlans)
                                /\ Len(conf[n].wlans) \in Nat
  BY PositionsAre, Lists DEF TypeOK, AtWireless
<1>1. CASE MonitorEthernet
  BY <1>0, <1>1 DEF MonitorEthernet, Covered, InPass, Before
<1>2. CASE NextWireless
  <2>1. CASE pc' = "scan" /\ UNCHANGED <<net, pos>>
    BY <1>2, <2>1 DEF NextWireless, Covered, InPass, Before, Settled
  <2>2. CASE /\ net \in DOMAIN conf /\ pos \notin DOMAIN conf[net].wlans
             /\ net' = net + 1 /\ pos' = 1 /\ UNCHANGED pc
    <3>1. ASSUME NEW n \in DOMAIN conf, NEW k \in DOMAIN conf[n].wlans, Before(n, k)'
          PROVE  Before(n, k)
      BY <1>0, <2>2, <3>1 DEF Before
    <3> QED BY <1>2, <2>2, <3>1 DEF NextWireless, Covered, InPass, Settled
  <2>3. CASE net \notin DOMAIN conf /\ pc' = "sleep" /\ UNCHANGED <<net, pos>>
    BY <1>2, <2>3 DEF NextWireless, Covered, InPass, Before, Settled
  <2> QED BY <1>2, <2>1, <2>2, <2>3 DEF NextWireless
<1>3. CASE Scan \/ ScanFails
  <2>1. AtWireless /\ pc = "scan" /\ UNCHANGED <<conf, net, pos>>
    BY <1>0, <1>3 DEF Scan, ScanFails
  <2>2. CASE pc' = "down" /\ Judge("absent")
    <3>1. verdict'[net][pos] = "absent"
      BY <2>1, <2>2, Judged DEF Verdicts
    <3>2. ASSUME NEW n \in DOMAIN conf, NEW k \in DOMAIN conf[n].wlans, Before(n, k), Settled(n, k)
          PROVE  Settled(n, k)'
      <4>1. \A j \in 1..k : verdict'[n][j] = verdict[n][j]
        BY <1>0, <2>1, <2>2, <3>2, Judged DEF Verdicts, Before
      <4>2. k \in Nat \ {0}
        BY <1>0, <3>2
      <4> QED BY <3>2, <4>1, <4>2, StaysSettled
    <3> QED BY <2>1, <2>2, <3>1, <3>2 DEF Covered, InPass, Before
  <2>3. CASE pc' \in {"compare", "failed"} /\ UNCHANGED verdict
    BY <2>1, <2>3 DEF Covered, InPass, Before, Settled
  <2> QED BY <1>3, <2>2, <2>3 DEF Scan, ScanFails, ScanGives
<1>4. CASE Compare
  <2>1. AtWireless /\ pc = "compare" /\ UNCHANGED conf
    BY <1>0, <1>4 DEF Compare
  <2>2. CASE pc' = "connect" /\ UNCHANGED <<net, pos, verdict>>
    BY <2>1, <2>2 DEF Covered, InPass, Before, Settled
  <2>3. CASE pc' = "next" /\ net' = net + 1 /\ pos' = 1 /\ Judge("mismatch")
    <3>1. ASSUME NEW n \in DOMAIN conf, NEW k \in DOMAIN conf[n].wlans, Before(n, k)'
          PROVE  Settled(n, k)'
      <4>1. /\ verdict'[net][pos] = "mismatch"
            /\ \A j \in DOMAIN conf[n].wlans : n # net \/ j # pos => verdict'[n][j] = verdict[n][j]
        BY <2>1, <2>3, Judged DEF Verdicts
      <4>2. CASE Before(n, k)
        <5>1. Settled(n, k)
          BY <2>1, <4>2 DEF Covered, InPass
        <5>2. \A j \in 1..k : verdict'[n][j] = verdict[n][j]
          BY <1>0, <2>1, <4>1, <4>2 DEF Before
        <5>3. k \in Nat \ {0}
          BY <1>0, <3>1
        <5> QED BY <5>1, <5>2, <5>3, StaysSettled
      <4>3. CASE n = net /\ k >= pos
        BY <1>0, <2>1, <4>1, <4>3 DEF Settled
      <4> QED BY <1>0, <2>1, <2>3, <3>1, <4>2, <4>3 DEF Before
    <3> QED BY <2>1, <2>3, <3>1 DEF Covered
  <2> QED BY <1>4, <2>2, <2>3 DEF Compare, Break
<1>5. CASE Down
  <2>1. AtWireless /\ pc = "down" /\ pc' = "next" /\ pos' = pos + 1 /\ UNCHANGED <<conf, net, verdict>>
    BY <1>0, <1>5 DEF Down
  <2>2. ASSUME NEW n \in DOMAIN conf, NEW k \in DOMAIN conf[n].wlans, Before(n, k)'
        PROVE  Settled(n, k)'
    <3>1. Before(n, k) \/ (n = net /\ k = pos)
      BY <1>0, <2>1, <2>2 DEF Before
    <3>2. Settled(n, k)
      BY <2>1, <3>1 DEF Covered, InPass, Settled
    <3> QED BY <2>1, <3>2 DEF Settled
  <2> QED BY <2>1, <2>2 DEF Covered
<1>6. CASE ConnectWireless \/ WakeUp \/ MonitorAgain \/ Fail
  BY <1>6 DEF ConnectWireless, WakeUp, MonitorAgain, Fail, Covered, InPass
<1>7. CASE AirChanges \/ UNCHANGED vars
  BY <1>7 DEF AirChanges, vars, Covered, InPass, Before, Settled
<1> QED BY <1>1, <1>2, <1>3, <1>4, <1>5, <1>6, <1>7 DEF Next, Step

-----------------------------------------------------------------------------
(* The theorems.                                                           *)

\* The inductive invariant holds in every reachable state.
THEOREM Invariance == Spec => []IInv
<1>1. Init => IInv
  <2> SUFFICES ASSUME Init PROVE IInv
    OBVIOUS
  <2>1. conf \in Seq(Network)
    BY MonitorAssumption DEF Init
  <2>2. ASSUME NEW k \in Nat
        PROVE  [j \in 1..k |-> "untried"] \in Seq(Verdicts)
    BY DEF Verdicts
  <2>3. ASSUME NEW n \in DOMAIN conf
        PROVE  [k \in DOMAIN conf[n].wlans |-> "untried"] \in Seq(Verdicts)
    <3>1. conf[n] \in Network
      BY <2>1, ElementOfSeq
    <3>2. conf[n].wlans \in Seq(Wireless)
      BY <3>1 DEF Network
    <3>3. DOMAIN conf[n].wlans = 1..Len(conf[n].wlans) /\ Len(conf[n].wlans) \in Nat
      BY <3>2
    <3> QED BY <2>2, <3>3
  <2>4. Untried \in [DOMAIN conf -> Seq(Verdicts)]
    BY <2>3 DEF Untried
  <2>5. net \in 1..(Len(conf) + 1)
    BY <2>1 DEF Init
  <2>6. TypeOK
    BY <2>4, <2>5 DEF Init, TypeOK, States, Verdicts
  <2>7. Shape /\ Lowered /\ Covered
    BY DEF Init, Shape, Untried, Lowered, Covered, InPass
  <2> QED BY <2>6, <2>7 DEF IInv
<1>2. IInv /\ [Next]_vars => IInv'
  BY TypeStep, LoweredStep, CoveredStep DEF IInv
<1> QED BY <1>1, <1>2, PTL DEF Spec

\* The loop variables stay within the lists, and what was found keeps its type.
THEOREM TypeCorrect == Spec => []TypeOK
<1>1. IInv => TypeOK
  BY DEF IInv
<1> QED BY Invariance, <1>1, PTL

\* No interface stays up after a scan on it that found nothing.
THEOREM IdleDown == Spec => []IdleIsDown
<1>1. IInv => IdleIsDown
  BY DEF IInv, Lowered, IdleIsDown, Stopped
<1> QED BY Invariance, <1>1, PTL

\* A pass leaves out no wireless in silence, for lists of any length.
THEOREM NonePassedOver == Spec => []NoneSkipped
<1>1. IInv => NoneSkipped
  <2> SUFFICES ASSUME IInv, NEW p \in Positions, pc = "sleep" \/ (pc = "connect" /\ Before(p[1], p[2]))
               PROVE  Settled(p[1], p[2])
    BY DEF NoneSkipped
  <2>1. p[1] \in DOMAIN conf /\ p[2] \in DOMAIN conf[p[1]].wlans
    BY PositionsAre
  <2>2. pc = "sleep" => Before(p[1], p[2])
    <3>1. net \in 1..(Len(conf) + 1) /\ DOMAIN conf = 1..Len(conf) /\ Len(conf) \in Nat
      BY Lists DEF IInv, TypeOK
    <3> QED BY <2>1, <3>1 DEF IInv, Covered, Before
  <2> QED BY <2>1, <2>2 DEF IInv, Covered, InPass
<1> QED BY Invariance, <1>1, PTL

(***************************************************************************)
(* The comparison with minsignal                                           *)
(***************************************************************************)

\* The signal is compared in percent, rounded down (monitor_wireless).  Rounding
\* never decides: a minsignal is reached by the percentage exactly when it is reached
\* by nr_rssi on its own scale of 255.
THEOREM RoundingNeverDecides ==
    ASSUME NEW s \in Station, NEW n \in Nat
    PROVE  Signal(s) >= n <=> s.rssi * 100 >= 255 * n
<1> DEFINE x == s.rssi * 100
           q == x \div 255
<1>1. x \in Nat
  <2>1. s.rssi \in 0..255
    BY DEF Station
  <2> QED BY <2>1
<1>2. q \in Nat /\ 255 * q <= x /\ x < 255 * q + 255
  <2> HIDE DEF x
  <2> QED BY <1>1, SMTT(30)
<1>3. q >= n <=> x >= 255 * n
  <2> HIDE DEF x, q
  <2> QED BY <1>1, <1>2, SMTT(30)
<1> QED BY <1>3 DEF Signal

\* What InRangeConnects asks of the stations is what monitor_wireless tests: when a
\* wireless is in range, whichever station with its id the scan returns fits.
THEOREM InRangeFits ==
    ASSUME TypeOK, NEW p \in Positions, NEW s \in air,
           InRange(p[1], p[2]), s.nwid = conf[p[1]].wlans[p[2]].nwid
    PROVE  Fits(s, conf[p[1]].wlans[p[2]])
<1> DEFINE w == conf[p[1]].wlans[p[2]]
<1>1. s \in Station
  BY MonitorAssumption DEF TypeOK
<1>2. w.minsignal \in Nat
  <2>1. p[1] \in DOMAIN conf /\ p[2] \in DOMAIN conf[p[1]].wlans
    BY PositionsAre
  <2>2. w \in Wireless
    BY <2>1, Lists, ElementOfSeq
  <2> QED BY <2>2 DEF Wireless
<1>3. s.chan = w.channel /\ s.rssi * 100 >= 255 * w.minsignal /\ ~w.bssid
  BY DEF InRange
<1> QED BY <1>1, <1>2, <1>3, RoundingNeverDecides DEF Fits
==============================================================================
