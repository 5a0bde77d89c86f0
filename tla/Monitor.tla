------------------------------- MODULE Monitor -------------------------------
(***************************************************************************)
(* monitor() of the monitor engine (patches/monitor_engine/monitore.c):    *)
(* pass after pass over the configured networks, first the ethernets, then *)
(* for each wireless in list order bring the interface up, scan, compare   *)
(* the first matching station with the configuration and connect, until a  *)
(* connection was made.  It is called again for every message.             *)
(*                                                                         *)
(* The scan reads the stations there are and then sleeps two seconds, so   *)
(* what it found may be gone when it is used; stations come and go at any  *)
(* time.  Several wireless entries may use one interface.                  *)
(***************************************************************************)
EXTENDS Naturals, Sequences

CONSTANTS
    Interfaces,   \* wireless interfaces
    Nwids,        \* network ids
    NoNwid,       \* the configuration gives no nwid
    Configs,      \* the configurations parse_config may return
    Stations      \* access points that may be in range

\* A station: its id, nr_channel and nr_rssi (8 bits).
Channels == 0..(2^16 - 1)
Station == [nwid : Nwids, chan : Channels, rssi : 0..255]

\* A configured wireless.  channel is 0 when not given; bssid and wpakey: given or not.
Wireless == [interface : Interfaces, nwid : Nwids \cup {NoNwid}, channel : Nat,
             minsignal : Nat, bssid : BOOLEAN, wpakey : BOOLEAN, isdhcp : BOOLEAN]

\* A configured network: its ethernets reduced to whether active_check returns
\* (no interface is named) and how they are connected, and its wireless list.
Ethernet == [interface : BOOLEAN, isdhcp : BOOLEAN]
Network == [ethernets : Seq(Ethernet), wlans : Seq(Wireless)]

ASSUME MonitorAssumption ==
    /\ NoNwid \notin Nwids
    /\ Configs \subseteq Seq(Network)
    /\ Stations \subseteq Station

None == [nwid |-> NoNwid, chan |-> 0, rssi |-> 0]

VARIABLES
    pc,        \* where monitor() is (see States)
    conf,      \* env->network_list
    net, pos,  \* the loop variables: network and wireless
    air,       \* the stations in range now
    myre,      \* myre[0]: the station the scan returned, or None
    up,        \* which interfaces are up
    scanned,   \* history: what the last scan on an interface gave
    verdict    \* history: what this pass found for each wireless

vars == <<pc, conf, net, pos, air, myre, up, scanned, verdict>>

\* ethernet: about to call monitor_ethernet; next, scan, compare, connect, down:
\* the steps of monitor_wireless; sleep: until the next interval; returned:
\* monitor() returned 0; dhclient: the program was replaced; failed: it ended.
Stopped == {"dhclient", "failed"}
States == {"ethernet", "next", "scan", "compare", "connect", "down", "sleep", "returned"} \cup Stopped

Positions == UNION {{n} \X DOMAIN conf[n].wlans : n \in DOMAIN conf}
Ethernets == UNION {{conf[n].ethernets[i] : i \in DOMAIN conf[n].ethernets} : n \in DOMAIN conf}
wlan == conf[net].wlans[pos]
Untried == [n \in DOMAIN conf |-> [k \in DOMAIN conf[n].wlans |-> "untried"]]
Judge(v) == verdict' = [verdict EXCEPT ![net][pos] = v]

Init ==
    /\ pc = "ethernet" /\ conf \in Configs
    /\ net = 1 /\ pos = 1
    /\ air \in SUBSET Stations /\ myre = None
    /\ up \in [Interfaces -> BOOLEAN]
    /\ scanned = [i \in Interfaces |-> "never"]
    /\ verdict = Untried

-----------------------------------------------------------------------------

\* monitor_ethernet: it goes on to the wireless pass when no ethernet has become
\* active; a connection ends monitor(), the program or, where the address is
\* static, the process; active_check crashes on an ethernet with an interface.
MonitorEthernet ==
    /\ pc = "ethernet"
    /\ \/ /\ \A e \in Ethernets : ~e.interface
          /\ pc' = "next"
       \/ /\ \E e \in Ethernets : e.isdhcp /\ ~e.interface
          /\ pc' \in {"dhclient", "returned"}
       \/ /\ Ethernets # {}
          /\ pc' = "failed"
    /\ net' = 1 /\ pos' = 1
    /\ verdict' = Untried
    /\ UNCHANGED <<conf, air, myre, up, scanned>>

\* The heads of the two loops of monitor_wireless: the next wireless of this
\* network, brought up, the next network, or -1 and the sleep.
NextWireless ==
    /\ pc = "next"
    /\ \/ /\ net \in DOMAIN conf /\ pos \in DOMAIN conf[net].wlans
          /\ pc' = "scan"
          /\ up' = [up EXCEPT ![wlan.interface] = TRUE]
          /\ UNCHANGED <<net, pos>>
       \/ /\ net \in DOMAIN conf /\ pos \notin DOMAIN conf[net].wlans
          /\ net' = net + 1 /\ pos' = 1
          /\ UNCHANGED <<pc, up>>
       \/ /\ net \notin DOMAIN conf
          /\ pc' = "sleep"
          /\ UNCHANGED <<net, pos, up>>
    /\ UNCHANGED <<conf, air, myre, scanned, verdict>>

\* What ieee80211_scan found, as the caller sees it.
ScanGives(station, what, next) ==
    /\ myre' = station
    /\ scanned' = [scanned EXCEPT ![wlan.interface] = what]
    /\ pc' = next

\* The nodes in range whose nr_nwid is that of the wireless.
Hits == {s \in air : s.nwid = wlan.nwid}

\* ieee80211_scan: the first station in the kernel's order that has the nwid, if
\* any; without an nwid in the configuration strcmp is given NULL.  The result
\* points into the stack frame that was left, which nothing overwrites before
\* the caller has compared it.
Scan ==
    /\ pc = "scan"
    /\ \/ /\ Hits = {} /\ (wlan.nwid = NoNwid => air = {})
          /\ ScanGives(None, "absent", "down") /\ Judge("absent")
       \/ /\ \E s \in Hits : ScanGives(s, "found", "compare")
          /\ UNCHANGED verdict
       \/ /\ wlan.nwid = NoNwid /\ air # {}
          /\ pc' = "failed" /\ UNCHANGED <<myre, scanned, verdict>>
    /\ UNCHANGED <<conf, net, pos, air, up>>

\* The ioctl fails: a warning, and no station.
ScanFails ==
    /\ pc = "scan"
    /\ ScanGives(None, "absent", "down") /\ Judge("absent")
    /\ UNCHANGED <<conf, net, pos, air, up>>

\* rssi = (myre[0]->nr_rssi*100)/255.  Faulty variant: the quotient is taken first.
SignalTruncated(s) == (s.rssi \div 255) * 100
Signal(s) == (s.rssi * 100) \div 255

\* The station is the one the configuration describes.  The configured bssid is
\* compared as a pointer with the buffer of ether_ntoa: they always differ.
Fits(s, w) ==
    /\ s.chan = w.channel
    /\ Signal(s) >= w.minsignal
    /\ ~w.bssid

\* Where the break of the inner loop leads.  Faulty variants: out of both loops, or
\* past the network the outer loop advances to.
BreakBoth(n) == Len(conf) + 1
BreakPast(n) == n + 2
Break(n) == n + 1

\* The comparison after the scan: connect, or leave the wireless list of this
\* network with the interface up.
Compare ==
    /\ pc = "compare"
    /\ \/ /\ Fits(myre, wlan)
          /\ pc' = "connect"
          /\ UNCHANGED <<net, pos, verdict>>
       \/ /\ ~Fits(myre, wlan)
          /\ pc' = "next" /\ net' = Break(net) /\ pos' = 1
          /\ Judge("mismatch")
    /\ UNCHANGED <<conf, air, myre, up, scanned>>

\* connect_wireless: "wpakey" without a key is an errx, and so is any of the
\* ioctls that fails; execl replaces the program or fails, which is 0 as well;
\* the argument list of a static address was cleared.
ConnectWireless ==
    /\ pc = "connect"
    /\ \/ pc' = "failed"
       \/ wlan.wpakey /\ wlan.isdhcp /\ pc' \in {"dhclient", "returned"}
    /\ UNCHANGED <<conf, net, pos, air, myre, up, scanned, verdict>>

\* What ifconfig_gate does for "down".  Faulty variant: nothing.
StaysUp(i) == up
GoesDown(i) == [up EXCEPT ![i] = FALSE]

\* Nothing was found: the interface goes down, and the inner loop continues.
Down ==
    /\ pc = "down"
    /\ up' = GoesDown(wlan.interface)
    /\ pc' = "next" /\ pos' = pos + 1
    /\ UNCHANGED <<conf, net, air, myre, scanned, verdict>>

\* sleep(env->upinterval) and the next pass.
WakeUp ==
    /\ pc = "sleep" /\ pc' = "ethernet"
    /\ UNCHANGED <<conf, net, pos, air, myre, up, scanned, verdict>>

Step ==
    \/ MonitorEthernet \/ NextWireless \/ Scan \/ Compare \/ ConnectWireless \/ Down \/ WakeUp

\* monitore_dispatch_imsg: another message, another call.
MonitorAgain ==
    /\ pc = "returned" /\ pc' = "ethernet"
    /\ UNCHANGED <<conf, net, pos, air, myre, up, scanned, verdict>>

\* The process is killed, or ends because an ifconfig_gate or a system call fails.
Fail ==
    /\ pc \notin Stopped
    /\ pc' = "failed"
    /\ UNCHANGED <<conf, net, pos, air, myre, up, scanned, verdict>>

\* Stations come and go.
AirChanges ==
    /\ air' \in SUBSET Stations
    /\ UNCHANGED <<pc, conf, net, pos, myre, up, scanned, verdict>>

Next == Step \/ ScanFails \/ MonitorAgain \/ Fail \/ AirChanges

Spec == Init /\ [][Next]_vars

\* monitor() runs on; the messages and the stations are not under its control.
FairSpec == Spec /\ WF_vars(Step)

-----------------------------------------------------------------------------
(* Properties.                                                             *)

\* Type invariant of the loop and of what it found.
TypeOK ==
    /\ pc \in States /\ conf \in Configs
    /\ net \in 1..(Len(conf) + 1) /\ pos \in Nat \ {0}
    /\ pc \in {"scan", "compare", "connect", "down"} => <<net, pos>> \in Positions
    /\ air \subseteq Stations /\ myre \in Stations \cup {None}
    /\ up \in [Interfaces -> BOOLEAN]
    /\ scanned \in [Interfaces -> {"never", "absent", "found"}]
    /\ verdict \in [DOMAIN conf -> Seq({"untried", "absent", "mismatch"})]

\* monitor_wireless keeps no interface up for nothing: between two passes, an
\* interface whose last scan found nothing is down, also when several wireless
\* entries share it and when a break has cut a list short.
IdleIsDown ==
    pc \notin {"scan", "down"} \cup Stopped =>
        \A i \in Interfaces : scanned[i] = "absent" => ~up[i]

\* A wireless was dealt with in this pass, or the break on an earlier one of its
\* network has skipped it.
Settled(n, k) ==
    \/ verdict[n][k] # "untried"
    \/ \E j \in 1..(k - 1) : verdict[n][j] = "mismatch"

Before(n, k) == n < net \/ (n = net /\ k < pos)

\* No wireless is passed over in silence: when the pass sleeps every wireless was
\* scanned for, or follows one of its network that was in range and did not fit;
\* when it connects, that holds for all that come earlier in the lists.
NoneSkipped ==
    \A p \in Positions :
        pc = "sleep" \/ (pc = "connect" /\ Before(p[1], p[2])) => Settled(p[1], p[2])

\* A wireless is in range to stay for all the scan can tell: every station with
\* its id fits, none of the ids before it in its network is in range.
InRange(n, k) ==
    LET w == conf[n].wlans[k]
    IN /\ \E s \in air : s.nwid = w.nwid
       /\ \A s \in air : s.nwid = w.nwid => s.chan = w.channel /\ s.rssi * 100 >= 255 * w.minsignal
       /\ ~w.bssid
       /\ \A j \in 1..(k - 1) : \A s \in air : s.nwid # conf[n].wlans[j].nwid

\* The ioctl fails in the scan for a wireless that has a station in range.  A scan
\* that finds nothing because nothing is there is not one of these.
ScanMisses(n, k) == net = n /\ pos = k /\ ScanFails /\ Hits # {}

\* The positions of all configurations.
Places == UNION {UNION {{n} \X DOMAIN c[n].wlans : n \in DOMAIN c} : c \in Configs}

\* A wireless that comes into range and stays is noticed by monitor_wireless,
\* unless its own scans keep failing: monitor() does not sleep for ever, whatever
\* happens to the stations of the other networks, however many entries before it
\* find nothing, and however often the scans of the others fail.
InRangeConnects ==
    \A p \in Places :
        <>[](p \in Positions /\ InRange(p[1], p[2])) /\ <>[][~ScanMisses(p[1], p[2])]_vars
            => []<>(pc \in Stopped \cup {"connect", "returned"})
==============================================================================
