------------------------------ MODULE Ifconfigd ------------------------------
(***************************************************************************)
(* The two processes of ifconfigd(8) and the pipe between them.            *)
(*                                                                         *)
(* The privileged parent (ifconfigd.c) forks the engine (ifconfigde.c),    *)
(* which opens the control socket, drops its privileges and forwards the   *)
(* requests of its clients to the parent over pipe_parent2ifconfigd, a     *)
(* nonblocking socketpair: end 0 is the parent's, end 1 the engine's.  The *)
(* parent handles the requests one at a time inside its event loop.  Each  *)
(* process learns of the loss of the other from end-of-file on that pipe;  *)
(* the parent also gets SIGCHLD.                                           *)
(*                                                                         *)
(* What a client does to the engine is module Control; here a request is   *)
(* handed to ifconfigde_imsg_compose_parent at any time the engine is in   *)
(* its event loop and has a listening control socket.                      *)
(***************************************************************************)
EXTENDS Naturals, Sequences

CONSTANTS
    ShortNames,   \* network names that end within the first sizeof(void *) bytes
    LongHeads,    \* the first sizeof(void *) bytes of the names that do not
    Tails,        \* the remaining bytes of those names
    NoTail,       \* the (empty) remainder of a short name
    Junk,         \* heap bytes that are not the remainder of any name
    Configs,      \* the ethernet lists parse_config may return
    Requests,     \* the requests clients may have forwarded
    PipeCap,      \* messages the socketpair buffer holds
    MaxFwd        \* bound: messages the engine composes

\* A network name, split where ifconfigde_imsg_compose_parent cuts it.
Name == [head : ShortNames, tail : {NoTail}] \cup [head : LongHeads, tail : Tails]

NoName == [head |-> NoTail, tail |-> NoTail]

\* One configured ethernet of ifconfigd_conf: how it gets its address (parse.y
\* leaves staticopts NULL only where it sets isdhcp), and whether the
\* configuration names an interface for it.
Ethernet == [name : Name, how : {"dhcp", "static"}, interface : BOOLEAN]

\* Messages the engine forwards: the name travels with IMSG_USE_ETHERNET only.
OtherTypes == {"USE_NETWORKS", "USE_WIRELESS", "SHOW_WIRELESS"}
Message == [type : {"USE_ETHERNET"}, name : Name]
           \cup [type : OtherTypes \cup {"IFCONFIGD_MONITOR"}, name : {NoName}]

NoMsg == [type |-> "NONE", name |-> NoName]

ASSUME ConstantsAssumption ==
    /\ ShortNames \cap LongHeads = {}
    /\ NoTail \notin ShortNames \cup LongHeads \cup Tails
    /\ Junk \notin Tails \cup {NoTail}
    /\ Configs \subseteq Seq(Ethernet)
    /\ Requests \subseteq Message
    /\ PipeCap \in Nat \ {0}
    /\ MaxFwd \in Nat

VARIABLES
    parent,          \* where the parent is (see ParentStates)
    engine,          \* where the engine is (see EngineStates)
    ifconfigde_pid,  \* the parent's variable: 0, or 1 for the engine's pid
    pfds,            \* ends of the pipe open in the parent
    efds,            \* ends of the pipe open in the engine
    sigs,            \* signals pending in the parent's kqueue
    listening,       \* the control socket accepts connections
    conf,            \* ifconfigd_conf: the ethernets in list order
    wq,              \* iev_parent->ibuf.w: composed, not yet written
    armed,           \* iev_parent->events contains EV_WRITE
    pipe,            \* written by the engine, not yet read by the parent
    rbuf,            \* iev_ifconfigde->ibuf.r: read, not yet returned by imsg_get
    cur,             \* the message main_dispatch_ifconfigde is working on
    shut,            \* local of main_dispatch_ifconfigde: end-of-file was read
    fwd,             \* history: every message composed for the parent
    handled,         \* history: every message imsg_get returned to the parent
    connects         \* history: the calls of connect_ethernet

chan == <<wq, armed, pipe, rbuf, fwd, handled>>
work == <<cur, shut, connects>>
vars == <<parent, engine, ifconfigde_pid, pfds, efds, sigs, listening, conf,
          wq, armed, pipe, rbuf, cur, shut, fwd, handled, connects>>

-----------------------------------------------------------------------------
(* Process states.                                                         *)

\* start: before fork; forked: no signal handler yet; setup: handlers are
\* installed, pipe end 1 still open; loop: in event_dispatch; dispatch, use
\* and monitor: inside main_dispatch_ifconfigde; leaving: event_loopexit was
\* called; shutdown: in the wait loop of ifconfigd_shutdown; exited: exit(0)
\* at the end of it; failed: exit(1), fatal(), a crash or a fatal signal;
\* dhclient: execle() replaced the program.
Handling == {"dispatch", "use", "monitor"}
WithHandlers == {"setup", "loop", "leaving"} \cup Handling
Gone == {"exited", "failed"}
ParentStates == {"start", "forked", "shutdown", "dhclient"} \cup WithHandlers \cup Gone

\* init: before control_init; socket: before the privileges are dropped;
\* dropped: before control_listen; loop: in event_dispatch; leaving:
\* event_loopexit was called; zombie: ended, not waited for.
EngineAlive == {"init", "socket", "dropped", "loop", "leaving"}
EngineStates == {"none", "zombie", "reaped"} \cup EngineAlive

UserSignals == {"SIGTERM", "SIGINT", "SIGHUP"}
Signals == UserSignals \cup {"SIGCHLD"}

\* A read at one end reports end-of-file when no process holds the other end.
EofAtParent == 1 \notin pfds \cup efds
EofAtEngine == 0 \notin pfds \cup efds

\* The parent process ends: its descriptors and pending signals go with it.
ParentEnds(how) ==
    /\ parent' = how
    /\ pfds' = {}
    /\ sigs' = {}

\* The engine ends: the kernel closes its descriptors and posts SIGCHLD, which
\* is ignored by default and lost unless the parent has added its handler.
EngineEnds ==
    /\ engine' = "zombie"
    /\ efds' = {} /\ listening' = FALSE
    /\ sigs' = IF parent \in WithHandlers THEN sigs \cup {"SIGCHLD"} ELSE sigs

-----------------------------------------------------------------------------
(* The parent: main().                                                     *)

Init ==
    /\ parent = "start" /\ engine = "none" /\ ifconfigde_pid = 0
    /\ pfds = {} /\ efds = {} /\ sigs = {} /\ listening = FALSE
    /\ conf \in Configs
    /\ wq = <<>> /\ armed = FALSE /\ pipe = <<>> /\ rbuf = <<>>
    /\ cur = NoMsg /\ shut = FALSE
    /\ fwd = <<>> /\ handled = <<>> /\ connects = {}

\* Parse the configuration, create the pipe and fork the engine, or give up:
\* bad configuration, not root, unknown user, daemon, socketpair or fork failed.
StartEngine ==
    /\ parent = "start"
    /\ \/ /\ parent' = "forked" /\ engine' = "init" /\ ifconfigde_pid' = 1
          /\ pfds' = {0, 1} /\ efds' = {0, 1}
          /\ UNCHANGED sigs
       \/ /\ ParentEnds("failed")
          /\ UNCHANGED <<engine, ifconfigde_pid, efds>>
    /\ UNCHANGED <<listening, conf, chan, work>>

\* event_init and signal_add: from here on signals wait for the event loop.
AddSignals ==
    /\ parent = "forked"
    /\ parent' = "setup"
    /\ UNCHANGED <<engine, ifconfigde_pid, pfds, efds, sigs, listening, conf, chan, work>>

\* The end of the pipe the parent keeps.  Faulty variant: it closes neither.
ParentEndKept2 == {0, 1}
ParentEnd == {0}

\* close(pipe_parent2ifconfigd[1]), allocate the imsgev and add its event.
AddPipeEvent ==
    /\ parent = "setup"
    /\ \/ /\ parent' = "loop" /\ pfds' = ParentEnd
          /\ UNCHANGED sigs
       \/ ParentEnds("failed")
    /\ UNCHANGED <<engine, ifconfigde_pid, efds, listening, conf, chan, work>>

\* A signal from outside: it is queued for the handler once that is installed
\* and ends the process before that, and after execle has reset the handlers.
Signal(s) ==
    /\ \/ /\ parent \in WithHandlers /\ s \notin sigs
          /\ sigs' = sigs \cup {s}
          /\ UNCHANGED <<parent, pfds>>
       \/ /\ parent \in {"start", "forked", "dhclient"}
          /\ ParentEnds("failed")
    /\ UNCHANGED <<engine, ifconfigde_pid, efds, listening, conf, chan, work>>

\* ifconfigd_shutdown up to the wait loop: SIGTERM to the engine if pid is not 0.
EnterShutdown(pid, child) ==
    /\ parent' = "shutdown"
    /\ ifconfigde_pid' = pid
    /\ IF pid # 0 /\ child \in EngineAlive
          THEN engine' = "zombie" /\ efds' = {} /\ listening' = FALSE
          ELSE engine' = child /\ UNCHANGED <<efds, listening>>

\* check_child: waitpid(WNOHANG) reports a child that has ended.  Faulty variant:
\* it reports one in any case.
CheckChildAny(child) == child # "none"
CheckChild(child) == child = "zombie"

\* ifconfigde_pid after the engine was waited for.  Faulty variant: not reset.
PidKept == 1
PidReset == 0

\* ifconfigd_sig_handler: SIGTERM and SIGINT fall through to the SIGCHLD case,
\* and all three only look whether the engine can be waited for.
SigHandler(s) ==
    /\ parent \in {"loop", "leaving"} /\ s \in sigs
    /\ sigs' = sigs \ {s}
    /\ IF s # "SIGHUP" /\ CheckChild(engine)
          THEN EnterShutdown(PidReset, "reaped")
          ELSE UNCHANGED <<parent, engine, ifconfigde_pid, efds, listening>>
    /\ UNCHANGED <<pfds, conf, chan, work>>

\* event_dispatch returns after event_loopexit.
LeaveLoop ==
    /\ parent = "leaving"
    /\ EnterShutdown(ifconfigde_pid, engine)
    /\ UNCHANGED <<pfds, sigs, conf, chan, work>>

\* wait(NULL) fails with ECHILD.  Faulty variant: any return ends the loop.
AnyReturn(child) == TRUE
NoChildLeft(child) == child \notin EngineAlive \cup {"zombie"}

\* The wait loop of ifconfigd_shutdown: wait(NULL) reaps, or fails with ECHILD.
WaitChild ==
    /\ parent = "shutdown"
    /\ \/ /\ engine = "zombie" /\ engine' = "reaped"
          /\ UNCHANGED <<parent, pfds, sigs>>
       \/ /\ NoChildLeft(engine) /\ ParentEnds("exited")
          /\ UNCHANGED engine
    /\ UNCHANGED <<ifconfigde_pid, efds, listening, conf, chan, work>>

-----------------------------------------------------------------------------
(* The parent: main_dispatch_ifconfigde().                                 *)

\* imsg_read: everything in the pipe, or end-of-file, or an error.  The read
\* buffer is larger than the socket buffer, so one read empties the pipe.
MainDispatch ==
    /\ parent = "loop"
    /\ pipe # <<>> \/ EofAtParent
    /\ \/ /\ parent' = "dispatch"
          /\ shut' = (pipe = <<>>)
          /\ rbuf' = rbuf \o pipe /\ pipe' = <<>>
          /\ UNCHANGED <<pfds, sigs>>
       \/ /\ ParentEnds("failed")
          /\ UNCHANGED <<shut, rbuf, pipe>>
    /\ UNCHANGED <<engine, ifconfigde_pid, efds, listening, conf, wq, armed, cur,
                   fwd, handled, connects>>

\* The read buffer after imsg_get.  Faulty variant: the message stays in it.
NotMoved(buf) == buf
AfterGet(buf) == Tail(buf)

\* Faulty variant of ImsgGet: the message is freed before it is used.
ImsgGetFreed ==
    /\ parent = "dispatch" /\ rbuf # <<>>
    /\ handled' = Append(handled, Head(rbuf))
    /\ rbuf' = AfterGet(rbuf)
    /\ parent' = CASE Head(rbuf).type = "USE_ETHERNET" -> "use"
                    [] Head(rbuf).type = "IFCONFIGD_MONITOR" -> "monitor"
                    [] OTHER -> parent
    /\ UNCHANGED <<engine, ifconfigde_pid, pfds, efds, sigs, listening, conf,
                   wq, armed, pipe, cur, shut, fwd, connects>>

\* imsg_get returns a message: the switch on its type.
ImsgGet ==
    /\ parent = "dispatch" /\ rbuf # <<>>
    /\ handled' = Append(handled, Head(rbuf))
    /\ rbuf' = AfterGet(rbuf)
    /\ \/ /\ Head(rbuf).type = "USE_ETHERNET"
          /\ parent' = "use" /\ cur' = Head(rbuf)
       \/ /\ Head(rbuf).type = "IFCONFIGD_MONITOR"
          /\ parent' = "monitor" /\ cur' = Head(rbuf)
       \/ /\ Head(rbuf).type \in OtherTypes
          /\ UNCHANGED <<parent, cur>>
    /\ UNCHANGED <<engine, ifconfigde_pid, pfds, efds, sigs, listening, conf,
                   wq, armed, pipe, shut, fwd, connects>>

\* Faulty variant of DispatchEnd: the loop ends with messages in the read buffer.
DispatchEndEarly ==
    /\ parent = "dispatch"
    /\ parent' = IF shut THEN "leaving" ELSE "loop"
    /\ UNCHANGED <<engine, ifconfigde_pid, pfds, efds, sigs, listening, conf, chan, work>>

\* imsg_get has no complete message left: re-arm the event, or leave the loop.
DispatchEnd ==
    /\ parent = "dispatch" /\ rbuf = <<>>
    /\ parent' = IF shut THEN "leaving" ELSE "loop"
    /\ UNCHANGED <<engine, ifconfigde_pid, pfds, efds, sigs, listening, conf, chan, work>>

\* The names main_dispatch_ifconfigde can copy out of a message: only the first
\* sizeof(void *) bytes were sent, the rest of the copy is whatever lies behind
\* them on the heap.
Received(n) ==
    IF n.head \in ShortNames
       THEN {n}
       ELSE {[head |-> n.head, tail |-> t] : t \in Tails \cup {Junk}}

\* ifconfig_gate as connect_ethernet calls it: the interface is NULL or the bytes
\* of a name used as a pointer, and the first argument was cleared; it crashes or
\* calls errx.
IfconfigGate ==
    /\ ParentEnds("failed")
    /\ cur' = NoMsg

\* connect_ethernet: with dhcp, execle replaces the process, fails and returns, or
\* reads past its unterminated argument list.  next: where it returns to.
ConnectEthernet(e, next, done) ==
    /\ connects' = connects \cup {[req |-> cur, eth |-> e.name, at |-> parent]}
    /\ \/ /\ e.how = "dhcp"
          /\ \/ /\ parent' = "dhclient" /\ sigs' = {} /\ cur' = NoMsg
                /\ UNCHANGED pfds
             \/ /\ parent' = next /\ cur' = done
                /\ UNCHANGED <<pfds, sigs>>
             \/ ParentEnds("failed") /\ cur' = NoMsg
       \/ e.how = "static" /\ IfconfigGate

\* The ethernet use_ethernet finds for a name: the first in list order, if any.
\* Faulty variant: strncmp with length 0 accepts every name.
MatchesAll(n) == DOMAIN conf
Matches(n) == {i \in DOMAIN conf : conf[i].name = n}
FirstMatch(n) == {i \in Matches(n) : \A j \in Matches(n) : i <= j}

\* IMSG_USE_ETHERNET: copy the name (the copy may run off the heap), connect the
\* network of that name if there is one, and fall through to the monitor case.
UseEthernet ==
    /\ parent = "use"
    /\ \/ \E n \in Received(cur.name) :
             \/ \E i \in FirstMatch(n) : ConnectEthernet(conf[i], "monitor", cur)
             \/ /\ Matches(n) = {}
                /\ parent' = "monitor"
                /\ UNCHANGED <<pfds, sigs, cur, connects>>
       \/ /\ ParentEnds("failed") /\ cur' = NoMsg
          /\ UNCHANGED connects
    /\ UNCHANGED <<engine, ifconfigde_pid, efds, listening, conf, chan, shut>>

\* active_check returns: without an interface it reports some link state of the
\* first interface there is; the name of one is used as a pointer and crashes it.
ActiveCheckReturns(e) == ~e.interface

\* monitor_ethernet: it compares with an uninitialized pointer on the first ethernet
\* and connects the first one whose status differs from the one looked at before
\* it and is active.
MonitorEthernet ==
    \/ /\ \A i \in DOMAIN conf : ActiveCheckReturns(conf[i])
       /\ parent' = "dispatch" /\ cur' = NoMsg
       /\ UNCHANGED <<pfds, sigs, connects>>
    \/ /\ conf # <<>>
       /\ ParentEnds("failed") /\ cur' = NoMsg
       /\ UNCHANGED connects
    \/ \E i \in DOMAIN conf :
          /\ \A j \in 1..i : ActiveCheckReturns(conf[j])
          /\ ConnectEthernet(conf[i], "dispatch", NoMsg)

\* monitor(): return 0 is the first statement after monitor_ethernet(), so one pass
\* over the ethernets is all it does.
Monitor ==
    /\ parent = "monitor"
    /\ MonitorEthernet
    /\ UNCHANGED <<engine, ifconfigde_pid, efds, listening, conf, chan, shut>>

\* The parent, or dhclient in its place, is killed, ends on its own, or runs out
\* of memory in imsg_get, which is fatal.
ParentKilled ==
    /\ parent \notin Gone
    /\ ParentEnds("failed")
    /\ UNCHANGED <<engine, ifconfigde_pid, efds, listening, conf, chan, work>>

-----------------------------------------------------------------------------
(* The engine: ifconfigde() and ifconfigd_dispatch_parent().               *)

\* control_init, then chroot and setresuid: each step may fail, which is fatal.
EngineStartup ==
    /\ engine \in {"init", "socket"}
    /\ \/ /\ engine' = IF engine = "init" THEN "socket" ELSE "dropped"
          /\ UNCHANGED <<efds, sigs, listening>>
       \/ EngineEnds
    /\ UNCHANGED <<parent, ifconfigde_pid, pfds, conf, chan, work>>

\* The end of the pipe the engine keeps.  Faulty variant: it closes neither.
EngineEndKept2 == {0, 1}
EngineEnd == {1}

\* control_listen, whose result is ignored, then close(pipe_parent2ifconfigd[0])
\* and the event on end 1; running out of memory is fatal.
EngineListen ==
    /\ engine = "dropped"
    /\ \/ /\ engine' = "loop" /\ efds' = EngineEnd
          /\ listening' \in BOOLEAN
          /\ UNCHANGED sigs
       \/ EngineEnds
    /\ UNCHANGED <<parent, ifconfigde_pid, pfds, conf, chan, work>>

\* imsg_event_add: EV_WRITE is requested while something is queued.  Faulty
\* variant: only EV_READ is.
ReadOnly(q) == FALSE
ImsgEventAdd(q) == q # <<>>

\* msgbuf_drain: what is queued after k messages were sent.  Faulty variant: the
\* last of them stays queued.
DrainShort(q, k) == SubSeq(q, k, Len(q))
Drain(q, k) == SubSeq(q, k + 1, Len(q))

\* ifconfigde_imsg_compose_parent: queue the message and ask for EV_WRITE.  Other
\* events still run after event_loopexit, until the loop looks at its flag.
ComposeParent(m) ==
    /\ engine \in {"loop", "leaving"} /\ listening
    /\ Len(fwd) < MaxFwd
    /\ fwd' = Append(fwd, m)
    /\ wq' = Append(wq, m)
    /\ armed' = ImsgEventAdd(wq')
    /\ UNCHANGED <<parent, engine, ifconfigde_pid, pfds, efds, sigs, listening, conf,
                   pipe, rbuf, handled, work>>

\* EV_WRITE: msgbuf_write sends as much of the queue as the pipe takes, then
\* imsg_event_add keeps EV_WRITE only while something is queued.
DispatchWrite ==
    /\ engine = "loop" /\ armed /\ ~EofAtEngine
    /\ \E k \in 1..Len(wq) :
          /\ Len(pipe) + k <= PipeCap
          /\ pipe' = pipe \o SubSeq(wq, 1, k)
          /\ wq' = Drain(wq, k)
          /\ armed' = ImsgEventAdd(wq')
    /\ UNCHANGED <<parent, engine, ifconfigde_pid, pfds, efds, sigs, listening, conf,
                   rbuf, fwd, handled, work>>

\* EV_READ with nothing to read: the parent is gone, delete the event and leave
\* the loop.
DispatchEof ==
    /\ engine = "loop" /\ EofAtEngine
    /\ engine' = "leaving" /\ armed' = FALSE
    /\ UNCHANGED <<parent, ifconfigde_pid, pfds, efds, sigs, listening, conf,
                   wq, pipe, rbuf, fwd, handled, work>>

\* EV_WRITE after the parent is gone: SIGPIPE, or EV_READ|EV_WRITE in one call,
\* which the switch does not know, and fatalx.
DispatchBroken ==
    /\ engine \in {"loop", "leaving"} /\ armed /\ EofAtEngine
    /\ EngineEnds
    /\ UNCHANGED <<parent, ifconfigde_pid, pfds, conf, chan, work>>

\* event_dispatch returns: exit(0).
EngineExit ==
    /\ engine = "leaving"
    /\ EngineEnds
    /\ UNCHANGED <<parent, ifconfigde_pid, pfds, conf, chan, work>>

\* The engine is killed; it has no signal handlers.
EngineKilled ==
    /\ engine \in EngineAlive
    /\ EngineEnds
    /\ UNCHANGED <<parent, ifconfigde_pid, pfds, conf, chan, work>>

\* Both processes have ended.
Finished ==
    /\ parent \in Gone /\ engine \notin EngineAlive
    /\ UNCHANGED vars

ParentNext ==
    \/ StartEngine \/ AddSignals \/ AddPipeEvent \/ MainDispatch \/ ImsgGet \/ DispatchEnd
    \/ UseEthernet \/ Monitor \/ LeaveLoop \/ WaitChild
    \/ \E s \in Signals : SigHandler(s)

EngineNext ==
    \/ EngineStartup \/ EngineListen \/ DispatchWrite \/ DispatchEof \/ DispatchBroken
    \/ EngineExit

Environment ==
    \/ \E s \in UserSignals : Signal(s)
    \/ \E m \in Requests : ComposeParent(m)
    \/ ParentKilled \/ EngineKilled

Next == ParentNext \/ EngineNext \/ Environment \/ Finished

Spec == Init /\ [][Next]_vars

\* Both programs keep running, and libevent runs every active event in turn: a
\* pending signal does not keep the pipe event from being dispatched, nor the
\* pipe event a signal.  Nothing is assumed of the environment.
Fairness ==
    /\ WF_vars(StartEngine) /\ WF_vars(AddSignals) /\ WF_vars(AddPipeEvent)
    /\ WF_vars(MainDispatch) /\ WF_vars(ImsgGet) /\ WF_vars(DispatchEnd)
    /\ WF_vars(UseEthernet) /\ WF_vars(Monitor) /\ WF_vars(LeaveLoop) /\ WF_vars(WaitChild)
    /\ \A s \in Signals : WF_vars(SigHandler(s))
    /\ WF_vars(EngineStartup) /\ WF_vars(EngineListen) /\ WF_vars(DispatchWrite)
    /\ WF_vars(DispatchEof) /\ WF_vars(DispatchBroken) /\ WF_vars(EngineExit)

FairSpec == Spec /\ Fairness

-----------------------------------------------------------------------------
(* Properties.                                                             *)

Connect == [req : Requests, eth : Name, at : {"use", "monitor"}]

\* Type invariant of the two processes, the pipe and the histories.
TypeOK ==
    /\ parent \in ParentStates /\ engine \in EngineStates
    /\ ifconfigde_pid \in {0, 1}
    /\ pfds \subseteq {0, 1} /\ efds \subseteq {0, 1}
    /\ sigs \subseteq Signals
    /\ listening \in BOOLEAN /\ armed \in BOOLEAN /\ shut \in BOOLEAN
    /\ conf \in Configs
    /\ wq \in Seq(Requests) /\ pipe \in Seq(Requests) /\ rbuf \in Seq(Requests)
    /\ fwd \in Seq(Requests) /\ handled \in Seq(Requests)
    /\ cur \in Requests \cup {NoMsg}
    /\ connects \subseteq Connect

\* The imsg path from control_dispatch_imsg to main_dispatch_ifconfigde neither
\* loses, repeats nor reorders a message: whatever the engine composed is, in
\* order, what the parent has taken, then what is in its read buffer, in the
\* pipe and in the engine's write queue.
NothingLost == fwd = handled \o rbuf \o pipe \o wq

\* The detailed path implements the relay: composing is submitting, imsg_get in
\* the parent is delivering, and every other step leaves both unchanged.
Abstract == INSTANCE Relay WITH submitted <- fwd, delivered <- handled
ImplementsRelay == Abstract!RelaySpec

\* While messages are queued the engine waits for EV_WRITE (imsg_event_add), so
\* a full pipe or a short write never leaves a request stuck in the queue.
QueueIsArmed == engine = "loop" /\ wq # <<>> => armed

\* ifconfigd_shutdown leaves no child behind: when the parent reaches exit(0)
\* the engine has ended and its status has been collected.
ExitIsClean == parent = "exited" => engine = "reaped"

\* The parent cannot wait for events with the engine gone unnoticed: from its
\* event loop an ended engine shows as end-of-file on the pipe even if SIGCHLD
\* was lost because the engine ended before signal_add.
LossIsSeen ==
    parent \in {"loop", "leaving"} \cup Handling /\ engine \notin EngineAlive =>
        engine = "zombie" /\ EofAtParent

\* Leaving the event loop at end-of-file drops no request that reached the pipe:
\* whatever an engine that died had written was taken before, so only what was
\* still in its own write queue is gone.  (A signal handled before the pipe event
\* shuts the parent down without this.)
EofDrains == parent = "leaving" => handled \o wq = fwd

\* kill(ifconfigde_pid, SIGTERM) in ifconfigd_shutdown is never sent to a pid that
\* was waited for before (check_child resets ifconfigde_pid first).
KillHitsChild ==
    [][parent # "shutdown" /\ parent' = "shutdown" /\ ifconfigde_pid' # 0
          => engine # "reaped" /\ engine' # "reaped"]_vars

\* The parent shuts down only when the engine has ended: SIGTERM and SIGINT alone
\* never stop the daemon, and the wait loop never blocks on a running engine.
ShutdownAfterLoss ==
    [][parent # "shutdown" /\ parent' = "shutdown" => engine \notin EngineAlive]_vars

\* use_ethernet connects the network that was asked for when its name is short
\* enough to reach the parent whole.
ShortNameHonoured ==
    \A c \in connects :
        c.at = "use" /\ c.req.name.head \in ShortNames => c.eth = c.req.name

\* The engine does not outlive the parent: once the parent has ended, for any
\* reason and at any point of the startup, the engine ends.
EngineFollows == parent \in Gone ~> engine \notin EngineAlive

\* The parent does not outlive the engine: once the engine has ended, at any
\* point, the parent ends, or has become dhclient.
ParentFollows == engine = "zombie" ~> parent \in Gone \cup {"dhclient"}

\* Every forwarded request is taken by the parent, unless one of the processes
\* ends or the parent becomes dhclient first.
Delivered ==
    \A n \in 1..MaxFwd :
        Len(fwd) >= n ~> \/ Len(handled) >= n
                        \/ engine \notin EngineAlive
                        \/ parent \in Gone \cup {"dhclient"}

(* What the documentation says.                                            *)

\* ifconfigctl(8), "use ethernet name": the request connects the network of that
\* name; when use_ethernet has returned, a connection of it was attempted.
UseReachesNetwork ==
    parent = "monitor" /\ cur.type = "USE_ETHERNET" /\ Matches(cur.name) # {} =>
        [req |-> cur, eth |-> cur.name, at |-> "use"] \in connects

\* ifconfigctl(8), "use ethernet name": a use request connects no other network.
UseOnlyThatNetwork ==
    \A c \in connects : c.req.type = "USE_ETHERNET" => c.eth = c.req.name

\* ifconfigd(8): a running daemon can be controlled; a forwarded request is taken
\* by the parent as long as neither process has ended.
AlwaysControlled ==
    \A n \in 1..MaxFwd :
        Len(fwd) >= n ~> \/ Len(handled) >= n
                        \/ engine \notin EngineAlive
                        \/ parent \in Gone
==============================================================================
