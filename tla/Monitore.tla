------------------------------- MODULE Monitore -------------------------------
(***************************************************************************)
(* The daemon with patches/monitor_engine applied: three processes.        *)
(*                                                                         *)
(* The patch takes monitor() out of the parent: main() makes a second      *)
(* socketpair, forks the monitor engine after the engine, and forwards     *)
(* IMSG_IFCONFIGD_MONITOR to it.  Both socketpairs exist before the first  *)
(* fork, so each child inherits all four ends and closes one of them.  The *)
(* messages to the monitor engine carry nothing: only their number counts. *)
(* What monitor() does is module Monitor.                                  *)
(***************************************************************************)
EXTENDS Naturals

CONSTANTS
    PipeCap,    \* messages a socketpair buffer holds
    MaxSent     \* bound: requests forwarded to the parent, after its first message

ASSUME MonitoreAssumption == PipeCap \in Nat \ {0} /\ MaxSent \in Nat

\* e0/e1: the parent's and the engine's end of pipe_parent2ifconfigd; m0/m1: the
\* parent's and the monitor engine's end of pipe_parent2monitore.
Ends == {"e0", "e1", "m0", "m1"}
Processes == {"parent", "engine", "monitore"}

VARIABLES
    parent,          \* where the parent is (see ParentStates)
    engine,          \* where the engine is (see ChildStates)
    monitore,        \* where the monitor engine is (see ChildStates)
    ifconfigde_pid,  \* 0, or 1 for the engine's pid; monitore_pid is never read
    fds,             \* the ends each process has open
    signalled,       \* SIGTERM, SIGINT or SIGCHLD waits for the parent's loop
    epipe,           \* requests written by the engine, not yet read
    wq,              \* iev_monitore->ibuf.w: composed, not yet written
    mpipe,           \* written to the monitor engine, not yet read
    rbuf,            \* read by the monitor engine, not yet returned by imsg_get
    sent,            \* history: messages composed for the monitor engine
    taken            \* history: messages imsg_get returned to it

queues == <<epipe, wq, mpipe, rbuf, sent, taken>>
vars == <<parent, engine, monitore, ifconfigde_pid, fds, signalled, queues>>

-----------------------------------------------------------------------------
(* Process states.                                                         *)

\* start: before the first fork; forking: between the forks; forked: no signal
\* handler yet; the other states are those of module Ifconfigd.
WithHandlers == {"setup", "loop", "leaving"}
Gone == {"exited", "failed"}
ParentStates == {"start", "forking", "forked", "shutdown", "dhclient"} \cup WithHandlers \cup Gone

\* init: forked, one end of its pipe not closed yet; loop: in event_dispatch;
\* dispatch: in the imsg_get loop; monitor: inside monitor(); dhclient: monitor()
\* replaced the program.  The engine is in the first two only.
Alive == {"init", "loop", "dispatch", "monitor", "dhclient"}
ChildStates == {"none", "zombie", "reaped"} \cup Alive

Held(end) == \E p \in Processes : end \in fds[p]

\* A read reports end-of-file when no process holds the other end.
EofAtEngine == ~Held("e0")
EofAtMonitore == ~Held("m0")

Close(p) == fds' = [fds EXCEPT ![p] = {}]

ParentEnds(how) ==
    /\ parent' = how /\ signalled' = FALSE
    /\ Close("parent")

\* The kernel posts SIGCHLD, which is lost before signal_add.
PostSigchld == signalled' = (signalled \/ parent \in WithHandlers)

EngineEnds == engine' = "zombie" /\ Close("engine") /\ PostSigchld
MonitoreEnds == monitore' = "zombie" /\ Close("monitore") /\ PostSigchld

-----------------------------------------------------------------------------
(* The parent: main().                                                     *)

Init ==
    /\ parent = "start" /\ engine = "none" /\ monitore = "none"
    /\ ifconfigde_pid = 0
    /\ fds = [p \in Processes |-> {}] /\ signalled = FALSE
    /\ epipe = 0 /\ wq = 0 /\ mpipe = 0 /\ rbuf = 0 /\ sent = 0 /\ taken = 0

\* Both socketpairs, then the fork of the engine; any of them may fail.
ForkEngine ==
    /\ parent = "start"
    /\ \/ /\ parent' = "forking" /\ engine' = "init" /\ ifconfigde_pid' = 1
          /\ fds' = [fds EXCEPT !["parent"] = Ends, !["engine"] = Ends]
          /\ UNCHANGED signalled
       \/ ParentEnds("failed") /\ UNCHANGED <<engine, ifconfigde_pid>>
    /\ UNCHANGED <<monitore, queues>>

\* monitore(): the fork of the monitor engine; "cannot fork" is fatal.
ForkMonitore ==
    /\ parent = "forking"
    /\ \/ /\ parent' = "forked" /\ monitore' = "init"
          /\ fds' = [fds EXCEPT !["monitore"] = Ends]
          /\ UNCHANGED signalled
       \/ ParentEnds("failed") /\ UNCHANGED monitore
    /\ UNCHANGED <<engine, ifconfigde_pid, queues>>

AddSignals ==
    /\ parent = "forked" /\ parent' = "setup"
    /\ UNCHANGED <<engine, monitore, ifconfigde_pid, fds, signalled, queues>>

\* The ends the parent keeps.  Faulty variant: it keeps the children's too.
ParentKeepsAll == Ends
ParentKeeps == {"e0", "m0"}

\* close the children's ends, add both events, compose the first message.
AddPipeEvents ==
    /\ parent = "setup"
    /\ \/ /\ parent' = "loop"
          /\ fds' = [fds EXCEPT !["parent"] = ParentKeeps]
          /\ sent' = sent + 1 /\ wq' = wq + 1
          /\ UNCHANGED signalled
       \/ ParentEnds("failed") /\ UNCHANGED <<sent, wq>>
    /\ UNCHANGED <<engine, monitore, ifconfigde_pid, epipe, mpipe, rbuf, taken>>

\* ifconfigd_shutdown up to the wait loop: it knows the engine only.
EnterShutdown(pid, child) ==
    /\ parent' = "shutdown" /\ ifconfigde_pid' = pid
    /\ IF pid # 0 /\ child \in Alive
          THEN engine' = "zombie" /\ Close("engine")
          ELSE engine' = child /\ UNCHANGED fds

\* check_child(ifconfigde_pid).  Faulty variant: it reports a loss in any case.
CheckChildAny(child) == child # "none"
CheckChild(child) == child = "zombie"

\* ifconfigd_sig_handler, unchanged by the patch: every signal looks for the
\* engine, none for the monitor engine.
SigHandler ==
    /\ parent \in {"loop", "leaving"} /\ signalled
    /\ signalled' = FALSE
    /\ IF CheckChild(engine)
          THEN EnterShutdown(0, "reaped")
          ELSE UNCHANGED <<parent, engine, ifconfigde_pid, fds>>
    /\ UNCHANGED <<monitore, queues>>

LeaveLoop ==
    /\ parent = "leaving"
    /\ EnterShutdown(ifconfigde_pid, engine)
    /\ UNCHANGED <<monitore, signalled, queues>>

\* wait(NULL) fails with ECHILD.  Faulty variant: the second child is forgotten.
EngineLeft(e, m) == e \notin Alive \cup {"zombie"}
NoChildLeft(e, m) == {e, m} \cap (Alive \cup {"zombie"}) = {}

\* The wait loop of ifconfigd_shutdown waits for every child.
WaitChild ==
    /\ parent = "shutdown"
    /\ \/ /\ engine = "zombie" /\ engine' = "reaped"
          /\ UNCHANGED <<parent, monitore, fds, signalled>>
       \/ /\ monitore = "zombie" /\ monitore' = "reaped"
          /\ UNCHANGED <<parent, engine, fds, signalled>>
       \/ /\ NoChildLeft(engine, monitore) /\ ParentEnds("exited")
          /\ UNCHANGED <<engine, monitore>>
    /\ UNCHANGED <<ifconfigde_pid, queues>>

\* main_dispatch_ifconfigde with requests to read: each one, of either type, ends
\* with a message to the monitor engine, unless use_ethernet has turned the
\* parent into dhclient or crashed it.  After event_loopexit an event that is
\* already active is still handled.
MainDispatchIfconfigde ==
    /\ parent \in {"loop", "leaving"} /\ epipe > 0
    /\ epipe' = 0
    /\ \/ /\ sent' = sent + epipe /\ wq' = wq + epipe
          /\ UNCHANGED <<parent, fds, signalled>>
       \/ /\ parent' = "dhclient" /\ signalled' = FALSE
          /\ UNCHANGED <<fds, sent, wq>>
       \/ ParentEnds("failed") /\ UNCHANGED <<sent, wq>>
    /\ UNCHANGED <<engine, monitore, ifconfigde_pid, mpipe, rbuf, taken>>

\* End-of-file at end e0 or m0.
EofAtParent == (epipe = 0 /\ ~Held("e1")) \/ ~Held("m1")

\* Either dispatch function at end-of-file: event_loopexit.
MainEof ==
    /\ parent = "loop" /\ EofAtParent
    /\ parent' = "leaving"
    /\ UNCHANGED <<engine, monitore, ifconfigde_pid, fds, signalled, queues>>

\* msgbuf_write.  Faulty variants: what was written stays queued; one more goes.
DrainNothing(n, k) == n
DrainOver(n, k) == n - k - 1
Drain(n, k) == n - k

\* main_dispatch_monitore with EV_WRITE, which imsg_event_add asks for while
\* something is queued: as much as the pipe takes, or SIGPIPE.
MainDispatchMonitore ==
    /\ parent \in {"loop", "leaving"} /\ wq > 0
    /\ \/ /\ Held("m1")
          /\ \E k \in 1..wq :
                /\ mpipe + k <= PipeCap
                /\ mpipe' = mpipe + k /\ wq' = Drain(wq, k)
          /\ UNCHANGED <<parent, fds, signalled>>
       \/ /\ ~Held("m1") /\ ParentEnds("failed")
          /\ UNCHANGED <<mpipe, wq>>
    /\ UNCHANGED <<engine, monitore, ifconfigde_pid, epipe, rbuf, sent, taken>>

\* A signal from outside, after the handlers are installed.
Signal ==
    /\ parent \in WithHandlers /\ ~signalled
    /\ signalled' = TRUE
    /\ UNCHANGED <<parent, engine, monitore, ifconfigde_pid, fds, queues>>

\* The parent, or dhclient in its place, is killed or fails.
ParentKilled ==
    /\ parent \notin Gone
    /\ ParentEnds("failed")
    /\ UNCHANGED <<engine, monitore, ifconfigde_pid, queues>>

-----------------------------------------------------------------------------
(* The engine, reduced to what the other two processes see of it.          *)

\* The ends the engine keeps: it closes end 0 of its own pipe only.  Faulty
\* variants: it closes none, or both of the pipe that is not its own.
EngineKeepsAll == Ends
EngineKeepsOwn == {"e1"}
EngineKeeps == {"e1", "m0", "m1"}

EngineStartup ==
    /\ engine = "init"
    /\ \/ /\ engine' = "loop" /\ fds' = [fds EXCEPT !["engine"] = EngineKeeps]
          /\ UNCHANGED signalled
       \/ EngineEnds
    /\ UNCHANGED <<parent, monitore, ifconfigde_pid, queues>>

\* A client's request on its way to the parent (module Ifconfigd).
EngineForward ==
    /\ engine = "loop" /\ epipe < PipeCap /\ ~EofAtEngine
    /\ sent + epipe < MaxSent
    /\ epipe' = epipe + 1
    /\ UNCHANGED <<parent, engine, monitore, ifconfigde_pid, fds, signalled,
                   wq, mpipe, rbuf, sent, taken>>

EngineEof ==
    /\ engine = "loop" /\ EofAtEngine
    /\ EngineEnds
    /\ UNCHANGED <<parent, monitore, ifconfigde_pid, queues>>

EngineKilled ==
    /\ engine \in Alive
    /\ EngineEnds
    /\ UNCHANGED <<parent, monitore, ifconfigde_pid, queues>>

-----------------------------------------------------------------------------
(* The monitor engine: monitore() and monitore_dispatch_imsg().            *)

\* It closes end 0 of its own pipe only.
MonitoreKeeps == {"e0", "e1", "m1"}

MonitoreStartup ==
    /\ monitore = "init"
    /\ \/ /\ monitore' = "loop" /\ fds' = [fds EXCEPT !["monitore"] = MonitoreKeeps]
          /\ UNCHANGED signalled
       \/ MonitoreEnds
    /\ UNCHANGED <<parent, engine, ifconfigde_pid, queues>>

\* EV_READ: imsg_read takes everything there is.
MonitoreRead ==
    /\ monitore = "loop" /\ mpipe > 0
    /\ monitore' = "dispatch"
    /\ rbuf' = rbuf + mpipe /\ mpipe' = 0
    /\ UNCHANGED <<parent, engine, ifconfigde_pid, fds, signalled, epipe, wq, sent, taken>>

\* imsg_get: call monitor() for the next message, or re-arm the event.
MonitoreGet ==
    /\ monitore = "dispatch"
    /\ \/ /\ rbuf > 0
          /\ monitore' = "monitor" /\ rbuf' = rbuf - 1 /\ taken' = taken + 1
       \/ /\ rbuf = 0
          /\ monitore' = "loop" /\ UNCHANGED <<rbuf, taken>>
    /\ UNCHANGED <<parent, engine, ifconfigde_pid, fds, signalled, epipe, wq, mpipe, sent>>

\* monitor() returns once something is connected, becomes dhclient, or fails; as
\* long as nothing can be connected it sleeps and tries again for ever.
MonitorReturns ==
    /\ monitore = "monitor"
    /\ \/ monitore' = "dispatch" /\ UNCHANGED <<fds, signalled>>
       \/ monitore' = "dhclient" /\ UNCHANGED <<fds, signalled>>
       \/ MonitoreEnds
    /\ UNCHANGED <<parent, engine, ifconfigde_pid, queues>>

\* n == 0: event_loopexit and exit(0).
MonitoreEof ==
    /\ monitore = "loop" /\ mpipe = 0 /\ EofAtMonitore
    /\ MonitoreEnds
    /\ UNCHANGED <<parent, engine, ifconfigde_pid, queues>>

MonitoreKilled ==
    /\ monitore \in Alive
    /\ MonitoreEnds
    /\ UNCHANGED <<parent, engine, ifconfigde_pid, queues>>

\* Every process has ended.
Finished ==
    /\ parent \in Gone /\ engine \notin Alive /\ monitore \notin Alive
    /\ UNCHANGED vars

ParentNext ==
    \/ ForkEngine \/ ForkMonitore \/ AddSignals \/ AddPipeEvents \/ SigHandler \/ LeaveLoop
    \/ WaitChild \/ MainDispatchIfconfigde \/ MainEof \/ MainDispatchMonitore

EngineNext == EngineStartup \/ EngineEof
MonitoreNext == MonitoreStartup \/ MonitoreRead \/ MonitoreGet \/ MonitoreEof

Environment ==
    \/ Signal \/ EngineForward \/ MonitorReturns
    \/ ParentKilled \/ EngineKilled \/ MonitoreKilled

Next == ParentNext \/ EngineNext \/ MonitoreNext \/ Environment \/ Finished

Spec == Init /\ [][Next]_vars

\* The programs keep running; nothing is assumed of the environment, nor that
\* monitor() ever returns.
Fairness ==
    /\ WF_vars(ForkEngine) /\ WF_vars(ForkMonitore) /\ WF_vars(AddSignals)
    /\ WF_vars(AddPipeEvents) /\ WF_vars(SigHandler) /\ WF_vars(LeaveLoop)
    /\ WF_vars(WaitChild) /\ WF_vars(MainDispatchIfconfigde) /\ WF_vars(MainEof)
    /\ WF_vars(MainDispatchMonitore)
    /\ WF_vars(EngineNext) /\ WF_vars(MonitoreNext)

FairSpec == Spec /\ Fairness

-----------------------------------------------------------------------------
(* Properties.                                                             *)

\* Type invariant of the three processes and their queues.
TypeOK ==
    /\ parent \in ParentStates /\ engine \in ChildStates /\ monitore \in ChildStates
    /\ ifconfigde_pid \in {0, 1} /\ signalled \in BOOLEAN
    /\ fds \in [Processes -> SUBSET Ends]
    /\ epipe \in Nat /\ wq \in Nat /\ mpipe \in Nat /\ rbuf \in Nat
    /\ sent \in Nat /\ taken \in Nat

\* Every message main_dispatch_ifconfigde forwards to the monitor engine leads to
\* one call of monitor(): none is lost or repeated between the parent's write
\* queue and imsg_get, however long monitor() keeps its process from reading.
MessagesKept == sent = taken + rbuf + mpipe + wq

\* ifconfigd_shutdown, which does not know the monitor engine, still leaves no
\* child behind when it reaches exit(0).
ExitIsClean == parent = "exited" => engine = "reaped" /\ monitore = "reaped"

\* The parent leaves its event loop at end-of-file only when both children have
\* ended, because each child holds the far ends of both pipes: after
\* event_loopexit the wait loop cannot block on a child that nobody ends.
LeavesAlone == parent = "leaving" => engine \notin Alive /\ monitore \notin Alive

\* The parent shuts down only after the loss of the engine: neither a signal nor
\* the loss of the monitor engine alone makes it kill a working engine.
ShutdownAfterLoss ==
    [][parent # "shutdown" /\ parent' = "shutdown" => engine \notin Alive]_vars

\* With both children lost the parent ends, or has become dhclient: also when they
\* were lost before it could see SIGCHLD, and when it entered ifconfigd_shutdown
\* for the engine and has waited there for the monitor engine since.
ParentFollowsBoth ==
    {engine, monitore} \subseteq {"zombie", "reaped"} ~> parent \in Gone \cup {"dhclient"}

\* With the parent and the monitor engine gone the engine ends.
EngineFollowsBoth ==
    parent \in Gone /\ monitore \notin Alive ~> engine \notin Alive

(* What the comments say.                                                  *)

\* monitore.c, "this pipe is dead, so remove the event handler": once the parent
\* has ended, a monitor engine that waits for events ends too.
DeadPipeIsSeen ==
    parent \in Gone ~> monitore \notin {"init", "loop", "dispatch"}
==============================================================================
