--------------------------- MODULE MonitoreProofs ---------------------------
(***************************************************************************)
(* Proofs about module Monitore, for every size of the pipes and any       *)
(* number of requests: the invariants of the three processes and the       *)
(* action property of the shutdown.                                        *)
(***************************************************************************)
EXTENDS Monitore, TLAPS

-----------------------------------------------------------------------------
(* The inductive invariant.                                                *)

Child == Alive \cup {"zombie"}

\* What each state of the parent says of its children.
Stages ==
    /\ parent = "start" => engine = "none" /\ monitore = "none"
    /\ parent = "forking" => engine \in Child /\ monitore = "none"
    /\ parent \in {"forked"} \cup WithHandlers => engine \in Child /\ monitore \in Child
    /\ parent = "leaving" => engine = "zombie" /\ monitore = "zombie"
    /\ parent = "shutdown" => engine \in {"zombie", "reaped"} /\ monitore \in Child \cup {"reaped"}
    /\ parent = "exited" => engine = "reaped" /\ monitore = "reaped"

\* Which ends are open: a child that runs holds the far end of both pipes, one
\* that has ended nothing, and a parent in its event loop neither of the two.
FdsOK ==
    /\ engine \in Alive => {"e1", "m1"} \subseteq fds["engine"]
    /\ engine \notin Alive => fds["engine"] = {}
    /\ monitore \in Alive => {"e1", "m1"} \subseteq fds["monitore"]
    /\ monitore \notin Alive => fds["monitore"] = {}
    /\ parent \in {"loop", "leaving"} => fds["parent"] = {"e0", "m0"}

IInv == TypeOK /\ Stages /\ FdsOK /\ MessagesKept

-----------------------------------------------------------------------------
(* Every action keeps the invariant.                                       *)

\* The two halves of TypeOK: the processes, and the queues.
ProcessesOK ==
    /\ parent \in ParentStates /\ engine \in ChildStates /\ monitore \in ChildStates
    /\ ifconfigde_pid \in {0, 1} /\ signalled \in BOOLEAN
    /\ fds \in [Processes -> SUBSET Ends]

CountsOK ==
    /\ epipe \in Nat /\ wq \in Nat /\ mpipe \in Nat /\ rbuf \in Nat
    /\ sent \in Nat /\ taken \in Nat

\* Every step keeps the processes in their types.
LEMMA ProcessesStep == ProcessesOK /\ [Next]_vars => ProcessesOK'
<1> SUFFICES ASSUME ProcessesOK, [Next]_vars PROVE ProcessesOK'
  OBVIOUS
<1> USE DEF ProcessesOK, ParentStates, ChildStates, WithHandlers, Gone, Alive, Processes, Ends,
            ParentEnds, EngineEnds, MonitoreEnds, Close, PostSigchld
<1>1. CASE ForkEngine \/ ForkMonitore \/ AddSignals
  BY <1>1, ZenonT(60) DEF ForkEngine, ForkMonitore, AddSignals
<1>2. CASE AddPipeEvents
  BY <1>2 DEF AddPipeEvents, ParentKeeps
<1>3. CASE SigHandler \/ LeaveLoop \/ WaitChild \/ MainEof
  BY <1>3, ZenonT(60) DEF SigHandler, LeaveLoop, WaitChild, MainEof, EnterShutdown
<1>4. CASE MainDispatchIfconfigde
  BY <1>4 DEF MainDispatchIfconfigde
<1>5. CASE MainDispatchMonitore
  BY <1>5 DEF MainDispatchMonitore
<1>6. CASE EngineStartup \/ EngineEof \/ EngineKilled \/ EngineForward
  BY <1>6, ZenonT(60) DEF EngineStartup, EngineEof, EngineKilled, EngineForward, EngineKeeps
<1>7. CASE MonitoreStartup \/ MonitoreEof \/ MonitoreKilled \/ MonitorReturns
  BY <1>7, ZenonT(60) DEF MonitoreStartup, MonitoreEof, MonitoreKilled, MonitorReturns, MonitoreKeeps
<1>8. CASE MonitoreRead \/ MonitoreGet
  BY <1>8 DEF MonitoreRead, MonitoreGet
<1>9. CASE Signal \/ ParentKilled
  BY <1>9 DEF Signal, ParentKilled
<1>10. CASE UNCHANGED vars
  BY <1>10 DEF vars
<1> QED
  BY <1>1, <1>2, <1>3, <1>4, <1>5, <1>6, <1>7, <1>8, <1>9, <1>10
     DEF Next, ParentNext, EngineNext, MonitoreNext, Environment, Finished

\* Only six steps touch the queues; the others leave all of them alone.
LEMMA OtherSteps ==
  ASSUME [Next]_vars, ~AddPipeEvents, ~MainDispatchIfconfigde, ~MainDispatchMonitore, ~EngineForward,
         ~MonitoreRead, ~MonitoreGet
  PROVE  UNCHANGED queues
<1>1. CASE ForkEngine \/ ForkMonitore \/ AddSignals \/ SigHandler \/ LeaveLoop \/ WaitChild \/ MainEof
  BY <1>1 DEF ForkEngine, ForkMonitore, AddSignals, SigHandler, LeaveLoop, WaitChild, MainEof
<1>2. CASE EngineNext \/ MonitoreStartup \/ MonitoreEof
  BY <1>2 DEF EngineNext, EngineStartup, EngineEof, MonitoreStartup, MonitoreEof
<1>3. CASE Environment
  BY <1>3 DEF Environment, Signal, MonitorReturns, ParentKilled, EngineKilled, MonitoreKilled
<1>4. CASE UNCHANGED vars
  BY <1>4 DEF vars
<1> QED BY <1>1, <1>2, <1>3, <1>4 DEF Next, ParentNext, MonitoreNext, Finished

\* Every step keeps the queues in their types.
LEMMA CountsStep == CountsOK /\ [Next]_vars => CountsOK'
<1> SUFFICES ASSUME CountsOK, [Next]_vars PROVE CountsOK'
  OBVIOUS
<1> USE DEF CountsOK, queues
<1>1. CASE AddPipeEvents \/ EngineForward
  BY <1>1 DEF AddPipeEvents, EngineForward
<1>2. CASE MainDispatchIfconfigde
  BY <1>2 DEF MainDispatchIfconfigde
<1>3. CASE MainDispatchMonitore
  BY <1>3 DEF MainDispatchMonitore, Drain
<1>4. CASE MonitoreRead \/ MonitoreGet
  BY <1>4 DEF MonitoreRead, MonitoreGet
<1>5. CASE UNCHANGED queues
  BY <1>5
<1> QED BY <1>1, <1>2, <1>3, <1>4, <1>5, OtherSteps

\* Every step keeps the variables in their types.
LEMMA TypeStep == TypeOK /\ [Next]_vars => TypeOK'
<1>1. TypeOK <=> ProcessesOK /\ CountsOK
  BY DEF TypeOK, ProcessesOK, CountsOK
<1>2. TypeOK' <=> ProcessesOK' /\ CountsOK'
  BY DEF TypeOK, ProcessesOK, CountsOK
<1> QED BY <1>1, <1>2, ProcessesStep, CountsStep

\* Every step keeps what is known of the processes and of the ends they hold.
LEMMA LifeStep == TypeOK /\ Stages /\ FdsOK /\ [Next]_vars => Stages' /\ FdsOK'
<1> SUFFICES ASSUME TypeOK, Stages, FdsOK, [Next]_vars PROVE Stages' /\ FdsOK'
  OBVIOUS
<1>0. fds \in [Processes -> SUBSET Ends]
  BY DEF TypeOK
<1> USE <1>0 DEF Stages, FdsOK, Child, ParentStates, ChildStates, WithHandlers, Gone, Alive, Processes, Ends,
                 queues, ParentEnds, EngineEnds, MonitoreEnds, Close
<1>1. CASE ForkEngine
  BY <1>1 DEF ForkEngine
<1>2. CASE ForkMonitore
  BY <1>2 DEF ForkMonitore
<1>3. CASE AddSignals \/ AddPipeEvents
  BY <1>3 DEF AddSignals, AddPipeEvents, ParentKeeps
<1>4. CASE SigHandler
  BY <1>4 DEF SigHandler, EnterShutdown, CheckChild
<1>5. CASE LeaveLoop
  BY <1>5 DEF LeaveLoop, EnterShutdown
<1>6. CASE WaitChild
  BY <1>6 DEF WaitChild, NoChildLeft
<1>7. CASE MainEof
  BY <1>7 DEF MainEof, EofAtParent, Held
<1>8. CASE MainDispatchIfconfigde \/ MainDispatchMonitore
  BY <1>8 DEF MainDispatchIfconfigde, MainDispatchMonitore
<1>9. CASE EngineStartup
  BY <1>9 DEF EngineStartup, EngineKeeps
<1>10. CASE EngineEof \/ EngineKilled \/ EngineForward
  BY <1>10 DEF EngineEof, EngineKilled, EngineForward
<1>11. CASE MonitoreStartup
  BY <1>11 DEF MonitoreStartup, MonitoreKeeps
<1>12. CASE MonitoreEof \/ MonitoreKilled \/ MonitorReturns
  BY <1>12 DEF MonitoreEof, MonitoreKilled, MonitorReturns
<1>13. CASE MonitoreRead \/ MonitoreGet
  BY <1>13 DEF MonitoreRead, MonitoreGet
<1>14. CASE Signal \/ ParentKilled
  BY <1>14 DEF Signal, ParentKilled
<1>15. CASE UNCHANGED vars
  BY <1>15 DEF vars
<1> QED
  BY <1>1, <1>2, <1>3, <1>4, <1>5, <1>6, <1>7, <1>8, <1>9, <1>10, <1>11, <1>12, <1>13, <1>14, <1>15
     DEF Next, ParentNext, EngineNext, MonitoreNext, Environment, Finished

\* Every step keeps the count of the messages: what leaves one buffer is in the
\* next one.
LEMMA CountStep == TypeOK /\ MessagesKept /\ [Next]_vars => MessagesKept'
<1> SUFFICES ASSUME TypeOK, MessagesKept, [Next]_vars PROVE MessagesKept'
  OBVIOUS
<1>0. /\ epipe \in Nat /\ wq \in Nat /\ mpipe \in Nat /\ rbuf \in Nat
      /\ sent \in Nat /\ taken \in Nat
  BY DEF TypeOK
<1> USE <1>0 DEF MessagesKept, queues
<1>1. CASE AddPipeEvents \/ EngineForward
  BY <1>1 DEF AddPipeEvents, EngineForward
<1>2. CASE MainDispatchIfconfigde
  BY <1>2 DEF MainDispatchIfconfigde
<1>3. CASE MainDispatchMonitore
  BY <1>3 DEF MainDispatchMonitore, Drain
<1>4. CASE MonitoreRead \/ MonitoreGet
  BY <1>4 DEF MonitoreRead, MonitoreGet
<1>5. CASE UNCHANGED queues
  BY <1>5
<1> QED BY <1>1, <1>2, <1>3, <1>4, <1>5, OtherSteps

-----------------------------------------------------------------------------
(* The theorems.                                                           *)

\* The inductive invariant holds in every reachable state.
THEOREM Invariance == Spec => []IInv
<1>1. Init => IInv
  <2> SUFFICES ASSUME Init PROVE IInv
    OBVIOUS
  <2>1. TypeOK
    BY DEF Init, TypeOK, ParentStates, ChildStates
  <2>2. Stages /\ FdsOK
    BY DEF Init, Stages, FdsOK, WithHandlers, Alive, Processes
  <2>3. MessagesKept
    BY DEF Init, MessagesKept
  <2> QED BY <2>1, <2>2, <2>3 DEF IInv
<1>2. IInv /\ [Next]_vars => IInv'
  BY TypeStep, LifeStep, CountStep DEF IInv
<1> QED BY <1>1, <1>2, PTL DEF Spec

\* The three processes and their queues keep their types.
THEOREM TypeCorrect == Spec => []TypeOK
<1>1. IInv => TypeOK
  BY DEF IInv
<1> QED BY Invariance, <1>1, PTL

\* No message to the monitor engine is lost or repeated.
THEOREM NoMessageLost == Spec => []MessagesKept
<1>1. IInv => MessagesKept
  BY DEF IInv
<1> QED BY Invariance, <1>1, PTL

\* exit(0) of ifconfigd_shutdown leaves neither of the children behind.
THEOREM CleanExit == Spec => []ExitIsClean
<1>1. IInv => ExitIsClean
  BY DEF IInv, Stages, ExitIsClean
<1> QED BY Invariance, <1>1, PTL

\* End-of-file ends the parent's event loop only when it has lost both children.
THEOREM LeavesLast == Spec => []LeavesAlone
<1>1. IInv => LeavesAlone
  BY DEF IInv, Stages, LeavesAlone, Alive
<1> QED BY Invariance, <1>1, PTL

\* The parent never shuts down, and so kills and waits, while the engine runs.
THEOREM ShutdownOnlyAfterLoss == Spec => ShutdownAfterLoss
<1>1. IInv /\ [Next]_vars =>
        [parent # "shutdown" /\ parent' = "shutdown" => engine \notin Alive]_vars
  <2> SUFFICES ASSUME IInv, [Next]_vars, parent # "shutdown", parent' = "shutdown"
               PROVE  engine \notin Alive
    OBVIOUS
  <2> USE DEF ParentEnds
  <2>1. CASE SigHandler \/ LeaveLoop
    BY <2>1 DEF SigHandler, LeaveLoop, CheckChild, IInv, Stages, Alive
  <2>2. CASE \/ ForkEngine \/ ForkMonitore \/ AddSignals \/ AddPipeEvents
             \/ WaitChild \/ MainDispatchIfconfigde \/ MainEof \/ MainDispatchMonitore
    BY <2>2 DEF ForkEngine, ForkMonitore, AddSignals, AddPipeEvents, WaitChild, MainDispatchIfconfigde,
                MainEof, MainDispatchMonitore
  <2>3. CASE EngineNext \/ MonitoreNext
    BY <2>3 DEF EngineNext, MonitoreNext, EngineStartup, EngineEof, MonitoreStartup, MonitoreRead,
                MonitoreGet, MonitoreEof
  <2>4. CASE Environment
    BY <2>4 DEF Environment, Signal, EngineForward, MonitorReturns, ParentKilled, EngineKilled,
                MonitoreKilled
  <2>5. CASE UNCHANGED vars
    BY <2>5 DEF vars
  <2> QED BY <2>1, <2>2, <2>3, <2>4, <2>5 DEF Next, ParentNext, Finished
<1> QED BY Invariance, <1>1, PTL DEF Spec, ShutdownAfterLoss
==============================================================================
