--------------------------- MODULE IfconfigdProofs ---------------------------
(***************************************************************************)
(* Proofs about module Ifconfigd, for every value of its constants: the    *)
(* invariants the runs check on small instances, the two action properties *)
(* of the shutdown, and that the path of the messages implements Relay.    *)
(***************************************************************************)
EXTENDS Ifconfigd, SequenceTheorems, TLAPS

-----------------------------------------------------------------------------
(* Four sequences in a row: the messages handled, read, in the pipe and    *)
(* queued.  The lemmas say what a step may do without changing the row.    *)

Row(a, b, c, d) == a \o b \o c \o d

\* Composing appends to the queue and to the history of what was composed.
LEMMA RowAppend ==
  ASSUME NEW S, NEW a \in Seq(S), NEW b \in Seq(S), NEW c \in Seq(S), NEW d \in Seq(S),
         NEW f \in Seq(S), f = Row(a, b, c, d), NEW m \in S
  PROVE  Append(f, m) = Row(a, b, c, Append(d, m))
<1> DEFINE abc == a \o b \o c
<1>1. abc \in Seq(S)
  BY ConcatProperties
<1> HIDE DEF abc
<1>2. abc \o d \in Seq(S)
  BY <1>1, ConcatProperties
<1>3. Append(abc \o d, m) = (abc \o d) \o <<m>>
  BY <1>2, AppendIsConcat
<1>4. Append(d, m) = d \o <<m>> /\ <<m>> \in Seq(S)
  BY AppendIsConcat
<1>5. ASSUME NEW q \in Seq(S) PROVE (abc \o d) \o q = abc \o (d \o q)
  BY <1>1, SMTT(60)
<1> QED BY <1>3, <1>4, <1>5 DEF Row, abc

\* imsg_read moves the pipe behind the read buffer.
LEMMA RowRead ==
  ASSUME NEW S, NEW a \in Seq(S), NEW b \in Seq(S), NEW c \in Seq(S), NEW d \in Seq(S)
  PROVE  Row(a, b \o c, <<>>, d) = Row(a, b, c, d)
<1>1. a \o (b \o c) \in Seq(S)
  BY ConcatProperties, Zenon
<1>2. a \o (b \o c) \o <<>> = a \o (b \o c)
  BY <1>1, ConcatEmptySeq, Zenon
<1>3. a \o (b \o c) = a \o b \o c
  BY SMTT(60)
<1> QED BY <1>2, <1>3, Zenon DEF Row

\* imsg_get moves the head of the read buffer to the messages handled.
LEMMA RowGet ==
  ASSUME NEW S, NEW a \in Seq(S), NEW b \in Seq(S), NEW c \in Seq(S), NEW d \in Seq(S),
         b # <<>>
  PROVE  Row(Append(a, Head(b)), Tail(b), c, d) = Row(a, b, c, d)
<1>1. Append(a, Head(b)) \o Tail(b) = a \o b
  OBVIOUS
<1> QED BY <1>1, Zenon DEF Row

\* msgbuf_write moves the first k messages of the queue into the pipe.
LEMMA RowWrite ==
  ASSUME NEW S, NEW a \in Seq(S), NEW b \in Seq(S), NEW c \in Seq(S), NEW d \in Seq(S),
         NEW k \in 1..Len(d)
  PROVE  Row(a, b, c \o SubSeq(d, 1, k), SubSeq(d, k + 1, Len(d))) = Row(a, b, c, d)
<1>1. /\ SubSeq(d, 1, k) \in Seq(S) /\ SubSeq(d, k + 1, Len(d)) \in Seq(S)
      /\ SubSeq(d, 1, k) \o SubSeq(d, k + 1, Len(d)) = d
  OBVIOUS
<1>2. ASSUME NEW p \in Seq(S), NEW q \in Seq(S), p \o q = d
      PROVE  a \o b \o (c \o p) \o q = a \o b \o c \o d
  <2> DEFINE ab == a \o b
             abc == ab \o c
  <2>1. ab \in Seq(S) /\ abc \in Seq(S)
    BY ConcatProperties
  <2> HIDE DEF ab
  <2>2. ab \o (c \o p) = abc \o p
    BY <2>1, SMTT(60)
  <2> HIDE DEF abc
  <2>3. abc \o p \o q = abc \o (p \o q)
    BY <2>1, SMTT(60)
  <2> QED BY <1>2, <2>2, <2>3 DEF ab, abc
<1> QED BY <1>1, <1>2 DEF Row

\* The first message not handled yet is the head of the read buffer.
LEMMA RowNext ==
  ASSUME NEW S, NEW a \in Seq(S), NEW b \in Seq(S), NEW c \in Seq(S), NEW d \in Seq(S),
         b # <<>>
  PROVE  /\ Len(a) < Len(Row(a, b, c, d))
         /\ Row(a, b, c, d)[Len(a) + 1] = Head(b)
BY DEF Row

-----------------------------------------------------------------------------
(* The inductive invariant.                                                *)

\* The message being worked on is a request, as long as it is used.
CurrentOK == parent \in {"use", "monitor"} => cur \in Requests

\* What each state of the parent says of the engine and of ifconfigde_pid.  A
\* parent that has read end-of-file (shut) or leaves its loop has lost the
\* engine; only ifconfigd_shutdown and the step into it wait for the engine.
Stages ==
    /\ parent = "start" => engine = "none"
    /\ parent \in {"forked"} \cup WithHandlers =>
          ifconfigde_pid = 1 /\ engine \in EngineAlive \cup {"zombie"}
    /\ parent \in Handling /\ shut => engine = "zombie"
    /\ parent = "leaving" => engine = "zombie"
    /\ parent = "shutdown" => engine \in {"zombie", "reaped"}
    /\ parent = "exited" => engine = "reaped"

\* Which ends of the pipe are open: a running engine holds end 1, an ended one
\* nothing, and from its event loop on the parent holds end 0 only.
Ends ==
    /\ engine \in EngineAlive => 1 \in efds
    /\ engine \notin EngineAlive => efds = {}
    /\ parent \in {"loop", "leaving"} \cup Handling => 1 \notin pfds

\* The queue is empty until the engine runs its event loop, and armed in it.
Queue ==
    /\ engine \in {"none", "init", "socket", "dropped"} => wq = <<>>
    /\ QueueIsArmed

\* The read buffer is empty outside main_dispatch_ifconfigde, and nothing is in the
\* pipe once end-of-file was read.
Emptied ==
    /\ parent \in {"start", "forked", "setup", "loop", "leaving"} => rbuf = <<>>
    /\ parent = "leaving" \/ (parent \in Handling /\ shut) => pipe = <<>>

IInv == TypeOK /\ CurrentOK /\ Stages /\ Ends /\ Queue /\ Emptied /\ NothingLost /\ ShortNameHonoured

-----------------------------------------------------------------------------
(* Type correctness.                                                       *)

\* What connect_ethernet records and where it returns to is well typed.
LEMMA ConnectTyped ==
  ASSUME TypeOK, parent \in {"use", "monitor"}, cur \in Requests,
         NEW i \in DOMAIN conf, NEW next \in {"monitor", "dispatch"},
         NEW done \in Requests \cup {NoMsg}, next = "monitor" => done \in Requests,
         ConnectEthernet(conf[i], next, done)
  PROVE  /\ parent' \in ParentStates /\ pfds' \subseteq {0, 1} /\ sigs' \subseteq Signals
         /\ cur' \in Requests \cup {NoMsg} /\ connects' \subseteq Connect
         /\ CurrentOK'
<1>1. conf[i] \in Ethernet
  BY ConstantsAssumption, ElementOfSeq DEF TypeOK
<1>2. [req |-> cur, eth |-> conf[i].name, at |-> parent] \in Connect
  BY <1>1 DEF Connect, Ethernet
<1>3. connects' \subseteq Connect
  BY <1>2 DEF ConnectEthernet, TypeOK
<1>4. /\ parent' \in ParentStates /\ pfds' \subseteq {0, 1} /\ sigs' \subseteq Signals
      /\ cur' \in Requests \cup {NoMsg} /\ CurrentOK'
  BY DEF ConnectEthernet, IfconfigGate, ParentEnds, TypeOK, CurrentOK, ParentStates, WithHandlers, Handling, Gone
<1> QED BY <1>3, <1>4

\* Every step keeps the variables in their types.
LEMMA TypeStep == TypeOK /\ CurrentOK /\ [Next]_vars => TypeOK' /\ CurrentOK'
<1> SUFFICES ASSUME TypeOK, CurrentOK, [Next]_vars PROVE TypeOK' /\ CurrentOK'
  OBVIOUS
<1> USE DEF TypeOK, CurrentOK, ParentStates, EngineStates, WithHandlers, Handling, Gone, EngineAlive,
            Signals, UserSignals, chan, work
<1>1. CASE StartEngine \/ AddSignals \/ AddPipeEvent
  BY <1>1, ZenonT(60) DEF StartEngine, AddSignals, AddPipeEvent, ParentEnds, ParentEnd
<1>2. CASE MainDispatch
  <2>1. CASE parent' = "dispatch" /\ shut' = (pipe = <<>>) /\ rbuf' = rbuf \o pipe /\ pipe' = <<>>
                /\ UNCHANGED <<pfds, sigs>>
    <3>1. shut' \in BOOLEAN
      BY <2>1
    <3>2. rbuf' \in Seq(Requests) /\ pipe' \in Seq(Requests)
      BY <2>1, ConcatProperties, EmptySeq
    <3> QED BY <1>2, <2>1, <3>1, <3>2 DEF MainDispatch
  <2>2. CASE ParentEnds("failed") /\ UNCHANGED <<shut, rbuf, pipe>>
    BY <1>2, <2>2 DEF MainDispatch, ParentEnds
  <2> QED BY <1>2, <2>1, <2>2 DEF MainDispatch
<1>3. CASE ImsgGet
  BY <1>3 DEF ImsgGet, AfterGet
<1>4. CASE DispatchEnd
  BY <1>4 DEF DispatchEnd
<1>5. CASE UseEthernet
  <2>1. ASSUME NEW n \in Received(cur.name), NEW i \in FirstMatch(n),
               ConnectEthernet(conf[i], "monitor", cur)
        PROVE  TypeOK' /\ CurrentOK'
    <3>1. i \in DOMAIN conf
      BY DEF FirstMatch, Matches
    <3>2. parent \in {"use", "monitor"} /\ cur \in Requests
      BY <1>5 DEF UseEthernet
    <3> HIDE DEF TypeOK, CurrentOK, ParentStates, Signals
    <3>3. /\ parent' \in ParentStates /\ pfds' \subseteq {0, 1} /\ sigs' \subseteq Signals
          /\ cur' \in Requests \cup {NoMsg} /\ connects' \subseteq Connect /\ CurrentOK'
      BY <2>1, <3>1, <3>2, ConnectTyped
    <3> QED BY <1>5, <3>3 DEF UseEthernet, TypeOK
  <2>2. CASE parent' = "monitor" /\ UNCHANGED <<pfds, sigs, cur, connects>>
    BY <1>5, <2>2 DEF UseEthernet
  <2>3. CASE ParentEnds("failed") /\ cur' = NoMsg /\ UNCHANGED connects
    BY <1>5, <2>3 DEF UseEthernet, ParentEnds
  <2> QED BY <1>5, <2>1, <2>2, <2>3 DEF UseEthernet
<1>6. CASE Monitor
  <2>1. ASSUME NEW i \in DOMAIN conf, ConnectEthernet(conf[i], "dispatch", NoMsg)
        PROVE  TypeOK' /\ CurrentOK'
    <3>1. parent \in {"use", "monitor"} /\ cur \in Requests
      BY <1>6 DEF Monitor
    <3> HIDE DEF TypeOK, CurrentOK, ParentStates, Signals
    <3>2. /\ parent' \in ParentStates /\ pfds' \subseteq {0, 1} /\ sigs' \subseteq Signals
          /\ cur' \in Requests \cup {NoMsg} /\ connects' \subseteq Connect /\ CurrentOK'
      BY <2>1, <3>1, ConnectTyped
    <3> QED BY <1>6, <3>2 DEF Monitor, TypeOK
  <2>2. CASE parent' = "dispatch" /\ cur' = NoMsg /\ UNCHANGED <<pfds, sigs, connects>>
    BY <1>6, <2>2 DEF Monitor
  <2>3. CASE ParentEnds("failed") /\ cur' = NoMsg /\ UNCHANGED connects
    BY <1>6, <2>3 DEF Monitor, ParentEnds
  <2> QED BY <1>6, <2>1, <2>2, <2>3 DEF Monitor, MonitorEthernet
<1>7. CASE LeaveLoop \/ WaitChild \/ \E s \in Signals : SigHandler(s)
  BY <1>7, ZenonT(60) DEF LeaveLoop, WaitChild, SigHandler, EnterShutdown, ParentEnds, PidReset
<1>8. CASE EngineStartup \/ EngineListen \/ DispatchBroken \/ EngineExit \/ EngineKilled
  BY <1>8, ZenonT(60) DEF EngineStartup, EngineListen, DispatchBroken, EngineExit, EngineKilled, EngineEnds, EngineEnd
<1>9. CASE DispatchWrite
  BY <1>9 DEF DispatchWrite, ImsgEventAdd, Drain
<1>10. CASE DispatchEof
  BY <1>10 DEF DispatchEof
<1>11. CASE \E s \in UserSignals : Signal(s)
  <2>1. PICK s \in UserSignals : Signal(s)
    BY <1>11
  <2>2. sigs' \subseteq Signals
    BY <2>1 DEF Signal, ParentEnds
  <2> QED BY <2>1, <2>2, ZenonT(60) DEF Signal, ParentEnds
<1>12. CASE \E m \in Requests : ComposeParent(m)
  BY <1>12 DEF ComposeParent, ImsgEventAdd
<1>13. CASE ParentKilled
  BY <1>13 DEF ParentKilled, ParentEnds
<1>14. CASE UNCHANGED vars
  BY <1>14 DEF vars
<1> QED
  BY <1>1, <1>2, <1>3, <1>4, <1>5, <1>6, <1>7, <1>8, <1>9, <1>10, <1>11, <1>12, <1>13, <1>14
     DEF Next, ParentNext, EngineNext, Environment, Finished

-----------------------------------------------------------------------------
(* The life of the two processes.                                          *)

\* Every step keeps what is known of one process in each state of the other.
LEMMA LifeStep == TypeOK /\ Stages /\ Ends /\ [Next]_vars => Stages' /\ Ends'
<1> SUFFICES ASSUME TypeOK, Stages, Ends, [Next]_vars PROVE Stages' /\ Ends'
  OBVIOUS
<1> USE DEF TypeOK, Stages, Ends, ParentStates, EngineStates, WithHandlers, Handling, Gone, EngineAlive,
            chan, work
<1>1. CASE StartEngine \/ AddSignals
  BY <1>1 DEF StartEngine, AddSignals, ParentEnds
<1>2. CASE AddPipeEvent
  BY <1>2 DEF AddPipeEvent, ParentEnds, ParentEnd
<1>3. CASE MainDispatch
  BY <1>3 DEF MainDispatch, ParentEnds, EofAtParent
<1>4. CASE ImsgGet
  BY <1>4 DEF ImsgGet
<1>5. CASE DispatchEnd
  BY <1>5 DEF DispatchEnd
<1>6. CASE UseEthernet
  BY <1>6 DEF UseEthernet, ConnectEthernet, IfconfigGate, ParentEnds
<1>7. CASE Monitor
  BY <1>7 DEF Monitor, MonitorEthernet, ConnectEthernet, IfconfigGate, ParentEnds
<1>8. CASE LeaveLoop \/ WaitChild
  BY <1>8 DEF LeaveLoop, WaitChild, EnterShutdown, ParentEnds, NoChildLeft
<1>9. CASE \E s \in Signals : SigHandler(s)
  BY <1>9 DEF SigHandler, EnterShutdown, CheckChild, PidReset
<1>10. CASE EngineStartup \/ EngineListen
  BY <1>10 DEF EngineStartup, EngineListen, EngineEnds, EngineEnd
<1>11. CASE DispatchWrite \/ DispatchEof
  BY <1>11 DEF DispatchWrite, DispatchEof
<1>12. CASE DispatchBroken \/ EngineExit \/ EngineKilled
  BY <1>12 DEF DispatchBroken, EngineExit, EngineKilled, EngineEnds
<1>13. CASE \E s \in UserSignals : Signal(s)
  BY <1>13 DEF Signal, ParentEnds
<1>14. CASE \E m \in Requests : ComposeParent(m)
  BY <1>14 DEF ComposeParent
<1>15. CASE ParentKilled
  BY <1>15 DEF ParentKilled, ParentEnds
<1>16. CASE UNCHANGED vars
  BY <1>16 DEF vars
<1> QED
  BY <1>1, <1>2, <1>3, <1>4, <1>5, <1>6, <1>7, <1>8, <1>9, <1>10, <1>11, <1>12, <1>13, <1>14, <1>15, <1>16
     DEF Next, ParentNext, EngineNext, Environment, Finished

-----------------------------------------------------------------------------
(* The queue of the engine and the row of messages.                        *)

\* Every step keeps a queue that is not empty armed while the engine is in its
\* event loop.
LEMMA QueueStep == TypeOK /\ Stages /\ Queue /\ [Next]_vars => Queue'
<1> SUFFICES ASSUME TypeOK, Stages, Queue, [Next]_vars PROVE Queue'
  OBVIOUS
<1> USE DEF TypeOK, Queue, QueueIsArmed, EngineStates, EngineAlive, chan
<1>1. CASE \/ StartEngine \/ AddSignals \/ AddPipeEvent \/ MainDispatch \/ ImsgGet \/ DispatchEnd
           \/ UseEthernet \/ Monitor
  <2>1. CASE StartEngine
    BY <2>1 DEF StartEngine, Stages
  <2>2. UNCHANGED <<engine, wq, armed>> => Queue'
    OBVIOUS
  <2>3. CASE AddSignals \/ AddPipeEvent \/ MainDispatch \/ ImsgGet \/ DispatchEnd
    BY <2>2, <2>3 DEF AddSignals, AddPipeEvent, MainDispatch, ImsgGet, DispatchEnd
  <2>4. CASE UseEthernet \/ Monitor
    BY <2>2, <2>4 DEF UseEthernet, Monitor
  <2> QED BY <1>1, <2>1, <2>3, <2>4
<1>2. CASE LeaveLoop \/ WaitChild \/ \E s \in Signals : SigHandler(s)
  BY <1>2 DEF LeaveLoop, WaitChild, SigHandler, EnterShutdown
<1>3. CASE EngineStartup \/ EngineListen
  BY <1>3 DEF EngineStartup, EngineListen, EngineEnds
<1>4. CASE DispatchWrite
  BY <1>4 DEF DispatchWrite, ImsgEventAdd
<1>5. CASE DispatchEof \/ DispatchBroken \/ EngineExit \/ EngineKilled
  BY <1>5 DEF DispatchEof, DispatchBroken, EngineExit, EngineKilled, EngineEnds
<1>6. CASE \E m \in Requests : ComposeParent(m)
  BY <1>6 DEF ComposeParent, ImsgEventAdd
<1>7. CASE ParentKilled \/ \E s \in UserSignals : Signal(s)
  BY <1>7 DEF ParentKilled, Signal
<1>8. CASE UNCHANGED vars
  BY <1>8 DEF vars
<1> QED
  BY <1>1, <1>2, <1>3, <1>4, <1>5, <1>6, <1>7, <1>8 DEF Next, ParentNext, EngineNext, Environment, Finished

\* Every step keeps the read buffer and, after end-of-file, the pipe empty: an
\* engine that has ended writes nothing more.
LEMMA EmptiedStep == TypeOK /\ Stages /\ Emptied /\ [Next]_vars => Emptied'
<1> SUFFICES ASSUME TypeOK, Stages, Emptied, [Next]_vars PROVE Emptied'
  OBVIOUS
<1> USE DEF Emptied, Stages, WithHandlers, Handling, EngineAlive, chan, work
<1>1. CASE StartEngine \/ AddSignals \/ AddPipeEvent
  BY <1>1 DEF StartEngine, AddSignals, AddPipeEvent, ParentEnds
<1>2. CASE MainDispatch
  BY <1>2 DEF MainDispatch, ParentEnds
<1>3. CASE ImsgGet
  BY <1>3 DEF ImsgGet
<1>4. CASE DispatchEnd
  BY <1>4 DEF DispatchEnd
<1>5. CASE UseEthernet
  BY <1>5 DEF UseEthernet, ConnectEthernet, IfconfigGate, ParentEnds
<1>6. CASE Monitor
  BY <1>6 DEF Monitor, MonitorEthernet, ConnectEthernet, IfconfigGate, ParentEnds
<1>7. CASE LeaveLoop \/ WaitChild \/ \E s \in Signals : SigHandler(s)
  BY <1>7 DEF LeaveLoop, WaitChild, SigHandler, EnterShutdown, ParentEnds
<1>8. CASE DispatchWrite
  BY <1>8 DEF DispatchWrite
<1>9. CASE EngineStartup \/ EngineListen \/ DispatchEof \/ DispatchBroken \/ EngineExit \/ EngineKilled
  BY <1>9 DEF EngineStartup, EngineListen, DispatchEof, DispatchBroken, EngineExit, EngineKilled
<1>10. CASE Environment /\ ~EngineKilled
  BY <1>10 DEF Environment, Signal, ComposeParent, ParentKilled, ParentEnds
<1>11. CASE UNCHANGED vars
  BY <1>11 DEF vars
<1> QED
  BY <1>1, <1>2, <1>3, <1>4, <1>5, <1>6, <1>7, <1>8, <1>9, <1>10, <1>11
     DEF Next, ParentNext, EngineNext, Finished

\* Only four steps touch the messages; the others leave all five sequences alone.
LEMMA OtherSteps ==
  ASSUME [Next]_vars, ~MainDispatch, ~ImsgGet, ~DispatchWrite, ~(\E m \in Requests : ComposeParent(m))
  PROVE  UNCHANGED <<fwd, handled, rbuf, pipe, wq>>
<1> USE DEF chan
<1>1. CASE StartEngine \/ AddSignals \/ AddPipeEvent \/ DispatchEnd \/ UseEthernet \/ Monitor
  BY <1>1 DEF StartEngine, AddSignals, AddPipeEvent, DispatchEnd, UseEthernet, Monitor
<1>2. CASE LeaveLoop \/ WaitChild \/ \E s \in Signals : SigHandler(s)
  BY <1>2 DEF LeaveLoop, WaitChild, SigHandler
<1>3. CASE EngineStartup \/ EngineListen \/ DispatchEof \/ DispatchBroken \/ EngineExit \/ EngineKilled
  BY <1>3 DEF EngineStartup, EngineListen, DispatchEof, DispatchBroken, EngineExit, EngineKilled
<1>4. CASE ParentKilled \/ \E s \in UserSignals : Signal(s)
  BY <1>4 DEF ParentKilled, Signal
<1>5. CASE UNCHANGED vars
  BY <1>5 DEF vars
<1> QED
  BY <1>1, <1>2, <1>3, <1>4, <1>5 DEF Next, ParentNext, EngineNext, Environment, Finished

\* Every step keeps the row of messages equal to what was composed.
LEMMA RowStep == TypeOK /\ NothingLost /\ [Next]_vars => NothingLost'
<1> SUFFICES ASSUME TypeOK, NothingLost, [Next]_vars PROVE NothingLost'
  OBVIOUS
<1>0. /\ handled \in Seq(Requests) /\ rbuf \in Seq(Requests) /\ pipe \in Seq(Requests)
      /\ wq \in Seq(Requests) /\ fwd \in Seq(Requests)
  BY DEF TypeOK
<1>a. NothingLost <=> fwd = Row(handled, rbuf, pipe, wq)
  BY DEF NothingLost, Row
<1>b. NothingLost' <=> fwd' = Row(handled', rbuf', pipe', wq')
  BY DEF NothingLost, Row
<1>1. CASE MainDispatch
  <2>1. CASE UNCHANGED <<rbuf, pipe>>
    BY <1>1, <2>1 DEF MainDispatch, NothingLost
  <2>2. CASE rbuf' = rbuf \o pipe /\ pipe' = <<>>
    <3>1. Row(handled, rbuf \o pipe, <<>>, wq) = Row(handled, rbuf, pipe, wq)
      BY <1>0, RowRead
    <3> QED BY <1>1, <1>a, <1>b, <2>2, <3>1 DEF MainDispatch
  <2> QED BY <1>1, <2>1, <2>2 DEF MainDispatch
<1>2. CASE ImsgGet
  <2>1. /\ handled' = Append(handled, Head(rbuf)) /\ rbuf' = Tail(rbuf) /\ rbuf # <<>>
        /\ UNCHANGED <<fwd, pipe, wq>>
    BY <1>2 DEF ImsgGet, AfterGet
  <2>2. Row(Append(handled, Head(rbuf)), Tail(rbuf), pipe, wq) = Row(handled, rbuf, pipe, wq)
    BY <1>0, <2>1, RowGet
  <2> QED BY <1>a, <1>b, <2>1, <2>2
<1>3. CASE DispatchWrite
  <2>1. PICK k \in 1..Len(wq) : pipe' = pipe \o SubSeq(wq, 1, k) /\ wq' = SubSeq(wq, k + 1, Len(wq))
    BY <1>3 DEF DispatchWrite, Drain
  <2>2. Row(handled, rbuf, pipe \o SubSeq(wq, 1, k), SubSeq(wq, k + 1, Len(wq)))
          = Row(handled, rbuf, pipe, wq)
    BY <1>0, <2>1, RowWrite
  <2> QED BY <1>3, <1>a, <1>b, <2>1, <2>2 DEF DispatchWrite
<1>4. CASE \E m \in Requests : ComposeParent(m)
  <2>1. ASSUME NEW m \in Requests
        PROVE  Append(fwd, m) = Row(handled, rbuf, pipe, Append(wq, m))
    BY <1>0, <1>a, RowAppend
  <2> QED BY <1>4, <1>a, <1>b, <2>1 DEF ComposeParent
<1>5. CASE UNCHANGED <<fwd, handled, rbuf, pipe, wq>>
  BY <1>5 DEF NothingLost
<1> QED BY <1>1, <1>2, <1>3, <1>4, <1>5, OtherSteps

-----------------------------------------------------------------------------
(* What is connected.                                                      *)

\* Every step keeps a short name that was used the name that was asked for: it
\* is what Received returns, and Matches compares it with the whole name.
LEMMA ShortStep == TypeOK /\ ShortNameHonoured /\ [Next]_vars => ShortNameHonoured'
<1> SUFFICES ASSUME TypeOK, ShortNameHonoured, [Next]_vars PROVE ShortNameHonoured'
  OBVIOUS
<1> USE DEF chan, work
<1>1. CASE UseEthernet
  <2>1. ASSUME NEW n \in Received(cur.name), NEW i \in FirstMatch(n),
               ConnectEthernet(conf[i], "monitor", cur)
        PROVE  ShortNameHonoured'
    <3>1. conf[i].name = n
      BY DEF FirstMatch, Matches
    <3>2. cur.name.head \in ShortNames => n = cur.name
      BY DEF Received
    <3>3. connects' = connects \cup {[req |-> cur, eth |-> n, at |-> parent]}
      BY <2>1, <3>1 DEF ConnectEthernet
    <3> QED BY <3>2, <3>3 DEF ShortNameHonoured
  <2>2. CASE UNCHANGED connects
    BY <2>2 DEF ShortNameHonoured
  <2> QED BY <1>1, <2>1, <2>2 DEF UseEthernet
<1>2. CASE Monitor
  <2>1. ASSUME NEW i \in DOMAIN conf, ConnectEthernet(conf[i], "dispatch", NoMsg)
        PROVE  ShortNameHonoured'
    <3>1. connects' = connects \cup {[req |-> cur, eth |-> conf[i].name, at |-> "monitor"]}
      BY <1>2, <2>1 DEF ConnectEthernet, Monitor
    <3> QED BY <3>1 DEF ShortNameHonoured
  <2>2. CASE UNCHANGED connects
    BY <2>2 DEF ShortNameHonoured
  <2> QED BY <1>2, <2>1, <2>2 DEF Monitor, MonitorEthernet
<1>3. CASE UNCHANGED connects
  BY <1>3 DEF ShortNameHonoured
<1>4. CASE StartEngine \/ AddSignals \/ AddPipeEvent \/ MainDispatch \/ ImsgGet \/ DispatchEnd
  BY <1>3, <1>4 DEF StartEngine, AddSignals, AddPipeEvent, MainDispatch, ImsgGet, DispatchEnd
<1>5. CASE LeaveLoop \/ WaitChild \/ \E s \in Signals : SigHandler(s)
  BY <1>3, <1>5 DEF LeaveLoop, WaitChild, SigHandler
<1>6. CASE EngineNext
  BY <1>3, <1>6 DEF EngineNext, EngineStartup, EngineListen, DispatchWrite, DispatchEof, DispatchBroken, EngineExit
<1>7. CASE Environment
  BY <1>3, <1>7 DEF Environment, Signal, ComposeParent, ParentKilled, EngineKilled
<1>8. CASE UNCHANGED vars
  BY <1>3, <1>8 DEF vars
<1> QED
  BY <1>1, <1>2, <1>4, <1>5, <1>6, <1>7, <1>8 DEF Next, ParentNext, Finished

-----------------------------------------------------------------------------
(* The theorems.                                                           *)

\* The inductive invariant holds in the initial states.
LEMMA InitIInv == Init => IInv
<1> SUFFICES ASSUME Init PROVE IInv
  OBVIOUS
<1>1. TypeOK
  <2>1. parent \in ParentStates /\ engine \in EngineStates /\ conf \in Configs
    BY DEF Init, ParentStates, EngineStates
  <2>2. <<>> \in Seq(Requests)
    BY EmptySeq
  <2>3. /\ listening \in BOOLEAN /\ armed \in BOOLEAN /\ shut \in BOOLEAN
        /\ ifconfigde_pid \in {0, 1} /\ cur \in Requests \cup {NoMsg}
    BY DEF Init
  <2> QED BY <2>1, <2>2, <2>3 DEF Init, TypeOK
<1>2. CurrentOK /\ Stages /\ Ends /\ Queue /\ Emptied /\ ShortNameHonoured
  BY DEF Init, CurrentOK, Stages, Ends, Queue, Emptied, QueueIsArmed, ShortNameHonoured, WithHandlers, Handling,
         EngineAlive
<1>3. NothingLost
  BY DEF Init, NothingLost
<1> QED BY <1>1, <1>2, <1>3 DEF IInv

\* The invariant is inductive: it holds in every reachable state of the two
\* processes, for any configuration, requests and size of the pipe.
THEOREM Invariance == Spec => []IInv
<1>1. IInv /\ [Next]_vars => IInv'
  BY TypeStep, LifeStep, QueueStep, EmptiedStep, RowStep, ShortStep DEF IInv
<1> QED BY InitIInv, <1>1, PTL DEF Spec

\* Every variable of the two processes and of the path between them keeps its
\* type, the message main_dispatch_ifconfigde works on included.
THEOREM TypeCorrect == Spec => []TypeOK
<1>1. IInv => TypeOK
  BY DEF IInv
<1> QED BY Invariance, <1>1, PTL

\* No request is lost, repeated or reordered between the engine and the parent.
THEOREM NoMessageLost == Spec => []NothingLost
<1>1. IInv => NothingLost
  BY DEF IInv
<1> QED BY Invariance, <1>1, PTL

\* A queue that is not empty always waits for EV_WRITE in the event loop.
THEOREM AlwaysArmed == Spec => []QueueIsArmed
<1>1. IInv => QueueIsArmed
  BY DEF IInv, Queue
<1> QED BY Invariance, <1>1, PTL

\* exit(0) of ifconfigd_shutdown leaves no child and no zombie behind.
THEOREM CleanExit == Spec => []ExitIsClean
<1>1. IInv => ExitIsClean
  BY DEF IInv, Stages, ExitIsClean
<1> QED BY Invariance, <1>1, PTL

\* A parent in its event loop always sees an ended engine as end-of-file.
THEOREM LossSeen == Spec => []LossIsSeen
<1>1. IInv => LossIsSeen
  BY DEF IInv, TypeOK, Stages, Ends, LossIsSeen, EofAtParent, WithHandlers, Handling, EngineStates, EngineAlive
<1> QED BY Invariance, <1>1, PTL

\* A parent that leaves at end-of-file has taken everything the pipe held.
THEOREM NothingLeftBehind == Spec => []EofDrains
<1>1. IInv => EofDrains
  <2> SUFFICES ASSUME IInv, parent = "leaving" PROVE handled \o wq = fwd
    BY DEF EofDrains
  <2>1. rbuf = <<>> /\ pipe = <<>> /\ handled \in Seq(Requests) /\ wq \in Seq(Requests)
    BY DEF IInv, Emptied, TypeOK
  <2>2. fwd = handled \o <<>> \o <<>> \o wq
    BY <2>1 DEF IInv, NothingLost
  <2>3. handled \o <<>> = handled
    BY <2>1
  <2> QED BY <2>2, <2>3
<1> QED BY Invariance, <1>1, PTL

\* A short name connects the network that was asked for.
THEOREM ShortNameReaches == Spec => []ShortNameHonoured
<1>1. IInv => ShortNameHonoured
  BY DEF IInv
<1> QED BY Invariance, <1>1, PTL

\* Only two steps enter the shutdown.
LEMMA ShutdownSteps ==
  ASSUME [Next]_vars, parent # "shutdown", parent' = "shutdown"
  PROVE  LeaveLoop \/ \E s \in Signals : SigHandler(s)
<1> USE DEF ParentEnds
<1>1. CASE StartEngine \/ AddSignals \/ AddPipeEvent \/ MainDispatch \/ ImsgGet \/ DispatchEnd
  BY <1>1 DEF StartEngine, AddSignals, AddPipeEvent, MainDispatch, ImsgGet, DispatchEnd
<1>2. CASE UseEthernet \/ Monitor
  BY <1>2 DEF UseEthernet, Monitor, MonitorEthernet, ConnectEthernet, IfconfigGate
<1>3. CASE WaitChild
  BY <1>3 DEF WaitChild
<1>4. CASE EngineNext
  BY <1>4 DEF EngineNext, EngineStartup, EngineListen, DispatchWrite, DispatchEof, DispatchBroken, EngineExit
<1>5. CASE Environment
  BY <1>5 DEF Environment, Signal, ComposeParent, ParentKilled, EngineKilled
<1>6. CASE UNCHANGED vars
  BY <1>6 DEF vars
<1> QED BY <1>1, <1>2, <1>3, <1>4, <1>5, <1>6 DEF Next, ParentNext, Finished

\* The parent never shuts down, and so never blocks in wait, while the engine runs.
THEOREM ShutdownOnlyAfterLoss == Spec => ShutdownAfterLoss
<1>1. IInv /\ [Next]_vars =>
        [parent # "shutdown" /\ parent' = "shutdown" => engine \notin EngineAlive]_vars
  <2> SUFFICES ASSUME IInv, [Next]_vars, parent # "shutdown", parent' = "shutdown"
               PROVE  engine \notin EngineAlive
    OBVIOUS
  <2>1. CASE LeaveLoop
    BY <2>1 DEF LeaveLoop, IInv, Stages, EngineAlive
  <2>2. CASE \E s \in Signals : SigHandler(s)
    BY <2>2 DEF SigHandler, CheckChild, EngineAlive
  <2> QED BY <2>1, <2>2, ShutdownSteps
<1> QED BY Invariance, <1>1, PTL DEF Spec, ShutdownAfterLoss

\* SIGTERM is never sent to a pid that was waited for.
THEOREM KillsOnlyTheChild == Spec => KillHitsChild
<1>1. IInv /\ [Next]_vars =>
        [parent # "shutdown" /\ parent' = "shutdown" /\ ifconfigde_pid' # 0
            => engine # "reaped" /\ engine' # "reaped"]_vars
  <2> SUFFICES ASSUME IInv, [Next]_vars, parent # "shutdown", parent' = "shutdown", ifconfigde_pid' # 0
               PROVE  engine # "reaped" /\ engine' # "reaped"
    OBVIOUS
  <2>1. CASE LeaveLoop
    BY <2>1 DEF LeaveLoop, EnterShutdown, IInv, Stages, EngineAlive
  <2>2. CASE \E s \in Signals : SigHandler(s)
    BY <2>2 DEF SigHandler, EnterShutdown, PidReset
  <2> QED BY <2>1, <2>2, ShutdownSteps
<1> QED BY Invariance, <1>1, PTL DEF Spec, KillHitsChild

\* The queue, the pipe and the read buffer together implement the relay.
THEOREM RelayImplemented == Spec => ImplementsRelay
<1>1. Init => Abstract!RelayInit
  BY DEF Init, Abstract!RelayInit
<1>2. IInv /\ [Next]_vars => [Abstract!RelayNext]_(Abstract!relayVars)
  <2> SUFFICES ASSUME IInv, [Next]_vars PROVE [Abstract!RelayNext]_(Abstract!relayVars)
    OBVIOUS
  <2>1. CASE ImsgGet
    <3>1. /\ handled' = Append(handled, Head(rbuf)) /\ rbuf # <<>>
          /\ UNCHANGED fwd
      BY <2>1 DEF ImsgGet
    <3>2. /\ handled \in Seq(Requests) /\ rbuf \in Seq(Requests) /\ pipe \in Seq(Requests)
          /\ wq \in Seq(Requests) /\ fwd = Row(handled, rbuf, pipe, wq)
      BY DEF IInv, TypeOK, NothingLost, Row
    <3>3. Len(handled) < Len(fwd) /\ fwd[Len(handled) + 1] = Head(rbuf)
      BY <3>1, <3>2, RowNext, ZenonT(60)
    <3> QED BY <3>1, <3>3 DEF Abstract!RelayNext, Abstract!Deliver
  <2>2. CASE \E m \in Requests : ComposeParent(m)
    BY <2>2 DEF ComposeParent, Abstract!RelayNext, Abstract!Submit
  <2>3. CASE MainDispatch \/ DispatchWrite
    BY <2>3 DEF MainDispatch, DispatchWrite, Abstract!relayVars
  <2>4. CASE UNCHANGED <<fwd, handled, rbuf, pipe, wq>>
    BY <2>4 DEF Abstract!relayVars
  <2> QED BY <2>1, <2>2, <2>3, <2>4, OtherSteps
<1> QED BY Invariance, <1>1, <1>2, PTL DEF Spec, ImplementsRelay, Abstract!RelaySpec
==============================================================================
