------------------------------- MODULE Control -------------------------------
(***************************************************************************)
(* The control socket of the ifconfigd engine (control.c) and its clients  *)
(* (ifconfigctl.c).                                                        *)
(*                                                                         *)
(* A client connects, writes its messages and closes without waiting for   *)
(* an answer, so a connection is often closed by its client before the     *)
(* engine has accepted it.  The engine keeps one ctl_conn per accepted     *)
(* connection and finds it again by descriptor number, which the kernel    *)
(* reuses.  A message is an imsg: a header and, for some types, a payload; *)
(* header and payload may arrive in separate reads.                        *)
(*                                                                         *)
(* The engine is single-threaded: each event handler is one action.  What  *)
(* it forwards to the parent is appended to out (module Ifconfigd carries  *)
(* it further).  The engine never sends to a client: control_imsg_relay    *)
(* has no caller, so EV_WRITE is never requested for a connection.         *)
(***************************************************************************)
EXTENDS Naturals, SequencesExt, Filters

CONSTANTS
    Clients,    \* client processes, each runs once
    NoClient,   \* a descriptor that is not open
    Commands,   \* ifconfigctl keywords in use
    Others,     \* message sequences sent by clients other than ifconfigctl
    MaxFds,     \* descriptors the engine can have open for connections
    Backlog     \* connections the kernel queues for the listening socket

Types == {"USE_ETHERNET", "USE_NETWORKS", "USE_WIRELESS", "SHOW_NETWORKS",
          "SHOW_WIRELESS", "IFCONFIGD_MONITOR", "NONE"}

\* none: header only; name: MAX_NETWORK_NAME_SIZE bytes; other: another payload;
\* bad: the header's length field is out of range.
Sizes == {"none", "name", "other", "bad"}
Msg == [type : Types, size : Sizes]

Keywords == {"monitor", "show", "uselan", "usenet", "usewlan"}

ASSUME ControlAssumption ==
    /\ NoClient \notin Clients
    /\ Commands \subseteq Keywords
    /\ Others \subseteq Seq(Msg)
    /\ MaxFds \in Nat \ {0} /\ Backlog \in Nat \ {0}

\* The messages ifconfigctl composes for a keyword: the switch on imsgflag knows
\* two of them.
Composes(k) ==
    CASE k = "uselan"  -> << [type |-> "USE_ETHERNET", size |-> "name"] >>
      [] k = "monitor" -> << [type |-> "IFCONFIGD_MONITOR", size |-> "none"] >>
      [] OTHER         -> << >>

\* What a client runs: ifconfigctl with a keyword, or another program.
Programs == [cmd : {"other"}, msgs : Others]
            \cup {[cmd |-> k, msgs |-> Composes(k)] : k \in Commands}

\* The pieces a message is written and read in.
Fragment == [msg : Msg, last : BOOLEAN]
Fragments(m) ==
    IF m.size \in {"none", "bad"}
       THEN << [msg |-> m, last |-> TRUE] >>
       ELSE << [msg |-> m, last |-> FALSE], [msg |-> m, last |-> TRUE] >>
Stream(msgs) == FlattenSeq([i \in DOMAIN msgs |-> Fragments(msgs[i])])

Fds == 1..MaxFds

VARIABLES
    program,     \* what each client runs
    client,      \* idle, connected, closed (finished), failed
    tosend,      \* fragments a client has not written yet
    sock,        \* fragments written and not yet read by the engine
    backlog,     \* connections waiting for accept
    file,        \* the engine's descriptors: which client's connection each is
    ctl_conns,   \* the list of ctl_conn: descriptor and read buffer
    events,      \* descriptors with a registered read event
    out,         \* messages forwarded to the parent, with their sender
    dropped      \* clients whose connection the engine gave up with an error

cvars == <<program, client, tosend, sock>>
evars == <<backlog, file, ctl_conns, events, out, dropped>>
vars == <<program, client, tosend, sock, backlog, file, ctl_conns, events, out, dropped>>

Init ==
    /\ program \in [Clients -> Programs]
    /\ client = [c \in Clients |-> "idle"]
    /\ tosend = [c \in Clients |-> Stream(program[c].msgs)]
    /\ sock = [c \in Clients |-> << >>]
    /\ backlog = << >> /\ file = [fd \in Fds |-> NoClient]
    /\ ctl_conns = << >> /\ events = {} /\ out = << >> /\ dropped = {}

Ended(c) == client[c] \in {"closed", "failed"}

-----------------------------------------------------------------------------
(* Clients.                                                                *)

\* connect: refused when the listen queue is full, and ifconfigctl exits.
ClientConnect(c) ==
    /\ client[c] = "idle"
    /\ \/ /\ Len(backlog) < Backlog
          /\ client' = [client EXCEPT ![c] = "connected"]
          /\ backlog' = Append(backlog, c)
       \/ /\ Len(backlog) >= Backlog
          /\ client' = [client EXCEPT ![c] = "failed"]
          /\ UNCHANGED backlog
    /\ UNCHANGED <<program, tosend, sock, file, ctl_conns, events, out, dropped>>

\* msgbuf_write: part of what is left; an error once the engine has closed.
ClientWrite(c) ==
    /\ client[c] = "connected" /\ tosend[c] # << >>
    /\ \/ /\ c \notin dropped
          /\ \E k \in 1..Len(tosend[c]) :
                /\ sock' = [sock EXCEPT ![c] = @ \o SubSeq(tosend[c], 1, k)]
                /\ tosend' = [tosend EXCEPT ![c] = SubSeq(@, k + 1, Len(@))]
          /\ UNCHANGED client
       \/ /\ c \in dropped
          /\ client' = [client EXCEPT ![c] = "failed"]
          /\ UNCHANGED <<sock, tosend>>
    /\ UNCHANGED <<program, evars>>

\* close(ctl_sock) and return: everything was written, nothing is awaited.
ClientClose(c) ==
    /\ client[c] = "connected" /\ tosend[c] = << >>
    /\ client' = [client EXCEPT ![c] = "closed"]
    /\ UNCHANGED <<program, tosend, sock, evars>>

\* A client is killed, perhaps between the header and the payload of a message.
ClientKilled(c) ==
    /\ client[c] = "connected"
    /\ client' = [client EXCEPT ![c] = "failed"]
    /\ UNCHANGED <<program, tosend, sock, evars>>

-----------------------------------------------------------------------------
(* The engine.                                                             *)

\* The kernel hands out the lowest free descriptor.
FreeFds == {fd \in Fds : file[fd] = NoClient}
LowestFree == CHOOSE fd \in FreeFds : \A g \in FreeFds : fd <= g

\* Faulty variant of ControlAccept: the result of accept is not checked, and the
\* -1 (here 0) of a failure is taken for a descriptor.
AcceptUnchecked ==
    /\ backlog # << >>
    /\ IF FreeFds = {}
          THEN /\ ctl_conns' = Append(ctl_conns, [fd |-> 0, buf |-> << >>])
               /\ events' = events \cup {0}
               /\ UNCHANGED <<backlog, file>>
          ELSE /\ backlog' = Tail(backlog)
               /\ file' = [file EXCEPT ![LowestFree] = Head(backlog)]
               /\ ctl_conns' = Append(ctl_conns, [fd |-> LowestFree, buf |-> << >>])
               /\ events' = events \cup {LowestFree}
    /\ UNCHANGED <<cvars, out, dropped>>

\* control_accept: without a free descriptor accept fails, the connection stays
\* queued and the persistent event fires again.  When the ctl_conn cannot be
\* allocated the connection is closed.
ControlAccept ==
    /\ backlog # << >> /\ FreeFds # {}
    /\ backlog' = Tail(backlog)
    /\ \/ /\ file' = [file EXCEPT ![LowestFree] = Head(backlog)]
          /\ ctl_conns' = Append(ctl_conns, [fd |-> LowestFree, buf |-> << >>])
          /\ events' = events \cup {LowestFree}
          /\ UNCHANGED dropped
       \/ /\ dropped' = dropped \cup {Head(backlog)}
          /\ UNCHANGED <<file, ctl_conns, events>>
    /\ UNCHANGED <<cvars, out>>

\* control_connbyfd: position of the first entry with this descriptor, or 0.
ConnByFd(fd) == SelectInSeq(ctl_conns, LAMBDA c : c.fd = fd)

\* Faulty variant of ControlClose: the ctl_conn stays in the list.
ControlCloseLinked(fd) ==
    /\ UNCHANGED ctl_conns
    /\ events' = events \ {fd}
    /\ file' = [file EXCEPT ![fd] = NoClient]

\* control_close: unlink the ctl_conn, delete its event, close the descriptor.
ControlClose(fd) ==
    /\ ctl_conns' = RemoveAt(ctl_conns, ConnByFd(fd))
    /\ events' = events \ {fd}
    /\ file' = [file EXCEPT ![fd] = NoClient]

\* imsg_get in a loop: it stops before a message that is not complete and fails
\* on a header with a bad length.
IsBad(f) == f.msg.size = "bad"
BeforeBad(buf) ==
    LET i == SelectInSeq(buf, IsBad) IN IF i = 0 THEN buf ELSE SubSeq(buf, 1, i - 1)
Whole == {f \in Fragment : f.last}
ImsgGets(buf) == Filter(BeforeBad(buf), Whole)

\* What imsg_get leaves in the buffer: the fragments of a message that is not
\* complete.  Faulty variant: everything, the memmove is missing.
NotMoved(buf) == buf
Incomplete(buf) == IF buf # << >> /\ ~Last(buf).last THEN << Last(buf) >> ELSE << >>

\* The switch of control_dispatch_imsg: which messages go to the parent.
IsForwarded(f) ==
    \/ f.msg.type = "USE_ETHERNET" /\ f.msg.size = "name"
    \/ f.msg.type \in {"USE_NETWORKS", "USE_WIRELESS", "SHOW_WIRELESS", "IFCONFIGD_MONITOR"}
Forwarded == {f \in Fragment : IsForwarded(f)}
Forwards(buf) == Filter(ImsgGets(buf), Forwarded)

\* imsg_event_add after a dispatch: libevent has removed the event, which is not
\* persistent, and it is added again.  Faulty variant: it is not.
NotAdded(evs, fd) == evs
ImsgEventAdd(evs, fd) == evs \cup {fd}

\* Hand messages of one client to ifconfigde_imsg_compose_parent.
SendParent(c, frags) ==
    out' = out \o [i \in DOMAIN frags |-> [from |-> c, msg |-> frags[i].msg]]

\* control_dispatch_imsg when there is something to read: read it, forward what is
\* complete, keep the rest and re-arm, or close on a bad header.
ControlDispatch(fd) ==
    /\ fd \in events
    /\ LET c == file[fd]
           conn == ConnByFd(fd)
           buf == ctl_conns[conn].buf \o sock[c]
       IN /\ sock[c] # << >>
          /\ sock' = [sock EXCEPT ![c] = << >>]
          /\ SendParent(c, Forwards(buf))
          /\ IF SelectInSeq(buf, IsBad) = 0
                THEN /\ ctl_conns' = [ctl_conns EXCEPT ![conn].buf = Incomplete(buf)]
                     /\ events' = ImsgEventAdd(events \ {fd}, fd)
                     /\ UNCHANGED <<file, dropped>>
                ELSE ControlClose(fd) /\ dropped' = dropped \cup {c}
    /\ UNCHANGED <<program, client, tosend, backlog>>

\* The same handler short of memory: imsg_read fails, or imsg_get fails at one of
\* the complete messages; those before it were forwarded, then the connection is
\* closed.
DispatchNoMemory(fd) ==
    /\ fd \in events
    /\ LET c == file[fd]
           gets == ImsgGets(ctl_conns[ConnByFd(fd)].buf \o sock[c])
       IN /\ sock[c] # << >>
          /\ sock' = [sock EXCEPT ![c] = << >>]
          /\ \E k \in 0..Len(gets) :
                /\ k = 0 \/ k < Len(gets)
                /\ SendParent(c, Filter(SubSeq(gets, 1, k), Forwarded))
          /\ ControlClose(fd) /\ dropped' = dropped \cup {c}
    /\ UNCHANGED <<program, client, tosend, backlog>>

\* control_dispatch_imsg at end-of-file: imsg_read returns 0.
ControlEof(fd) ==
    /\ fd \in events
    /\ sock[file[fd]] = << >> /\ Ended(file[fd])
    /\ ControlClose(fd)
    /\ UNCHANGED <<cvars, backlog, out, dropped>>

\* Every client has run and the engine has nothing left to do.
Quiet ==
    /\ \A c \in Clients : Ended(c)
    /\ backlog = << >> /\ \A fd \in Fds : file[fd] = NoClient
    /\ UNCHANGED vars

ClientNext(c) == ClientConnect(c) \/ ClientWrite(c) \/ ClientClose(c) \/ ClientKilled(c)

Next ==
    \/ \E c \in Clients : ClientNext(c)
    \/ ControlAccept
    \/ \E fd \in Fds : ControlDispatch(fd) \/ DispatchNoMemory(fd) \/ ControlEof(fd)
    \/ Quiet

Spec == Init /\ [][Next]_vars

\* The engine runs every active event; a connected ifconfigctl writes and closes
\* without waiting for anyone.  Other programs may keep a connection for ever.
Fairness ==
    /\ WF_vars(ControlAccept)
    /\ \A fd \in Fds : WF_vars(ControlDispatch(fd)) /\ WF_vars(ControlEof(fd))
    /\ \A c \in Clients :
          WF_vars(program[c].cmd # "other" /\ (ClientWrite(c) \/ ClientClose(c)))

FairSpec == Spec /\ Fairness

-----------------------------------------------------------------------------
(* Properties.                                                             *)

\* Type invariant of the clients, the kernel's queues and the engine.
TypeOK ==
    /\ program \in [Clients -> Programs]
    /\ client \in [Clients -> {"idle", "connected", "closed", "failed"}]
    /\ tosend \in [Clients -> Seq(Fragment)] /\ sock \in [Clients -> Seq(Fragment)]
    /\ backlog \in Seq(Clients)
    /\ file \in [Fds -> Clients \cup {NoClient}]
    /\ ctl_conns \in Seq([fd : Fds, buf : Seq(Fragment)])
    /\ events \subseteq Fds
    /\ out \in Seq([from : Clients, msg : Msg])
    /\ dropped \subseteq Clients

\* control_connbyfd can rely on descriptor numbers although the kernel reuses
\* them: every open descriptor has exactly one ctl_conn and a registered event,
\* and no ctl_conn or event is left for a closed one.
OneConnPerFd ==
    /\ \A fd \in Fds :
          file[fd] # NoClient <=> \E i \in DOMAIN ctl_conns : ctl_conns[i].fd = fd
    /\ \A i, j \in DOMAIN ctl_conns : ctl_conns[i].fd = ctl_conns[j].fd => i = j
    /\ events = {fd \in Fds : file[fd] # NoClient}

\* What the engine still holds of a client: its read buffer, then its socket.
Pending(c) ==
    LET fds == {fd \in Fds : file[fd] = c}
    IN (IF fds = {} THEN << >> ELSE ctl_conns[ConnByFd(CHOOSE fd \in fds : TRUE)].buf) \o sock[c]

MsgsOf(frags) == [i \in DOMAIN frags |-> frags[i].msg]
Out(c) == MsgsOf(Filter(out, [from : {c}, msg : Msg]))

Expected(c) == MsgsOf(Forwards(Stream(program[c].msgs)))

\* Each client's messages are forwarded once, in order and only when they have
\* arrived whole, however reads split them and connections interleave: unless the
\* engine gave the connection up, what was forwarded, what the engine holds and
\* what the client has yet to write make up what the client set out to send.
ForwardedOnce ==
    \A c \in Clients :
        /\ IsPrefix(Out(c), Expected(c))
        /\ c \notin dropped => Out(c) \o MsgsOf(Forwards(Pending(c) \o tosend[c])) = Expected(c)

\* A client that has written everything and closed, perhaps before accept, has
\* its messages forwarded in the end, unless the engine ran out of memory or met
\* a bad header on that connection.
ClosedIsServed ==
    \A c \in Clients :
        client[c] = "closed" ~> (Out(c) = Expected(c) \/ c \in dropped)

\* No descriptor is held for ever by a client that has ended, even when the
\* engine was out of descriptors while the client was alive.
FdsAreFreed ==
    \A c \in Clients : Ended(c) ~> (\A fd \in Fds : file[fd] # c)

(* What the documentation says.                                            *)

\* ifconfigctl(8), "wireless name: Connection to wireless network.": a usewlan
\* command that ends successfully has its request forwarded to the parent, unless
\* the engine failed on that connection.
WirelessIsForwarded ==
    \A c \in Clients :
        program[c].cmd = "usewlan" /\ client[c] = "closed" ~> Out(c) # << >> \/ c \in dropped
==============================================================================
