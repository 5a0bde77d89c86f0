# A TLA+ model of ifconfigd

`ifconfigd(8)` is a small privilege-separated daemon that connects wired and
wireless networks; `ifconfigctl(8)` sends it requests over a unix socket. This
directory models its processes, the path a request takes through them and the
way they start, end and notice each other's end. TLC checks the models on small
instances, TLAPS proves the most important results for every instance.

## The system

    ifconfigctl --(unix socket)--> engine --(socketpair)--> parent --> dhclient, ioctls
      client        control.c      ifconfigde.c             ifconfigd.c

| Part | State | Operations | Module |
|---|---|---|---|
| parent, `ifconfigd/ifconfigd.c` | `ifconfigde_pid`, pipe end 0, pending signals, read buffer, configuration | start, signal handlers, `main_dispatch_ifconfigde`, `use_ethernet`, `monitor`, `ifconfigd_shutdown` | `Ifconfigd` |
| engine, `ifconfigd/ifconfigde.c` | pipe end 1, write queue and its events | start and privilege drop, `ifconfigd_dispatch_parent`, compose for the parent | `Ifconfigd` |
| control socket, `ifconfigd/control.c` | listening socket, list of `ctl_conn`, read buffers | `control_accept`, `control_dispatch_imsg`, `control_close` | `Control` |
| client, `ifconfigctl/ifconfigctl.c` | unsent messages | connect, write, close | `Control` |
| imsg library, `usr/src/lib/libutil` | byte buffers and queues | compose, write, drain, read, get | inside the two, by message |
| libevent | registered and active events | dispatch, loopexit | how actions are enabled, and fairness |
| configuration parser, `ifconfigd/parse.y` | open files, macros, sections, the global `staticonfig` | `parse_config`, `pushfile`, `popfile`, one action per kind of rule | `Parse` |
| monitor engine, `patches/monitor_engine` (not in the build) | a third process, a second socketpair, `iev_monitore` | `monitore`, `monitore_dispatch_imsg`, `main_dispatch_monitore` | `Monitore` |
| wireless scan and connect, in the monitor engine | interface flags, scan result, loop position | `monitor`, `monitor_wireless`, `ieee80211_scan`, `connect_wireless` | `Monitor` |

What is hard about it:

- two processes that learn of each other's end only by end-of-file on an
  inherited socketpair and by `SIGCHLD`, which is lost before `signal_add`;
- a nonblocking pipe that fills up while the parent is busy in a handler;
- clients that connect, write and close before the engine accepts;
- connections looked up by descriptor number, which the kernel reuses;
- handlers that do not return: `execle` in the parent, crashes on undefined
  pointers, `fatal`, and `monitor()` of the monitor engine while nothing is in range;
- with the patch, three processes that each inherit all ends of both pipes;
- scan results that are used after a sleep, entries that share an interface, and a
  `break` that leaves a list half done;
- options written through a global that outlives the block it was set for, and
  error counts that must survive the files they belong to.

PROJECT.json lists each of these with its line under `hazards`.

## Modules

### Ifconfigd

The parent and the engine, interleaved; one action per handler or startup step.
`parent` and `engine` say where each process is: `start`, `forked`, `setup`,
`loop` for the parent's `main()`, then `dispatch`, `use`, `monitor` inside
`main_dispatch_ifconfigde` (a handler that may be left in the middle by `execle`
or a crash), `leaving` after `event_loopexit`, `shutdown` in the wait loop.
`pfds` and `efds` are the ends of the pipe each process holds: `fork` copies them
and end-of-file is a statement about both sets.

The path of a request is four sequences: `wq` (the engine's `msgbuf`), `pipe` (the
socket buffer), `rbuf` (the parent's imsg read buffer), `handled`. A write moves any
number of messages that fits, a read takes all there is (the imsg read buffer is
larger than the socket buffer). A message counts as in the pipe when its last byte
is; that a message may be split across reads is modelled in `Control`.

| Action | Code |
|---|---|
| `StartEngine`, `AddSignals`, `AddPipeEvent` | `main`, ifconfigd.c:341-430 |
| `SigHandler(s)` | `ifconfigd_sig_handler` with `check_child`; `SIGTERM` and `SIGINT` fall through |
| `LeaveLoop`, `WaitChild` | end of `main`, `ifconfigd_shutdown` |
| `MainDispatch`, `ImsgGet`, `DispatchEnd` | `main_dispatch_ifconfigde`: read, loop, re-arm or loopexit |
| `UseEthernet` | case `IMSG_USE_ETHERNET` with `use_ethernet`, `connect_ethernet` |
| `Monitor` | `monitor` with `monitor_ethernet` |
| `EngineStartup`, `EngineListen` | `ifconfigde`, `control_init`, `control_listen` |
| `ComposeParent(m)` | `ifconfigde_imsg_compose_parent`, `imsg_compose_event` |
| `DispatchWrite`, `DispatchEof`, `DispatchBroken` | `ifconfigd_dispatch_parent` |
| `EngineExit` | `exit(0)` after `event_dispatch` |
| `Signal(s)`, `ParentKilled`, `EngineKilled` | the environment |

Names of networks are split at 8 bytes, because the engine forwards
`sizeof(imsg.data)` bytes: a short name arrives whole, of a long one the head
arrives and the tail is what the heap holds. Undefined behaviour is a free choice:
the uninitialised `ifstat_n`, the interface name used as a pointer and the
argument list of `execle` without its terminator may crash, connect or do nothing.
A composition that fails for lack of memory drops the request before it
reaches `wq`: it is the request that was never composed.

### Relay

What the path promises: requests are delivered one at a time, each once, in the
order they were submitted; a submitted request may stay undelivered when a process
ends. `Ifconfigd` implements it with `submitted <- fwd, delivered <- handled`.

### Control

The control socket and its clients. A client runs `ifconfigctl` with one keyword, or
is another program that writes any of the given message sequences. Messages travel
as fragments (header, payload), so a read may end inside a message. The kernel's
listen queue, its lowest-free-descriptor rule and descriptor exhaustion are part of
the model: without a free descriptor `accept` fails and leaves the connection
queued. `DispatchNoMemory` is the failure of `imsg_read` or `imsg_get`. The engine
never answers a client: `control_imsg_relay` has no caller. The end of the engine is
not in this module. `Filters` defines what is kept of a sequence, for the loop over
`imsg_get` and its switch, as a recursive function of a sequence and a set: the form that
`FilterProofs` can reason about.

### Monitore

The daemon with the patch: parent, engine, monitor engine. Both socketpairs are made
before the first `fork`, so `fds` gives each process its set of the four ends and
end-of-file is, again, a statement about everybody's. The engine is reduced to its
life and its requests (`Ifconfigd` has the rest); the messages to the monitor engine
carry nothing, so queue, pipe and read buffer are numbers. `monitor()` is a state that
may be left (connected, replaced by dhclient, ended) or never.

| Action | Code |
|---|---|
| `ForkEngine`, `ForkMonitore`, `AddSignals`, `AddPipeEvents` | patched `main`; the last composes the first message |
| `SigHandler`, `LeaveLoop`, `WaitChild` | as in `Ifconfigd`: they know the engine only |
| `MainDispatchIfconfigde`, `MainDispatchMonitore`, `MainEof` | the parent's two handlers |
| `MonitoreStartup`, `MonitoreRead`, `MonitoreGet`, `MonitorReturns`, `MonitoreEof` | `monitore`, `monitore_dispatch_imsg` |
| `EngineStartup`, `EngineForward`, `EngineEof` | the engine |
| `Signal`, `ParentKilled`, `EngineKilled`, `MonitoreKilled` | the environment |

### Monitor

What the monitor engine does inside `monitor()`. `net` and `pos` are the variables of
the two list loops, `pc` the step of the body: up, scan, compare, connect or down.
`air` is the set of stations in range and changes at any time, also between the scan
and the use of its result. `scanned` and `verdict` are history. The pointer comparison
of a configured bssid always fails and a missing nwid reaches `strcmp`; both are
modelled as such. ioctls are outcomes.

### Parse

`parse_config` line by line: a file is a sequence of lines, a line is what the grammar
makes of it, and `ctx` stands for yacc's stack. `files` is the list of open files with
their error counts; `sections` and `statics` are the objects allocated so far, `section`
stands for the globals `ether` and `wlan`. `meant` records what was written in each
section, independently of the pointers the rules go through. A section without braces
is its opening line followed by its end; `wpa` and `wep` blocks are lines of the section.
Error recovery (`grammar error '\n'`) gives up all open blocks and leaves the globals as
they are. An included file must be one that nobody else may read (`Exposed`); the main file
is not looked at in this way.

### MCIfconfigd, MCControl, MCMonitor, MCParse

Configurations, requests, client programs, stations and file contents for TLC. Definitions called faulty
variants, next to the definition they vary, are the mistakes the properties were
tried against.

## Runs

| Run | Checks | Bounds |
|---|---|---|
| `life` | the twelve properties of the two processes and the pipe | a pipe of 1, 3 requests, so that queue, pipe and read buffer are occupied at once and the pipe is full; no ethernet or one with dhcp |
| `use` | `ShortNameHonoured` | 4 lists with duplicates, shared heads, dhcp and static, interfaces named and not; 2 requests |
| `control` | `OneConnPerFd`, `ForwardedOnce` | 2 clients, 2 descriptors, multi-message programs with a bad header and wrong sizes |
| `control_live` | types, `ClosedIsServed`, `FdsAreFreed` | 3 clients, 1 descriptor, a listen queue of 2: exhaustion and refused connections happen |
| `monitore_life` | the seven properties of the three processes | pipes of 2, 3 messages: queue, pipe and read buffer hold messages at once and the pipe is full |
| `monitor` | types, `IdleIsDown`, `NoneSkipped`, `InRangeConnects` | 4 configurations with shared interfaces, two networks, a bssid, no nwid, ethernets; 4 stations on both sides of the signal bound and of the channel |
| `parse` | the six properties of the parser | every block of 4 lines after an ethernet or wireless was opened; every pair of files of up to 2 lines that may include each other; 3 files open at once |
| `truncated`, `fallthrough`, `dhclient`, `wireless`, `monitore_orphan` | one sentence of the manual or of a comment each, violated | smallest that shows it |

What the passing runs show:

- `NothingLost`, `ImplementsRelay`: the imsg path loses, repeats and reorders nothing.
- `QueueIsArmed`, `Delivered`: a full pipe never leaves a request stuck; every
  request is taken unless a process ends or the parent becomes dhclient.
- `LossIsSeen`, `ParentFollows`: a lost `SIGCHLD` does no harm, end-of-file replaces it.
- `EngineFollows`: the engine ends after the parent, at whatever point that ended.
- `ShutdownAfterLoss`, `KillHitsChild`, `ExitIsClean`: the parent enters its wait
  loop only when the engine has ended, never signals a pid it has waited for and
  leaves no child behind. The first also says that `SIGTERM` alone does not stop the
  daemon: the handler only looks for an ended child.
- `EofDrains`: a parent that leaves its loop at end-of-file has taken everything that
  reached the pipe. A `SIGCHLD` handled before the pipe event shuts it down without this.
- `ShortNameHonoured`: a name that arrives whole connects that network.
- `OneConnPerFd`, `ForwardedOnce`, `ClosedIsServed`, `FdsAreFreed`: the control socket
  keeps its list and the kernel's descriptors in step, and serves clients that are
  already gone.
- `MessagesKept`: requests for the monitor engine wait, however long `monitor()` keeps it
  from reading, and each leads to one call.
- `LeavesAlone`, `ExitIsClean` of `Monitore`: because both children hold the far ends of
  both pipes, end-of-file reaches the parent only after the last of them, so the wait
  loop it enters then does not block. By `SIGCHLD` it is entered as soon as the engine
  is lost, and then it does wait for a monitor engine that nobody ends: only the loss of
  both (`ParentFollowsBoth`), in whatever order and also in the middle of that wait, is sure
  to end the parent. The loss of the monitor engine
  alone is not noticed at all, and never costs a working engine (`ShutdownAfterLoss`).
- `EngineFollowsBoth`: the engine ends once both others have.
- `IdleIsDown`, `NoneSkipped`: a pass leaves no interface up for nothing and passes over
  an entry only after a mismatch earlier in its network.
- `InRangeConnects`: a station that fits and stays in range is noticed, at the exact
  bound of `minsignal` too, unless the scans for it keep failing. A failed scan counts as
  one that misses a station only when a station is there: scans that find nothing because
  nothing is there, and failures in the scans of other entries, may go on for ever, so the
  property also speaks of entries behind ones that are out of range. `InRange` asks that no
  entry before it in its network has a station: after a mismatch there the break skips it,
  for as long as that station stays, and leaves the interface up.
- `ErrorsKept`: an error at any depth of includes makes `parse_config` return NULL.
- `EthernetOptions`, `OwnOptions`, `NeverNull`: the global `staticonfig` never carries an
  option into another section and is never NULL when written through. For a wireless
  only `OwnOptions` holds: `dhcp no` allocates new options there and loses the ones
  written before it (parse.y:350-354).
- `Terminates`: files that include each other end when no descriptor is left.

What the violated ones show: a network name of 8 bytes or more does not reach the
parent whole (control.c:228); a use request also runs the monitor, which may
connect another network (ifconfigd.c:478, no `break`); with dhcp the parent becomes
dhclient and requests are no longer taken (ifconfigd.c:894); `usewlan` sends nothing
(ifconfigctl.c:119); with the patch, each child keeps the parent's end of the other
child's pipe, so neither sees that the parent has ended (monitore.c:71).

Met while modelling, without a run of their own: the synopsis of `ifconfigd.8` has
`-n`, which `getopt` does not accept; the macro example of `ifconfigd.conf.5` uses `=`,
which the rule `varset` does not;
`update_interval` is parsed, but the shipped `monitor()` returns before it sleeps, so the
network is checked on request only; priorities are parsed and never read; a wireless without `channel` matches no station.

### Fairness

Weak fairness of every step of the parent and the engine: both are single loops
over libevent, which runs each active event before it polls again, so an event that
stays active is handled. `wait` and `exit` return. Nothing is assumed of signals,
requests or kills. In `Control` an `ifconfigctl` that has connected goes on to write
and close, since it waits for nobody; connecting and other programs are not fair.
`DispatchNoMemory` is not fair. In `Monitore` the steps of the three programs are fair,
`MonitorReturns` is not: `monitor()` loops until it connects. In `Monitor` and `Parse` the
code is one sequential loop, so it keeps stepping; failing scans, the stations and new
messages are left free.

## Proofs

`IfconfigdProofs` proves, for every configuration, set of requests, pipe size and
bound on requests that satisfy `ConstantsAssumption`, the invariants of the runs
`life` and `use`, the two action properties of the shutdown and the refinement of
`Relay`. The argument is one inductive invariant,

    IInv == TypeOK /\ CurrentOK /\ Stages /\ Ends /\ Queue /\ Emptied /\ NothingLost /\ ShortNameHonoured

- `CurrentOK`: inside a handler the current message is a request; needed for the type
  of what `connect_ethernet` records.
- `Stages`: what each state of the parent says of the engine and of
  `ifconfigde_pid`. `ExitIsClean` and the action properties need it: a parent that
  read end-of-file has lost the engine, and only the shutdown waits for it.
- `Ends`: who holds which end. It is why end-of-file means that the engine has ended,
  and with `Stages` gives `LossIsSeen`.
- `Queue`: `QueueIsArmed`, and an empty queue before the event loop.
- `Emptied`: a parent that read end-of-file has an empty pipe, and an empty read buffer
  once it leaves its loop; with `NothingLost` this is `EofDrains`.
- `NothingLost` is inductive given the types; lemmas `RowAppend`, `RowRead`, `RowGet` and
  `RowWrite` say that each step moves messages along the row without changing it,
  and `RowNext` that the head of the read buffer is the next to deliver.

The other components' proofs are built the same way, each for every value of the
constants its `ASSUME` admits:

- `FilterProofs`, the facts about `Filter` the control socket needs: its type and, from
  `FilterConcat`, how it goes through a concatenation. They need induction along a
  sequence; the library's induction rule takes an operator, so `NatInd` states it for a
  set of numbers and is proved from the least number outside it. `Cat` is concatenation
  behind a name, with the laws that are used.
- `ControlProofs`, `IInv == TypeOK /\ ListOK`. The work for `OneConnPerFd` is in what removing
  an element does to the indices of the others (`control_close`) and in that `accept`
  returns a descriptor that no connection has. `TypeOK` needs that a read buffer only ever
  holds the beginning of a message (`Partial`): this is what `imsg_get` leaves.
- `ForwardProofs`, `FInv == IInv /\ OnePlace /\ Accounted`, which gives `ForwardedOnce`.
  `OnePlace`: a client is in one place, queued once, behind one descriptor or given up, so
  that a reused descriptor never mixes two clients. `Accounted`: what was forwarded for a
  client, followed by what its socket and its unsent messages would still give, is what
  its whole stream gives; of a client that was dropped a prefix of it was forwarded. The
  read buffer is not in the account: it holds no complete message and adds nothing. That
  a read keeps the balance is `ForwardsPieces`: a stream read in pieces, cut anywhere,
  gives what it gives at once, up to the first bad header.
- `MonitoreProofs`, `IInv == TypeOK /\ Stages /\ FdsOK /\ MessagesKept`. `FdsOK` says that a
  running child holds the far ends of both pipes: it is why end-of-file at the parent
  means that both children have ended, and `Stages` carries this through the shutdown.
- `MonitorProofs`, `IInv == TypeOK /\ Shape /\ Lowered /\ Covered`. `Lowered` excepts the
  interface in hand from `IdleIsDown`; `Covered` says that everything before the loop
  variables is settled, which at the end of the lists is `NoneSkipped`. Apart from it,
  `RoundingNeverDecides` shows that the comparison in percent, with its integer division,
  is the one on the scale of `nr_rssi`, and `InRangeFits` that the premise of
  `InRangeConnects` is what `monitor_wireless` tests.
- `ParseProofs`, `IInv == TypeOK /\ Counted /\ NeverNull /\ Pointers /\ Current /\
  EthernetOptions /\ OwnOptions`. `Counted`: an error was reported exactly if some open file
  counts one, which `popfile` keeps. `Current`: within a section `staticonfig` is not NULL,
  is shared with no other section and holds what was written.

Only model-checked: the liveness properties (`EngineFollows`, `ParentFollows`, `Delivered`,
`ClosedIsServed`, `FdsAreFreed`, `ParentFollowsBoth`, `EngineFollowsBoth`, `InRangeConnects`,
`Terminates`), which rest on fairness and `ENABLED`. Every other property of a passing run is
also a theorem.

## Not modelled

- The characters of the configuration: tokens, quoting, comments, keyword lookup, and
  which of yacc's repeated error messages are suppressed (the counts that matter are
  zero or not). Fields that a rule only stores are one kind of line.
- The socket's path: an old path is unlinked at start and left at exit, and the code does
  nothing to keep two instances apart.
- The byte buffers of imsg: messages (and, in `Control`, headers and payloads) are the
  grain.
- `ifconfig_gate` and `active_check` beyond their outcomes: ioctls on interfaces.
- The wireless functions of `ifconfigd.c`: unreachable, since its `monitor()` returns
  before them; their copies in the patch are modelled instead. Interface names cut to
  the size of a pointer by `strlcpy` are not told apart.
- `network.c` (not compiled), `ifconfigctl/parse.c` (generated, unused), the text that
  is logged.
- The vendored OpenBSD tree (kernel, libc, userland: nearly all lines of the repository).
  It is not the daemon's code; of it only libutil's imsg is translated, and the kernel's
  sockets, descriptors and processes appear as the models' environment.

## Plan

Done: `Ifconfigd`, `Relay`, `Control`, `Monitore`, `Monitor`, `Parse`, their runs and the
proofs above. Left, in this order: `Control` and `Ifconfigd` composed, with the socket's
path and restarts; imsg's byte buffers shown to implement the message sequences.
