# Formal models of the Linux-IrDA tools and the IBM 31T1502 driver

This directory is a verification development for the repository beside it: the
`irda-utils-0.9.18` tree, which holds the IrDA user programs and the PCMCIA
driver `ircard_cs`. It consists of TLA+ modules translated from the C sources,
TLC configurations that check them on small instances, and TLAPS proofs.
`PROJECT.json` lists the components, the runs, the mutants (deliberate bugs
each property must detect), the source lines each definition stands for, the
hazards and the theorems. Paths below are relative to
`src/irda-utils-0.9.18/`.

    tlc -workers 2 -config X.cfg M      # a run (X.cfg and M from PROJECT.json)
    tlapm M.tla                         # the proofs: M one of IrcardTxProofs, IrcardRegsProofs,
                                        # IrcardLinkProofs, IrattachProofs, IrdadumpProofs,
                                        # IrdasprayProofs, UserProgramProofs, IrdaSetupProofs

## 1. Inventory

| Component | State | Operations | Interacts with |
|---|---|---|---|
| **ircard_cs: FIR data path** (`pcmcia/ircard_cs.c` 640-1209) | `tx_q` and shared memory, `tbusy`, baud rate, chip enables | hard_xmit, dma_write, xmit_complete, receive, receive_complete, interrupt, change_speed | IrLAP above, chip below, `irport` at SIR speed, Card Services events |
| **ircard_cs: registers** (same, `ircard_cs.h`) | selected bank, MCR enables, transceiver mode | every routine that touches the chip | called by all of the above |
| **ircard_cs: link life cycle** (78-600, 1227-1367) | `dev_list`, link state flags, held resources, release timer | attach, config, release, detach, event, net_open, net_close, cleanup_module | Card Services, Driver Services, kernel timers |
| **irattach** (`irattach/`) | globals `device`, `devfd`, `initdisc`, `initterm`, the pid file, the tty, interfaces | set-up steps, fork per interface, signal handler `cleanup` | other instances, kernel |
| dongle_attach | none | one ioctl | kernel |
| **irdadump: network buffer** (`irdadump/netbuf.c`) | block, data, tail, end, len | put, push, pull, trim, reserve, recycle, realloc | capture and decoders |
| **irdadump: protocol tracker** (`irdadump/irlap.c`, `irlmp.c`) | table of 15 connections, entry of the last frame, last IAS lookup | find/find_free/garbage connection, parse_irlmp, parse_i_frame, parse_iriap | fed by the capture loop; overhears two stations |
| irdadump: capture, front end, OBEX and IrCOMM printers | capture file | format and print | tracker |
| **irkbd** (`tekram/irkbd.c`) | `state`, `connected`, timer, frame buffer | main loop, SIGIO handler, SIGALRM handler | IR-660 docking station over IrTTP |
| **irpsion5** (`psion/irpsion5.c`) | transfer state of one file | discover, sendfile, handle_client, receivefile | the peer, the file system |
| **irdaspray** (`irsockets/irdaspray.c`) | sums of bytes, sockets, forked processes | discover, connect, transmit, receive, server and its children | the peer, the discovery of devices |
| other socket examples (`irsockets/`) | none | one connection each | the peer |
| irdaping, irnetd | sequence number | one loop each | the peer, kernel |
| **smcinit** (`smcinit/`: smcinit, tosh1800-smcinit, tosh2450-smcinit) | none of their own; registers of the 47N227 and of the PCI bridge | probe, program, decode ports | the chip, the bridge, the serial driver |
| **findchip** (`findchip/`) | none of its own; the same configuration ports | probes of SMC, NSC and Winbond chips | the chips |
| packaging, `.pc` backups, init scripts | none | build | - |

Behaviours that are hard, by component:

* *FIR data path.* Three contexts share `tx_q`: the stack (bottom half), the
  interrupt handler and card events. `free`, `tail` and `ptr` never wrap; only
  `ircard_receive` resets them. Whether the interrupt turns the half-duplex
  transceiver around depends on the device queue being empty, while a frame
  taken from it may be waiting for the lock. The handler tests the baud rate
  before it locks. A card that is pulled out reads as all ones, a transmit
  condition.
* *Registers.* Four banks behind one address range; some helpers clear the
  enable bits, some save the bank, some do not.
* *Link.* Any request of `ircard_config` may fail; the release timer may run
  after another insertion, a detach or an unload.
* *irattach.* A signal at any step, nested in the handler, which never returns;
  several processes share interfaces and one pid file.
* *netbuf.* Four pointers into a block that `realloc` moves.
* *irkbd.* Two asynchronous signal handlers that interrupt each other, a
  blocking `recv` inside one, no retry timer in two of the states, coalesced
  signals.
* *irpsion5.* The size is announced before the file is read; the end of the
  transfer is only told from a lost link or a dead server by what the client
  has seen before; reads come in pieces of any size.

* *irdadump's tracker.* It guesses the protocol of a frame from lookups it has
  overheard: one `last_ias` for both stations, a table searched by selectors
  only, frames that come twice, links that end without a frame saying so.
* *irdaspray.* An echo goes round four bounded queues; with `-t` up to six
  processes share sockets, `close()` and `wait()`; the device may leave at any
  point.
* *smcinit, findchip.* A chip has a configuration state that outlives the tool.
  Error returns and kills leave it in the middle, and the next tool, perhaps
  another one, starts from there; probes write the keys of one chip family to
  ports where a chip of another may be.

What makes each component correct is stated as properties in section 3; the
hazards, each at its line, with the properties that watch over it, are in
`PROJECT.json`.

## 2. Plan

The most important behaviour, the FIR data path, came first.

1. Done, the driver: `IrcardTx` with its abstract specification `TxFifo`,
   `IrcardRegs`, `IrcardLink`; inductive invariants of all three proved, and
   the step simulation of `IrcardTx` against `TxFifo`.
2. Done, the user programs with state: `Irattach`, `NetBuf` with its abstract
   `Message`, `Irkbd`, `IrPsion5`; inductive invariants of `Irattach`, `Irkbd`
   and `IrPsion5`, safety and refinement of `NetBuf` proved.
3. Done, what meets across components: `IrdaTracker` (irdadump composed with the
   two stations it hears), `Irdaspray` (client and server), and `SuperIo` with
   `SmcInit` and `Findchip`, composed in `IrdaSetup`; inductive invariants of all
   three proved.
4. Left: the receive ring of `ircard_cs` (wrap-around, lengths from shared
   memory).

New modules follow the conventions here: constants with a named ASSUME, one
action per operation, invariants as conjunctions of named parts, no RECURSIVE
operator, faulty variants next to the definition they are variants of. Two proof
modules each extend two models (`IrdadumpProofs`: `NetBuf` and `IrdaTracker`;
`UserProgramProofs`: `IrPsion5` and `Irkbd`); names both would have carry a prefix
(`BufInit`, `KbdNext`).

## 3. The modules

### IrcardTx, TxFifo, MCIrcardTx, IrcardTxProofs

`IrcardTx` models transmission. Correspondence:

| Module | Code |
|---|---|
| `txqueue` | the device's qdisc queue, which `txqueue_empty()` tests |
| `xmit`, `skb` | where `ircard_hard_xmit` is: has tested `tbusy`, has registered |
| `tx_q` | `self->tx_q`, field by field |
| `irq`, `bogus` | where `ircard_interrupt` is, `boguscount` |
| `mcr`, `air`, `cond` | chip: enables, region being sent, latched conditions |
| `shm` | transmit part of the shared memory; each cell names its frame |
| `card` | up, down (physical reset or suspend), gone, removed |

Sections under `idev->lock` are one step; the interrupt handler is several,
because it reads the baud rate before the lock (`IrqEnter`, `IrqLock`) and loops
(`IrqTx`, `IrqRx`, `IrqExit`). The chip and the removal of the card interleave
everywhere. Bottom halves are serialised by the kernel of this driver's time, so
`hard_xmit` does not overlap a speed change or a card event.

Environment assumptions, all visible in the module: IrLAP sends at most `Window`
frames per turn and starts a turn after the previous one is out (`Quiet`,
`StartTurn`); without a card its final-bit timer sends one frame per expiry
(`Poll`, bounded by what the queue takes); with `QuietSpeedChange` a speed
change happens only when the queue is out. The driver tries to arrange the last
by sleeping 60 ms in `ircard_wait_until_sent`; how long a turn really takes is
not modelled, so this is an assumption and not a result.

Properties: `QueueInBounds` (neither `queue[]` nor shared memory overrun),
`NoStuckFrame` (a registered frame is on the air or its completion is pending),
`HalfDuplex`, `ListensWhenQuiet` (the `txqueue_empty` test never leaves the
receiver off), `InterruptsOn`; and the refinement `FifoSpec`
of `TxFifo`: frames reach the air in order, unaltered, at most once. The
mapping takes the abstract queue from the *contents of shared memory* for the
registered entries, so an overwritten entry breaks it. Under fairness:
`FifoFairSpec`, `DeviceQueueDrains`. `MCIrcardTx` gives the frames
of the instances and their lengths.

Fairness: the chip finishes what it sends, a raised interrupt is served, the
kernel runs the device queue. The last is strong fairness: `hard_xmit` may find
the lock held again and again by a busy receiver, though never for longer than
the handler's iteration limit.

Runs. `tx`: two frames of lengths 1 and 2, a window of 2 in a queue of 3, room
for six units: long enough for one turn to be in the queue while the next is
announced, short enough for an overrun to be one step away; speeds on both sides
of 115200.
`BogusMax = 0` bounds the loop to two iterations. `tx_live`: one frame, a window
of 3, and one iteration more; liveness needs no distinct frames.

### IrcardRegs, IrcardRegsProofs

Every routine is a program of register operations with its callees inlined, run
one operation at a time; `prog` is what is left of it and `saved` its local
bank variables. A register access reaches its register only in the right bank.
`AccessInBank` and `BankRestored` say the bank discipline holds along every
sequence of routines; `InterruptsSurvive` that the enable bits come out right although
`__switch_bank` clears them; `TransceiverFollowsSpeed` that the SIR/FIR edge
tests agree with the speed after any sequence of changes. `AccessInBank` names
two exceptions, in which the code does reach the wrong bank:

* `ircard_change_speed` calls `ircard_receive` with bank 2 selected, and the two
  RESET commands there go to bank 2;
* after a receive event the handler reads its next status with bank 1 selected.

`IrcardTx` abstracts from the second: it takes what the handler reads after a
receive event to show the same conditions.

`MaxEvents = 12` is the code's own limit, and the five speeds are one of each
class the code distinguishes. `RatesAssumption`: no rate lies between 1152000 and
4000000. The driver offers IrLAP none (`pcmcia/ircard_cs.c:465-466`), and the two
tests of `ircard_change_speed` draw the line between SIR and FIR modes of the
transceiver at different places of that gap.

### IrcardLink

One instance from attach to free. `state` holds the `DEV_` flags, `held` the
Card Services resources, `config` the step of `ircard_config`. Every request may
fail, at every step; the card may be pulled out between them. External rules: a
client's events are delivered one at a time, a request fails without a card, and
a new insertion is announced only after the shutdown delay, which is longer than
the release timer. `NoLeak`, `FreedIsForgotten`: resources are held exactly when
the configuration flag says so, and freed memory is referred to by nobody.
`RemovedIsReleased`, `CleanupEnds`: the resources of a removed card are given
back, and the loop of `cleanup_module` ends. Fairness: timers run, Card Services
reports a removal, a configuration ends (its table is finite), the unload loop
goes on. `MaxOpens = 2` allows two configurations of one instance, which is what
a stale flag or a second insertion needs. The run `link_stale` shows that a
postponed detach is never carried out.

Left out: several instances (they share only `dev_list`), and a release timer
still pending when the module is gone, which `FreedIsForgotten` excepts by name
(`timer => unloading`).

### Irattach

Instances started on a tty, an interface, or a driver module. Each set-up step
is an action, each may fail, and each of the three signals may arrive between
any two steps, in the handler too: `cleanup()` starts over, on what the first
run left behind. `TtyRestored` and `NothingLeftUp` say that cleanup undoes
exactly what was done; `OneManager` that forked children share out the
interfaces; `CleanupEnds` that no failure inside cleanup leads back into it. Two
instances suffice for parent and child or two strangers, with two module
interfaces and one other. Fairness: a process in cleanup goes on. Two weaknesses
are reachable in the model and stated as no property, because nothing promises
the opposite: an instance that ends removes the pid file even when another one
has written it since, and takes an interface down that was up before it came.

Left out: file status flags, TIOCEXCL, the sysctl commands, sleeps, messages.
Signals before the handlers are installed kill the process (`Killed`).

### Message, NetBuf, IrdadumpProofs

`NetBuf` follows the four pointers, the block and its bytes through every call.
`Message` is what callers rely on: a byte sequence changed at its two ends only.
`Picture` is the drawing in `netbuf.h` as an invariant; `IsMessage` the
refinement. Blocks up to 6 bytes of two values and chunks of up to 3 give every
relation of headroom, length and tailroom to a chunk. A failing
`realloc` is left out: `g_netbuf_put` has then already advanced `tail` and
`len`, and the program does not look at the NULL it returns. The precondition of `g_netbuf_reserve` (empty message, room) is what its callers
observe; the function does not test it.

### Irkbd, UserProgramProofs

`main` and two signal handlers, each blocked while it runs and each able to
interrupt the other: `stack` is the nesting. The socket is a blocking stream:
one `recv` takes all that has arrived and only its first frame is parsed. Frames
are abstracted to what they make the handler do. `KeepsPolling`: on a live
session there is always a timer, an alarm, a command, an answer or a handler that
will produce one; `GetsToPolling` and `Reconnects` are the liveness. Two
weaknesses of the program bound them, and the properties name them:

* when a late SIGIO interrupts the SIGALRM handler and there is nothing to
  receive, `recv` blocks and no alarm can be delivered (`BlockedInAlarm`);
* a disconnect that is signalled before `connected` is set, or together with the
  last frame, is not noticed; hence the premise of `Reconnects`, and
  CHECK_DEADLOCK FALSE.

`MaxPending = 3` bounds commands and answers on their way; an overtaking pair
needs two. Fairness: the kernel delivers signals and runs the process, the timer
expires, the station answers; strong for main and the SIGIO handler, because
alarms (15 ms apart or more) may interrupt them again and again without keeping
them from getting on.

### IrPsion5, UserProgramProofs

`Client` processes run `sendfile`, one server runs `receivefile` and
`handle_client`, over external stream sockets.

| Module | Code |
|---|---|
| `cpc`, `size`, `off` | where `sendfile` is, `s.st_size`, `cnt` |
| `spc`, `mode`, `cfd` | where the server is, one file or many, the connection it serves |
| `stored`, `done` | what the server wrote; clients for which `handle_client` returned 0 |
| `file`, `changed` | the file on disk; whether somebody changed it meanwhile |
| `conn`, `toServer`, `ack` | the connection, its stream to the server, "ACK Y" under way |

Every `exit(1)` is a step to "failed" or "dead" that closes the socket; what is
under way when a connection ends may be lost. Reads take any part of what has
arrived. `ReceivedIsWhole`: when `handle_client` returns 0 the server has the
client's file unit for unit, unless the file was changed. `SentIsReceived`: a
client that reports success has not closed under the server; its named
exceptions are that a lost link and a server that gave up end the last `read`
like a normal close does. `SenderEnds`: a connected client ends, unless the file
became shorter than the size it announced: then the client waits for the server
to close and the server for the rest. Fairness: both programs run on (`Running`,
`Serving`); failing disks and lost links are possible, never due.

Bounds: two clients, so that a batch server serves one after the other;
`BufLen = 2` and files of up to `MaxLen = 3` units, that is empty, shorter than
a buffer, an exact multiple (one more `fread` that returns 0) and longer;
`Room = 2` makes writes block. CHECK_DEADLOCK FALSE: programs end, and see
`SenderEnds`. Left out: "DATA" transfers, "ACK N" (this server never sends it),
file names, modes and dates, the choice of the peer.

### IrdaTracker, MCIrdaTracker, IrdadumpProofs

irdadump prints a frame as OBEX, IrCOMM or IrNET only because it has overheard
the IAS lookup before the connection. `IrdaTracker` composes its table with the
two stations it listens to.

| Module | Code |
|---|---|
| `conn`, `conn_cache`, `last_ias` | the globals of `irlap.c` and `irlmp.c` of those names |
| `find_connection`, `Free`, `garbage_connection` | the functions; `Free` is `find_free_connection` |
| `connect_cmd`, `disconnect`, `lookup` | the cases of `parse_irlmp` |
| `parse_iriap_command`, `parse_iriap_response` | a query and its answer |
| `lap`, `open`, `asking` | external: the link, its connections, lookups not answered |
| `asked`, `lost`, `orphans`, `sure` | history the properties need |

One action puts one frame on the air, twice if IrLAP sends it again, and
irdadump parses it: its capture loop handles a frame before it reads the next.
`DecodedAsLookedUp`: a connection tracked under its own lookup is decoded as what
was looked up, however the two sides interleave. `ZombiesEndWithLink` and
`EntryPerConnection`: entries end with their link and with their connection. The
comments of the properties name what the code does not get right: two entries
with the same selectors ("twins", after a CONNECT sent again, or when a dead
entry still has the selectors), of which a DISCONNECT ends one; links that end
without a DISC; a `last_ias` in which the lookups of two stations have mixed.

Bounds: 3 entries, so that the table runs full; two links, two client selectors
(symmetric), two services whose selectors are swapped between the sides, so that
a selector of one side means another service on the other; at most three
connections opened (`MaxConnects`), which lets a retransmitted CONNECT, a
connection opened again and a foreign one meet. No liveness: irdadump owes
nobody an answer.

Left out: frame numbers, link parameters, the text. The counters of lost and
repeated frames never run: `config_print_lost_frames` is 0 (`irdadump.c:53`) and
no option sets it.

### Irdaspray, MCIrdaspray, IrdasprayProofs

Client and server over IrTTP sockets, with the devices, the user and the
connection set-up external.

| Module | Code |
|---|---|
| `phase` | where the main process of a client is: discovery, connecting, `ir_client` |
| `tx`, `rx` | the loops `irdaspray_transmit` and `irdaspray_receive`, one process each with echo |
| `sent`, `txTotal`, `received`, `rxTotal` | loop counters and the sums that are printed |
| `child` | the server's child and the frame between its `recv` and `send` |
| `conn` | external: each socket with a bounded queue per direction |
| `arrived` | history: the frames that came to the end of their way |

`FramesConserved`: no frame is lost, doubled, reordered or given to the other
connection. `TotalsAgree`: the sums printed are the bytes transferred unless the
connection was lost under the program. `TransferEnds`: a transfer ends with all
its processes gone, also when both directions are full or the device leaves. It
rests on two safety properties: `NoCircularWait`, until then one of its processes
can go on (`CanMove` spells out the guards), and `WorkLessens`, each of their steps
lowers `Work`, the number of steps left, and no other step raises it.

Fairness: each process runs (weak fairness per process); nothing is due from
devices, the user or the connection. Bounds: a device with the server and one
without; one instance sends 4 frames, more than the two queues of one frame each
and the child hold, so that everybody blocks once; two instances (`-t`) send 2
each; every choice of echo and `-t`. CHECK_DEADLOCK is on: a device can always
come or leave.

Simplified: the sends (or receives) that fail after the end of a connection are
one step, with -1 added to the sum ("errors in it"). Left out: frame sizes of 0
and beyond 8200, children the server never waits for, `irias_play` and
`irias_remove`, which are not compiled in. The test `(i < 0) && (i > len)` that
should notice a failed connect is never true; the code that follows it is
modelled as it runs. The server's parent never closes the sockets it has
accepted, so a child that ends does not end its connection (`Accept`).

### SuperIo, SmcInit, Findchip, IrdaSetup, MCIrdaSetup, IrdaSetupProofs

`SuperIo` is the external hardware as the tools use it: a chip that answers only
in configuration state, and a bridge. `SmcInit` and `Findchip` are the tools, one
register access or one table row per step; `IrdaSetup` runs them one after the
other, in any order and number, each of them killed between any two accesses.

| Module | Code |
|---|---|
| `chips`, `bridge`, `serial` | external: registers, configuration state, who owns the port |
| `tool` | the tool that runs, its step, its arguments, what it has printed |
| `last`, `before` | how the last tool ended; the chips when it started |
| `set_smc`, `tosh2450`, `configure_47N227_smc_ircc` | the register writes of the three tools, in order, as data for `Program` |
| `Probe`, `LeaveConfig`, `SmcinitBridge`, `Tosh2450Bridge`, `AliBridge` | entering, leaving, the bridges |
| `smc_chips`, `nsc_chips`, `efers` | the tables of `smc.c`, `nsc.c`, `winbond.c`: key, tests, exit key |
| `Identify`, `Disconf`, `SkipRow` | a probe, its end, a probe not made |

`SuccessIsUsable`: a tool that reports success has programmed chip and bridge
whatever state they were left in. `LeavesConfigState`: who may leave a chip in
configuration state. `OnlyTheRightChip`: no chip is changed by a tool for another
one. `FoundIsThere`: findchip prints what is there, once, under the right name.

What the properties except by name, because the code does it: smcinit and
tosh2450-smcinit leave a chip open when they give up, and smcinit one it passed
over on the way to 0x4e; tosh1800-smcinit computes the UART mode with
`& ~MASK | VAL`, so it keeps IrDA mode and does not set it (`IrdaMode`); the Intel
tools open 0x3f8, 0x130 and one DMA channel whatever they are asked for. Without
property: smcinit with a tty unbinds the serial port and never gives it back;
`-b` of tosh1800-smcinit skips the bridge too.

Bounds: nine boards with one or two chips, which have every tool's own chip, a
foreign one, a chip at the second base and two families at one base; three UART
modes and both FIR settings at power-up, three kinds of bridge; arguments that a
register cannot hold (DMA 0x13) and those it can. CHECK_DEADLOCK is on: another
tool can always be started. No fairness and no liveness: the tools are finite.

Left out: the W83877 at 0x250, whose index port is another one; one revision
stands for those the table of Winbond chips knows; register 0x2b stands for the
FIR base 0x62/0x63 of the chips with logical devices; the settings findchip
reads only to print them; findchip is started with one family or all.

## 4. What is proved

All proofs hold for every value of the constants allowed by the named ASSUMEs.

*IrcardTx* (`IrcardTxProofs`). The safety properties are not inductive: that
the queue does not overrun depends on how much is still to come from the device
queue, that the receiver comes back on depends on exactly one of "sending" and
"completion pending" holding, and a speed change or an insertion starts from
states in which the card is not up. `IInv` adds `Room` (space for what is on its
way also while the card is away), `HandlersOK`, `ChipOK`, `SendingOK` and
`TurnOK`. There is one lemma per action, then `Inductive`, from which
`TypeCorrect`, `QueueBounded`, `NoFrameStuck`, `HalfDuplexKept`, `QuietListens`
and `HandlersLeaveOn` follow. Assumptions: `Window < MaxWindow`, a full window
of the longest frames fits shared memory, 9600 is a SIR speed, and
`QuietSpeedChange`.

`DeliversInOrder`: `Spec => FifoSpec`, for every window, memory size and speeds,
with `QuietSpeedChange`. The abstract queue is read from shared memory, so one
more invariant is needed, `InMemory`: the cells of a registered entry hold its
frame, from the first to the last. It is inductive because a new entry starts
behind the last one and `QueueInBounds` leaves it room. Of the steps,
`XmitRegister` maps to `Accept`, `ChipSent` and `ChipUnderrun` to `Send`, `IrqTx`
to `Retire` when it completes the head, a speed change or card event that leaves
or enters FIR mode to `Close` or `Open`, all others to a stutter (`StepMaps`).

*IrcardRegs* (`IrcardRegsProofs`). The invariants speak of the registers at rest
or of the next access; in between they depend on all that is left of the routine.
`Runs(c, s, x, p, y)` says that the program `p`, in the routine `c` at speed `s`,
leads the chip from `x` to `y` with every access in its bank; `IInv` says that
what is left runs from the present registers to registers in order. `Runs`
composes over `\o`, so each helper and each routine has one lemma saying where it
leads, and a step of a program takes the first operation off its run. From
`Inductive` follow `EveryAccessInBank`, `HandlerRestoresBank`,
`InterruptsStayEnabled` and `TransceiverInMode`, for every set of speeds that
satisfies `RatesAssumption` and every limit on the events of an interrupt.

*IrcardLink* (`IrcardLinkProofs`). `NoLeak` is about an instance at rest; that a
configuration leaves no resource behind depends on what each of its steps has
got so far (`Configuring`), that freed memory is not referred to on the list
entry, the registration and the memory living and dying together (`Lifetime`),
and that `ircard_detach` may free an unconfigured instance on the release timer
running only for a configured instance without a card (`Releasing`).
`IInv == TypeOK /\ Lifetime /\ Configuring /\ Releasing /\ NoLeak` is inductive:
one lemma per action, then `Inductive`, and from it `TypeCorrect`,
`NoLeakAlways` and `FreedForgotten`. Assumption: `MaxOpens \in Nat`.

*NetBuf* (`IrdadumpProofs`). `InPicture`: types and `Picture`. `ImplementsMessage`:
`Spec => IsMessage`, the step simulation with one lemma per operation; growing
the block and moving its contents change no byte of the message.

*IrdaTracker* (same module). Assumption (`TrackerAssumption`): a selector
belongs to one socket of a station. `IInv` adds three parts: `StationsOK`, a pair
of selectors names one connection of a side; `LookupOK`, as long as `last_ias`
is one side's alone it names what that side asked for; `SureOK`, nothing but its
own DISCONNECT or its link takes a tracked connection's entry away. The last is
what makes `DecodedAsLookedUp` inductive: the entry found is the right one when
it has no twin, and the right one still exists. `FirstIn` gets "the first free
entry" from well-foundedness of the entries. From `Inductive` follow
`TypeCorrect`, `Decoded`, `ZombiesEnd` and `EntriesEnd`.

*Irattach* (`IrattachProofs`). Assumption (`IfaceAssumption`): the names of
interfaces and instances differ, and neither is `Unknown` or `None`. That a tty is restored is not
inductive, because `cleanup()` runs in steps, and again from its start when a
signal nests: `Restoring` says what each step has still to undo and that the
globals still know it, `Scanning` that one instance at a time shares out
interfaces and nobody has one it still has to give, `Keeper` that an interface
brought up is the device of an instance that is still going to take it down.
From `Inductive` follow `TypeCorrect`, `TtyPutBack`, `NothingStaysUp`
and `OneManagerEach`.

*Irdaspray* (`IrdasprayProofs`). Assumption (`SprayAssumption`): a frame size,
queues and transfers of at least one. `FramesConserved` speaks of one
concatenation that each action cuts and joins elsewhere; `InOrder` says the same
of each place by itself: what has arrived is numbered from 1, each place on the
way (the queue back, the child, the queue out) goes on from the one before, and
on an open connection the last number is `sent`. `Counting` ties the sums to the
counters and says that only processes that have ended close a connection. From
`Inductive` follow `TypeCorrect`, `Totals` and `Conserved`, which puts the places
together again (`Joined`). `NoneWaitForEachOther` and `TransferLessens` are
`NoCircularWait` and `WorkLessens` for queues and transfers of any length, all of
`TransferEnds` but its fairness. The first needs `Linked` beside `IInv`: an open
connection has a child that serves it and a process that has not left, and an
echo has read what has arrived. A sender that is blocked has a full queue behind
a child that is blocked, whose queue the receiver can read; it cannot have
stopped reading, because that takes all the frames, and one has not been sent.
For the second every step of a process is compared in numbers (`Terms`, `Lowers`).

*IrPsion5* (`UserProgramProofs`). `ReceivedIsWhole` speaks of the end of a
transfer. `IInv` says where client and server can be at the same time (`InStep`),
that stored units and units on their way are consecutive and, while the
connection is up, end with the last one sent (`AtData`), that nothing is on its
way before the header (`Unsent`), that an unchanged file still has the size that
was announced (`Announced`), and how connections end (`Ended`). A file is the
sequence of its units numbered from 1, and the lemmas on `Units` say what
joining and cutting consecutive units gives. From `Inductive` follow
`FilesArriveWhole` and `SuccessMeansReceived`. Assumption: a buffer and room for
at least one unit.

*Irkbd* (same module). `KeepsPolling` is not inductive:
while the SIGALRM handler finishes it no longer holds the token unless it is
going to start the timer, and it always has a command to send because no alarm
comes before main has started the first exchange (`BeforeFirst`, `HasCommand`).
`Token` says so; `TokenKept` is its invariance and `PollingKept` the property.

*IrdaSetup* (`IrdaSetupProofs`). The tools, their tables and the chips are data,
so most lemmas are about these: what a byte of a register is as a set of bits
(`Octet`, `BitIs`), what the key sequences and exit keys do to a chip of any kind
(`KnockChip`, `LeaveChip`), that an open chip answers its own identification and
no other (`ReadOpen`, `ReadReg`), and `Recognises`: a row of findchip's tables
accepts exactly the chip it names, and that chip once. `IInv` adds to the four
properties what a tool has done so far: `Progress`, the writes before the present
one have their effect in the registers, whatever these held before; `Accepted`,
the Intel tools program only the chip they have identified; `Untouched`, every
other register is as it was before the tool; `BridgeOpen`; `OpenedByTool`, which
chips may be open at the present step; `Reported`, findchip's output is that of
the rows it has passed. From `Inductive` follow `SuccessUsable`,
`ConfigStateLeft`, `RightChipOnly` and `FoundThere`. Assumptions: chips sit at
the four configuration ports, the W83977, which its straps put at 0x3f0, only
there (`BoardsAssumption`); IRQ and DMA of tosh1800-smcinit fit their
four bits, as the IRQ of the other tools does, and ports fit the registers they
go to (`SmcArgsAssumption`, `ToshArgsAssumption`). The tools take all of these
from `strtoul` unchecked. With a port above the register's range they report
success and have programmed another port, and smcinit drops the low three bits of
the SIR port (`& 0xFF8`, `smcinit/smcinit.c:271`), so that a port that is not a
multiple of 8 is not the one that is opened: `SuccessIsUsable` is a promise for
arguments a register can hold.

Every safety property of a passing run is thus a theorem: the run shows it on one
instance, and its counterexamples are what the proofs were prepared with. The
inductive invariants and the type invariants are proved and therefore in no run.

Model-checked only: all liveness (`FifoFairSpec`, `DeviceQueueDrains`,
`RemovedIsReleased`, both `CleanupEnds`, `GetsToPolling`, `Reconnects`,
`SenderEnds`, `TransferEnds`), which needs fairness and ENABLED and is out of
the prover's reach.

## 5. What is not modelled

dongle_attach (one ioctl), the irdadump capture, front end and printers (text),
the front end of findchip and the settings it prints, the socket examples beside
irdaspray, irdaping and irnetd (linear programs of one loop), packaging. Of
modelled parts: the receive ring of `ircard_cs` and its hardware timing (the
end-of-message spin, minimum turn time, how long `ircard_wait_until_sent` really
needs), the link parameters and frame numbers irdadump prints, and what section
3 lists under "left out".
