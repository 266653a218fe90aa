------------------------------ MODULE Irattach ------------------------------
(***************************************************************************)
(* irattach (irattach/irattach.c, util.c): several instances, each started *)
(* on a tty, on a network interface, or on a driver module whose new       *)
(* interfaces it shares out among forked children.  Every instance sets    *)
(* its device up step by step; a step that fails calls clean_exit, and     *)
(* SIGHUP, SIGTERM or SIGINT may arrive between any two steps, also inside *)
(* the handler, which is cleanup() and never returns: a nested signal      *)
(* abandons the handler it interrupts.                                     *)
(*                                                                         *)
(* Left out: the file status flags (they go with the open file), TIOCEXCL, *)
(* the sysctl commands, sleeps and messages.  The calls of cleanup() that  *)
(* restore the tty are taken to succeed.                                   *)
(*                                                                         *)
(* A definition followed by one it differs from in one place is a faulty   *)
(* variant of it, used only to see the properties fail.                    *)
(***************************************************************************)
EXTENDS Naturals, Sequences

CONSTANTS
  Procs,         \* the instances
  Ifaces,        \* interfaces of drivers; p is the interface of p's tty
  ModuleIfaces,  \* those that appear when the module is loaded
  InitiallyUp,   \* interfaces that are up before any instance starts
  Unknown,       \* a name that is no interface
  None           \* no process

ASSUME IfaceAssumption ==
  /\ ModuleIfaces \subseteq Ifaces /\ InitiallyUp \subseteq Ifaces
  /\ Ifaces \intersect Procs = {}
  /\ Unknown \notin Ifaces \union Procs /\ None \notin Procs

VARIABLES
  pc,        \* where the instance is
  device,    \* the global of that name, as far as it names an interface
  devfd,     \* devfd # -1
  isOpen,    \* the descriptor is really open
  initdisc,  \* initdisc # -1
  termvalid, \* termvalid # -1
  traps,     \* how many of Signals have their handler
  blocked,   \* signals whose handler is running
  todo,      \* new interfaces get_module_devices has still to look at
  tty,       \* what is set on the instance's tty: "disc", "term"
  up,        \* interfaces that are up
  pidfile    \* the process the pid file names

vars == <<pc, device, devfd, isOpen, initdisc, termvalid, traps, blocked, todo,
          tty, up, pidfile>>
tables  == <<device, devfd, isOpen, initdisc, termvalid>>
world   == <<tty, up, pidfile>>

Signals == <<"HUP", "TERM", "INT">>

SetupPcs == {"fork", "trap", "getattr", "setattr", "getdisc", "setdisc", "nonblock",
             "name", "dongle", "ifup", "pause"}
CleanupPcs == {"c_down", "c_disc", "c_term", "c_close", "c_forget", "c_unlink"}
EndPcs  == {"exited", "killed"}

Init ==
  /\ pc = [p \in Procs |-> "start"]
  /\ device = [p \in Procs |-> Unknown]
  /\ devfd = [p \in Procs |-> FALSE] /\ isOpen = [p \in Procs |-> FALSE]
  /\ initdisc = [p \in Procs |-> FALSE] /\ termvalid = [p \in Procs |-> FALSE]
  /\ traps = [p \in Procs |-> 0] /\ blocked = [p \in Procs |-> {}]
  /\ todo = [p \in Procs |-> {}]
  /\ tty = [p \in Procs |-> {}]
  /\ up = InitiallyUp
  /\ pidfile = None

Goto(p, from, to) == pc[p] = from /\ pc' = [pc EXCEPT ![p] = to]

-----------------------------------------------------------------------------
(* Up to the fork: untrapped, on the terminal.                             *)

OpenTty(p) ==
  /\ Goto(p, "start", "fork")
  /\ devfd' = [devfd EXCEPT ![p] = TRUE]
  /\ isOpen' = [isOpen EXCEPT ![p] = TRUE]
  /\ UNCHANGED <<device, initdisc, termvalid, traps, blocked, todo, world>>

UseInterface(p, i) ==
  /\ Goto(p, "start", "fork")
  /\ device' = [device EXCEPT ![p] = i]
  /\ UNCHANGED <<devfd, isOpen, initdisc, termvalid, traps, blocked, todo, world>>

(* get_module_devices: the interfaces that were not there before.  Bound:  *)
(* the module is loaded once.                                              *)
LoadModule(p) ==
  /\ Goto(p, "start", "scan")
  /\ \A q \in Procs : pc[q] # "scan" /\ device[q] \notin ModuleIfaces
  /\ todo' = [todo EXCEPT ![p] = ModuleIfaces]
  /\ UNCHANGED <<tables, traps, blocked, world>>

(* The first new interface is this process's own.                          *)
TakeFirst(p, i) ==
  /\ pc[p] = "scan" /\ i \in todo[p] /\ device[p] = Unknown
  /\ device' = [device EXCEPT ![p] = i]
  /\ todo' = [todo EXCEPT ![p] = @ \ {i}]
  /\ UNCHANGED <<pc, devfd, isOpen, initdisc, termvalid, traps, blocked, world>>

ForkInterface_BothTake(p, q, i) ==
  /\ pc[p] = "scan" /\ i \in todo[p] /\ device[p] # Unknown
  /\ pc[q] = "start"
  /\ todo' = [todo EXCEPT ![p] = @ \ {i}]
  /\ device' = [device EXCEPT ![p] = i, ![q] = i]
  /\ pc' = [pc EXCEPT ![q] = "fork"]
  /\ UNCHANGED <<devfd, isOpen, initdisc, termvalid, traps, blocked, world>>

(* Every other one gets a child, which leaves the loop.                    *)
ForkInterface(p, q, i) ==
  /\ pc[p] = "scan" /\ i \in todo[p] /\ device[p] # Unknown
  /\ pc[q] = "start"
  /\ todo' = [todo EXCEPT ![p] = @ \ {i}]
  /\ device' = [device EXCEPT ![q] = i]
  /\ pc' = [pc EXCEPT ![q] = "fork"]
  /\ UNCHANGED <<devfd, isOpen, initdisc, termvalid, traps, blocked, world>>

(* fork() returns -1, which the parent takes for a child's pid.            *)
ForkFails(p, i) ==
  /\ pc[p] = "scan" /\ i \in todo[p] /\ device[p] # Unknown
  /\ todo' = [todo EXCEPT ![p] = @ \ {i}]
  /\ UNCHANGED <<pc, tables, traps, blocked, world>>

ScanDone(p) ==
  /\ todo[p] = {} /\ Goto(p, "scan", "fork")
  /\ UNCHANGED <<tables, traps, blocked, todo, world>>

(* fork_now; the daemon goes on and writes the pid file, -b skips both.    *)
ForkNow(p, daemonize) ==
  /\ Goto(p, "fork", "trap")
  /\ pidfile' = IF daemonize THEN p ELSE pidfile
  /\ UNCHANGED <<tables, traps, blocked, todo, tty, up>>

(* main traps the signals one after the other, then sets a tty up.         *)
TrapSignal(p) ==
  /\ pc[p] = "trap" /\ traps[p] < Len(Signals)
  /\ traps' = [traps EXCEPT ![p] = @ + 1]
  /\ UNCHANGED <<pc, tables, blocked, todo, world>>

Trapped(p) ==
  /\ traps[p] = Len(Signals)
  /\ Goto(p, "trap", IF devfd[p] THEN "getattr" ELSE "dongle")
  /\ UNCHANGED <<tables, traps, blocked, todo, world>>

-----------------------------------------------------------------------------
(* start_tty: init_irda_ldisc, establish_irda, IRTTY_IOCGNAME              *)

SaveTermios_Forgotten(p) ==
  /\ Goto(p, "getattr", "setattr")
  /\ UNCHANGED <<tables, traps, blocked, todo, world>>

SaveTermios(p) ==
  /\ Goto(p, "getattr", "setattr")
  /\ termvalid' = [termvalid EXCEPT ![p] = TRUE]
  /\ UNCHANGED <<device, devfd, isOpen, initdisc, traps, blocked, todo, world>>

SetTermios(p) ==
  /\ Goto(p, "setattr", "getdisc")
  /\ tty' = [tty EXCEPT ![p] = @ \union {"term"}]
  /\ UNCHANGED <<tables, traps, blocked, todo, up, pidfile>>

SaveDisc(p) ==
  /\ Goto(p, "getdisc", "setdisc")
  /\ initdisc' = [initdisc EXCEPT ![p] = TRUE]
  /\ UNCHANGED <<device, devfd, isOpen, termvalid, traps, blocked, todo, world>>

SetDisc(p) ==
  /\ Goto(p, "setdisc", "nonblock")
  /\ tty' = [tty EXCEPT ![p] = @ \union {"disc"}]
  /\ UNCHANGED <<tables, traps, blocked, todo, up, pidfile>>

NonBlock(p) ==
  /\ Goto(p, "nonblock", "name")
  /\ UNCHANGED <<tables, traps, blocked, todo, world>>

GetName(p) ==
  /\ Goto(p, "name", "dongle")
  /\ device' = [device EXCEPT ![p] = p]
  /\ UNCHANGED <<devfd, isOpen, initdisc, termvalid, traps, blocked, todo, world>>

AttachDongle(p) ==
  /\ Goto(p, "dongle", "ifup")
  /\ UNCHANGED <<tables, traps, blocked, todo, world>>

(* modify_flags fails when there is no such interface.                     *)
Exists(i) == i \in Ifaces \/ (i \in Procs /\ "disc" \in tty[i])

IfUp(p) ==
  /\ Exists(device[p])
  /\ Goto(p, "ifup", "pause")
  /\ up' = up \union {device[p]}
  /\ UNCHANGED <<tables, traps, blocked, todo, tty, pidfile>>

(* A failing step calls clean_exit.                                        *)
SetupFails(p) ==
  /\ pc[p] \in {"getattr", "setattr", "getdisc", "setdisc", "nonblock", "name",
                "dongle", "ifup"}
  /\ ~(pc[p] = "dongle" /\ devfd[p])
  /\ pc' = [pc EXCEPT ![p] = "c_down"]
  /\ UNCHANGED <<tables, traps, blocked, todo, world>>

-----------------------------------------------------------------------------
(* Signals                                                                 *)

HasHandler(p, s) == \E n \in 1 .. traps[p] : Signals[n] = s

Signal(p, s) ==
  /\ pc[p] \in SetupPcs \union CleanupPcs
  /\ HasHandler(p, s) /\ s \notin blocked[p]
  /\ pc' = [pc EXCEPT ![p] = "c_down"]
  /\ blocked' = [blocked EXCEPT ![p] = @ \union {s}]
  /\ UNCHANGED <<tables, traps, todo, world>>

(* Without a handler the process ends where it is.                         *)
Killed(p, s) ==
  /\ pc[p] \in SetupPcs \union CleanupPcs \union {"scan"}
  /\ ~HasHandler(p, s)
  /\ pc' = [pc EXCEPT ![p] = "killed"]
  /\ isOpen' = [isOpen EXCEPT ![p] = FALSE]
  /\ UNCHANGED <<device, devfd, initdisc, termvalid, traps, blocked, todo, world>>

-----------------------------------------------------------------------------
(* cleanup                                                                 *)

IfDown_Recurses(p) ==
  /\ Goto(p, "c_down", IF ~Exists(device[p]) THEN "c_down"
                       ELSE IF devfd[p] THEN "c_disc" ELSE "c_unlink")
  /\ up' = up \ {device[p]}
  /\ UNCHANGED <<tables, traps, blocked, todo, tty, pidfile>>

IfDown_UnlessTty(p) ==
  /\ Goto(p, "c_down", IF devfd[p] THEN "c_disc" ELSE "c_unlink")
  /\ up' = IF devfd[p] THEN up ELSE up \ {device[p]}
  /\ UNCHANGED <<tables, traps, blocked, todo, tty, pidfile>>

IfDown(p) ==
  /\ Goto(p, "c_down", IF devfd[p] THEN "c_disc" ELSE "c_unlink")
  /\ up' = IF Exists(device[p]) THEN up \ {device[p]} ELSE up
  /\ UNCHANGED <<tables, traps, blocked, todo, tty, pidfile>>

RestoreDisc(p) ==
  /\ Goto(p, "c_disc", "c_term")
  /\ tty' = [tty EXCEPT ![p] = IF isOpen[p] /\ initdisc[p] THEN @ \ {"disc"} ELSE @]
  /\ UNCHANGED <<tables, traps, blocked, todo, up, pidfile>>

RestoreTermios(p) ==
  /\ Goto(p, "c_term", "c_close")
  /\ tty' = [tty EXCEPT ![p] = IF isOpen[p] /\ termvalid[p] THEN @ \ {"term"} ELSE @]
  /\ UNCHANGED <<tables, traps, blocked, todo, up, pidfile>>

CloseTty(p) ==
  /\ Goto(p, "c_close", "c_forget")
  /\ isOpen' = [isOpen EXCEPT ![p] = FALSE]
  /\ UNCHANGED <<device, devfd, initdisc, termvalid, traps, blocked, todo, world>>

ForgetTty(p) ==
  /\ Goto(p, "c_forget", "c_unlink")
  /\ devfd' = [devfd EXCEPT ![p] = FALSE]
  /\ UNCHANGED <<device, isOpen, initdisc, termvalid, traps, blocked, todo, world>>

(* The pid file is deleted whoever wrote it, and whether there is one.     *)
Unlink(p) ==
  /\ Goto(p, "c_unlink", "exited")
  /\ pidfile' = None
  /\ UNCHANGED <<tables, traps, blocked, todo, tty, up>>

-----------------------------------------------------------------------------
Cleanup(p) ==
  \/ IfDown(p) \/ RestoreDisc(p) \/ RestoreTermios(p) \/ CloseTty(p)
  \/ ForgetTty(p) \/ Unlink(p)

Step(p) ==
  \/ OpenTty(p) \/ LoadModule(p) \/ ScanDone(p)
  \/ \E i \in Ifaces : \/ (i \notin ModuleIfaces /\ UseInterface(p, i))
                       \/ TakeFirst(p, i) \/ ForkFails(p, i)
                       \/ \E q \in Procs : ForkInterface(p, q, i)
  \/ \E daemonize \in BOOLEAN : ForkNow(p, daemonize)
  \/ TrapSignal(p) \/ Trapped(p)
  \/ SaveTermios(p) \/ SetTermios(p) \/ SaveDisc(p) \/ SetDisc(p) \/ NonBlock(p)
  \/ GetName(p) \/ AttachDongle(p) \/ IfUp(p) \/ SetupFails(p)
  \/ \E n \in 1 .. Len(Signals) : Signal(p, Signals[n]) \/ Killed(p, Signals[n])
  \/ IfDown(p) \/ RestoreDisc(p) \/ RestoreTermios(p) \/ CloseTty(p)
  \/ ForgetTty(p) \/ Unlink(p)

Next == \E p \in Procs : Step(p)

(* A process that runs cleanup() goes on running it.                       *)
Fairness == \A p \in Procs : WF_vars(Cleanup(p))

Spec     == Init /\ [][Next]_vars
FairSpec == Spec /\ Fairness

-----------------------------------------------------------------------------
(* Properties                                                              *)

(* Values the instances' variables may take.                               *)
TypeOK ==
  /\ pc \in [Procs -> {"start", "scan"} \union SetupPcs \union CleanupPcs \union EndPcs]
  /\ device \in [Procs -> Ifaces \union Procs \union {Unknown}]
  /\ devfd \in [Procs -> BOOLEAN] /\ isOpen \in [Procs -> BOOLEAN]
  /\ initdisc \in [Procs -> BOOLEAN] /\ termvalid \in [Procs -> BOOLEAN]
  /\ traps \in [Procs -> 0 .. Len(Signals)]
  /\ blocked \in [Procs -> SUBSET {"HUP", "TERM", "INT"}]
  /\ todo \in [Procs -> SUBSET ModuleIfaces]
  /\ tty \in [Procs -> SUBSET {"disc", "term"}]
  /\ up \subseteq Ifaces \union Procs
  /\ pidfile \in Procs \union {None}

(* "Put everything back in the state we found it" (line 182): wherever an  *)
(* instance was interrupted, in its setup or inside cleanup() itself, its  *)
(* tty ends with the line discipline and the termios it had.               *)
TtyRestored == \A p \in Procs : pc[p] \in EndPcs => tty[p] = {}

(* No interface stays up after the last instance that may have started it. *)
NothingLeftUp ==
  (\A p \in Procs : pc[p] \in EndPcs \union {"start"}) => up \subseteq InitiallyUp

(* Each interface of a module is managed by one instance: parent and       *)
(* children never take the same one.                                       *)
OneManager ==
  \A p, q \in Procs : p # q /\ device[p] \in ModuleIfaces => device[p] # device[q]

(* cleanup() ends: nothing it calls comes back to it ("Can't clean_exit(), *)
(* will recurse", line 129), and nested signals run out.                   *)
CleanupEnds == \A p \in Procs : pc[p] \in CleanupPcs ~> pc[p] \in EndPcs

-----------------------------------------------------------------------------
(* What they rest on.  An instance that gets past "trap" has all handlers, *)
(* and one that sets up a tty has it open; whatever it has set on the tty, *)
(* it has saved the old value of and is still ahead of restoring.          *)
AfterTrap == {"getattr", "setattr", "getdisc", "setdisc", "nonblock",
              "name", "dongle", "ifup", "pause"}

Restoring(p) ==
  /\ pc[p] \in AfterTrap => traps[p] = Len(Signals)
  /\ pc[p] \in AfterTrap \ {"dongle", "ifup", "pause"} => devfd[p]
  /\ devfd[p] => isOpen[p] \/ pc[p] \in CleanupPcs \union EndPcs
  /\ pc[p] = "setattr" => termvalid[p]
  /\ pc[p] = "setdisc" => initdisc[p]
  /\ tty[p] # {} => devfd[p] /\ isOpen[p] /\ traps[p] = Len(Signals)
  /\ "term" \in tty[p] => termvalid[p] /\ pc[p] \in AfterTrap \union {"c_down", "c_disc", "c_term"}
  /\ "disc" \in tty[p] => initdisc[p] /\ pc[p] \in AfterTrap \union {"c_down", "c_disc"}

(* One instance at a time scans, and nobody has what it has still to give. *)
Scanning(p) ==
  pc[p] = "scan" => \A q \in Procs : device[q] \notin todo[p] /\ (pc[q] = "scan" => q = p)

(* An interface that an instance has brought up is the device of one that  *)
(* has not yet come past ifdown() in cleanup(), and can get there.         *)
Keeper(i) ==
  \E p \in Procs :
    /\ device[p] = i /\ traps[p] = Len(Signals)
    /\ pc[p] \in {"pause", "c_down"} /\ Exists(i)

IInv ==
  /\ TypeOK /\ OneManager
  /\ \A p \in Procs :
       Restoring(p) /\ Scanning(p) /\ (device[p] \in Procs => device[p] = p)
  /\ \A i \in up \ InitiallyUp : Keeper(i)
=============================================================================
