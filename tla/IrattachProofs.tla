--------------------------- MODULE IrattachProofs ---------------------------
(***************************************************************************)
(* IInv is an inductive invariant of Irattach, for any set of instances    *)
(* and interfaces: wherever set-up fails or signals arrive, nested in      *)
(* cleanup() too, the tty is put back, no interface stays up and no two    *)
(* instances manage the same interface of a module.                        *)
(***************************************************************************)
EXTENDS Irattach, TLAPS

USE DEF Signals, SetupPcs, CleanupPcs, EndPcs, tables, world

(* Nothing is set up at first.                                             *)
LEMMA InitIInv == Init => IInv
<1>. SUFFICES ASSUME Init PROVE IInv
  OBVIOUS
<1>1. TypeOK
  BY IfaceAssumption DEF Init, TypeOK
<1>2. OneManager
  BY IfaceAssumption DEF Init, OneManager
<1>3. \A p \in Procs : Restoring(p) /\ Scanning(p)
  BY DEF Init, Restoring, Scanning, AfterTrap
<1>4. \A p \in Procs : device[p] \notin Procs
  BY IfaceAssumption DEF Init
<1>5. up = InitiallyUp
  BY DEF Init
<1>. QED BY <1>1, <1>2, <1>3, <1>4, <1>5 DEF IInv

(* A signal without a handler exists only before all are trapped.          *)
LEMMA Unhandled ==
  ASSUME TypeOK, NEW p \in Procs, NEW n \in 1 .. Len(Signals), ~HasHandler(p, Signals[n])
  PROVE  traps[p] # Len(Signals)
BY DEF HasHandler

(* Types.                                                                  *)
LEMMA TypeStep == ASSUME TypeOK, NEW p \in Procs, Step(p) PROVE TypeOK'
<1>. USE DEF TypeOK, Goto
<1>1. CASE OpenTty(p)
  BY <1>1 DEF OpenTty
<1>2. CASE LoadModule(p)
  BY <1>2 DEF LoadModule
<1>3. CASE ScanDone(p)
  BY <1>3 DEF ScanDone
<1>4. CASE \E i \in Ifaces : i \notin ModuleIfaces /\ UseInterface(p, i)
  BY <1>4 DEF UseInterface
<1>5. CASE \E i \in Ifaces : TakeFirst(p, i)
  BY <1>5 DEF TakeFirst
<1>6. CASE \E i \in Ifaces : ForkFails(p, i)
  BY <1>6 DEF ForkFails
<1>7. CASE \E i \in Ifaces, q \in Procs : ForkInterface(p, q, i)
  BY <1>7 DEF ForkInterface
<1>8. CASE \E daemonize \in BOOLEAN : ForkNow(p, daemonize)
  BY <1>8 DEF ForkNow
<1>9. CASE TrapSignal(p)
  BY <1>9 DEF TrapSignal
<1>10. CASE Trapped(p)
  BY <1>10 DEF Trapped
<1>11. CASE SaveTermios(p) \/ SaveDisc(p)
  BY <1>11 DEF SaveTermios, SaveDisc
<1>21. CASE SetTermios(p) \/ SetDisc(p)
  BY <1>21 DEF SetTermios, SetDisc
<1>12. CASE NonBlock(p) \/ GetName(p) \/ AttachDongle(p)
  BY <1>12 DEF NonBlock, GetName, AttachDongle
<1>13. CASE IfUp(p)
  BY <1>13 DEF IfUp, Exists
<1>14. CASE SetupFails(p)
  BY <1>14 DEF SetupFails
<1>15. CASE \E n \in 1 .. Len(Signals) : Signal(p, Signals[n])
  BY <1>15 DEF Signal
<1>16. CASE \E n \in 1 .. Len(Signals) : Killed(p, Signals[n])
  BY <1>16 DEF Killed
<1>17. CASE IfDown(p)
  BY <1>17 DEF IfDown
<1>18. CASE RestoreDisc(p) \/ RestoreTermios(p)
  BY <1>18 DEF RestoreDisc, RestoreTermios
<1>19. CASE CloseTty(p) \/ ForgetTty(p)
  BY <1>19 DEF CloseTty, ForgetTty
<1>20. CASE Unlink(p)
  BY <1>20 DEF Unlink
<1>. QED BY <1>1, <1>2, <1>3, <1>4, <1>5, <1>6, <1>7, <1>8, <1>9, <1>10, <1>11, <1>12,
            <1>13, <1>14, <1>15, <1>16, <1>17, <1>18, <1>19, <1>20, <1>21, Zenon DEF Step

-----------------------------------------------------------------------------
(* Who manages what: the part of IInv about device and todo.               *)
Managed ==
  OneManager /\ \A p \in Procs : Scanning(p) /\ (device[p] \in Procs => device[p] = p)

(* Steps that hand out no interface and start no scan.                     *)
LEMMA ManagedKept ==
  ASSUME Managed, UNCHANGED <<device, todo>>,
         \A q \in Procs : pc'[q] = "scan" => pc[q] = "scan"
  PROVE  Managed'
BY DEF Managed, OneManager, Scanning

LEMMA ManagedStep == ASSUME TypeOK, Managed, NEW p \in Procs, Step(p) PROVE Managed'
<1>. USE DEF Goto
<1>1. CASE LoadModule(p)
  <2>1. /\ todo' = [todo EXCEPT ![p] = ModuleIfaces] /\ device' = device
        /\ pc' = [pc EXCEPT ![p] = "scan"]
        /\ \A q \in Procs : pc[q] # "scan" /\ device[q] \notin ModuleIfaces
    BY <1>1 DEF LoadModule
  <2>. QED BY <2>1 DEF TypeOK, Managed, OneManager, Scanning
<1>2. CASE \E i \in Ifaces : i \notin ModuleIfaces /\ UseInterface(p, i)
  <2>1. PICK i \in Ifaces : i \notin ModuleIfaces /\ UseInterface(p, i)
    BY <1>2
  <2>2. /\ device' = [device EXCEPT ![p] = i] /\ todo' = todo
        /\ pc' = [pc EXCEPT ![p] = "fork"]
    BY <2>1 DEF UseInterface
  <2>3. i \notin Procs
    BY IfaceAssumption
  <2>. QED BY <2>1, <2>2, <2>3 DEF TypeOK, Managed, OneManager, Scanning
<1>3. CASE \E i \in Ifaces : TakeFirst(p, i)
  <2>1. PICK i \in Ifaces : TakeFirst(p, i)
    BY <1>3
  <2>2. /\ pc[p] = "scan" /\ i \in todo[p]
        /\ device' = [device EXCEPT ![p] = i] /\ todo' = [todo EXCEPT ![p] = @ \ {i}]
        /\ pc' = pc
    BY <2>1 DEF TakeFirst
  <2>3. i \notin Procs
    BY IfaceAssumption
  <2>. QED BY <2>2, <2>3 DEF TypeOK, Managed, OneManager, Scanning
<1>4. CASE \E i \in Ifaces, q \in Procs : ForkInterface(p, q, i)
  <2>1. PICK i \in Ifaces, q \in Procs : ForkInterface(p, q, i)
    BY <1>4
  <2>2. /\ pc[p] = "scan" /\ i \in todo[p] /\ pc[q] = "start"
        /\ device' = [device EXCEPT ![q] = i] /\ todo' = [todo EXCEPT ![p] = @ \ {i}]
        /\ pc' = [pc EXCEPT ![q] = "fork"]
    BY <2>1 DEF ForkInterface
  <2>3. i \notin Procs
    BY IfaceAssumption
  <2>. QED BY <2>2, <2>3 DEF TypeOK, Managed, OneManager, Scanning
<1>5. CASE \E i \in Ifaces : ForkFails(p, i)
  BY <1>5 DEF ForkFails, TypeOK, Managed, OneManager, Scanning
<1>6. CASE GetName(p)
  <2>1. /\ device' = [device EXCEPT ![p] = p] /\ todo' = todo
        /\ pc' = [pc EXCEPT ![p] = "dongle"]
    BY <1>6 DEF GetName
  <2>2. p \notin ModuleIfaces /\ \A q \in Procs : p \notin todo[q]
    BY IfaceAssumption DEF TypeOK
  <2>. QED BY <2>1, <2>2 DEF TypeOK, Managed, OneManager, Scanning
<1>7. CASE OpenTty(p) \/ ScanDone(p) \/ \E daemonize \in BOOLEAN : ForkNow(p, daemonize)
  BY <1>7, ManagedKept DEF OpenTty, ScanDone, ForkNow, TypeOK
<1>8. CASE TrapSignal(p) \/ Trapped(p) \/ SaveTermios(p) \/ SetTermios(p) \/ SaveDisc(p) \/ SetDisc(p)
  BY <1>8, ManagedKept DEF TrapSignal, Trapped, SaveTermios, SetTermios, SaveDisc, SetDisc, TypeOK
<1>9. CASE NonBlock(p) \/ AttachDongle(p) \/ IfUp(p) \/ SetupFails(p)
  BY <1>9, ManagedKept DEF NonBlock, AttachDongle, IfUp, SetupFails, TypeOK
<1>10. CASE \E n \in 1 .. Len(Signals) : Signal(p, Signals[n]) \/ Killed(p, Signals[n])
  BY <1>10, ManagedKept DEF Signal, Killed, TypeOK
<1>11. CASE IfDown(p) \/ RestoreDisc(p) \/ RestoreTermios(p)
  BY <1>11, ManagedKept DEF IfDown, RestoreDisc, RestoreTermios, TypeOK
<1>12. CASE CloseTty(p) \/ ForgetTty(p) \/ Unlink(p)
  BY <1>12, ManagedKept DEF CloseTty, ForgetTty, Unlink, TypeOK
<1>. QED BY <1>1, <1>2, <1>3, <1>4, <1>5, <1>6, <1>7, <1>8, <1>9, <1>10, <1>11, <1>12, Zenon DEF Step

-----------------------------------------------------------------------------
(* What has been set on a tty: the part about Restoring.                   *)
LEMMA RestoringStep ==
  ASSUME TypeOK, \A r \in Procs : Restoring(r), NEW p \in Procs, Step(p), NEW q \in Procs
  PROVE  Restoring(q)'
<1>. USE DEF Goto, TypeOK, Restoring, AfterTrap
<1>1. CASE OpenTty(p)
  BY <1>1 DEF OpenTty
<1>2. CASE LoadModule(p) \/ ScanDone(p)
  BY <1>2 DEF LoadModule, ScanDone
<1>3. CASE \E i \in Ifaces : UseInterface(p, i) \/ TakeFirst(p, i) \/ ForkFails(p, i)
  <2>1. CASE \E i \in Ifaces : UseInterface(p, i)
    BY <2>1 DEF UseInterface
  <2>2. CASE \E i \in Ifaces : TakeFirst(p, i) \/ ForkFails(p, i)
    BY <2>2 DEF TakeFirst, ForkFails
  <2>. QED BY <1>3, <2>1, <2>2
<1>4. CASE \E i \in Ifaces, r \in Procs : ForkInterface(p, r, i)
  BY <1>4 DEF ForkInterface
<1>5. CASE \E daemonize \in BOOLEAN : ForkNow(p, daemonize)
  BY <1>5 DEF ForkNow
<1>6. CASE TrapSignal(p)
  BY <1>6 DEF TrapSignal
<1>7. CASE Trapped(p)
  BY <1>7 DEF Trapped
<1>8. CASE SaveTermios(p)
  BY <1>8 DEF SaveTermios
<1>9. CASE SetTermios(p)
  BY <1>9 DEF SetTermios
<1>10. CASE SaveDisc(p)
  BY <1>10 DEF SaveDisc
<1>11. CASE SetDisc(p)
  BY <1>11 DEF SetDisc
<1>12. CASE NonBlock(p)
  BY <1>12 DEF NonBlock
<1>13. CASE GetName(p)
  BY <1>13 DEF GetName
<1>14. CASE AttachDongle(p)
  BY <1>14 DEF AttachDongle
<1>15. CASE IfUp(p)
  BY <1>15 DEF IfUp
<1>16. CASE SetupFails(p)
  BY <1>16 DEF SetupFails
<1>17. CASE \E n \in 1 .. Len(Signals) : Signal(p, Signals[n])
  BY <1>17 DEF Signal
<1>18. CASE \E n \in 1 .. Len(Signals) : Killed(p, Signals[n])
  <2>1. traps[p] # Len(Signals)
    BY <1>18, Unhandled DEF Killed
  <2>. QED BY <1>18, <2>1 DEF Killed
<1>19. CASE IfDown(p)
  BY <1>19 DEF IfDown
<1>20. CASE RestoreDisc(p)
  BY <1>20 DEF RestoreDisc
<1>21. CASE RestoreTermios(p)
  BY <1>21 DEF RestoreTermios
<1>22. CASE CloseTty(p)
  BY <1>22 DEF CloseTty
<1>23. CASE ForgetTty(p)
  BY <1>23 DEF ForgetTty
<1>24. CASE Unlink(p)
  BY <1>24 DEF Unlink
<1>. QED BY <1>1, <1>2, <1>3, <1>4, <1>5, <1>6, <1>7, <1>8, <1>9, <1>10, <1>11, <1>12, <1>13,
            <1>14, <1>15, <1>16, <1>17, <1>18, <1>19, <1>20, <1>21, <1>22, <1>23, <1>24, Zenon DEF Step

-----------------------------------------------------------------------------
(* Interfaces that were brought up: the part about Keeper.                 *)
Kept == \A i \in up \ InitiallyUp : Keeper(i)

(* A step that touches none of what Keeper is about.                       *)
LEMMA KeptStays ==
  ASSUME TypeOK, Kept, NEW p \in Procs, UNCHANGED <<device, tty, up>>,
         \A q \in Procs : traps[q] = Len(Signals) => traps'[q] = traps[q],
         \A q \in Procs : pc[q] \in {"pause", "c_down"} /\ traps[q] = Len(Signals)
                            => pc'[q] \in {"pause", "c_down"}
  PROVE  Kept'
BY DEF Kept, Keeper, Exists

LEMMA KeptStep ==
  ASSUME IInv, NEW p \in Procs, Step(p)
  PROVE  Kept'
<1>. USE DEF Goto
<1>0. TypeOK /\ Kept
  BY DEF IInv, Kept
<1>1. CASE \E i \in Ifaces : UseInterface(p, i) \/ TakeFirst(p, i)
  <2>1. /\ UNCHANGED <<traps, tty, up>> /\ pc[p] \in {"start", "scan"}
        /\ \A q \in Procs : q # p => device'[q] = device[q] /\ pc'[q] = pc[q]
    BY <1>0, <1>1 DEF UseInterface, TakeFirst, TypeOK
  <2>. QED BY <1>0, <2>1 DEF Kept, Keeper, Exists
<1>2. CASE \E i \in Ifaces, r \in Procs : ForkInterface(p, r, i)
  <2>1. PICK i \in Ifaces, r \in Procs : ForkInterface(p, r, i)
    BY <1>2
  <2>2. /\ UNCHANGED <<traps, tty, up>> /\ pc[r] = "start"
        /\ \A q \in Procs : q # r => device'[q] = device[q] /\ pc'[q] = pc[q]
    BY <1>0, <2>1 DEF ForkInterface, TypeOK
  <2>. QED BY <1>0, <2>2 DEF Kept, Keeper, Exists
<1>3. CASE GetName(p)
  <2>1. /\ UNCHANGED <<traps, tty, up>> /\ pc[p] = "name"
        /\ \A q \in Procs : q # p => device'[q] = device[q] /\ pc'[q] = pc[q]
    BY <1>0, <1>3 DEF GetName, TypeOK
  <2>. QED BY <1>0, <2>1 DEF Kept, Keeper, Exists
<1>4. CASE OpenTty(p) \/ LoadModule(p) \/ ScanDone(p) \/ \E i \in Ifaces : ForkFails(p, i)
  BY <1>0, <1>4, KeptStays DEF OpenTty, LoadModule, ScanDone, ForkFails, TypeOK
<1>5. CASE \E daemonize \in BOOLEAN : ForkNow(p, daemonize)
  BY <1>0, <1>5, KeptStays DEF ForkNow, TypeOK
<1>6. CASE TrapSignal(p) \/ Trapped(p)
  BY <1>0, <1>6, KeptStays DEF TrapSignal, Trapped, TypeOK
<1>7. CASE SaveTermios(p) \/ SaveDisc(p) \/ NonBlock(p) \/ AttachDongle(p) \/ SetupFails(p)
  BY <1>0, <1>7, KeptStays DEF SaveTermios, SaveDisc, NonBlock, AttachDongle, SetupFails, TypeOK
<1>8. CASE SetTermios(p) \/ SetDisc(p)
  <2>1. /\ UNCHANGED <<device, traps, up>> /\ pc[p] \in {"setattr", "setdisc"}
        /\ \A q \in Procs : (q # p => pc'[q] = pc[q]) /\ tty[q] \subseteq tty'[q]
    BY <1>0, <1>8 DEF SetTermios, SetDisc, TypeOK
  <2>. QED BY <1>0, <2>1 DEF Kept, Keeper, Exists
<1>9. CASE IfUp(p)
  <2>1. /\ UNCHANGED <<device, traps, tty>> /\ up' = up \union {device[p]} /\ Exists(device[p])
        /\ pc[p] = "ifup" /\ pc' = [pc EXCEPT ![p] = "pause"]
    BY <1>9 DEF IfUp
  <2>2. traps[p] = Len(Signals)
    BY <2>1 DEF IInv, Restoring, AfterTrap
  <2>3. \A q \in Procs : pc[q] \in {"pause", "c_down"} => pc'[q] = pc[q]
    BY <1>0, <2>1 DEF TypeOK
  <2>4. pc'[p] = "pause"
    BY <1>0, <2>1 DEF TypeOK
  <2>. QED BY <1>0, <2>1, <2>2, <2>3, <2>4 DEF Kept, Keeper, Exists
<1>10. CASE \E n \in 1 .. Len(Signals) : Signal(p, Signals[n])
  BY <1>0, <1>10, KeptStays DEF Signal, TypeOK
<1>11. CASE \E n \in 1 .. Len(Signals) : Killed(p, Signals[n])
  <2>1. traps[p] # Len(Signals)
    BY <1>0, <1>11, Unhandled DEF Killed
  <2>. QED BY <1>0, <1>11, <2>1, KeptStays DEF Killed, TypeOK
<1>12. CASE IfDown(p)
  <2>1. /\ UNCHANGED <<device, traps, tty>> /\ pc[p] = "c_down"
        /\ up' = IF Exists(device[p]) THEN up \ {device[p]} ELSE up
        /\ \A q \in Procs : q # p => pc'[q] = pc[q]
    BY <1>0, <1>12 DEF IfDown, TypeOK
  <2>2. ASSUME NEW i \in up' \ InitiallyUp PROVE Keeper(i)'
    <3>1. i \in up \ InitiallyUp /\ (Exists(device[p]) => i # device[p])
      BY <2>1
    <3>2. PICK q \in Procs : /\ device[q] = i /\ traps[q] = Len(Signals)
                             /\ pc[q] \in {"pause", "c_down"} /\ Exists(i)
      BY <1>0, <3>1 DEF Kept, Keeper
    <3>3. q # p
      BY <3>1, <3>2
    <3>. QED BY <2>1, <3>2, <3>3 DEF Keeper, Exists
  <2>. QED BY <2>2 DEF Kept
<1>13. CASE RestoreDisc(p)
  <2>1. /\ UNCHANGED <<device, traps, up>> /\ pc[p] = "c_disc"
        /\ \A q \in Procs : q # p => pc'[q] = pc[q] /\ tty'[q] = tty[q]
    BY <1>0, <1>13 DEF RestoreDisc, TypeOK
  <2>2. ASSUME NEW i \in up' \ InitiallyUp PROVE Keeper(i)'
    <3>1. PICK q \in Procs : /\ device[q] = i /\ traps[q] = Len(Signals)
                             /\ pc[q] \in {"pause", "c_down"} /\ Exists(i)
      BY <1>0, <2>1 DEF Kept, Keeper
    <3>2. q # p /\ (i \in Procs => i = q)
      BY <2>1, <3>1 DEF IInv
    <3>. QED BY <2>1, <3>1, <3>2 DEF Keeper, Exists
  <2>. QED BY <2>2 DEF Kept
<1>14. CASE RestoreTermios(p)
  <2>1. /\ UNCHANGED <<device, traps, up>> /\ pc[p] = "c_term"
        /\ \A q \in Procs : q # p => pc'[q] = pc[q]
        /\ \A q \in Procs : "disc" \in tty[q] => "disc" \in tty'[q]
    BY <1>0, <1>14 DEF RestoreTermios, TypeOK
  <2>. QED BY <1>0, <2>1 DEF Kept, Keeper, Exists
<1>15. CASE CloseTty(p) \/ ForgetTty(p) \/ Unlink(p)
  BY <1>0, <1>15, KeptStays DEF CloseTty, ForgetTty, Unlink, TypeOK
<1>. QED BY <1>1, <1>2, <1>3, <1>4, <1>5, <1>6, <1>7, <1>8, <1>9, <1>10, <1>11, <1>12,
            <1>13, <1>14, <1>15, Zenon DEF Step

-----------------------------------------------------------------------------
(* IInv holds at first and every step of every instance keeps it.          *)
THEOREM Inductive == Spec => []IInv
<1>1. ASSUME IInv, [Next]_vars PROVE IInv'
  <2>1. CASE Next
    <3>1. PICK p \in Procs : Step(p)
      BY <2>1 DEF Next
    <3>2. TypeOK /\ Managed /\ \A q \in Procs : Restoring(q)
      BY <1>1 DEF IInv, Managed
    <3>3. TypeOK'
      BY <3>1, <3>2, TypeStep
    <3>4. Managed'
      BY <3>1, <3>2, ManagedStep
    <3>5. \A q \in Procs : Restoring(q)'
      BY <3>1, <3>2, RestoringStep
    <3>6. Kept'
      BY <1>1, <3>1, KeptStep
    <3>. QED BY <3>3, <3>4, <3>5, <3>6 DEF IInv, Managed, Kept
  <2>2. CASE UNCHANGED vars
    <3>. USE <1>1, <2>2 DEF IInv, vars
    <3>1. TypeOK' /\ OneManager'
      BY DEF TypeOK, OneManager
    <3>2. \A p \in Procs : (Restoring(p) /\ Scanning(p) /\ (device[p] \in Procs => device[p] = p))'
      BY DEF Restoring, Scanning
    <3>3. (\A i \in up \ InitiallyUp : Keeper(i))'
      BY DEF Keeper, Exists
    <3>. QED BY <3>1, <3>2, <3>3
  <2>. QED BY <1>1, <2>1, <2>2
<1>. QED BY InitIInv, <1>1, PTL DEF Spec

(* The variables of every instance keep their types.                       *)
THEOREM TypeCorrect == Spec => []TypeOK
<1>1. IInv => TypeOK
  BY DEF IInv
<1>. QED BY Inductive, <1>1, PTL

(* cleanup() puts the tty back, whatever interrupted the instance: what is *)
(* set on it has been saved, and an end comes after all it restores.       *)
THEOREM TtyPutBack == Spec => []TtyRestored
<1>1. ASSUME IInv PROVE TtyRestored
  <2>. SUFFICES ASSUME NEW p \in Procs, pc[p] \in EndPcs PROVE tty[p] = {}
    BY DEF TtyRestored
  <2>1. tty[p] \subseteq {"disc", "term"}
    BY <1>1 DEF IInv, TypeOK
  <2>2. "term" \notin tty[p] /\ "disc" \notin tty[p]
    BY <1>1 DEF IInv, Restoring, AfterTrap
  <2>. QED BY <2>1, <2>2
<1>. QED BY Inductive, <1>1, PTL

(* When all have ended nothing is up that was not before: an interface     *)
(* that is up has an instance ahead of its ifdown().                       *)
THEOREM NothingStaysUp == Spec => []NothingLeftUp
<1>1. ASSUME IInv PROVE NothingLeftUp
  BY <1>1 DEF IInv, Keeper, NothingLeftUp
<1>. QED BY Inductive, <1>1, PTL

(* No two instances manage the same interface of a module.                 *)
THEOREM OneManagerEach == Spec => []OneManager
<1>1. IInv => OneManager
  BY DEF IInv
<1>. QED BY Inductive, <1>1, PTL
=============================================================================
