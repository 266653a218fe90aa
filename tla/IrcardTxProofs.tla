--------------------------- MODULE IrcardTxProofs ---------------------------
(***************************************************************************)
(* IInv is an inductive invariant of IrcardTx, for every set of frames,    *)
(* every window and every shared memory that satisfy the assumptions, when *)
(* speeds change only after the queue has been sent.                       *)
(***************************************************************************)
EXTENDS IrcardTx, SequenceTheorems, TLAPS

(* What one more frame takes from the room left.                           *)
LEMMA Distribute ==
  ASSUME NEW n \in Nat, NEW m \in Nat
  PROVE  /\ (1 + n) * m = m + n * m
         /\ n * m \in Nat
         /\ 0 * m = 0 /\ (1 + 0) * m = m /\ 1 * m = m
         /\ (n + 1) * m = m + n * m
  BY Z3

LEMMA TakesRoom ==
  ASSUME NEW a \in Nat, NEW b \in Nat, NEW c \in Nat, NEW s \in Nat,
         a + (b + c) <= s
  PROVE  a + b <= s
  BY Z3

LEMMA Monotone ==
  ASSUME NEW n \in Nat, NEW k \in Nat, NEW m \in Nat, n <= k
  PROVE  n * m <= k * m
  BY Z3

LEMMA QueueFields ==
  ASSUME TypeOK
  PROVE  /\ tx_q.ptr \in Nat /\ tx_q.len \in Int /\ tx_q.free \in 0 .. MaxWindow
         /\ tx_q.tail \in 0 .. ShmSize
         /\ tx_q.queue \in [Slots -> Region]
         /\ tx_q = [ptr |-> tx_q.ptr, len |-> tx_q.len, free |-> tx_q.free,
                    tail |-> tx_q.tail, queue |-> tx_q.queue]
  BY DEF TypeOK

(* The fields of tx_q after each of the three operations on it.            *)
LEMMA ResetFields ==
  ASSUME TypeOK
  PROVE  LET q == ResetQueue(tx_q) IN
         /\ q.ptr = 0 /\ q.len = 0 /\ q.free = 0 /\ q.tail = 0
         /\ q.queue = tx_q.queue
         /\ q \in [ptr : Nat, len : Int, free : 0 .. MaxWindow,
                   tail : 0 .. ShmSize, queue : [Slots -> Region]]
  BY WindowAssumption DEF TypeOK, ResetQueue

LEMMA RetireFields ==
  ASSUME TypeOK
  PROVE  LET q == Retire(tx_q) IN
         /\ q.ptr = tx_q.ptr + 1 /\ q.len = tx_q.len - 1
         /\ q.free = tx_q.free /\ q.tail = tx_q.tail
         /\ q.queue = tx_q.queue
         /\ q \in [ptr : Nat, len : Int, free : 0 .. MaxWindow,
                   tail : 0 .. ShmSize, queue : [Slots -> Region]]
  BY DEF TypeOK, Retire

LEMMA RegisterFields ==
  ASSUME TypeOK, NEW f \in Frames, tx_q.free < MaxWindow,
         tx_q.tail + MaxFrame <= ShmSize
  PROVE  LET q == Register(tx_q, f) IN
         /\ q.ptr = tx_q.ptr /\ q.len = tx_q.len + 1
         /\ q.free = tx_q.free + 1 /\ q.tail = tx_q.tail + Size[f]
         /\ Size[f] \in 1 .. MaxFrame
         /\ q.queue[tx_q.free] = [start |-> tx_q.tail, len |-> Size[f]]
         /\ \A i \in Slots : i # tx_q.free => q.queue[i] = tx_q.queue[i]
         /\ q \in [ptr : Nat, len : Int, free : 0 .. MaxWindow,
                   tail : 0 .. ShmSize, queue : [Slots -> Region]]
  <1>1. Size[f] \in 1 .. MaxFrame
    BY FrameAssumption
  <1>2. tx_q.free \in Slots
    BY WindowAssumption DEF TypeOK, Slots
  <1>3. [start |-> tx_q.tail, len |-> Size[f]] \in Region
    BY <1>1, WindowAssumption, FrameAssumption DEF TypeOK, Region
  <1> DEFINE at == [start |-> tx_q.tail, len |-> Size[f]]
             slots == [tx_q.queue EXCEPT ![tx_q.free] = at]
  <1>4. Register(tx_q, f) = [ptr |-> tx_q.ptr, len |-> tx_q.len + 1,
                             free |-> tx_q.free + 1,
                             tail |-> tx_q.tail + Size[f], queue |-> slots]
    BY QueueFields DEF Register
  <1>5. slots \in [Slots -> Region]
    BY <1>2, <1>3, QueueFields
  <1>6. slots[tx_q.free] = at
    BY <1>2, QueueFields
  <1>7. \A i \in Slots : i # tx_q.free => slots[i] = tx_q.queue[i]
    BY QueueFields
  <1>8. /\ tx_q.ptr \in Nat /\ tx_q.len + 1 \in Int
        /\ tx_q.free + 1 \in 0 .. MaxWindow
    BY QueueFields, WindowAssumption
  <1>9. tx_q.tail + Size[f] \in 0 .. ShmSize
    BY <1>1, QueueFields, WindowAssumption, FrameAssumption
  <1> HIDE DEF at, slots
  <1>10. Register(tx_q, f) \in [ptr : Nat, len : Int, free : 0 .. MaxWindow,
                                tail : 0 .. ShmSize, queue : [Slots -> Region]]
    BY <1>4, <1>5, <1>8, <1>9
  <1>11. /\ Register(tx_q, f).ptr = tx_q.ptr
         /\ Register(tx_q, f).len = tx_q.len + 1
         /\ Register(tx_q, f).free = tx_q.free + 1
         /\ Register(tx_q, f).tail = tx_q.tail + Size[f]
         /\ Register(tx_q, f).queue = slots
    BY <1>4
  <1>12. QED
    BY <1>1, <1>6, <1>7, <1>10, <1>11 DEF at

-----------------------------------------------------------------------------
LEMMA InitIInv == Init => IInv
  <1> SUFFICES ASSUME Init PROVE IInv
    OBVIOUS
  <1>1. EmptyQueue \in [ptr : Nat, len : Int, free : 0 .. MaxWindow,
                        tail : 0 .. ShmSize, queue : [Slots -> Region]]
    BY WindowAssumption DEF EmptyQueue, Idle, Region
  <1>2. TypeOK
    <2>1. Len(<<>>) <= MaxWindow /\ <<>> \in Seq(Frames)
      BY WindowAssumption
    <2>2. [a \in 0 .. ShmSize - 1 |-> None] \in [0 .. ShmSize - 1 -> Frames \union {None}]
      OBVIOUS
    <2>3. 0 \in 0 .. BogusMax + 2
      BY SpeedAssumption
    <2>4. Idle \in Region
      BY DEF Idle, Region
    <2>5. /\ txqueue \in Seq(Frames) /\ Len(txqueue) <= MaxWindow
          /\ tx_q \in [ptr : Nat, len : Int, free : 0 .. MaxWindow,
                      tail : 0 .. ShmSize, queue : [Slots -> Region]]
      <3>1. txqueue = <<>> /\ tx_q = EmptyQueue
        BY DEF Init
      <3>2. QED
        BY <1>1, <2>1, <3>1
    <2>6. /\ shm \in [0 .. ShmSize - 1 -> Frames \union {None}]
          /\ bogus \in 0 .. BogusMax + 2 /\ air \in Region
      <3>1. /\ shm = [a \in 0 .. ShmSize - 1 |-> None]
            /\ bogus = 0 /\ air = Idle
        BY DEF Init
      <3>2. QED
        BY <2>2, <2>3, <2>4, <3>1
    <2>7. tbusy \in BOOLEAN /\ stop \in BOOLEAN
      <3>1. tbusy = FALSE
        BY DEF Init
      <3>2. stop = FALSE
        BY DEF Init
      <3>3. tbusy \in BOOLEAN
        BY <3>1, Zenon
      <3>4. stop \in BOOLEAN
        BY <3>2, Zenon
      <3>5. QED
        BY <3>3, <3>4
    <2>8. /\ irq = "none" /\ card = "up" /\ mcr = {} /\ cond = {} /\ out = None
          /\ xmit = "idle" /\ skb = None /\ speed = 9600
      BY DEF Init
    <2>9. QED
      BY <2>5, <2>6, <2>7, <2>8 DEF TypeOK
  <1>3. ~IsFir(speed)
    BY SpeedAssumption DEF Init, IsFir
  <1>4. QED
    BY <1>2, <1>3 DEF Init, IInv, QueueInBounds, Room, HandlersOK, ChipOK,
                      SendingOK, TurnOK, FirUp

(* The bounds depend on these variables only.                              *)
LEMMA BoundsUnchanged ==
  ASSUME IInv, UNCHANGED <<txqueue, tx_q, speed>>, Entering' = Entering,
         card' = "up" => card = "up"
  PROVE  QueueInBounds' /\ Room'
  BY DEF IInv, QueueInBounds, Room, FirUp

LEMMA SameEntering ==
  ASSUME UNCHANGED xmit
  PROVE  Entering' = Entering
  BY DEF Entering

LEMMA XmitUnlockIInv == IInv /\ XmitUnlock => IInv'
  <1> SUFFICES ASSUME IInv, XmitUnlock PROVE IInv'
    OBVIOUS
  <1>1. TypeOK'
    <2>1. xmit' = "idle" /\ skb' = None /\ tbusy' = FALSE
      BY DEF XmitUnlock
    <2>2. UNCHANGED <<txqueue, tx_q, speed, stop, irq, bogus, card, mcr, air, cond, shm, out>>
      BY DEF XmitUnlock, chipVars
    <2>3. tbusy' \in BOOLEAN
      BY <2>1, Zenon
    <2>4. QED
      BY <2>1, <2>2, <2>3 DEF IInv, TypeOK
  <1>2. QueueInBounds' /\ Room'
    BY BoundsUnchanged DEF XmitUnlock, Entering
  <1>3. HandlersOK' /\ ChipOK'
    BY DEF IInv, TypeOK, XmitUnlock, HandlersOK, ChipOK, FirUp, chipVars
  <1>4. SendingOK' /\ TurnOK'
    BY QueueFields DEF IInv, XmitUnlock, ChipOK, SendingOK, TurnOK, FirUp, chipVars
  <1>5. QED
    BY <1>1, <1>2, <1>3, <1>4 DEF IInv

LEMMA ChipSentIInv == IInv /\ ChipSent => IInv'
  <1> SUFFICES ASSUME IInv, ChipSent PROVE IInv'
    OBVIOUS
  <1>1. TypeOK'
    BY SpeedAssumption DEF IInv, TypeOK, ChipSent, stackVars, Idle, Region, Content
  <1>2. QueueInBounds' /\ Room'
    BY BoundsUnchanged, SameEntering DEF ChipSent, stackVars
  <1>3. HandlersOK' /\ ChipOK'
    BY DEF IInv, TypeOK, ChipSent, HandlersOK, ChipOK, FirUp, stackVars
  <1>4. SendingOK' /\ TurnOK'
    BY QueueFields DEF IInv, ChipSent, ChipOK, SendingOK, TurnOK, FirUp, stackVars
  <1>5. QED
    BY <1>1, <1>2, <1>3, <1>4 DEF IInv

LEMMA ChipUnderrunIInv == IInv /\ ChipUnderrun => IInv'
  <1> SUFFICES ASSUME IInv, ChipUnderrun PROVE IInv'
    OBVIOUS
  <1>1. TypeOK'
    BY SpeedAssumption DEF IInv, TypeOK, ChipUnderrun, stackVars, Idle, Region
  <1>2. QueueInBounds' /\ Room'
    BY BoundsUnchanged, SameEntering DEF ChipUnderrun, stackVars
  <1>3. HandlersOK' /\ ChipOK'
    BY DEF IInv, TypeOK, ChipUnderrun, HandlersOK, ChipOK, FirUp, stackVars
  <1>4. SendingOK' /\ TurnOK'
    BY QueueFields DEF IInv, ChipUnderrun, ChipOK, SendingOK, TurnOK, FirUp, stackVars
  <1>5. QED
    BY <1>1, <1>2, <1>3, <1>4 DEF IInv

LEMMA ChipReceivedIInv == IInv /\ ChipReceived => IInv'
  <1> SUFFICES ASSUME IInv, ChipReceived PROVE IInv'
    OBVIOUS
  <1>1. TypeOK'
    BY SpeedAssumption DEF IInv, TypeOK, ChipReceived, stackVars
  <1>2. QueueInBounds' /\ Room'
    BY BoundsUnchanged, SameEntering DEF ChipReceived, stackVars
  <1>3. HandlersOK' /\ ChipOK'
    BY DEF IInv, TypeOK, ChipReceived, HandlersOK, ChipOK, FirUp, stackVars
  <1>4. SendingOK' /\ TurnOK'
    BY QueueFields DEF IInv, ChipReceived, ChipOK, SendingOK, TurnOK, FirUp, stackVars
  <1>5. QED
    BY <1>1, <1>2, <1>3, <1>4 DEF IInv

LEMMA IrqEnterIInv == IInv /\ IrqEnter => IInv'
  <1> SUFFICES ASSUME IInv, IrqEnter PROVE IInv'
    OBVIOUS
  <1>1. TypeOK'
    BY SpeedAssumption DEF IInv, TypeOK, IrqEnter, stackVars, chipVars
  <1>2. QueueInBounds' /\ Room'
    BY BoundsUnchanged, SameEntering DEF IrqEnter, stackVars
  <1>3. HandlersOK' /\ ChipOK'
    BY DEF IInv, TypeOK, IrqEnter, HandlersOK, ChipOK, FirUp, stackVars, chipVars
  <1>4. SendingOK' /\ TurnOK'
    BY QueueFields DEF IInv, IrqEnter, ChipOK, SendingOK, TurnOK, FirUp, stackVars, chipVars
  <1>5. QED
    BY <1>1, <1>2, <1>3, <1>4 DEF IInv

LEMMA IrqLockIInv == IInv /\ IrqLock => IInv'
  <1> SUFFICES ASSUME IInv, IrqLock PROVE IInv'
    OBVIOUS
  <1>1. TypeOK'
    BY SpeedAssumption DEF IInv, TypeOK, IrqLock, stackVars, chipVars
  <1>2. QueueInBounds' /\ Room'
    BY BoundsUnchanged, SameEntering DEF IrqLock, stackVars
  <1>3. HandlersOK' /\ ChipOK'
    BY DEF IInv, TypeOK, IrqLock, HandlersOK, ChipOK, FirUp, stackVars, chipVars
  <1>4. SendingOK' /\ TurnOK'
    BY QueueFields DEF IInv, IrqLock, ChipOK, SendingOK, TurnOK, FirUp, stackVars, chipVars
  <1>5. QED
    BY <1>1, <1>2, <1>3, <1>4 DEF IInv

LEMMA IrqExitIInv == IInv /\ IrqExit => IInv'
  <1> SUFFICES ASSUME IInv, IrqExit PROVE IInv'
    OBVIOUS
  <1>1. TypeOK'
    BY SpeedAssumption DEF IInv, TypeOK, IrqExit, stackVars, chipVars
  <1>2. QueueInBounds' /\ Room'
    BY BoundsUnchanged, SameEntering DEF IrqExit, stackVars
  <1>3. HandlersOK' /\ ChipOK'
    BY DEF IInv, TypeOK, IrqExit, HandlersOK, ChipOK, FirUp, stackVars, chipVars
  <1>4. SendingOK' /\ TurnOK'
    BY QueueFields DEF IInv, IrqExit, ChipOK, SendingOK, TurnOK, FirUp, stackVars, chipVars
  <1>5. QED
    BY <1>1, <1>2, <1>3, <1>4 DEF IInv

LEMMA CardRemovalIInv == IInv /\ CardRemoval => IInv'
  <1> SUFFICES ASSUME IInv, CardRemoval PROVE IInv'
    OBVIOUS
  <1>1. TypeOK'
    BY SpeedAssumption DEF IInv, TypeOK, CardRemoval, stackVars, chipVars
  <1>2. QueueInBounds' /\ Room'
    BY BoundsUnchanged, SameEntering DEF CardRemoval, stackVars
  <1>3. HandlersOK' /\ ChipOK'
    BY DEF IInv, TypeOK, CardRemoval, HandlersOK, ChipOK, FirUp, stackVars, chipVars
  <1>4. SendingOK' /\ TurnOK'
    BY QueueFields DEF IInv, CardRemoval, ChipOK, SendingOK, TurnOK, FirUp, stackVars, chipVars
  <1>5. QED
    BY <1>1, <1>2, <1>3, <1>4 DEF IInv

LEMMA IrqRxIInv == IInv /\ IrqRx => IInv'
  <1> SUFFICES ASSUME IInv, IrqRx PROVE IInv'
    OBVIOUS
  <1>1. TypeOK'
    BY SpeedAssumption DEF IInv, TypeOK, IrqRx, stackVars, Iterate
  <1>2. QueueInBounds' /\ Room'
    BY BoundsUnchanged, SameEntering DEF IrqRx, stackVars
  <1>3. HandlersOK' /\ ChipOK'
    BY DEF IInv, TypeOK, IrqRx, HandlersOK, ChipOK, FirUp, stackVars, Iterate, MsrShows
  <1>4. SendingOK' /\ TurnOK'
    BY QueueFields DEF IInv, IrqRx, ChipOK, SendingOK, TurnOK, FirUp, stackVars, Iterate, MsrShows
  <1>5. QED
    BY <1>1, <1>2, <1>3, <1>4 DEF IInv

LEMMA ResetPhysicalIInv == IInv /\ ResetPhysical => IInv'
  <1> SUFFICES ASSUME IInv, ResetPhysical PROVE IInv'
    OBVIOUS
  <1>1. TypeOK'
    BY SpeedAssumption DEF IInv, TypeOK, ResetPhysical, stackVars, Idle, Region
  <1>2. QueueInBounds' /\ Room'
    BY BoundsUnchanged, SameEntering DEF ResetPhysical, stackVars
  <1>3. HandlersOK' /\ ChipOK'
    BY DEF IInv, TypeOK, ResetPhysical, HandlersOK, ChipOK, FirUp, stackVars
  <1>4. SendingOK' /\ TurnOK'
    BY QueueFields DEF IInv, ResetPhysical, ChipOK, SendingOK, TurnOK, FirUp, stackVars
  <1>5. QED
    BY <1>1, <1>2, <1>3, <1>4 DEF IInv

LEMMA YankIInv == IInv /\ Yank => IInv'
  <1> SUFFICES ASSUME IInv, Yank PROVE IInv'
    OBVIOUS
  <1>1. TypeOK'
    BY SpeedAssumption DEF IInv, TypeOK, Yank, stackVars, Idle, Region
  <1>2. QueueInBounds' /\ Room'
    BY BoundsUnchanged, SameEntering DEF Yank, stackVars
  <1>3. HandlersOK' /\ ChipOK'
    BY DEF IInv, TypeOK, Yank, HandlersOK, ChipOK, FirUp, stackVars
  <1>4. SendingOK' /\ TurnOK'
    BY QueueFields DEF IInv, Yank, ChipOK, SendingOK, TurnOK, FirUp, stackVars
  <1>5. QED
    BY <1>1, <1>2, <1>3, <1>4 DEF IInv

-----------------------------------------------------------------------------
(* Frames arrive in an empty device queue: on a working FIR card tx_q has  *)
(* just been reset, so the turn fits.                                      *)
LEMMA TurnLength ==
  ASSUME NEW fs \in Turns
  PROVE  fs \in Seq(Frames) /\ Len(fs) \in 1 .. Window
  <1>1. PICK n \in 1 .. Window : fs \in [1 .. n -> Frames]
    BY DEF Turns
  <1>2. n \in Nat
    BY WindowAssumption
  <1>3. QED
    BY <1>1, <1>2

LEMMA StartTurnIInv ==
  ASSUME IInv, NEW fs \in Turns, StartTurn(fs)
  PROVE  IInv'
  <1>1. /\ txqueue' = fs /\ fs # <<>>
        /\ UNCHANGED <<xmit, skb, tbusy, tx_q, speed, stop, irq, bogus, card,
                       mcr, air, cond, shm, out>>
        /\ card = "up" /\ Quiet
    BY TurnLength DEF StartTurn, chipVars
  <1>2. fs \in Seq(Frames) /\ Len(fs) \in 1 .. Window
    BY TurnLength
  <1>3. TypeOK'
    BY <1>1, <1>2, WindowAssumption DEF IInv, TypeOK
  <1>4. Entering' = 0 /\ xmit = "idle" /\ txqueue = <<>>
    BY <1>1 DEF Entering, Quiet
  <1>5. QueueInBounds' /\ Room'
    <2> SUFFICES ASSUME IsFir(speed) PROVE QueueInBounds' /\ Room'
      BY <1>1 DEF QueueInBounds, Room, FirUp
    <2>1. tx_q.len = 0 /\ tx_q.free = 0 /\ tx_q.tail = 0 /\ tx_q.ptr = 0
      BY <1>1, <1>4, QueueFields
      DEF IInv, TurnOK, FirUp, Quiet, QueueInBounds
    <2>2. Len(fs) * MaxFrame <= ShmSize
      BY <1>2, Monotone, Distribute, WindowAssumption, FrameAssumption
    <2>3. 0 + (0 + Len(fs)) * MaxFrame = Len(fs) * MaxFrame
      BY <1>2, Distribute, FrameAssumption
    <2>4. 0 + 0 + Len(fs) <= Window /\ Window < MaxWindow /\ 0 + 0 + Len(fs) <= MaxWindow
      BY <1>2, WindowAssumption
    <2>5. QED
      BY <1>1, <1>4, <2>1, <2>2, <2>3, <2>4 DEF QueueInBounds, Room
  <1>6. HandlersOK' /\ ChipOK' /\ SendingOK' /\ TurnOK'
    BY <1>1 DEF IInv, HandlersOK, ChipOK, SendingOK, TurnOK, FirUp
  <1>7. QED
    BY <1>3, <1>5, <1>6 DEF IInv

LEMMA PollIInv ==
  ASSUME IInv, NEW f \in Frames, Poll(f)
  PROVE  IInv'
  <1>1. /\ txqueue' = <<f>> /\ card # "up" /\ xmit = "idle"
        /\ tx_q.free < MaxWindow /\ tx_q.tail + MaxFrame <= ShmSize
        /\ UNCHANGED <<xmit, skb, tbusy, tx_q, speed, stop, irq, bogus, card,
                       mcr, air, cond, shm, out>>
    BY DEF Poll, chipVars
  <1>2. <<f>> \in Seq(Frames) /\ Len(<<f>>) = 1
    OBVIOUS
  <1>3. TypeOK'
    BY <1>1, <1>2, WindowAssumption DEF IInv, TypeOK
  <1>4. Entering' = 0 /\ (0 + 1) * MaxFrame = MaxFrame
    BY <1>1, FrameAssumption DEF Entering
  <1>5. QueueInBounds' /\ Room'
    BY <1>1, <1>2, <1>4, QueueFields, WindowAssumption
    DEF IInv, QueueInBounds, Room, FirUp
  <1>6. HandlersOK' /\ ChipOK' /\ SendingOK' /\ TurnOK'
    BY <1>1 DEF IInv, HandlersOK, ChipOK, SendingOK, TurnOK, FirUp
  <1>7. QED
    BY <1>3, <1>5, <1>6 DEF IInv

LEMMA SirXmitIInv == IInv /\ SirXmit => IInv'
  <1> SUFFICES ASSUME IInv, SirXmit PROVE IInv'
    OBVIOUS
  <1>1. ~IsFir(speed) /\ ~IsFir(speed')
    BY DEF SirXmit
  <1>2. TypeOK'
    <2>1. txqueue' = Tail(txqueue) /\ txqueue # <<>>
      BY DEF SirXmit
    <2>2. Tail(txqueue) \in Seq(Frames) /\ Len(Tail(txqueue)) <= MaxWindow
      BY <2>1, WindowAssumption DEF IInv, TypeOK
    <2>3. QED
      BY <2>1, <2>2 DEF IInv, TypeOK, SirXmit, chipVars
  <1>3. QueueInBounds' /\ Room' /\ SendingOK' /\ TurnOK'
    BY <1>1 DEF QueueInBounds, Room, SendingOK, TurnOK, FirUp
  <1>4. HandlersOK' /\ ChipOK'
    BY DEF IInv, SirXmit, chipVars, HandlersOK, ChipOK, FirUp
  <1>5. QED
    BY <1>2, <1>3, <1>4 DEF IInv

(* A frame moves from the device queue into hard_xmit.                     *)
LEMMA XmitLockIInv == IInv /\ XmitLock => IInv'
  <1> SUFFICES ASSUME IInv, XmitLock PROVE IInv'
    OBVIOUS
  <1>1. /\ xmit = "idle" /\ txqueue # <<>> /\ IsFir(speed)
        /\ xmit' = "locked" /\ skb' = Head(txqueue) /\ txqueue' = Tail(txqueue)
        /\ tbusy' = TRUE
        /\ UNCHANGED <<tx_q, speed, stop, irq, bogus, card, mcr, air, cond, shm, out>>
    BY DEF XmitLock, chipVars
  <1>2. /\ txqueue \in Seq(Frames) /\ Len(txqueue) \in Nat
        /\ Len(txqueue') = Len(txqueue) - 1 /\ txqueue' \in Seq(Frames)
        /\ Head(txqueue) \in Frames
    BY <1>1 DEF IInv, TypeOK
  <1>3. tbusy' \in BOOLEAN
    BY <1>1, Zenon
  <1>4. TypeOK'
    BY <1>1, <1>2, <1>3, WindowAssumption DEF IInv, TypeOK
  <1>5. Entering = 0 /\ Entering' = 1
    BY <1>1 DEF Entering
  <1>6. 1 + Len(txqueue') = 0 + Len(txqueue) /\ Len(txqueue') \in Nat
    BY <1>2
  <1>7. QueueInBounds' /\ Room'
    <2>1. (1 + Len(txqueue')) * MaxFrame = (0 + Len(txqueue)) * MaxFrame
      BY <1>6
    <2>2. tx_q.free + 1 + Len(txqueue') = tx_q.free + 0 + Len(txqueue)
      BY <1>6, <1>2, QueueFields DEF IInv
    <2>3. QED
      BY <1>1, <1>5, <2>1, <2>2 DEF IInv, QueueInBounds, Room, FirUp
  <1>8. HandlersOK' /\ ChipOK' /\ SendingOK' /\ TurnOK'
    BY <1>1 DEF IInv, HandlersOK, ChipOK, SendingOK, TurnOK, FirUp
  <1>9. QED
    BY <1>4, <1>7, <1>8 DEF IInv

(* The frame in hard_xmit fits the queue and the shared memory.            *)
LEMMA EnteringFits ==
  ASSUME IInv, xmit = "locked"
  PROVE  tx_q.free < MaxWindow /\ tx_q.tail + MaxFrame <= ShmSize
  <1>1. IsFir(speed) /\ Entering = 1
    BY DEF IInv, HandlersOK, Entering
  <1>2. Len(txqueue) \in Nat
    BY DEF IInv, TypeOK
  <1>3. (1 + Len(txqueue)) * MaxFrame = MaxFrame + Len(txqueue) * MaxFrame
        /\ Len(txqueue) * MaxFrame \in Nat
    BY <1>2, Distribute, FrameAssumption
  <1>4. /\ tx_q.free + 1 + Len(txqueue) <= MaxWindow
        /\ tx_q.tail + (1 + Len(txqueue)) * MaxFrame <= ShmSize
    BY <1>1 DEF IInv, Room
  <1>5. tx_q.free \in Nat /\ tx_q.tail \in Nat /\ MaxFrame \in Nat /\ ShmSize \in Nat
    BY QueueFields, FrameAssumption, WindowAssumption DEF IInv
  <1>6. tx_q.tail + (MaxFrame + Len(txqueue) * MaxFrame) <= ShmSize
    BY <1>3, <1>4
  <1>7. tx_q.tail + MaxFrame <= ShmSize
    BY <1>3, <1>5, <1>6, TakesRoom
  <1>. QED
    BY <1>2, <1>4, <1>5, <1>7, WindowAssumption

(* The frame in hard_xmit becomes the last entry of tx_q; it is started    *)
(* exactly when no other one is queued.                                    *)
LEMMA XmitRegisterIInv == IInv /\ XmitRegister => IInv'
  <1> SUFFICES ASSUME IInv, XmitRegister PROVE IInv'
    OBVIOUS
  <1> DEFINE q == Register(tx_q, skb)
  <1>1. /\ xmit = "locked" /\ xmit' = "queued" /\ tx_q' = q
        /\ UNCHANGED <<txqueue, skb, tbusy, speed, stop, irq, bogus, card, cond, out>>
    BY DEF XmitRegister
  <1>2. IsFir(speed) /\ skb \in Frames /\ Entering = 1 /\ Entering' = 0
    BY <1>1 DEF IInv, HandlersOK, TypeOK, Entering
  <1>3. Len(txqueue) \in Nat
    BY DEF IInv, TypeOK
  <1>4. (1 + Len(txqueue)) * MaxFrame = MaxFrame + Len(txqueue) * MaxFrame
        /\ Len(txqueue) * MaxFrame \in Nat
        /\ (0 + Len(txqueue)) * MaxFrame = Len(txqueue) * MaxFrame
    BY <1>3, Distribute, FrameAssumption
  <1>5. tx_q.free < MaxWindow /\ tx_q.tail + MaxFrame <= ShmSize
    BY <1>1, EnteringFits
  <1>6. /\ q.ptr = tx_q.ptr /\ q.len = tx_q.len + 1
        /\ q.free = tx_q.free + 1 /\ q.tail = tx_q.tail + Size[skb]
        /\ Size[skb] \in 1 .. MaxFrame
        /\ q.queue[tx_q.free] = [start |-> tx_q.tail, len |-> Size[skb]]
        /\ \A i \in Slots : i # tx_q.free => q.queue[i] = tx_q.queue[i]
        /\ q \in [ptr : Nat, len : Int, free : 0 .. MaxWindow,
                  tail : 0 .. ShmSize, queue : [Slots -> Region]]
    BY <1>2, <1>5, RegisterFields DEF IInv
  <1>7. tx_q.free \in Slots /\ q.queue \in [Slots -> Region]
    BY <1>5, <1>6, QueueFields, WindowAssumption DEF IInv, Slots
  <1> HIDE DEF q
  <1>8. QueueInBounds' /\ Room'
    <2> DEFINE rest == Len(txqueue) * MaxFrame
    <2>1. /\ rest \in Nat /\ MaxFrame \in Nat /\ ShmSize \in Nat
          /\ tx_q.free \in Nat /\ tx_q.tail \in Nat /\ tx_q.ptr \in Nat
          /\ tx_q.len \in Int /\ Size[skb] \in Nat /\ Size[skb] <= MaxFrame
      <3>1. tx_q.ptr \in Nat /\ tx_q.len \in Int /\ tx_q.free \in 0 .. MaxWindow
            /\ tx_q.tail \in 0 .. ShmSize
        BY QueueFields DEF IInv
      <3>2. MaxFrame \in Nat /\ ShmSize \in Nat /\ MaxWindow \in Nat
        BY FrameAssumption, WindowAssumption
      <3>3. rest \in Nat
        BY <1>4
      <3>4. QED
        BY <1>6, <3>1, <3>2, <3>3
    <2>2. (Entering + Len(txqueue)) * MaxFrame = MaxFrame + rest
      BY <1>2, <1>4
    <2>3. (Entering' + Len(txqueue')) * MaxFrame = rest
      BY <1>1, <1>2, <1>4
    <2>4. tx_q.free + Entering + Len(txqueue) = q.free + Entering' + Len(txqueue')
      BY <1>1, <1>2, <1>3, <1>6, <2>1
    <2> HIDE DEF rest
    <2>5. ASSUME tx_q.tail + (Entering + Len(txqueue)) * MaxFrame <= ShmSize
          PROVE  q.tail + (Entering' + Len(txqueue')) * MaxFrame <= ShmSize
      <3>1. tx_q.tail + (MaxFrame + rest) <= ShmSize
        BY <2>2, <2>5
      <3>2. q.tail = tx_q.tail + Size[skb]
        BY <1>6
      <3>3. q.tail + rest <= ShmSize
        BY <2>1, <3>1, <3>2
      <3>4. QED
        BY <2>3, <3>3
    <2>6. Room'
      BY <1>1, <1>2, <2>4, <2>5 DEF IInv, Room
    <2>7. ASSUME tx_q.len >= 0, tx_q.ptr + tx_q.len = tx_q.free
          PROVE  q.len >= 0 /\ q.ptr + q.len = q.free
      BY <1>6, <2>1, <2>7
    <2>8. QueueInBounds'
      BY <1>1, <2>4, <2>5, <2>7 DEF IInv, QueueInBounds, FirUp
    <2>9. QED
      BY <2>6, <2>8
  <1>9. CASE card = "up"
    <2>1. FirUp /\ FirUp'
      BY <1>1, <1>2, <1>9 DEF FirUp
    <2>2. /\ tx_q.len >= 0 /\ tx_q.ptr + tx_q.len = tx_q.free
          /\ tx_q.len \in Nat /\ tx_q.ptr \in Nat
      BY <2>1, QueueFields DEF IInv, QueueInBounds
    <2>3. CASE tx_q.len = 0
      <3>1. /\ tx_q.ptr = tx_q.free /\ q.len = 1
            /\ StartsNow(q)
        BY <1>6, <2>2, <2>3 DEF StartsNow
      <3>2. air' = q.queue[q.ptr] /\ mcr' = {"INTR", "TX"}
        BY <1>9, <3>1 DEF XmitRegister, ircard_dma_write, q
      <3>3. air' = [start |-> tx_q.tail, len |-> Size[skb]]
        BY <1>6, <3>1, <3>2
      <3>4. air' # Idle /\ air' \in Region
        BY <1>6, <1>7, <3>1, <3>2, <3>3 DEF Idle
      <3>5. TypeOK'
        BY <1>1, <1>6, <3>2, <3>4 DEF IInv, TypeOK, XmitRegister
      <3>6. "TX" \notin cond
        BY <2>1, <2>3 DEF IInv, SendingOK
      <3>7. SendingOK'
        <4>1. \A i \in Slots : q.ptr <= i /\ i < q.free => q.queue[i].len > 0
          <5> SUFFICES ASSUME NEW i \in Slots, q.ptr <= i, i < q.free
                       PROVE  q.queue[i].len > 0
            OBVIOUS
          <5>1. i = tx_q.free
            <6>1. i \in Nat /\ tx_q.free \in Nat
              BY <1>7, WindowAssumption DEF Slots
            <6>2. tx_q.free <= i /\ i < tx_q.free + 1
              BY <1>6, <3>1
            <6>3. QED
              BY <6>1, <6>2
          <5>2. QED
            BY <1>6, <5>1, FrameAssumption
        <4>2. QED
          BY <1>1, <1>6, <3>1, <3>2, <3>4, <3>6, <4>1 DEF SendingOK
      <3>8. HandlersOK' /\ ChipOK' /\ TurnOK'
        BY <1>1, <1>6, <2>1, <3>1, <3>2, <3>6
        DEF IInv, HandlersOK, ChipOK, TurnOK, FirUp
      <3>9. QED
        BY <1>8, <3>5, <3>7, <3>8 DEF IInv
    <2>4. CASE tx_q.len # 0
      <3>1. q.len > 1 /\ ~StartsNow(q) /\ tx_q.len > 0
        BY <1>6, <2>2, <2>4 DEF StartsNow
      <3>2. UNCHANGED <<air, mcr>>
        BY <3>1 DEF XmitRegister, q
      <3>3. TypeOK'
        BY <1>1, <1>6, <3>2 DEF IInv, TypeOK, XmitRegister
      <3>4. q.queue[q.ptr] = tx_q.queue[tx_q.ptr]
        <4>1. tx_q.ptr < tx_q.free /\ tx_q.free \in 0 .. MaxWindow
          BY <2>2, <3>1, QueueFields DEF IInv
        <4>2. tx_q.ptr \in Slots /\ tx_q.ptr # tx_q.free
          BY <2>2, <4>1, WindowAssumption DEF Slots
        <4>3. QED
          BY <1>6, <4>2
      <3>5. SendingOK'
        <4>1. \A i \in Slots : q.ptr <= i /\ i < q.free => q.queue[i].len > 0
          <5> SUFFICES ASSUME NEW i \in Slots, q.ptr <= i, i < q.free
                       PROVE  q.queue[i].len > 0
            OBVIOUS
          <5>1. CASE i = tx_q.free
            BY <1>6, <5>1, FrameAssumption
          <5>2. CASE i # tx_q.free
            <6>1. tx_q.ptr <= i /\ i < tx_q.free /\ q.queue[i] = tx_q.queue[i]
              BY <1>6, <5>2, QueueFields, WindowAssumption DEF IInv, Slots
            <6>2. QED
              BY <2>1, <6>1 DEF IInv, SendingOK
          <5>3. QED
            BY <5>1, <5>2
        <4>2. /\ "INTR" \in mcr /\ mcr = {"INTR", "TX"}
              /\ air # Idle \/ "TX" \in cond
              /\ "TX" \in cond => air = Idle
              /\ air # Idle => air = tx_q.queue[tx_q.ptr]
          BY <2>1, <3>1 DEF IInv, SendingOK
        <4>3. q.len > 0
          BY <3>1, <1>6
        <4>4. QED
          BY <1>1, <3>2, <3>4, <4>1, <4>2, <4>3 DEF SendingOK
      <3>6. HandlersOK' /\ ChipOK' /\ TurnOK'
        BY <1>1, <1>6, <2>1, <3>1, <3>2
        DEF IInv, HandlersOK, ChipOK, TurnOK, FirUp
      <3>7. QED
        BY <1>8, <3>3, <3>5, <3>6 DEF IInv
    <2>5. QED
      BY <2>3, <2>4
  <1>10. CASE card # "up"
    <2>1. ~FirUp /\ ~FirUp'
      BY <1>1, <1>10 DEF FirUp
    <2>2. UNCHANGED <<air, mcr>>
      BY <1>10 DEF XmitRegister, ircard_dma_write
    <2>3. TypeOK'
      BY <1>1, <1>6, <2>2 DEF IInv, TypeOK, XmitRegister
    <2>4. HandlersOK' /\ ChipOK' /\ TurnOK' /\ SendingOK'
      BY <1>1, <2>1, <2>2 DEF IInv, HandlersOK, ChipOK, TurnOK, SendingOK
    <2>5. QED
      BY <1>8, <2>3, <2>4 DEF IInv
  <1>11. QED
    BY <1>9, <1>10

(* Completion: the head is retired; what follows depends on tx_q and the   *)
(* device queue.                                                           *)
LEMMA IrqTxIInv == IInv /\ IrqTx => IInv'
  <1> SUFFICES ASSUME IInv, IrqTx PROVE IInv'
    OBVIOUS
  <1> DEFINE q == Retire(tx_q)
             r == ResetQueue(q)
  <1>1. /\ UNCHANGED <<txqueue, xmit, skb, speed, stop, irq, card, shm, out>>
        /\ tbusy' = FALSE
        /\ irq = "loop" /\ bogus <= BogusMax + 1 /\ bogus' = bogus + 1
        /\ card = "up" => "TX" \in cond
        /\ cond' \subseteq cond \ {"TX"}
    BY DEF IrqTx, Iterate, MsrShows, stackVars
  <1>2. tbusy' \in BOOLEAN /\ bogus' \in 0 .. BogusMax + 2
    <2>1. tbusy' \in BOOLEAN
      <3>1. tbusy' = FALSE
        BY <1>1
      <3>2. QED
        BY <3>1, Zenon
    <2>2. bogus' \in 0 .. BogusMax + 2
      BY <1>1, SpeedAssumption DEF IInv, TypeOK
    <2>3. QED
      BY <2>1, <2>2
  <1>3. /\ q.ptr = tx_q.ptr + 1 /\ q.len = tx_q.len - 1
        /\ q.free = tx_q.free /\ q.tail = tx_q.tail /\ q.queue = tx_q.queue
        /\ q \in [ptr : Nat, len : Int, free : 0 .. MaxWindow,
                  tail : 0 .. ShmSize, queue : [Slots -> Region]]
    BY RetireFields DEF IInv
  <1>4. /\ r.ptr = 0 /\ r.len = 0 /\ r.free = 0 /\ r.tail = 0
        /\ r.queue = tx_q.queue
        /\ r \in [ptr : Nat, len : Int, free : 0 .. MaxWindow,
                  tail : 0 .. ShmSize, queue : [Slots -> Region]]
    BY <1>3, WindowAssumption DEF ResetQueue
  <1>5. Entering' = Entering /\ Entering \in {0, 1}
    BY <1>1 DEF Entering
  <1>6. /\ tx_q.ptr \in Nat /\ tx_q.len \in Int /\ tx_q.free \in 0 .. MaxWindow
        /\ tx_q.tail \in 0 .. ShmSize /\ tx_q.queue \in [Slots -> Region]
    BY QueueFields DEF IInv
  <1>7. FirUp' = FirUp /\ (card = "up" => FirUp)
    BY <1>1 DEF FirUp, IInv, ChipOK
  <1>8. FirUp => /\ tx_q.len > 0 /\ air = Idle
                 /\ tx_q.ptr + tx_q.len = tx_q.free
                 /\ mcr = {"INTR", "TX"}
    BY <1>1 DEF IInv, SendingOK, QueueInBounds, FirUp
  <1>9. HandlersOK'
    BY <1>1 DEF IInv, HandlersOK
  <1>10. "TX" \notin cond' /\ cond' \subseteq {"TX", "RX"}
         /\ (card # "up" => cond' = {} /\ mcr = {})
    BY <1>1 DEF IInv, TypeOK, ChipOK
  <1> HIDE DEF q, r

  <1>11. CASE tx_q' = q /\ q.len # 0 /\ ircard_dma_write(q)
    <2>1. QueueInBounds' /\ Room'
      <3>1. FirUp => q.len >= 0 /\ q.ptr + q.len = q.free
        BY <1>3, <1>6, <1>8
      <3>2. QED
        BY <1>1, <1>3, <1>5, <1>7, <1>11, <3>1 DEF IInv, QueueInBounds, Room
    <2>2. CASE card = "up"
      <3>1. FirUp /\ FirUp'
        BY <1>7, <2>2
      <3>2. air' = q.queue[q.ptr] /\ mcr' = {"INTR", "TX"}
        BY <1>11, <2>2 DEF ircard_dma_write
      <3>3. /\ q.len > 0 /\ q.ptr < q.free
            /\ q.ptr \in Slots
        <4>1. q.len > 0 /\ q.ptr < q.free /\ q.ptr \in Nat
          BY <1>3, <1>6, <1>8, <1>11, <3>1
        <4>2. q.free \in Nat /\ q.free <= MaxWindow /\ MaxWindow \in Nat
          BY <1>3, <1>6, WindowAssumption
        <4>3. QED
          BY <4>1, <4>2 DEF Slots
      <3>4. tx_q.ptr <= q.ptr /\ q.ptr < tx_q.free
        BY <1>3, <1>6, <3>3
      <3>5. air'.len > 0 /\ air' \in Region /\ air' # Idle
        BY <1>3, <1>6, <3>1, <3>2, <3>3, <3>4 DEF IInv, SendingOK, Idle
      <3>6. TypeOK'
        BY <1>1, <1>2, <1>3, <1>10, <1>11, <3>2, <3>5 DEF IInv, TypeOK
      <3>7. \A i \in Slots : q.ptr <= i /\ i < q.free => q.queue[i].len > 0
        <4> SUFFICES ASSUME NEW i \in Slots, q.ptr <= i, i < q.free
                     PROVE  q.queue[i].len > 0
          OBVIOUS
        <4>1. i \in Nat
          BY WindowAssumption DEF Slots
        <4>2. tx_q.ptr <= i /\ i < tx_q.free
          BY <1>3, <1>6, <4>1
        <4>3. QED
          BY <1>3, <3>1, <4>2 DEF IInv, SendingOK
      <3>8. SendingOK'
        BY <1>10, <1>11, <3>2, <3>3, <3>5, <3>7 DEF SendingOK
      <3>9. ChipOK' /\ TurnOK'
        BY <1>1, <1>10, <1>11, <2>2, <3>1, <3>3 DEF ChipOK, TurnOK
      <3>10. QED
        BY <1>9, <2>1, <3>6, <3>8, <3>9 DEF IInv
    <2>3. CASE card # "up"
      <3>1. ~FirUp /\ ~FirUp'
        BY <1>7, <2>3 DEF FirUp
      <3>2. UNCHANGED <<air, mcr>>
        BY <1>11, <2>3 DEF ircard_dma_write
      <3>3. TypeOK'
        BY <1>1, <1>2, <1>3, <1>10, <1>11, <3>2 DEF IInv, TypeOK
      <3>4. ChipOK' /\ SendingOK' /\ TurnOK'
        BY <1>1, <1>10, <3>1, <3>2 DEF IInv, ChipOK, SendingOK, TurnOK
      <3>5. QED
        BY <1>9, <2>1, <3>3, <3>4 DEF IInv
    <2>4. QED
      BY <2>2, <2>3

  <1>12. CASE TurnAround(q) /\ ircard_receive(q)
    <2>1. /\ tx_q' = r /\ txqueue = <<>> /\ air' = air
          /\ mcr' = IF card = "up" THEN {"INTR", "RX"} ELSE mcr
      BY <1>12 DEF TurnAround, ircard_receive, r
    <2>2. Len(txqueue) = 0 /\ Len(txqueue') = 0
      BY <1>1, <2>1
    <2>3. (1 + 0) * MaxFrame = MaxFrame /\ (0 + 0) * MaxFrame = 0
          /\ MaxFrame <= ShmSize /\ 1 <= Window /\ 1 <= MaxWindow
          /\ MaxFrame \in Nat
      <3>1. MaxFrame \in Nat /\ Window \in Nat /\ 1 <= Window
        BY FrameAssumption, WindowAssumption
      <3>2. 1 * MaxFrame <= Window * MaxFrame /\ 1 * MaxFrame = MaxFrame
        BY <3>1, Monotone
      <3>3. QED
        BY <3>1, <3>2, WindowAssumption
    <2>4. QueueInBounds' /\ Room'
      <3>1. (Entering' + Len(txqueue')) * MaxFrame <= ShmSize
        BY <1>5, <2>2, <2>3, WindowAssumption
      <3>2. Entering' + Len(txqueue') \in {0, 1}
        BY <1>5, <2>2
      <3>3. (Entering' + Len(txqueue')) * MaxFrame \in Nat
        BY <1>5, <2>2, <2>3
      <3>4. r.free + Entering' + Len(txqueue') <= Window
            /\ r.free + Entering' + Len(txqueue') <= MaxWindow
        BY <1>4, <1>5, <2>2, <2>3, WindowAssumption
      <3>5. r.tail + (Entering' + Len(txqueue')) * MaxFrame <= ShmSize
        BY <1>4, <3>1, <3>3, WindowAssumption
      <3>6. QED
        BY <1>4, <2>1, <3>4, <3>5 DEF QueueInBounds, Room
    <2>5. air = Idle \/ ~FirUp
      BY <1>8
    <2>6. TypeOK'
      BY <1>1, <1>2, <1>4, <1>10, <2>1 DEF IInv, TypeOK
    <2>7. SendingOK'
      <3>1. FirUp => "INTR" \in mcr' /\ air' = Idle
        BY <1>8, <2>1 DEF FirUp
      <3>2. \A i \in Slots : ~(r.ptr <= i /\ i < r.free)
        BY <1>4, WindowAssumption DEF Slots
      <3>3. QED
        BY <1>4, <1>7, <1>10, <2>1, <3>1, <3>2 DEF SendingOK
    <2>8. ChipOK'
      BY <1>1, <1>7, <1>10, <2>1 DEF IInv, ChipOK
    <2>9. TurnOK'
      BY <1>4, <1>7, <2>1 DEF TurnOK, FirUp
    <2>10. QED
      BY <1>9, <2>4, <2>6, <2>7, <2>8, <2>9 DEF IInv

  <1>13. CASE /\ q.len = 0 /\ ~TurnAround(q)
              /\ tx_q' = q
              /\ mcr' = IF card = "up" THEN {"INTR"} ELSE mcr
              /\ UNCHANGED air
    <2>1. txqueue # <<>> /\ txqueue' # <<>>
      BY <1>1, <1>13 DEF TurnAround
    <2>2. FirUp => q.ptr = q.free
      BY <1>3, <1>6, <1>8, <1>13
    <2>3. QueueInBounds' /\ Room'
      <3>1. FirUp => q.len >= 0 /\ q.ptr + q.len = q.free
        BY <1>3, <1>6, <1>8, <1>13
      <3>2. QED
        BY <1>1, <1>3, <1>5, <1>7, <1>13, <3>1 DEF IInv, QueueInBounds, Room
    <2>4. TypeOK'
      BY <1>1, <1>2, <1>3, <1>10, <1>13 DEF IInv, TypeOK
    <2>5. SendingOK'
      <3>1. FirUp => "INTR" \in mcr' /\ air' = Idle
        BY <1>8, <1>13 DEF FirUp
      <3>2. FirUp => \A i \in Slots : ~(q.ptr <= i /\ i < q.free)
        BY <1>3, <1>6, <2>2, WindowAssumption DEF Slots
      <3>3. QED
        BY <1>7, <1>10, <1>13, <3>1, <3>2 DEF SendingOK
    <2>6. ChipOK' /\ TurnOK'
      BY <1>1, <1>7, <1>10, <1>13, <2>1 DEF IInv, ChipOK, TurnOK
    <2>7. QED
      BY <1>9, <2>3, <2>4, <2>5, <2>6 DEF IInv

  <1>14. QED
    BY <1>11, <1>12, <1>13 DEF IrqTx, q

-----------------------------------------------------------------------------
(* A speed change: to FIR it resets everything, to SIR it stops the chip.  *)
LEMMA SetSpeedUnlocks ==
  ASSUME NEW s, SetSpeed(s)
  PROVE  tbusy' \in BOOLEAN
  <1>1. tbusy' = FALSE
    BY DEF SetSpeed
  <1>2. QED
    BY <1>1, Zenon

LEMMA SetSpeedIInv ==
  ASSUME IInv, NEW s \in Speeds \union {9600}, SetSpeed(s), card' = "up",
         txqueue' = txqueue, xmit' = xmit, xmit = "idle", skb' = skb,
         stop' \in BOOLEAN, irq' = irq, bogus' = bogus,
         cond' = cond, "TX" \notin cond, shm' = shm, out' = out,
         IsFir(s) => txqueue = <<>>
  PROVE  IInv'
  <1> DEFINE r == ResetQueue(tx_q)
  <1>1. speed' = s /\ tbusy' = FALSE /\ air' = Idle
    BY DEF SetSpeed
  <1>2. tbusy' \in BOOLEAN /\ Idle \in Region
    <2>1. tbusy' \in BOOLEAN
      BY SetSpeedUnlocks
    <2>2. Idle \in Region
      BY DEF Idle, Region
    <2>3. QED
      BY <2>1, <2>2
  <1>3. /\ r.ptr = 0 /\ r.len = 0 /\ r.free = 0 /\ r.tail = 0
        /\ r.queue = tx_q.queue
        /\ r \in [ptr : Nat, len : Int, free : 0 .. MaxWindow,
                  tail : 0 .. ShmSize, queue : [Slots -> Region]]
    BY ResetFields DEF IInv
  <1> HIDE DEF r
  <1>4. HandlersOK'
    BY <1>1 DEF HandlersOK
  <1>5. CASE IsFir(s)
    <2>1. tx_q' = r /\ mcr' = {"INTR", "RX"}
      BY <1>5 DEF SetSpeed, r
    <2>2. TypeOK'
      BY <1>1, <1>2, <1>3, <2>1 DEF IInv, TypeOK
    <2>3. Entering' = 0 /\ Len(txqueue') = 0
      BY <1>5 DEF Entering
    <2>4. (0 + 0) * MaxFrame = 0
      BY FrameAssumption
    <2>5. QueueInBounds' /\ Room'
      BY <1>3, <2>1, <2>3, <2>4, WindowAssumption DEF QueueInBounds, Room
    <2>6. SendingOK'
      <3>1. \A i \in Slots : ~(r.ptr <= i /\ i < r.free)
        BY <1>3, WindowAssumption DEF Slots
      <3>2. QED
        BY <1>1, <1>3, <2>1, <3>1 DEF SendingOK
    <2>7. ChipOK' /\ TurnOK'
      BY <1>1, <1>3, <2>1 DEF ChipOK, TurnOK
    <2>8. QED
      BY <1>4, <2>2, <2>5, <2>6, <2>7 DEF IInv
  <1>6. CASE ~IsFir(s)
    <2>1. tx_q' = tx_q /\ mcr' = {}
      BY <1>6 DEF SetSpeed
    <2>2. ~FirUp' /\ ~IsFir(speed')
      BY <1>1, <1>6 DEF FirUp
    <2>3. TypeOK'
      BY <1>1, <1>2, <2>1 DEF IInv, TypeOK
    <2>4. QueueInBounds' /\ Room' /\ SendingOK' /\ TurnOK'
      BY <2>2 DEF QueueInBounds, Room, SendingOK, TurnOK
    <2>5. ChipOK'
      BY <1>1, <2>1 DEF ChipOK
    <2>6. QED
      BY <1>4, <2>3, <2>4, <2>5 DEF IInv
  <1>7. QED
    BY <1>5, <1>6

LEMMA ChangeSpeedIInv ==
  ASSUME QuietSpeedChange, IInv, NEW s \in Speeds, ChangeSpeed(s)
  PROVE  IInv'
  <1>1. /\ card = "up" /\ card' = "up" /\ Quiet /\ SetSpeed(s)
        /\ UNCHANGED <<txqueue, xmit, skb, stop, irq, bogus, cond, shm, out>>
    BY DEF ChangeSpeed, stackVars
  <1>2. "TX" \notin cond
    BY <1>1, QueueFields DEF IInv, ChipOK, SendingOK, FirUp, Quiet
  <1>3. txqueue = <<>> /\ xmit = "idle" /\ stop' \in BOOLEAN
    BY <1>1 DEF Quiet, IInv, TypeOK
  <1>4. QED
    BY <1>1, <1>2, <1>3, SetSpeedIInv

LEMMA CardResetIInv == IInv /\ CardReset => IInv'
  <1> SUFFICES ASSUME IInv, CardReset PROVE IInv'
    OBVIOUS
  <1>1. /\ card = "down" /\ card' = "up" /\ xmit = "idle" /\ SetSpeed(9600)
        /\ stop' = FALSE
        /\ UNCHANGED <<txqueue, xmit, skb, irq, bogus, cond, shm, out>>
    BY DEF CardReset, stackVars
  <1>2. "TX" \notin cond
    BY <1>1 DEF IInv, ChipOK
  <1>3. ~IsFir(9600)
    BY SpeedAssumption DEF IsFir
  <1>4. stop' \in BOOLEAN
    <2>1. stop' = FALSE
      BY <1>1
    <2>2. QED
      BY <2>1, Zenon
  <1>5. QED
    BY <1>1, <1>2, <1>3, <1>4, SetSpeedIInv

LEMMA CardInsertionIInv == IInv /\ CardInsertion => IInv'
  <1> SUFFICES ASSUME IInv, CardInsertion PROVE IInv'
    OBVIOUS
  <1>1. /\ card = "removed" /\ card' = "up" /\ xmit = "idle"
        /\ speed' = 9600 /\ tx_q' = ResetQueue(tx_q)
        /\ UNCHANGED <<txqueue, xmit, skb, tbusy, stop, irq, bogus, mcr, air,
                       cond, shm, out>>
    BY DEF CardInsertion, stackVars, chipVars
  <1>2. ~IsFir(speed') /\ ~FirUp' /\ ~FirUp
    BY <1>1, SpeedAssumption DEF IsFir, FirUp
  <1>3. TypeOK'
    BY <1>1, ResetFields DEF IInv, TypeOK
  <1>4. QueueInBounds' /\ Room' /\ SendingOK' /\ TurnOK'
    BY <1>2 DEF QueueInBounds, Room, SendingOK, TurnOK
  <1>5. HandlersOK' /\ ChipOK'
    BY <1>1, <1>2 DEF IInv, HandlersOK, ChipOK
  <1>6. QED
    BY <1>3, <1>4, <1>5 DEF IInv

LEMMA StutterIInv == IInv /\ UNCHANGED vars => IInv'
  BY DEF IInv, vars, TypeOK, QueueInBounds, Room, HandlersOK, ChipOK,
         SendingOK, TurnOK, FirUp, Entering

-----------------------------------------------------------------------------
(* IInv holds in every reachable state.                                    *)
THEOREM Inductive == QuietSpeedChange => (Spec => []IInv)
  <1> SUFFICES ASSUME QuietSpeedChange PROVE Spec => []IInv
    OBVIOUS
  <1>1. IInv /\ [Next]_vars => IInv'
    BY StartTurnIInv, PollIInv, SirXmitIInv, XmitLockIInv, XmitRegisterIInv,
       XmitUnlockIInv, ChipSentIInv, ChipUnderrunIInv, ChipReceivedIInv,
       IrqEnterIInv, IrqLockIInv, IrqTxIInv, IrqRxIInv, IrqExitIInv,
       ChangeSpeedIInv, ResetPhysicalIInv, CardResetIInv, YankIInv,
       CardRemovalIInv, CardInsertionIInv, StutterIInv
    DEF Next
  <1>2. QED
    BY InitIInv, <1>1, PTL DEF Spec

(* The driver's variables keep their ranges: in particular free never      *)
(* passes MAX_WINDOW and tail never leaves shared memory, card or no card. *)
THEOREM TypeCorrect == QuietSpeedChange => (Spec => []TypeOK)
  <1>1. IInv => TypeOK
    BY DEF IInv
  <1>2. QED
    BY <1>1, Inductive, PTL

(* queue[] and the shared memory hold every turn of up to Window frames.   *)
THEOREM QueueBounded == QuietSpeedChange => (Spec => []QueueInBounds)
  <1>1. IInv => QueueInBounds
    BY DEF IInv
  <1>2. QED
    BY <1>1, Inductive, PTL

(* A queued frame always has a transmission or a completion to wait for.   *)
THEOREM NoFrameStuck == QuietSpeedChange => (Spec => []NoStuckFrame)
  <1>1. IInv => NoStuckFrame
    BY DEF IInv, SendingOK, NoStuckFrame
  <1>2. QED
    BY <1>1, Inductive, PTL

(* The chip never sends and listens at once, and sends the head of tx_q.   *)
THEOREM HalfDuplexKept == QuietSpeedChange => (Spec => []HalfDuplex)
  <1>1. IInv => HalfDuplex
    BY DEF IInv, SendingOK, HalfDuplex
  <1>2. QED
    BY <1>1, Inductive, PTL

(* A quiet driver listens, whatever the interleaving that made it quiet.   *)
THEOREM QuietListens == QuietSpeedChange => (Spec => []ListensWhenQuiet)
  <1>1. IInv => ListensWhenQuiet
    BY DEF IInv, TurnOK, ListensWhenQuiet, Quiet, FirUp
  <1>2. QED
    BY <1>1, Inductive, PTL

(* No handler leaves the interrupts off at FIR speed.                      *)
THEOREM HandlersLeaveOn == QuietSpeedChange => (Spec => []InterruptsOn)
  <1>1. IInv => InterruptsOn
    BY DEF IInv, SendingOK, InterruptsOn
  <1>2. QED
    BY <1>1, Inductive, PTL

-----------------------------------------------------------------------------
(* The refinement of TxFifo.  First what shared memory holds.              *)

LEMMA InitInMemory == Init => InMemory
  BY SpeedAssumption DEF Init, InMemory, FirUp, IsFir

LEMMA SameMemory ==
  ASSUME InMemory, FirUp' => FirUp, UNCHANGED <<tx_q, shm>>
  PROVE  InMemory'
  BY DEF InMemory, Holds

(* A registration writes above every entry and makes the one at free.      *)
LEMMA WrittenAbove ==
  ASSUME IInv, InMemory, XmitRegister, FirUp'
  PROVE  /\ FirUp /\ skb \in Frames
         /\ tx_q.free \in Slots /\ tx_q.queue \in [Slots -> Region] /\ tx_q.tail \in Nat
         /\ tx_q'.ptr = tx_q.ptr /\ tx_q'.free = tx_q.free + 1
         /\ tx_q'.len = tx_q.len + 1 /\ tx_q'.tail = tx_q.tail + Size[skb]
         /\ Size[skb] \in 1 .. MaxFrame
         /\ tx_q'.queue[tx_q.free] = [start |-> tx_q.tail, len |-> Size[skb]]
         /\ \A i \in Slots, f \in Frames :
              i = tx_q.free /\ f = skb => Holds(tx_q.queue[i], f)'
         /\ \A i \in Slots : i # tx_q.free => tx_q'.queue[i] = tx_q.queue[i]
         /\ \A i \in Slots, f \in Frames :
              tx_q.ptr <= i /\ i < tx_q.free /\ Holds(tx_q.queue[i], f)
                => Holds(tx_q.queue[i], f)'
  <1>1. /\ xmit = "locked" /\ tx_q' = Register(tx_q, skb)
        /\ shm' = [a \in DOMAIN shm |->
                     IF a \in tx_q.tail .. Register(tx_q, skb).tail - 1 THEN skb ELSE shm[a]]
        /\ UNCHANGED <<txqueue, speed, card>>
    BY DEF XmitRegister
  <1>2. FirUp /\ skb \in Frames /\ IsFir(speed)
    BY <1>1 DEF FirUp, IInv, HandlersOK, TypeOK
  <1>3. tx_q.free < MaxWindow /\ tx_q.tail + MaxFrame <= ShmSize
    BY <1>1, <1>2, EnteringFits
  <1>4. /\ tx_q'.ptr = tx_q.ptr /\ tx_q'.free = tx_q.free + 1
        /\ tx_q'.len = tx_q.len + 1
        /\ tx_q'.tail = tx_q.tail + Size[skb] /\ Size[skb] \in 1 .. MaxFrame
        /\ tx_q'.queue[tx_q.free] = [start |-> tx_q.tail, len |-> Size[skb]]
        /\ \A i \in Slots : i # tx_q.free => tx_q'.queue[i] = tx_q.queue[i]
    BY <1>1, <1>2, <1>3, RegisterFields DEF IInv
  <1>5. /\ tx_q.tail \in Nat /\ tx_q.free \in Nat /\ tx_q.ptr \in Nat
        /\ tx_q.queue \in [Slots -> Region]
        /\ DOMAIN shm = 0 .. ShmSize - 1 /\ DOMAIN shm' = DOMAIN shm
    BY <1>1, QueueFields DEF IInv, TypeOK
  <1>6. \A a \in DOMAIN shm : a < tx_q.tail => shm'[a] = shm[a]
    BY <1>1, <1>5
  <1>7. \A a \in DOMAIN shm : tx_q.tail <= a /\ a < tx_q.tail + Size[skb] => shm'[a] = skb
    <2>. SUFFICES ASSUME NEW a \in DOMAIN shm, tx_q.tail <= a, a < tx_q.tail + Size[skb]
                  PROVE  shm'[a] = skb
      OBVIOUS
    <2>1. Register(tx_q, skb).tail = tx_q.tail + Size[skb]
      BY <1>1, <1>4
    <2>2. a \in tx_q.tail .. Register(tx_q, skb).tail - 1
      BY <1>4, <1>5, <2>1
    <2>. QED
      BY <1>1, <2>2
  <1>8. ASSUME NEW i \in Slots, NEW f \in Frames, i = tx_q.free, f = skb
        PROVE  Holds(tx_q.queue[i], f)'
    <2>1. tx_q'.queue[i].start = tx_q.tail /\ tx_q'.queue[i].len = Size[skb]
      BY <1>4, <1>8
    <2>2. Size[skb] \in Nat /\ tx_q.tail + Size[skb] <= ShmSize
      BY <1>3, <1>4, <1>5, FrameAssumption, WindowAssumption
    <2>3. \A a \in tx_q.tail .. tx_q.tail + Size[skb] - 1 :
            a \in DOMAIN shm /\ tx_q.tail <= a /\ a < tx_q.tail + Size[skb]
      BY <1>5, <2>2, WindowAssumption
    <2>4. \A a \in tx_q.tail .. tx_q.tail + Size[skb] - 1 :
            a \in DOMAIN shm' /\ shm'[a] = skb
      BY <1>5, <1>7, <2>3
    <2>. QED
      BY <1>8, <2>1, <2>4 DEF Holds
  <1>9. ASSUME NEW i \in Slots, NEW f \in Frames, tx_q.ptr <= i, i < tx_q.free,
               Holds(tx_q.queue[i], f)
        PROVE  Holds(tx_q.queue[i], f)'
    <2>1. tx_q.queue[i].start + tx_q.queue[i].len <= tx_q.tail
      BY <1>2, <1>9 DEF InMemory
    <2>2. tx_q.queue[i] \in Region /\ tx_q'.queue[i] = tx_q.queue[i]
      <3>1. i # tx_q.free
        BY <1>5, <1>9 DEF Slots
      <3>2. tx_q'.queue[i] = tx_q.queue[i]
        BY <1>4, <3>1
      <3>. QED
        BY <1>5, <3>2
    <2>3. DOMAIN shm' = DOMAIN shm /\ \A a \in DOMAIN shm' : a < tx_q.tail => shm'[a] = shm[a]
      BY <1>5, <1>6
    <2>4. \A a \in tx_q.queue[i].start .. tx_q.queue[i].start + tx_q.queue[i].len - 1 :
            a < tx_q.tail
      BY <1>5, <2>1, <2>2 DEF Region
    <2>. QED
      BY <1>9, <2>2, <2>3, <2>4 DEF Holds
  <1>10. tx_q.free \in Slots
    BY <1>3, <1>5, WindowAssumption DEF Slots
  <1>. QED
    BY <1>2, <1>4, <1>5, <1>8, <1>9, <1>10

LEMMA XmitRegisterInMemory == IInv /\ InMemory /\ XmitRegister => InMemory'
  <1> SUFFICES ASSUME IInv, InMemory, XmitRegister, FirUp', NEW i \in Slots,
                      tx_q'.ptr <= i, i < tx_q'.free
               PROVE  /\ tx_q'.queue[i].start + tx_q'.queue[i].len <= tx_q'.tail
                      /\ \E f \in Frames : Holds(tx_q.queue[i], f)'
    BY DEF InMemory
  <1>1. CASE i = tx_q.free
    <2>1. tx_q'.queue[i].start = tx_q.tail /\ tx_q'.queue[i].len = Size[skb]
      BY <1>1, WrittenAbove
    <2>2. PICK f \in Frames : f = skb
      BY WrittenAbove
    <2>3. Holds(tx_q.queue[i], f)'
      BY <1>1, <2>2, WrittenAbove
    <2>4. tx_q'.queue[i].start + tx_q'.queue[i].len <= tx_q'.tail
      BY <2>1, WrittenAbove
    <2>. QED
      BY <2>3, <2>4
  <1>2. CASE i # tx_q.free
    <2>1. /\ tx_q.ptr <= i /\ i < tx_q.free /\ tx_q'.queue[i] = tx_q.queue[i]
          /\ tx_q.queue[i] \in Region
      <3>1. tx_q'.queue[i] = tx_q.queue[i] /\ tx_q.queue[i] \in Region
        BY <1>2, WrittenAbove
      <3>2. /\ tx_q'.ptr = tx_q.ptr /\ tx_q'.free = tx_q.free + 1
            /\ i \in Int /\ tx_q.free \in Int
        BY WrittenAbove DEF Slots
      <3>. QED
        BY <1>2, <3>1, <3>2
    <2>2. PICK f \in Frames : Holds(tx_q.queue[i], f)
      BY <2>1, WrittenAbove DEF InMemory
    <2>3. tx_q.queue[i].start + tx_q.queue[i].len <= tx_q.tail
      BY <2>1, WrittenAbove DEF InMemory
    <2>4. Holds(tx_q.queue[i], f)'
      BY <2>1, <2>2, WrittenAbove
    <2>5. tx_q'.queue[i].start + tx_q'.queue[i].len <= tx_q'.tail
      BY <2>1, <2>3, WrittenAbove DEF Region
    <2>. QED
      BY <2>4, <2>5
  <1>. QED
    BY <1>1, <1>2

LEMMA IrqTxInMemory == IInv /\ InMemory /\ IrqTx => InMemory'
  <1> SUFFICES ASSUME IInv, InMemory, IrqTx PROVE InMemory'
    OBVIOUS
  <1>1. /\ FirUp' => FirUp
        /\ shm' = shm /\ tx_q.ptr \in Nat /\ tx_q.queue \in [Slots -> Region]
    BY QueueFields DEF IrqTx, FirUp, IInv
  <1>2. CASE tx_q' = Retire(tx_q)
    <2>1. /\ tx_q'.queue = tx_q.queue /\ tx_q'.tail = tx_q.tail
          /\ tx_q'.ptr = tx_q.ptr + 1 /\ tx_q'.free = tx_q.free
      BY <1>2 DEF Retire
    <2>2. \A i \in Slots : tx_q.ptr + 1 <= i => tx_q.ptr <= i
      BY <1>1 DEF Slots
    <2>. QED
      BY <1>1, <2>1, <2>2 DEF InMemory, Holds
  <1>3. CASE tx_q' = ResetQueue(Retire(tx_q))
    <2>1. tx_q'.free = 0 /\ tx_q'.ptr = 0
      BY <1>3 DEF ResetQueue
    <2>. QED
      BY <2>1 DEF InMemory, Slots
  <1>. QED
    BY <1>2, <1>3 DEF IrqTx, ircard_receive

LEMMA ResetInMemory ==
  ASSUME IInv, FirUp' => tx_q' = ResetQueue(tx_q)
  PROVE  InMemory'
  <1>. SUFFICES ASSUME FirUp' PROVE InMemory'
    BY DEF InMemory
  <1>1. tx_q'.free = 0 /\ tx_q'.ptr = 0
    BY DEF ResetQueue
  <1>. QED
    BY <1>1 DEF InMemory, Slots

LEMMA InMemoryStep == IInv /\ InMemory /\ [Next]_vars => InMemory'
  <1>. SUFFICES ASSUME IInv, InMemory, [Next]_vars PROVE InMemory'
    OBVIOUS
  <1>1. CASE \/ \E fs \in Turns : StartTurn(fs)
             \/ \E f \in Frames : Poll(f)
             \/ SirXmit \/ XmitLock \/ XmitUnlock
             \/ ChipSent \/ ChipUnderrun \/ ChipReceived
             \/ IrqEnter \/ IrqLock \/ IrqRx \/ IrqExit
             \/ ResetPhysical \/ Yank \/ CardRemoval \/ UNCHANGED vars
    <2>1. UNCHANGED <<tx_q, shm, speed>> /\ (card' = "up" => card = "up")
      BY <1>1 DEF StartTurn, Poll, SirXmit, XmitLock, XmitUnlock, ChipSent,
           ChipUnderrun, ChipReceived, IrqEnter, IrqLock, IrqRx, IrqExit,
           ResetPhysical, Yank, CardRemoval, vars
    <2>. QED
      BY <2>1, SameMemory DEF FirUp
  <1>2. CASE (\E s \in Speeds : ChangeSpeed(s)) \/ CardReset \/ CardInsertion
    <2>1. FirUp' => tx_q' = ResetQueue(tx_q)
      BY <1>2 DEF ChangeSpeed, CardReset, CardInsertion, SetSpeed, FirUp
    <2>. QED
      BY <2>1, ResetInMemory
  <1>. QED
    BY <1>1, <1>2, XmitRegisterInMemory, IrqTxInMemory DEF Next

(* An entry in shared memory has one content.                              *)
LEMMA OneContent ==
  ASSUME NEW d, NEW f \in Frames, Holds(d, f), d.len > 0, d \in Region
  PROVE  Content(d) = f
  <1>1. d.start \in d.start .. d.start + d.len - 1
    BY DEF Region
  <1>2. \A g \in Frames : Holds(d, g) => g = f
    BY <1>1 DEF Holds
  <1>. QED
    BY <1>2 DEF Content

LEMMA OneContentNext ==
  ASSUME NEW i \in Slots, NEW f \in Frames, Holds(tx_q.queue[i], f)',
         tx_q'.queue[i].len > 0, tx_q'.queue[i] \in Region
  PROVE  Content(tx_q.queue[i])' = f
  <1>1. tx_q'.queue[i].start \in
          tx_q'.queue[i].start .. tx_q'.queue[i].start + tx_q'.queue[i].len - 1
    BY DEF Region
  <1>2. \A g \in Frames : Holds(tx_q.queue[i], g)' => g = f
    BY <1>1 DEF Holds
  <1>. QED
    BY <1>2 DEF Content

LEMMA SameFifo ==
  ASSUME FirUp' <=> FirUp, FirUp => UNCHANGED <<tx_q, shm>>,
         FirUp => ("TX" \in cond' <=> "TX" \in cond), out' = out
  PROVE  UNCHANGED Fifo!vars
  <1>1. (IF FirUp THEN queued ELSE <<>>)' = IF FirUp THEN queued ELSE <<>>
    <2>1. CASE FirUp
      <3>1. queued' = queued
        BY <2>1 DEF queued, Content, Holds
      <3>. QED
        BY <2>1, <3>1
    <2>2. CASE ~FirUp
      BY <2>2
    <2>. QED
      BY <2>1, <2>2
  <1>2. retires' <=> retires
    BY DEF retires
  <1>. QED
    BY <1>1, <1>2 DEF Fifo!vars

(* A sequence that is one longer at its end, or one shorter at its head.   *)
LEMMA Indexed ==
  ASSUME NEW S, NEW n \in Nat, NEW s \in [1 .. n -> S]
  PROVE  s \in Seq(S) /\ Len(s) = n
  <1>1. s \in Seq(S)
    BY SeqDef
  <1>2. Len(s) \in Nat /\ DOMAIN s = 1 .. Len(s)
    BY <1>1, LenProperties
  <1>3. 1 .. Len(s) = 1 .. n
    BY <1>2
  <1>. QED
    BY <1>1, <1>2, <1>3

LEMMA Longer ==
  ASSUME NEW S, NEW n \in Nat, NEW s \in [1 .. n -> S], NEW t \in [1 .. n + 1 -> S],
         \A k \in 1 .. n : t[k] = s[k]
  PROVE  t = Append(s, t[n + 1])
  <1>. DEFINE e == t[n + 1]
              r == Append(s, e)
  <1>1. e \in S /\ n + 1 \in Nat
    OBVIOUS
  <1>2. s \in Seq(S) /\ Len(s) = n /\ t \in Seq(S) /\ Len(t) = n + 1
    BY <1>1, Indexed
  <1>. HIDE DEF e
  <1>3. /\ r \in Seq(S) /\ Len(r) = n + 1
        /\ \A k \in 1 .. n : r[k] = s[k]
        /\ r[n + 1] = e
    BY <1>1, <1>2, AppendProperties
  <1>4. r[n + 1] = t[n + 1]
    BY <1>3 DEF e
  <1>5. \A k \in 1 .. n + 1 : t[k] = r[k]
    BY <1>3, <1>4
  <1>. HIDE DEF r
  <1>6. t = r
    BY <1>2, <1>3, <1>5, SeqEqual
  <1>. QED
    BY <1>6 DEF r, e

LEMMA Shorter ==
  ASSUME NEW S, NEW n \in Nat, NEW s \in [1 .. n + 1 -> S], NEW t \in [1 .. n -> S],
         \A k \in 1 .. n : t[k] = s[k + 1]
  PROVE  t = Tail(s)
  <1>. DEFINE r == Tail(s)
  <1>1. s \in Seq(S) /\ Len(s) = n + 1 /\ t \in Seq(S) /\ Len(t) = n
    BY Indexed
  <1>2. s # <<>>
    BY <1>1, EmptySeq
  <1>3. r \in Seq(S) /\ Len(r) = n /\ \A k \in 1 .. Len(r) : r[k] = s[k + 1]
    BY <1>1, <1>2, HeadTailProperties
  <1>. HIDE DEF r
  <1>4. \A k \in 1 .. n : t[k] = r[k]
    BY <1>3
  <1>5. t = r
    BY <1>1, <1>3, <1>4, SeqEqual
  <1>. QED
    BY <1>5 DEF r

(* The entries of the abstract queue.                                      *)
Items == Frames \union {None}

LEMMA QueuedType == queued \in [1 .. tx_q.len -> Items]
  BY DEF queued, Content, Items

LEMMA QueuedType2 == queued' \in [1 .. tx_q'.len -> Items]
  BY DEF queued, Content, Items

LEMMA Live ==
  ASSUME IInv, FirUp
  PROVE  /\ tx_q.len \in Nat /\ tx_q.ptr \in Nat
         /\ \A n \in 1 .. tx_q.len :
              LET i == tx_q.ptr + n - 1 IN
              i \in Slots /\ tx_q.ptr <= i /\ i < tx_q.free
  <1>1. /\ tx_q.ptr + tx_q.len = tx_q.free /\ tx_q.len >= 0
        /\ tx_q.ptr \in Nat /\ tx_q.len \in Int /\ tx_q.free \in 0 .. MaxWindow
    BY QueueFields DEF IInv, QueueInBounds
  <1>. QED
    BY <1>1, WindowAssumption DEF Slots

(* The abstract steps.                                                     *)
LEMMA RegisterAccepts ==
  IInv /\ InMemory /\ XmitRegister => [Fifo!Next]_(Fifo!vars)
  <1>. SUFFICES ASSUME IInv, InMemory, XmitRegister PROVE [Fifo!Next]_(Fifo!vars)
    OBVIOUS
  <1>1. /\ (FirUp' <=> FirUp) /\ cond' = cond /\ out' = out
    BY DEF XmitRegister, FirUp
  <1>2. CASE ~FirUp
    BY <1>1, <1>2, SameFifo
  <1>3. CASE FirUp
    <2>1. queued' = Append(queued, skb)
      <3>. DEFINE n == tx_q.len
      <3>1. n \in Nat /\ tx_q'.len = n + 1 /\ tx_q'.ptr = tx_q.ptr
            /\ tx_q.ptr \in Nat /\ tx_q.ptr + n = tx_q.free
        BY <1>1, <1>3, Live, WrittenAbove DEF IInv, QueueInBounds
      <3>2. ASSUME NEW k \in 1 .. n PROVE queued'[k] = queued[k]
        <4>1. PICK i \in Slots : i = tx_q.ptr + k - 1 /\ tx_q.ptr <= i /\ i < tx_q.free
          BY <1>3, Live
        <4>2. PICK f \in Frames : Holds(tx_q.queue[i], f)
          BY <1>3, <4>1 DEF InMemory
        <4>3. i # tx_q.free
          BY <4>1, <3>1
        <4>4. Holds(tx_q.queue[i], f)' /\ tx_q'.queue[i] = tx_q.queue[i]
          BY <1>1, <1>3, <4>1, <4>2, <4>3, WrittenAbove
        <4>5. tx_q.queue[i].len > 0 /\ tx_q.queue[i] \in Region
          BY <1>1, <1>3, <4>1, WrittenAbove DEF IInv, SendingOK
        <4>6. Content(tx_q.queue[i]) = f
          BY <4>2, <4>5, OneContent
        <4>7. Content(tx_q.queue[i])' = f
          BY <4>4, <4>5, OneContentNext
        <4>8. queued[k] = Content(tx_q.queue[i])
          BY <4>1 DEF queued
        <4>9. queued'[k] = Content(tx_q.queue[i])'
          BY <3>1, <4>1 DEF queued
        <4>. QED
          BY <4>6, <4>7, <4>8, <4>9
      <3>3. queued'[n + 1] = skb
        <4>1. PICK f \in Frames : f = skb
          BY <1>1, <1>3, WrittenAbove
        <4>2. PICK i \in Slots : i = tx_q.free
          BY <1>1, <1>3, WrittenAbove
        <4>3. /\ Holds(tx_q.queue[i], f)'
              /\ tx_q'.queue[i] = [start |-> tx_q.tail, len |-> Size[skb]]
              /\ Size[skb] \in 1 .. MaxFrame /\ tx_q.tail \in Nat
          BY <1>1, <1>3, <4>1, <4>2, WrittenAbove
        <4>4. tx_q'.queue[i].len > 0 /\ tx_q'.queue[i] \in Region
          BY <4>3, FrameAssumption DEF Region
        <4>5. Content(tx_q.queue[i])' = f
          BY <4>3, <4>4, OneContentNext
        <4>6. queued'[n + 1] = Content(tx_q.queue[i])'
          BY <3>1, <4>2 DEF queued
        <4>. QED
          BY <4>1, <4>5, <4>6
      <3>4. queued \in [1 .. n -> Items] /\ queued' \in [1 .. n + 1 -> Items]
        BY <3>1, QueuedType, QueuedType2
      <3>. HIDE DEF n
      <3>5. queued' = Append(queued, queued'[n + 1])
        BY <3>1, <3>2, <3>4, Longer
      <3>. QED
        BY <3>3, <3>5
    <2>2. skb \in Frames
      BY <1>1, <1>3, WrittenAbove
    <2>3. retires' <=> retires
      BY <1>1 DEF retires
    <2>4. Fifo!Accept(skb)
      BY <1>1, <1>3, <2>1, <2>3 DEF Fifo!Accept
    <2>. QED
      BY <2>2, <2>4 DEF Fifo!Next
  <1>. QED
    BY <1>2, <1>3

(* Sent or lost on the air: the head is the region the chip is pointed at. *)
LEMMA ChipSends ==
  IInv /\ (ChipSent \/ ChipUnderrun) => [Fifo!Next]_(Fifo!vars)
  <1>. SUFFICES ASSUME IInv, ChipSent \/ ChipUnderrun PROVE Fifo!Send
    BY DEF Fifo!Next
  <1>1. /\ card = "up" /\ air # Idle /\ cond' = cond \union {"TX"}
        /\ out' \in {Content(air), out}
        /\ UNCHANGED <<tx_q, speed, card, shm>>
    BY DEF ChipSent, ChipUnderrun
  <1>2. FirUp /\ (FirUp' <=> FirUp)
    BY <1>1 DEF IInv, ChipOK, FirUp
  <1>3. tx_q.len > 0 /\ air = tx_q.queue[tx_q.ptr] /\ "TX" \notin cond
    BY <1>1, <1>2 DEF IInv, SendingOK
  <1>4. queued' = queued
    BY <1>1 DEF queued, Content, Holds
  <1>5. queued # <<>> /\ Head(queued) = Content(air)
    <2>1. tx_q.len \in Nat \ {0} /\ tx_q.ptr \in Nat
      BY <1>2, <1>3, Live
    <2>2. queued \in Seq(Items) /\ Len(queued) = tx_q.len
      BY <2>1, QueuedType, Indexed
    <2>3. queued[1] = Content(tx_q.queue[tx_q.ptr + 1 - 1])
      BY <2>1 DEF queued
    <2>4. tx_q.ptr + 1 - 1 = tx_q.ptr
      BY <2>1
    <2>5. queued # <<>>
      BY <2>1, <2>2, EmptySeq
    <2>. QED
      BY <1>3, <2>2, <2>3, <2>4, <2>5
  <1>6. ~retires /\ retires'
    BY <1>1, <1>2, <1>3 DEF retires
  <1>. QED
    BY <1>1, <1>2, <1>4, <1>5, <1>6 DEF Fifo!Send

(* A completion retires the head, also when it turns the link around.      *)
LEMMA CompletionRetires ==
  IInv /\ IrqTx => [Fifo!Next]_(Fifo!vars)
  <1>. SUFFICES ASSUME IInv, IrqTx PROVE [Fifo!Next]_(Fifo!vars)
    OBVIOUS
  <1>1. /\ UNCHANGED <<speed, card, shm, out>>
        /\ card = "up" => "TX" \in cond
        /\ "TX" \notin cond'
    BY DEF IrqTx, MsrShows
  <1>2. (FirUp' <=> FirUp) /\ (card = "up" => FirUp)
    BY <1>1 DEF FirUp, IInv, ChipOK
  <1>3. CASE ~FirUp
    BY <1>1, <1>2, <1>3, SameFifo
  <1>4. CASE FirUp
    <2>. DEFINE n == tx_q.len - 1
    <2>1. n \in Nat /\ tx_q.len = n + 1 /\ tx_q.ptr \in Nat
      BY <1>1, <1>4, Live DEF FirUp, IInv, SendingOK
    <2>2. /\ tx_q'.len = n
          /\ n # 0 => tx_q'.ptr = tx_q.ptr + 1 /\ tx_q'.queue = tx_q.queue
      <3>1. CASE tx_q' = Retire(tx_q)
        BY <2>1, <3>1 DEF Retire
      <3>2. CASE tx_q' = ResetQueue(Retire(tx_q)) /\ Retire(tx_q).len = 0
        BY <2>1, <3>2 DEF Retire, ResetQueue
      <3>. QED
        BY <3>1, <3>2 DEF IrqTx, ircard_receive, TurnAround
    <2>4. ASSUME NEW k \in 1 .. n PROVE queued'[k] = queued[k + 1]
      <3>1. tx_q'.ptr + k - 1 = tx_q.ptr + (k + 1) - 1 /\ tx_q'.queue = tx_q.queue
        BY <2>1, <2>2, <2>4
      <3>2. queued'[k] = Content(tx_q.queue[tx_q.ptr + k - 1])'
        BY <2>2, <2>4 DEF queued
      <3>3. queued[k + 1] = Content(tx_q.queue[tx_q.ptr + (k + 1) - 1])
        BY <2>1, <2>4 DEF queued
      <3>. QED
        BY <1>1, <3>1, <3>2, <3>3 DEF Content, Holds
    <2>5. queued \in [1 .. n + 1 -> Items] /\ queued' \in [1 .. n -> Items]
      BY <2>1, <2>2, QueuedType, QueuedType2
    <2>. HIDE DEF n
    <2>6. queued' = Tail(queued)
      BY <2>1, <2>4, <2>5, Shorter
    <2>7. retires /\ ~retires'
      BY <1>1, <1>4 DEF retires, FirUp
    <2>8. Fifo!Retire
      BY <1>1, <1>2, <1>4, <2>6, <2>7 DEF Fifo!Retire
    <2>. QED
      BY <2>8 DEF Fifo!Next
  <1>. QED
    BY <1>3, <1>4

(* A change of speed or a card event opens the channel with nothing queued,*)
(* closes it, or leaves it.                                                *)
LEMMA Opens ==
  ASSUME IInv, ~FirUp, FirUp', tx_q'.len = 0, cond' = cond, out' = out
  PROVE  Fifo!Open
  <1>1. "TX" \notin cond'
    BY DEF IInv, ChipOK
  <1>2. queued' = <<>>
    BY DEF queued
  <1>3. retires' <=> retires
    BY <1>1 DEF retires
  <1>4. (IF FirUp THEN queued ELSE <<>>)' = IF FirUp THEN queued ELSE <<>>
    BY <1>2
  <1>. QED
    BY <1>3, <1>4 DEF Fifo!Open

LEMMA Closes ==
  ASSUME FirUp, ~FirUp', out' = out
  PROVE  Fifo!Close
  BY DEF Fifo!Close, retires

LEMMA SpeedChangeMaps ==
  ASSUME IInv, QuietSpeedChange, (\E s \in Speeds : ChangeSpeed(s)) \/ CardReset \/ CardInsertion
  PROVE  [Fifo!Next]_(Fifo!vars)
  <1>1. cond' = cond /\ out' = out
    BY DEF ChangeSpeed, CardReset, CardInsertion, chipVars
  <1>2. FirUp' => tx_q'.len = 0 /\ tx_q' = ResetQueue(tx_q)
    BY DEF ChangeSpeed, CardReset, CardInsertion, SetSpeed, FirUp, ResetQueue
  <1>3. FirUp => tx_q.len = 0
    BY DEF ChangeSpeed, CardReset, CardInsertion, Quiet, FirUp
  <1>4. CASE FirUp /\ FirUp'
    <2>1. queued = <<>> /\ queued' = <<>>
      BY <1>2, <1>3, <1>4 DEF queued
    <2>2. retires' <=> retires
      BY <1>1, <1>4 DEF retires
    <2>. QED
      BY <1>1, <1>4, <2>1, <2>2 DEF Fifo!vars
  <1>5. CASE ~FirUp /\ FirUp'
    BY <1>1, <1>2, <1>5, Opens DEF Fifo!Next
  <1>6. CASE FirUp /\ ~FirUp'
    BY <1>1, <1>6, Closes DEF Fifo!Next
  <1>7. CASE ~FirUp /\ ~FirUp'
    BY <1>1, <1>7, SameFifo
  <1>. QED
    BY <1>4, <1>5, <1>6, <1>7

LEMMA StepMaps ==
  ASSUME IInv, InMemory, QuietSpeedChange, [Next]_vars
  PROVE  [Fifo!Next]_(Fifo!vars)
  <1>1. CASE \/ \E fs \in Turns : StartTurn(fs)
             \/ \E f \in Frames : Poll(f)
             \/ SirXmit \/ XmitLock \/ XmitUnlock
             \/ ChipReceived \/ IrqEnter \/ IrqLock \/ IrqRx \/ IrqExit
             \/ CardRemoval \/ UNCHANGED vars
    <2>1. /\ UNCHANGED <<tx_q, shm, speed, out>> /\ (card' = "up" <=> card = "up")
          /\ ("TX" \in cond' <=> "TX" \in cond)
      BY <1>1 DEF StartTurn, Poll, SirXmit, XmitLock, XmitUnlock, ChipReceived,
           IrqEnter, IrqLock, IrqRx, IrqExit, CardRemoval, chipVars, vars
    <2>2. FirUp' <=> FirUp
      BY <2>1 DEF FirUp
    <2>. QED
      BY <2>1, <2>2, SameFifo
  <1>2. CASE ResetPhysical \/ Yank
    <2>1. ~FirUp' /\ out' = out
      BY <1>2 DEF ResetPhysical, Yank, FirUp
    <2>2. CASE FirUp
      BY <2>1, <2>2, Closes DEF Fifo!Next
    <2>3. CASE ~FirUp
      BY <2>1, <2>3, SameFifo
    <2>. QED
      BY <2>2, <2>3
  <1>. QED
    BY <1>1, <1>2, RegisterAccepts, ChipSends, CompletionRetires, SpeedChangeMaps
    DEF Next

(* Frames go over the air in the order in which hard_xmit accepted them,   *)
(* each at most once and as the stack gave them, for every interleaving of *)
(* hard_xmit, the interrupt handler, the chip and the card events.         *)
THEOREM DeliversInOrder == QuietSpeedChange => (Spec => FifoSpec)
  <1>. SUFFICES ASSUME QuietSpeedChange PROVE Spec => FifoSpec
    OBVIOUS
  <1>1. Init => Fifo!Init
    BY SpeedAssumption DEF Init, Fifo!Init, FirUp, IsFir, retires
  <1>2. Spec => []IInv
    BY Inductive
  <1>3. IInv /\ InMemory /\ [Next]_vars => [Fifo!Next]_(Fifo!vars)
    BY StepMaps
  <1>. QED
    BY <1>1, <1>2, <1>3, InitInMemory, InMemoryStep, PTL DEF Spec, FifoSpec, Fifo!Spec
=============================================================================
