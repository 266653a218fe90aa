------------------------------ MODULE IrcardTx ------------------------------
(***************************************************************************)
(* The FIR data path of the IBM 31T1502 PCMCIA driver (pcmcia/ircard_cs.c).*)
(*                                                                         *)
(* Frames leave the stack through ircard_hard_xmit, which copies them into *)
(* shared memory and registers them in tx_q; the chip sends the region it  *)
(* is pointed at and latches a Tx condition; ircard_interrupt retires the  *)
(* frame, starts the next one, or, when neither the card nor the device    *)
(* queue has a frame left, turns the half-duplex transceiver around.       *)
(* ircard_change_speed and the card events reset the same state.           *)
(*                                                                         *)
(* Everything inside a spin_lock section that the chip cannot observe half *)
(* done is one step.  The interrupt handler is several steps: it reads the *)
(* baud rate before it takes the lock, and holds the lock while it loops.  *)
(* Bottom halves (the stack, card events) are serialised by the kernel, so *)
(* ircard_hard_xmit never overlaps ircard_change_speed or a card event.    *)
(*                                                                         *)
(* Addresses are offsets in shared memory from SHMEM_TX_START; a frame is  *)
(* a model value whose length is Size[f].                                  *)
(*                                                                         *)
(* A definition followed by one it differs from in one place is a faulty   *)
(* variant of it, used only to see the properties fail.                    *)
(***************************************************************************)
EXTENDS Integers, Sequences

CONSTANTS
  Frames,            \* the distinct frames the stack may send
  Size,              \* their lengths
  MaxFrame,          \* longest frame: 2050 bytes in the code
  MaxWindow,         \* entries of tx_q.queue: MAX_WINDOW
  Window,            \* most frames of one IrLAP turn (the stack's limit)
  ShmSize,           \* shared memory from SHMEM_TX_START to its end
  Speeds,            \* baud rates the stack asks for
  SirMax,            \* 115200: at or below it irport owns the hardware
  BogusMax,          \* the interrupt loop's iteration limit
  QuietSpeedChange,  \* TRUE: wait_until_sent waited long enough
  None               \* no frame

ASSUME FrameAssumption ==
  /\ None \notin Frames
  /\ MaxFrame \in Nat
  /\ Size \in [Frames -> 1 .. MaxFrame]

ASSUME WindowAssumption ==
  /\ Window \in Nat \ {0}
  /\ MaxWindow \in Nat
  /\ Window < MaxWindow
  /\ ShmSize \in Nat
  /\ Window * MaxFrame <= ShmSize

ASSUME SpeedAssumption ==
  /\ Speeds \subseteq Nat
  /\ SirMax \in Nat
  /\ 9600 <= SirMax
  /\ BogusMax \in Nat
  /\ QuietSpeedChange \in BOOLEAN

VARIABLES
  txqueue,  \* frames in the device's queue, in front of the driver
  xmit,     \* where ircard_hard_xmit is: "idle", "locked" or "queued"
  skb,      \* the frame it was called with
  tbusy,    \* dev->tbusy
  tx_q,     \* self->tx_q
  speed,    \* idev->io.baudrate (it also selects hard_start_xmit)
  stop,     \* self->stop
  irq,      \* where ircard_interrupt is: "none", "spin" or "loop"
  bogus,    \* its iterations so far
  card,     \* "up", "down" (physical reset), "gone", "removed" (event seen)
  mcr,      \* INTR, TX and RX enable bits of the chip
  air,      \* the region being sent, or Idle
  cond,     \* latched special conditions
  shm,      \* shared memory: the frame each cell belongs to
  out       \* the last frame that went over the air

stackVars == <<txqueue, xmit, skb>>
chipVars  == <<mcr, air, cond>>
vars == <<txqueue, xmit, skb, tbusy, tx_q, speed, stop, irq, bogus, card,
          mcr, air, cond, shm, out>>

Slots  == 0 .. MaxWindow - 1
Region == [start : Nat, len : Nat]
Idle   == [start |-> 0, len |-> 0]

IsFir(s) == s > SirMax

(* The frame a region of shared memory holds; None when it is garbage.     *)
Holds(d, f) ==
  /\ d.len = Size[f]
  /\ \A a \in d.start .. d.start + d.len - 1 : a \in DOMAIN shm /\ shm[a] = f

Content(d) ==
  IF \E f \in Frames : Holds(d, f) THEN CHOOSE f \in Frames : Holds(d, f)
                                   ELSE None

-----------------------------------------------------------------------------
(* tx_q                                                                    *)

EmptyQueue == [ptr |-> 0, len |-> 0, free |-> 0, tail |-> 0,
               queue |-> [i \in Slots |-> Idle]]

(* ircard_receive and ircard_config forget the entries, not their values.  *)
ResetQueuePtrOnly(q) ==
  [ptr |-> 0, len |-> 0, free |-> q.free, tail |-> q.tail, queue |-> q.queue]

ResetQueue(q) ==
  [ptr |-> 0, len |-> 0, free |-> 0, tail |-> 0, queue |-> q.queue]

RegisterFixedTail(q, f) ==
  [ptr   |-> q.ptr,
   len   |-> q.len + 1,
   free  |-> q.free + 1,
   tail  |-> q.tail,
   queue |-> [q.queue EXCEPT ![q.free] = [start |-> q.tail, len |-> Size[f]]]]

Register(q, f) ==
  [ptr   |-> q.ptr,
   len   |-> q.len + 1,
   free  |-> q.free + 1,
   tail  |-> q.tail + Size[f],
   queue |-> [q.queue EXCEPT ![q.free] = [start |-> q.tail, len |-> Size[f]]]]

Retire(q) ==
  [ptr |-> q.ptr + 1, len |-> q.len - 1, free |-> q.free, tail |-> q.tail,
   queue |-> q.queue]

-----------------------------------------------------------------------------
Init ==
  /\ txqueue = <<>> /\ xmit = "idle" /\ skb = None
  /\ tbusy = FALSE
  /\ tx_q = EmptyQueue
  /\ speed = 9600
  /\ stop = FALSE
  /\ irq = "none" /\ bogus = 0
  /\ card = "up"
  /\ mcr = {} /\ air = Idle /\ cond = {}
  /\ shm = [a \in 0 .. ShmSize - 1 |-> None]
  /\ out = None

ircard_dma_write_KeepRx(q) ==
  IF card = "up"
  THEN air' = q.queue[q.ptr] /\ mcr' = mcr \union {"INTR", "TX"}
  ELSE UNCHANGED <<air, mcr>>

(* ircard_dma_write: point the chip at queue[ptr] and raise RTS.  Writes   *)
(* to a card that is not there are lost.                                   *)
ircard_dma_write(q) ==
  IF card = "up"
  THEN /\ air' = q.queue[q.ptr]
       /\ mcr' = {"INTR", "TX"}
  ELSE UNCHANGED <<air, mcr>>

(* ircard_receive: forget the queue and turn the receiver on.              *)
ircard_receive(q) ==
  /\ tx_q' = ResetQueue(q)
  /\ mcr' = IF card = "up" THEN {"INTR", "RX"} ELSE mcr
  /\ UNCHANGED air

-----------------------------------------------------------------------------
(* The stack (external).  IrLAP sends at most Window frames in its turn    *)
(* and then waits for an answer or for a timer far longer than a turn, so  *)
(* on a working card a turn starts when the previous one has been sent.    *)

Quiet ==
  /\ txqueue = <<>> /\ xmit = "idle"
  /\ IsFir(speed) => tx_q.len = 0

Turns == UNION {[1 .. n -> Frames] : n \in 1 .. Window}

StartTurn(fs) ==
  /\ card = "up" /\ Quiet
  /\ txqueue' = fs
  /\ UNCHANGED <<xmit, skb, tbusy, tx_q, speed, stop, irq, bogus, card,
                 chipVars, shm, out>>

(* When the card is not there its final-bit timer still runs, and sends    *)
(* one poll frame at each expiry.  Bound: the expiries that fit the queue. *)
Poll(f) ==
  /\ card # "up"
  /\ txqueue = <<>> /\ xmit = "idle"
  /\ tx_q.free < MaxWindow
  /\ tx_q.tail + MaxFrame <= ShmSize
  /\ txqueue' = <<f>>
  /\ UNCHANGED <<xmit, skb, tbusy, tx_q, speed, stop, irq, bogus, card,
                 chipVars, shm, out>>

(* At SIR speed hard_start_xmit is irport_hard_xmit (external).            *)
SirXmit ==
  /\ xmit = "idle" /\ txqueue # <<>> /\ ~IsFir(speed)
  /\ txqueue' = Tail(txqueue)
  /\ UNCHANGED <<xmit, skb, tbusy, tx_q, speed, stop, irq, bogus, card,
                 chipVars, shm, out>>

-----------------------------------------------------------------------------
(* ircard_hard_xmit                                                        *)

(* The frame leaves the device queue and tbusy is tested and set.          *)
XmitLock ==
  /\ xmit = "idle" /\ txqueue # <<>> /\ IsFir(speed)
  /\ ~tbusy
  /\ xmit' = "locked"
  /\ skb' = Head(txqueue)
  /\ txqueue' = Tail(txqueue)
  /\ tbusy' = TRUE
  /\ UNCHANGED <<tx_q, speed, stop, irq, bogus, card, chipVars, shm, out>>

(* Under idev->lock: copy, register, start if nothing is being sent.       *)
StartsNowStale(q) == q.len = 0

StartsNow(q) == q.len = 1

XmitRegister ==
  LET q == Register(tx_q, skb) IN
  /\ xmit = "locked"
  /\ irq # "loop"
  /\ xmit' = "queued"
  /\ tx_q' = q
  /\ shm' = [a \in DOMAIN shm |->
               IF a \in tx_q.tail .. q.tail - 1 THEN skb ELSE shm[a]]
  /\ IF StartsNow(q) THEN ircard_dma_write(q) ELSE UNCHANGED <<air, mcr>>
  /\ UNCHANGED <<txqueue, skb, tbusy, speed, stop, irq, bogus, card, cond, out>>

XmitUnlockBusy ==
  /\ xmit = "queued"
  /\ xmit' = "idle"
  /\ skb' = None
  /\ tbusy' = TRUE
  /\ UNCHANGED <<txqueue, tx_q, speed, stop, irq, bogus, card, chipVars, shm, out>>

XmitUnlock ==
  /\ xmit = "queued"
  /\ xmit' = "idle"
  /\ skb' = None
  /\ tbusy' = FALSE
  /\ UNCHANGED <<txqueue, tx_q, speed, stop, irq, bogus, card, chipVars, shm, out>>

-----------------------------------------------------------------------------
(* The chip (external).                                                    *)

ChipSent ==
  /\ card = "up" /\ air # Idle /\ "TX" \in mcr
  /\ out' = Content(air)
  /\ air' = Idle
  /\ cond' = cond \union {"TX"}
  /\ UNCHANGED <<stackVars, tbusy, tx_q, speed, stop, irq, bogus, card, mcr, shm>>

(* FIFO underrun: the frame is lost on the air.                            *)
ChipUnderrun ==
  /\ card = "up" /\ air # Idle /\ "TX" \in mcr
  /\ air' = Idle
  /\ cond' = cond \union {"TX"}
  /\ UNCHANGED <<stackVars, tbusy, tx_q, speed, stop, irq, bogus, card, mcr, shm, out>>

ChipReceived ==
  /\ card = "up" /\ "RX" \in mcr
  /\ cond' = cond \union {"RX"}
  /\ UNCHANGED <<stackVars, tbusy, tx_q, speed, stop, irq, bogus, card, mcr, air, shm, out>>

-----------------------------------------------------------------------------
(* ircard_interrupt                                                        *)

(* The baud rate is read before the lock is taken; at SIR speed the        *)
(* interrupt is irport's and the chip's own interrupts are disabled.       *)
IrqEnter ==
  /\ irq = "none"
  /\ card = "up" /\ "INTR" \in mcr /\ cond # {}
  /\ IsFir(speed)
  /\ irq' = "spin"
  /\ UNCHANGED <<stackVars, tbusy, tx_q, speed, stop, bogus, card, chipVars, shm, out>>

IrqLock ==
  /\ irq = "spin"
  /\ irq' = "loop"
  /\ bogus' = 0
  /\ UNCHANGED <<stackVars, tbusy, tx_q, speed, stop, card, chipVars, shm, out>>

(* A card that is not there reads as all ones, which is MSR_TX_COND_ID.    *)
MsrShows(c) == IF card = "up" THEN c \in cond ELSE c = "TX"

Iterate ==
  /\ irq = "loop"
  /\ bogus <= BogusMax + 1
  /\ bogus' = bogus + 1

(* ircard_xmit_complete: retire the frame, then send the next one, or turn *)
(* around when neither tx_q nor the device queue holds a frame.            *)
TurnAroundIfIdle(q) == q.len = 0 /\ txqueue = <<>> /\ xmit = "idle"

TurnAround(q) == q.len = 0 /\ txqueue = <<>>

IrqTx ==
  LET q == Retire(tx_q) IN
  /\ Iterate
  /\ MsrShows("TX")
  /\ tbusy' = FALSE
  /\ \/ /\ q.len # 0
        /\ tx_q' = q
        /\ cond' = cond \ {"TX"}
        /\ ircard_dma_write(q)
     \/ /\ TurnAround(q)
        /\ cond' = cond \ {"TX", "RX"}
        /\ ircard_receive(q)
     \/ /\ q.len = 0 /\ ~TurnAround(q)
        /\ tx_q' = q
        /\ cond' = cond \ {"TX"}
        /\ mcr' = IF card = "up" THEN {"INTR"} ELSE mcr
        /\ UNCHANGED air
  /\ UNCHANGED <<stackVars, speed, stop, irq, card, shm, out>>

(* ircard_receive_complete: the frame goes up or is dropped.  It leaves    *)
(* bank 1 selected (see IrcardRegs); what the handler then reads in place  *)
(* of MSR is taken to show the same conditions.                            *)
IrqRx ==
  /\ Iterate
  /\ MsrShows("RX")
  /\ cond' = cond \ {"RX"}
  /\ UNCHANGED <<stackVars, tbusy, tx_q, speed, stop, irq, card, mcr, air, shm, out>>

IrqExit ==
  /\ irq = "loop"
  /\ (card = "up" /\ cond = {}) \/ bogus = BogusMax + 2
  /\ irq' = "none"
  /\ bogus' = 0
  /\ UNCHANGED <<stackVars, tbusy, tx_q, speed, stop, card, chipVars, shm, out>>

-----------------------------------------------------------------------------
(* ircard_change_speed.  Writing MCR stops the transmitter; 0x07 written   *)
(* to the RESET register is not RESET_HARDWARE, so latched conditions stay.*)

SetSpeedDeaf(s) ==
  /\ speed' = s /\ tbusy' = FALSE /\ air' = Idle /\ mcr' = {}
  /\ tx_q' = IF IsFir(s) THEN ResetQueue(tx_q) ELSE tx_q

SetSpeed(s) ==
  /\ speed' = s
  /\ tbusy' = FALSE
  /\ air' = Idle
  /\ IF IsFir(s)
     THEN tx_q' = ResetQueue(tx_q) /\ mcr' = {"INTR", "RX"}
     ELSE mcr' = {} /\ UNCHANGED tx_q

ChangeSpeed(s) ==
  /\ card = "up"
  /\ xmit = "idle" /\ irq # "loop"
  /\ QuietSpeedChange => Quiet
  /\ SetSpeed(s)
  /\ UNCHANGED <<stackVars, stop, irq, bogus, card, cond, shm, out>>

-----------------------------------------------------------------------------
(* ircard_event                                                            *)

(* CS_EVENT_PM_SUSPEND and CS_EVENT_RESET_PHYSICAL                         *)
ResetPhysical ==
  /\ card = "up" /\ xmit = "idle"
  /\ card' = "down"
  /\ stop' = TRUE
  /\ mcr' = {} /\ air' = Idle /\ cond' = {}
  /\ UNCHANGED <<stackVars, tbusy, tx_q, speed, irq, bogus, shm, out>>

(* CS_EVENT_PM_RESUME and CS_EVENT_CARD_RESET                              *)
CardReset ==
  /\ card = "down" /\ xmit = "idle" /\ irq # "loop"
  /\ card' = "up"
  /\ stop' = FALSE
  /\ SetSpeed(9600)
  /\ UNCHANGED <<stackVars, irq, bogus, cond, shm, out>>

(* The card is pulled out, at any instant.                                 *)
Yank ==
  /\ card \in {"up", "down"}
  /\ card' = "gone"
  /\ mcr' = {} /\ air' = Idle /\ cond' = {}
  /\ UNCHANGED <<stackVars, tbusy, tx_q, speed, stop, irq, bogus, shm, out>>

(* CS_EVENT_CARD_REMOVAL                                                   *)
CardRemoval ==
  /\ card = "gone" /\ xmit = "idle"
  /\ card' = "removed"
  /\ stop' = TRUE
  /\ UNCHANGED <<stackVars, tbusy, tx_q, speed, irq, bogus, chipVars, shm, out>>

(* CS_EVENT_CARD_INSERTION: ircard_config resets the queue and the speed.  *)
CardInsertion ==
  /\ card = "removed" /\ xmit = "idle" /\ irq = "none"
  /\ card' = "up"
  /\ speed' = 9600
  /\ tx_q' = ResetQueue(tx_q)
  /\ UNCHANGED <<stackVars, tbusy, stop, irq, bogus, chipVars, shm, out>>

-----------------------------------------------------------------------------
Interrupt == IrqEnter \/ IrqLock \/ IrqTx \/ IrqRx \/ IrqExit
HardXmit  == XmitLock \/ XmitRegister \/ XmitUnlock

Next ==
  \/ (\E fs \in Turns : StartTurn(fs)) \/ (\E f \in Frames : Poll(f))
  \/ SirXmit
  \/ XmitLock \/ XmitRegister \/ XmitUnlock
  \/ ChipSent \/ ChipUnderrun \/ ChipReceived
  \/ IrqEnter \/ IrqLock \/ IrqTx \/ IrqRx \/ IrqExit
  \/ \E s \in Speeds : ChangeSpeed(s)
  \/ ResetPhysical \/ CardReset \/ Yank \/ CardRemoval \/ CardInsertion

(* The chip finishes what it sends, the CPU runs a handler that is raised, *)
(* and the kernel drains the device queue.  The last is strong: the lock   *)
(* hard_xmit waits for is released after at most BogusMax + 2 iterations,  *)
(* but a receiver may take it again and again.                             *)
Fairness ==
  /\ WF_vars(ChipSent \/ ChipUnderrun)
  /\ WF_vars(Interrupt)
  /\ SF_vars(HardXmit \/ SirXmit)

Spec     == Init /\ [][Next]_vars
FairSpec == Spec /\ Fairness

-----------------------------------------------------------------------------
(* Properties                                                              *)

(* Values the driver's variables may take.                                 *)
TypeOK ==
  /\ txqueue \in Seq(Frames) /\ Len(txqueue) <= MaxWindow
  /\ xmit \in {"idle", "locked", "queued"}
  /\ skb \in Frames \union {None}
  /\ xmit = "locked" => skb \in Frames
  /\ tbusy \in BOOLEAN
  /\ tx_q \in [ptr : Nat, len : Int, free : 0 .. MaxWindow,
                tail : 0 .. ShmSize, queue : [Slots -> Region]]
  /\ speed \in Speeds \union {9600}
  /\ stop \in BOOLEAN
  /\ irq \in {"none", "spin", "loop"}
  /\ bogus \in 0 .. BogusMax + 2
  /\ card \in {"up", "down", "gone", "removed"}
  /\ mcr \subseteq {"INTR", "TX", "RX"}
  /\ air \in Region
  /\ cond \subseteq {"TX", "RX"}
  /\ shm \in [0 .. ShmSize - 1 -> Frames \union {None}]
  /\ out \in Frames \union {None}

(* The card can be used for FIR traffic.                                   *)
FirUp == card = "up" /\ IsFir(speed)

(* Frames on the way from the device queue into tx_q.                      *)
Entering == IF xmit = "locked" THEN 1 ELSE 0

(* ptr and free never wrap and are reset only by ircard_receive: the turn  *)
(* that fills the queue must be over before the next one starts, or queue[]*)
(* and the shared memory are overrun.                                      *)
QueueInBounds ==
  FirUp => /\ tx_q.len >= 0
           /\ tx_q.ptr + tx_q.len = tx_q.free
           /\ tx_q.free + Entering + Len(txqueue) <= Window
           /\ tx_q.tail + (Entering + Len(txqueue)) * MaxFrame <= ShmSize

(* A registered frame is being sent or its completion is pending: the      *)
(* queue is never left with frames and nobody to start them.               *)
NoStuckFrame ==
  FirUp /\ tx_q.len > 0 => air # Idle \/ "TX" \in cond

(* The chip never sends and listens at once, and what it sends is the head *)
(* of the queue.                                                           *)
HalfDuplex ==
  FirUp /\ air # Idle => /\ "RX" \notin mcr /\ "TX" \in mcr
                         /\ air = tx_q.queue[tx_q.ptr]

(* When the stack has nothing more to send the transceiver listens: the    *)
(* txqueue_empty test never strands it with the receiver off.              *)
ListensWhenQuiet == FirUp /\ Quiet => "RX" \in mcr /\ tx_q.free = 0

(* No handler leaves the chip with its interrupts off at FIR speed.        *)
InterruptsOn == FirUp => "INTR" \in mcr

(* --- the inductive invariant behind them ------------------------------- *)

(* Room for what is on its way, also on a card that is not there.          *)
Room ==
  IsFir(speed) =>
    /\ tx_q.free + Entering + Len(txqueue) <= MaxWindow
    /\ tx_q.tail + (Entering + Len(txqueue)) * MaxFrame <= ShmSize

(* Handlers at rest leave no lock behind; FIR handlers run at FIR speed.   *)
HandlersOK ==
  /\ xmit = "locked" => IsFir(speed)
  /\ tbusy => xmit # "idle"

(* Transmission happens on a working card at FIR speed only.               *)
ChipOK ==
  /\ card # "up" => cond = {} /\ mcr = {}
  /\ "TX" \in cond => FirUp
  /\ air # Idle => FirUp

(* While frames are queued the transmitter is on and exactly one of        *)
(* "sending" and "completion pending" holds.                               *)
SendingOK ==
  FirUp =>
    /\ "INTR" \in mcr
    /\ tx_q.len > 0 => mcr = {"INTR", "TX"} /\ (air # Idle \/ "TX" \in cond)
    /\ "TX" \in cond => tx_q.len > 0 /\ air = Idle
    /\ air # Idle => tx_q.len > 0 /\ air = tx_q.queue[tx_q.ptr]
    /\ \A i \in Slots :
         tx_q.ptr <= i /\ i < tx_q.free => tx_q.queue[i].len > 0

(* An empty tx_q is reset and listening unless more is coming.             *)
TurnOK ==
  FirUp /\ tx_q.len = 0 =>
    \/ tx_q.free = 0 /\ tx_q.tail = 0 /\ "RX" \in mcr
    \/ txqueue # <<>>
    \/ xmit = "locked"

IInv ==
  /\ TypeOK /\ QueueInBounds /\ Room /\ HandlersOK /\ ChipOK
  /\ SendingOK /\ TurnOK

(* What the chip is pointed at is what the stack gave: each entry of tx_q  *)
(* that is not retired lies below tail and holds the frame it was made for.*)
InMemory ==
  FirUp => \A i \in Slots :
    tx_q.ptr <= i /\ i < tx_q.free =>
      /\ tx_q.queue[i].start + tx_q.queue[i].len <= tx_q.tail
      /\ \E f \in Frames : Holds(tx_q.queue[i], f)

(* --- what the path promises the stack ---------------------------------- *)

(* The frames accepted and not retired are what shared memory holds for    *)
(* the registered entries, so an overwritten or reordered frame shows; the *)
(* head has been sent when its completion is latched.                      *)
queued  == [n \in 1 .. tx_q.len |-> Content(tx_q.queue[tx_q.ptr + n - 1])]
retires == FirUp /\ "TX" \in cond

Fifo == INSTANCE TxFifo WITH
  open <- FirUp,
  fifo <- IF FirUp THEN queued ELSE <<>>,
  sent <- retires

(* The driver delivers frames to the air in order, unaltered, once.        *)
FifoSpec == Fifo!Spec

(* ... and never stops half way while the channel is open.                 *)
FifoFairSpec == Fifo!FairSpec

(* Every frame the stack hands to the device is taken.                     *)
DeviceQueueDrains == txqueue # <<>> ~> txqueue = <<>>
=============================================================================
