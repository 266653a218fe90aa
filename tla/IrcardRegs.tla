----------------------------- MODULE IrcardRegs -----------------------------
(***************************************************************************)
(* The register level of pcmcia/ircard_cs.c.  The 31T1502 shows one of     *)
(* four register banks at a time; MCR holds the bank and the interrupt, Tx *)
(* and Rx enable bits.  Every routine is a program of register operations  *)
(* with the routines it calls inlined, run one operation at a time; the    *)
(* routines themselves are serialised by idev->lock.                       *)
(*                                                                         *)
(* Values written matter for MCR and IR_TRANS_CTRL only.                   *)
(*                                                                         *)
(* A definition followed by one it differs from in one place is a faulty   *)
(* variant of it, used only to see the properties fail.                    *)
(***************************************************************************)
EXTENDS Naturals, Sequences

CONSTANTS
  Speeds,    \* baud rates that may be asked for
  MaxEvents  \* bound on the events of one interrupt: 12 in the code

ASSUME RegsAssumption == Speeds \subseteq Nat /\ MaxEvents \in Nat

(* The rates ircard_config offers in qos.baud_rate (465) have none between *)
(* those two, the only ones after which Transceiver has to decide.         *)
ASSUME RatesAssumption == \A s \in Speeds : s <= 1152000 \/ s >= 4000000

VARIABLES
  mcr,    \* [bank, en]: the bank shown and the enable bits
  trans,  \* IR_TRANS_CTRL
  mode,   \* the mode the transceiver latched, "SIR" or "FIR" (external)
  speed,  \* idev->io.baudrate
  prog,   \* what the running routine has left to do
  ctx,    \* the routine running, or the last one: "probe", "speed", "xmit",
          \* "irq", or "rxirq", an interrupt that has handled a receive event
  saved   \* local variables that hold a bank across calls

vars == <<mcr, trans, mode, speed, prog, ctx, saved>>

Bank0 == {"MSR", "MISC", "TX_CTRL1", "TX_CTRL2", "TX_STAT", "RX_CTRL", "RESET"}
Bank1 == {"RX_RING_FRM_PTR", "TX_BYTE_COUNT"}
Bank2 == {"IR_CONF", "IR_TRANS_CTRL"}
Bank3 == {"SH_MEM_PAGE", "TX_DMA_ADDR", "REVISION_ID"}

Registers == Bank0 \union Bank1 \union Bank2 \union Bank3

BankOf(r) == CASE r \in Bank0 -> 0 [] r \in Bank1 -> 1
               [] r \in Bank2 -> 2 [] OTHER -> 3

IsFir(s) == s > 115200

-----------------------------------------------------------------------------
(* Register operations                                                     *)

switch_bank(b)        == <<[op |-> "switch", bank |-> b, save |-> "no"]>>
switch_bank_to(b, v)  == <<[op |-> "switch", bank |-> b, save |-> v]>>
restore_bank(v)       == <<[op |-> "restore", from |-> v]>>
raw_switch_bank(b)    == <<[op |-> "mcr", en |-> {}, bank |-> b]>>
set_mcr(en, b)        == <<[op |-> "mcr", en |-> en, bank |-> b]>>
set_mcr_saved(en, v)  == <<[op |-> "mcrSaved", en |-> en, from |-> v]>>
access(r)             == <<[op |-> "reg", reg |-> r, val |-> {}]>>
outb(v, r)            == <<[op |-> "reg", reg |-> r, val |-> v]>>

XcvrOff == "XCVROFF"
TxdFrc  == "TXD_FRC"

-----------------------------------------------------------------------------
(* Routines                                                                *)

ircard_probe ==
  switch_bank(3) \o access("REVISION_ID") \o access("SH_MEM_PAGE")
  \o switch_bank(0) \o access("TX_CTRL2")
  \o switch_bank(3) \o access("SH_MEM_PAGE") \o access("TX_DMA_ADDR")

ircard_sir_to_fir ==
  raw_switch_bank(2)
  \o outb({XcvrOff}, "IR_TRANS_CTRL") \o outb({XcvrOff, TxdFrc}, "IR_TRANS_CTRL")
  \o outb({TxdFrc}, "IR_TRANS_CTRL") \o outb({}, "IR_TRANS_CTRL")

ircard_fir_to_sir ==
  raw_switch_bank(2)
  \o outb({XcvrOff}, "IR_TRANS_CTRL") \o outb({}, "IR_TRANS_CTRL")

ircard_dma_write_NoSwitch ==
  switch_bank(0) \o access("MISC")
  \o set_mcr({"INTR", "TX"}, 0) \o access("TX_CTRL2")
  \o switch_bank(1) \o access("TX_BYTE_COUNT")
  \o switch_bank(3) \o access("SH_MEM_PAGE") \o access("TX_DMA_ADDR")
  \o access("MISC")
  \o switch_bank(0) \o access("TX_CTRL1")

ircard_dma_write ==
  switch_bank(0) \o access("MISC")
  \o set_mcr({"INTR", "TX"}, 0) \o access("TX_CTRL2")
  \o switch_bank(1) \o access("TX_BYTE_COUNT")
  \o switch_bank(3) \o access("SH_MEM_PAGE") \o access("TX_DMA_ADDR")
  \o switch_bank(0) \o access("MISC")
  \o switch_bank(0) \o access("TX_CTRL1")

ircard_receive_Mute ==
  switch_bank_to(0, "receive") \o outb({"RX_SPEC_BITS"}, "RESET")
  \o set_mcr_saved({"RX"}, "receive") \o switch_bank(0) \o access("RX_CTRL")

ircard_receive ==
  switch_bank_to(0, "receive") \o set_mcr_saved({"INTR"}, "receive")
  \o outb({"RX_SPEC_BITS"}, "RESET") \o outb({"RX_RFP"}, "RESET")
  \o set_mcr_saved({"RX", "INTR"}, "receive")
  \o switch_bank(0) \o access("RX_CTRL") \o access("MISC")

(* What follows a completion: another frame, turning around, or neither.   *)
Follow(next) ==
  CASE next = "more" -> ircard_dma_write
    [] next = "turn" -> access("TX_CTRL1") \o ircard_receive
    [] next = "wait" -> <<>>

ircard_xmit_complete(next) ==
  switch_bank_to(0, "complete") \o access("TX_STAT")
  \o set_mcr_saved({"INTR"}, "complete") \o access("MISC")
  \o outb({"TX_SPEC_BITS"}, "RESET") \o Follow(next)

ircard_receive_complete(overrun) ==
  switch_bank(1) \o access("RX_RING_FRM_PTR")
  \o (IF overrun THEN switch_bank(0) \o outb({"RX_SPEC_BITS"}, "RESET")
                 ELSE <<>>)

loop(n) == <<[op |-> "loop", left |-> n]>>

Events == {"more", "turn", "wait", "rx", "overrun", "other"}

Handle(e) ==
  CASE e \in {"more", "turn", "wait"} -> ircard_xmit_complete(e)
    [] e = "rx"      -> ircard_receive_complete(FALSE)
    [] e = "overrun" -> ircard_receive_complete(TRUE)
    [] e = "other"   -> <<>>

(* The transceiver's mode changes only between 1152000 and 4000000.        *)
Transceiver_MirIsFir(from, to) ==
  IF from > 1152000 /\ to < 1152000 THEN ircard_fir_to_sir
  ELSE IF from < 4000000 /\ to > 1152000 THEN ircard_sir_to_fir
  ELSE <<>>

Transceiver(from, to) ==
  IF from > 1152000 /\ to < 4000000 THEN ircard_fir_to_sir
  ELSE IF from < 4000000 /\ to > 1152000 THEN ircard_sir_to_fir
  ELSE <<>>

(* outb_p(0x07, iobase+7): 0x07 is none of the RESET commands.             *)
change_speed(from, to) ==
  Transceiver(from, to)
  \o raw_switch_bank(0) \o outb({"0x07"}, "RESET")
  \o raw_switch_bank(2) \o access("IR_CONF")
  \o (IF IsFir(to) THEN ircard_receive ELSE <<>>)

hard_xmit(first) ==
  switch_bank(0) \o (IF first THEN ircard_dma_write ELSE <<>>)

-----------------------------------------------------------------------------
Init ==
  /\ mcr = [bank |-> 0, en |-> {}]
  /\ trans = {} /\ mode = "SIR"
  /\ speed = 9600
  /\ prog = ircard_probe /\ ctx = "probe"
  /\ saved = [v \in {"no", "receive", "complete", "irq"} |-> 0]

Start(c, p) == prog = <<>> /\ prog' = p /\ ctx' = c

(* A card that is inserted starts from its power-on state; ircard_config   *)
(* sets 9600 baud and probes it.                                           *)
ircard_config ==
  /\ Start("probe", ircard_probe)
  /\ speed' = 9600
  /\ mcr' = [bank |-> 0, en |-> {}]
  /\ trans' = {} /\ mode' = "SIR"
  /\ UNCHANGED saved

(* CS_EVENT_CARD_RESET: power-on state again, then a change to 9600 baud   *)
(* that starts from the rate the driver still remembers.                   *)
CardReset ==
  /\ Start("speed", change_speed(speed, 9600))
  /\ speed' = 9600
  /\ mcr' = [bank |-> 0, en |-> {}]
  /\ trans' = {} /\ mode' = "SIR"
  /\ UNCHANGED saved

ircard_change_speed(s) ==
  /\ Start("speed", change_speed(speed, s))
  /\ speed' = s
  /\ UNCHANGED <<mcr, trans, mode, saved>>

ircard_hard_xmit(first) ==
  /\ IsFir(speed)
  /\ Start("xmit", hard_xmit(first))
  /\ UNCHANGED <<mcr, trans, mode, speed, saved>>

(* The handler saves the bank, reads MSR and loops while it shows events.  *)
ircard_interrupt ==
  /\ IsFir(speed) /\ "INTR" \in mcr.en
  /\ Start("irq", switch_bank_to(0, "irq") \o access("MSR") \o loop(MaxEvents))
  /\ UNCHANGED <<mcr, trans, mode, speed, saved>>

-----------------------------------------------------------------------------
Running(op) == prog # <<>> /\ Head(prog).op = op

LeaveIrq_KeepBank == <<>>

LeaveIrq == restore_bank("irq")

(* One turn of the handler's loop: an event, after which MSR is read again *)
(* without switching the bank back, or none and the bank restored.         *)
IrqEvent(e) ==
  LET left == Head(prog).left - 1 IN
  /\ Running("loop")
  /\ prog' = Handle(e) \o (IF left = 0 THEN LeaveIrq ELSE access("MSR") \o loop(left))
  /\ ctx' = IF e \in {"rx", "overrun"} THEN "rxirq" ELSE ctx
  /\ UNCHANGED <<mcr, trans, mode, speed, saved>>

IrqDone ==
  /\ Running("loop")
  /\ prog' = LeaveIrq
  /\ UNCHANGED <<mcr, trans, mode, speed, ctx, saved>>

Step == prog' = Tail(prog) /\ UNCHANGED <<speed, ctx>>

(* switch_bank: the old bank is what MCR_BANK_MASK leaves of MCR.          *)
DoSwitch ==
  /\ Running("switch") /\ Step
  /\ saved' = [saved EXCEPT ![Head(prog).save] = mcr.bank]
  /\ mcr' = [mcr EXCEPT !.bank = Head(prog).bank]
  /\ UNCHANGED <<trans, mode>>

DoRestore ==
  /\ Running("restore") /\ Step
  /\ mcr' = [mcr EXCEPT !.bank = saved[Head(prog).from]]
  /\ UNCHANGED <<trans, mode, saved>>

DoMcr ==
  /\ Running("mcr") /\ Step
  /\ mcr' = [bank |-> Head(prog).bank, en |-> Head(prog).en]
  /\ UNCHANGED <<trans, mode, saved>>

DoMcrSaved ==
  /\ Running("mcrSaved") /\ Step
  /\ mcr' = [bank |-> saved[Head(prog).from], en |-> Head(prog).en]
  /\ UNCHANGED <<trans, mode, saved>>

(* An access reaches the register only in its own bank.  The transceiver   *)
(* (external) latches its mode from TXD when XCVROFF is released.          *)
DoRegister ==
  LET r == Head(prog).reg
      v == Head(prog).val
      reached == mcr.bank = BankOf(r)
  IN
  /\ Running("reg") /\ Step
  /\ trans' = IF r = "IR_TRANS_CTRL" /\ reached THEN v ELSE trans
  /\ mode' = IF XcvrOff \in trans /\ XcvrOff \notin trans'
             THEN (IF TxdFrc \in trans' THEN "FIR" ELSE "SIR") ELSE mode
  /\ UNCHANGED <<mcr, saved>>

Next ==
  \/ ircard_config \/ CardReset
  \/ \E s \in Speeds : ircard_change_speed(s)
  \/ \E first \in BOOLEAN : ircard_hard_xmit(first)
  \/ ircard_interrupt
  \/ \E e \in Events : IrqEvent(e)
  \/ IrqDone
  \/ DoSwitch \/ DoRestore \/ DoMcr \/ DoMcrSaved \/ DoRegister

Spec == Init /\ [][Next]_vars

-----------------------------------------------------------------------------
(* Properties                                                              *)

InBank(r) == Running("reg") /\ Head(prog).reg = r => mcr.bank = BankOf(r)

(* Every register is accessed with its bank selected, along every sequence *)
(* of routines: the bank one routine leaves never misleads the next.  Two  *)
(* places of the code are excepted, because there it does: ircard_receive  *)
(* called by ircard_change_speed inherits bank 2, switches back to it with *)
(* its first ircard_set_mcr and gives its RESET commands there (1008), and *)
(* the interrupt loop reads its next status in the bank 1 that             *)
(* ircard_receive_complete leaves selected (1200), which a completion      *)
(* handled then saves and switches back to.                                *)
AccessInBank ==
  ctx # "rxirq" =>
    \A r \in Registers : (r = "RESET" /\ ctx = "speed") \/ InBank(r)

(* "Save bank, so the original bank is restored when we return" (1169).    *)
BankRestored ==
  ctx \in {"irq", "rxirq"} /\ prog = <<>> => mcr.bank = saved["irq"]

(* __switch_bank clears the enable bits: every routine that uses it at FIR *)
(* speed sets INTR again before it ends.                                   *)
InterruptsSurvive == IsFir(speed) /\ prog = <<>> => "INTR" \in mcr.en

(* The transceiver is in FIR mode exactly at 4 Mbit/s, whatever speeds it  *)
(* went through, and it is never left switched off.                        *)
TransceiverFollowsSpeed ==
  prog = <<>> => trans = {} /\ (mode = "FIR" <=> speed >= 4000000)
=============================================================================
