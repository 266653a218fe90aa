----------------------------- MODULE IrdaSetup -----------------------------
(***************************************************************************)
(* The tools of smcinit/ and findchip/ run one after the other, in any     *)
(* order, on one machine; any of them may be killed half way, and the next *)
(* one finds the chips as they were left.                                  *)
(***************************************************************************)
EXTENDS SmcInit, Findchip

CONSTANTS
  Boards,        \* which chip is at which base: functions on part of Ports
  Powers         \* contents of the UART mode register at power-up

Ports == {\h2e, \h4e, \h3f0, \h370, \h398, \h150, \hea, \h15c}

(* A W83977 is strapped to 0x3f0: that is the strap it reads back in Kind. *)
ASSUME BoardsAssumption ==
  \A board \in Boards :
    /\ DOMAIN board \subseteq Ports
    /\ \A b \in DOMAIN board : board[b] \in DOMAIN Kind /\ (board[b] = "w977" => b = \h3f0)

ASSUME PowersAssumption == Powers \subseteq SUBSET AllOnes

(* A chip as the BIOS leaves it: closed, with some UART mode (47N2xx) and  *)
(* with its FIR port set or not (FDC37).  The chips of NSC have no         *)
(* configuration state and always answer.                                  *)
PowerUp(model, mode, fir) ==
  [model |-> model, open |-> model = "pc338", bank |-> 0,
   reg |-> [r \in Regs |->
     CASE r = \h0c /\ model \in {"smc227", "smc252"}           -> mode
       [] r = \h2b /\ model \in {"smc669", "smc869", "smc958"} -> fir
       [] OTHER                                                 -> {}]]

Init ==
  /\ \E board \in Boards, mode \in Powers, fir \in {{}, Byte(\h26)} :
       chips = [b \in Ports |-> IF b \in DOMAIN board THEN PowerUp(board[b], mode, fir)
                                ELSE PowerUp("none", {}, {})]
  /\ \E kind \in {"intel", "ali", "other"} :
       bridge = [kind |-> kind,
                 reg |-> [r \in {"COM_DEC", "LPC_EN", "PCI_DMA_C", "GEN2_DEC", "b0", "b4"} |->
                            IF r = "b4" THEN Byte(\h80) ELSE {}]]
  /\ serial = "bound"
  /\ tool = Idle
  /\ before = chips
  /\ last = NoResult

Next == SmcStep \/ FindchipStep \/ Kill

Spec == Init /\ [][Next]_ioVars

-----------------------------------------------------------------------------
AtRest == tool.name = "none"

(* What a tool that exits with 0 has set up: UART2 with the ports, the     *)
(* interrupt and the DMA channel asked for, powered, the configuration     *)
(* valid and the chip out of configuration state ...                       *)
Asked ==
  CASE last.name = "smcinit"  -> last.args
    [] last.name = "tosh1800" -> last.args
    [] last.name = "tosh2450" -> [sir |-> \h3f8, fir |-> \h130, irq |-> 7, dma |-> 1]

Configured(c, a) ==
  /\ c.reg[\h25] = Bits(a.sir \div 4) /\ c.reg[\h2b] = Bits(a.fir \div 8)
  /\ c.reg[\h28] \intersect Low = Bits(a.irq) /\ c.reg[\h2c] = Bits(a.dma)
  /\ 7 \in c.reg[\h02] /\ 7 \in c.reg[\h00]
  /\ ~c.open

(* ... in IrDA mode, except that tosh1800-smcinit only keeps that mode:    *)
(* its mask clears the other bits and sets none ...                        *)
IrdaMode(c, was) ==
  LET mode == c.reg[\h0c] \intersect 3 .. 5 IN
  mode = {3} \/ (last.name = "tosh1800" /\ 3 \notin was.reg[\h0c] /\ mode = {})

(* ... and decoded by the bridge, as far as the tool knows how: the Intel  *)
(* tools open 0x3f8, 0x130 and one DMA channel whatever they are asked     *)
(* for, and the table of the ALi bridge is short.                          *)
Decoded(a) ==
  IF last.name = "tosh1800"
  THEN a.decode = "set" =>
         \A p \in ali1533_ports : p.port \in {a.sir, a.fir} => p.mask \subseteq bridge.reg[p.reg]
  ELSE /\ 0 \in bridge.reg["LPC_EN"] /\ 1 \notin bridge.reg["LPC_EN"]
       /\ bridge.reg["GEN2_DEC"] = Bits(\h131)
       /\ (IF last.name = "smcinit" THEN 6 ELSE 2) \in bridge.reg["PCI_DMA_C"]

(* A tool of smcinit/ that reports success has done all of it, whatever    *)
(* state an earlier tool, completed or killed, left the chip and the       *)
(* bridge in.                                                              *)
SuccessIsUsable ==
  (AtRest /\ last.result = "ok" /\ last.name # "findchip") =>
    LET c == chips[last.base] IN
    Configured(c, Asked) /\ IrdaMode(c, before[last.base]) /\ Decoded(Asked)

(* A chip is in configuration state, where its ports take every write for  *)
(* a register number, only if the last tool found it so, was killed, or is *)
(* one of the Intel tools and gave up; smcinit also leaves a chip open     *)
(* that it passed over on its way to 0x4e.                                 *)
LeavesConfigState ==
  AtRest => \A b \in Ports :
    chips[b].open =>
      \/ before[b].open
      \/ last.result = "killed"
      \/ last.result = "failed" /\ last.name \in {"smcinit", "tosh2450"}
      \/ last.name = "smcinit" /\ b = \h2e /\ last.base = \h4e

(* No tool changes a chip that is not the one it is for; findchip changes  *)
(* nothing but the logical device of chips that have several.              *)
OnlyTheRightChip ==
  \A b \in Ports, r \in Regs :
    chips[b].reg[r] # before[b].reg[r] =>
      LET name == IF AtRest THEN last.name ELSE tool.name IN
      \/ name = "smcinit" /\ chips[b].model \in {"smc227", "smc252"}
      \/ name \in {"tosh1800", "tosh2450"} /\ chips[b].model = "smc227"
      \/ name = "findchip" /\ r = \h07 /\ chips[b].model \in {"smc958", "w977"}

(* A completed findchip has printed every chip its families know, once and *)
(* with the right name, and nothing else; a second chip of a family that   *)
(* stops at the first is not looked for.                                   *)
Reports(b) == {n \in 1 .. Len(last.found) : last.found[n].base = b}

Knows(row, b) ==
  row.base = b /\ row.model = chips[b].model /\ row.family \in last.args

FoundIsThere ==
  (AtRest /\ last.name = "findchip" /\ last.result = "ok") =>
    /\ \A n \in 1 .. Len(last.found) : last.found[n].model = chips[last.found[n].base].model
    /\ \A b \in Ports, i \in 1 .. Len(allchips) :
         Knows(allchips[i], b) =>
           \/ \E n \in Reports(b) : Reports(b) = {n}
           \/ /\ Reports(b) = {} /\ allchips[i].family # "NSC"
              /\ \E n \in 1 .. Len(last.found) :
                   last.found[n].family = allchips[i].family /\ last.found[n].fir
=============================================================================
