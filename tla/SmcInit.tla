------------------------------ MODULE SmcInit ------------------------------
(***************************************************************************)
(* The three tools of smcinit/ that wake the infrared part of an SMC       *)
(* 47N227: smcinit (set_smc), tosh1800-smcinit and tosh2450-smcinit.  Each *)
(* sets the bridge to decode the ports of the controller and writes a list *)
(* of registers of the chip; only smcinit reads back what it wrote.        *)
(*                                                                         *)
(* A definition followed by one it differs from in one place is a faulty   *)
(* variant of it, used only to see the properties fail.                    *)
(***************************************************************************)
EXTENDS SuperIo

CONSTANTS
  SmcArgs,       \* arguments of smcinit: [sir, fir, irq, dma, tty]
  ToshArgs       \* arguments of tosh1800-smcinit: [sir, fir, irq, dma, decode, chip]

(* What fits the registers: ports of 12 bits, of which register 0x25 keeps *)
(* bits 3 to 9 or 11, and interrupts of 4 bits.  The tools check none of   *)
(* it; smcinit notices the rest of what does not fit when it reads back.   *)
ASSUME SmcArgsAssumption ==
  \A a \in SmcArgs :
    /\ a \in [sir : Nat, fir : Nat, irq : 0 .. 15, dma : Nat, tty : BOOLEAN]
    /\ a.sir < 4096 /\ a.fir < 4096 /\ a.sir % 8 = 0

ASSUME ToshArgsAssumption ==
  \A a \in ToshArgs :
    /\ a \in [sir : Nat, fir : Nat, irq : 0 .. 15, dma : 0 .. 15,
              decode : {"set", "skip", "print"}, chip : BOOLEAN]
    /\ a.sir < 1024 /\ a.fir < 2048

(* An access to a register: what is kept of it, what is set, and whether   *)
(* it is read back and compared with the value asked for.                  *)
Put(r, v)        == [reg |-> r, keep |-> {}, set |-> v, check |-> FALSE]
Checked(r, v)    == [reg |-> r, keep |-> {}, set |-> v, check |-> TRUE]
Mask(r, keep, v) == [reg |-> r, keep |-> keep, set |-> v, check |-> FALSE]
Also(r, v)       == Mask(r, AllOnes, v)

(* From the UART2 mode to the valid bit, the same for both Intel tools.    *)
Finish ==
  << Mask(\h0c, Byte(\hc7), Byte(\h88)), Also(\h07, Byte(\h20)),
     Also(\h0a, Byte(\h40)), Put(\h02, Byte(\h80)), Also(\h00, Byte(\h80)) >>

set_smc(a) ==
  << Put(\h24, {}),
     Checked(\h25, Bits(((a.sir % 4096) \div 8) * 2)),
     Checked(\h28, Bits(a.irq)),
     Checked(\h2b, Bits((a.fir % 4096) \div 8)),
     Checked(\h2c, Bits(a.dma)) >> \o Finish

tosh2450 ==
  << Put(\h24, {}), Put(\h25, Byte(\hfe)), Put(\h28, Byte(7)),
     Put(\h2b, Byte(\h26)), Put(\h2c, Byte(1)) >> \o Finish

configure_47N227_smc_ircc(a) ==
  << Put(\h25, Byte(a.sir \div 4)),
     Put(\h2b, Byte(a.fir \div 8)),
     Put(\h2c, Byte(a.dma) \intersect Low),
     Mask(\h28, 4 .. 7, Byte(a.irq) \intersect Low),
     Mask(\h0c, (AllOnes \ Byte(\h38)) \union Byte(\h08), {}),
     Also(\h07, Byte(\h20)), Also(\h02, Byte(\h80)), Also(\h00, Byte(\h80)) >>

Plan ==
  CASE tool.name = "smcinit"  -> set_smc(tool.args)
    [] tool.name = "tosh2450" -> tosh2450
    [] tool.name = "tosh1800" -> configure_47N227_smc_ircc(tool.args)

(* The base addresses a tool tries, and the chips it accepts.              *)
Bases == IF tool.name = "smcinit" THEN <<\h2e, \h4e>> ELSE <<\h2e>>
Ids_Both == {Byte(\h5a), Byte(\h7a)}

Ids == IF tool.name = "smcinit" THEN {Byte(\h5a), Byte(\h7a)} ELSE {Byte(\h5a)}

StartSmcinit  == \E a \in SmcArgs : Start("smcinit", IF a.tty THEN "unbind" ELSE "bridge", a)
StartTosh2450 == Start("tosh2450", "bridge", {})

(* -b leaves retval at 0, and the bridge is configured only if it is not.  *)
StartTosh1800 ==
  \E a \in ToshArgs :
    IF a.chip THEN Start("tosh1800", "probe", a)
    ELSE /\ tool.name = "none"
         /\ last' = [name |-> "tosh1800", result |-> "failed", base |-> 0,
                     args |-> a, found |-> <<>>]
         /\ before' = chips
         /\ UNCHANGED <<chips, bridge, serial, tool>>

(* TIOCSSERIAL with PORT_UNKNOWN, unless there is no such tty; the port is *)
(* never given back.                                                       *)
unbind_from_serial ==
  /\ tool.step = "unbind"
  /\ \/ serial' = "unbound" /\ Goto("bridge", 1) /\ UNCHANGED last
     \/ End("failed") /\ UNCHANGED serial
  /\ UNCHANGED <<chips, bridge, before>>

(* The Intel bridge: COM A and B ranges, the second generic range and DMA. *)
IntelBridge(dma) ==
  /\ tool.step = "bridge"
  /\ IF bridge.kind = "intel"
     THEN /\ bridge' = [bridge EXCEPT
               !.reg["COM_DEC"] = Bits(\h10),
               !.reg["LPC_EN"] = (@ \ {1}) \union {0},
               !.reg["PCI_DMA_C"] = dma,
               !.reg["GEN2_DEC"] = Bits(\h131)]
          /\ Goto("probe", 1)
          /\ UNCHANGED last
     ELSE End("failed") /\ UNCHANGED bridge
  /\ UNCHANGED <<chips, serial, before>>

(* smcinit replaces the DMA register, tosh2450-smcinit adds to it.         *)
SmcinitBridge == tool.name = "smcinit" /\ IntelBridge(Bits(\hc0c0))

Tosh2450Bridge ==
  /\ tool.name = "tosh2450"
  /\ IntelBridge(bridge.reg["PCI_DMA_C"] \union Bits(\hc00c))

(* Try the next base: enter configuration state and read the device id.    *)
(* The Intel tools stay in configuration state, with the right chip and    *)
(* with the wrong one; tosh1800-smcinit leaves it and enters it again.     *)
Probe ==
  LET base  == Bases[tool.row]
      c     == Knock(chips[base], \h55, 1)
      right == Read(c, \h0d) \in Ids
  IN
  /\ tool.step = "probe"
  /\ chips' = [chips EXCEPT ![base] =
                 IF tool.name = "tosh1800" /\ ~right THEN Leave(c, \haa) ELSE c]
  /\ \/ /\ right
        /\ tool' = [tool EXCEPT !.step = "program", !.row = 1, !.base = base]
        /\ UNCHANGED last
     \/ /\ ~right /\ tool.row < Len(Bases)
        /\ Goto("probe", tool.row + 1)
        /\ UNCHANGED last
     \/ /\ ~right /\ tool.row = Len(Bases)
        /\ End("failed")
  /\ UNCHANGED <<bridge, serial, before>>

(* The next register of the plan.  A value that does not read back ends    *)
(* smcinit at once.                                                        *)
Program ==
  LET e    == Plan[tool.row]
      c    == chips[tool.base]
      next == Write(c, e.reg, (Read(c, e.reg) \intersect e.keep) \union (e.set \intersect AllOnes))
  IN
  /\ tool.step = "program"
  /\ chips' = [chips EXCEPT ![tool.base] = next]
  /\ IF e.check /\ Read(next, e.reg) # e.set
     THEN End("failed")
     ELSE /\ IF tool.row < Len(Plan) THEN Goto("program", tool.row + 1) ELSE Goto("leave", 1)
          /\ UNCHANGED last
  /\ UNCHANGED <<bridge, serial, before>>

LeaveConfig ==
  /\ tool.step = "leave"
  /\ chips' = [chips EXCEPT ![tool.base] = Leave(@, \haa)]
  /\ IF tool.name = "tosh1800" /\ tool.args.decode # "skip"
     THEN Goto("ali", 1) /\ UNCHANGED last
     ELSE End("ok")
  /\ UNCHANGED <<bridge, serial, before>>

(* The ports the ALi bridge is known to decode, with register and mask.    *)
ali1533_ports ==
  { [port |-> \h130, reg |-> "b0", mask |-> Byte(\h80)],
    [port |-> \h178, reg |-> "b0", mask |-> Byte(\h80)],
    [port |-> \h3f8, reg |-> "b4", mask |-> Byte(\h80)],
    [port |-> \h2f8, reg |-> "b4", mask |-> Byte(\h30)],
    [port |-> \h2e8, reg |-> "b4", mask |-> Byte(\h08)] }

set_ali1533_port_Only(port, reg) ==
  LET known == {p \in ali1533_ports : p.port = port} IN
  [r \in DOMAIN reg |-> UNION {p.mask : p \in {q \in known : q.reg = r}}
                        \union (IF r \in {p.reg : p \in known} THEN {} ELSE reg[r])]

(* A port that is not in the table changes nothing and is no failure.      *)
set_ali1533_port(port, reg) ==
  LET known == {p \in ali1533_ports : p.port = port} IN
  [r \in DOMAIN reg |-> reg[r] \union UNION {p.mask : p \in {q \in known : q.reg = r}}]

AliBridge ==
  /\ tool.step = "ali"
  /\ IF bridge.kind = "ali"
     THEN /\ bridge' = [bridge EXCEPT !.reg =
               IF tool.args.decode = "print" THEN @
               ELSE set_ali1533_port(tool.args.fir, set_ali1533_port(tool.args.sir, @))]
          /\ End("ok")
     ELSE End("failed") /\ UNCHANGED bridge
  /\ UNCHANGED <<chips, serial, before>>

SmcStep ==
  \/ StartSmcinit \/ StartTosh2450 \/ StartTosh1800
  \/ unbind_from_serial \/ SmcinitBridge \/ Tosh2450Bridge \/ Probe \/ Program \/ LeaveConfig \/ AliBridge
=============================================================================
