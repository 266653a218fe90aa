-------------------------- MODULE IrdaSetupProofs --------------------------
(***************************************************************************)
(* IInv is an inductive invariant of IrdaSetup, for every board, every     *)
(* power-up state and all arguments that fit the registers: in whatever    *)
(* order the tools run and wherever they are killed, a tool that reports   *)
(* success has set up the right chip, no tool writes to another one, and   *)
(* findchip reports what is there.                                         *)
(***************************************************************************)
EXTENDS IrdaSetup, TLAPS

Models     == DOMAIN Kind
BridgeRegs == {"COM_DEC", "LPC_EN", "PCI_DMA_C", "GEN2_DEC", "b0", "b4"}
Families   == {"SMC", "NSC", "WINBOND"}
Rows       == 1 .. 22

Chip == [model : Models, open : BOOLEAN, bank : {0, 3}, reg : [Regs -> SUBSET AllOnes]]

RowModels == {allchips[i].model : i \in Rows}

Entry == [family : Families, model : RowModels, base : Ports, fir : BOOLEAN]

Tool ==
  [name : {"none", "smcinit", "tosh1800", "tosh2450", "findchip"},
   step : {"none", "unbind", "bridge", "probe", "program", "leave", "ali", "row", "exit"},
   row : 0 .. 22, base : Ports \union {0}, args : {tool.args}, found : Seq(Entry)]

TypeOK ==
  /\ chips \in [Ports -> Chip] /\ before \in [Ports -> Chip]
  /\ bridge \in [kind : {"intel", "ali", "other"}, reg : [BridgeRegs -> SUBSET (0 .. 15)]]
  /\ tool \in Tool

(* Where each tool may be.                                                 *)
ToolAt ==
  /\ tool.name = "none" => tool = Idle
  /\ tool.name = "smcinit" =>
       /\ tool.args \in SmcArgs
       /\ \/ tool.step \in {"unbind", "bridge"} /\ tool.row = 1
          \/ tool.step = "probe" /\ tool.row \in {1, 2}
          \/ tool.step = "program" /\ tool.row \in 1 .. 10 /\ tool.base \in {\h2e, \h4e}
          \/ tool.step = "leave" /\ tool.base \in {\h2e, \h4e}
  /\ tool.name = "tosh2450" =>
       \/ tool.step \in {"bridge", "probe"} /\ tool.row = 1
       \/ tool.step = "program" /\ tool.row \in 1 .. 10 /\ tool.base = \h2e
       \/ tool.step = "leave" /\ tool.base = \h2e
  /\ tool.name = "tosh1800" =>
       /\ tool.args \in ToshArgs
       /\ \/ tool.step = "probe" /\ tool.row = 1
          \/ tool.step = "program" /\ tool.row \in 1 .. 8 /\ tool.base = \h2e
          \/ tool.step \in {"leave", "ali"} /\ tool.base = \h2e
  /\ tool.name = "findchip" =>
       tool.args \subseteq Families /\ tool.step \in {"row", "exit"} /\ tool.row \in Rows

(* Chips are not exchanged; the W83977 is where its strap says, and the    *)
(* PC87338 always answers.                                                 *)
SameChips ==
  \A b \in Ports :
    /\ chips[b].model = before[b].model
    /\ chips[b].model = "w977" => b = \h3f0
    /\ chips[b].model = "pc338" => chips[b].open

(* The chip that a tool of smcinit/ has accepted.                          *)
Wakes == tool.name \in {"smcinit", "tosh1800", "tosh2450"}

Accepted ==
  Wakes /\ tool.step \in {"program", "leave", "ali"} =>
    /\ \/ chips[tool.base].model = "smc227"
       \/ chips[tool.base].model = "smc252" /\ tool.name = "smcinit"
    /\ chips[tool.base].open <=> tool.step # "ali"

(* What an entry of the plan leaves in its register.                       *)
Target(e, was) == ((was.reg[e.reg] \intersect e.keep) \union (e.set \intersect AllOnes))
                    \intersect Implemented(e.reg)

Progress ==
  Wakes /\ tool.step \in {"program", "leave", "ali"} =>
    \A i \in 1 .. Len(Plan) :
      LET e == Plan[i]
          r == chips[tool.base].reg[e.reg]
      IN  IF tool.step = "program" /\ i >= tool.row
          THEN r = before[tool.base].reg[e.reg]
          ELSE r = Target(e, before[tool.base]) /\ (e.check => r = e.set)

(* Nothing is written before the chip is found.                            *)
Untouched ==
  Wakes /\ tool.step \in {"unbind", "bridge", "probe"} =>
    \A b \in Ports : chips[b].reg = before[b].reg

BridgeOpen ==
  tool.name \in {"smcinit", "tosh2450"} /\ tool.step \in {"probe", "program", "leave"} =>
    /\ 0 \in bridge.reg["LPC_EN"] /\ 1 \notin bridge.reg["LPC_EN"]
    /\ bridge.reg["GEN2_DEC"] = Bits(\h131)
    /\ (IF tool.name = "smcinit" THEN 6 ELSE 2) \in bridge.reg["PCI_DMA_C"]

(* The chips that the running tool may have put in configuration state.    *)
MayBeOpen(b) ==
  \/ /\ tool.name \in {"smcinit", "tosh2450"} /\ tool.step = "probe"
     /\ tool.row = 2 /\ b = \h2e
  \/ /\ Wakes /\ tool.step \in {"program", "leave"}
     /\ b = tool.base \/ (b = \h2e /\ tool.base = \h4e)
  \/ tool.step = "exit" /\ b = Row.base /\ Kind[chips[b].model].exit = Row.exit

OpenedByTool == ~AtRest => \A b \in Ports : chips[b].open => before[b].open \/ MayBeOpen(b)

(* What findchip has reported after the rows it has done.  Row 21 is the   *)
(* W83877 with another key, which finds nothing: the chip of Kind has the  *)
(* key of row 22.                                                          *)
RightRow(i) == i # 21 /\ chips[allchips[i].base].model = allchips[i].model

DoneRow(i) == i < tool.row \/ (i = tool.row /\ tool.step = "exit")

ReportedBy(n, i) ==
  /\ DoneRow(i) /\ RightRow(i)
  /\ tool.found[n].base = allchips[i].base /\ tool.found[n].model = allchips[i].model

IsReported(i) ==
  \/ \E n \in 1 .. Len(tool.found) : tool.found[n].base = allchips[i].base
  \/ /\ allchips[i].family # "NSC"
     /\ \E n \in 1 .. Len(tool.found) :
          tool.found[n].family = allchips[i].family /\ tool.found[n].fir

Reported ==
  tool.name = "findchip" =>
    /\ \A n \in 1 .. Len(tool.found) : \E i \in Rows : ReportedBy(n, i)
    /\ \A m, n \in 1 .. Len(tool.found) : tool.found[m].base = tool.found[n].base => m = n
    /\ \A i \in Rows :
         DoneRow(i) /\ RightRow(i) /\ allchips[i].family \in tool.args => IsReported(i)

IInv ==
  /\ TypeOK /\ ToolAt /\ SameChips /\ Accepted /\ Progress /\ Untouched
  /\ BridgeOpen /\ OpenedByTool /\ Reported
  /\ SuccessIsUsable /\ LeavesConfigState /\ OnlyTheRightChip /\ FoundIsThere

-----------------------------------------------------------------------------
(* Bytes                                                                   *)

Bit(n, b) == (n \div 2^b) % 2 = 1

LEMMA BitOf ==
  /\ \A n, b : b \in Bits(n) <=> b \in 0 .. 15 /\ Bit(n, b)
  /\ \A n, b : b \in Byte(n) <=> b \in 0 .. 7 /\ Bit(n, b)
BY DEF Bits, Byte, Bit

LEMMA Octet ==
  \A b \in 0 .. 7 : b = 0 \/ b = 1 \/ b = 2 \/ b = 3 \/ b = 4 \/ b = 5 \/ b = 6 \/ b = 7
OBVIOUS

LEMMA BitIs ==
  \A n \in Nat :
    /\ Bit(n, 0) <=> n % 2 = 1
    /\ Bit(n, 1) <=> (n \div 2) % 2 = 1
    /\ Bit(n, 2) <=> (n \div 4) % 2 = 1
    /\ Bit(n, 3) <=> (n \div 8) % 2 = 1
    /\ Bit(n, 4) <=> (n \div 16) % 2 = 1
    /\ Bit(n, 5) <=> (n \div 32) % 2 = 1
    /\ Bit(n, 6) <=> (n \div 64) % 2 = 1
    /\ Bit(n, 7) <=> (n \div 128) % 2 = 1
BY DEF Bit

(* The identifications and the masks of the probes.                        *)
LEMMA IdBytes ==
  /\ Byte(\h5a) = {1, 3, 4, 6} /\ Byte(\h7a) = {1, 3, 4, 5, 6} /\ Byte(\h42) = {1, 6}
  /\ Byte(\h29) = {0, 3, 5} /\ Byte(\h03) = {0, 1} /\ Byte(\h04) = {2} /\ Byte(\h07) = {0, 1, 2}
BY BitOf, Octet, BitIs

LEMMA MoreIdBytes ==
  /\ Byte(\h09) = {0, 3} /\ Byte(\h97) = {0, 1, 2, 4, 7} /\ Byte(\h74) = {2, 4, 5, 6}
  /\ Byte(\h0d) = {0, 2, 3} /\ Byte(\hb2) = {1, 4, 5, 7} /\ Byte(\hb0) = {4, 5, 7}
  /\ Byte(\h10) = {4}
BY BitOf, Octet, BitIs

LEMMA MaskBytes ==
  /\ Byte(0) = {} /\ Byte(1) = {0} /\ Byte(\h20) = {5} /\ Byte(\h40) = {6}
  /\ Byte(\h0f) = {0, 1, 2, 3} /\ Byte(\hf0) = {4, 5, 6, 7} /\ Byte(\hff) = 0 .. 7
BY BitOf, Octet, BitIs

(* What the plans write where SuccessIsUsable looks at single bits.        *)
LEMMA PlanBytes ==
  /\ Byte(\hc7) = {0, 1, 2, 6, 7} /\ Byte(\h88) = {3, 7} /\ Byte(\h80) = {7}
  /\ Byte(\h38) = {3, 4, 5} /\ Byte(\h08) = {3}
BY BitOf, Octet, BitIs

LEMMA ByteType == \A n : Byte(n) \in SUBSET (0 .. 7)
BY BitOf

(* A number that fits a byte, and one that fits its lower half.            *)
LEMMA FitsByte == ASSUME NEW n \in Nat, n < 256 PROVE Bits(n) = Byte(n)
<1>1. ~Bit(n, 8) /\ ~Bit(n, 9) /\ ~Bit(n, 10) /\ ~Bit(n, 11) /\ ~Bit(n, 12)
      /\ ~Bit(n, 13) /\ ~Bit(n, 14) /\ ~Bit(n, 15)
  BY DEF Bit
<1>2. \A b \in 0 .. 15 : b \in 0 .. 7 \/ b \in {8, 9, 10, 11, 12, 13, 14, 15}
  OBVIOUS
<1>3. \A b \in 0 .. 15 : Bit(n, b) => b \in 0 .. 7
  BY <1>1, <1>2
<1> QED BY <1>3, BitOf

LEMMA FitsLow == ASSUME NEW n \in 0 .. 15 PROVE Bits(n) = Byte(n) /\ Byte(n) \subseteq Low
<1>1. Bits(n) = Byte(n)
  BY FitsByte
<1>2. ~Bit(n, 4) /\ ~Bit(n, 5) /\ ~Bit(n, 6) /\ ~Bit(n, 7)
  BY BitIs
<1>3. \A b \in 0 .. 7 : b \in 0 .. 3 \/ b \in {4, 5, 6, 7}
  OBVIOUS
<1> QED BY <1>1, <1>2, <1>3, BitOf DEF Low

(* The bits of the bridge registers that matter.                           *)
LEMMA DmaBits == 6 \in Bits(\hc0c0) /\ 2 \in Bits(\hc00c)
<1>1. Bit(\hc0c0, 6) /\ Bit(\hc00c, 2)
  BY BitIs
<1> QED BY <1>1, BitOf

-----------------------------------------------------------------------------
(* Chips                                                                   *)

LEMMA KnockChip ==
  ASSUME NEW c \in Chip, NEW key, NEW n \in Nat
  PROVE  LET k == Knock(c, key, n) IN
         /\ k \in Chip /\ k.model = c.model /\ k.reg = c.reg /\ k.bank = c.bank
         /\ c.open => k.open
         /\ k.open => c.open \/ (Kind[c.model].key = key /\ n >= Kind[c.model].knocks)
         /\ Kind[c.model].key = key /\ n >= Kind[c.model].knocks => k.open
<1>1. c.model \in Models
  BY DEF Chip
<1>2. Kind[c.model].knocks \in Nat
  BY <1>1 DEF Models, Kind
<1>. DEFINE k == Knock(c, key, n)
            stays == c.open \/ Kind[c.model].key # key \/ n < Kind[c.model].knocks
<1>3. CASE stays
  <2>1. k = c
    BY <1>3 DEF Knock
  <2>2. Kind[c.model].key = key /\ n >= Kind[c.model].knocks => c.open
    BY <1>2, <1>3
  <2> QED BY <2>1, <2>2
<1>4. CASE ~stays
  <2>1. k = [c EXCEPT !.open = TRUE]
    BY <1>4 DEF Knock
  <2>2. Kind[c.model].key = key /\ n >= Kind[c.model].knocks
    BY <1>2, <1>4
  <2> QED BY <2>1, <2>2 DEF Chip
<1> QED BY <1>3, <1>4

LEMMA LeaveChip ==
  ASSUME NEW c \in Chip, NEW key
  PROVE  LET k == Leave(c, key) IN
         /\ k \in Chip /\ k.model = c.model /\ k.reg = c.reg /\ k.bank = c.bank
         /\ k.open <=> c.open /\ Kind[c.model].exit # key
BY DEF Chip, Leave

LEMMA WriteChip ==
  ASSUME NEW c \in Chip, c.open, NEW r \in Regs, NEW v \in SUBSET AllOnes
  PROVE  LET k == Write(c, r, v) IN
         /\ k \in Chip /\ k.model = c.model /\ k.open /\ k.bank = c.bank
         /\ k.reg[r] = v \intersect Implemented(r)
         /\ \A q \in Regs : q # r => k.reg[q] = c.reg[q]
<1>1. Implemented(r) \subseteq AllOnes
  BY DEF Implemented, AllOnes, Low
<1> QED BY <1>1 DEF Chip, Write

(* The keys of the chips and what they identify themselves with.           *)
LEMMA Keys ==
  /\ Models = {"none", "smc227", "smc252", "smcNew", "smc669", "smc869", "smc958",
               "w977", "w877", "pc338"}
  /\ \A m \in Models :
       /\ Kind[m].key = \h55 <=> m \in {"smc227", "smc252", "smcNew", "smc669", "smc869", "smc958"}
       /\ Kind[m].key = \h87 <=> m \in {"w977", "w877"}
       /\ Kind[m].key \in {0, \h55, \h87}
       /\ Kind[m].key = 0 <=> m \in {"none", "pc338"}
       /\ Kind[m].key = 0 => Kind[m].knocks = 9 /\ Kind[m].exit = 256
       /\ Kind[m].key # 0 => Kind[m].exit = \haa /\ Kind[m].knocks \in {1, 2}
BY DEF Models, Kind

Fixed(m, r) == {p \in Kind[m].id : p[1] = r}

LEMMA FixedIs ==
  ASSUME NEW m \in Models
  PROVE  /\ Fixed(m, \h0d) = CASE m = "smc227" -> {<<\h0d, \h5a>>} [] m = "smc252" -> {<<\h0d, \h7a>>}
                               [] m = "smcNew" -> {<<\h0d, \h42>>} [] m = "smc669" -> {<<\h0d, \h03>>}
                               [] m = "smc869" -> {<<\h0d, \h29>>} [] OTHER -> {}
         /\ Fixed(m, \h20) = CASE m = "smc958" -> {<<\h20, \h09>>} [] m = "w977" -> {<<\h20, \h97>>}
                               [] OTHER -> {}
         /\ Fixed(m, \h26) = IF m = "w977" THEN {<<\h26, 0>>} ELSE {}
         /\ Fixed(m, \h21) = IF m = "w977" THEN {<<\h21, \h74>>} ELSE {}
         /\ Fixed(m, \h16) = IF m = "w877" THEN {<<\h16, \h01>>} ELSE {}
         /\ Fixed(m, \h0c) = IF m = "w877" THEN {<<\h0c, \h20>>} ELSE {}
         /\ Fixed(m, \h09) = IF m = "w877" THEN {<<\h09, \h0d>>} ELSE {}
         /\ Fixed(m, \h08) = IF m = "pc338" THEN {<<\h08, \hb2>>} ELSE {}
         /\ Fixed(m, \h05) = {}
<1>1. CASE m = "none"
  BY <1>1 DEF Fixed, Kind
<1>2. CASE m = "smc227"
  BY <1>2 DEF Fixed, Kind
<1>3. CASE m = "smc252"
  BY <1>3 DEF Fixed, Kind
<1>4. CASE m = "smcNew"
  BY <1>4 DEF Fixed, Kind
<1>5. CASE m = "smc669"
  BY <1>5 DEF Fixed, Kind
<1>6. CASE m = "smc869"
  BY <1>6 DEF Fixed, Kind
<1>7. CASE m = "smc958"
  BY <1>7 DEF Fixed, Kind
<1>8. CASE m = "w977"
  BY <1>8 DEF Fixed, Kind
<1>9. CASE m = "w877"
  BY <1>9 DEF Fixed, Kind
<1>10. CASE m = "pc338"
  BY <1>10 DEF Fixed, Kind
<1> QED BY <1>1, <1>2, <1>3, <1>4, <1>5, <1>6, <1>7, <1>8, <1>9, <1>10, Keys

(* What a register of a chip reads as: its identification, or the contents *)
(* of the register.                                                        *)
LEMMA ReadOpen ==
  ASSUME NEW c \in Chip, c.open, NEW r
  PROVE  /\ \A v : Fixed(c.model, r) = {<<r, v>>} => Read(c, r) = Byte(v)
         /\ Fixed(c.model, r) = {} => Read(c, r) = IF r \in Regs THEN c.reg[r] ELSE {}
<1>1. ASSUME NEW v, Fixed(c.model, r) = {<<r, v>>} PROVE Read(c, r) = Byte(v)
  <2>1. (CHOOSE p \in Fixed(c.model, r) : TRUE) = <<r, v>>
    BY <1>1
  <2>2. Fixed(c.model, r) # {}
    BY <1>1
  <2>3. Read(c, r) = Byte((CHOOSE p \in Fixed(c.model, r) : TRUE)[2])
    BY <2>2 DEF Read, Fixed
  <2>4. <<r, v>>[2] = v
    OBVIOUS
  <2>5. (CHOOSE p \in Fixed(c.model, r) : TRUE)[2] = v
    BY <2>1, <2>4, Zenon
  <2> QED BY <2>3, <2>5, Zenon
<1> QED BY <1>1 DEF Read, Fixed

LEMMA ReadClosed == \A c, r : ~c.open => Read(c, r) = 0 .. 7
BY DEF Read, AllOnes

LEMMA ReadReg ==
  ASSUME NEW c \in Chip, c.open, NEW r \in Regs, r # \h0c \/ c.model # "w877"
  PROVE  Read(c, r) = c.reg[r]
<1>1. Fixed(c.model, r) = {}
  BY Keys DEF Chip, Fixed, Kind, Regs
<1> QED BY <1>1, ReadOpen

(* The device id of an SMC chip.                                           *)
LEMMA DeviceId ==
  ASSUME NEW c \in Chip
  PROVE  /\ Read(c, \h0d) = Byte(\h5a) <=> c.open /\ c.model = "smc227"
         /\ Read(c, \h0d) = Byte(\h7a) <=> c.open /\ c.model = "smc252"
         /\ Read(c, \h0d) = Byte(\h03) <=> c.open /\ c.model = "smc669"
         /\ Read(c, \h0d) = Byte(\h29) <=> c.open /\ c.model = "smc869"
         /\ Read(c, \h0d) # Byte(\h04)
<1>. DEFINE m == c.model
<1>1. m \in Models
  BY DEF Chip
<1>2. CASE ~c.open
  <2>1. Read(c, \h0d) = 0 .. 7
    BY <1>2, ReadClosed
  <2>2. 7 \in 0 .. 7
    OBVIOUS
  <2> QED BY <1>2, <2>1, <2>2, IdBytes
<1>3. CASE c.open
  <2>1. \h0d \notin Regs
    BY DEF Regs
  <2>2. Read(c, \h0d) = CASE m = "smc227" -> Byte(\h5a) [] m = "smc252" -> Byte(\h7a)
                          [] m = "smcNew" -> Byte(\h42) [] m = "smc669" -> Byte(\h03)
                          [] m = "smc869" -> Byte(\h29) [] OTHER -> {}
    BY <1>1, <1>3, <2>1, FixedIs, ReadOpen
  <2> QED BY <1>3, <2>2, IdBytes
<1> QED BY <1>2, <1>3

-----------------------------------------------------------------------------
(* The rows of findchip                                                    *)

LEMMA RowsAre ==
  /\ Len(allchips) = 22
  /\ allchips[1] = SmcRow("smc669", \h3f0, 2, \h0d, \h03, 0)
  /\ allchips[2] = SmcRow("smc669", \h370, 2, \h0d, \h03, 0)
  /\ allchips[3] = SmcRow("smc669fr", \h3f0, 2, \h0d, \h04, 0)
  /\ allchips[4] = SmcRow("smc669fr", \h370, 2, \h0d, \h04, 0)
  /\ allchips[5] = SmcRow("smc869", \h3f0, 1, \h0d, \h29, 0)
  /\ allchips[6] = SmcRow("smc869", \h370, 1, \h0d, \h29, 0)
  /\ allchips[7] = SmcRow("smc93x", \h3f0, 2, \h20, \h03, 5)
  /\ allchips[8] = SmcRow("smc93x", \h370, 2, \h20, \h03, 5)
  /\ allchips[9] = SmcRow("smc957", \h3f0, 2, \h20, \h07, 5)
  /\ allchips[10] = SmcRow("smc957", \h370, 2, \h20, \h07, 5)
  /\ allchips[11] = SmcRow("smc958", \h3f0, 2, \h20, \h09, 5)
  /\ allchips[12] = SmcRow("smc958", \h370, 2, \h20, \h09, 5)
  /\ allchips[13] = Nsc("pc108", \h150, \h05, \h10)
  /\ allchips[14] = Nsc("pc108", \h398, \h05, \h10)
  /\ allchips[15] = Nsc("pc108", \hea, \h05, \h10)
  /\ allchips[16] = Nsc("pc338", \h398, \h08, \hb0)
  /\ allchips[17] = Nsc("pc338", \h15c, \h08, \hb0)
  /\ allchips[18] = Nsc("pc338", \h2e, \h08, \hb0)
  /\ allchips[19] = Efer("w977", \h3f0, \h87, 2, W977(0), 6)
  /\ allchips[20] = Efer("w977", \h370, \h87, 2, W977(\h40), 6)
  /\ allchips[21] = Efer("w877", \h3f0, \h86, 2, W877(0), 0)
  /\ allchips[22] = Efer("w877", \h3f0, \h87, 2, W877(\h20), 0)
BY DEF allchips, smc_chips, nsc_chips, efers, Smc

LEMMA RowNumbers ==
  \A i \in Rows : \/ i = 1 \/ i = 2 \/ i = 3 \/ i = 4 \/ i = 5 \/ i = 6 \/ i = 7 \/ i = 8
                  \/ i = 9 \/ i = 10 \/ i = 11 \/ i = 12 \/ i = 13 \/ i = 14 \/ i = 15 \/ i = 16
                  \/ i = 17 \/ i = 18 \/ i = 19 \/ i = 20 \/ i = 21 \/ i = 22
BY DEF Rows

(* What all rows have in common.                                           *)
LEMMA RowType ==
  \A i \in Rows : LET row == allchips[i] IN
    /\ row.family \in Families /\ row.model \in RowModels /\ row.base \in Ports
    /\ row.knocks \in Nat
    /\ IF row.family = "NSC" THEN row.key = 0 /\ row.knocks = 0 /\ row.exit = 0
       ELSE row.key \in {\h55, \h86, \h87} /\ row.knocks \in {1, 2} /\ row.exit = \haa
    /\ row.ldn # 0 => row.model \notin {"smc669", "smc869", "w877", "pc338"}
<1>1. \A i \in Rows : LET row == allchips[i] IN
        row.family \in Families /\ row.base \in Ports
  BY RowsAre, RowNumbers DEF SmcRow, Nsc, Efer, Families, Ports
<1>2. \A i \in Rows : allchips[i].model \in RowModels
  BY DEF RowModels
<1>3. \A i \in Rows : LET row == allchips[i] IN
       /\ row.knocks \in Nat
       /\ IF row.family = "NSC" THEN row.key = 0 /\ row.knocks = 0 /\ row.exit = 0
         ELSE row.key \in {\h55, \h86, \h87} /\ row.knocks \in {1, 2} /\ row.exit = \haa
  BY RowsAre, RowNumbers DEF SmcRow, Nsc, Efer
<1>4. \A i \in Rows : LET row == allchips[i] IN
       row.ldn # 0 => row.model \notin {"smc669", "smc869", "w877", "pc338"}
  BY RowsAre, RowNumbers DEF SmcRow, Nsc, Efer
<1> QED BY <1>1, <1>2, <1>3, <1>4

(* Two rows at the same base are for different chips, but for row 21.      *)
LEMMA RowsDiffer ==
  \A i, j \in Rows :
    /\ i # 21 /\ j # 21
    /\ allchips[i].base = allchips[j].base /\ allchips[i].model = allchips[j].model
    => i = j
BY RowsAre, RowNumbers DEF SmcRow, Nsc, Efer

(* The key of a row opens the chip that the row is for.                    *)
LEMMA RowOpens ==
  ASSUME NEW i \in Rows, i # 21, NEW m \in Models, m = allchips[i].model, m # "pc338"
  PROVE  Kind[m].key = allchips[i].key /\ allchips[i].knocks >= Kind[m].knocks
BY RowsAre, RowNumbers DEF SmcRow, Nsc, Efer, Kind, Models

(* What findchip asks of the chip at the base of a row.                    *)
Identifies(row, c) ==
  /\ row.family = "NSC" => c.open
  /\ \A t \in row.tests : Read(c, t.reg) \intersect t.mask = t.value

LEMMA OneTest ==
  ASSUME NEW c, NEW reg, NEW mask, NEW id
  PROVE  (\A t \in {Test(reg, mask, id)} : Read(c, t.reg) \intersect t.mask = t.value)
           <=> Read(c, reg) \intersect Byte(mask) = Byte(id)
BY DEF Test

LEMMA SmcIdentifies ==
  ASSUME NEW c \in Chip, NEW model, NEW base, NEW knocks, NEW reg, NEW id, NEW ldn
  PROVE  Identifies(SmcRow(model, base, knocks, reg, id, ldn), c) <=> Read(c, reg) = Byte(id)
<1>1. Read(c, reg) \in SUBSET (0 .. 7)
  BY ByteType DEF Read, Chip, AllOnes
<1>2. Read(c, reg) \intersect Byte(\hff) = Read(c, reg)
  BY <1>1, MaskBytes
<1>3. Identifies(SmcRow(model, base, knocks, reg, id, ldn), c)
        <=> \A t \in {Test(reg, \hff, id)} : Read(c, t.reg) \intersect t.mask = t.value
  BY DEF Identifies, SmcRow
<1>4. (\A t \in {Test(reg, \hff, id)} : Read(c, t.reg) \intersect t.mask = t.value)
        <=> Read(c, reg) \intersect Byte(\hff) = Byte(id)
  BY DEF Test
<1> QED BY <1>2, <1>3, <1>4

LEMMA NscIdentifies ==
  ASSUME NEW c \in Chip, NEW model, NEW base, NEW reg, NEW id
  PROVE  Identifies(Nsc(model, base, reg, id), c)
           <=> c.open /\ Read(c, reg) \intersect Byte(\hf0) = Byte(id)
BY OneTest DEF Identifies, Nsc

LEMMA EferIdentifies ==
  ASSUME NEW c \in Chip, NEW model, NEW base, NEW key, NEW knocks, NEW strap, NEW ldn
  PROVE  /\ Identifies(Efer(model, base, key, knocks, W977(strap), ldn), c)
              <=> /\ Read(c, \h26) \intersect Byte(\h40) = Byte(strap)
                  /\ Read(c, \h20) \intersect Byte(\hff) = Byte(\h97)
                  /\ Read(c, \h21) \intersect Byte(\hff) = Byte(\h74)
         /\ Identifies(Efer(model, base, key, knocks, W877(strap), ldn), c)
              <=> /\ Read(c, \h16) \intersect Byte(1) = Byte(1)
                  /\ Read(c, \h0c) \intersect Byte(\h20) = Byte(strap)
                  /\ Read(c, \h09) \intersect Byte(\h0f) = Byte(\h0d)
<1>. DEFINE Passes(t) == Read(c, t.reg) \intersect t.mask = t.value
<1>1. \A reg, mask, id : Passes(Test(reg, mask, id)) <=> Read(c, reg) \intersect Byte(mask) = Byte(id)
  BY DEF Test
<1>2. \A S : Identifies(Efer(model, base, key, knocks, S, ldn), c) <=> \A t \in S : Passes(t)
  BY DEF Identifies, Efer
<1>3. \A t : t \in W977(strap) <=> t = Test(\h26, \h40, strap) \/ t = Test(\h20, \hff, \h97)
                                    \/ t = Test(\h21, \hff, \h74)
  BY DEF W977, w977_revision
<1>4. \A t : t \in W877(strap) <=> t = Test(\h16, 1, 1) \/ t = Test(\h0c, \h20, strap)
                                    \/ t = Test(\h09, \h0f, \h0d)
  BY DEF W877, w877_revision
<1>. HIDE DEF Passes
<1>5. (\A t \in W977(strap) : Passes(t))
        <=> /\ Passes(Test(\h26, \h40, strap)) /\ Passes(Test(\h20, \hff, \h97))
            /\ Passes(Test(\h21, \hff, \h74))
  BY <1>3
<1>6. (\A t \in W877(strap) : Passes(t))
        <=> /\ Passes(Test(\h16, 1, 1)) /\ Passes(Test(\h0c, \h20, strap))
            /\ Passes(Test(\h09, \h0f, \h0d))
  BY <1>4
<1> QED BY <1>1, <1>2, <1>5, <1>6

(* The registers at which the other chips are known.                       *)
LEMMA OtherIds ==
  ASSUME NEW c \in Chip, c.open
  PROVE  /\ Read(c, \h20) = CASE c.model = "smc958" -> Byte(\h09) [] c.model = "w977" -> Byte(\h97)
                              [] OTHER -> {}
         /\ Read(c, \h26) = {} /\ Read(c, \h05) = {}
         /\ Read(c, \h21) = IF c.model = "w977" THEN Byte(\h74) ELSE {}
         /\ Read(c, \h16) = IF c.model = "w877" THEN Byte(1) ELSE {}
         /\ c.model = "w877" => Read(c, \h0c) = Byte(\h20)
         /\ Read(c, \h09) = IF c.model = "w877" THEN Byte(\h0d) ELSE {}
         /\ Read(c, \h08) = IF c.model = "pc338" THEN Byte(\hb2) ELSE {}
<1>1. c.model \in Models
  BY DEF Chip
<1>2. \A r \in {\h20, \h26, \h05, \h21, \h16, \h09, \h08} : r \notin Regs
  BY DEF Regs
<1>3. Read(c, \h20) = CASE c.model = "smc958" -> Byte(\h09) [] c.model = "w977" -> Byte(\h97)
                              [] OTHER -> {}
  BY <1>1, <1>2, FixedIs, ReadOpen
<1>4. Read(c, \h26) = {} /\ Read(c, \h05) = {}
  <2>1. Fixed(c.model, \h26) = {<<\h26, 0>>} \/ Fixed(c.model, \h26) = {}
    BY <1>1, FixedIs
  <2>2. Fixed(c.model, \h05) = {}
    BY <1>1, FixedIs
  <2> QED BY <1>2, <2>1, <2>2, ReadOpen, MaskBytes
<1>5. Read(c, \h21) = IF c.model = "w977" THEN Byte(\h74) ELSE {}
  BY <1>1, <1>2, FixedIs, ReadOpen
<1>6. Read(c, \h16) = IF c.model = "w877" THEN Byte(1) ELSE {}
  BY <1>1, <1>2, FixedIs, ReadOpen
<1>7. c.model = "w877" => Read(c, \h0c) = Byte(\h20)
  BY <1>1, FixedIs, ReadOpen
<1>8. Read(c, \h09) = IF c.model = "w877" THEN Byte(\h0d) ELSE {}
  BY <1>1, <1>2, FixedIs, ReadOpen
<1>9. Read(c, \h08) = IF c.model = "pc338" THEN Byte(\hb2) ELSE {}
  BY <1>1, <1>2, FixedIs, ReadOpen
<1> QED BY <1>3, <1>4, <1>5, <1>6, <1>7, <1>8, <1>9

(* The heart of findchip: a row recognises the chip it is for, no other.   *)
LEMMA Recognises ==
  ASSUME NEW i \in Rows, NEW c \in Chip,
         c.model = "w977" => allchips[i].base = \h3f0,
         i # 21 /\ c.model = allchips[i].model => c.open
  PROVE  Identifies(allchips[i], c) <=> i # 21 /\ c.model = allchips[i].model
<1>. DEFINE m == c.model
            row == allchips[i]
            goal == Identifies(row, c) <=> i # 21 /\ m = row.model
<1>1. m \in Models
  BY DEF Chip
<1>2. 7 \in 0 .. 7 /\ 1 \in 0 .. 7
  OBVIOUS
<1>3. ~c.open => \A r : Read(c, r) = 0 .. 7
  BY ReadClosed
<1>4. m \notin {"smc669fr", "smc93x", "smc957", "pc108"}
  BY <1>1, Keys
<1>5. CASE i \in {1, 2, 3, 4, 5, 6}
  BY <1>4, <1>5, RowsAre, SmcIdentifies, DeviceId DEF SmcRow
<1>6. CASE i \in {7, 8, 9, 10, 11, 12}
  <2>1. Read(c, \h20) # Byte(\h03) /\ Read(c, \h20) # Byte(\h07)
    BY <1>2, <1>3, OtherIds, IdBytes, MoreIdBytes
  <2>2. Read(c, \h20) = Byte(\h09) <=> c.open /\ m = "smc958"
    BY <1>2, <1>3, OtherIds, IdBytes, MoreIdBytes
  <2> QED BY <1>4, <1>6, <2>1, <2>2, RowsAre, SmcIdentifies DEF SmcRow
<1>7. CASE i \in {13, 14, 15, 16, 17, 18}
  <2>1. c.open => Read(c, \h05) \intersect Byte(\hf0) # Byte(\h10)
    BY OtherIds, MoreIdBytes
  <2>2. c.open => (Read(c, \h08) \intersect Byte(\hf0) = Byte(\hb0) <=> m = "pc338")
    BY OtherIds, MoreIdBytes, MaskBytes
  <2> QED BY <1>4, <1>7, <2>1, <2>2, RowsAre, NscIdentifies DEF Nsc
<1>8. CASE i \in {19, 20}
  <2>1. Read(c, \h20) \intersect Byte(\hff) = Byte(\h97) => c.open /\ m = "w977"
    BY <1>2, <1>3, OtherIds, MoreIdBytes, MaskBytes
  <2>2. c.open /\ m = "w977" =>
          /\ Read(c, \h26) \intersect Byte(\h40) = Byte(0)
          /\ Read(c, \h20) \intersect Byte(\hff) = Byte(\h97)
          /\ Read(c, \h21) \intersect Byte(\hff) = Byte(\h74)
    BY OtherIds, MoreIdBytes, MaskBytes
  <2>3. CASE i = 19
    <3>1. row = Efer("w977", \h3f0, \h87, 2, W977(0), 6)
      BY <2>3, RowsAre
    <3>2. Identifies(row, c) <=> /\ Read(c, \h26) \intersect Byte(\h40) = Byte(0)
                                 /\ Read(c, \h20) \intersect Byte(\hff) = Byte(\h97)
                                 /\ Read(c, \h21) \intersect Byte(\hff) = Byte(\h74)
      BY <3>1, EferIdentifies
    <3>3. row.model = "w977"
      BY <3>1 DEF Efer
    <3> QED BY <2>1, <2>2, <2>3, <3>2, <3>3
  <2>4. CASE i = 20
    <3>1. row.base = \h370 /\ row.model = "w977"
      BY <2>4, RowsAre DEF Efer
    <3> QED BY <2>1, <2>4, <3>1, RowsAre, EferIdentifies
  <2> QED BY <1>8, <2>3, <2>4
<1>9. CASE i \in {21, 22}
  <2>1. Read(c, \h09) \intersect Byte(\h0f) = Byte(\h0d) => c.open /\ m = "w877"
    BY <1>2, <1>3, OtherIds, MoreIdBytes, MaskBytes
  <2>2. c.open /\ m = "w877" =>
          /\ Read(c, \h16) \intersect Byte(1) = Byte(1)
          /\ Read(c, \h0c) \intersect Byte(\h20) = Byte(\h20)
          /\ Read(c, \h09) \intersect Byte(\h0f) = Byte(\h0d)
    BY OtherIds, MoreIdBytes, MaskBytes
  <2>3. CASE i = 21
    <3>1. Byte(\h20) # Byte(0)
      BY MaskBytes
    <3> QED BY <2>1, <2>2, <2>3, <3>1, RowsAre, EferIdentifies
  <2>4. CASE i = 22
    <3>1. row = Efer("w877", \h3f0, \h87, 2, W877(\h20), 0)
      BY <2>4, RowsAre
    <3>2. Identifies(row, c) <=> /\ Read(c, \h16) \intersect Byte(1) = Byte(1)
                                 /\ Read(c, \h0c) \intersect Byte(\h20) = Byte(\h20)
                                 /\ Read(c, \h09) \intersect Byte(\h0f) = Byte(\h0d)
      BY <3>1, EferIdentifies
    <3>3. row.model = "w877"
      BY <3>1 DEF Efer
    <3> QED BY <2>1, <2>2, <2>4, <3>2, <3>3
  <2> QED BY <1>9, <2>3, <2>4
<1> QED BY <1>5, <1>6, <1>7, <1>8, <1>9, RowNumbers

-----------------------------------------------------------------------------
(* The plans                                                               *)

LEMMA FinishIs ==
  /\ Len(Finish) = 5
  /\ Finish[1] = Mask(\h0c, Byte(\hc7), Byte(\h88)) /\ Finish[2] = Also(\h07, Byte(\h20))
  /\ Finish[3] = Also(\h0a, Byte(\h40)) /\ Finish[4] = Put(\h02, Byte(\h80))
  /\ Finish[5] = Also(\h00, Byte(\h80))
BY DEF Finish

LEMMA Joined ==
  ASSUME NEW e1, NEW e2, NEW e3, NEW e4, NEW e5
  PROVE  LET p == <<e1, e2, e3, e4, e5>> \o Finish IN
         /\ Len(p) = 10
         /\ p[1] = e1 /\ p[2] = e2 /\ p[3] = e3 /\ p[4] = e4 /\ p[5] = e5
         /\ p[6] = Finish[1] /\ p[7] = Finish[2] /\ p[8] = Finish[3] /\ p[9] = Finish[4]
         /\ p[10] = Finish[5]
BY DEF Finish

LEMMA SmcPlan ==
  ASSUME NEW a
  PROVE  LET p == set_smc(a) IN
         /\ Len(p) = 10
         /\ p[1] = Put(\h24, {})
         /\ p[2] = Checked(\h25, Bits(((a.sir % 4096) \div 8) * 2))
         /\ p[3] = Checked(\h28, Bits(a.irq))
         /\ p[4] = Checked(\h2b, Bits((a.fir % 4096) \div 8))
         /\ p[5] = Checked(\h2c, Bits(a.dma))
         /\ \A k \in 1 .. 5 : p[5 + k] = Finish[k]
BY Joined DEF set_smc

LEMMA Tosh2450Plan ==
  LET p == tosh2450 IN
  /\ Len(p) = 10
  /\ p[1] = Put(\h24, {}) /\ p[2] = Put(\h25, Byte(\hfe)) /\ p[3] = Put(\h28, Byte(7))
  /\ p[4] = Put(\h2b, Byte(\h26)) /\ p[5] = Put(\h2c, Byte(1))
  /\ \A k \in 1 .. 5 : p[5 + k] = Finish[k]
BY Joined DEF tosh2450

LEMMA Tosh1800Plan ==
  ASSUME NEW a
  PROVE  LET p == configure_47N227_smc_ircc(a) IN
         /\ Len(p) = 8
         /\ p[1] = Put(\h25, Byte(a.sir \div 4))
         /\ p[2] = Put(\h2b, Byte(a.fir \div 8))
         /\ p[3] = Put(\h2c, Byte(a.dma) \intersect Low)
         /\ p[4] = Mask(\h28, 4 .. 7, Byte(a.irq) \intersect Low)
         /\ p[5] = Mask(\h0c, (AllOnes \ Byte(\h38)) \union Byte(\h08), {})
         /\ p[6] = Also(\h07, Byte(\h20)) /\ p[7] = Also(\h02, Byte(\h80))
         /\ p[8] = Also(\h00, Byte(\h80))
BY DEF configure_47N227_smc_ircc

(* A plan for the tool that runs, and no register twice in it.             *)
IsPlan(p) ==
  /\ Len(p) \in {8, 10}
  /\ \A i \in 1 .. Len(p) : p[i].reg \in Regs /\ p[i].keep \subseteq AllOnes
  /\ \A i, j \in 1 .. Len(p) : p[i].reg = p[j].reg => i = j

LEMMA PlanNumbers ==
  /\ \A i \in 1 .. 10 : \/ i = 1 \/ i = 2 \/ i = 3 \/ i = 4 \/ i = 5
                        \/ i = 6 \/ i = 7 \/ i = 8 \/ i = 9 \/ i = 10
  /\ \A i \in 1 .. 8 : i = 1 \/ i = 2 \/ i = 3 \/ i = 4 \/ i = 5 \/ i = 6 \/ i = 7 \/ i = 8
OBVIOUS

(* The registers of the plans, in order.                                   *)
IntelRegs == <<\h24, \h25, \h28, \h2b, \h2c, \h0c, \h07, \h0a, \h02, \h00>>
ToshRegs  == <<\h25, \h2b, \h2c, \h28, \h0c, \h07, \h02, \h00>>

LEMMA PlanRegs ==
  /\ \A a : \A i \in 1 .. 10 : set_smc(a)[i].reg = IntelRegs[i]
  /\ \A i \in 1 .. 10 : tosh2450[i].reg = IntelRegs[i]
  /\ \A a : \A i \in 1 .. 8 : configure_47N227_smc_ircc(a)[i].reg = ToshRegs[i]
<1>1. ASSUME NEW a, NEW i \in 1 .. 10 PROVE set_smc(a)[i].reg = IntelRegs[i]
  BY PlanNumbers DEF set_smc, Finish, Put, Checked, Mask, Also, IntelRegs
<1>2. ASSUME NEW i \in 1 .. 10 PROVE tosh2450[i].reg = IntelRegs[i]
  BY PlanNumbers DEF tosh2450, Finish, Put, Mask, Also, IntelRegs
<1>3. ASSUME NEW a, NEW i \in 1 .. 8 PROVE configure_47N227_smc_ircc(a)[i].reg = ToshRegs[i]
  BY PlanNumbers DEF configure_47N227_smc_ircc, Put, Mask, Also, ToshRegs
<1> QED BY <1>1, <1>2, <1>3

LEMMA PlanOK == Wakes => IsPlan(Plan) /\ Len(Plan) = IF tool.name = "tosh1800" THEN 8 ELSE 10
<1>1. ASSUME NEW a, NEW i \in 1 .. 10 PROVE set_smc(a)[i].keep \subseteq AllOnes
  BY PlanNumbers, ByteType DEF set_smc, Finish, Put, Checked, Mask, Also, AllOnes
<1>2. ASSUME NEW i \in 1 .. 10 PROVE tosh2450[i].keep \subseteq AllOnes
  BY PlanNumbers, ByteType DEF tosh2450, Finish, Put, Mask, Also, AllOnes
<1>3. ASSUME NEW a, NEW i \in 1 .. 8 PROVE configure_47N227_smc_ircc(a)[i].keep \subseteq AllOnes
  BY PlanNumbers, ByteType DEF configure_47N227_smc_ircc, Put, Mask, Also, AllOnes
<1>4. /\ \A i \in 1 .. 10 : IntelRegs[i] \in Regs
      /\ \A i, j \in 1 .. 10 : IntelRegs[i] = IntelRegs[j] => i = j
  BY PlanNumbers DEF Regs, IntelRegs
<1>5. /\ \A i \in 1 .. 8 : ToshRegs[i] \in Regs
      /\ \A i, j \in 1 .. 8 : ToshRegs[i] = ToshRegs[j] => i = j
  BY PlanNumbers DEF Regs, ToshRegs
<1>6. ASSUME NEW a PROVE IsPlan(set_smc(a)) /\ Len(set_smc(a)) = 10
  <2>1. Len(set_smc(a)) = 10
    BY SmcPlan
  <2>2. \A i \in 1 .. 10 : set_smc(a)[i].reg = IntelRegs[i] /\ set_smc(a)[i].keep \subseteq AllOnes
    BY <1>1, PlanRegs
  <2> QED BY <1>4, <2>1, <2>2 DEF IsPlan
<1>7. IsPlan(tosh2450) /\ Len(tosh2450) = 10
  BY <1>2, <1>4, PlanRegs, Tosh2450Plan DEF IsPlan
<1>8. ASSUME NEW a
      PROVE  IsPlan(configure_47N227_smc_ircc(a)) /\ Len(configure_47N227_smc_ircc(a)) = 8
  <2>1. Len(configure_47N227_smc_ircc(a)) = 8
    BY Tosh1800Plan
  <2>2. \A i \in 1 .. 8 : /\ configure_47N227_smc_ircc(a)[i].reg = ToshRegs[i]
                          /\ configure_47N227_smc_ircc(a)[i].keep \subseteq AllOnes
    BY <1>3, PlanRegs
  <2> QED BY <1>5, <2>1, <2>2 DEF IsPlan
<1> QED BY <1>6, <1>7, <1>8 DEF Plan, Wakes

-----------------------------------------------------------------------------
(* Steps of a tool                                                         *)

LEMMA GotoIs ==
  ASSUME TypeOK, NEW step, NEW row, Goto(step, row)
  PROVE  /\ tool'.name = tool.name /\ tool'.step = step /\ tool'.row = row
         /\ tool'.base = tool.base /\ tool'.args = tool.args /\ tool'.found = tool.found
         /\ step \in {"unbind", "bridge", "probe", "program", "leave", "ali", "row", "exit"}
            /\ row \in 0 .. 22 => tool' \in Tool'
BY DEF Goto, TypeOK, Tool

LEMMA EndIs ==
  ASSUME NEW result, End(result)
  PROVE  /\ tool' = Idle /\ tool'.name = "none" /\ tool' \in Tool'
         /\ last'.name = tool.name /\ last'.result = result /\ last'.base = tool.base
         /\ last'.args = tool.args /\ last'.found = tool.found
<1>1. tool' = Idle
  BY DEF End
<1>2. <<>> \in Seq(Entry)
  OBVIOUS
<1> QED BY <1>1, <1>2 DEF End, Idle, Tool

LEMMA StartIs ==
  ASSUME NEW name \in {"smcinit", "tosh1800", "tosh2450", "findchip"},
         NEW step \in {"unbind", "bridge", "probe", "row"}, NEW args, Start(name, step, args)
  PROVE  /\ tool'.name = name /\ tool'.step = step /\ tool'.row = 1 /\ tool'.base = 0
         /\ tool'.args = args /\ tool'.found = <<>> /\ tool' \in Tool'
<1>1. <<>> \in Seq(Entry)
  OBVIOUS
<1> QED BY <1>1 DEF Start, Tool

(* The invariants of a machine at rest say nothing while a tool runs, and  *)
(* the other way round.                                                    *)
LEMMA NotAtRest ==
  ASSUME tool'.name # "none"
  PROVE  SuccessIsUsable' /\ LeavesConfigState' /\ FoundIsThere'
BY DEF SuccessIsUsable, LeavesConfigState, FoundIsThere, AtRest

LEMMA NowAtRest ==
  ASSUME tool' = Idle
  PROVE  /\ ToolAt' /\ Accepted' /\ Progress' /\ Untouched' /\ BridgeOpen' /\ OpenedByTool'
         /\ Reported'
BY DEF Idle, ToolAt, Accepted, Wakes, Progress, Untouched, BridgeOpen, OpenedByTool, AtRest, Reported

(* Who changes what.                                                       *)
Entitled(name, b, r) ==
  \/ name = "smcinit" /\ chips[b].model \in {"smc227", "smc252"}
  \/ name \in {"tosh1800", "tosh2450"} /\ chips[b].model = "smc227"
  \/ name = "findchip" /\ r = \h07 /\ chips[b].model \in {"smc958", "w977"}

(* What a step of a tool does to the chips.                                *)
ChipStep ==
  /\ chips' \in [Ports -> Chip] /\ before' = before
  /\ \A b \in Ports :
       /\ chips'[b].model = chips[b].model
       /\ chips[b].model = "pc338" => chips'[b].open
       /\ \A r \in Regs : chips'[b].reg[r] # chips[b].reg[r] => Entitled(tool.name, b, r)

LEMMA ChipsKept ==
  ASSUME TypeOK, SameChips, UNCHANGED <<chips, before>>
  PROVE  ChipStep
BY DEF ChipStep, SameChips, TypeOK

LEMMA ChipStepSafe ==
  ASSUME TypeOK, SameChips, OnlyTheRightChip, ChipStep, tool.name # "none",
         tool'.name = tool.name \/ (tool'.name = "none" /\ last'.name = tool.name)
  PROVE  SameChips' /\ OnlyTheRightChip'
<1>1. SameChips'
  BY DEF SameChips, ChipStep
<1>2. ASSUME NEW b \in Ports, NEW r \in Regs, chips'[b].reg[r] # before'[b].reg[r]
      PROVE  Entitled(tool.name, b, r)
  <2>1. CASE chips'[b].reg[r] # chips[b].reg[r]
    BY <2>1 DEF ChipStep
  <2>2. CASE chips[b].reg[r] # before[b].reg[r]
    BY <2>2 DEF OnlyTheRightChip, AtRest, Entitled
  <2> QED BY <1>2, <2>1, <2>2 DEF ChipStep
<1>3. (IF AtRest' THEN last'.name ELSE tool'.name) = tool.name
  BY DEF AtRest
<1>4. OnlyTheRightChip'
  BY <1>2, <1>3 DEF OnlyTheRightChip, Entitled, ChipStep
<1> QED BY <1>1, <1>4

(* One chip changes.                                                       *)
LEMMA OneChip ==
  ASSUME TypeOK, SameChips, NEW b \in Ports, NEW c \in Chip, before' = before,
         chips' = [chips EXCEPT ![b] = c],
         c.model = chips[b].model,
         chips[b].model = "pc338" => c.open,
         \A r \in Regs : c.reg[r] # chips[b].reg[r] => Entitled(tool.name, b, r)
  PROVE  ChipStep
<1>1. chips'[b] = c /\ \A d \in Ports : d # b => chips'[d] = chips[d]
  BY DEF TypeOK
<1>2. chips' \in [Ports -> Chip]
  BY DEF TypeOK
<1>3. ASSUME NEW d \in Ports
      PROVE  /\ chips'[d].model = chips[d].model
             /\ chips[d].model = "pc338" => chips'[d].open
             /\ \A r \in Regs : chips'[d].reg[r] # chips[d].reg[r] => Entitled(tool.name, d, r)
  BY <1>1 DEF SameChips
<1> QED BY <1>2, <1>3 DEF ChipStep

(* A tool that gives up or is killed.                                      *)
LEMMA GivesUp ==
  ASSUME IInv, tool.name # "none", NEW result \in {"failed", "killed"}, End(result), ChipStep,
         bridge' \in [kind : {"intel", "ali", "other"}, reg : [BridgeRegs -> SUBSET (0 .. 15)]],
         result = "failed" =>
           \/ tool.name \in {"smcinit", "tosh2450"}
           \/ \A b \in Ports : chips'[b].open => before[b].open
  PROVE  IInv'
<1>1. tool' = Idle /\ tool'.name = "none" /\ tool' \in Tool' /\ last'.name = tool.name
      /\ last'.result = result
  BY EndIs
<1>2. TypeOK'
  BY <1>1 DEF ChipStep, IInv, TypeOK
<1>3. SameChips' /\ OnlyTheRightChip'
  BY <1>1, ChipStepSafe DEF IInv
<1>4. LeavesConfigState'
  BY <1>1 DEF LeavesConfigState, ChipStep
<1>5. SuccessIsUsable' /\ FoundIsThere'
  BY <1>1 DEF SuccessIsUsable, FoundIsThere
<1> QED BY <1>1, <1>2, <1>3, <1>4, <1>5, NowAtRest DEF IInv

(* A tool that is started, or sent away.                                   *)
LEMMA Starts ==
  ASSUME IInv,
         NEW name \in {"smcinit", "tosh1800", "tosh2450", "findchip"},
         NEW step \in {"unbind", "bridge", "probe", "row"}, NEW args, Start(name, step, args),
         \/ name = "smcinit" /\ step \in {"unbind", "bridge"} /\ args \in SmcArgs
         \/ name = "tosh2450" /\ step = "bridge"
         \/ name = "tosh1800" /\ step = "probe" /\ args \in ToshArgs
         \/ name = "findchip" /\ step = "row" /\ args \subseteq Families
  PROVE  IInv'
<1>1. /\ tool'.name = name /\ tool'.step = step /\ tool'.row = 1
      /\ tool'.args = args /\ tool'.found = <<>> /\ tool' \in Tool'
  BY StartIs
<1>2. chips' = chips /\ before' = chips /\ bridge' = bridge
  BY DEF Start
<1>3. TypeOK'
  BY <1>1, <1>2 DEF IInv, TypeOK
<1>4. ToolAt'
  BY <1>1 DEF ToolAt, Rows
<1>5. SameChips' /\ OnlyTheRightChip' /\ OpenedByTool' /\ Untouched'
  BY <1>2 DEF IInv, SameChips, OnlyTheRightChip, OpenedByTool, Untouched
<1>6. Accepted' /\ Progress' /\ BridgeOpen'
  BY <1>1 DEF Accepted, Progress, BridgeOpen
<1>7. Reported'
  <2>1. \A i \in Rows : ~DoneRow(i)' \/ tool'.name # "findchip"
    BY <1>1 DEF DoneRow, Rows
  <2>2. 1 .. Len(tool'.found) = {}
    BY <1>1
  <2> QED BY <2>1, <2>2 DEF Reported
<1> QED BY <1>1, <1>3, <1>4, <1>5, <1>6, <1>7, NotAtRest DEF IInv

LEMMA StartsStep ==
  ASSUME IInv, StartSmcinit \/ StartTosh2450 \/ StartTosh1800 \/ StartFindchip
  PROVE  IInv'
<1>1. CASE StartSmcinit
  <2>1. PICK a \in SmcArgs : Start("smcinit", IF a.tty THEN "unbind" ELSE "bridge", a)
    BY <1>1 DEF StartSmcinit
  <2> QED BY <2>1, Starts
<1>2. CASE StartTosh2450
  BY <1>2, Starts DEF StartTosh2450
<1>3. CASE StartTosh1800
  <2>1. PICK a \in ToshArgs :
          IF a.chip THEN Start("tosh1800", "probe", a)
          ELSE /\ tool.name = "none"
               /\ last' = [name |-> "tosh1800", result |-> "failed", base |-> 0,
                           args |-> a, found |-> <<>>]
               /\ before' = chips
               /\ UNCHANGED <<chips, bridge, serial, tool>>
    BY <1>3 DEF StartTosh1800
  <2>2. CASE a.chip
    BY <2>1, <2>2, Starts
  <2>3. CASE ~a.chip
    <3>1. tool' = tool /\ tool = Idle /\ chips' = chips /\ before' = chips /\ bridge' = bridge
          /\ last'.result = "failed" /\ last'.name = "tosh1800"
      BY <2>1, <2>3 DEF IInv, ToolAt
    <3>2. TypeOK'
      BY <3>1 DEF IInv, TypeOK, Tool
    <3>3. SameChips' /\ OnlyTheRightChip' /\ LeavesConfigState'
      BY <3>1 DEF IInv, SameChips, OnlyTheRightChip, LeavesConfigState
    <3>4. SuccessIsUsable' /\ FoundIsThere'
      BY <3>1 DEF SuccessIsUsable, FoundIsThere
    <3> QED BY <3>1, <3>2, <3>3, <3>4, NowAtRest DEF IInv
  <2> QED BY <2>2, <2>3
<1>4. CASE StartFindchip
  <2>1. PICK families \in {{"SMC"}, {"NSC"}, {"WINBOND"}, {"SMC", "NSC", "WINBOND"}} :
          Start("findchip", "row", families)
    BY <1>4 DEF StartFindchip
  <2>2. families \subseteq Families
    BY DEF Families
  <2> QED BY <2>1, <2>2, Starts
<1> QED BY <1>1, <1>2, <1>3, <1>4

LEMMA KillStep == ASSUME IInv, Kill PROVE IInv'
<1>1. ChipStep
  BY ChipsKept DEF IInv, Kill
<1>2. bridge' \in [kind : {"intel", "ali", "other"}, reg : [BridgeRegs -> SUBSET (0 .. 15)]]
  BY DEF IInv, TypeOK, Kill
<1> QED BY <1>1, <1>2, GivesUp DEF Kill

(* A tool of smcinit/ goes on to a step before the chip is found.          *)
LEMMA UnbindStep == ASSUME IInv, unbind_from_serial PROVE IInv'
<1>1. tool.name = "smcinit" /\ tool.args \in SmcArgs /\ tool.step = "unbind"
      /\ UNCHANGED <<chips, bridge, before>>
  BY DEF IInv, TypeOK, Tool, ToolAt, unbind_from_serial, Idle
<1>2. ChipStep
  BY <1>1, ChipsKept DEF IInv
<1>3. CASE Goto("bridge", 1)
  <2>1. /\ tool'.name = tool.name /\ tool'.step = "bridge" /\ tool'.row = 1
        /\ tool'.args = tool.args /\ tool' \in Tool'
    BY <1>3, GotoIs DEF IInv
  <2>2. TypeOK'
    BY <1>1, <2>1 DEF IInv, TypeOK
  <2>3. ToolAt' /\ Accepted' /\ Progress' /\ BridgeOpen' /\ Reported'
    BY <1>1, <2>1 DEF ToolAt, Accepted, Progress, BridgeOpen, Reported
  <2>4. OpenedByTool' /\ Untouched'
    BY <1>1 DEF IInv, OpenedByTool, MayBeOpen, AtRest, Untouched, Wakes
  <2>5. SameChips' /\ OnlyTheRightChip'
    BY <1>1, <1>2, <2>1, ChipStepSafe DEF IInv
  <2> QED BY <1>1, <2>1, <2>2, <2>3, <2>4, <2>5, NotAtRest DEF IInv
<1>4. CASE End("failed")
  <2>1. bridge' \in [kind : {"intel", "ali", "other"}, reg : [BridgeRegs -> SUBSET (0 .. 15)]]
    BY <1>1 DEF IInv, TypeOK
  <2> QED BY <1>1, <1>2, <1>4, <2>1, GivesUp
<1> QED BY <1>3, <1>4 DEF unbind_from_serial

(* The bridge is set, whichever of the two tools does it.                  *)
LEMMA IntelBridgeStep ==
  ASSUME IInv, tool.name \in {"smcinit", "tosh2450"}, NEW dma \in SUBSET (0 .. 15),
         (IF tool.name = "smcinit" THEN 6 ELSE 2) \in dma, IntelBridge(dma)
  PROVE  IInv'
<1>1. tool.step = "bridge" /\ UNCHANGED <<chips, before>>
  BY DEF IntelBridge
<1>2. ChipStep
  BY <1>1, ChipsKept DEF IInv
<1>3. CASE bridge.kind = "intel"
  <2>1. /\ bridge' = [bridge EXCEPT
               !.reg["COM_DEC"] = Bits(\h10),
               !.reg["LPC_EN"] = (@ \ {1}) \union {0},
               !.reg["PCI_DMA_C"] = dma,
               !.reg["GEN2_DEC"] = Bits(\h131)]
        /\ Goto("probe", 1)
    BY <1>3 DEF IntelBridge
  <2>2. /\ tool'.name = tool.name /\ tool'.step = "probe" /\ tool'.row = 1
        /\ tool'.args = tool.args /\ tool' \in Tool'
    BY <2>1, GotoIs DEF IInv
  <2>3. /\ bridge' \in [kind : {"intel", "ali", "other"}, reg : [BridgeRegs -> SUBSET (0 .. 15)]]
        /\ 0 \in bridge'.reg["LPC_EN"] /\ 1 \notin bridge'.reg["LPC_EN"]
        /\ bridge'.reg["GEN2_DEC"] = Bits(\h131) /\ bridge'.reg["PCI_DMA_C"] = dma
    <3>1. Bits(\h10) \in SUBSET (0 .. 15) /\ Bits(\h131) \in SUBSET (0 .. 15)
      BY BitOf
    <3>2. bridge.kind \in {"intel", "ali", "other"} /\ bridge.reg \in [BridgeRegs -> SUBSET (0 .. 15)]
      BY DEF IInv, TypeOK
    <3>. DEFINE regs == [bridge.reg EXCEPT !["COM_DEC"] = Bits(\h10),
                                           !["LPC_EN"] = (@ \ {1}) \union {0},
                                           !["PCI_DMA_C"] = dma,
                                           !["GEN2_DEC"] = Bits(\h131)]
    <3>3. bridge' = [bridge EXCEPT !.reg = regs]
      BY <2>1 DEF IInv, TypeOK, BridgeRegs
    <3>4. regs \in [BridgeRegs -> SUBSET (0 .. 15)]
      <4>1. (bridge.reg["LPC_EN"] \ {1}) \union {0} \in SUBSET (0 .. 15)
        BY <3>2 DEF BridgeRegs
      <4> QED BY <3>1, <3>2, <4>1
    <3>5. /\ 0 \in regs["LPC_EN"] /\ 1 \notin regs["LPC_EN"]
          /\ regs["GEN2_DEC"] = Bits(\h131) /\ regs["PCI_DMA_C"] = dma
      BY <3>2 DEF BridgeRegs
    <3>. HIDE DEF regs
    <3>6. bridge'.reg = regs
          /\ bridge' \in [kind : {"intel", "ali", "other"}, reg : [BridgeRegs -> SUBSET (0 .. 15)]]
      BY <3>3, <3>4 DEF IInv, TypeOK
    <3> QED BY <3>5, <3>6
  <2>4. TypeOK'
    BY <1>1, <2>2, <2>3 DEF IInv, TypeOK
  <2>5. ToolAt' /\ Accepted' /\ Progress' /\ BridgeOpen' /\ Reported'
    BY <1>1, <2>2, <2>3 DEF IInv, ToolAt, Accepted, Progress, BridgeOpen, Reported
  <2>6. OpenedByTool' /\ Untouched'
    BY <1>1 DEF IInv, OpenedByTool, MayBeOpen, AtRest, Untouched, Wakes
  <2>7. SameChips' /\ OnlyTheRightChip'
    BY <1>2, <2>2, ChipStepSafe DEF IInv
  <2> QED BY <2>2, <2>4, <2>5, <2>6, <2>7, NotAtRest DEF IInv
<1>4. CASE bridge.kind # "intel"
  <2>1. End("failed") /\ bridge' = bridge
    BY <1>4 DEF IntelBridge
  <2>2. bridge' \in [kind : {"intel", "ali", "other"}, reg : [BridgeRegs -> SUBSET (0 .. 15)]]
    BY <2>1 DEF IInv, TypeOK
  <2> QED BY <1>2, <2>1, <2>2, GivesUp
<1> QED BY <1>3, <1>4

LEMMA BridgeStep == ASSUME IInv, SmcinitBridge \/ Tosh2450Bridge PROVE IInv'
<1>1. CASE SmcinitBridge
  <2>1. Bits(\hc0c0) \in SUBSET (0 .. 15) /\ 6 \in Bits(\hc0c0)
    BY DmaBits, BitOf
  <2> QED BY <1>1, <2>1, IntelBridgeStep DEF SmcinitBridge
<1>2. CASE Tosh2450Bridge
  <2>. DEFINE dma == bridge.reg["PCI_DMA_C"] \union Bits(\hc00c)
  <2>1. dma \in SUBSET (0 .. 15) /\ 2 \in dma
    <3>1. bridge.reg["PCI_DMA_C"] \in SUBSET (0 .. 15)
      BY DEF IInv, TypeOK, BridgeRegs
    <3> QED BY <3>1, DmaBits, BitOf
  <2> QED BY <1>2, <2>1, IntelBridgeStep DEF Tosh2450Bridge
<1> QED BY <1>1, <1>2

(* The device id is right exactly if the chip is one the tool accepts.     *)
LEMMA ProbeStep == ASSUME IInv, Probe PROVE IInv'
<1>. DEFINE base == Bases[tool.row]
            c == Knock(chips[base], \h55, 1)
            right == Read(c, \h0d) \in Ids
            d == IF tool.name = "tosh1800" /\ ~right THEN Leave(c, \haa) ELSE c
<1>1. /\ tool.step = "probe" /\ chips' = [chips EXCEPT ![base] = d]
      /\ UNCHANGED <<bridge, before>>
  BY DEF Probe
<1>2. Wakes /\ tool.name # "none" /\ tool \in Tool
  BY <1>1 DEF IInv, TypeOK, Tool, ToolAt, Idle, Wakes
<1>3. \/ tool.name = "smcinit" /\ tool.args \in SmcArgs /\ tool.row \in {1, 2}
      \/ tool.name = "tosh2450" /\ tool.row = 1
      \/ tool.name = "tosh1800" /\ tool.args \in ToshArgs /\ tool.row = 1
  BY <1>1, <1>2 DEF IInv, ToolAt, Wakes
<1>4. /\ tool.row = Len(Bases) \/ tool.row < Len(Bases)
      /\ tool.row < Len(Bases) => tool.name = "smcinit" /\ tool.row = 1
  BY <1>3 DEF Bases
<1>5. base = \h2e \/ (tool.name = "smcinit" /\ tool.row = 2 /\ base = \h4e)
  BY <1>3 DEF Bases
<1>6. base \in Ports /\ chips[base] \in Chip
  <2>1. base \in Ports
    BY <1>5 DEF Ports
  <2> QED BY <2>1 DEF IInv, TypeOK
<1>7. /\ c \in Chip /\ c.model = chips[base].model /\ c.reg = chips[base].reg
      /\ chips[base].open => c.open
      /\ c.open => chips[base].open \/ Kind[c.model].key = \h55
  BY <1>6, KnockChip
<1>8. right <=> c.open /\ (c.model = "smc227" \/ (c.model = "smc252" /\ tool.name = "smcinit"))
  BY <1>7, DeviceId DEF Ids
<1>9. c.model \in Models /\ chips[base].model \in Models
  BY <1>6, <1>7 DEF Chip
<1>. HIDE DEF c, right, base
<1>10. /\ d \in Chip /\ d.model = chips[base].model /\ d.reg = chips[base].reg
       /\ tool.name # "tosh1800" \/ right => d = c
       /\ d.open => c.open
       /\ chips[base].model = "pc338" /\ chips[base].open => d.open
       /\ tool.name = "tosh1800" /\ ~right /\ d.open => chips[base].open
  <2>1. CASE tool.name = "tosh1800" /\ ~right
    <3>1. d = Leave(c, \haa)
      BY <2>1
    <3> QED BY <1>7, <1>9, <2>1, <3>1, LeaveChip, Keys
  <2>2. CASE ~(tool.name = "tosh1800" /\ ~right)
    BY <1>7, <2>2
  <2> QED BY <2>1, <2>2
<1>. HIDE DEF d
<1>11. ChipStep
  <2>1. chips[base].model = "pc338" => d.open
    BY <1>6, <1>10 DEF IInv, SameChips
  <2> QED BY <1>1, <1>6, <1>10, <2>1, OneChip DEF IInv
<1>12. /\ bridge' \in [kind : {"intel", "ali", "other"}, reg : [BridgeRegs -> SUBSET (0 .. 15)]]
       /\ chips'[base] = d /\ \A b \in Ports : b # base => chips'[b] = chips[b]
  BY <1>1, <1>6 DEF IInv, TypeOK
<1>13. \A b \in Ports : b # base /\ chips'[b].open =>
         before'[b].open \/ (tool.name = "smcinit" /\ tool.row = 2 /\ b = \h2e)
  BY <1>1, <1>2, <1>3, <1>12 DEF IInv, OpenedByTool, MayBeOpen, AtRest
<1>14. CASE right
  <2>1. tool' = [tool EXCEPT !.step = "program", !.row = 1, !.base = base]
    BY <1>14, <1>1 DEF Probe, right, c, base
  <2>2. /\ tool'.name = tool.name /\ tool'.step = "program" /\ tool'.row = 1
        /\ tool'.base = base /\ tool'.args = tool.args /\ tool' \in Tool'
    <3>1. tool.found \in Seq(Entry) /\ 1 \in 0 .. 22
      BY <1>2 DEF Tool
    <3>2. tool' = [name |-> tool.name, step |-> "program", row |-> 1, base |-> base,
                   args |-> tool.args, found |-> tool.found]
      BY <1>2, <2>1 DEF Tool
    <3> QED BY <1>3, <1>6, <3>1, <3>2 DEF Tool
  <2>3. TypeOK'
    BY <1>11, <1>12, <2>2 DEF IInv, TypeOK, ChipStep
  <2>4. ToolAt' /\ Reported'
    BY <1>2, <1>3, <1>5, <2>2 DEF ToolAt, Reported, Wakes
  <2>5. Accepted'
    BY <1>8, <1>10, <1>12, <1>14, <2>2 DEF Accepted, Wakes
  <2>6. Progress'
    <3>1. Plan' = Plan
      BY <1>2, <1>3, <2>2 DEF Plan, Wakes
    <3>2. chips'[base].reg = before'[base].reg
      BY <1>1, <1>2, <1>3, <1>6, <1>10, <1>12 DEF IInv, Untouched
    <3> QED BY <2>2, <3>2 DEF Progress
  <2>7. OpenedByTool' /\ Untouched'
    BY <1>2, <1>3, <1>5, <1>13, <2>2 DEF OpenedByTool, MayBeOpen, Wakes, AtRest, Untouched
  <2>8. BridgeOpen'
    BY <1>1, <2>2 DEF IInv, BridgeOpen
  <2>9. SameChips' /\ OnlyTheRightChip'
    BY <1>2, <1>3, <1>11, <2>2, ChipStepSafe DEF IInv
  <2> QED BY <1>2, <1>3, <2>2, <2>3, <2>4, <2>5, <2>6, <2>7, <2>8, <2>9, NotAtRest DEF IInv
<1>15. CASE ~right /\ tool.row < Len(Bases)
  <2>1. Goto("probe", tool.row + 1)
    BY <1>15, <1>1 DEF Probe, right, c, base
  <2>2. tool.name = "smcinit" /\ tool.args \in SmcArgs /\ tool.row = 1 /\ base = \h2e
    BY <1>3, <1>4, <1>5, <1>15
  <2>3. /\ tool'.name = tool.name /\ tool'.step = "probe" /\ tool'.row = 2
        /\ tool'.args = tool.args /\ tool' \in Tool'
    BY <2>1, <2>2, GotoIs DEF IInv
  <2>4. TypeOK'
    BY <1>11, <1>12, <2>3 DEF IInv, TypeOK, ChipStep
  <2>5. ToolAt' /\ Reported' /\ Accepted' /\ Progress'
    BY <2>2, <2>3 DEF ToolAt, Reported, Accepted, Progress
  <2>6. OpenedByTool'
    BY <1>13, <2>2, <2>3 DEF OpenedByTool, MayBeOpen, AtRest
  <2>7. Untouched' /\ BridgeOpen'
    BY <1>1, <1>2, <1>3, <1>6, <1>10, <1>12, <2>3 DEF IInv, Untouched, BridgeOpen
  <2>8. SameChips' /\ OnlyTheRightChip'
    BY <1>2, <1>3, <1>11, <2>3, ChipStepSafe DEF IInv
  <2> QED BY <1>2, <1>3, <2>3, <2>4, <2>5, <2>6, <2>7, <2>8, NotAtRest DEF IInv
<1>16. CASE ~right /\ tool.row = Len(Bases)
  <2>1. End("failed")
    BY <1>16, <1>1 DEF Probe, right, c, base
  <2>2. ASSUME tool.name = "tosh1800", NEW b \in Ports, chips'[b].open
        PROVE  before[b].open
    <3>1. chips[b].open
      BY <1>10, <1>12, <1>16, <2>2
    <3> QED BY <1>1, <2>2, <3>1 DEF IInv, OpenedByTool, MayBeOpen, AtRest
  <2> QED BY <1>2, <1>3, <1>11, <1>12, <2>1, <2>2, GivesUp
<1> QED BY <1>4, <1>14, <1>15, <1>16
(* Only smcinit reads back.                                                *)
LEMMA NoChecks == \A a : \A i \in 1 .. 8 : ~configure_47N227_smc_ircc(a)[i].check
BY PlanNumbers DEF configure_47N227_smc_ircc, Put, Mask, Also

(* One register is written, as the plan says, and the others stay.         *)
LEMMA ProgramStep == ASSUME IInv, Program PROVE IInv'
<1>. DEFINE e == Plan[tool.row]
            b == tool.base
            c == chips[b]
            v == (Read(c, e.reg) \intersect e.keep) \union (e.set \intersect AllOnes)
            next == Write(c, e.reg, v)
            n == Len(Plan)
<1>1. tool.step = "program" /\ chips' = [chips EXCEPT ![b] = next] /\ UNCHANGED <<bridge, before>>
  BY DEF Program
<1>2. Wakes /\ tool.name # "none" /\ tool \in Tool /\ b \in Ports /\ tool.name # "findchip"
  BY <1>1 DEF IInv, TypeOK, Tool, ToolAt, Idle, Wakes, Ports
<1>3. IsPlan(Plan) /\ n \in Nat /\ tool.row \in 1 .. n
  <2>1. IsPlan(Plan) /\ n = IF tool.name = "tosh1800" THEN 8 ELSE 10
    BY <1>2, PlanOK
  <2>2. tool.row \in 1 .. IF tool.name = "tosh1800" THEN 8 ELSE 10
    BY <1>1, <1>2 DEF IInv, ToolAt, Wakes
  <2> QED BY <2>1, <2>2
<1>4. c \in Chip /\ c.open
      /\ (c.model = "smc227" \/ (c.model = "smc252" /\ tool.name = "smcinit"))
  BY <1>1, <1>2 DEF IInv, TypeOK, Accepted
<1>5. e.reg \in Regs /\ e.keep \subseteq AllOnes
  BY <1>3 DEF IsPlan
<1>. HIDE DEF e
<1>6. Read(c, e.reg) = c.reg[e.reg] /\ c.reg[e.reg] \in SUBSET AllOnes
  BY <1>4, <1>5, ReadReg DEF Chip
<1>7. c.reg[e.reg] = before[b].reg[e.reg]
  BY <1>1, <1>2, <1>3 DEF IInv, Progress, e
<1>8. v \in SUBSET AllOnes /\ v \intersect Implemented(e.reg) = Target(e, before[b])
  BY <1>5, <1>6, <1>7 DEF Target
<1>. HIDE DEF v
<1>9. /\ next \in Chip /\ next.model = c.model /\ next.open
      /\ next.reg[e.reg] = Target(e, before[b])
      /\ \A q \in Regs : q # e.reg => next.reg[q] = c.reg[q]
  <2>1. /\ next \in Chip /\ next.model = c.model /\ next.open
        /\ next.reg[e.reg] = v \intersect Implemented(e.reg)
        /\ \A q \in Regs : q # e.reg => next.reg[q] = c.reg[q]
    <3>. HIDE DEF c
    <3> QED BY <1>4, <1>5, <1>8, WriteChip
  <2> QED BY <1>8, <2>1
<1>. HIDE DEF next
<1>10. Read(next, e.reg) = next.reg[e.reg]
  BY <1>4, <1>5, <1>9, ReadReg
<1>11. ChipStep
  <2>1. \A r \in Regs : Entitled(tool.name, b, r)
    BY <1>2, <1>4 DEF Entitled, Wakes
  <2> QED BY <1>1, <1>2, <1>4, <1>9, <2>1, OneChip DEF IInv
<1>12. /\ bridge' \in [kind : {"intel", "ali", "other"}, reg : [BridgeRegs -> SUBSET (0 .. 15)]]
       /\ chips'[b] = next /\ \A d \in Ports : d # b => chips'[d] = chips[d]
  BY <1>1, <1>2 DEF IInv, TypeOK
<1>13. CASE e.check /\ Read(next, e.reg) # e.set
  <2>1. End("failed")
    BY <1>13 DEF Program, e, b, c, v, next
  <2>2. tool.name # "tosh1800"
    <3>1. SUFFICES ASSUME tool.name = "tosh1800" PROVE FALSE
      OBVIOUS
    <3>2. Plan = configure_47N227_smc_ircc(tool.args) /\ tool.row \in 1 .. 8
      BY <1>1, <3>1 DEF Plan, IInv, ToolAt
    <3> QED BY <1>13, <3>2, NoChecks DEF e
  <2> QED BY <1>2, <1>11, <1>12, <2>1, <2>2, GivesUp DEF Wakes
<1>14. CASE ~(e.check /\ Read(next, e.reg) # e.set)
  <2>1. IF tool.row < n THEN Goto("program", tool.row + 1) ELSE Goto("leave", 1)
    BY <1>14 DEF Program, e, b, c, v, next
  <2>2. tool.row + 1 \in 0 .. 22
    <3>1. n <= 10
      BY <1>3 DEF IsPlan
    <3>. HIDE DEF n
    <3> QED BY <1>3, <3>1
  <2>3. /\ tool'.name = tool.name /\ tool'.base = b /\ tool'.args = tool.args /\ tool' \in Tool'
        /\ \/ tool.row < n /\ tool'.step = "program" /\ tool'.row = tool.row + 1
           \/ tool.row = n /\ tool'.step = "leave" /\ tool'.row = 1
    <3>1. CASE tool.row < n
      <4>1. Goto("program", tool.row + 1)
        BY <2>1, <3>1
      <4> QED BY <2>2, <3>1, <4>1, GotoIs DEF IInv
    <3>2. CASE tool.row = n
      <4>1. Goto("leave", 1)
        BY <1>3, <2>1, <3>2
      <4> QED BY <3>2, <4>1, GotoIs DEF IInv
    <3> QED BY <1>3, <3>1, <3>2
  <2>4. TypeOK'
    BY <1>11, <1>12, <2>3 DEF IInv, TypeOK, ChipStep
  <2>5. ToolAt'
    <3>1. n = IF tool.name = "tosh1800" THEN 8 ELSE 10
      BY <1>2, PlanOK
    <3>2. tool.row + 1 \in 1 .. n \/ tool.row = n
      BY <1>3
    <3> QED BY <1>1, <1>2, <2>3, <3>1, <3>2 DEF IInv, ToolAt, Wakes
  <2>6. Accepted'
    BY <1>4, <1>9, <1>12, <2>3 DEF Accepted
  <2>7. Progress'
    <3>1. Plan' = Plan
      BY <1>2, <2>3 DEF Plan, Wakes
    <3>2. ASSUME NEW i \in 1 .. n
          PROVE  LET r == chips'[b].reg[Plan[i].reg] IN
                 IF tool'.step = "program" /\ i >= tool'.row
                 THEN r = before[b].reg[Plan[i].reg]
                 ELSE r = Target(Plan[i], before[b]) /\ (Plan[i].check => r = Plan[i].set)
      <4>1. CASE i = tool.row
        <5>1. ~(tool'.step = "program" /\ i >= tool'.row)
          BY <1>3, <2>3, <4>1
        <5>2. Plan[i] = e
          BY <4>1 DEF e
        <5> QED BY <1>9, <1>10, <1>12, <1>14, <5>1, <5>2
      <4>2. CASE i # tool.row
        <5>1. Plan[i].reg # e.reg /\ Plan[i].reg \in Regs
          BY <1>3, <4>2 DEF e, IsPlan
        <5>2. chips'[b].reg[Plan[i].reg] = c.reg[Plan[i].reg]
          BY <1>9, <1>12, <5>1
        <5>3. (tool'.step = "program" /\ i >= tool'.row) <=> i >= tool.row
          BY <1>3, <2>3, <4>2
        <5> QED BY <1>1, <1>2, <5>2, <5>3 DEF IInv, Progress
      <4> QED BY <4>1, <4>2
    <3> QED BY <1>1, <2>3, <3>1, <3>2 DEF Progress
  <2>11. Reported' /\ Untouched'
    BY <1>2, <2>3 DEF Reported, Untouched
  <2>8. OpenedByTool'
    <3>1. ASSUME NEW d \in Ports, chips'[d].open PROVE before'[d].open \/ MayBeOpen(d)'
      <4>1. CASE d = b
        BY <1>2, <2>3, <4>1 DEF MayBeOpen, Wakes
      <4>2. CASE d # b
        <5>1. before[d].open \/ MayBeOpen(d)
          BY <1>2, <1>12, <3>1, <4>2 DEF IInv, OpenedByTool, AtRest
        <5> QED BY <1>1, <1>2, <2>3, <4>2, <5>1 DEF MayBeOpen, Wakes
      <4> QED BY <4>1, <4>2
    <3> QED BY <3>1 DEF OpenedByTool
  <2>9. BridgeOpen'
    BY <1>1, <2>3 DEF IInv, BridgeOpen
  <2>10. SameChips' /\ OnlyTheRightChip'
    BY <1>2, <1>11, <2>3, ChipStepSafe DEF IInv
  <2> QED BY <1>2, <2>3, <2>4, <2>5, <2>6, <2>7, <2>11, <2>8, <2>9, <2>10, NotAtRest DEF IInv
<1> QED BY <1>13, <1>14

-----------------------------------------------------------------------------
(* What a completed plan has set up                                        *)

Results(p, c, was) ==
  \A i \in 1 .. Len(p) : /\ c.reg[p[i].reg] = Target(p[i], was)
                         /\ p[i].check => c.reg[p[i].reg] = p[i].set

(* The entries of a plan, by what is kept.                                 *)
EntriesOf(p, c, was) ==
  \A i \in 1 .. Len(p), r \in Regs :
    /\ \A v : p[i] = Checked(r, v) => c.reg[r] = v
    /\ \A v : p[i] = Put(r, v) => c.reg[r] = v \intersect AllOnes \intersect Implemented(r)
    /\ \A keep, v : p[i] = Mask(r, keep, v) =>
         c.reg[r] = ((was.reg[r] \intersect keep) \union (v \intersect AllOnes))
                      \intersect Implemented(r)

LEMMA Entries ==
  ASSUME NEW p, NEW c, NEW was, Results(p, c, was)
  PROVE  EntriesOf(p, c, was)
<1>. SUFFICES ASSUME NEW i \in 1 .. Len(p), NEW r \in Regs
     PROVE /\ \A v : p[i] = Checked(r, v) => c.reg[r] = v
           /\ \A v : p[i] = Put(r, v) => c.reg[r] = v \intersect AllOnes \intersect Implemented(r)
           /\ \A keep, v : p[i] = Mask(r, keep, v) =>
                c.reg[r] = ((was.reg[r] \intersect keep) \union (v \intersect AllOnes))
                             \intersect Implemented(r)
  BY DEF EntriesOf
<1>1. ASSUME NEW v, p[i] = Checked(r, v) PROVE c.reg[r] = v
  <2>1. p[i].reg = r /\ p[i].check /\ p[i].set = v
    BY <1>1 DEF Checked
  <2> QED BY <2>1 DEF Results
<1>2. ASSUME NEW v, p[i] = Put(r, v)
      PROVE  c.reg[r] = v \intersect AllOnes \intersect Implemented(r)
  <2>1. p[i].reg = r /\ p[i].keep = {} /\ p[i].set = v
    BY <1>2 DEF Put
  <2>2. c.reg[r] = Target(p[i], was)
    BY <2>1 DEF Results
  <2> QED BY <2>1, <2>2 DEF Target
<1>3. ASSUME NEW keep, NEW v, p[i] = Mask(r, keep, v)
      PROVE  c.reg[r] = ((was.reg[r] \intersect keep) \union (v \intersect AllOnes))
                          \intersect Implemented(r)
  <2>1. p[i].reg = r /\ p[i].keep = keep /\ p[i].set = v
    BY <1>3 DEF Mask
  <2>2. c.reg[r] = Target(p[i], was)
    BY <2>1 DEF Results
  <2> QED BY <2>1, <2>2 DEF Target
<1> QED BY <1>1, <1>2, <1>3

LEMMA AllImplemented == \A r \in Regs : r # \h2c => Implemented(r) = 0 .. 7
BY DEF Implemented, AllOnes

(* The part that is the same for the Intel tools: IrDA mode, power and the *)
(* valid bit.                                                              *)
LEMMA Finished ==
  ASSUME NEW p, NEW c \in Chip, NEW was \in Chip, Results(p, c, was), Len(p) = 10,
         \A k \in 1 .. 5 : p[5 + k] = Finish[k]
  PROVE  /\ 7 \in c.reg[\h02] /\ 7 \in c.reg[\h00]
         /\ c.reg[\h0c] \intersect 3 .. 5 = {3}
<1>0. EntriesOf(p, c, was)
  BY Entries
<1>1. p[6] = Mask(\h0c, Byte(\hc7), Byte(\h88)) /\ p[9] = Put(\h02, Byte(\h80))
      /\ p[10] = Also(\h00, Byte(\h80))
  <2>1. p[6] = Finish[1] /\ p[9] = Finish[4] /\ p[10] = Finish[5]
    OBVIOUS
  <2> QED BY <2>1, FinishIs
<1>2. \h0c \in Regs /\ \h02 \in Regs /\ \h00 \in Regs
  BY DEF Regs
<1>3. c.reg[\h02] = Byte(\h80) \intersect AllOnes \intersect Implemented(\h02)
  BY <1>1, <1>2, <1>0 DEF EntriesOf, Also
<1>4. c.reg[\h00] = ((was.reg[\h00] \intersect AllOnes) \union (Byte(\h80) \intersect AllOnes))
                      \intersect Implemented(\h00)
  BY <1>1, <1>2, <1>0 DEF EntriesOf, Also
<1>5. c.reg[\h0c] = ((was.reg[\h0c] \intersect Byte(\hc7)) \union (Byte(\h88) \intersect AllOnes))
                      \intersect Implemented(\h0c)
  BY <1>1, <1>2, <1>0 DEF EntriesOf, Also
<1>6. 7 \in c.reg[\h02] /\ 7 \in c.reg[\h00]
  BY <1>2, <1>3, <1>4, AllImplemented, PlanBytes DEF AllOnes
<1>7. c.reg[\h0c] \intersect 3 .. 5 = {3}
  BY <1>2, <1>5, AllImplemented, PlanBytes DEF AllOnes
<1> QED BY <1>6, <1>7

LEMMA WokenBySmcinit ==
  ASSUME NEW a \in SmcArgs, NEW c \in Chip, NEW was \in Chip, Results(set_smc(a), c, was), ~c.open
  PROVE  Configured(c, a) /\ c.reg[\h0c] \intersect 3 .. 5 = {3}
<1>. DEFINE p == set_smc(a)
<1>0. EntriesOf(p, c, was)
  BY Entries
<1>1. /\ a.sir \in Nat /\ a.sir < 4096 /\ a.fir \in Nat /\ a.fir < 4096
      /\ a.irq \in 0 .. 15 /\ a.sir % 8 = 0
  BY SmcArgsAssumption
<1>2. \A r \in {\h25, \h28, \h2b, \h2c} : r \in Regs
  BY DEF Regs
<1>3. Len(p) = 10 /\ \A k \in 1 .. 5 : p[5 + k] = Finish[k]
  BY SmcPlan
<1>. DEFINE s == ((a.sir % 4096) \div 8) * 2
            f == (a.fir % 4096) \div 8
<1>4. /\ p[2] = Checked(\h25, Bits(s)) /\ p[3] = Checked(\h28, Bits(a.irq))
      /\ p[4] = Checked(\h2b, Bits(f)) /\ p[5] = Checked(\h2c, Bits(a.dma))
  BY SmcPlan
<1>5. s = a.sir \div 4 /\ f = a.fir \div 8
  <2>. DEFINE x == a.sir  y == a.fir
  <2>1. x \in Nat /\ x < 4096 /\ y \in Nat /\ y < 4096 /\ x % 8 = 0
    BY <1>1
  <2>. HIDE DEF x, y
  <2>2. x % 4096 = x /\ y % 4096 = y
    BY <2>1
  <2>3. (x \div 8) * 2 = x \div 4
    BY <2>1
  <2> QED BY <2>2, <2>3 DEF x, y
<1>. HIDE DEF p, s, f
<1>7. c.reg[\h25] = Bits(s) /\ c.reg[\h28] = Bits(a.irq)
  BY <1>2, <1>3, <1>4, <1>0 DEF p, EntriesOf
<1>8. c.reg[\h2b] = Bits(f) /\ c.reg[\h2c] = Bits(a.dma)
  BY <1>2, <1>3, <1>4, <1>0 DEF p, EntriesOf
<1>9. Bits(a.irq) \intersect Low = Bits(a.irq)
  BY <1>1, FitsLow
<1> QED BY <1>3, <1>5, <1>7, <1>8, <1>9, Finished DEF Configured, p

LEMMA WokenByTosh2450 ==
  ASSUME NEW c \in Chip, NEW was \in Chip, Results(tosh2450, c, was), ~c.open
  PROVE  /\ Configured(c, [sir |-> \h3f8, fir |-> \h130, irq |-> 7, dma |-> 1])
         /\ c.reg[\h0c] \intersect 3 .. 5 = {3}
<1>. DEFINE p == tosh2450
<1>0. EntriesOf(p, c, was)
  BY Entries
<1>1. \A r \in {\h25, \h28, \h2b, \h2c} : r \in Regs
  BY DEF Regs
<1>2. Len(p) = 10 /\ \A k \in 1 .. 5 : p[5 + k] = Finish[k]
  BY Tosh2450Plan
<1>3. c.reg[\h25] = Byte(\hfe) \intersect AllOnes \intersect Implemented(\h25)
  BY <1>1, <1>2, Tosh2450Plan, <1>0 DEF EntriesOf
<1>4. c.reg[\h28] = Byte(7) \intersect AllOnes \intersect Implemented(\h28)
  BY <1>1, <1>2, Tosh2450Plan, <1>0 DEF EntriesOf
<1>5. c.reg[\h2b] = Byte(\h26) \intersect AllOnes \intersect Implemented(\h2b)
  BY <1>1, <1>2, Tosh2450Plan, <1>0 DEF EntriesOf
<1>6. c.reg[\h2c] = Byte(1) \intersect AllOnes \intersect Low
  BY <1>1, <1>2, Tosh2450Plan, <1>0 DEF EntriesOf, Implemented
<1>7. \h3f8 \div 4 = \hfe /\ \h130 \div 8 = \h26
  OBVIOUS
<1>8. /\ Bits(\hfe) = Byte(\hfe) /\ Bits(\h26) = Byte(\h26)
      /\ Bits(7) = Byte(7) /\ Byte(7) \subseteq Low /\ Bits(1) = Byte(1) /\ Byte(1) \subseteq Low
  BY FitsByte, FitsLow
<1>9. c.reg[\h25] = Bits(\hfe) /\ c.reg[\h2b] = Bits(\h26) /\ c.reg[\h28] \intersect Low = Bits(7)
      /\ c.reg[\h2c] = Bits(1)
  BY <1>1, <1>3, <1>4, <1>5, <1>6, <1>8, ByteType, AllImplemented DEF AllOnes, Low
<1> QED BY <1>2, <1>7, <1>9, Finished DEF Configured

LEMMA WokenByTosh1800 ==
  ASSUME NEW a \in ToshArgs, NEW c \in Chip, NEW was \in Chip,
         Results(configure_47N227_smc_ircc(a), c, was), ~c.open
  PROVE  /\ Configured(c, a)
         /\ LET mode == c.reg[\h0c] \intersect 3 .. 5 IN
            mode = {3} \/ (3 \notin was.reg[\h0c] /\ mode = {})
<1>. DEFINE p == configure_47N227_smc_ircc(a)
<1>0. EntriesOf(p, c, was)
  BY Entries
<1>1. /\ a.sir \in Nat /\ a.sir < 1024 /\ a.fir \in Nat /\ a.fir < 2048
      /\ a.irq \in 0 .. 15 /\ a.dma \in 0 .. 15
  BY ToshArgsAssumption
<1>2. \A r \in {\h25, \h28, \h2b, \h2c, \h0c, \h02, \h00} : r \in Regs
  BY DEF Regs
<1>3. Len(p) = 8
  BY Tosh1800Plan
<1>. DEFINE s == Byte(a.sir \div 4)
            f == Byte(a.fir \div 8)
            d == Byte(a.dma) \intersect Low
            q == Byte(a.irq) \intersect Low
            keep == (AllOnes \ Byte(\h38)) \union Byte(\h08)
<1>4. /\ p[1] = Put(\h25, s) /\ p[2] = Put(\h2b, f) /\ p[3] = Put(\h2c, d)
      /\ p[4] = Mask(\h28, 4 .. 7, q) /\ p[5] = Mask(\h0c, keep, {})
      /\ p[7] = Mask(\h02, AllOnes, Byte(\h80)) /\ p[8] = Mask(\h00, AllOnes, Byte(\h80))
  BY Tosh1800Plan DEF Also
<1>. HIDE DEF s, f, d, q, keep, p
<1>5. /\ c.reg[\h25] = s \intersect AllOnes \intersect Implemented(\h25)
      /\ c.reg[\h2b] = f \intersect AllOnes \intersect Implemented(\h2b)
  BY <1>2, <1>3, <1>4, <1>0 DEF p, EntriesOf
<1>6. c.reg[\h2c] = d \intersect AllOnes \intersect Implemented(\h2c)
  BY <1>2, <1>3, <1>4, <1>0 DEF p, EntriesOf
<1>7. c.reg[\h28] = ((was.reg[\h28] \intersect 4 .. 7) \union (q \intersect AllOnes))
                      \intersect Implemented(\h28)
  BY <1>2, <1>3, <1>4, <1>0 DEF p, EntriesOf
<1>8. c.reg[\h0c] = ((was.reg[\h0c] \intersect keep) \union ({} \intersect AllOnes))
                      \intersect Implemented(\h0c)
  BY <1>2, <1>3, <1>4, <1>0 DEF p, EntriesOf
<1>9. 7 \in c.reg[\h02] /\ 7 \in c.reg[\h00]
  <2>1. /\ c.reg[\h02] = ((was.reg[\h02] \intersect AllOnes) \union (Byte(\h80) \intersect AllOnes))
                           \intersect Implemented(\h02)
        /\ c.reg[\h00] = ((was.reg[\h00] \intersect AllOnes) \union (Byte(\h80) \intersect AllOnes))
                           \intersect Implemented(\h00)
    BY <1>2, <1>3, <1>4, <1>0 DEF p, EntriesOf
  <2> QED BY <1>2, <2>1, AllImplemented, PlanBytes DEF AllOnes
<1>10. Bits(a.sir \div 4) = Byte(a.sir \div 4) /\ Bits(a.fir \div 8) = Byte(a.fir \div 8)
  <2>1. a.sir \div 4 \in Nat /\ a.sir \div 4 < 256 /\ a.fir \div 8 \in Nat /\ a.fir \div 8 < 256
    <3>. DEFINE x == a.sir  y == a.fir
    <3>1. x \in Nat /\ x < 1024 /\ y \in Nat /\ y < 2048
      BY <1>1
    <3>. HIDE DEF x, y
    <3>2. x \div 4 \in Nat /\ x \div 4 < 256 /\ y \div 8 \in Nat /\ y \div 8 < 256
      BY <3>1
    <3> QED BY <3>2 DEF x, y
  <2> QED BY <2>1, FitsByte
<1>11. /\ Bits(a.irq) = Byte(a.irq) /\ Byte(a.irq) \subseteq Low
       /\ Bits(a.dma) = Byte(a.dma) /\ Byte(a.dma) \subseteq Low
  BY <1>1, FitsLow
<1>12. c.reg[\h25] = Bits(a.sir \div 4) /\ c.reg[\h2b] = Bits(a.fir \div 8)
  BY <1>2, <1>5, <1>10, ByteType, AllImplemented DEF AllOnes, s, f
<1>13. c.reg[\h2c] = Bits(a.dma)
  BY <1>6, <1>11 DEF AllOnes, Low, Implemented, d
<1>14. c.reg[\h28] \intersect Low = Bits(a.irq)
  BY <1>2, <1>7, <1>11, AllImplemented DEF AllOnes, Low, q
<1>15. LET mode == c.reg[\h0c] \intersect 3 .. 5 IN
       mode = {3} \/ (3 \notin was.reg[\h0c] /\ mode = {})
  BY <1>2, <1>8, AllImplemented, PlanBytes DEF AllOnes, keep
<1> QED BY <1>9, <1>12, <1>13, <1>14, <1>15 DEF Configured

-----------------------------------------------------------------------------
(* The end of the tools of smcinit/                                        *)

(* What the running tool will have been asked for, and the mode it sets.   *)
ToBeSet ==
  CASE tool.name = "smcinit"  -> tool.args
    [] tool.name = "tosh1800" -> tool.args
    [] tool.name = "tosh2450" -> [sir |-> \h3f8, fir |-> \h130, irq |-> 7, dma |-> 1]

InMode(name, c, was) ==
  LET mode == c.reg[\h0c] \intersect 3 .. 5 IN
  mode = {3} \/ (name = "tosh1800" /\ 3 \notin was.reg[\h0c] /\ mode = {})

(* The chip of a tool that has written its plan is what was asked for.     *)
LEMMA Woken ==
  ASSUME IInv, Wakes, NEW c \in Chip, ~c.open, tool.base \in Ports,
         Results(Plan, c, before[tool.base])
  PROVE  Configured(c, ToBeSet) /\ InMode(tool.name, c, before[tool.base])
<1>1. before[tool.base] \in Chip
  BY DEF IInv, TypeOK
<1>2. CASE tool.name = "smcinit"
  <2>1. tool.args \in SmcArgs /\ Plan = set_smc(tool.args) /\ ToBeSet = tool.args
    BY <1>2 DEF IInv, ToolAt, Plan, ToBeSet
  <2>2. Configured(c, tool.args) /\ c.reg[\h0c] \intersect 3 .. 5 = {3}
    BY <1>1, <2>1, WokenBySmcinit
  <2> QED BY <2>1, <2>2 DEF InMode
<1>3. CASE tool.name = "tosh2450"
  <2>1. Plan = tosh2450 /\ ToBeSet = [sir |-> \h3f8, fir |-> \h130, irq |-> 7, dma |-> 1]
    BY <1>3 DEF Plan, ToBeSet
  <2>2. /\ Configured(c, [sir |-> \h3f8, fir |-> \h130, irq |-> 7, dma |-> 1])
        /\ c.reg[\h0c] \intersect 3 .. 5 = {3}
    BY <1>1, <2>1, WokenByTosh2450
  <2> QED BY <2>1, <2>2 DEF InMode
<1>4. CASE tool.name = "tosh1800"
  <2>1. tool.args \in ToshArgs /\ Plan = configure_47N227_smc_ircc(tool.args)
        /\ ToBeSet = tool.args
    BY <1>4 DEF IInv, ToolAt, Plan, ToBeSet
  <2>2. /\ Configured(c, tool.args)
        /\ LET mode == c.reg[\h0c] \intersect 3 .. 5 IN
           mode = {3} \/ (3 \notin before[tool.base].reg[\h0c] /\ mode = {})
    BY <1>1, <2>1, WokenByTosh1800
  <2> QED BY <1>4, <2>1, <2>2 DEF InMode
<1> QED BY <1>2, <1>3, <1>4 DEF Wakes

DecodedBy(reg, name, a) ==
  IF name = "tosh1800"
  THEN a.decode = "set" =>
         \A p \in ali1533_ports : p.port \in {a.sir, a.fir} => p.mask \subseteq reg[p.reg]
  ELSE /\ 0 \in reg["LPC_EN"] /\ 1 \notin reg["LPC_EN"]
       /\ reg["GEN2_DEC"] = Bits(\h131)
       /\ (IF name = "smcinit" THEN 6 ELSE 2) \in reg["PCI_DMA_C"]

(* A tool that ends with success has set the chip and the bridge.          *)
LEMMA EndsWell ==
  ASSUME IInv, Wakes, NEW b \in Ports, tool.base = b, before' = before, End("ok"),
         chips'[b] \in Chip, ~chips'[b].open, Results(Plan, chips'[b], before[b]),
         DecodedBy(bridge'.reg, tool.name, ToBeSet)
  PROVE  SuccessIsUsable'
<1>1. PICK c \in Chip : c = chips'[b]
  OBVIOUS
<1>2. Configured(c, ToBeSet) /\ InMode(tool.name, c, before[b])
  BY <1>1, Woken
<1>3. last'.name = tool.name /\ last'.base = b /\ last'.args = tool.args
  BY EndIs
<1>4. PICK a : a = ToBeSet
  OBVIOUS
<1>5. Asked' = a
  BY <1>3, <1>4 DEF Wakes, Asked, ToBeSet
<1>6. Configured(chips'[last'.base], Asked')
  BY <1>1, <1>2, <1>3, <1>4, <1>5
<1>7. IrdaMode(chips[last.base], before[last.base])'
  BY <1>1, <1>2, <1>3 DEF IrdaMode, InMode
<1>8. Decoded(a)'
  BY <1>3, <1>4 DEF Decoded, DecodedBy
<1>9. Decoded(Asked)'
  BY <1>5, <1>8 DEF Decoded
<1> QED BY <1>6, <1>7, <1>9 DEF SuccessIsUsable

LEMMA LeaveStep == ASSUME IInv, LeaveConfig PROVE IInv'
<1>. DEFINE b == tool.base
            c == Leave(chips[b], \haa)
<1>1. tool.step = "leave" /\ chips' = [chips EXCEPT ![b] = c] /\ UNCHANGED <<bridge, before>>
  BY DEF LeaveConfig
<1>2. Wakes /\ tool.name # "none" /\ tool \in Tool /\ b \in Ports /\ tool.name # "findchip"
  BY <1>1 DEF IInv, TypeOK, Tool, ToolAt, Idle, Wakes, Ports
<1>3. b = \h2e \/ (b = \h4e /\ tool.name = "smcinit")
  BY <1>1, <1>2 DEF IInv, ToolAt, Wakes
<1>4. chips[b] \in Chip /\ chips[b].open /\ chips[b].model \in {"smc227", "smc252"}
      /\ (chips[b].model = "smc227" \/ tool.name = "smcinit")
  BY <1>1, <1>2 DEF IInv, TypeOK, Accepted
<1>5. c \in Chip /\ c.model = chips[b].model /\ c.reg = chips[b].reg /\ ~c.open
  <2>1. Kind[chips[b].model].exit = \haa
    BY <1>4, Keys
  <2> QED BY <1>4, <2>1, LeaveChip
<1>. HIDE DEF c
<1>6. ChipStep
  BY <1>1, <1>2, <1>4, <1>5, OneChip DEF IInv
<1>7. /\ bridge' \in [kind : {"intel", "ali", "other"}, reg : [BridgeRegs -> SUBSET (0 .. 15)]]
      /\ chips'[b] = c /\ \A d \in Ports : d # b => chips'[d] = chips[d]
  BY <1>1, <1>2 DEF IInv, TypeOK
<1>8. Results(Plan, c, before[b])
  BY <1>1, <1>2, <1>5 DEF IInv, Progress, Results
<1>9. ASSUME NEW d \in Ports, chips'[d].open
      PROVE  before[d].open \/ (tool.name = "smcinit" /\ d = \h2e /\ b = \h4e)
  <2>1. d # b /\ chips[d].open
    BY <1>5, <1>7, <1>9
  <2> QED BY <1>1, <1>2, <1>3, <2>1 DEF IInv, OpenedByTool, MayBeOpen, AtRest
<1>10. CASE tool.name = "tosh1800" /\ tool.args.decode # "skip"
  <2>1. Goto("ali", 1)
    BY <1>10 DEF LeaveConfig
  <2>2. /\ tool'.name = tool.name /\ tool'.step = "ali" /\ tool'.base = b
        /\ tool'.args = tool.args /\ tool' \in Tool'
    BY <2>1, GotoIs DEF IInv
  <2>3. TypeOK'
    BY <1>6, <1>7, <2>2 DEF IInv, TypeOK, ChipStep
  <2>4. ToolAt' /\ Reported' /\ Untouched' /\ BridgeOpen'
    BY <1>1, <1>10, <2>2 DEF IInv, ToolAt, Reported, Untouched, BridgeOpen
  <2>5. Accepted'
    BY <1>4, <1>5, <1>7, <1>10, <2>2 DEF Accepted
  <2>6. Progress'
    <3>1. Plan' = Plan
      BY <1>2, <2>2 DEF Plan, Wakes
    <3> QED BY <1>1, <1>7, <1>8, <2>2, <3>1 DEF Progress, Results
  <2>7. OpenedByTool'
    BY <1>1, <1>9, <1>10 DEF OpenedByTool
  <2>8. SameChips' /\ OnlyTheRightChip'
    BY <1>2, <1>6, <2>2, ChipStepSafe DEF IInv
  <2> QED BY <1>2, <2>2, <2>3, <2>4, <2>5, <2>6, <2>7, <2>8, NotAtRest DEF IInv
<1>11. CASE ~(tool.name = "tosh1800" /\ tool.args.decode # "skip")
  <2>1. End("ok")
    BY <1>11 DEF LeaveConfig
  <2>2. /\ tool' = Idle /\ tool'.name = "none" /\ tool' \in Tool'
        /\ last'.name = tool.name /\ last'.result = "ok" /\ last'.base = b
        /\ last'.args = tool.args
    BY <2>1, EndIs
  <2>3. TypeOK'
    BY <1>6, <1>7, <2>2 DEF IInv, TypeOK, ChipStep
  <2>4. SameChips' /\ OnlyTheRightChip'
    BY <1>2, <1>6, <2>2, ChipStepSafe DEF IInv
  <2>5. LeavesConfigState'
    BY <1>1, <1>9, <2>2 DEF LeavesConfigState
  <2>6. FoundIsThere'
    BY <1>2, <2>2 DEF FoundIsThere
  <2>7. SuccessIsUsable'
    <3>1. DecodedBy(bridge'.reg, tool.name, ToBeSet)
      <4>1. CASE tool.name = "tosh1800"
        <5>1. ToBeSet = tool.args /\ tool.args.decode # "set"
          BY <1>11, <4>1 DEF ToBeSet
        <5> QED BY <4>1, <5>1 DEF DecodedBy
      <4>2. CASE tool.name # "tosh1800"
        BY <1>1, <1>2, <4>2 DEF IInv, BridgeOpen, Wakes, DecodedBy
      <4> QED BY <4>1, <4>2
    <3>2. chips'[b] \in Chip /\ ~chips'[b].open /\ Results(Plan, chips'[b], before[b])
      BY <1>5, <1>7, <1>8
    <3> QED BY <1>1, <1>2, <2>1, <3>1, <3>2, EndsWell
  <2> QED BY <2>2, <2>3, <2>4, <2>5, <2>6, <2>7, NowAtRest DEF IInv
<1> QED BY <1>10, <1>11
(* The ALi bridge: nothing that was decoded is lost.                       *)
LEMMA AliSets ==
  ASSUME NEW port, NEW reg \in [BridgeRegs -> SUBSET (0 .. 15)]
  PROVE  LET result == set_ali1533_port(port, reg) IN
         /\ result \in [BridgeRegs -> SUBSET (0 .. 15)]
         /\ \A r \in BridgeRegs : reg[r] \subseteq result[r]
         /\ \A p \in ali1533_ports :
              p.reg \in BridgeRegs /\ (p.port = port => p.mask \subseteq result[p.reg])
<1>. DEFINE known == {p \in ali1533_ports : p.port = port}
            Masks(r) == UNION {p.mask : p \in {q \in known : q.reg = r}}
            result == set_ali1533_port(port, reg)
<1>1. \A p \in ali1533_ports : p.reg \in BridgeRegs /\ p.mask \in SUBSET (0 .. 15)
  <2>1. \A p \in ali1533_ports : p.reg \in BridgeRegs /\ p.mask \in SUBSET (0 .. 7)
    BY ByteType DEF ali1533_ports, BridgeRegs
  <2> QED BY <2>1
<1>2. result = [r \in BridgeRegs |-> reg[r] \union Masks(r)]
  BY DEF set_ali1533_port
<1>3. ASSUME NEW r PROVE Masks(r) \in SUBSET (0 .. 15)
  BY <1>1
<1>4. ASSUME NEW p \in ali1533_ports, p.port = port PROVE p.mask \subseteq Masks(p.reg)
  BY <1>4
<1>. HIDE DEF result, Masks
<1>5. result \in [BridgeRegs -> SUBSET (0 .. 15)]
  BY <1>2, <1>3
<1>6. \A r \in BridgeRegs : result[r] = reg[r] \union Masks(r)
  BY <1>2
<1> QED BY <1>1, <1>4, <1>5, <1>6 DEF result

LEMMA AliStep ==
  ASSUME IInv, AliBridge
  PROVE  IInv'
<1>. DEFINE b == tool.base
            BridgeType == [kind : {"intel", "ali", "other"}, reg : [BridgeRegs -> SUBSET (0 .. 15)]]
<1>1. tool.step = "ali" /\ UNCHANGED <<chips, before>>
  BY DEF AliBridge
<1>2. tool.name = "tosh1800" /\ tool.args \in ToshArgs /\ b \in Ports /\ tool \in Tool
  BY <1>1 DEF IInv, TypeOK, Tool, ToolAt, Idle, Ports
<1>3. ChipStep
  BY <1>1, ChipsKept DEF IInv
<1>4. \A d \in Ports : chips'[d].open => before[d].open
  BY <1>1, <1>2 DEF IInv, OpenedByTool, MayBeOpen, AtRest, Wakes
<1>5. bridge \in BridgeType
  BY DEF IInv, TypeOK
<1>6. CASE bridge.kind # "ali"
  <2>1. End("failed") /\ bridge' = bridge
    BY <1>6 DEF AliBridge
  <2> QED BY <1>2, <1>3, <1>4, <1>5, <2>1, GivesUp
<1>7. CASE bridge.kind = "ali"
  <2>. DEFINE once == set_ali1533_port(tool.args.sir, bridge.reg)
              twice == set_ali1533_port(tool.args.fir, once)
              reg == IF tool.args.decode = "print" THEN bridge.reg ELSE twice
  <2>1. bridge' = [bridge EXCEPT !.reg = reg] /\ End("ok")
    BY <1>7 DEF AliBridge
  <2>2. once \in [BridgeRegs -> SUBSET (0 .. 15)]
    BY <1>5, AliSets
  <2>3. twice \in [BridgeRegs -> SUBSET (0 .. 15)]
    BY <2>2, AliSets
  <2>4. ASSUME NEW p \in ali1533_ports, p.port \in {tool.args.sir, tool.args.fir}
        PROVE  p.mask \subseteq twice[p.reg]
    <3>1. p.reg \in BridgeRegs
      BY <2>2, AliSets
    <3>2. CASE p.port = tool.args.sir
      <4>1. p.mask \subseteq once[p.reg]
        BY <1>5, <3>2, AliSets
      <4>2. once[p.reg] \subseteq twice[p.reg]
        BY <2>2, <3>1, AliSets
      <4> QED BY <4>1, <4>2
    <3>3. CASE p.port = tool.args.fir
      BY <2>2, <3>3, AliSets
    <3> QED BY <2>4, <3>2, <3>3
  <2>. HIDE DEF once, twice
  <2>5. bridge' \in BridgeType /\ bridge'.reg = reg
    BY <1>5, <2>1, <2>3
  <2>6. DecodedBy(bridge'.reg, tool.name, ToBeSet)
    BY <1>2, <2>4, <2>5 DEF DecodedBy, ToBeSet
  <2>7. Wakes /\ chips'[b] \in Chip /\ ~chips'[b].open
    BY <1>1, <1>2 DEF IInv, TypeOK, Accepted, Wakes
  <2>8. Results(Plan, chips'[b], before[b])
    BY <1>1, <2>7 DEF IInv, Progress, Results
  <2>9. SuccessIsUsable'
    BY <1>1, <1>2, <2>1, <2>6, <2>7, <2>8, EndsWell
  <2>10. /\ tool' = Idle /\ tool'.name = "none" /\ tool' \in Tool'
         /\ last'.name = tool.name /\ last'.result = "ok"
    BY <2>1, EndIs
  <2>11. TypeOK'
    BY <1>3, <2>5, <2>10 DEF IInv, TypeOK, ChipStep
  <2>12. SameChips' /\ OnlyTheRightChip'
    BY <1>2, <1>3, <2>10, ChipStepSafe DEF IInv
  <2>13. LeavesConfigState' /\ FoundIsThere'
    BY <1>1, <1>2, <1>4, <2>10 DEF LeavesConfigState, FoundIsThere
  <2> QED BY <2>9, <2>10, <2>11, <2>12, <2>13, NowAtRest DEF IInv
<1> QED BY <1>6, <1>7
-----------------------------------------------------------------------------
(* The steps of findchip                                                   *)

LEMMA FindchipAt ==
  ASSUME IInv, tool.step \in {"row", "exit"}
  PROVE  /\ tool.name = "findchip" /\ tool.args \subseteq Families /\ tool.row \in Rows
         /\ tool \in Tool /\ ~AtRest /\ ~Wakes /\ Row.base \in Ports /\ chips[Row.base] \in Chip
<1>1. tool \in Tool /\ ToolAt /\ chips \in [Ports -> Chip]
  BY DEF IInv, TypeOK
<1>2. tool.name = "findchip" /\ tool.args \subseteq Families /\ tool.row \in Rows
  BY <1>1 DEF Tool, ToolAt, Idle
<1>3. Row.base \in Ports
  BY <1>2, RowType DEF Row
<1> QED BY <1>1, <1>2, <1>3 DEF AtRest, Wakes

(* A row is done, whether the chip was there, was not, or was passed over. *)
LEMMA NextRowStep ==
  ASSUME IInv, tool.step \in {"row", "exit"}, NextRow, ChipStep, bridge' = bridge,
         \A b \in Ports : chips'[b].open => before[b].open,
         RightRow(tool.row) /\ Row.family \in tool.args => IsReported(tool.row)
  PROVE  IInv'
<1>1. /\ tool.name = "findchip" /\ tool.args \subseteq Families /\ tool.row \in Rows
      /\ tool \in Tool /\ ~AtRest /\ ~Wakes
  BY FindchipAt
<1>2. /\ \A n \in 1 .. Len(tool.found) : \E i \in Rows : ReportedBy(n, i)
      /\ \A m, n \in 1 .. Len(tool.found) : tool.found[m].base = tool.found[n].base => m = n
      /\ \A i \in Rows :
           DoneRow(i) /\ RightRow(i) /\ allchips[i].family \in tool.args => IsReported(i)
  BY <1>1 DEF IInv, Reported
<1>3. \A i \in Rows : allchips[i].base \in Ports
  BY RowType
<1>4. \A b \in Ports : chips'[b].model = chips[b].model
  BY DEF ChipStep
<1>5. ASSUME NEW i \in Rows, i <= tool.row, RightRow(i), allchips[i].family \in tool.args
      PROVE  IsReported(i)
  <2>1. CASE i = tool.row
    BY <1>5, <2>1 DEF Row
  <2>2. CASE i # tool.row
    <3>1. i < tool.row
      BY <1>1, <1>5, <2>2 DEF Rows
    <3>2. DoneRow(i)
      BY <3>1 DEF DoneRow
    <3> QED BY <1>2, <1>5, <3>2
  <2> QED BY <2>1, <2>2
<1>6. Len(allchips) = 22
  BY RowsAre
<1>7. CASE tool.row < 22
  <2>1. Goto("row", tool.row + 1)
    BY <1>6, <1>7 DEF NextRow
  <2>2. /\ tool'.name = tool.name /\ tool'.step = "row" /\ tool'.row = tool.row + 1
        /\ tool'.args = tool.args /\ tool'.found = tool.found /\ tool' \in Tool'
    <3>1. tool.row + 1 \in 0 .. 22
      BY <1>1, <1>7 DEF Rows
    <3> QED BY <2>1, <3>1, GotoIs DEF IInv
  <2>3. TypeOK'
    BY <2>2 DEF IInv, TypeOK, ChipStep
  <2>4. ToolAt' /\ Accepted' /\ Progress' /\ Untouched' /\ BridgeOpen'
    BY <1>1, <1>7, <2>2 DEF ToolAt, Accepted, Progress, Untouched, BridgeOpen, Wakes, Rows
  <2>5. OpenedByTool'
    BY DEF OpenedByTool, ChipStep
  <2>6. SameChips' /\ OnlyTheRightChip'
    BY <1>1, <2>2, ChipStepSafe DEF IInv
  <2>7. \A i \in Rows : (DoneRow(i)' <=> i <= tool.row) /\ (RightRow(i)' <=> RightRow(i))
    <3>1. \A i \in Rows : DoneRow(i)' <=> i <= tool.row
      BY <1>1, <2>2 DEF DoneRow, Rows
    <3>2. \A i \in Rows : RightRow(i)' <=> RightRow(i)
      BY <1>3, <1>4 DEF RightRow
    <3> QED BY <3>1, <3>2
  <2>8. Reported'
    <3>1. ASSUME NEW n \in 1 .. Len(tool.found) PROVE \E i \in Rows : ReportedBy(n, i)'
      <4>1. PICK i \in Rows : ReportedBy(n, i)
        BY <1>2
      <4>2. i <= tool.row
        BY <1>1, <4>1 DEF ReportedBy, DoneRow, Rows
      <4> QED BY <2>2, <2>7, <4>1, <4>2 DEF ReportedBy
    <3>2. ASSUME NEW i \in Rows, DoneRow(i)', RightRow(i)', allchips[i].family \in tool'.args
          PROVE  IsReported(i)'
      <4>1. IsReported(i)
        BY <1>5, <2>2, <2>7, <3>2
      <4> QED BY <2>2, <4>1 DEF IsReported
    <3> QED BY <1>2, <2>2, <3>1, <3>2 DEF Reported
  <2> QED BY <1>1, <2>2, <2>3, <2>4, <2>5, <2>6, <2>8, NotAtRest DEF IInv
<1>8. CASE ~(tool.row < 22)
  <2>1. End("ok") /\ tool.row = 22
    BY <1>1, <1>6, <1>8 DEF NextRow, Rows
  <2>2. /\ tool' = Idle /\ tool'.name = "none" /\ tool' \in Tool'
        /\ last'.name = "findchip" /\ last'.result = "ok"
        /\ last'.args = tool.args /\ last'.found = tool.found
    BY <1>1, <2>1, EndIs
  <2>3. TypeOK'
    BY <2>2 DEF IInv, TypeOK, ChipStep
  <2>4. SameChips' /\ OnlyTheRightChip'
    BY <1>1, <2>2, ChipStepSafe DEF IInv
  <2>5. LeavesConfigState' /\ SuccessIsUsable'
    BY <2>2 DEF LeavesConfigState, ChipStep, SuccessIsUsable
  <2>6. ASSUME NEW n \in 1 .. Len(tool.found)
        PROVE  tool.found[n].model = chips'[tool.found[n].base].model
    <3>1. PICK i \in Rows : ReportedBy(n, i)
      BY <1>2
    <3> QED BY <1>3, <1>4, <3>1 DEF ReportedBy, RightRow
  <2>7. ASSUME NEW b \in Ports, NEW k \in Rows, Knows(allchips[k], b)'
        PROVE  \/ \E n \in Reports(b)' : Reports(b)' = {n}
               \/ /\ Reports(b)' = {} /\ allchips[k].family # "NSC"
                  /\ \E n \in 1 .. Len(tool.found) :
                       tool.found[n].family = allchips[k].family /\ tool.found[n].fir
    <3>1. allchips[k].base = b /\ allchips[k].model = chips[b].model /\ allchips[k].family \in tool.args
      BY <1>4, <2>2, <2>7 DEF Knows
    <3>2. PICK i \in Rows : /\ i # 21
                            /\ allchips[i].base = allchips[k].base
                            /\ allchips[i].model = allchips[k].model
                            /\ allchips[i].family = allchips[k].family
      <4>1. /\ allchips[22].base = allchips[21].base /\ allchips[22].model = allchips[21].model
            /\ allchips[22].family = allchips[21].family /\ 22 \in Rows
        BY RowsAre DEF Efer, Rows
      <4> QED BY <4>1
    <3>3. IsReported(i)
      BY <1>5, <2>1, <3>1, <3>2 DEF RightRow, Rows
    <3>4. Reports(b)' = {n \in 1 .. Len(tool.found) : tool.found[n].base = b}
      BY <2>2 DEF Reports
    <3>5. CASE \E n \in 1 .. Len(tool.found) : tool.found[n].base = b
      <4>1. PICK n \in 1 .. Len(tool.found) : tool.found[n].base = b
        BY <3>5
      <4>2. Reports(b)' = {n}
        BY <1>2, <3>4, <4>1
      <4> QED BY <4>2
    <3>6. CASE ~\E n \in 1 .. Len(tool.found) : tool.found[n].base = b
      BY <3>1, <3>2, <3>3, <3>4, <3>6 DEF IsReported
    <3> QED BY <3>5, <3>6
  <2>8. FoundIsThere'
    <3>1. 1 .. Len(allchips) = Rows
      BY <1>6 DEF Rows
    <3> QED BY <2>2, <2>6, <2>7, <3>1 DEF FoundIsThere
  <2> QED BY <2>2, <2>3, <2>4, <2>5, <2>8, NowAtRest DEF IInv
<1> QED BY <1>7, <1>8

LEMMA SkipRowStep ==
  ASSUME IInv, SkipRow
  PROVE  IInv'
<1>1. tool.step = "row" /\ Skipped /\ NextRow /\ UNCHANGED <<chips, bridge, before>>
  BY DEF SkipRow
<1>2. /\ tool.name = "findchip" /\ tool.row \in Rows /\ ~AtRest /\ ~Wakes
  BY <1>1, FindchipAt
<1>3. ChipStep
  BY <1>1, ChipsKept DEF IInv
<1>4. \A b \in Ports : chips'[b].open => before[b].open
  BY <1>1, <1>2 DEF IInv, OpenedByTool, MayBeOpen
<1>5. RightRow(tool.row) /\ Row.family \in tool.args => IsReported(tool.row)
  BY <1>1 DEF Skipped, IsReported, Row
<1> QED BY <1>1, <1>3, <1>4, <1>5, NextRowStep

LEMMA DisconfStep ==
  ASSUME IInv, Disconf
  PROVE  IInv'
<1>. DEFINE b == Row.base
            c == Leave(chips[b], Row.exit)
<1>1. tool.step = "exit" /\ chips' = [chips EXCEPT ![b] = c] /\ NextRow /\ UNCHANGED <<bridge, before>>
  BY DEF Disconf
<1>2. /\ tool.name = "findchip" /\ tool.row \in Rows /\ ~AtRest /\ ~Wakes
      /\ b \in Ports /\ chips[b] \in Chip
  BY <1>1, FindchipAt
<1>3. /\ c \in Chip /\ c.model = chips[b].model /\ c.reg = chips[b].reg
      /\ c.open <=> chips[b].open /\ Kind[chips[b].model].exit # Row.exit
  BY <1>2, LeaveChip
<1>4. Row.exit \in {0, \haa}
  BY <1>2, RowType DEF Row
<1>5. chips[b].model = "pc338" => c.open
  <2>1. Kind["pc338"].exit = 256
    BY DEF Kind
  <2> QED BY <1>2, <1>3, <1>4, <2>1 DEF IInv, SameChips
<1>. HIDE DEF c
<1>6. ChipStep
  BY <1>1, <1>2, <1>3, <1>5, OneChip DEF IInv
<1>7. chips'[b] = c /\ \A d \in Ports : d # b => chips'[d] = chips[d]
  BY <1>1, <1>2 DEF IInv, TypeOK
<1>8. ASSUME NEW d \in Ports, chips'[d].open PROVE before[d].open
  <2>1. chips[d].open /\ (d = b => Kind[chips[b].model].exit # Row.exit)
    BY <1>3, <1>7, <1>8
  <2>2. ~MayBeOpen(d)
    BY <1>1, <1>2, <2>1 DEF MayBeOpen
  <2> QED BY <1>2, <2>1, <2>2 DEF IInv, OpenedByTool
<1>9. RightRow(tool.row) /\ Row.family \in tool.args => IsReported(tool.row)
  BY <1>1, <1>2 DEF IInv, Reported, DoneRow, Row
<1> QED BY <1>1, <1>6, <1>8, <1>9, NextRowStep
(* A row that is tried: the chip it is for is reported, no other is.       *)
LEMMA RowModelsAre ==
  RowModels = {"smc669", "smc669fr", "smc869", "smc93x", "smc957", "smc958", "pc108", "pc338",
               "w977", "w877"}
<1>. DEFINE names == {"smc669", "smc669fr", "smc869", "smc93x", "smc957", "smc958", "pc108", "pc338",
                      "w977", "w877"}
<1>1. \A i \in Rows : allchips[i].model \in names
  BY RowsAre, RowNumbers DEF SmcRow, Nsc, Efer
<1>2. {1, 3, 5, 7, 9, 11, 13, 16, 19, 21} \subseteq Rows
  BY DEF Rows
<1>3. /\ allchips[1].model = "smc669" /\ allchips[3].model = "smc669fr"
      /\ allchips[5].model = "smc869" /\ allchips[7].model = "smc93x"
      /\ allchips[9].model = "smc957" /\ allchips[11].model = "smc958"
      /\ allchips[13].model = "pc108" /\ allchips[16].model = "pc338"
      /\ allchips[19].model = "w977" /\ allchips[21].model = "w877"
  BY RowsAre DEF SmcRow, Nsc, Efer
<1> QED BY <1>1, <1>2, <1>3 DEF RowModels

LEMMA IdentifyStep ==
  ASSUME IInv, Identify
  PROVE  IInv'
<1>. DEFINE b == Row.base
            i == tool.row
            c == Enter(chips[b])
            right == (Row.family = "NSC" => c.open) /\ Answers(c)
            fir == Row.family # "SMC" \/ c.reg[\h2b] # {}
            seen == IF Row.ldn # 0 THEN Write(c, \h07, Byte(Row.ldn)) ELSE c
            d == IF right THEN [seen EXCEPT !.bank = IF Row.family = "SMC" /\ fir THEN 3 ELSE @] ELSE c
            e == [family |-> Row.family, model |-> Row.model, base |-> b, fir |-> fir]
            N == Len(tool.found)
<1>1. /\ tool.step = "row" /\ chips' = [chips EXCEPT ![b] = d]
      /\ UNCHANGED <<bridge, before, last>>
      /\ tool' = [tool EXCEPT !.step = "exit",
                              !.found = IF right THEN Append(tool.found, e) ELSE tool.found]
  BY DEF Identify
<1>2. /\ tool.name = "findchip" /\ tool.args \subseteq Families /\ i \in Rows
      /\ tool \in Tool /\ ~AtRest /\ ~Wakes
      /\ b \in Ports /\ chips[b] \in Chip
  BY <1>1, FindchipAt
<1>3. /\ Row.family \in Families /\ Row.model \in RowModels
      /\ Row.knocks \in Nat
      /\ IF Row.family = "NSC" THEN Row.key = 0 /\ Row.knocks = 0 /\ Row.exit = 0
         ELSE Row.key \in {\h55, \h86, \h87} /\ Row.knocks \in {1, 2} /\ Row.exit = \haa
      /\ Row.ldn # 0 => Row.model \notin {"smc669", "smc869", "w877", "pc338"}
  BY <1>2, RowType DEF Row
<1>4. chips[b].model \in Models
  BY <1>2 DEF Chip
<1>5. /\ c \in Chip /\ c.model = chips[b].model /\ c.reg = chips[b].reg
      /\ chips[b].open => c.open
      /\ c.open => \/ chips[b].open
                   \/ Kind[chips[b].model].key = Row.key /\ Row.knocks >= Kind[chips[b].model].knocks
      /\ Kind[chips[b].model].key = Row.key /\ Row.knocks >= Kind[chips[b].model].knocks => c.open
  BY <1>2, <1>3, KnockChip DEF Enter
<1>6. /\ chips[b].model = "w977" => b = \h3f0
      /\ chips[b].model = "pc338" => chips[b].open
  BY <1>2 DEF IInv, SameChips
<1>. HIDE DEF c
<1>7. i # 21 /\ c.model = Row.model => c.open
  <2>1. CASE c.model = "pc338"
    BY <1>5, <1>6, <2>1
  <2>2. CASE c.model # "pc338"
    BY <1>2, <1>4, <1>5, <2>2, RowOpens DEF Row
  <2> QED BY <2>1, <2>2
<1>8. right <=> RightRow(i)
  <2>1. Identifies(Row, c) <=> i # 21 /\ c.model = Row.model
    BY <1>2, <1>5, <1>6, <1>7, Recognises DEF Row
  <2>2. right <=> Identifies(Row, c)
    BY DEF Answers, Identifies
  <2> QED BY <1>5, <2>1, <2>2 DEF RightRow, Row
<1>. HIDE DEF right
<1>9. right => c.open /\ c.model = Row.model
  BY <1>5, <1>7, <1>8 DEF RightRow, Row
<1>10. right => /\ seen \in Chip /\ seen.model = c.model /\ seen.open = c.open
                /\ \A r \in Regs : seen.reg[r] # c.reg[r] =>
                                     r = \h07 /\ c.model \in {"smc958", "w977"}
  <2>1. CASE right /\ Row.ldn # 0
    <3>1. seen = Write(c, \h07, Byte(Row.ldn)) /\ \h07 \in Regs /\ Byte(Row.ldn) \in SUBSET AllOnes
      BY <2>1, ByteType DEF Regs, AllOnes
    <3>2. c.model \in {"smc958", "w977"}
      BY <1>3, <1>4, <1>5, <1>9, <2>1, RowModelsAre, Keys
    <3>3. c.open \in BOOLEAN /\ c.open
      BY <1>5, <1>9, <2>1 DEF Chip
    <3>. HIDE DEF seen
    <3>4. seen \in Chip /\ seen.model = c.model /\ seen.open
          /\ \A r \in Regs : r # \h07 => seen.reg[r] = c.reg[r]
      BY <1>5, <3>1, <3>3, WriteChip
    <3>5. seen.open \in BOOLEAN
      BY <3>4 DEF Chip
    <3> QED BY <3>2, <3>3, <3>4, <3>5
  <2>2. CASE right /\ ~(Row.ldn # 0)
    BY <1>5, <2>2
  <2> QED BY <2>1, <2>2
<1>. HIDE DEF seen
<1>11. /\ d \in Chip /\ d.model = c.model /\ d.open = c.open
       /\ \A r \in Regs : d.reg[r] # c.reg[r] => r = \h07 /\ c.model \in {"smc958", "w977"}
  <2>1. CASE right
    BY <1>10, <2>1 DEF Chip
  <2>2. CASE ~right
    BY <1>5, <2>2
  <2> QED BY <2>1, <2>2
<1>. HIDE DEF d
<1>12. ChipStep
  <2>1. chips[b].model = "pc338" => d.open
    BY <1>5, <1>6, <1>11
  <2>2. \A r \in Regs : d.reg[r] # chips[b].reg[r] => Entitled(tool.name, b, r)
    BY <1>2, <1>5, <1>11 DEF Entitled
  <2>3. d \in Chip /\ d.model = chips[b].model /\ before' = before
        /\ chips' = [chips EXCEPT ![b] = d]
    BY <1>1, <1>5, <1>11
  <2>4. TypeOK /\ SameChips /\ b \in Ports
    BY <1>2 DEF IInv
  <2> QED BY <2>1, <2>2, <2>3, <2>4, OneChip
<1>13. chips'[b] = d /\ \A a \in Ports : a # b => chips'[a] = chips[a]
  BY <1>1, <1>2 DEF IInv, TypeOK
<1>14. e \in Entry /\ e.base = b /\ e.model = Row.model
  BY <1>2, <1>3 DEF Entry
<1>. HIDE DEF e
<1>15. tool.found \in Seq(Entry) /\ N \in Nat
  BY <1>2 DEF Tool
<1>16. /\ tool'.name = "findchip" /\ tool'.step = "exit" /\ tool'.row = i /\ tool'.args = tool.args
       /\ tool'.found = IF right THEN Append(tool.found, e) ELSE tool.found
  BY <1>1, <1>2 DEF Tool
<1>17. tool' \in Tool'
  <2>1. tool'.found \in Seq(Entry)
    BY <1>14, <1>15, <1>16
  <2> QED BY <1>1, <1>2, <1>16, <2>1 DEF Tool
<1>18. TypeOK'
  BY <1>1, <1>12, <1>17 DEF IInv, TypeOK, ChipStep
<1>19. ToolAt' /\ Accepted' /\ Progress' /\ Untouched' /\ BridgeOpen'
  BY <1>2, <1>16 DEF ToolAt, Accepted, Progress, Untouched, BridgeOpen, Wakes
<1>20. SameChips' /\ OnlyTheRightChip'
  BY <1>2, <1>12, <1>16, ChipStepSafe DEF IInv
<1>21. OpenedByTool'
  <2>1. \A a \in Ports : chips[a].open => before[a].open
    BY <1>1, <1>2 DEF IInv, OpenedByTool, MayBeOpen
  <2>2. ASSUME NEW a \in Ports, chips'[a].open, ~before[a].open PROVE MayBeOpen(a)'
    <3>1. a = b /\ c.open /\ ~chips[b].open
      BY <1>11, <1>13, <2>1, <2>2
    <3>2. Kind[chips[b].model].key = Row.key /\ Row.knocks >= Kind[chips[b].model].knocks
      BY <1>5, <3>1
    <3>3. Row.family # "NSC"
      BY <1>3, <1>4, <3>2, Keys
    <3>4. Kind[chips[b].model].exit = Row.exit
      BY <1>3, <1>4, <3>2, <3>3, Keys
    <3>5. Row' = Row
      BY <1>16 DEF Row
    <3>6. chips'[b].model = chips[b].model
      BY <1>5, <1>11, <1>13
    <3> QED BY <1>16, <3>1, <3>4, <3>5, <3>6 DEF MayBeOpen
  <2> QED BY <1>1, <2>2 DEF OpenedByTool
<1>22. Reported'
  <2>1. /\ \A n \in 1 .. N : \E j \in Rows : ReportedBy(n, j)
        /\ \A m, n \in 1 .. N : tool.found[m].base = tool.found[n].base => m = n
        /\ \A j \in Rows :
             DoneRow(j) /\ RightRow(j) /\ allchips[j].family \in tool.args => IsReported(j)
    BY <1>2 DEF IInv, Reported
  <2>2. \A j \in Rows : (DoneRow(j) <=> j < i) /\ (DoneRow(j)' <=> (j < i \/ j = i))
    BY <1>1, <1>16 DEF DoneRow
  <2>3. \A j \in Rows : RightRow(j)' <=> RightRow(j)
    BY <1>12, RowType DEF RightRow, ChipStep
  <2>4. CASE right
    <3>1. /\ Len(tool'.found) = N + 1 /\ tool'.found[N + 1] = e
          /\ \A n \in 1 .. N : tool'.found[n] = tool.found[n]
      BY <1>15, <1>16, <2>4
    <3>2. \A n \in 1 .. N + 1 : n \in 1 .. N \/ n = N + 1
      BY <1>15
    <3>3. 1 .. N \subseteq 1 .. N + 1 /\ N + 1 \in 1 .. N + 1
      BY <1>15
    <3>4. ASSUME NEW n \in 1 .. N + 1 PROVE \E j \in Rows : ReportedBy(n, j)'
      <4>1. CASE n \in 1 .. N
        <5>1. PICK j \in Rows : ReportedBy(n, j)
          BY <2>1, <4>1
        <5> QED BY <2>2, <2>3, <3>1, <4>1, <5>1 DEF ReportedBy
      <4>2. CASE n = N + 1
        <5>1. PICK j \in Rows : j = i
          BY <1>2
        <5>2. RightRow(j)' /\ DoneRow(j)'
          BY <1>8, <2>2, <2>3, <2>4, <5>1
        <5>3. tool'.found[n].base = allchips[j].base /\ tool'.found[n].model = allchips[j].model
          BY <1>14, <3>1, <4>2, <5>1 DEF Row
        <5> QED BY <5>2, <5>3 DEF ReportedBy
      <4> QED BY <3>2, <4>1, <4>2
    <3>5. ASSUME NEW n \in 1 .. N PROVE tool.found[n].base # b
      <4>1. PICK j \in Rows : ReportedBy(n, j)
        BY <2>1
      <4>2. j < i /\ j # i
        <5>1. DoneRow(j)
          BY <4>1 DEF ReportedBy
        <5>2. j < i
          BY <2>2, <5>1
        <5> QED BY <1>2, <5>2 DEF Rows
      <4>3. SUFFICES ASSUME allchips[j].base = b PROVE FALSE
        BY <4>1 DEF ReportedBy
      <4>4. allchips[j].model = Row.model
        BY <1>8, <2>4, <4>1, <4>3 DEF ReportedBy, RightRow, Row
      <4> QED BY <1>2, <1>8, <2>4, <4>1, <4>2, <4>3, <4>4, RowsDiffer DEF ReportedBy, RightRow, Row
    <3>6. ASSUME NEW m \in 1 .. N + 1, NEW n \in 1 .. N + 1,
                 tool'.found[m].base = tool'.found[n].base
          PROVE  m = n
      BY <1>14, <2>1, <3>1, <3>2, <3>5, <3>6
    <3>7. ASSUME NEW j \in Rows, DoneRow(j)', RightRow(j)', allchips[j].family \in tool'.args
          PROVE  IsReported(j)'
      <4>1. CASE j < i
        <5>1. IsReported(j)
          BY <1>16, <2>1, <2>2, <2>3, <3>7, <4>1
        <5> QED BY <3>1, <3>3, <5>1 DEF IsReported
      <4>2. CASE j = i
        <5>1. tool'.found[N + 1].base = allchips[j].base
          BY <1>14, <3>1, <4>2 DEF Row
        <5> QED BY <3>1, <3>3, <5>1 DEF IsReported
      <4> QED BY <2>2, <3>7, <4>1, <4>2
    <3> QED BY <3>1, <3>4, <3>6, <3>7 DEF Reported
  <2>5. CASE ~right
    <3>1. tool'.found = tool.found
      BY <1>16, <2>5
    <3>2. ASSUME NEW n \in 1 .. N PROVE \E j \in Rows : ReportedBy(n, j)'
      <4>1. PICK j \in Rows : ReportedBy(n, j)
        BY <2>1
      <4> QED BY <2>2, <2>3, <3>1, <4>1 DEF ReportedBy
    <3>3. ASSUME NEW j \in Rows, DoneRow(j)', RightRow(j)', allchips[j].family \in tool'.args
          PROVE  IsReported(j)'
      <4>1. j < i
        BY <1>8, <2>2, <2>3, <2>5, <3>3
      <4>2. IsReported(j)
        BY <1>16, <2>1, <2>2, <2>3, <3>3, <4>1
      <4> QED BY <3>1, <4>2 DEF IsReported
    <3> QED BY <2>1, <3>1, <3>2, <3>3 DEF Reported
  <2> QED BY <2>4, <2>5
<1> QED BY <1>16, <1>17, <1>18, <1>19, <1>20, <1>21, <1>22, NotAtRest DEF IInv
-----------------------------------------------------------------------------
(* The theorems                                                            *)

LEMMA PowersUp ==
  ASSUME NEW model \in Models, NEW mode \in SUBSET AllOnes, NEW fir \in SUBSET AllOnes
  PROVE  LET c == PowerUp(model, mode, fir) IN
         c \in Chip /\ c.model = model /\ (c.open <=> model = "pc338")
<1>1. PowerUp(model, mode, fir).reg \in [Regs -> SUBSET AllOnes]
  BY DEF PowerUp
<1> QED BY <1>1 DEF PowerUp, Chip

LEMMA InitIInv ==
  ASSUME Init
  PROVE  IInv
<1>1. PICK board \in Boards, mode \in Powers, fir \in {{}, Byte(\h26)} :
        chips = [b \in Ports |-> IF b \in DOMAIN board THEN PowerUp(board[b], mode, fir)
                                 ELSE PowerUp("none", {}, {})]
  BY DEF Init
<1>2. PICK kind \in {"intel", "ali", "other"} :
        bridge = [kind |-> kind,
                  reg |-> [r \in {"COM_DEC", "LPC_EN", "PCI_DMA_C", "GEN2_DEC", "b0", "b4"} |->
                             IF r = "b4" THEN Byte(\h80) ELSE {}]]
  BY DEF Init
<1>3. tool = Idle /\ tool.name = "none" /\ before = chips /\ last.name = "none"
      /\ last.result = "none"
  BY DEF Init, Idle, NoResult
<1>4. ASSUME NEW b \in Ports
      PROVE  /\ chips[b] \in Chip
             /\ chips[b].model = "w977" => b = \h3f0
             /\ chips[b].model = "pc338" => chips[b].open
  <2>1. CASE b \in DOMAIN board
    <3>1. chips[b] = PowerUp(board[b], mode, fir)
      BY <1>1, <2>1
    <3>2. board[b] \in Models /\ (board[b] = "w977" => b = \h3f0)
      BY <2>1, BoardsAssumption DEF Models
    <3>3. mode \in SUBSET AllOnes /\ fir \in SUBSET AllOnes
      BY PowersAssumption, ByteType DEF AllOnes
    <3> QED BY <3>1, <3>2, <3>3, PowersUp
  <2>2. CASE b \notin DOMAIN board
    <3>1. chips[b] = PowerUp("none", {}, {})
      BY <1>1, <2>2
    <3>2. "none" \in Models
      BY Keys
    <3> QED BY <3>1, <3>2, PowersUp
  <2> QED BY <2>1, <2>2
<1>5. bridge \in [kind : {"intel", "ali", "other"}, reg : [BridgeRegs -> SUBSET (0 .. 15)]]
  <2>1. Byte(\h80) \in SUBSET (0 .. 15)
    BY ByteType
  <2> QED BY <1>2, <2>1 DEF BridgeRegs
<1>6. TypeOK
  <2>1. tool \in Tool
    <3>1. <<>> \in Seq(Entry)
      OBVIOUS
    <3> QED BY <1>3, <3>1 DEF Tool, Idle
  <2>2. chips \in [Ports -> Chip]
    BY <1>1, <1>4
  <2> QED BY <1>3, <1>5, <2>1, <2>2 DEF TypeOK
<1>7. ToolAt /\ Accepted /\ Progress /\ Untouched /\ BridgeOpen /\ OpenedByTool /\ Reported
  BY <1>3 DEF ToolAt, Accepted, Progress, Untouched, BridgeOpen, OpenedByTool, Reported, Wakes,
              AtRest
<1>8. SameChips /\ OnlyTheRightChip /\ LeavesConfigState
  BY <1>3, <1>4 DEF SameChips, OnlyTheRightChip, LeavesConfigState
<1>9. SuccessIsUsable /\ FoundIsThere
  BY <1>3 DEF SuccessIsUsable, FoundIsThere
<1> QED BY <1>6, <1>7, <1>8, <1>9 DEF IInv

LEMMA Stutter ==
  ASSUME IInv, UNCHANGED ioVars
  PROVE  IInv'
<1>1. /\ chips' = chips /\ bridge' = bridge /\ tool' = tool /\ before' = before /\ last' = last
  BY DEF ioVars
<1>2. TypeOK' /\ ToolAt' /\ SameChips' /\ Accepted'
  BY <1>1 DEF IInv, TypeOK, Tool, ToolAt, SameChips, Accepted, Wakes
<1>3. Progress' /\ Untouched' /\ BridgeOpen'
  BY <1>1 DEF IInv, Progress, Plan, Untouched, BridgeOpen, Wakes
<1>4. OpenedByTool'
  BY <1>1 DEF IInv, OpenedByTool, MayBeOpen, AtRest, Wakes, Row
<1>5. Reported'
  BY <1>1 DEF IInv, Reported, ReportedBy, IsReported, DoneRow, RightRow
<1>6. SuccessIsUsable'
  <2>1. AtRest' <=> AtRest
    BY <1>1 DEF AtRest
  <2>2. Asked' = Asked
    BY <1>1 DEF Asked
  <2>3. Decoded(Asked)' <=> Decoded(Asked)
    BY <1>1, <2>2 DEF Decoded
  <2>4. IrdaMode(chips[last.base], before[last.base])' <=> IrdaMode(chips[last.base], before[last.base])
    BY <1>1 DEF IrdaMode
  <2> QED BY <1>1, <2>1, <2>2, <2>3, <2>4 DEF IInv, SuccessIsUsable
<1>7. LeavesConfigState' /\ OnlyTheRightChip'
  BY <1>1 DEF IInv, LeavesConfigState, OnlyTheRightChip, AtRest
<1>8. FoundIsThere'
  BY <1>1 DEF IInv, FoundIsThere, AtRest, Reports, Knows
<1> QED BY <1>2, <1>3, <1>4, <1>5, <1>6, <1>7, <1>8 DEF IInv

(* The invariant holds in every state of every order of the tools: where   *)
(* each may be, the registers its plan has written so far, the chips it    *)
(* has opened and what findchip has reported after the rows it has done.   *)
THEOREM Inductive == Spec => []IInv
<1>1. Init => IInv
  BY InitIInv
<1>2. ASSUME IInv, [Next]_ioVars PROVE IInv'
  <2>1. CASE StartSmcinit \/ StartTosh2450 \/ StartTosh1800 \/ StartFindchip
    BY <1>2, <2>1, StartsStep
  <2>2. CASE unbind_from_serial
    BY <1>2, <2>2, UnbindStep
  <2>3. CASE SmcinitBridge \/ Tosh2450Bridge
    BY <1>2, <2>3, BridgeStep
  <2>4. CASE Probe
    BY <1>2, <2>4, ProbeStep
  <2>5. CASE Program
    BY <1>2, <2>5, ProgramStep
  <2>6. CASE LeaveConfig
    BY <1>2, <2>6, LeaveStep
  <2>7. CASE AliBridge
    BY <1>2, <2>7, AliStep
  <2>8. CASE Identify
    BY <1>2, <2>8, IdentifyStep
  <2>9. CASE Disconf
    BY <1>2, <2>9, DisconfStep
  <2>10. CASE SkipRow
    BY <1>2, <2>10, SkipRowStep
  <2>11. CASE Kill
    BY <1>2, <2>11, KillStep
  <2>12. CASE UNCHANGED ioVars
    BY <1>2, <2>12, Stutter
  <2> QED BY <1>2, <2>1, <2>2, <2>3, <2>4, <2>5, <2>6, <2>7, <2>8, <2>9, <2>10, <2>11, <2>12
          DEF Next, SmcStep, FindchipStep
<1> QED BY <1>1, <1>2, PTL DEF Spec

(* A tool of smcinit/ that exits with 0 has set the ports, the interrupt,  *)
(* the DMA channel and the mode of the right chip, and the bridge, from    *)
(* whatever state an earlier tool, killed or not, left them in.            *)
THEOREM SuccessUsable == Spec => []SuccessIsUsable
<1>1. IInv => SuccessIsUsable
  BY DEF IInv
<1> QED BY <1>1, Inductive, PTL

(* A chip is left in configuration state only by a tool that was killed,   *)
(* by an Intel tool that gave up and by smcinit on its way to 0x4e.        *)
THEOREM ConfigStateLeft == Spec => []LeavesConfigState
<1>1. IInv => LeavesConfigState
  BY DEF IInv
<1> QED BY <1>1, Inductive, PTL

(* No tool writes a register of a chip that is not the one it is for.      *)
THEOREM RightChipOnly == Spec => []OnlyTheRightChip
<1>1. IInv => OnlyTheRightChip
  BY DEF IInv
<1> QED BY <1>1, Inductive, PTL

(* findchip reports the chips it knows, once and by their names.           *)
THEOREM FoundThere == Spec => []FoundIsThere
<1>1. IInv => FoundIsThere
  BY DEF IInv
<1> QED BY <1>1, Inductive, PTL

=============================================================================
