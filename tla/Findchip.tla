------------------------------ MODULE Findchip ------------------------------
(***************************************************************************)
(* findchip: every probe of every chip family writes the key of a chip to  *)
(* the ports where it may be, reads its identification, prints what it     *)
(* finds and writes the exit key.                                          *)
(*                                                                         *)
(* A definition followed by one it differs from in one place is a faulty   *)
(* variant of it, used only to see the properties fail.                    *)
(***************************************************************************)
EXTENDS SuperIo

(* A register of the chip and the bits of it that must have a value.       *)
Test(reg, mask, value) == [reg |-> reg, mask |-> Byte(mask), value |-> Byte(value)]

(* One row per chip and base.  ldn is the logical device its probe selects *)
(* (register 7), or 0.                                                     *)
SmcRow(model, base, knocks, reg, id, ldn) ==
  [family |-> "SMC", model |-> model, base |-> base, key |-> \h55, knocks |-> knocks,
   tests |-> {Test(reg, \hff, id)}, exit |-> \haa, ldn |-> ldn]

Smc(model, knocks, reg, id, ldn) ==
  <<SmcRow(model, \h3f0, knocks, reg, id, ldn), SmcRow(model, \h370, knocks, reg, id, ldn)>>

smc_chips ==
  Smc("smc669", 2, \h0d, \h03, 0) \o Smc("smc669fr", 2, \h0d, \h04, 0)
  \o Smc("smc869", 1, \h0d, \h29, 0) \o Smc("smc93x", 2, \h20, \h03, 5)
  \o Smc("smc957", 2, \h20, \h07, 5) \o Smc("smc958", 2, \h20, \h09, 5)

Nsc(model, base, reg, id) ==
  [family |-> "NSC", model |-> model, base |-> base, key |-> 0, knocks |-> 0,
   tests |-> {Test(reg, \hf0, id)}, exit |-> 0, ldn |-> 0]

nsc_chips ==
  << Nsc("pc108", \h150, \h05, \h10), Nsc("pc108", \h398, \h05, \h10),
     Nsc("pc108", \hea, \h05, \h10), Nsc("pc338", \h398, \h08, \hb0),
     Nsc("pc338", \h15c, \h08, \hb0), Nsc("pc338", \h2e, \h08, \hb0) >>

(* The W83977 sits where HEFRAS says; the key of a W83877 depends on       *)
(* HEFRAS and HEFERE.  One revision stands for those the table of chips    *)
(* knows; the rows at 0x250, whose index port is another one, are left out.*)
Efer(model, base, key, knocks, tests, ldn) ==
  [family |-> "WINBOND", model |-> model, base |-> base, key |-> key,
   knocks |-> knocks, tests |-> tests, exit |-> \haa, ldn |-> ldn]

w977_revision == \h74
w877_revision == \h0d

W977(hefras) ==
  {Test(\h26, \h40, hefras), Test(\h20, \hff, \h97), Test(\h21, \hff, w977_revision)}
W877(hefere) ==
  {Test(\h16, 1, 1), Test(\h0c, \h20, hefere), Test(\h09, \h0f, w877_revision)}

efers ==
  << Efer("w977", \h3f0, \h87, 2, W977(0), 6), Efer("w977", \h370, \h87, 2, W977(\h40), 6),
     Efer("w877", \h3f0, \h86, 2, W877(0), 0), Efer("w877", \h3f0, \h87, 2, W877(\h20), 0) >>

allchips == smc_chips \o nsc_chips \o efers

Row == allchips[tool.row]

(* argv names one family, or none for all of them.                         *)
StartFindchip ==
  \E families \in {{"SMC"}, {"NSC"}, {"WINBOND"}, {"SMC", "NSC", "WINBOND"}} :
    Start("findchip", "row", families)

(* A family is left out, or stops probing once it has found a chip (SMC: a *)
(* chip whose FIR port is set).                                            *)
Skipped ==
  \/ Row.family \notin tool.args
  \/ /\ Row.family \in {"SMC", "WINBOND"}
     /\ \E n \in 1 .. Len(tool.found) : tool.found[n].family = Row.family /\ tool.found[n].fir

Enter_Once(c) == Knock(c, Row.key, 1)

Enter(c) == Knock(c, Row.key, Row.knocks)

(* No key for the chips of NSC: a port that reads as all ones is passed    *)
(* over.                                                                   *)
Answers(c) == \A t \in Row.tests : Read(c, t.reg) \intersect t.mask = t.value

(* Knock, identify, and with the right chip select its logical device and, *)
(* for SMC, bank 3 of the FIR controller before its version is read.       *)
(* Register 0x2b stands for the FIR base of the chips with logical devices *)
(* too (0x62 and 0x63 there).                                              *)
Identify ==
  LET c     == Enter(chips[Row.base])
      right == (Row.family = "NSC" => c.open) /\ Answers(c)
      fir   == Row.family # "SMC" \/ c.reg[\h2b] # {}
      seen  == IF Row.ldn # 0 THEN Write(c, \h07, Byte(Row.ldn)) ELSE c
  IN
  /\ tool.step = "row" /\ ~Skipped
  /\ chips' = [chips EXCEPT ![Row.base] =
       IF right THEN [seen EXCEPT !.bank = IF Row.family = "SMC" /\ fir THEN 3 ELSE @] ELSE c]
  /\ tool' = [tool EXCEPT !.step = "exit",
       !.found = IF right THEN Append(@, [family |-> Row.family, model |-> Row.model,
                                          base |-> Row.base, fir |-> fir]) ELSE @]
  /\ UNCHANGED <<bridge, serial, before, last>>

NextRow ==
  IF tool.row < Len(allchips) THEN Goto("row", tool.row + 1) /\ UNCHANGED last ELSE End("ok")

Disconf_IfFound ==
  /\ tool.step = "exit"
  /\ chips' = [chips EXCEPT ![Row.base] =
       IF tool.found # <<>> THEN Leave(@, Row.exit) ELSE @]
  /\ NextRow
  /\ UNCHANGED <<bridge, serial, before>>

(* The exit key is written whether or not the chip was the right one.      *)
Disconf ==
  /\ tool.step = "exit"
  /\ chips' = [chips EXCEPT ![Row.base] = Leave(@, Row.exit)]
  /\ NextRow
  /\ UNCHANGED <<bridge, serial, before>>

SkipRow ==
  /\ tool.step = "row" /\ Skipped
  /\ NextRow
  /\ UNCHANGED <<chips, bridge, serial, before>>

FindchipStep == StartFindchip \/ Identify \/ Disconf \/ SkipRow
=============================================================================
