------------------------------ MODULE SuperIo ------------------------------
(***************************************************************************)
(* What the configuration tools of smcinit/ and findchip/ work on: Super-IO *)
(* chips behind a pair of ports (index and data), the bridge that decodes  *)
(* the ports of the infrared controller, and the tool that runs.  Chips    *)
(* and bridges are external; they are modelled as the tools use them.      *)
(*                                                                         *)
(* A chip answers at its configuration ports only in configuration state,  *)
(* which a key written to the index port opens and an exit key closes; a   *)
(* port nobody answers reads as all ones.  A byte is the set of its bits.  *)
(***************************************************************************)
EXTENDS Integers, Sequences

VARIABLES
  chips,     \* the chip at each pair of configuration ports
  bridge,    \* the PCI-ISA bridge and its registers
  serial,    \* whether the serial driver owns the port ("bound", "unbound")
  tool,      \* the tool that runs, and how far it is
  before,    \* chips when that tool was started
  last       \* the last tool and how it ended: "ok", "failed", "killed"

ioVars == <<chips, bridge, serial, tool, before, last>>

Bits(n) == {b \in 0 .. 15 : (n \div 2^b) % 2 = 1}
Byte(n) == Bits(n) \intersect 0 .. 7
Low     == 0 .. 3                               \* mask 0x0f
AllOnes == 0 .. 7

(* The chips: the key that opens them and how often it is written, the key *)
(* that closes them, and the registers that identify them.                 *)
Kind ==
  [none    |-> [key |-> 0,    knocks |-> 9, exit |-> 256,    id |-> {}],
   smc227  |-> [key |-> \h55, knocks |-> 1, exit |-> \haa, id |-> {<<\h0d, \h5a>>}],
   smc252  |-> [key |-> \h55, knocks |-> 1, exit |-> \haa, id |-> {<<\h0d, \h7a>>}],
   smcNew  |-> [key |-> \h55, knocks |-> 1, exit |-> \haa, id |-> {<<\h0d, \h42>>}],
   smc669  |-> [key |-> \h55, knocks |-> 2, exit |-> \haa, id |-> {<<\h0d, \h03>>}],
   smc869  |-> [key |-> \h55, knocks |-> 1, exit |-> \haa, id |-> {<<\h0d, \h29>>}],
   smc958  |-> [key |-> \h55, knocks |-> 2, exit |-> \haa, id |-> {<<\h20, \h09>>}],
   w977    |-> [key |-> \h87, knocks |-> 2, exit |-> \haa,
                id |-> {<<\h26, 0>>, <<\h20, \h97>>, <<\h21, \h74>>}],
   w877    |-> [key |-> \h87, knocks |-> 2, exit |-> \haa,
                id |-> {<<\h16, \h01>>, <<\h0c, \h20>>, <<\h09, \h0d>>}],
   pc338   |-> [key |-> 0,    knocks |-> 9, exit |-> 256,    id |-> {<<\h08, \hb2>>}]]

(* The registers that the tools change.                                    *)
Regs == {\h00, \h02, \h07, \h0a, \h0c, \h24, \h25, \h28, \h2b, \h2c}

(* Register 0x2c of the 47N227 holds a DMA channel in its low four bits.   *)
Implemented(r) == IF r = \h2c THEN Low ELSE AllOnes

Knock(c, key, n) ==
  IF c.open \/ Kind[c.model].key # key \/ n < Kind[c.model].knocks
  THEN c ELSE [c EXCEPT !.open = TRUE]

Leave(c, key) ==
  IF c.open /\ Kind[c.model].exit = key THEN [c EXCEPT !.open = FALSE] ELSE c

Read(c, r) ==
  LET fixed == {p \in Kind[c.model].id : p[1] = r} IN
  CASE ~c.open                 -> AllOnes
    [] c.open /\ fixed # {}    -> Byte((CHOOSE p \in fixed : TRUE)[2])
    [] c.open /\ fixed = {}    -> IF r \in Regs THEN c.reg[r] ELSE {}

Write(c, r, v) ==
  IF c.open THEN [c EXCEPT !.reg[r] = v \intersect Implemented(r)] ELSE c

Idle == [name |-> "none", step |-> "none", row |-> 0, base |-> 0, args |-> {}, found |-> <<>>]

NoResult == [name |-> "none", result |-> "none", base |-> 0, args |-> {}, found |-> <<>>]

Start(name, step, args) ==
  /\ tool.name = "none"
  /\ tool' = [name |-> name, step |-> step, row |-> 1, base |-> 0,
              args |-> args, found |-> <<>>]
  /\ before' = chips
  /\ last' = NoResult
  /\ UNCHANGED <<chips, bridge, serial>>

Goto(step, row) == tool' = [tool EXCEPT !.step = step, !.row = row]

End(result) ==
  /\ tool' = Idle
  /\ last' = [name |-> tool.name, result |-> result, base |-> tool.base,
              args |-> tool.args, found |-> tool.found]

(* Nothing catches a signal: it ends the tool between two accesses.        *)
Kill ==
  /\ tool.name # "none"
  /\ End("killed")
  /\ UNCHANGED <<chips, bridge, serial, before>>
=============================================================================
