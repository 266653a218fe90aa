---------------------------- MODULE MCIrdaSetup ----------------------------
(***************************************************************************)
(* IrdaSetup on boards with one or two chips.                              *)
(***************************************************************************)
EXTENDS IrdaSetup, TLC

MCBoards ==
  { (\h2e :> "smc227"), (\h2e :> "smc252"), (\h4e :> "smc252"), (\h2e :> "smcNew" @@ \h4e :> "smc227"),
    (\h2e :> "smcNew"), (\h3f0 :> "smc669" @@ \h370 :> "smc869"), (\h370 :> "smc958" @@ \h3f0 :> "smcNew"),
    (\h3f0 :> "w977"), (\h3f0 :> "w877" @@ \h2e :> "pc338") }

MCPowers == {{}, Byte(\h08), Byte(\h10)}

MCSmcArgs ==
  { [sir |-> \h3f8, fir |-> \h130, irq |-> 3, dma |-> 1, tty |-> TRUE],
    [sir |-> \h4f8, fir |-> \h130, irq |-> 3, dma |-> 3, tty |-> FALSE],
    [sir |-> \h3f8, fir |-> \h130, irq |-> 3, dma |-> \h13, tty |-> FALSE] }

MCToshArgs ==
  { [sir |-> \h2e8, fir |-> \h2f8, irq |-> 7, dma |-> 3, decode |-> "set", chip |-> TRUE],
    [sir |-> \h3f8, fir |-> \h130, irq |-> 7, dma |-> 3, decode |-> "skip", chip |-> TRUE],
    [sir |-> \h2e8, fir |-> \h2f8, irq |-> 7, dma |-> 3, decode |-> "print", chip |-> TRUE],
    [sir |-> \h2e8, fir |-> \h2f8, irq |-> 7, dma |-> 3, decode |-> "set", chip |-> FALSE] }
=============================================================================
