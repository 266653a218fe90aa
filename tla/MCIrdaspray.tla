---------------------------- MODULE MCIrdaspray ----------------------------
(***************************************************************************)
(* Irdaspray with every choice of the options.  One instance sends more    *)
(* frames than both directions and the child of the server can hold; two   *)
(* at a time send fewer.                                                   *)
(***************************************************************************)
EXTENDS Irdaspray

MCOptions ==
  {[echo |-> e, two |-> t, frame_number |-> IF t THEN 2 ELSE 4] : e, t \in BOOLEAN}
=============================================================================
