----------------------------- MODULE MCIrcardTx -----------------------------
(***************************************************************************)
(* IrcardTx on two frames of different length.                             *)
(***************************************************************************)
EXTENDS IrcardTx

CONSTANTS f1, f2

MCFrames == {f1, f2}
MCSize   == [f \in MCFrames |-> IF f = f1 THEN 1 ELSE 2]

\* liveness: one frame of one unit
MCOneFrame == {f1}
MCOneSize  == [f \in MCOneFrame |-> 1]
=============================================================================
