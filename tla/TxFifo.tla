------------------------------- MODULE TxFifo -------------------------------
(***************************************************************************)
(* What the FIR transmit path promises the stack: while the channel is     *)
(* open, accepted frames go over the air one at a time and in the order in *)
(* which they were accepted, each at most once and unaltered; a frame may  *)
(* be lost on the air (FIFO underrun), and closing the channel (a speed    *)
(* change to SIR, a reset or the removal of the card) drops what is queued.*)
(***************************************************************************)
EXTENDS Sequences

CONSTANTS Frames, None

VARIABLES
  open,  \* the channel carries FIR frames
  fifo,  \* frames accepted and not yet retired
  sent,  \* the head has been over the air
  out    \* the last frame that went over the air

vars == <<open, fifo, sent, out>>

Init == open = FALSE /\ fifo = <<>> /\ sent = FALSE /\ out = None

Accept(f) ==
  /\ open
  /\ fifo' = Append(fifo, f)
  /\ UNCHANGED <<open, sent, out>>

Send ==
  /\ open /\ fifo # <<>> /\ ~sent
  /\ sent' = TRUE
  /\ out' \in {Head(fifo), out}
  /\ UNCHANGED <<open, fifo>>

Retire ==
  /\ sent
  /\ sent' = FALSE
  /\ fifo' = Tail(fifo)
  /\ UNCHANGED <<open, out>>

Open ==
  /\ ~open
  /\ open' = TRUE
  /\ UNCHANGED <<fifo, sent, out>>

Close ==
  /\ open
  /\ open' = FALSE /\ fifo' = <<>> /\ sent' = FALSE
  /\ UNCHANGED out

Next == (\E f \in Frames : Accept(f)) \/ Send \/ Retire \/ Open \/ Close

Spec     == Init /\ [][Next]_vars
FairSpec == Spec /\ WF_vars(Send) /\ WF_vars(Retire)
=============================================================================
