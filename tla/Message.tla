------------------------------- MODULE Message -------------------------------
(***************************************************************************)
(* What a network buffer promises its callers: a sequence of bytes that    *)
(* grows and shrinks at its two ends.  One operation changes one end, and  *)
(* no byte that stays in the message changes.                              *)
(***************************************************************************)
EXTENDS Naturals, Sequences

CONSTANT Byte

VARIABLE msg

StartsWith(s, t) == Len(t) <= Len(s) /\ \A i \in 1 .. Len(t) : s[i] = t[i]
EndsWith(s, t)   == /\ Len(t) <= Len(s)
                    /\ \A i \in 1 .. Len(t) : s[Len(s) - Len(t) + i] = t[i]

Init == msg = <<>>

Append_   == StartsWith(msg', msg)
Prepend   == EndsWith(msg', msg)
DropFront == EndsWith(msg, msg')
DropBack  == StartsWith(msg, msg')

Next == msg' \in Seq(Byte) /\ (Append_ \/ Prepend \/ DropFront \/ DropBack)

Spec == Init /\ [][Next]_msg
=============================================================================
