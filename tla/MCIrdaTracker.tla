--------------------------- MODULE MCIrdaTracker ---------------------------
(***************************************************************************)
(* IrdaTracker with two services that have the same selectors on the two   *)
(* sides, the other way round.                                             *)
(***************************************************************************)
EXTENDS IrdaTracker, TLC

MCSlots == 1 .. 3

MCLsap ==
  [self |-> [obex |-> 1, ircomm |-> 2], peer |-> [obex |-> 2, ircomm |-> 1]]

NamesAlike == Permutations(Caddrs) \union Permutations(Clients)
=============================================================================
