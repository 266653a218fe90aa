SPECIFICATION Spec
CONSTANTS
  Slots <- MCSlots
  Caddrs = {a1, a2}
  Clients = {c1, c2}
  Services = {"obex", "ircomm"}
  Lsap <- MCLsap
  MaxConnects = 3
SYMMETRY NamesAlike
INVARIANTS  ZombiesEndWithLink EntryPerConnection
