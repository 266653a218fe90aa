---------------------------- MODULE IrdaTracker ----------------------------
(***************************************************************************)
(* How irdadump follows IrLMP connections to know which protocol a frame   *)
(* carries: it overhears IAS lookups (last_ias), keeps a table of the      *)
(* connections whose CONNECT it has seen (conn) and remembers the entry of *)
(* the last frame (conn_cache).  The two stations it listens to are        *)
(* external; every action of theirs puts one frame on the air, maybe twice *)
(* (IrLAP retransmits), and irdadump parses it.  A link may also be lost,  *)
(* without a frame that says so.                                           *)
(*                                                                         *)
(* Entries hold the selector of this host first, whoever sent the frame.   *)
(* A definition followed by one it differs from in one place is a faulty   *)
(* variant of it, used only to see the properties fail.                    *)
(***************************************************************************)
EXTENDS Integers, FiniteSets

CONSTANTS
  Slots,         \* entries of the table: 1 .. MAX_CONNECTIONS
  Caddrs,        \* connection addresses of IrLAP
  Clients,       \* selectors a client may use
  Services,      \* protocols known by name: OBEX, IrCOMM, IrNET
  Lsap,          \* Lsap[side][service]: the selector of a service on a side
  MaxConnects    \* bound: connections opened in a behaviour

Sides    == {"self", "peer"}
Other(x) == IF x = "self" THEN "peer" ELSE "self"

LSAP_IAS == 0
LSAP_ANY == 255
NoSlot   == -1

(* A selector belongs to one socket of a station: to the information       *)
(* service, to one service or to a client; no socket has LSAP_ANY.         *)
ASSUME TrackerAssumption ==
  /\ Slots \subseteq Nat /\ IsFiniteSet(Slots) /\ 0 \notin Caddrs
  /\ "none" \notin Services /\ "ias" \notin Services
  /\ LSAP_IAS \notin Clients /\ LSAP_ANY \notin Clients
  /\ \A x \in Sides, s \in Services :
       /\ Lsap[x][s] \notin Clients \union {LSAP_IAS, LSAP_ANY}
       /\ \A t \in Services : Lsap[x][t] = Lsap[x][s] => t = s

VARIABLES
  last_ias,      \* [sel, svc] of the last lookup
  conn,          \* the table
  conn_cache,    \* entry of the last frame, or NoSlot
  lap,           \* external: address of the link that is up, or 0
  open,          \* external: the IrLMP connections on it
  asking,        \* external: the lookup a side waits for, or "none"
  asked,         \* whose lookup last_ias is, or "none" once two have mixed in it
  lost,          \* addresses of links that ended without a DISC
  connects,      \* external: connections opened so far
  orphans        \* selectors of which a DISCONNECT met twins

dumpVars == <<last_ias, conn, conn_cache>>
vars     == <<last_ias, conn, conn_cache, lap, open, asking, asked, lost,
              connects, orphans>>

Init ==
  /\ last_ias = [sel |-> LSAP_IAS, svc |-> "none"]
  /\ conn = [i \in Slots |-> [valid |-> FALSE, self |-> 0, peer |-> 0,
                              svc |-> "none", caddr |-> 0]]
  /\ conn_cache = NoSlot
  /\ lap = 0 /\ open = {} /\ lost = {} /\ orphans = {} /\ connects = 0
  /\ asking = [x \in Sides |-> "none"] /\ asked = "none"

-----------------------------------------------------------------------------
(* An IrLMP frame: who sends it and the two selectors it carries.          *)
Frame(by, slsap, dlsap) == [by |-> by, slsap |-> slsap, dlsap |-> dlsap]

Self(f) == IF f.by = "self" THEN f.slsap ELSE f.dlsap

Peer_Destination(f) == f.dlsap

Peer(f) == IF f.by = "self" THEN f.dlsap ELSE f.slsap

Matches(e, f) == e.self = Self(f) /\ e.peer = Peer(f)

First(S) == CHOOSE i \in S : \A j \in S : i <= j

(* The cached entry if its selectors match, else the first that does; that *)
(* an entry is not valid any more makes no difference.                     *)
find_connection(f) ==
  LET hits == {i \in Slots : Matches(conn[i], f)} IN
  IF conn_cache # NoSlot /\ conn_cache \in hits THEN conn_cache
  ELSE IF hits = {} THEN NoSlot ELSE First(hits)

Free == {i \in Slots : ~conn[i].valid}

(* CONNECT_CMD: a connection to the selector of the last lookup gets the   *)
(* first free entry.  Sent twice, it gets two.                             *)
Tracked(f) == f.dlsap = last_ias.sel /\ Free # {}

Entry(f) == [valid |-> TRUE, self |-> Self(f), peer |-> Peer(f),
             svc |-> last_ias.svc, caddr |-> lap]

connect_cmd(f, copies) ==
  /\ conn' = IF ~Tracked(f) THEN conn
             ELSE LET i    == First(Free)
                      more == Free \ {i}
                  IN  [j \in Slots |->
                        IF j = i \/ (copies = 2 /\ more # {} /\ j = First(more))
                        THEN Entry(f) ELSE conn[j]]
  /\ UNCHANGED <<last_ias, conn_cache>>

(* DISCONNECT; a second copy finds the same entry again.                   *)
disconnect(f) ==
  LET i == find_connection(f) IN
  /\ conn_cache' = i
  /\ conn' = IF i = NoSlot THEN conn ELSE [conn EXCEPT ![i].valid = FALSE]
  /\ UNCHANGED last_ias

(* CONNECT_RSP, and the data frames that are neither query nor answer: the *)
(* entry only says how the rest of the frame is printed.                   *)
lookup(f) ==
  /\ conn_cache' = find_connection(f)
  /\ UNCHANGED <<last_ias, conn>>

parse_iriap_command_KeepsSel(f, svc) ==
  /\ last_ias' = [sel |-> last_ias.sel, svc |-> svc]
  /\ conn_cache' = find_connection(f)
  /\ UNCHANGED conn

(* GET_VALUE_BY_CLASS: the names tell the protocol, the selector is not    *)
(* known before the answer.                                                *)
parse_iriap_command(f, svc) ==
  /\ last_ias' = [sel |-> LSAP_ANY, svc |-> svc]
  /\ conn_cache' = find_connection(f)
  /\ UNCHANGED conn

(* The answer: only an integer is a selector; an error, a string or the    *)
(* parameters of IrCOMM are not.                                           *)
parse_iriap_response(f, sel) ==
  /\ last_ias' = IF sel = LSAP_ANY THEN last_ias ELSE [last_ias EXCEPT !.sel = sel]
  /\ conn_cache' = find_connection(f)
  /\ UNCHANGED conn

garbage_connection_One(caddr) ==
  LET those == {i \in Slots : conn[i].valid /\ conn[i].caddr = caddr} IN
  /\ conn' = [i \in Slots |-> IF those # {} /\ i = First(those)
                              THEN [conn[i] EXCEPT !.valid = FALSE] ELSE conn[i]]
  /\ UNCHANGED <<last_ias, conn_cache>>

(* DISC of IrLAP ends all connections of that link.                        *)
garbage_connection(caddr) ==
  /\ conn' = [i \in Slots |-> IF conn[i].valid /\ conn[i].caddr = caddr
                              THEN [conn[i] EXCEPT !.valid = FALSE] ELSE conn[i]]
  /\ UNCHANGED <<last_ias, conn_cache>>

-----------------------------------------------------------------------------
(* The stations.  A connection is known by the side that opened it and its *)
(* selectors; "sure" records that irdadump gave it an entry while          *)
(* last_ias held a lookup of the side that opened it.                      *)
Busy(by, sel) == \E c \in open : c.by = by /\ c.slsap = sel

LinkUp ==
  /\ lap = 0
  /\ \E a \in Caddrs : lap' = a
  /\ UNCHANGED <<dumpVars, open, asking, asked, lost, connects, orphans>>

NoLink ==
  /\ lap' = 0 /\ open' = {}
  /\ asking' = [x \in Sides |-> "none"]
  /\ UNCHANGED <<asked, connects, orphans>>

Disc ==
  /\ lap # 0
  /\ garbage_connection(lap)
  /\ lost' = lost \ {lap}
  /\ NoLink

LinkLost ==
  /\ lap # 0
  /\ lost' = lost \union {lap}
  /\ NoLink
  /\ UNCHANGED dumpVars

(* svc is "ias" for a connection to the information service.               *)
Connect(by, sel, svc, copies) ==
  LET dst == IF svc = "ias" THEN LSAP_IAS ELSE Lsap[Other(by)][svc]
      f   == Frame(by, sel, dst)
  IN
  /\ lap # 0 /\ ~Busy(by, sel) /\ connects < MaxConnects
  /\ connects' = connects + 1
  /\ \A c \in open : ~(c.by = by /\ c.svc = svc)
  /\ connect_cmd(f, copies)
  /\ open' = open \union
       {[by |-> by, slsap |-> sel, dlsap |-> dst, svc |-> svc,
         sure |-> Tracked(f) /\ asked = by]}
  /\ UNCHANGED <<lap, asking, asked, lost, orphans>>

FrameOf(c, by) ==
  IF by = c.by THEN Frame(by, c.slsap, c.dlsap) ELSE Frame(by, c.dlsap, c.slsap)

(* Two entries have the same selectors: a retransmitted CONNECT, or a      *)
(* connection opened again while a dead entry still has its selectors.     *)
Twins(f) == \E i, j \in Slots : i # j /\ Matches(conn[i], f) /\ Matches(conn[j], f)

Pair(f) == <<Self(f), Peer(f)>>

ConnectRspOrData(c, by) ==
  /\ c.svc # "ias"
  /\ lookup(FrameOf(c, by))
  /\ UNCHANGED <<lap, open, asking, asked, lost, connects, orphans>>

Disconnect(c, by) ==
  /\ c.svc = "ias" => asking[c.by] = "none"
  /\ disconnect(FrameOf(c, by))
  /\ open' = open \ {c}
  /\ orphans' = IF Twins(FrameOf(c, by))
                THEN orphans \union {Pair(FrameOf(c, by))} ELSE orphans
  /\ UNCHANGED <<lap, asking, asked, lost, connects>>

Query(c, svc) ==
  /\ c.svc = "ias" /\ asking[c.by] = "none"
  /\ parse_iriap_command(FrameOf(c, c.by), svc)
  /\ asking' = [asking EXCEPT ![c.by] = svc]
  /\ asked' = c.by
  /\ UNCHANGED <<lap, open, lost, connects, orphans>>

Answer(c, success) ==
  /\ c.svc = "ias" /\ asking[c.by] # "none"
  /\ parse_iriap_response(FrameOf(c, Other(c.by)),
                          IF success THEN Lsap[Other(c.by)][asking[c.by]] ELSE LSAP_ANY)
  /\ asking' = [asking EXCEPT ![c.by] = "none"]
  /\ asked' = IF success /\ asked # c.by THEN "none" ELSE asked
  /\ UNCHANGED <<lap, open, lost, connects, orphans>>

Next ==
  \/ LinkUp \/ Disc \/ LinkLost
  \/ \E by \in Sides, sel \in Clients, svc \in Services \union {"ias"}, n \in 1 .. 2 :
       Connect(by, sel, svc, n)
  \/ \E c \in open, by \in Sides : ConnectRspOrData(c, by)
  \/ \E c \in open, by \in Sides : Disconnect(c, by)
  \/ \E c \in open, svc \in Services : Query(c, svc)
  \/ \E c \in open, ok \in BOOLEAN : Answer(c, ok)

Spec == Init /\ [][Next]_vars

-----------------------------------------------------------------------------
Selectors == {LSAP_IAS} \union Clients \union {Lsap[x][s] : x \in Sides, s \in Services}

TypeOK ==
  /\ last_ias \in [sel : Selectors \union {LSAP_ANY}, svc : Services \union {"none"}]
  /\ conn \in [Slots -> [valid : BOOLEAN, self : Selectors, peer : Selectors,
                         svc : Services \union {"none"}, caddr : Caddrs \union {0}]]
  /\ conn_cache \in Slots \union {NoSlot}
  /\ lap \in Caddrs \union {0} /\ lost \subseteq Caddrs

(* The frames of an open connection are printed as the protocol that was   *)
(* looked up for it, by the entry of its own link, however the frames of   *)
(* the two sides interleave; unless twins hide its entry.                  *)
DecodedAsLookedUp ==
  \A c \in open :
    LET f == FrameOf(c, c.by)
        i == find_connection(f)
    IN  c.sure /\ ~Twins(f) =>
          /\ i # NoSlot
          /\ conn[i].valid /\ conn[i].caddr = lap
          /\ conn[i].svc = c.svc \/ c.svc = "ias"

(* "LAP is closing, remove all zombies connections on this LAP": a valid   *)
(* entry belongs to the link that is up, or to one that was lost without a *)
(* DISC and whose address has not been used and closed since.              *)
ZombiesEndWithLink ==
  \A i \in Slots : conn[i].valid => conn[i].caddr \in lost \union ({lap} \ {0})

(* A valid entry stands for an open connection, except that of a link that *)
(* was lost and one whose selectors a DISCONNECT once found twice (it ends *)
(* only one of them): the 15 entries do not run out otherwise.             *)
EntryPerConnection ==
  \A i \in Slots : conn[i].valid =>
    \/ conn[i].caddr \in lost
    \/ <<conn[i].self, conn[i].peer>> \in orphans
    \/ \E c \in open : Matches(conn[i], FrameOf(c, c.by))

-----------------------------------------------------------------------------
(* What the properties rest on.  The stations keep the rules of IrLMP: an  *)
(* open connection is to the selector of its service, a side has one from  *)
(* each of its selectors, and none is left when the link goes.             *)
StationsOK ==
  /\ open \subseteq [by : Sides, slsap : Clients, dlsap : Selectors,
                     svc : Services \union {"ias"}, sure : BOOLEAN]
  /\ asking \in [Sides -> Services \union {"none"}] /\ asked \in Sides \union {"none"}
  /\ \A c \in open :
       /\ lap # 0
       /\ c.dlsap = IF c.svc = "ias" THEN LSAP_IAS ELSE Lsap[Other(c.by)][c.svc]
       /\ \A d \in open : d.by = c.by /\ d.slsap = c.slsap => d = c

(* While last_ias is one side's alone, it names what that side asked for,  *)
(* and the answer, once seen, is the selector of what it names.            *)
LookupOK ==
  asked \in Sides =>
    /\ asking[asked] # "none" => last_ias.svc = asking[asked]
    /\ last_ias.svc \in Services
    /\ last_ias.sel \in {LSAP_ANY, Lsap[Other(asked)][last_ias.svc]}

(* Nothing but its own DISCONNECT and the end of its link takes the entry  *)
(* of a connection away, twins or not.                                     *)
SureOK ==
  \A c \in open : c.sure =>
    \E k \in Slots :
      /\ conn[k].valid /\ conn[k].caddr = lap /\ Matches(conn[k], FrameOf(c, c.by))
      /\ conn[k].svc = c.svc \/ c.svc = "ias"

IInv ==
  /\ TypeOK /\ StationsOK /\ LookupOK /\ SureOK
  /\ ZombiesEndWithLink /\ EntryPerConnection
=============================================================================
