------------------------------ MODULE IrPsion5 ------------------------------
(***************************************************************************)
(* File transfer of psion/irpsion5.c: clients (sendfile) that send a file  *)
(* each to a server (receivefile with handle_client), over IrDA stream     *)
(* sockets, with the disk, the link and the file itself failing or         *)
(* changing under way.                                                     *)
(*                                                                         *)
(* A file is a sequence of units, of which a buffer holds BufLen; unit i   *)
(* of a file is the number i, and 0 stands for the "FILE ..." header in a  *)
(* stream.  A read returns some of what has arrived.  Sockets are external:*)
(* reliable and in order while the connection is there; when it ends, by   *)
(* either end or because the link was lost, what was under way may be lost.*)
(*                                                                         *)
(* A definition followed by one it differs from in one place is a faulty   *)
(* variant of it, used only to see the properties fail.                    *)
(***************************************************************************)
EXTENDS Integers, SequencesExt

CONSTANTS
  Client,   \* processes that send a file
  BufLen,   \* units in the buffer of a read or write (buflen)
  MaxLen,   \* bound on the length of the files
  Room,     \* units a connection takes before a write blocks
  NoClient  \* cfd is not a connection

ASSUME SizesAssumption == BufLen \in Nat \ {0} /\ MaxLen \in Nat /\ Room \in Nat \ {0}
ASSUME NoClientAssumption == NoClient \notin Client

VARIABLES
  file,     \* the file a client sends
  changed,  \* it changed while it was being sent
  cpc,      \* where sendfile is
  size,     \* s.st_size
  off,      \* units read from the file (cnt)
  conn,     \* the connection: "none", "up", "closed" (by an end), "lost"
  toServer, \* its stream to the server
  ack,      \* "ACK Y" is on its way to the client
  spc,      \* where receivefile and handle_client are
  mode,     \* receive one file (1) or many (0)
  cfd,      \* the client being served
  stored,   \* what the server wrote for a client; its length is cnt
  done      \* clients for which handle_client returned 0

client == <<file, changed, cpc, size, off>>
server == <<spc, mode, cfd, stored, done>>
vars == <<file, changed, cpc, size, off, conn, toServer, ack, spc, mode, cfd, stored, done>>

Init ==
  /\ file \in [Client -> {[i \in 1 .. n |-> i] : n \in 0 .. MaxLen}]
  /\ changed = [c \in Client |-> FALSE]
  /\ cpc = [c \in Client |-> "connect"]
  /\ size = [c \in Client |-> 0]
  /\ off = [c \in Client |-> 0]
  /\ conn = [c \in Client |-> "none"]
  /\ toServer = [c \in Client |-> <<>>]
  /\ ack = [c \in Client |-> FALSE]
  /\ spc = "accept" /\ mode \in {0, 1} /\ cfd = NoClient
  /\ stored = [c \in Client |-> <<>>]
  /\ done = {}

Lesser(a, b) == IF a < b THEN a ELSE b

(* What may be left of a stream when its connection ends (external).       *)
Remains(s) == {SubSeq(s, 1, n) : n \in 0 .. Len(s)}

(* The connection of c ends as "closed" or "lost".                         *)
Ends(c, how) ==
  IF conn[c] = "up"
  THEN /\ conn' = [conn EXCEPT ![c] = how]
       /\ \E s \in Remains(toServer[c]) : toServer' = [toServer EXCEPT ![c] = s]
       /\ \E a \in {ack[c], FALSE} : ack' = [ack EXCEPT ![c] = a]
  ELSE UNCHANGED <<conn, toServer, ack>>

-----------------------------------------------------------------------------
(* sendfile                                                                *)

ClientAt(c, pc) == cpc' = [cpc EXCEPT ![c] = pc]

(* exit(1) and the normal end close the socket.                            *)
ClientLeaves(c, pc) ==
  /\ ClientAt(c, pc)
  /\ Ends(c, "closed")
  /\ UNCHANGED <<file, changed, size, off, server>>

(* Discovery and connect; the server's accept answers it.                  *)
Connect(c) ==
  /\ cpc[c] = "connect" /\ spc = "accept"
  /\ ClientAt(c, "header")
  /\ conn' = [conn EXCEPT ![c] = "up"]
  /\ cfd' = c /\ spc' = "first"
  /\ UNCHANGED <<file, changed, size, off, toServer, ack, mode, stored, done>>

(* No device, no service, connection refused; fopen or stat fails.         *)
ClientFails(c) == cpc[c] \in {"connect", "header"} /\ ClientLeaves(c, "failed")

Write(c, units) == toServer' = [toServer EXCEPT ![c] = @ \o units]

AfterHeader_NoWait == "send"

AfterHeader == "reply"

SendHeader(c) ==
  /\ cpc[c] = "header" /\ conn[c] = "up"
  /\ size' = [size EXCEPT ![c] = Len(file[c])]
  /\ Write(c, <<0>>)
  /\ ClientAt(c, AfterHeader)
  /\ UNCHANGED <<file, changed, off, conn, ack, server>>

ReadReply(c) ==
  /\ cpc[c] = "reply" /\ ack[c]
  /\ ack' = [ack EXCEPT ![c] = FALSE]
  /\ ClientAt(c, "send")
  /\ UNCHANGED <<file, changed, size, off, conn, toServer, server>>

(* A turn of the loop: fread and write, until the end of the file is seen. *)
SendChunk(c) ==
  LET chunk == SubSeq(file[c], off[c] + 1, Lesser(off[c] + BufLen, Len(file[c])))
  IN
  /\ cpc[c] = "send"
  /\ chunk # <<>> => conn[c] = "up" /\ Len(toServer[c]) < Room
  /\ Write(c, chunk)
  /\ off' = [off EXCEPT ![c] = @ + Len(chunk)]
  /\ IF Len(chunk) < BufLen THEN ClientAt(c, "last") ELSE UNCHANGED cpc
  /\ UNCHANGED <<file, changed, size, conn, ack, server>>

(* A write or the read of the reply finds the connection gone.             *)
ClientCutOff(c) ==
  /\ conn[c] # "up"
  /\ \/ cpc[c] \in {"header", "send"}
     \/ cpc[c] = "reply" /\ ~ack[c]
  /\ ClientLeaves(c, "failed")

LastRead_Not(c) == cpc[c] = "last" /\ ClientLeaves(c, "ok")

(* End of file and EPERM are taken for the other side having closed.       *)
LastRead(c) ==
  /\ cpc[c] = "last" /\ conn[c] # "up"
  /\ \E pc \in (IF conn[c] = "closed" THEN {"ok"} ELSE {"ok", "failed"}) : ClientLeaves(c, pc)

-----------------------------------------------------------------------------
(* receivefile and handle_client                                           *)

ServerLeaves(pc) ==
  /\ spc' = pc
  /\ Ends(cfd, "closed")
  /\ cfd' = NoClient

(* Any exit(1) or failed assertion of handle_client: fopen, fwrite, fclose *)
(* or malloc failing.                                                      *)
ServerFails ==
  /\ spc \in {"first", "ack", "data"}
  /\ ServerLeaves("dead")
  /\ UNCHANGED <<client, mode, stored, done>>

(* The same, when a read or the write of the reply finds nobody there.     *)
ServerCutOff ==
  /\ cfd # NoClient /\ conn[cfd] # "up"
  /\ toServer[cfd] = <<>> \/ spc = "ack"
  /\ spc = "data" => Len(stored[cfd]) < size[cfd]
  /\ ServerLeaves("dead")
  /\ UNCHANGED <<client, mode, stored, done>>

(* The first read takes n units; all of them are parsed as a header, which *)
(* is shorter than the buffer.                                             *)
FirstRead(n) ==
  /\ Head(toServer[cfd]) = 0
  /\ stored' = [stored EXCEPT ![cfd] = <<>>]
  /\ toServer' = [toServer EXCEPT ![cfd] = SubSeq(@, n + 1, Len(@))]

ReadHeader ==
  /\ spc = "first" /\ toServer[cfd] # <<>>
  /\ \E n \in 1 .. Lesser(BufLen, Len(toServer[cfd])) : FirstRead(n)
  /\ spc' = "ack"
  /\ UNCHANGED <<client, conn, ack, mode, cfd, done>>

WriteAck ==
  /\ spc = "ack" /\ conn[cfd] = "up"
  /\ ack' = [ack EXCEPT ![cfd] = TRUE]
  /\ spc' = "data"
  /\ UNCHANGED <<client, conn, toServer, mode, cfd, stored, done>>

(* The condition of the receive loop.                                      *)
MoreToCome_OneLess(cnt, fsize) == cnt + 1 < fsize

MoreToCome(cnt, fsize) == cnt < fsize

ReadData ==
  /\ spc = "data" /\ toServer[cfd] # <<>>
  /\ MoreToCome(Len(stored[cfd]), size[cfd])
  /\ \E n \in 1 .. Lesser(BufLen, Len(toServer[cfd])) :
       /\ stored' = [stored EXCEPT ![cfd] = @ \o SubSeq(toServer[cfd], 1, n)]
       /\ toServer' = [toServer EXCEPT ![cfd] = SubSeq(@, n + 1, Len(@))]
  /\ UNCHANGED <<client, conn, ack, spc, mode, cfd, done>>

(* fclose, utime, close, and back to accept in batch mode.                 *)
Finish ==
  /\ spc = "data" /\ ~MoreToCome(Len(stored[cfd]), size[cfd])
  /\ done' = done \union {cfd}
  /\ ServerLeaves(IF mode = 1 THEN "ended" ELSE "accept")
  /\ UNCHANGED <<client, mode, stored>>

-----------------------------------------------------------------------------
(* The environment (external)                                              *)

LinkLost(c) ==
  /\ conn[c] = "up" /\ Ends(c, "lost")
  /\ UNCHANGED <<client, server>>

(* Another program appends to the file or truncates it, once.              *)
FileChanges(c) ==
  /\ cpc[c] \in {"reply", "send"} /\ ~changed[c]
  /\ changed' = [changed EXCEPT ![c] = TRUE]
  /\ \/ file' = [file EXCEPT ![c] = Append(@, Len(@) + 1)]
     \/ file[c] # <<>> /\ file' = [file EXCEPT ![c] = Front(@)]
  /\ UNCHANGED <<cpc, size, off, conn, toServer, ack, server>>

ClientStep(c) ==
  \/ Connect(c) \/ ClientFails(c) \/ SendHeader(c) \/ ReadReply(c) \/ SendChunk(c)
  \/ ClientCutOff(c) \/ LastRead(c)

ServerStep ==
  \/ ServerFails \/ ServerCutOff \/ ReadHeader \/ WriteAck \/ ReadData \/ Finish

Next ==
  \/ \E c \in Client : ClientStep(c) \/ LinkLost(c) \/ FileChanges(c)
  \/ ServerStep

(* Both programs run on; a blocked read or write returns when it can.  A   *)
(* failing disk or fopen is possible, never due.                           *)
Running(c) == SendHeader(c) \/ ReadReply(c) \/ SendChunk(c) \/ ClientCutOff(c) \/ LastRead(c)

Serving == ServerCutOff \/ ReadHeader \/ WriteAck \/ ReadData \/ Finish

Fairness == WF_vars(Serving) /\ \A c \in Client : WF_vars(Running(c))

Spec     == Init /\ [][Next]_vars
FairSpec == Spec /\ Fairness

-----------------------------------------------------------------------------
(* Properties                                                              *)

(* A file for which handle_client returned 0 is the file the client opened,*)
(* unit for unit, unless the file was changed meanwhile; whatever pieces   *)
(* the stream came in and however the connection ended afterwards.         *)
ReceivedIsWhole == \A c \in done : ~changed[c] => stored[c] = file[c]

(* A sender that reports success has been read to the end: it does not     *)
(* close the connection under what the server has still to read.  Only a   *)
(* lost link or a server that gives up look to it as the normal end.       *)
SentIsReceived ==
  \A c \in Client :
    cpc[c] = "ok" /\ conn[c] # "lost" /\ spc # "dead" => c \in done

(* Once connected a sender comes to an end, good or bad, and never waits   *)
(* for a server that waits for it; unless the file became shorter than     *)
(* announced: then each waits for the other.                               *)
SenderEnds ==
  \A c \in Client :
    cpc[c] = "header" ~> cpc[c] \in {"ok", "failed"} \/ Len(file[c]) < size[c]
=============================================================================
