----------------------------- MODULE Irdaspray -----------------------------
(***************************************************************************)
(* irdaspray: a client that sends frame_number frames to the echo or the   *)
(* discard service of a device in range, once or over two connections at a *)
(* time, and the server that forks a child for every connection.           *)
(*                                                                         *)
(* Client instance 1 connects first; with -t it is the child of the first  *)
(* fork and instance 2 is the parent with a socket of its own.  To echo,   *)
(* an instance forks once more: the child transmits, the parent receives   *)
(* and waits.  A connection is two bounded queues of frames; what a frame  *)
(* holds is its number.  The socket, the devices and the user are external.*)
(*                                                                         *)
(* A definition followed by one it differs from in one place is a faulty   *)
(* variant of it, used only to see the properties fail.                    *)
(***************************************************************************)
EXTENDS Integers, Sequences

CONSTANTS
  Devices,       \* devices that may come into range
  Servers,       \* those that run the server
  Options,       \* command lines: [echo, two, frame_number]
  frame_size,
  Buffers        \* frames a direction of a connection holds before send blocks

ASSUME SprayAssumption ==
  /\ Servers \subseteq Devices
  /\ Options \subseteq [echo : BOOLEAN, two : BOOLEAN, frame_number : Nat \ {0}]
  /\ {frame_size, Buffers} \subseteq Nat \ {0}

Instances == {1, 2}

NoFrame  == 0
NoDevice == "none"
NoSum    == -1     \* a sum with errors in it

VARIABLES
  echo, two,     \* the options -e / -d and -t
  frame_number,  \* the option -n
  phase,         \* where the main process of an instance is
  tx, rx,        \* its transmitting and its receiving process
  sent, txTotal, \* rounds of the loop of irdaspray_transmit, its sum
  received, rxTotal,
  child,         \* the server's child for the connection, the frame it holds
  near,          \* external: devices in range
  conn,          \* external: the connection of each socket
  arrived        \* frames read at the end of their way, in order

clientVars == <<phase, tx, rx, sent, txTotal, received, rxTotal>>
options == <<echo, two, frame_number>>
vars == <<options, clientVars, child, near, conn, arrived>>

Init ==
  /\ \E o \in Options :
       echo = o.echo /\ two = o.two /\ frame_number = o.frame_number
  /\ phase = [i \in Instances |-> IF i = 1 THEN "check" ELSE "none"]
  /\ tx = [i \in Instances |-> "off"] /\ rx = tx
  /\ sent = [i \in Instances |-> 0] /\ txTotal = sent
  /\ received = sent /\ rxTotal = sent
  /\ child = [i \in Instances |-> [pc |-> "off", frame |-> NoFrame]]
  /\ near = {}
  /\ conn = [i \in Instances |-> [state |-> "none", to |-> NoDevice, c2s |-> <<>>, s2c |-> <<>>]]
  /\ arrived = [i \in Instances |-> <<>>]

-----------------------------------------------------------------------------
(* The socket.  A connection that ends leaves what was not yet on its way  *)
(* undelivered; the rest can still be read.                                *)
Remains(q) == {SubSeq(q, 1, n) : n \in 0 .. Len(q)}

Up(i) == conn[i].state \in {"pending", "up"}

Cut(c, how) ==
  {[state |-> how, to |-> c.to, c2s |-> a, s2c |-> b] :
     a \in Remains(c.c2s), b \in Remains(c.s2c)}

DeviceComes(d) ==
  /\ d \notin near
  /\ near' = near \union {d}
  /\ UNCHANGED <<options, clientVars, child, conn, arrived>>

DeviceLeaves(d) ==
  LET After(i) == IF Up(i) /\ conn[i].to = d THEN Cut(conn[i], "lost") ELSE {conn[i]} IN
  /\ d \in near
  /\ near' = near \ {d}
  /\ \E c \in After(1), e \in After(2) : conn' = [i \in Instances |-> IF i = 1 THEN c ELSE e]
  /\ UNCHANGED <<options, clientVars, child, arrived>>

-----------------------------------------------------------------------------
(* irdaspray_connect_request.                                              *)
Goto(i, p) == phase' = [phase EXCEPT ![i] = p]

clientRest == <<tx, rx, sent, txTotal, received, rxTotal>>
others     == <<options, clientRest, child, near, arrived>>

CheckDiscovery(i) ==
  /\ phase[i] = "check"
  /\ Goto(i, IF near = {} THEN "waitfor" ELSE "auto")
  /\ UNCHANGED <<others, conn>>

(* Some device came, or 30 s have passed.                                  *)
WaitForDevice(i) ==
  /\ phase[i] = "waitfor"
  /\ \/ near # {} /\ Goto(i, "auto")
     \/ Goto(i, "failed")
  /\ UNCHANGED <<others, conn>>

(* A socket asks again only when the child of an attempt that failed after *)
(* it was accepted has gone.                                               *)
Request(i, d) ==
  /\ child[i].pc \in {"off", "done"}
  /\ conn' = [conn EXCEPT ![i] = [state |-> "pending", to |-> d, c2s |-> <<>>, s2c |-> <<>>]]

(* One device with the service: connect to it.  None: give up.  Several,   *)
(* or any other error: ask the user.                                       *)
AutoConnect(i) ==
  /\ phase[i] = "auto"
  /\ \/ /\ near \intersect Servers = {}
        /\ Goto(i, "failed") /\ UNCHANGED conn
     \/ /\ \E d \in Servers : near \intersect Servers = {d} /\ Request(i, d)
        /\ Goto(i, "connect")
     \/ /\ near # {}
        /\ Goto(i, "choose") /\ UNCHANGED conn
  /\ UNCHANGED others

(* The user may also give a number that is not in the list, or none.       *)
Choose(i) ==
  /\ phase[i] = "choose"
  /\ \/ Goto(i, "failed") /\ UNCHANGED conn
     \/ \E d \in near \intersect Servers : Request(i, d) /\ Goto(i, "picked")
  /\ UNCHANGED others

ConnectFails(i) ==
  /\ phase[i] \in {"connect", "picked"} /\ conn[i].state = "lost"
  /\ Goto(i, IF phase[i] = "connect" THEN "choose" ELSE "failed")
  /\ UNCHANGED <<others, conn>>

(* connect() returns: ir_client forks the second instance, which closes    *)
(* this socket and opens another, and the receiver of an echo.             *)
Connected(i) ==
  /\ phase[i] \in {"connect", "picked"} /\ conn[i].state = "up"
  /\ phase' = [j \in Instances |-> IF j = i THEN "run"
                                   ELSE IF two /\ i = 1 THEN "check" ELSE phase[j]]
  /\ tx' = [tx EXCEPT ![i] = "send"]
  /\ rx' = [rx EXCEPT ![i] = IF echo THEN "recv" ELSE "off"]
  /\ UNCHANGED <<options, sent, txTotal, received, rxTotal, child, near, conn, arrived>>

-----------------------------------------------------------------------------
(* The socket of the processes of an instance.                             *)
Sock_First(i) == 1

Sock(i) == i

(* The connection is closed when the last process that has the socket      *)
(* leaves; nobody reads the answers any more.                              *)
Leave(i, last) ==
  IF last /\ Up(i)
  THEN \E c \in Cut([conn[i] EXCEPT !.s2c = <<>>], "closed") : conn' = [conn EXCEPT ![i] = c]
  ELSE UNCHANGED conn

MoreToSend(i) == sent[i] < frame_number

(* irdaspray_transmit.  At the end of the connection all sends that are    *)
(* left fail, in one step here, and their -1 goes into the sum.            *)
Transmit(i) ==
  LET s == Sock(i) IN
  /\ tx[i] = "send" /\ MoreToSend(i)
  /\ \/ /\ Up(s) /\ Len(conn[s].c2s) < Buffers
        /\ conn' = [conn EXCEPT ![s].c2s = Append(@, sent[i] + 1)]
        /\ sent' = [sent EXCEPT ![i] = @ + 1]
        /\ txTotal' = [txTotal EXCEPT ![i] = @ + frame_size]
     \/ /\ ~Up(s)
        /\ sent' = [sent EXCEPT ![i] = frame_number]
        /\ txTotal' = [txTotal EXCEPT ![i] = NoSum]
        /\ UNCHANGED conn
  /\ UNCHANGED <<options, phase, tx, rx, received, rxTotal, child, near, arrived>>

(* The loop is over, or SIGPIPE ends the process.                          *)
TransmitEnds(i) ==
  /\ tx[i] = "send" /\ (~MoreToSend(i) \/ ~Up(Sock(i)))
  /\ tx' = [tx EXCEPT ![i] = "done"]
  /\ Leave(i, rx[i] \in {"off", "done"})
  /\ UNCHANGED <<options, phase, rx, sent, txTotal, received, rxTotal, child, near, arrived>>

MayReceive_AfterSending(i) == rx[i] = "recv" /\ tx[i] = "done"

MayReceive(i) == rx[i] = "recv"

(* irdaspray_receive.  Once the connection has ended and all is read, each *)
(* recv that is left gives 0 or -1.                                        *)
Receive(i) ==
  LET s == Sock(i) IN
  /\ MayReceive(i) /\ received[i] < frame_number
  /\ \/ /\ conn[s].s2c # <<>>
        /\ received' = [received EXCEPT ![i] = @ + 1]
        /\ arrived' = [arrived EXCEPT ![i] = Append(@, Head(conn[s].s2c))]
        /\ conn' = [conn EXCEPT ![s].s2c = Tail(@)]
        /\ rxTotal' = [rxTotal EXCEPT ![i] = @ + frame_size]
     \/ /\ conn[s].s2c = <<>> /\ ~Up(s)
        /\ received' = [received EXCEPT ![i] = frame_number]
        /\ rxTotal' = [rxTotal EXCEPT ![i] = NoSum] \/ UNCHANGED rxTotal
        /\ UNCHANGED <<conn, arrived>>
  /\ UNCHANGED <<options, phase, tx, rx, sent, txTotal, child, near>>

ReceiveEnds_OneShort(i) ==
  /\ rx[i] = "recv" /\ received[i] >= frame_number - 1
  /\ rx' = [rx EXCEPT ![i] = "wait"]
  /\ UNCHANGED <<options, phase, tx, sent, txTotal, received, rxTotal, child, near, conn, arrived>>

ReceiveEnds(i) ==
  /\ rx[i] = "recv" /\ received[i] = frame_number
  /\ rx' = [rx EXCEPT ![i] = "wait"]
  /\ UNCHANGED <<options, phase, tx, sent, txTotal, received, rxTotal, child, near, conn, arrived>>

(* wait() takes any child: instance 2 may get instance 1 and not its own   *)
(* transmitter.                                                            *)
Wait(i) ==
  /\ rx[i] = "wait"
  /\ tx[i] = "done" \/ (i = 2 /\ rx[1] = "done")
  /\ rx' = [rx EXCEPT ![i] = "done"]
  /\ Leave(i, tx[i] = "done")
  /\ UNCHANGED <<options, phase, tx, sent, txTotal, received, rxTotal, child, near, arrived>>

-----------------------------------------------------------------------------
(* ir_server.  The parent keeps every socket it has accepted, so that the  *)
(* end of a child does not end the connection.                             *)
Accept(i) ==
  /\ conn[i].state = "pending"
  /\ conn' = [conn EXCEPT ![i].state = "up"]
  /\ child' = [child EXCEPT ![i] = [pc |-> "recv", frame |-> NoFrame]]
  /\ UNCHANGED <<options, clientVars, near, arrived>>

ServerRecv(i) ==
  /\ child[i].pc = "recv"
  /\ \/ /\ conn[i].c2s # <<>>
        /\ conn' = [conn EXCEPT ![i].c2s = Tail(@)]
        /\ IF echo
           THEN /\ child' = [child EXCEPT ![i] = [pc |-> "send", frame |-> Head(conn[i].c2s)]]
                /\ UNCHANGED arrived
           ELSE /\ arrived' = [arrived EXCEPT ![i] = Append(@, Head(conn[i].c2s))]
                /\ UNCHANGED child
     \/ /\ conn[i].c2s = <<>> /\ ~Up(i)
        /\ child' = [child EXCEPT ![i].pc = "done"]
        /\ UNCHANGED <<conn, arrived>>
  /\ UNCHANGED <<options, clientVars, near>>

ServerSend(i) ==
  /\ child[i].pc = "send"
  /\ \/ /\ Up(i) /\ Len(conn[i].s2c) < Buffers
        /\ conn' = [conn EXCEPT ![i].s2c = Append(@, child[i].frame)]
        /\ child' = [child EXCEPT ![i] = [pc |-> "recv", frame |-> NoFrame]]
     \/ /\ ~Up(i)
        /\ child' = [child EXCEPT ![i] = [pc |-> "done", frame |-> NoFrame]]
        /\ UNCHANGED conn
  /\ UNCHANGED <<options, clientVars, near, arrived>>

-----------------------------------------------------------------------------
Next ==
  \/ \E d \in Devices : DeviceComes(d) \/ DeviceLeaves(d)
  \/ \E i \in Instances :
       \/ CheckDiscovery(i) \/ WaitForDevice(i) \/ AutoConnect(i) \/ Choose(i)
       \/ ConnectFails(i) \/ Connected(i)
       \/ Transmit(i) \/ TransmitEnds(i) \/ Receive(i) \/ ReceiveEnds(i) \/ Wait(i)
       \/ Accept(i) \/ ServerRecv(i) \/ ServerSend(i)

(* The processes run; nothing is assumed of the devices, of the user or of *)
(* the way a connection is made.                                           *)
Fairness ==
  \A i \in Instances :
    /\ WF_vars(Transmit(i) \/ TransmitEnds(i))
    /\ WF_vars(Receive(i) \/ ReceiveEnds(i) \/ Wait(i))
    /\ WF_vars(ServerRecv(i) \/ ServerSend(i))

Spec == Init /\ [][Next]_vars /\ Fairness

-----------------------------------------------------------------------------
(* No frame of a connection is lost, doubled, reordered or given to the    *)
(* other connection between irdaspray_transmit, the child that echoes it   *)
(* and irdaspray_receive: while it is up, what arrived, what is on its way *)
(* and what the child holds are the frames sent so far; after its end what *)
(* arrived are the first of them.                                          *)
FramesConserved ==
  \A i \in Instances :
    LET held == IF child[i].frame = NoFrame THEN <<>> ELSE <<child[i].frame>>
        way  == arrived[i] \o conn[i].s2c \o held \o conn[i].c2s
    IN  /\ conn[i].state = "up" => way = [k \in 1 .. sent[i] |-> k]
        /\ arrived[i] = [k \in 1 .. Len(arrived[i]) |-> k]

(* The sums that the two processes print are the bytes transferred when    *)
(* the connection was not lost under them, whichever of its processes      *)
(* closes it, and although ends and errors are summed up as well.          *)
TotalsAgree ==
  \A i \in Instances : conn[i].state # "lost" =>
    /\ tx[i] = "done" => txTotal[i] = frame_number * frame_size
    /\ rx[i] \in {"wait", "done"} => rxTotal[i] = frame_number * frame_size

(* A transfer ends with all its processes gone, the child of the server    *)
(* too: two full directions do not wait for each other, and the loss of    *)
(* the link leaves nobody behind.                                          *)
TransferEnds ==
  \A i \in Instances :
    phase[i] = "run" ~>
      tx[i] = "done" /\ rx[i] \in {"off", "done"} /\ child[i].pc = "done"

-----------------------------------------------------------------------------
(* What FramesConserved and TotalsAgree rest on.                           *)
Frames == Nat \ {NoFrame}

TypeOK ==
  /\ echo \in BOOLEAN /\ two \in BOOLEAN /\ frame_number \in Nat \ {0}
  /\ phase \in [Instances -> {"none", "check", "waitfor", "auto", "choose",
                             "connect", "picked", "run", "failed"}]
  /\ tx \in [Instances -> {"off", "send", "done"}]
  /\ rx \in [Instances -> {"off", "recv", "wait", "done"}]
  /\ sent \in [Instances -> 0 .. frame_number] /\ txTotal \in [Instances -> Int]
  /\ received \in [Instances -> 0 .. frame_number] /\ rxTotal \in [Instances -> Int]
  /\ child \in [Instances -> [pc : {"off", "recv", "send", "done"}, frame : Nat]]
  /\ conn \in [Instances -> [state : {"none", "pending", "up", "lost", "closed"},
                            to : Devices \union {NoDevice},
                            c2s : Seq(Frames), s2c : Seq(Frames)]]
  /\ arrived \in [Instances -> Seq(Frames)]

(* The frames in each place on their way, counted from the end of it.      *)
Held(i) == IF child[i].frame = NoFrame THEN 0 ELSE 1

InOrder(i) ==
  LET a == Len(arrived[i])
      s == Len(conn[i].s2c)
  IN
  /\ \A k \in 1 .. a : arrived[i][k] = k
  /\ \A k \in 1 .. s : conn[i].s2c[k] = a + k
  /\ Up(i) \/ ~echo =>
       \A k \in 1 .. Len(conn[i].c2s) : conn[i].c2s[k] = a + s + Held(i) + k
  /\ Up(i) => /\ a + s + Held(i) + Len(conn[i].c2s) = sent[i]
              /\ Held(i) = 1 => child[i].frame = a + s + 1
  /\ child[i].frame # NoFrame <=> child[i].pc = "send"
  /\ ~echo => s = 0 /\ Held(i) = 0

(* Nothing has moved before ir_client runs; a connection is closed only by *)
(* processes that have ended, and until it is lost the sums count frames.  *)
NotRun(i) ==
  /\ tx[i] = "off" /\ rx[i] = "off"
  /\ sent[i] = 0 /\ received[i] = 0 /\ txTotal[i] = 0 /\ rxTotal[i] = 0
  /\ arrived[i] = <<>> /\ conn[i].c2s = <<>> /\ conn[i].s2c = <<>>
  /\ conn[i].state # "closed"

Counting(i) ==
  /\ phase[i] # "run" => NotRun(i)
  /\ phase[i] = "run" => tx[i] # "off" /\ conn[i].state \in {"up", "closed", "lost"}
  /\ conn[i].state = "closed" => tx[i] = "done" /\ rx[i] \in {"off", "done"}
  /\ rx[i] \in {"wait", "done"} => received[i] = frame_number
  /\ conn[i].state # "lost" =>
       /\ txTotal[i] = sent[i] * frame_size /\ rxTotal[i] = received[i] * frame_size
       /\ tx[i] = "done" => sent[i] = frame_number

IInv ==
  /\ TypeOK
  /\ phase[1] # "run" => phase[2] = "none"
  /\ \A i \in Instances : InOrder(i) /\ Counting(i)

-----------------------------------------------------------------------------
(* What TransferEnds rests on, besides fairness: the processes of a        *)
(* connection never all wait for each other, and none of their steps can   *)
(* be repeated for ever.                                                   *)
Finished(i) == tx[i] = "done" /\ rx[i] \in {"off", "done"} /\ child[i].pc = "done"

Moves(i) ==
  \/ Transmit(i) \/ TransmitEnds(i) \/ Receive(i) \/ ReceiveEnds(i) \/ Wait(i)
  \/ ServerRecv(i) \/ ServerSend(i)

(* The guards of these steps.                                              *)
CanMove(i) ==
  \/ tx[i] = "send" /\ (Up(i) /\ MoreToSend(i) => Len(conn[i].c2s) < Buffers)
  \/ MayReceive(i) /\ received[i] < frame_number /\ (Up(i) => conn[i].s2c # <<>>)
  \/ rx[i] = "recv" /\ received[i] = frame_number
  \/ rx[i] = "wait" /\ (tx[i] = "done" \/ (i = 2 /\ rx[1] = "done"))
  \/ child[i].pc = "recv" /\ (Up(i) => conn[i].c2s # <<>>)
  \/ child[i].pc = "send" /\ (Up(i) => Len(conn[i].s2c) < Buffers)

(* Two full directions do not wait for each other, nor wait() for a child  *)
(* that waits for its reader: until all its processes have ended, one of a *)
(* connection's processes can go on.                                       *)
NoCircularWait == \A i \in Instances : phase[i] = "run" => Finished(i) \/ CanMove(i)

(* The steps that are left: four for a frame that is still to be sent (to  *)
(* send it, to take it, to send it back, to read it), and the ends.        *)
TxLeft(i)    == IF tx[i] = "send" THEN 1 ELSE 0
RxLeft(i)    == IF rx[i] = "recv" THEN 2 ELSE IF rx[i] = "wait" THEN 1 ELSE 0
ChildLeft(i) == IF child[i].pc = "send" THEN 3 ELSE IF child[i].pc = "recv" THEN 1 ELSE 0

Work(i) ==
  4 * (frame_number - sent[i]) + 3 * Len(conn[i].c2s) + Len(conn[i].s2c)
  + (frame_number - received[i]) + TxLeft(i) + RxLeft(i) + ChildLeft(i)

(* Every step of a process brings the end of its transfer nearer, and no   *)
(* step of the others, of a device or of the other instance defers it.     *)
WorkLessens ==
  [][\A i \in Instances : phase[i] = "run" =>
       /\ phase'[i] = "run" /\ Work(i)' <= Work(i)
       /\ Moves(i) => Work(i)' < Work(i)]_vars

(* Who serves a connection, who has left it, and what has been read of it. *)
Linked(i) ==
  /\ conn[i].state = "up" => child[i].pc \in {"recv", "send"}
  /\ phase[i] = "run" => child[i].pc # "off" /\ (rx[i] = "off" <=> ~echo)
  /\ conn[i].state = "up" /\ tx[i] = "done" => rx[i] \in {"recv", "wait"}
  /\ conn[i].state = "up" /\ echo => received[i] = Len(arrived[i])
=============================================================================
