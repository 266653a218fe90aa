-------------------------- MODULE IrdasprayProofs --------------------------
(***************************************************************************)
(* IInv is an inductive invariant of Irdaspray, for every number and size  *)
(* of frames, every length of the queues and any devices: whatever the     *)
(* order of the processes and whenever a device leaves, no frame is lost,  *)
(* doubled or mixed up and the sums that are printed agree.                *)
(***************************************************************************)
EXTENDS Irdaspray, SequenceTheorems, TLAPS

stateRest == <<tx, rx, sent, txTotal, received, rxTotal, child, conn, arrived>>

(* Of the sequences here: what is added at one end and taken from another. *)
LEMMA Added ==
  ASSUME NEW q \in Seq(Frames), NEW f \in Frames
  PROVE  /\ Append(q, f) \in Seq(Frames) /\ Len(Append(q, f)) = Len(q) + 1
         /\ \A k \in 1 .. Len(q) + 1 :
              Append(q, f)[k] = IF k = Len(q) + 1 THEN f ELSE q[k]
<1>1. Len(q) \in Nat
  BY LenProperties
<1>2. /\ Append(q, f) \in Seq(Frames) /\ Len(Append(q, f)) = Len(q) + 1
      /\ \A k \in 1 .. Len(q) : Append(q, f)[k] = q[k]
      /\ Append(q, f)[Len(q) + 1] = f
  BY AppendProperties
<1>. QED BY <1>1, <1>2

LEMMA Taken ==
  ASSUME NEW q \in Seq(Frames), q # <<>>
  PROVE  /\ Tail(q) \in Seq(Frames) /\ Len(q) \in Nat \ {0}
         /\ Len(Tail(q)) = Len(q) - 1
         /\ \A k \in 1 .. Len(q) - 1 : Tail(q)[k] = q[k + 1]
         /\ Head(q) = q[1] /\ Head(q) \in Frames
<1>1. Len(q) \in Nat \ {0}
  BY EmptySeq
<1>2. /\ Tail(q) \in Seq(Frames) /\ Len(Tail(q)) = Len(q) - 1
      /\ \A k \in 1 .. Len(Tail(q)) : Tail(q)[k] = q[k + 1]
      /\ Head(q) \in Frames
  BY HeadTailProperties
<1>3. Head(q) = q[1]
  OBVIOUS
<1>. QED BY <1>1, <1>2, <1>3

(* What the end of a connection leaves of it.                              *)
LEMMA Remaining ==
  ASSUME NEW q \in Seq(Frames), NEW r \in Remains(q)
  PROVE  /\ r \in Seq(Frames) /\ Len(r) \in Nat /\ Len(r) <= Len(q)
         /\ \A k \in 1 .. Len(r) : r[k] = q[k]
<1>1. PICK n \in 0 .. Len(q) : r = SubSeq(q, 1, n)
  BY DEF Remains
<1>2. Len(q) \in Nat /\ \A k \in 1 .. Len(q) : q[k] \in Frames
  BY LenProperties, ElementOfSeq
<1>3. /\ r \in Seq(Frames) /\ Len(r) = IF 1 <= n THEN n - 1 + 1 ELSE 0
      /\ \A k \in 1 .. n - 1 + 1 : r[k] = q[1 + k - 1]
  <2>1. n \in Int /\ \A k \in 1 .. n : q[k] \in Frames
    BY <1>2
  <2>. QED BY <1>1, <2>1, SubSeqProperties
<1>. QED BY <1>2, <1>3

Connections ==
  [state : {"none", "pending", "up", "lost", "closed"}, to : Devices \union {NoDevice},
   c2s : Seq(Frames), s2c : Seq(Frames)]

LEMMA CutLeaves ==
  ASSUME NEW c \in Connections, NEW how \in {"lost", "closed"}, NEW d,
         d \in Cut(c, how)
  PROVE  /\ d \in Connections /\ d.state = how
         /\ Len(d.c2s) \in Nat /\ Len(d.c2s) <= Len(c.c2s)
         /\ Len(d.s2c) \in Nat /\ Len(d.s2c) <= Len(c.s2c)
         /\ \A k \in 1 .. Len(d.c2s) : d.c2s[k] = c.c2s[k]
         /\ \A k \in 1 .. Len(d.s2c) : d.s2c[k] = c.s2c[k]
<1>1. PICK a \in Remains(c.c2s), b \in Remains(c.s2c) :
        d = [state |-> how, to |-> c.to, c2s |-> a, s2c |-> b]
  BY DEF Cut
<1>2. c.c2s \in Seq(Frames) /\ c.s2c \in Seq(Frames)
  BY DEF Connections
<1>3. /\ a \in Seq(Frames) /\ Len(a) \in Nat /\ Len(a) <= Len(c.c2s)
      /\ \A k \in 1 .. Len(a) : a[k] = c.c2s[k]
  BY <1>2, Remaining
<1>4. /\ b \in Seq(Frames) /\ Len(b) \in Nat /\ Len(b) <= Len(c.s2c)
      /\ \A k \in 1 .. Len(b) : b[k] = c.s2c[k]
  BY <1>2, Remaining
<1>5. d.state = how /\ d.c2s = a /\ d.s2c = b /\ d \in Connections
  BY <1>1, <1>3, <1>4 DEF Connections
<1>. QED BY <1>3, <1>4, <1>5

LEMMA Empty == <<>> \in Seq(Frames) /\ Len(<<>>) = 0
  BY EmptySeq

LEMMA OneMore == ASSUME NEW m \in Nat, NEW n \in Nat PROVE (m + 1) * n = m * n + n
  OBVIOUS

(* What the invariant says of one instance.                                *)
LEMMA Of ==
  ASSUME IInv, NEW i \in Instances
  PROVE  /\ InOrder(i) /\ Counting(i) /\ conn[i] \in Connections
         /\ conn[i].c2s \in Seq(Frames) /\ Len(conn[i].c2s) \in Nat
         /\ conn[i].s2c \in Seq(Frames) /\ Len(conn[i].s2c) \in Nat
         /\ arrived[i] \in Seq(Frames) /\ Len(arrived[i]) \in Nat
         /\ child[i].frame \in Nat
<1>1. /\ conn[i] \in Connections /\ arrived[i] \in Seq(Frames) /\ child[i].frame \in Nat
  BY DEF IInv, TypeOK, Connections
<1>2. conn[i].c2s \in Seq(Frames) /\ conn[i].s2c \in Seq(Frames)
  BY <1>1 DEF Connections
<1>. QED BY <1>1, <1>2, LenProperties DEF IInv

(* An instance that a step does not touch, or touches only in part.        *)
LEMMA OrderKept ==
  ASSUME NEW i \in Instances, InOrder(i), echo' = echo, arrived'[i] = arrived[i],
         conn'[i] = conn[i], child'[i] = child[i], sent'[i] = sent[i]
  PROVE  InOrder(i)'
  BY DEF InOrder, Up, Held

LEMMA CountKept ==
  ASSUME NEW i \in Instances, Counting(i), frame_number' = frame_number,
         phase'[i] = phase[i], tx'[i] = tx[i], rx'[i] = rx[i], sent'[i] = sent[i],
         txTotal'[i] = txTotal[i], received'[i] = received[i],
         rxTotal'[i] = rxTotal[i], arrived'[i] = arrived[i], conn'[i] = conn[i]
  PROVE  Counting(i)'
  BY DEF Counting, NotRun

-----------------------------------------------------------------------------
LEMMA InitIInv == Init => IInv
<1>. SUFFICES ASSUME Init PROVE IInv
  OBVIOUS
<1>1. TypeOK
  BY Empty, SprayAssumption DEF Init, TypeOK, Instances, NoDevice, NoFrame
<1>2. ASSUME NEW i \in Instances PROVE InOrder(i)
  BY Empty DEF Init, InOrder, Up, Held, Instances
<1>3. ASSUME NEW i \in Instances PROVE Counting(i)
  BY SprayAssumption DEF Init, Counting, NotRun, Instances
<1>4. phase[1] # "run" => phase[2] = "none"
  BY DEF Init, Instances
<1>. QED BY <1>1, <1>2, <1>3, <1>4 DEF IInv

(* Steps on the way to a connection change nothing but where a client is.  *)
LEMMA OnTheWay ==
  ASSUME IInv, NEW i \in Instances, NEW p \in {"waitfor", "auto", "choose", "failed"},
         phase[i] \notin {"none", "run"}, Goto(i, p), UNCHANGED <<options, stateRest>>
  PROVE  IInv'
<1>1. TypeOK'
  BY DEF IInv, TypeOK, Goto, options, stateRest
<1>2. phase'[1] # "run" => phase'[2] = "none"
  BY DEF IInv, TypeOK, Goto, Instances
<1>3. ASSUME NEW j \in Instances PROVE InOrder(j)'
  BY <1>3, Of, OrderKept DEF options, stateRest
<1>4. ASSUME NEW j \in Instances PROVE Counting(j)'
  <2>1. CASE j # i
    BY <2>1, Of, CountKept DEF Goto, IInv, TypeOK, options, stateRest
  <2>2. CASE j = i
    BY <2>2, Of DEF Goto, IInv, TypeOK, Counting, NotRun, options, stateRest
  <2>. QED BY <2>1, <2>2
<1>. QED BY <1>1, <1>2, <1>3, <1>4 DEF IInv

LEMMA CheckDiscoveryInv ==
  ASSUME IInv, NEW i \in Instances, CheckDiscovery(i) PROVE IInv'
  BY OnTheWay DEF CheckDiscovery, others, clientRest, stateRest

LEMMA WaitForDeviceInv ==
  ASSUME IInv, NEW i \in Instances, WaitForDevice(i) PROVE IInv'
  BY OnTheWay DEF WaitForDevice, others, clientRest, stateRest

LEMMA ConnectFailsInv ==
  ASSUME IInv, NEW i \in Instances, ConnectFails(i) PROVE IInv'
  BY OnTheWay DEF ConnectFails, others, clientRest, stateRest

(* A socket that asks for a connection has nothing on its way.             *)
LEMMA RequestInv ==
  ASSUME IInv, NEW i \in Instances, NEW d \in Devices, NEW p \in {"connect", "picked"},
         phase[i] \in {"auto", "choose"}, Request(i, d), Goto(i, p), UNCHANGED others
  PROVE  IInv'
<1>. USE DEF others, clientRest, options
<1>1. TypeOK'
  BY Empty DEF IInv, TypeOK, Goto, Request
<1>2. phase'[1] # "run" => phase'[2] = "none"
  BY DEF IInv, TypeOK, Goto, Instances
<1>3. conn'[i].c2s = <<>> /\ conn'[i].s2c = <<>> /\ conn'[i].state = "pending"
  BY DEF Request, IInv, TypeOK
<1>4. \A j \in Instances \ {i} : conn'[j] = conn[j] /\ phase'[j] = phase[j]
  BY DEF Request, Goto, IInv, TypeOK
<1>5. phase'[i] = p /\ NotRun(i) /\ child[i].frame = NoFrame /\ child[i].pc # "send"
  BY Of DEF Request, Goto, Counting, InOrder, IInv, TypeOK
<1>6. ASSUME NEW j \in Instances, j # i PROVE InOrder(j)' /\ Counting(j)'
  BY <1>4, <1>6, Of, OrderKept, CountKept
<1>7. InOrder(i)'
  BY <1>3, <1>5, Empty DEF InOrder, Held, Up, NotRun
<1>8. Counting(i)'
  <2>1. 0 * frame_size = 0
    BY SprayAssumption
  <2>. QED BY <1>3, <1>5, <2>1 DEF Counting, NotRun
<1>. QED BY <1>1, <1>2, <1>6, <1>7, <1>8 DEF IInv

LEMMA AutoConnectInv ==
  ASSUME IInv, NEW i \in Instances, AutoConnect(i) PROVE IInv'
<1>1. CASE \E p \in {"failed", "choose"} : Goto(i, p) /\ UNCHANGED conn
  BY <1>1, OnTheWay DEF AutoConnect, others, clientRest, stateRest, Request
<1>2. CASE \E d \in Servers : Request(i, d) /\ Goto(i, "connect")
  BY <1>2, RequestInv, SprayAssumption DEF AutoConnect
<1>. QED BY <1>1, <1>2 DEF AutoConnect

LEMMA ChooseInv ==
  ASSUME IInv, NEW i \in Instances, Choose(i) PROVE IInv'
<1>1. CASE Goto(i, "failed") /\ UNCHANGED conn
  BY <1>1, OnTheWay DEF Choose, others, clientRest, stateRest
<1>2. CASE \E d \in Servers : Request(i, d) /\ Goto(i, "picked")
  BY <1>2, RequestInv, SprayAssumption DEF Choose
<1>. QED BY <1>1, <1>2 DEF Choose

LEMMA ConnectedInv ==
  ASSUME IInv, NEW i \in Instances, Connected(i) PROVE IInv'
<1>. USE DEF Connected, options
<1>1. TypeOK'
  BY DEF IInv, TypeOK
<1>2. phase'[1] # "run" => phase'[2] = "none"
  BY DEF IInv, TypeOK, Instances
<1>3. ASSUME NEW j \in Instances PROVE InOrder(j)'
  BY <1>3, Of, OrderKept
<1>4. Counting(i)'
  BY Of DEF Counting, NotRun, IInv, TypeOK
<1>5. ASSUME NEW j \in Instances, j # i PROVE Counting(j)'
  <2>1. CASE phase'[j] = phase[j]
    BY <1>5, <2>1, Of, CountKept DEF IInv, TypeOK
  <2>2. CASE phase'[j] # phase[j]
    <3>1. phase[j] = "none" /\ phase'[j] = "check"
      BY <1>5, <2>2 DEF IInv, TypeOK, Instances
    <3>. QED BY <1>5, <3>1, Of DEF Counting, NotRun, IInv, TypeOK
  <2>. QED BY <2>1, <2>2
<1>. QED BY <1>1, <1>2, <1>3, <1>4, <1>5 DEF IInv

-----------------------------------------------------------------------------
(* The end of a connection keeps the order of what it leaves.              *)
LEMMA CutKeepsOrder ==
  ASSUME IInv, NEW i \in Instances, NEW c \in Connections, NEW how \in {"lost", "closed"},
         c = conn[i] \/ c = [conn[i] EXCEPT !.s2c = <<>>],
         conn'[i] \in Cut(c, how), UNCHANGED <<options, child, arrived>>
  PROVE  InOrder(i)'
<1>1. InOrder(i) /\ Len(conn[i].c2s) \in Nat /\ Len(conn[i].s2c) \in Nat
      /\ Len(arrived[i]) \in Nat /\ conn[i] \in Connections
  BY Of
<1>2. c.c2s = conn[i].c2s /\ (c.s2c = conn[i].s2c \/ c.s2c = <<>>)
  BY <1>1 DEF Connections
<1>3. Len(c.s2c) \in Nat /\ Len(c.s2c) <= Len(conn[i].s2c)
      /\ \A k \in 1 .. Len(c.s2c) : c.s2c[k] = conn[i].s2c[k]
  BY <1>1, <1>2, Empty
<1>4. /\ conn'[i].state = how
      /\ Len(conn'[i].c2s) \in Nat /\ Len(conn'[i].c2s) <= Len(conn[i].c2s)
      /\ Len(conn'[i].s2c) \in Nat /\ Len(conn'[i].s2c) <= Len(c.s2c)
      /\ \A k \in 1 .. Len(conn'[i].c2s) : conn'[i].c2s[k] = conn[i].c2s[k]
      /\ \A k \in 1 .. Len(conn'[i].s2c) : conn'[i].s2c[k] = c.s2c[k]
  <2>. DEFINE d == conn'[i]
  <2>1. d \in Cut(c, how)
    OBVIOUS
  <2>. HIDE DEF d
  <2>2. /\ d.state = how /\ Len(d.c2s) \in Nat /\ Len(d.c2s) <= Len(c.c2s)
        /\ Len(d.s2c) \in Nat /\ Len(d.s2c) <= Len(c.s2c)
        /\ \A k \in 1 .. Len(d.c2s) : d.c2s[k] = c.c2s[k]
        /\ \A k \in 1 .. Len(d.s2c) : d.s2c[k] = c.s2c[k]
    BY <2>1, CutLeaves
  <2>. QED BY <2>2, <1>2 DEF d
<1>5. ~Up(i)'
  BY <1>4 DEF Up
<1>6. \A k \in 1 .. Len(conn'[i].s2c) : conn'[i].s2c[k] = Len(arrived'[i]) + k
  BY <1>1, <1>3, <1>4 DEF InOrder
<1>7. ~echo' => /\ Len(conn'[i].s2c) = 0 /\ Held(i)' = 0
               /\ \A k \in 1 .. Len(conn'[i].c2s) :
                    conn'[i].c2s[k] = Len(arrived'[i]) + Len(conn'[i].s2c) + Held(i)' + k
  <2>. SUFFICES ASSUME ~echo'
                PROVE  /\ Len(conn'[i].s2c) = 0 /\ Held(i)' = 0
                       /\ \A k \in 1 .. Len(conn'[i].c2s) :
                            conn'[i].c2s[k] = Len(arrived'[i]) + Len(conn'[i].s2c) + Held(i)' + k
    OBVIOUS
  <2>1. ~echo
    BY DEF options
  <2>2. Len(conn[i].s2c) = 0 /\ Held(i) = 0
    BY <1>1, <2>1 DEF InOrder
  <2>3. \A k \in 1 .. Len(conn[i].c2s) :
          conn[i].c2s[k] = Len(arrived[i]) + Len(conn[i].s2c) + Held(i) + k
    BY <1>1, <2>1 DEF InOrder
  <2>4. Held(i)' = Held(i) /\ arrived'[i] = arrived[i]
    BY DEF Held
  <2>5. Len(conn'[i].s2c) = 0
    BY <1>3, <1>4, <2>2
  <2>6. ASSUME NEW k \in 1 .. Len(conn'[i].c2s)
        PROVE  conn'[i].c2s[k] = Len(arrived[i]) + 0 + 0 + k
    <3>1. k \in 1 .. Len(conn[i].c2s)
      BY <1>1, <1>4
    <3>. QED BY <1>4, <2>2, <2>3, <3>1
  <2>. QED BY <2>2, <2>4, <2>5, <2>6
<1>8. \A k \in 1 .. Len(arrived'[i]) : arrived'[i][k] = k
  BY <1>1 DEF InOrder
<1>9. child'[i].frame # NoFrame <=> child'[i].pc = "send"
  BY <1>1 DEF InOrder
<1>. QED BY <1>5, <1>6, <1>7, <1>8, <1>9 DEF InOrder

LEMMA CutType ==
  ASSUME IInv, NEW i \in Instances, NEW c \in Connections, NEW how \in {"lost", "closed"},
         NEW d, d \in Cut(c, how)
  PROVE  d \in Connections /\ d.state = how
  BY CutLeaves

LEMMA DeviceComesInv ==
  ASSUME IInv, NEW d, DeviceComes(d) PROVE IInv'
<1>. USE DEF DeviceComes, options, clientVars
<1>1. TypeOK'
  BY DEF IInv, TypeOK
<1>2. ASSUME NEW j \in Instances PROVE InOrder(j)' /\ Counting(j)'
  BY <1>2, Of, OrderKept, CountKept
<1>. QED BY <1>1, <1>2 DEF IInv

(* The other end of a connection that a device takes with it.              *)
LEMMA DeviceLeavesInv ==
  ASSUME IInv, NEW d, DeviceLeaves(d) PROVE IInv'
<1>. USE DEF options, clientVars
<1>1. ASSUME NEW i \in Instances
      PROVE  \/ conn'[i] = conn[i]
             \/ Up(i) /\ conn'[i] \in Cut(conn[i], "lost")
  BY <1>1 DEF DeviceLeaves, Instances
<1>2. /\ UNCHANGED <<options, clientVars, child, arrived>>
      /\ conn' = [i \in Instances |-> conn'[i]]
  BY DEF DeviceLeaves, Instances
<1>3. ASSUME NEW i \in Instances, Up(i), conn'[i] \in Cut(conn[i], "lost")
      PROVE  conn'[i] \in Connections /\ conn'[i].state = "lost"
  <2>. DEFINE e == conn'[i]
  <2>1. e \in Cut(conn[i], "lost")
    BY <1>3
  <2>. HIDE DEF e
  <2>2. e \in Connections /\ e.state = "lost"
    BY <2>1, Of, CutType
  <2>. QED BY <2>2 DEF e
<1>4. TypeOK'
  <2>1. \A i \in Instances : conn'[i] \in Connections
    BY <1>1, <1>3, Of
  <2>2. conn' \in [Instances -> Connections]
    BY <1>2, <2>1
  <2>. QED BY <1>2, <2>2 DEF IInv, TypeOK, Connections
<1>5. ASSUME NEW i \in Instances PROVE InOrder(i)'
  <2>1. CASE conn'[i] = conn[i]
    BY <1>2, <2>1, Of, OrderKept
  <2>2. CASE conn'[i] \in Cut(conn[i], "lost")
    BY <1>2, <2>2, Of, CutKeepsOrder
  <2>. QED BY <1>1, <2>1, <2>2
<1>6. ASSUME NEW i \in Instances PROVE Counting(i)'
  <2>1. CASE conn'[i] = conn[i]
    BY <1>2, <2>1, Of, CountKept
  <2>2. CASE Up(i) /\ conn'[i] \in Cut(conn[i], "lost")
    <3>1. conn'[i].state = "lost"
      BY <1>3, <2>2
    <3>2. NotRun(i) => NotRun(i)'
      <4>. SUFFICES ASSUME NotRun(i) PROVE NotRun(i)'
        OBVIOUS
      <4>1. conn[i].c2s = <<>> /\ conn[i].s2c = <<>>
        BY DEF NotRun
      <4>2. conn'[i].c2s = <<>> /\ conn'[i].s2c = <<>>
        <5>. DEFINE e == conn'[i]
        <5>1. e \in Cut(conn[i], "lost")
          BY <2>2
        <5>. HIDE DEF e
        <5>2. e \in Connections /\ Len(e.c2s) = 0 /\ Len(e.s2c) = 0
          BY <4>1, <5>1, Of, CutLeaves, Empty
        <5>3. e.c2s = <<>> /\ e.s2c = <<>>
          BY <5>2, EmptySeq DEF Connections
        <5>. QED BY <5>3 DEF e
      <4>. QED BY <1>2, <3>1, <4>2 DEF NotRun
    <3>. QED BY <1>2, <3>1, <3>2, Of DEF Counting
  <2>. QED BY <1>1, <2>1, <2>2
<1>. QED BY <1>2, <1>4, <1>5, <1>6 DEF IInv

-----------------------------------------------------------------------------
(* The other steps are those of one instance and its connection.           *)
LEMMA OneMoves ==
  ASSUME IInv, NEW i \in Instances, TypeOK', InOrder(i)', Counting(i)',
         UNCHANGED <<options, phase>>,
         \A j \in Instances \ {i} :
           /\ tx'[j] = tx[j] /\ rx'[j] = rx[j] /\ sent'[j] = sent[j]
           /\ txTotal'[j] = txTotal[j] /\ received'[j] = received[j]
           /\ rxTotal'[j] = rxTotal[j] /\ arrived'[j] = arrived[j]
           /\ conn'[j] = conn[j] /\ child'[j] = child[j]
  PROVE  IInv'
<1>1. ASSUME NEW j \in Instances, j # i PROVE InOrder(j)' /\ Counting(j)'
  BY <1>1, Of, OrderKept, CountKept DEF options
<1>. QED BY <1>1 DEF IInv

LEMMA Types ==
  ASSUME IInv
  PROVE  /\ conn \in [Instances -> Connections] /\ arrived \in [Instances -> Seq(Frames)]
         /\ sent \in [Instances -> 0 .. frame_number]
         /\ received \in [Instances -> 0 .. frame_number]
         /\ txTotal \in [Instances -> Int] /\ rxTotal \in [Instances -> Int]
         /\ frame_number \in Nat /\ frame_size \in Nat
  BY SprayAssumption DEF IInv, TypeOK, Connections

LEMMA ToServer ==
  ASSUME IInv, NEW i \in Instances, NEW q \in Seq(Frames),
         conn' = [conn EXCEPT ![i].c2s = q]
  PROVE  /\ conn' \in [Instances -> Connections]
         /\ conn'[i].c2s = q /\ conn'[i].s2c = conn[i].s2c
         /\ conn'[i].state = conn[i].state
         /\ \A j \in Instances \ {i} : conn'[j] = conn[j]
  BY Types DEF Connections

LEMMA ToClient ==
  ASSUME IInv, NEW i \in Instances, NEW q \in Seq(Frames),
         conn' = [conn EXCEPT ![i].s2c = q]
  PROVE  /\ conn' \in [Instances -> Connections]
         /\ conn'[i].s2c = q /\ conn'[i].c2s = conn[i].c2s
         /\ conn'[i].state = conn[i].state
         /\ \A j \in Instances \ {i} : conn'[j] = conn[j]
  BY Types DEF Connections

(* A counter that goes up by one, a sum that goes up by a frame.           *)
LEMMA CountsOne ==
  ASSUME NEW n, NEW n1, NEW f \in Nat, NEW i \in Instances, n \in [Instances -> 0 .. f],
         n[i] < f, n1 = [n EXCEPT ![i] = @ + 1]
  PROVE  n1 \in [Instances -> 0 .. f] /\ n1[i] = n[i] + 1
  OBVIOUS

LEMMA SumsOne ==
  ASSUME NEW n, NEW n1, NEW i \in Instances, n \in [Instances -> Int],
         n1 = [n EXCEPT ![i] = @ + frame_size]
  PROVE  n1 \in [Instances -> Int] /\ n1[i] = n[i] + frame_size
  BY SprayAssumption

(* Numbered frames stay numbered when the next is added and one is taken.  *)
LEMMA NumbersAdded ==
  ASSUME NEW n \in Nat, NEW l \in Nat, NEW q, NEW r,
         \A k \in 1 .. l : q[k] = n + k,
         \A k \in 1 .. l + 1 : r[k] = IF k = l + 1 THEN n + l + 1 ELSE q[k]
  PROVE  \A k \in 1 .. l + 1 : r[k] = n + k
<1>1. ASSUME NEW k \in 1 .. l + 1 PROVE r[k] = n + k
  <2>1. CASE k = l + 1
    BY <2>1
  <2>2. CASE k # l + 1
    <3>1. k \in 1 .. l
      BY <2>2
    <3>. QED BY <2>2, <3>1
  <2>. QED BY <2>1, <2>2
<1>. QED BY <1>1

LEMMA NumbersTaken ==
  ASSUME NEW n \in Nat, NEW l \in Nat \ {0}, NEW q, NEW r,
         \A k \in 1 .. l : q[k] = n + k, \A k \in 1 .. l - 1 : r[k] = q[k + 1]
  PROVE  q[1] = n + 1 /\ \A k \in 1 .. l - 1 : r[k] = n + 1 + k
<1>1. ASSUME NEW k \in 1 .. l - 1 PROVE r[k] = n + 1 + k
  <2>1. k + 1 \in 1 .. l
    OBVIOUS
  <2>2. q[k + 1] = n + (k + 1)
    BY <2>1
  <2>. QED BY <2>2
<1>. QED BY <1>1

LEMMA TransmitInv ==
  ASSUME IInv, NEW i \in Instances, Transmit(i) PROVE IInv'
<1>. DEFINE q == conn[i].c2s
<1>1. /\ tx[i] = "send" /\ sent[i] < frame_number /\ phase[i] = "run"
      /\ sent[i] \in Nat /\ frame_number \in Nat /\ frame_size \in Nat
      /\ conn[i].state # "closed" /\ txTotal[i] \in Int
  BY Of, SprayAssumption DEF Transmit, MoreToSend, IInv, TypeOK, Counting, NotRun
<1>4. /\ echo' = echo /\ two' = two /\ frame_number' = frame_number
      /\ phase' = phase /\ tx' = tx /\ rx' = rx /\ received' = received
      /\ rxTotal' = rxTotal /\ child' = child /\ arrived' = arrived
  BY DEF Transmit, options
<1>2. CASE /\ Up(i)
           /\ conn' = [conn EXCEPT ![i].c2s = Append(@, sent[i] + 1)]
           /\ sent' = [sent EXCEPT ![i] = @ + 1]
           /\ txTotal' = [txTotal EXCEPT ![i] = @ + frame_size]
  <2>1. sent[i] + 1 \in Frames
    BY <1>1 DEF Frames, NoFrame
  <2>2. /\ Append(q, sent[i] + 1) \in Seq(Frames)
        /\ Len(Append(q, sent[i] + 1)) = Len(q) + 1
        /\ \A k \in 1 .. Len(q) + 1 :
             Append(q, sent[i] + 1)[k] = IF k = Len(q) + 1 THEN sent[i] + 1 ELSE q[k]
    BY <2>1, Of, Added
  <2>. DEFINE r == Append(q, sent[i] + 1)
  <2>3. conn' = [conn EXCEPT ![i].c2s = r]
    BY <1>2
  <2>4. /\ conn' \in [Instances -> Connections]
        /\ conn'[i].c2s = r /\ conn'[i].s2c = conn[i].s2c
        /\ conn'[i].state = conn[i].state
        /\ \A j \in Instances \ {i} : conn'[j] = conn[j]
    <3>. HIDE DEF r
    <3>. QED BY <2>2, <2>3, ToServer DEF r
  <2>. HIDE DEF r
  <2>5. sent'[i] = sent[i] + 1 /\ txTotal'[i] = txTotal[i] + frame_size
    BY <1>2 DEF IInv, TypeOK
  <2>6. Up(i)' /\ Held(i)' = Held(i) /\ Held(i) \in {0, 1}
    BY <1>2, <1>4, <2>4 DEF Up, Held
  <2>7. TypeOK'
    <3>1. sent' \in [Instances -> 0 .. frame_number]
      BY <1>1, <1>2, Types, CountsOne
    <3>2. txTotal' \in [Instances -> Int]
      BY <1>2, Types, SumsOne
    <3>. QED BY <1>4, <2>4, <3>1, <3>2 DEF IInv, TypeOK, Connections
  <2>8. InOrder(i)'
    <3>1. /\ Len(arrived[i]) \in Nat /\ Len(conn[i].s2c) \in Nat /\ Len(q) \in Nat
          /\ InOrder(i)
      BY Of
    <3>. DEFINE n == Len(arrived[i]) + Len(conn[i].s2c) + Held(i)
    <3>2. n + Len(q) = sent[i] /\ \A k \in 1 .. Len(q) : q[k] = n + k
      BY <1>2, <3>1 DEF InOrder
    <3>3. n \in Nat
      <4>1. Held(i) \in Nat
        BY DEF Held
      <4>2. \A a, b, c \in Nat : a + b + c \in Nat
        OBVIOUS
      <4>. QED BY <3>1, <4>1, <4>2
    <3>4. /\ Len(r) = Len(q) + 1
          /\ \A k \in 1 .. Len(q) + 1 : r[k] = IF k = Len(q) + 1 THEN sent[i] + 1 ELSE q[k]
      BY <2>2 DEF r
    <3>. HIDE DEF n, q
    <3>5. \A k \in 1 .. Len(r) : r[k] = n + k
      <4>1. \A k \in 1 .. Len(q) + 1 :
              r[k] = IF k = Len(q) + 1 THEN n + Len(q) + 1 ELSE q[k]
        BY <3>2, <3>4
      <4>2. \A k \in 1 .. Len(q) + 1 : r[k] = n + k
        <5>1. Len(q) \in Nat /\ \A k \in 1 .. Len(q) : q[k] = n + k
          BY <3>1, <3>2
        <5>. DEFINE l == Len(q)
        <5>. HIDE DEF l
        <5>. QED BY <3>3, <4>1, <5>1, NumbersAdded DEF l
      <4>. QED BY <3>4, <4>2
    <3>6. n + Len(r) = sent'[i]
      BY <2>5, <3>1, <3>2, <3>3, <3>4
    <3>. USE DEF n
    <3>. QED BY <1>4, <2>4, <2>6, <3>1, <3>5, <3>6, <1>2 DEF InOrder
  <2>9. Counting(i)'
    <3>1. (sent[i] + 1) * frame_size = sent[i] * frame_size + frame_size
      BY <1>1, OneMore
    <3>. HIDE DEF q
    <3>. QED BY <1>1, <1>4, <2>4, <2>5, <3>1, Of DEF Counting
  <2>. QED
    BY <1>2, <1>4, <2>4, <2>7, <2>8, <2>9, OneMoves, Types DEF options
<1>3. CASE /\ ~Up(i)
           /\ sent' = [sent EXCEPT ![i] = frame_number]
           /\ txTotal' = [txTotal EXCEPT ![i] = NoSum]
           /\ UNCHANGED conn
  <2>1. TypeOK'
    <3>1. NoSum \in Int
      BY DEF NoSum
    <3>2. sent' \in [Instances -> 0 .. frame_number]
      BY <1>1, <1>3 DEF IInv, TypeOK
    <3>3. txTotal' \in [Instances -> Int]
      BY <1>3, <3>1 DEF IInv, TypeOK
    <3>. QED BY <1>3, <1>4, <3>2, <3>3 DEF IInv, TypeOK
  <2>2. InOrder(i)'
    BY <1>3, <1>4, Of DEF InOrder, Up, Held
  <2>3. conn[i].state = "lost"
    BY <1>1, <1>3, Of DEF Counting, Up
  <2>4. Counting(i)'
    BY <1>1, <1>3, <1>4, <2>3, Of, Types DEF Counting
  <2>. QED
    BY <1>3, <1>4, <2>1, <2>2, <2>4, OneMoves, Types DEF options
<1>. QED BY <1>2, <1>3 DEF Transmit, Sock

(* The last process that has a socket closes it.                           *)
LEMMA Closing ==
  ASSUME IInv, NEW i \in Instances, NEW c, c \in Cut([conn[i] EXCEPT !.s2c = <<>>], "closed"),
         conn' = [conn EXCEPT ![i] = c], UNCHANGED <<options, child, arrived>>
  PROVE  /\ conn' \in [Instances -> Connections] /\ conn'[i].state = "closed"
         /\ InOrder(i)' /\ \A j \in Instances \ {i} : conn'[j] = conn[j]
<1>. DEFINE e == [conn[i] EXCEPT !.s2c = <<>>]
<1>1. e \in Connections
  BY Of, Empty DEF Connections
<1>2. c \in Connections /\ c.state = "closed"
  <2>. HIDE DEF e
  <2>1. c \in Cut(e, "closed")
    BY DEF e
  <2>. QED BY <1>1, <2>1, CutType
<1>3. /\ conn' \in [Instances -> Connections] /\ conn'[i] = c
      /\ \A j \in Instances \ {i} : conn'[j] = conn[j]
  BY <1>2, Types
<1>4. InOrder(i)'
  <2>. HIDE DEF e
  <2>1. conn'[i] \in Cut(e, "closed")
    BY <1>3 DEF e
  <2>2. e = conn[i] \/ e = [conn[i] EXCEPT !.s2c = <<>>]
    BY DEF e
  <2>. QED BY <1>1, <2>1, <2>2, CutKeepsOrder
<1>. QED BY <1>2, <1>3, <1>4

LEMMA TransmitEndsInv ==
  ASSUME IInv, NEW i \in Instances, TransmitEnds(i) PROVE IInv'
<1>1. /\ tx[i] = "send" /\ (sent[i] >= frame_number \/ ~Up(i))
      /\ tx' = [tx EXCEPT ![i] = "done"]
      /\ echo' = echo /\ two' = two /\ frame_number' = frame_number
      /\ phase' = phase /\ rx' = rx /\ sent' = sent /\ txTotal' = txTotal
      /\ received' = received /\ rxTotal' = rxTotal /\ child' = child
      /\ arrived' = arrived
  BY Types DEF TransmitEnds, options, MoreToSend, Sock
<1>2. \/ conn' = conn
      \/ /\ rx[i] \in {"off", "done"} /\ Up(i)
         /\ \E c \in Cut([conn[i] EXCEPT !.s2c = <<>>], "closed") : conn' = [conn EXCEPT ![i] = c]
  BY DEF TransmitEnds, Leave
<1>3. /\ conn' \in [Instances -> Connections] /\ InOrder(i)'
      /\ \A j \in Instances \ {i} : conn'[j] = conn[j]
      /\ \/ conn'[i] = conn[i]
         \/ rx[i] \in {"off", "done"} /\ Up(i) /\ conn'[i].state = "closed"
  <2>1. CASE conn' = conn
    BY <1>1, <2>1, Of, Types, OrderKept
  <2>2. CASE conn' # conn
    BY <1>1, <1>2, <2>2, Closing DEF options
  <2>. QED BY <2>1, <2>2
<1>4. TypeOK'
  BY <1>1, <1>3 DEF IInv, TypeOK, Connections
<1>5. Counting(i)'
  <2>1. /\ phase[i] = "run" /\ tx'[i] = "done" /\ conn[i].state \in {"up", "lost"}
    BY <1>1, Of DEF Counting, NotRun, IInv, TypeOK
  <2>2. conn[i].state = "up" => sent[i] = frame_number
    BY <1>1, Types DEF Up
  <2>. QED BY <1>1, <1>3, <2>1, <2>2, Of DEF Counting, Up
<1>. QED
  <2>1. \A j \in Instances \ {i} : tx'[j] = tx[j]
    BY <1>1 DEF IInv, TypeOK
  <2>. QED BY <1>1, <1>3, <1>4, <1>5, <2>1, OneMoves DEF options

LEMMA ReceiveEndsInv ==
  ASSUME IInv, NEW i \in Instances, ReceiveEnds(i) PROVE IInv'
<1>1. /\ rx[i] = "recv" /\ received[i] = frame_number
      /\ rx' = [rx EXCEPT ![i] = "wait"]
      /\ echo' = echo /\ two' = two /\ frame_number' = frame_number
      /\ phase' = phase /\ tx' = tx /\ sent' = sent /\ txTotal' = txTotal
      /\ received' = received /\ rxTotal' = rxTotal /\ child' = child
      /\ arrived' = arrived /\ conn' = conn
  BY DEF ReceiveEnds, options
<1>2. TypeOK'
  BY <1>1 DEF IInv, TypeOK
<1>3. InOrder(i)'
  BY <1>1, Of, OrderKept
<1>4. rx'[i] = "wait" /\ \A j \in Instances \ {i} : rx'[j] = rx[j]
  BY <1>1 DEF IInv, TypeOK
<1>5. Counting(i)'
  BY <1>1, <1>4, Of DEF Counting, NotRun
<1>. QED BY <1>1, <1>2, <1>3, <1>4, <1>5, OneMoves DEF options

LEMMA WaitInv ==
  ASSUME IInv, NEW i \in Instances, Wait(i) PROVE IInv'
<1>1. /\ rx[i] = "wait" /\ rx' = [rx EXCEPT ![i] = "done"]
      /\ echo' = echo /\ two' = two /\ frame_number' = frame_number
      /\ phase' = phase /\ tx' = tx /\ sent' = sent /\ txTotal' = txTotal
      /\ received' = received /\ rxTotal' = rxTotal /\ child' = child
      /\ arrived' = arrived
  BY DEF Wait, options
<1>2. \/ conn' = conn
      \/ /\ tx[i] = "done" /\ Up(i)
         /\ \E c \in Cut([conn[i] EXCEPT !.s2c = <<>>], "closed") : conn' = [conn EXCEPT ![i] = c]
  BY DEF Wait, Leave
<1>3. /\ conn' \in [Instances -> Connections] /\ InOrder(i)'
      /\ \A j \in Instances \ {i} : conn'[j] = conn[j]
      /\ \/ conn'[i] = conn[i]
         \/ tx[i] = "done" /\ Up(i) /\ conn'[i].state = "closed"
  <2>1. CASE conn' = conn
    BY <1>1, <2>1, Of, Types, OrderKept
  <2>2. CASE conn' # conn
    BY <1>1, <1>2, <2>2, Closing DEF options
  <2>. QED BY <2>1, <2>2
<1>4. TypeOK'
  BY <1>1, <1>3 DEF IInv, TypeOK, Connections
<1>5. rx'[i] = "done" /\ \A j \in Instances \ {i} : rx'[j] = rx[j]
  BY <1>1 DEF IInv, TypeOK
<1>6. Counting(i)'
  BY <1>1, <1>3, <1>5, Of DEF Counting, NotRun, Up
<1>. QED BY <1>1, <1>3, <1>4, <1>5, <1>6, OneMoves DEF options

LEMMA ReceiveInv ==
  ASSUME IInv, NEW i \in Instances, Receive(i) PROVE IInv'
<1>. DEFINE q == conn[i].s2c
            a == arrived[i]
<1>1. /\ rx[i] = "recv" /\ received[i] < frame_number
      /\ echo' = echo /\ two' = two /\ frame_number' = frame_number
      /\ phase' = phase /\ tx' = tx /\ rx' = rx /\ sent' = sent
      /\ txTotal' = txTotal /\ child' = child
  BY DEF Receive, MayReceive, options
<1>2. phase[i] = "run" /\ conn[i].state # "closed"
  BY <1>1, Of DEF Counting, NotRun
<1>3. CASE /\ q # <<>>
           /\ received' = [received EXCEPT ![i] = @ + 1]
           /\ arrived' = [arrived EXCEPT ![i] = Append(a, Head(q))]
           /\ conn' = [conn EXCEPT ![i].s2c = Tail(@)]
           /\ rxTotal' = [rxTotal EXCEPT ![i] = @ + frame_size]
  <2>. DEFINE t == Tail(q)
              b == Append(a, Head(q))
  <2>1. /\ t \in Seq(Frames) /\ Len(q) \in Nat \ {0} /\ Len(t) = Len(q) - 1
        /\ \A k \in 1 .. Len(q) - 1 : t[k] = q[k + 1]
        /\ Head(q) = q[1] /\ Head(q) \in Frames
    BY <1>3, Of, Taken
  <2>2. /\ b \in Seq(Frames) /\ Len(b) = Len(a) + 1 /\ Len(a) \in Nat
        /\ \A k \in 1 .. Len(a) + 1 : b[k] = IF k = Len(a) + 1 THEN Head(q) ELSE a[k]
    BY <2>1, Of, Added
  <2>3. conn' = [conn EXCEPT ![i].s2c = t] /\ arrived' = [arrived EXCEPT ![i] = b]
    BY <1>3
  <2>. HIDE DEF t, b
  <2>4. /\ conn' \in [Instances -> Connections]
        /\ conn'[i].s2c = t /\ conn'[i].c2s = conn[i].c2s
        /\ conn'[i].state = conn[i].state
        /\ \A j \in Instances \ {i} : conn'[j] = conn[j]
    BY <2>1, <2>3, ToClient
  <2>5. /\ arrived' \in [Instances -> Seq(Frames)] /\ arrived'[i] = b
        /\ \A j \in Instances \ {i} : arrived'[j] = arrived[j]
    BY <2>2, <2>3, Types
  <2>6. /\ received' \in [Instances -> 0 .. frame_number] /\ received'[i] = received[i] + 1
        /\ \A j \in Instances \ {i} : received'[j] = received[j]
    BY <1>1, <1>3, Types, CountsOne
  <2>7. /\ rxTotal' \in [Instances -> Int] /\ rxTotal'[i] = rxTotal[i] + frame_size
        /\ \A j \in Instances \ {i} : rxTotal'[j] = rxTotal[j]
    BY <1>3, Types, SumsOne
  <2>8. TypeOK'
    BY <1>1, <2>4, <2>5, <2>6, <2>7 DEF IInv, TypeOK, Connections
  <2>9. InOrder(i)'
    <3>1. InOrder(i) /\ Len(conn[i].c2s) \in Nat
      BY Of
    <3>2. /\ \A k \in 1 .. Len(a) : a[k] = 0 + k
          /\ \A k \in 1 .. Len(q) : q[k] = Len(a) + k
      BY <2>2, <3>1 DEF InOrder
    <3>3. q[1] = Len(a) + 1 /\ \A k \in 1 .. Len(q) - 1 : t[k] = Len(a) + 1 + k
      <4>. DEFINE n == Len(a)
                  l == Len(q)
      <4>1. n \in Nat /\ l \in Nat \ {0} /\ \A k \in 1 .. l : q[k] = n + k
        BY <2>1, <2>2, <3>2
      <4>2. \A k \in 1 .. l - 1 : t[k] = q[k + 1]
        BY <2>1
      <4>. HIDE DEF n, l
      <4>3. q[1] = n + 1 /\ \A k \in 1 .. l - 1 : t[k] = n + 1 + k
        BY <4>1, <4>2, NumbersTaken
      <4>. QED BY <4>3 DEF n, l
    <3>4. \A k \in 1 .. Len(b) : b[k] = k
      <4>. DEFINE l == Len(a)
      <4>1. /\ l \in Nat /\ Len(b) = l + 1 /\ \A k \in 1 .. l : a[k] = 0 + k
            /\ \A k \in 1 .. l + 1 : b[k] = IF k = l + 1 THEN 0 + l + 1 ELSE a[k]
        <5>1. Head(q) = 0 + l + 1 /\ l \in Nat
          BY <2>1, <2>2, <3>3
        <5>. HIDE DEF a
        <5>. QED BY <2>2, <3>2, <5>1
      <4>. HIDE DEF a, l
      <4>2. \A k \in 1 .. l + 1 : b[k] = 0 + k
        BY <4>1, NumbersAdded
      <4>. QED BY <4>1, <4>2
    <3>5. \A k \in 1 .. Len(t) : t[k] = Len(b) + k
      BY <2>1, <2>2, <3>3
    <3>6. Held(i)' = Held(i) /\ Held(i) \in {0, 1} /\ (Up(i)' <=> Up(i))
      BY <1>1, <2>4 DEF Held, Up
    <3>7. Len(b) + Len(t) = Len(a) + Len(q) /\ Len(b) + Len(t) \in Nat
      <4>1. \A m \in Nat, n \in Nat \ {0} : (m + 1) + (n - 1) = m + n /\ m + n \in Nat
        OBVIOUS
      <4>2. /\ Len(a) \in Nat /\ Len(q) \in Nat \ {0}
            /\ Len(b) = Len(a) + 1 /\ Len(t) = Len(q) - 1
        BY <2>1, <2>2
      <4>. HIDE DEF a, q
      <4>. QED BY <4>1, <4>2
    <3>9. Len(q) # 0 /\ echo
      BY <2>1, <3>1 DEF InOrder
    <3>. QED BY <1>1, <2>4, <2>5, <3>1, <3>4, <3>5, <3>6, <3>7, <3>9 DEF InOrder
  <2>10. Counting(i)'
    <3>1. (received[i] + 1) * frame_size = received[i] * frame_size + frame_size
      BY <1>1, Types, OneMore
    <3>2. received[i] \in Nat /\ rxTotal[i] \in Int
      BY Types
    <3>. QED BY <1>1, <1>2, <2>4, <2>6, <2>7, <3>1, <3>2, Of DEF Counting
  <2>. QED BY <1>1, <2>4, <2>5, <2>6, <2>7, <2>8, <2>9, <2>10, OneMoves DEF options
<1>4. CASE /\ ~Up(i) /\ received' = [received EXCEPT ![i] = frame_number]
           /\ rxTotal' = [rxTotal EXCEPT ![i] = NoSum] \/ UNCHANGED rxTotal
           /\ UNCHANGED <<conn, arrived>>
  <2>1. conn[i].state = "lost"
    BY <1>2, <1>4, Of DEF Counting, Up
  <2>2. /\ received' \in [Instances -> 0 .. frame_number] /\ received'[i] = frame_number
        /\ \A j \in Instances \ {i} : received'[j] = received[j]
    BY <1>4, Types
  <2>3. /\ rxTotal' \in [Instances -> Int]
        /\ \A j \in Instances \ {i} : rxTotal'[j] = rxTotal[j]
    BY <1>4, Types DEF NoSum
  <2>4. TypeOK'
    BY <1>1, <1>4, <2>2, <2>3 DEF IInv, TypeOK
  <2>5. InOrder(i)'
    BY <1>1, <1>4, Of, OrderKept
  <2>6. Counting(i)'
    BY <1>1, <1>2, <1>4, <2>1, <2>2, Of DEF Counting
  <2>. QED BY <1>1, <1>4, <2>2, <2>3, <2>4, <2>5, <2>6, OneMoves DEF options
<1>. QED
  <2>1. Sock(i) = i
    BY DEF Sock
  <2>. QED BY <1>3, <1>4, <2>1 DEF Receive

(* InOrder in terms of the numbers of frames in each place.                *)
Numbering(i, m, n, h, l) ==
  /\ Len(arrived[i]) = m /\ Len(conn[i].s2c) = n /\ Len(conn[i].c2s) = l
  /\ Held(i) = h
  /\ \A k \in 1 .. m : arrived[i][k] = k
  /\ \A k \in 1 .. n : conn[i].s2c[k] = m + k
  /\ Up(i) \/ ~echo => \A k \in 1 .. l : conn[i].c2s[k] = m + n + h + k
  /\ Up(i) => m + n + h + l = sent[i]
  /\ Up(i) /\ h = 1 => child[i].frame = m + n + 1
  /\ ~echo => n = 0 /\ h = 0
  /\ child[i].frame # NoFrame <=> child[i].pc = "send"

LEMMA Numbers ==
  ASSUME IInv, NEW i \in Instances
  PROVE  \E m, n, h, l \in Nat : Numbering(i, m, n, h, l)
<1>1. /\ InOrder(i) /\ Len(arrived[i]) \in Nat /\ Len(conn[i].s2c) \in Nat
      /\ Len(conn[i].c2s) \in Nat
  BY Of
<1>2. Held(i) \in Nat
  BY DEF Held
<1>3. Numbering(i, Len(arrived[i]), Len(conn[i].s2c), Held(i), Len(conn[i].c2s))
  BY <1>1 DEF InOrder, Numbering
<1>. QED BY <1>1, <1>2, <1>3

LEMMA Numbered ==
  ASSUME NEW i \in Instances, NEW m \in Nat, NEW n \in Nat, NEW h \in Nat, NEW l \in Nat,
         Numbering(i, m, n, h, l)'
  PROVE  InOrder(i)'
  BY DEF InOrder, Numbering

LEMMA AcceptInv ==
  ASSUME IInv, NEW i \in Instances, Accept(i) PROVE IInv'
<1>1. /\ conn[i].state = "pending" /\ conn' = [conn EXCEPT ![i].state = "up"]
      /\ child' = [child EXCEPT ![i] = [pc |-> "recv", frame |-> NoFrame]]
      /\ echo' = echo /\ two' = two /\ frame_number' = frame_number
      /\ phase' = phase /\ tx' = tx /\ rx' = rx /\ sent' = sent
      /\ txTotal' = txTotal /\ received' = received /\ rxTotal' = rxTotal
      /\ arrived' = arrived
  BY DEF Accept, clientVars, options
<1>2. /\ conn' \in [Instances -> Connections] /\ conn'[i].state = "up"
      /\ conn'[i].c2s = conn[i].c2s /\ conn'[i].s2c = conn[i].s2c
      /\ \A j \in Instances \ {i} : conn'[j] = conn[j]
  BY <1>1, Types DEF Connections
<1>3. /\ child'[i].pc = "recv" /\ child'[i].frame = NoFrame
      /\ \A j \in Instances \ {i} : child'[j] = child[j]
  BY <1>1 DEF IInv, TypeOK
<1>4. TypeOK'
  BY <1>1, <1>2 DEF IInv, TypeOK, Connections, NoFrame
<1>5. phase[i] # "run" /\ NotRun(i)
  BY <1>1, Of DEF Counting
<1>6. InOrder(i)'
  <2>1. /\ arrived'[i] = <<>> /\ conn'[i].s2c = <<>> /\ conn'[i].c2s = <<>>
        /\ sent'[i] = 0 /\ Held(i)' = 0
    BY <1>1, <1>2, <1>3, <1>5 DEF Held, NotRun
  <2>2. Len(arrived'[i]) = 0 /\ Len(conn'[i].s2c) = 0 /\ Len(conn'[i].c2s) = 0
    BY <2>1, Empty
  <2>3. child'[i].frame = NoFrame /\ child'[i].pc # "send"
    BY <1>3
  <2>4. \A k \in 1 .. 0 : FALSE
    OBVIOUS
  <2>5. Numbering(i, 0, 0, 0, 0)'
    BY <2>1, <2>2, <2>3, <2>4 DEF Numbering
  <2>. QED BY <2>5, Numbered
<1>7. Counting(i)'
  BY <1>1, <1>2, <1>5, Of DEF Counting, NotRun
<1>. QED BY <1>1, <1>2, <1>3, <1>4, <1>6, <1>7, OneMoves DEF options

(* The child of the server moves the first frame on: to itself for an      *)
(* echo, to its end otherwise.                                             *)
LEMMA ServerRecvInv ==
  ASSUME IInv, NEW i \in Instances, ServerRecv(i) PROVE IInv'
<1>. DEFINE q == conn[i].c2s
            a == arrived[i]
            t == Tail(q)
<1>1. /\ child[i].pc = "recv"
      /\ echo' = echo /\ two' = two /\ frame_number' = frame_number
      /\ phase' = phase /\ tx' = tx /\ rx' = rx /\ sent' = sent
      /\ txTotal' = txTotal /\ received' = received /\ rxTotal' = rxTotal
  BY DEF ServerRecv, clientVars, options
<1>2. /\ InOrder(i) /\ child[i].frame = NoFrame /\ Held(i) = 0
      /\ Len(a) \in Nat /\ Len(conn[i].s2c) \in Nat /\ Len(q) \in Nat
  BY <1>1, Of DEF InOrder, Held
<1>3. ASSUME q # <<>>, conn' = [conn EXCEPT ![i].c2s = Tail(@)]
      PROVE  /\ t \in Seq(Frames) /\ Len(q) \in Nat \ {0} /\ Len(t) = Len(q) - 1
             /\ \A k \in 1 .. Len(q) - 1 : t[k] = q[k + 1]
             /\ Head(q) = q[1] /\ Head(q) \in Frames /\ phase[i] = "run"
             /\ conn' \in [Instances -> Connections]
             /\ conn'[i].c2s = t /\ conn'[i].s2c = conn[i].s2c
             /\ conn'[i].state = conn[i].state
             /\ \A j \in Instances \ {i} : conn'[j] = conn[j]
  <2>1. /\ t \in Seq(Frames) /\ Len(q) \in Nat \ {0} /\ Len(t) = Len(q) - 1
        /\ \A k \in 1 .. Len(q) - 1 : t[k] = q[k + 1]
        /\ Head(q) = q[1] /\ Head(q) \in Frames
    BY <1>3, Of, Taken
  <2>2. conn' = [conn EXCEPT ![i].c2s = t]
    BY <1>3
  <2>3. phase[i] = "run"
    BY <1>3, Of DEF Counting, NotRun
  <2>. HIDE DEF t
  <2>. QED BY <2>1, <2>2, <2>3, ToServer
<1>4. ASSUME NEW n \in Nat, Len(q) \in Nat \ {0}, \A k \in 1 .. Len(q) : q[k] = n + k,
             \A k \in 1 .. Len(q) - 1 : t[k] = q[k + 1]
      PROVE  q[1] = n + 1 /\ \A k \in 1 .. Len(q) - 1 : t[k] = n + 1 + k
  <2>. DEFINE l == Len(q)
  <2>. HIDE DEF l, q, t
  <2>. QED BY <1>4, NumbersTaken DEF l
<1>5. CASE /\ q # <<>> /\ conn' = [conn EXCEPT ![i].c2s = Tail(@)] /\ echo
           /\ child' = [child EXCEPT ![i] = [pc |-> "send", frame |-> Head(q)]]
           /\ arrived' = arrived
  <2>1. Head(q) \in Frames
    BY <1>3, <1>5
  <2>2. /\ child'[i].pc = "send" /\ child'[i].frame = Head(q)
        /\ \A j \in Instances \ {i} : child'[j] = child[j]
    BY <1>5 DEF IInv, TypeOK
  <2>3. Held(i)' = 1
    BY <2>1, <2>2 DEF Held, Frames
  <2>4. TypeOK'
    <3>1. child' \in [Instances -> [pc : {"off", "recv", "send", "done"}, frame : Nat]]
      BY <1>5, <2>1 DEF IInv, TypeOK, Frames
    <3>. QED BY <1>1, <1>3, <1>5, <3>1 DEF IInv, TypeOK, Connections
  <2>5. InOrder(i)'
    <3>0. PICK m, n, h, l \in Nat : Numbering(i, m, n, h, l)
      BY Numbers
    <3>1. /\ Len(arrived[i]) = m /\ Len(conn[i].s2c) = n /\ Len(conn[i].c2s) = l
          /\ Held(i) = h
          /\ \A k \in 1 .. m : arrived[i][k] = k
          /\ \A k \in 1 .. n : conn[i].s2c[k] = m + k
          /\ Up(i) => \A k \in 1 .. l : conn[i].c2s[k] = m + n + h + k
          /\ Up(i) => m + n + h + l = sent[i]
      BY <3>0 DEF Numbering
    <3>2. h = 0 /\ l \in Nat \ {0}
      BY <1>2, <1>3, <1>5, <3>1
    <3>3. m + n \in Nat /\ l - 1 \in Nat
      BY <3>2
    <3>4. Up(i) => q[1] = m + n + 1 /\ \A k \in 1 .. l - 1 : t[k] = m + n + 1 + k
      <4>. SUFFICES ASSUME Up(i)
                    PROVE  q[1] = m + n + 1 /\ \A k \in 1 .. l - 1 : t[k] = m + n + 1 + k
        OBVIOUS
      <4>1. /\ \A k \in 1 .. l : q[k] = m + n + k
            /\ \A k \in 1 .. l - 1 : t[k] = q[k + 1]
        BY <1>3, <1>5, <3>1, <3>2
      <4>. HIDE DEF q, t
      <4>. QED BY <3>2, <3>3, <4>1, NumbersTaken
    <3>5. Up(i) => m + n + 1 + (l - 1) = sent[i]
      BY <3>1, <3>2
    <3>6. /\ conn'[i].c2s = t /\ Len(t) = l - 1 /\ conn'[i].s2c = conn[i].s2c
          /\ (Up(i)' <=> Up(i)) /\ Head(q) = q[1]
      BY <1>3, <1>5, <3>1 DEF Up
    <3>7. child'[i].frame # NoFrame /\ child'[i].pc = "send" /\ echo'
      BY <1>1, <1>5, <2>1, <2>2 DEF Frames
    <3>8. Up(i)' => child'[i].frame = m + n + 1
      BY <2>2, <3>4, <3>6
    <3>. HIDE DEF q, t
    <3>9. Numbering(i, m, n, 1, l - 1)'
      BY <1>1, <1>5, <2>3, <3>1, <3>4, <3>5, <3>6, <3>7, <3>8 DEF Numbering
    <3>. QED BY <3>3, <3>9, Numbered
  <2>6. Counting(i)'
    BY <1>1, <1>3, <1>5, Of DEF Counting
  <2>. QED BY <1>1, <1>3, <1>5, <2>2, <2>4, <2>5, <2>6, OneMoves DEF options
<1>6. CASE /\ q # <<>> /\ conn' = [conn EXCEPT ![i].c2s = Tail(@)] /\ ~echo
           /\ arrived' = [arrived EXCEPT ![i] = Append(a, Head(q))]
           /\ child' = child
  <2>. DEFINE b == Append(a, Head(q))
  <2>1. /\ b \in Seq(Frames) /\ Len(b) = Len(a) + 1
        /\ \A k \in 1 .. Len(a) + 1 : b[k] = IF k = Len(a) + 1 THEN Head(q) ELSE a[k]
    BY <1>3, <1>6, Of, Added
  <2>2. arrived' = [arrived EXCEPT ![i] = b]
    BY <1>6
  <2>. HIDE DEF b
  <2>3. /\ arrived' \in [Instances -> Seq(Frames)] /\ arrived'[i] = b
        /\ \A j \in Instances \ {i} : arrived'[j] = arrived[j]
    BY <2>1, <2>2, Types
  <2>4. TypeOK'
    BY <1>1, <1>3, <1>6, <2>3 DEF IInv, TypeOK, Connections
  <2>5. InOrder(i)'
    <3>0. PICK m, n, h, l \in Nat : Numbering(i, m, n, h, l)
      BY Numbers
    <3>1. /\ Len(arrived[i]) = m /\ Len(conn[i].s2c) = n /\ Len(conn[i].c2s) = l
          /\ n = 0 /\ h = 0
          /\ \A k \in 1 .. m : arrived[i][k] = k
          /\ \A k \in 1 .. l : conn[i].c2s[k] = m + n + h + k
          /\ Up(i) => m + n + h + l = sent[i]
      BY <1>6, <3>0 DEF Numbering
    <3>2. l \in Nat \ {0} /\ l - 1 \in Nat /\ m + 1 \in Nat
      BY <1>3, <1>6, <3>1
    <3>3. q[1] = m + 1 /\ \A k \in 1 .. l - 1 : t[k] = m + 1 + k
      <4>1. /\ \A k \in 1 .. l : q[k] = m + k
            /\ \A k \in 1 .. l - 1 : t[k] = q[k + 1]
        BY <1>3, <1>6, <3>1
      <4>. HIDE DEF q, t
      <4>. QED BY <3>2, <4>1, NumbersTaken
    <3>4. Head(q) = q[1] /\ Len(t) = l - 1 /\ Len(b) = m + 1
      BY <1>3, <1>6, <2>1, <3>1
    <3>5. \A k \in 1 .. m + 1 : b[k] = k
      <4>1. /\ \A k \in 1 .. m : a[k] = 0 + k
            /\ \A k \in 1 .. m + 1 : b[k] = IF k = m + 1 THEN 0 + m + 1 ELSE a[k]
        BY <2>1, <3>1, <3>3, <3>4
      <4>. HIDE DEF a, q, t
      <4>2. \A k \in 1 .. m + 1 : b[k] = 0 + k
        BY <4>1, NumbersAdded
      <4>. QED BY <4>2
    <3>6. Up(i) => (m + 1) + 0 + 0 + (l - 1) = sent[i]
      BY <3>1, <3>2
    <3>7. \A k \in 1 .. l - 1 : t[k] = (m + 1) + 0 + 0 + k
      <4>1. \A k \in 1 .. l - 1 : m + 1 + k = (m + 1) + 0 + 0 + k
        OBVIOUS
      <4>. QED BY <3>3, <4>1
    <3>8. /\ conn'[i].c2s = t /\ conn'[i].s2c = conn[i].s2c
          /\ (Up(i)' <=> Up(i)) /\ Held(i)' = 0
      BY <1>2, <1>3, <1>6 DEF Up, Held
    <3>9. child'[i].frame = NoFrame /\ child'[i].pc # "send"
      BY <1>1, <1>2, <1>6
    <3>10. \A k \in 1 .. 0 : FALSE
      OBVIOUS
    <3>. HIDE DEF a, q, t
    <3>11. Numbering(i, m + 1, 0, 0, l - 1)'
      BY <1>1, <2>3, <3>1, <3>4, <3>5, <3>6, <3>7, <3>8, <3>9, <3>10 DEF Numbering
    <3>. QED BY <3>2, <3>11, Numbered
  <2>6. Counting(i)'
    BY <1>1, <1>3, <1>6, Of DEF Counting
  <2>. QED BY <1>1, <1>3, <1>6, <2>3, <2>4, <2>5, <2>6, OneMoves DEF options
<1>7. CASE /\ ~Up(i) /\ child' = [child EXCEPT ![i].pc = "done"]
           /\ conn' = conn /\ arrived' = arrived
  <2>1. /\ child'[i].pc = "done" /\ child'[i].frame = NoFrame
        /\ \A j \in Instances \ {i} : child'[j] = child[j]
    BY <1>2, <1>7 DEF IInv, TypeOK
  <2>2. TypeOK'
    <3>1. child \in [Instances -> [pc : {"off", "recv", "send", "done"}, frame : Nat]]
      BY DEF IInv, TypeOK
    <3>2. child' \in [Instances -> [pc : {"off", "recv", "send", "done"}, frame : Nat]]
      BY <1>7, <3>1
    <3>. QED BY <1>1, <1>7, <3>2 DEF IInv, TypeOK
  <2>3. InOrder(i)'
    <3>1. PICK m, n, h, l \in Nat : Numbering(i, m, n, h, l)
      BY Numbers
    <3>2. /\ Held(i)' = 0 /\ (Up(i)' <=> Up(i)) /\ ~Up(i)'
          /\ child'[i].frame = NoFrame /\ child'[i].pc # "send"
      BY <1>7, <2>1 DEF Held, Up
    <3>3. h = 0
      BY <1>2, <3>1 DEF Numbering
    <3>4. Numbering(i, m, n, h, l)'
      BY <1>1, <1>2, <1>7, <3>1, <3>2, <3>3 DEF Numbering
    <3>. QED BY <3>4, Numbered
  <2>4. Counting(i)'
    BY <1>1, <1>7, Of, CountKept
  <2>. QED BY <1>1, <1>7, <2>1, <2>2, <2>3, <2>4, OneMoves DEF options
<1>. QED BY <1>5, <1>6, <1>7 DEF ServerRecv

LEMMA ServerSendInv ==
  ASSUME IInv, NEW i \in Instances, ServerSend(i) PROVE IInv'
<1>. DEFINE q == conn[i].s2c
            f == child[i].frame
            r == Append(q, f)
<1>1. /\ child[i].pc = "send"
      /\ echo' = echo /\ two' = two /\ frame_number' = frame_number
      /\ phase' = phase /\ tx' = tx /\ rx' = rx /\ sent' = sent
      /\ txTotal' = txTotal /\ received' = received /\ rxTotal' = rxTotal
      /\ arrived' = arrived
  BY DEF ServerSend, clientVars, options
<1>2. PICK m, n, h, l \in Nat : Numbering(i, m, n, h, l)
  BY Numbers
<1>3. f \in Frames /\ h = 1 /\ echo
  <2>1. f # NoFrame
    BY <1>1, <1>2 DEF Numbering
  <2>2. h = 1
    BY <1>2, <2>1 DEF Numbering, Held
  <2>3. echo
    BY <1>2, <2>2 DEF Numbering
  <2>. QED BY <2>1, <2>2, <2>3, Of DEF Frames
<1>4. CASE /\ Up(i) /\ conn' = [conn EXCEPT ![i].s2c = Append(@, child[i].frame)]
           /\ child' = [child EXCEPT ![i] = [pc |-> "recv", frame |-> NoFrame]]
  <2>1. /\ r \in Seq(Frames) /\ Len(r) = Len(q) + 1
        /\ \A k \in 1 .. Len(q) + 1 : r[k] = IF k = Len(q) + 1 THEN f ELSE q[k]
    BY <1>3, Of, Added
  <2>2. conn' = [conn EXCEPT ![i].s2c = r]
    BY <1>4
  <2>. HIDE DEF r
  <2>3. /\ conn' \in [Instances -> Connections]
        /\ conn'[i].s2c = r /\ conn'[i].c2s = conn[i].c2s
        /\ conn'[i].state = conn[i].state
        /\ \A j \in Instances \ {i} : conn'[j] = conn[j]
    BY <2>1, <2>2, ToClient
  <2>4. /\ child' \in [Instances -> [pc : {"off", "recv", "send", "done"}, frame : Nat]]
        /\ child'[i].pc = "recv" /\ child'[i].frame = NoFrame
        /\ \A j \in Instances \ {i} : child'[j] = child[j]
    BY <1>4 DEF IInv, TypeOK, NoFrame
  <2>5. TypeOK'
    BY <1>1, <2>3, <2>4 DEF IInv, TypeOK, Connections
  <2>6. InOrder(i)'
    <3>1. /\ Len(arrived[i]) = m /\ Len(q) = n /\ Len(conn[i].c2s) = l
          /\ \A k \in 1 .. m : arrived[i][k] = k
          /\ \A k \in 1 .. n : q[k] = m + k
          /\ \A k \in 1 .. l : conn[i].c2s[k] = m + n + 1 + k
          /\ m + n + 1 + l = sent[i] /\ f = m + n + 1
      BY <1>2, <1>3, <1>4 DEF Numbering
    <3>2. Len(r) = n + 1 /\ \A k \in 1 .. n + 1 : r[k] = m + k
      <4>1. /\ \A k \in 1 .. n : q[k] = m + k
            /\ \A k \in 1 .. n + 1 : r[k] = IF k = n + 1 THEN m + n + 1 ELSE q[k]
        BY <2>1, <3>1
      <4>2. Len(r) = n + 1
        BY <2>1, <3>1
      <4>. HIDE DEF q, f
      <4>3. \A k \in 1 .. n + 1 : r[k] = m + k
        BY <4>1, NumbersAdded
      <4>. QED BY <4>2, <4>3
    <3>3. /\ m + (n + 1) + 0 + l = sent[i]
          /\ \A k \in 1 .. l : m + n + 1 + k = m + (n + 1) + 0 + k
      <4>. HIDE DEF q, f
      <4>. QED BY <3>1
    <3>4. \A k \in 1 .. l : conn[i].c2s[k] = m + (n + 1) + 0 + k
      BY <3>1, <3>3
    <3>5. Held(i)' = 0 /\ child'[i].pc # "send" /\ echo'
      BY <1>1, <1>3, <2>4 DEF Held
    <3>. HIDE DEF q, f
    <3>6. Numbering(i, m, n + 1, 0, l)'
      BY <1>1, <2>3, <2>4, <3>1, <3>2, <3>3, <3>4, <3>5 DEF Numbering
    <3>. QED BY <3>6, Numbered
  <2>7. Counting(i)'
    <3>1. conn[i].state # "closed" /\ phase[i] = "run"
      <4>1. ~NotRun(i)
        <5>1. NotRun(i) => m = 0 /\ n = 0 /\ l = 0 /\ sent[i] = 0
          BY <1>2, Empty DEF NotRun, Numbering
        <5>2. m + n + 1 + l = sent[i]
          BY <1>2, <1>3, <1>4 DEF Numbering
        <5>. QED BY <5>1, <5>2
      <4>. QED BY <1>4, <4>1, Of DEF Counting, Up
    <3>. QED BY <1>1, <2>3, <3>1, Of DEF Counting
  <2>. QED BY <1>1, <2>3, <2>4, <2>5, <2>6, <2>7, OneMoves DEF options
<1>5. CASE /\ ~Up(i) /\ child' = [child EXCEPT ![i] = [pc |-> "done", frame |-> NoFrame]]
           /\ conn' = conn
  <2>1. /\ child' \in [Instances -> [pc : {"off", "recv", "send", "done"}, frame : Nat]]
        /\ child'[i].pc = "done" /\ child'[i].frame = NoFrame
        /\ \A j \in Instances \ {i} : child'[j] = child[j]
    BY <1>5 DEF IInv, TypeOK, NoFrame
  <2>2. TypeOK'
    BY <1>1, <1>5, <2>1 DEF IInv, TypeOK
  <2>3. InOrder(i)'
    <3>1. Held(i)' = 0 /\ ~Up(i)' /\ child'[i].pc # "send" /\ echo'
      BY <1>1, <1>3, <1>5, <2>1 DEF Held, Up
    <3>2. Numbering(i, m, n, 0, l)'
      BY <1>1, <1>2, <1>5, <2>1, <3>1 DEF Numbering
    <3>. QED BY <3>2, Numbered
  <2>4. Counting(i)'
    BY <1>1, <1>5, Of, CountKept
  <2>. QED BY <1>1, <1>5, <2>1, <2>2, <2>3, <2>4, OneMoves DEF options
<1>. QED BY <1>4, <1>5 DEF ServerSend

-----------------------------------------------------------------------------
LEMMA NextIInv == IInv /\ [Next]_vars => IInv'
<1>. SUFFICES ASSUME IInv, [Next]_vars PROVE IInv'
  OBVIOUS
<1>1. ASSUME NEW d \in Devices, DeviceComes(d) \/ DeviceLeaves(d) PROVE IInv'
  BY <1>1, DeviceComesInv, DeviceLeavesInv
<1>2. ASSUME NEW i \in Instances,
             \/ CheckDiscovery(i) \/ WaitForDevice(i) \/ AutoConnect(i) \/ Choose(i)
             \/ ConnectFails(i) \/ Connected(i)
      PROVE  IInv'
  BY <1>2, CheckDiscoveryInv, WaitForDeviceInv, AutoConnectInv, ChooseInv,
     ConnectFailsInv, ConnectedInv
<1>3. ASSUME NEW i \in Instances,
             \/ Transmit(i) \/ TransmitEnds(i) \/ Receive(i) \/ ReceiveEnds(i) \/ Wait(i)
             \/ Accept(i) \/ ServerRecv(i) \/ ServerSend(i)
      PROVE  IInv'
  BY <1>3, TransmitInv, TransmitEndsInv, ReceiveInv, ReceiveEndsInv, WaitInv,
     AcceptInv, ServerRecvInv, ServerSendInv
<1>4. CASE UNCHANGED vars
  <2>1. TypeOK'
    BY <1>4 DEF IInv, TypeOK, vars, options, clientVars
  <2>2. ASSUME NEW j \in Instances PROVE InOrder(j)' /\ Counting(j)'
    BY <1>4, <2>2, Of, OrderKept, CountKept DEF vars, options, clientVars
  <2>3. phase' = phase
    BY <1>4 DEF vars, clientVars
  <2>. QED BY <2>1, <2>2, <2>3 DEF IInv
<1>. QED BY <1>1, <1>2, <1>3, <1>4 DEF Next

(* The strengthened invariant holds in every reachable state.              *)
THEOREM Inductive == Spec => []IInv
  BY InitIInv, NextIInv, PTL DEF Spec

(* The variables of clients, sockets and children keep their types.        *)
THEOREM TypeCorrect == Spec => []TypeOK
<1>1. IInv => TypeOK
  BY DEF IInv
<1>. QED BY <1>1, Inductive, PTL

(* What irdaspray_transmit and irdaspray_receive sum up are the bytes      *)
(* transferred, unless the connection was lost under them.                 *)
THEOREM Totals == Spec => []TotalsAgree
<1>1. IInv => TotalsAgree
  <2>. SUFFICES ASSUME IInv, NEW i \in Instances, conn[i].state # "lost"
                PROVE  /\ tx[i] = "done" => txTotal[i] = frame_number * frame_size
                       /\ rx[i] \in {"wait", "done"} => rxTotal[i] = frame_number * frame_size
    BY DEF TotalsAgree
  <2>. QED BY Of DEF Counting
<1>. QED BY <1>1, Inductive, PTL

(* A sequence of the n numbers that follow z; two that follow each other   *)
(* are one, and the one that starts at 1 is the sequence of its indices.   *)
Consecutive(q, z, n) ==
  /\ q \in Seq(Frames) /\ Len(q) = n
  /\ \A k \in 1 .. n : q[k] = z + k

LEMMA Joined ==
  ASSUME NEW z \in Nat, NEW n \in Nat, NEW m \in Nat, NEW q, NEW r,
         Consecutive(q, z, n), Consecutive(r, z + n, m)
  PROVE  Consecutive(q \o r, z, n + m)
<1>0. /\ q \in Seq(Frames) /\ Len(q) = n /\ \A k \in 1 .. n : q[k] = z + k
      /\ r \in Seq(Frames) /\ Len(r) = m /\ \A k \in 1 .. m : r[k] = z + n + k
  BY DEF Consecutive
<1>1. /\ q \o r \in Seq(Frames) /\ Len(q \o r) = n + m
      /\ \A k \in 1 .. n + m : (q \o r)[k] = IF k <= n THEN q[k] ELSE r[k - n]
  BY <1>0, ConcatProperties
<1>. DEFINE c == q \o r
<1>. HIDE DEF c
<1>2. ASSUME NEW k \in 1 .. n + m PROVE c[k] = z + k
  <2>1. c[k] = IF k <= n THEN q[k] ELSE r[k - n]
    BY <1>1 DEF c
  <2>2. CASE k <= n
    <3>1. k \in 1 .. n
      BY <2>2
    <3>. QED BY <1>0, <2>1, <2>2, <3>1
  <2>3. CASE ~(k <= n)
    <3>1. k - n \in 1 .. m /\ z + n + (k - n) = z + k
      BY <2>3
    <3>. QED BY <1>0, <2>1, <2>3, <3>1
  <2>. QED BY <2>2, <2>3
<1>3. c \in Seq(Frames) /\ Len(c) = n + m
  BY <1>1 DEF c
<1>4. Consecutive(c, z, n + m)
  BY <1>2, <1>3 DEF Consecutive
<1>. QED BY <1>4 DEF c

LEMMA IsNumbers ==
  ASSUME NEW q, NEW n \in Nat, Consecutive(q, 0, n)
  PROVE  q = [k \in 1 .. n |-> k]
<1>1. q \in Seq(Frames) /\ Len(q) = n /\ \A k \in 1 .. n : q[k] = 0 + k
  BY DEF Consecutive
<1>2. q \in [1 .. n -> Frames]
  BY <1>1, LenProperties
<1>3. \A k \in 1 .. n : q[k] = k
  BY <1>1
<1>. QED BY <1>2, <1>3

(* No frame is lost, doubled, reordered or mixed up (irdaspray_transmit,   *)
(* irdaspray_receive and the child of ir_server between them).             *)
THEOREM Conserved == Spec => []FramesConserved
<1>1. IInv => FramesConserved
  <2>. SUFFICES ASSUME IInv, NEW i \in Instances
                PROVE  LET held == IF child[i].frame = NoFrame THEN <<>> ELSE <<child[i].frame>>
                           way  == arrived[i] \o conn[i].s2c \o held \o conn[i].c2s
                       IN  /\ conn[i].state = "up" => way = [k \in 1 .. sent[i] |-> k]
                           /\ arrived[i] = [k \in 1 .. Len(arrived[i]) |-> k]
    BY DEF FramesConserved
  <2>. DEFINE held == IF child[i].frame = NoFrame THEN <<>> ELSE <<child[i].frame>>
  <2>1. PICK m, n, h, l \in Nat : Numbering(i, m, n, h, l)
    BY Numbers
  <2>2. /\ arrived[i] \in Seq(Frames) /\ conn[i].s2c \in Seq(Frames)
        /\ conn[i].c2s \in Seq(Frames)
    BY Of
  <2>3. /\ Len(arrived[i]) = m /\ Len(conn[i].s2c) = n /\ Len(conn[i].c2s) = l
        /\ \A k \in 1 .. m : arrived[i][k] = k
        /\ \A k \in 1 .. n : conn[i].s2c[k] = m + k
    BY <2>1 DEF Numbering
  <2>4. Consecutive(arrived[i], 0, m)
    <3>1. \A k \in 1 .. m : arrived[i][k] = 0 + k
      BY <2>3
    <3>. QED BY <2>2, <2>3, <3>1 DEF Consecutive
  <2>5. arrived[i] = [k \in 1 .. Len(arrived[i]) |-> k]
    BY <2>3, <2>4, IsNumbers
  <2>6. ASSUME conn[i].state = "up"
        PROVE  arrived[i] \o conn[i].s2c \o held \o conn[i].c2s = [k \in 1 .. sent[i] |-> k]
    <3>1. /\ \A k \in 1 .. l : conn[i].c2s[k] = m + n + h + k
          /\ m + n + h + l = sent[i] /\ h = Held(i)
          /\ h = 1 => child[i].frame = m + n + 1
      BY <2>1, <2>6 DEF Numbering, Up
    <3>2. Consecutive(held, m + n, h)
      <4>1. CASE child[i].frame = NoFrame
        <5>1. h = 0 /\ held = <<>>
          BY <3>1, <4>1 DEF Held
        <5>. QED BY <5>1, Empty DEF Consecutive
      <4>2. CASE child[i].frame # NoFrame
        <5>1. h = 1 /\ held = <<m + n + 1>>
          BY <3>1, <4>2 DEF Held
        <5>2. m + n + 1 \in Frames
          BY DEF Frames, NoFrame
        <5>. QED BY <5>1, <5>2 DEF Consecutive
      <4>. QED BY <4>1, <4>2
    <3>. HIDE DEF held
    <3>3. Consecutive(conn[i].s2c, m, n) /\ Consecutive(conn[i].c2s, m + n + h, l)
      BY <2>2, <2>3, <3>1 DEF Consecutive
    <3>4. /\ 0 \in Nat /\ m + n \in Nat /\ m + n + h \in Nat /\ m + n + h + l \in Nat
          /\ 0 + m = m /\ 0 + (m + n) = m + n /\ 0 + (m + n + h) = m + n + h
      OBVIOUS
    <3>5. Consecutive(arrived[i] \o conn[i].s2c, 0, m + n)
      BY <2>4, <3>3, <3>4, Joined, Zenon
    <3>6. Consecutive(arrived[i] \o conn[i].s2c \o held, 0, m + n + h)
      BY <3>2, <3>4, <3>5, Joined, Zenon
    <3>7. Consecutive(arrived[i] \o conn[i].s2c \o held \o conn[i].c2s, 0, m + n + h + l)
      BY <3>3, <3>4, <3>6, Joined, Zenon
    <3>. QED BY <3>1, <3>4, <3>7, IsNumbers, Zenon
  <2>. QED BY <2>5, <2>6
<1>. QED BY <1>1, Inductive, PTL

-----------------------------------------------------------------------------
(* No circular wait, and no endless transfer.                              *)
AllLinked == \A i \in Instances : Linked(i)

(* What Linked and Work say of an instance depends on these only.          *)
Same(i) ==
  /\ tx'[i] = tx[i] /\ rx'[i] = rx[i] /\ sent'[i] = sent[i] /\ received'[i] = received[i]
  /\ arrived'[i] = arrived[i] /\ conn'[i] = conn[i] /\ child'[i] = child[i]

LEMMA LinkedSame ==
  ASSUME NEW i \in Instances, Linked(i), echo' = echo, phase'[i] = phase[i], Same(i)
  PROVE  Linked(i)'
  BY DEF Linked, Same

LEMMA WorkSame ==
  ASSUME NEW i \in Instances, frame_number' = frame_number, Same(i)
  PROVE  Work(i)' = Work(i)
  BY DEF Work, TxLeft, RxLeft, ChildLeft, Same

(* The terms of Work, as numbers.                                          *)
Terms(i, f, s, r, c, d, t, x, h) ==
  /\ frame_number = f /\ sent[i] = s /\ received[i] = r
  /\ Len(conn[i].c2s) = c /\ Len(conn[i].s2c) = d
  /\ TxLeft(i) = t /\ RxLeft(i) = x /\ ChildLeft(i) = h

LEMMA TermsAre ==
  ASSUME IInv, NEW i \in Instances
  PROVE  \E f \in Nat : \E s, r \in 0 .. f, c, d, t, x, h \in Nat : Terms(i, f, s, r, c, d, t, x, h)
<1>1. /\ frame_number \in Nat /\ sent[i] \in 0 .. frame_number
      /\ received[i] \in 0 .. frame_number
      /\ Len(conn[i].c2s) \in Nat /\ Len(conn[i].s2c) \in Nat
  BY Of, Types
<1>2. TxLeft(i) \in Nat /\ RxLeft(i) \in Nat /\ ChildLeft(i) \in Nat
  BY DEF TxLeft, RxLeft, ChildLeft
<1>. QED BY <1>1, <1>2 DEF Terms

(* A smaller number; the second part spares the typing of the first.       *)
Lower(i) == Work(i)' < Work(i) /\ Work(i)' <= Work(i)

LEMMA Lowers ==
  ASSUME NEW i \in Instances, NEW f \in Nat, NEW s \in 0 .. f, NEW r \in 0 .. f,
         NEW c \in Nat, NEW d \in Nat, NEW t \in Nat, NEW x \in Nat, NEW h \in Nat,
         NEW s1 \in 0 .. f, NEW r1 \in 0 .. f, NEW c1 \in Nat, NEW d1 \in Nat,
         NEW t1 \in Nat, NEW x1 \in Nat, NEW h1 \in Nat,
         Terms(i, f, s, r, c, d, t, x, h), Terms(i, f, s1, r1, c1, d1, t1, x1, h1)',
         3 * c1 + d1 + t1 + x1 + h1 + 4 * s + r < 3 * c + d + t + x + h + 4 * s1 + r1
  PROVE  Lower(i)
<1>1. Work(i) = 4 * (f - s) + 3 * c + d + (f - r) + t + x + h
  BY DEF Work, Terms
<1>2. Work(i)' = 4 * (f - s1) + 3 * c1 + d1 + (f - r1) + t1 + x1 + h1
  BY DEF Work, Terms
<1>3. 4 * (f - s1) + 3 * c1 + d1 + (f - r1) + t1 + x1 + h1
        < 4 * (f - s) + 3 * c + d + (f - r) + t + x + h
  OBVIOUS
<1>4. 4 * (f - s1) + 3 * c1 + d1 + (f - r1) + t1 + x1 + h1
        <= 4 * (f - s) + 3 * c + d + (f - r) + t + x + h
  OBVIOUS
<1>. QED BY <1>1, <1>2, <1>3, <1>4 DEF Lower

(* What a process that leaves does to the connection.                      *)
LEMMA Leaving ==
  ASSUME IInv, NEW i \in Instances, NEW last \in BOOLEAN, Leave(i, last),
         UNCHANGED <<options, child, arrived>>
  PROVE  /\ \A j \in Instances \ {i} : conn'[j] = conn[j]
         /\ Len(conn'[i].c2s) \in Nat /\ Len(conn'[i].c2s) <= Len(conn[i].c2s)
         /\ Len(conn'[i].s2c) \in Nat /\ Len(conn'[i].s2c) <= Len(conn[i].s2c)
         /\ \/ conn'[i] = conn[i] /\ ~(last /\ Up(i))
            \/ conn'[i].state = "closed"
<1>1. CASE ~(last /\ Up(i))
  BY <1>1, Of DEF Leave
<1>2. CASE last /\ Up(i)
  <2>. DEFINE e == [conn[i] EXCEPT !.s2c = <<>>]
  <2>1. PICK c \in Cut(e, "closed") : conn' = [conn EXCEPT ![i] = c]
    BY <1>2 DEF Leave
  <2>2. /\ e \in Connections /\ e.c2s = conn[i].c2s /\ Len(e.s2c) = 0
    BY Of, Empty DEF Connections
  <2>3. conn'[i] = c /\ \A j \in Instances \ {i} : conn'[j] = conn[j]
    BY <2>1, Types
  <2>. HIDE DEF e
  <2>4. /\ c.state = "closed" /\ Len(c.c2s) \in Nat /\ Len(c.c2s) <= Len(e.c2s)
        /\ Len(c.s2c) \in Nat /\ Len(c.s2c) <= Len(e.s2c)
    BY <2>1, <2>2, CutLeaves
  <2>5. Len(conn[i].s2c) \in Nat
    BY Of
  <2>. QED BY <2>2, <2>3, <2>4, <2>5
<1>. QED BY <1>1, <1>2

(* A step of one of an instance's processes.                               *)
Step(i) ==
  /\ UNCHANGED <<options, phase>> /\ \A j \in Instances \ {i} : Same(j)
  /\ Linked(i)' /\ Lower(i)

LEMMA TransmitStep ==
  ASSUME IInv, NEW i \in Instances, Linked(i), Transmit(i)
  PROVE  Step(i)
<1>. DEFINE q == conn[i].c2s
<1>1. /\ UNCHANGED <<options, phase>> /\ tx[i] = "send" /\ sent[i] < frame_number
      /\ echo' = echo /\ frame_number' = frame_number /\ phase' = phase /\ tx' = tx
      /\ rx' = rx /\ received' = received /\ child' = child /\ arrived' = arrived
  BY DEF Transmit, MoreToSend, options
<1>2. PICK f \in Nat : \E s, r \in 0 .. f, c, d, t, x, h \in Nat :
        Terms(i, f, s, r, c, d, t, x, h)
  BY TermsAre
<1>3. PICK s \in 0 .. f, r \in 0 .. f, c \in Nat, d \in Nat, t \in Nat, x \in Nat, h \in Nat :
        Terms(i, f, s, r, c, d, t, x, h)
  BY <1>2
<1>4. TxLeft(i)' = t /\ RxLeft(i)' = x /\ ChildLeft(i)' = h
  BY <1>1, <1>3 DEF TxLeft, RxLeft, ChildLeft, Terms
<1>5. s < f
  BY <1>1, <1>3 DEF Terms
<1>6. CASE /\ conn' = [conn EXCEPT ![i].c2s = Append(@, sent[i] + 1)]
           /\ sent' = [sent EXCEPT ![i] = @ + 1]
  <2>1. sent[i] + 1 \in Frames
    BY <1>3 DEF Frames, NoFrame, Terms
  <2>2. Append(q, sent[i] + 1) \in Seq(Frames) /\ Len(Append(q, sent[i] + 1)) = Len(q) + 1
    BY <2>1, Of, Added
  <2>3. /\ conn'[i].c2s = Append(q, sent[i] + 1) /\ conn'[i].s2c = conn[i].s2c
        /\ conn'[i].state = conn[i].state
        /\ \A j \in Instances \ {i} : conn'[j] = conn[j]
    BY <1>6, <2>2, ToServer
  <2>4. sent'[i] = sent[i] + 1 /\ \A j \in Instances \ {i} : sent'[j] = sent[j]
    BY <1>6, Types
  <2>5. Terms(i, f, s + 1, r, c + 1, d, t, x, h)'
    BY <1>1, <1>3, <1>4, <2>2, <2>3, <2>4 DEF Terms
  <2>6. Lower(i)
    <3>1. /\ s + 1 \in 0 .. f /\ c + 1 \in Nat
          /\ 3 * (c + 1) + d + t + x + h + 4 * s + r < 3 * c + d + t + x + h + 4 * (s + 1) + r
      BY <1>5
    <3>. QED BY <1>3, <2>5, <3>1, Lowers
  <2>7. Linked(i)'
    BY <1>1, <2>3 DEF Linked
  <2>. QED BY <1>1, <2>3, <2>4, <2>6, <2>7 DEF Step, Same
<1>7. CASE sent' = [sent EXCEPT ![i] = frame_number] /\ conn' = conn
  <2>1. sent'[i] = frame_number /\ \A j \in Instances \ {i} : sent'[j] = sent[j]
    BY <1>7, Types
  <2>2. Terms(i, f, f, r, c, d, t, x, h)'
    BY <1>1, <1>3, <1>4, <1>7, <2>1 DEF Terms
  <2>3. Lower(i)
    <3>1. f \in 0 .. f /\ 3 * c + d + t + x + h + 4 * s + r < 3 * c + d + t + x + h + 4 * f + r
      BY <1>5
    <3>. QED BY <1>3, <2>2, <3>1, Lowers
  <2>4. Linked(i)'
    BY <1>1, <1>7 DEF Linked
  <2>. QED BY <1>1, <1>7, <2>1, <2>3, <2>4 DEF Step, Same
<1>. QED BY <1>6, <1>7 DEF Transmit, Sock

LEMMA TransmitEndsStep ==
  ASSUME IInv, NEW i \in Instances, Linked(i), TransmitEnds(i)
  PROVE  Step(i)
<1>1. /\ UNCHANGED <<options, phase, child, arrived>> /\ tx[i] = "send"
      /\ echo' = echo /\ frame_number' = frame_number /\ phase' = phase
      /\ tx' = [tx EXCEPT ![i] = "done"] /\ sent' = sent
      /\ rx' = rx /\ received' = received /\ child' = child /\ arrived' = arrived
      /\ Leave(i, rx[i] \in {"off", "done"})
  BY DEF TransmitEnds, options
<1>2. /\ \A j \in Instances \ {i} : conn'[j] = conn[j]
      /\ Len(conn'[i].c2s) \in Nat /\ Len(conn'[i].c2s) <= Len(conn[i].c2s)
      /\ Len(conn'[i].s2c) \in Nat /\ Len(conn'[i].s2c) <= Len(conn[i].s2c)
      /\ \/ conn'[i] = conn[i] /\ ~(rx[i] \in {"off", "done"} /\ Up(i))
         \/ conn'[i].state = "closed"
  <2>. DEFINE last == rx[i] \in {"off", "done"}
  <2>1. last \in BOOLEAN /\ Leave(i, last)
    BY <1>1
  <2>. HIDE DEF last
  <2>2. /\ \A j \in Instances \ {i} : conn'[j] = conn[j]
        /\ Len(conn'[i].c2s) \in Nat /\ Len(conn'[i].c2s) <= Len(conn[i].c2s)
        /\ Len(conn'[i].s2c) \in Nat /\ Len(conn'[i].s2c) <= Len(conn[i].s2c)
        /\ (conn'[i] = conn[i] /\ ~(last /\ Up(i))) \/ conn'[i].state = "closed"
    BY <1>1, <2>1, Leaving
  <2>. QED BY <2>2 DEF last
<1>3. tx'[i] = "done" /\ \A j \in Instances \ {i} : tx'[j] = tx[j]
  BY <1>1 DEF IInv, TypeOK
<1>4. Lower(i)
  <2>1. PICK f \in Nat : \E s, r \in 0 .. f, c, d, t, x, h \in Nat :
          Terms(i, f, s, r, c, d, t, x, h)
    BY TermsAre
  <2>2. PICK s \in 0 .. f, r \in 0 .. f, c \in Nat, d \in Nat, t \in Nat, x \in Nat, h \in Nat :
          Terms(i, f, s, r, c, d, t, x, h)
    BY <2>1
  <2>3. PICK c1 \in Nat, d1 \in Nat : c1 = Len(conn'[i].c2s) /\ d1 = Len(conn'[i].s2c)
    BY <1>2
  <2>4. t = 1 /\ c1 <= c /\ d1 <= d
    BY <1>1, <1>2, <2>2, <2>3 DEF Terms, TxLeft
  <2>5. Terms(i, f, s, r, c1, d1, 0, x, h)'
    BY <1>1, <1>3, <2>2, <2>3 DEF Terms, TxLeft, RxLeft, ChildLeft
  <2>6. 3 * c1 + d1 + 0 + x + h + 4 * s + r < 3 * c + d + t + x + h + 4 * s + r
    BY <2>4
  <2>. QED BY <2>2, <2>5, <2>6, Lowers
<1>5. Linked(i)'
  BY <1>1, <1>2, <1>3 DEF Linked, Up, IInv, TypeOK
<1>. QED BY <1>1, <1>2, <1>3, <1>4, <1>5 DEF Step, Same

LEMMA WaitStep ==
  ASSUME IInv, NEW i \in Instances, Linked(i), Wait(i)
  PROVE  Step(i)
<1>1. /\ UNCHANGED <<options, phase, child, arrived>> /\ rx[i] = "wait"
      /\ echo' = echo /\ frame_number' = frame_number /\ phase' = phase
      /\ rx' = [rx EXCEPT ![i] = "done"] /\ sent' = sent
      /\ tx' = tx /\ received' = received /\ child' = child /\ arrived' = arrived
      /\ Leave(i, tx[i] = "done")
  BY DEF Wait, options
<1>2. /\ \A j \in Instances \ {i} : conn'[j] = conn[j]
      /\ Len(conn'[i].c2s) \in Nat /\ Len(conn'[i].c2s) <= Len(conn[i].c2s)
      /\ Len(conn'[i].s2c) \in Nat /\ Len(conn'[i].s2c) <= Len(conn[i].s2c)
      /\ \/ conn'[i] = conn[i] /\ ~(tx[i] = "done" /\ Up(i))
         \/ conn'[i].state = "closed"
  <2>. DEFINE last == tx[i] = "done"
  <2>1. last \in BOOLEAN /\ Leave(i, last)
    BY <1>1
  <2>. HIDE DEF last
  <2>2. /\ \A j \in Instances \ {i} : conn'[j] = conn[j]
        /\ Len(conn'[i].c2s) \in Nat /\ Len(conn'[i].c2s) <= Len(conn[i].c2s)
        /\ Len(conn'[i].s2c) \in Nat /\ Len(conn'[i].s2c) <= Len(conn[i].s2c)
        /\ (conn'[i] = conn[i] /\ ~(last /\ Up(i))) \/ conn'[i].state = "closed"
    BY <1>1, <2>1, Leaving
  <2>. QED BY <2>2 DEF last
<1>3. rx'[i] = "done" /\ \A j \in Instances \ {i} : rx'[j] = rx[j]
  BY <1>1 DEF IInv, TypeOK
<1>4. Lower(i)
  <2>1. PICK f \in Nat : \E s, r \in 0 .. f, c, d, t, x, h \in Nat :
          Terms(i, f, s, r, c, d, t, x, h)
    BY TermsAre
  <2>2. PICK s \in 0 .. f, r \in 0 .. f, c \in Nat, d \in Nat, t \in Nat, x \in Nat, h \in Nat :
          Terms(i, f, s, r, c, d, t, x, h)
    BY <2>1
  <2>3. PICK c1 \in Nat, d1 \in Nat : c1 = Len(conn'[i].c2s) /\ d1 = Len(conn'[i].s2c)
    BY <1>2
  <2>4. x = 1 /\ c1 <= c /\ d1 <= d
    BY <1>1, <1>2, <2>2, <2>3 DEF Terms, RxLeft
  <2>5. Terms(i, f, s, r, c1, d1, t, 0, h)'
    BY <1>1, <1>3, <2>2, <2>3 DEF Terms, TxLeft, RxLeft, ChildLeft
  <2>6. 3 * c1 + d1 + t + 0 + h + 4 * s + r < 3 * c + d + t + x + h + 4 * s + r
    BY <2>4
  <2>. QED BY <2>2, <2>5, <2>6, Lowers
<1>5. Linked(i)'
  BY <1>1, <1>2, <1>3 DEF Linked, Up
<1>. QED BY <1>1, <1>2, <1>3, <1>4, <1>5 DEF Step, Same

LEMMA ReceiveEndsStep ==
  ASSUME IInv, NEW i \in Instances, Linked(i), ReceiveEnds(i)
  PROVE  Step(i)
<1>1. /\ UNCHANGED <<options, phase>> /\ rx[i] = "recv"
      /\ echo' = echo /\ frame_number' = frame_number /\ phase' = phase
      /\ rx' = [rx EXCEPT ![i] = "wait"] /\ sent' = sent /\ conn' = conn
      /\ tx' = tx /\ received' = received /\ child' = child /\ arrived' = arrived
  BY DEF ReceiveEnds, options
<1>2. rx'[i] = "wait" /\ \A j \in Instances \ {i} : rx'[j] = rx[j]
  BY <1>1 DEF IInv, TypeOK
<1>3. Lower(i)
  <2>1. PICK f \in Nat : \E s, r \in 0 .. f, c, d, t, x, h \in Nat :
          Terms(i, f, s, r, c, d, t, x, h)
    BY TermsAre
  <2>2. PICK s \in 0 .. f, r \in 0 .. f, c \in Nat, d \in Nat, t \in Nat, x \in Nat, h \in Nat :
          Terms(i, f, s, r, c, d, t, x, h)
    BY <2>1
  <2>3. x = 2
    BY <1>1, <2>2 DEF Terms, RxLeft
  <2>4. Terms(i, f, s, r, c, d, t, 1, h)'
    BY <1>1, <1>2, <2>2 DEF Terms, TxLeft, RxLeft, ChildLeft
  <2>5. 3 * c + d + t + 1 + h + 4 * s + r < 3 * c + d + t + x + h + 4 * s + r
    BY <2>3
  <2>. QED BY <2>2, <2>4, <2>5, Lowers
<1>4. Linked(i)'
  BY <1>1, <1>2 DEF Linked
<1>. QED BY <1>1, <1>2, <1>3, <1>4 DEF Step, Same

LEMMA ReceiveStep ==
  ASSUME IInv, NEW i \in Instances, Linked(i), Receive(i)
  PROVE  Step(i)
<1>. DEFINE q == conn[i].s2c
            a == arrived[i]
<1>1. /\ UNCHANGED <<options, phase>> /\ rx[i] = "recv" /\ received[i] < frame_number
      /\ echo' = echo /\ frame_number' = frame_number /\ phase' = phase /\ tx' = tx
      /\ rx' = rx /\ sent' = sent /\ child' = child
  BY DEF Receive, MayReceive, options
<1>2. PICK f \in Nat : \E s, r \in 0 .. f, c, d, t, x, h \in Nat :
        Terms(i, f, s, r, c, d, t, x, h)
  BY TermsAre
<1>3. PICK s \in 0 .. f, r \in 0 .. f, c \in Nat, d \in Nat, t \in Nat, x \in Nat, h \in Nat :
        Terms(i, f, s, r, c, d, t, x, h)
  BY <1>2
<1>4. TxLeft(i)' = t /\ RxLeft(i)' = x /\ ChildLeft(i)' = h /\ r < f
  BY <1>1, <1>3 DEF TxLeft, RxLeft, ChildLeft, Terms
<1>5. CASE /\ q # <<>>
           /\ received' = [received EXCEPT ![i] = @ + 1]
           /\ arrived' = [arrived EXCEPT ![i] = Append(@, Head(q))]
           /\ conn' = [conn EXCEPT ![i].s2c = Tail(@)]
  <2>1. /\ Tail(q) \in Seq(Frames) /\ Len(q) \in Nat \ {0} /\ Len(Tail(q)) = Len(q) - 1
        /\ Head(q) \in Frames
    BY <1>5, Of, Taken
  <2>2. Len(Append(a, Head(q))) = Len(a) + 1
    BY <2>1, Of, Added
  <2>3. /\ conn'[i].s2c = Tail(q) /\ conn'[i].c2s = conn[i].c2s
        /\ conn'[i].state = conn[i].state
        /\ \A j \in Instances \ {i} : conn'[j] = conn[j]
    BY <1>5, <2>1, ToClient
  <2>4. /\ received'[i] = received[i] + 1 /\ arrived'[i] = Append(a, Head(q))
        /\ \A j \in Instances \ {i} : received'[j] = received[j] /\ arrived'[j] = arrived[j]
    BY <1>5, Types
  <2>5. d \in Nat \ {0} /\ Terms(i, f, s, r + 1, c, d - 1, t, x, h)'
    BY <1>1, <1>3, <1>4, <2>1, <2>3, <2>4 DEF Terms
  <2>6. Lower(i)
    <3>1. /\ r + 1 \in 0 .. f /\ d - 1 \in Nat
          /\ 3 * c + (d - 1) + t + x + h + 4 * s + r < 3 * c + d + t + x + h + 4 * s + (r + 1)
      BY <1>4, <2>5
    <3>. QED BY <1>3, <2>5, <3>1, Lowers
  <2>7. Linked(i)'
    BY <1>1, <2>2, <2>3, <2>4 DEF Linked
  <2>. QED BY <1>1, <2>3, <2>4, <2>6, <2>7 DEF Step, Same
<1>6. CASE /\ ~Up(i) /\ received' = [received EXCEPT ![i] = frame_number]
           /\ conn' = conn /\ arrived' = arrived
  <2>1. received'[i] = frame_number /\ \A j \in Instances \ {i} : received'[j] = received[j]
    BY <1>6, Types
  <2>2. Terms(i, f, s, f, c, d, t, x, h)'
    BY <1>1, <1>3, <1>4, <1>6, <2>1 DEF Terms
  <2>3. Lower(i)
    <3>1. f \in 0 .. f /\ 3 * c + d + t + x + h + 4 * s + r < 3 * c + d + t + x + h + 4 * s + f
      BY <1>4
    <3>. QED BY <1>3, <2>2, <3>1, Lowers
  <2>4. Linked(i)'
    BY <1>1, <1>6 DEF Linked, Up
  <2>. QED BY <1>1, <1>6, <2>1, <2>3, <2>4 DEF Step, Same
<1>. QED BY <1>5, <1>6 DEF Receive, Sock

LEMMA ServerRecvStep ==
  ASSUME IInv, NEW i \in Instances, Linked(i), ServerRecv(i)
  PROVE  Step(i)
<1>. DEFINE q == conn[i].c2s
            a == arrived[i]
<1>1. /\ UNCHANGED <<options, phase>> /\ child[i].pc = "recv"
      /\ echo' = echo /\ frame_number' = frame_number /\ phase' = phase /\ tx' = tx
      /\ rx' = rx /\ sent' = sent /\ received' = received
  BY DEF ServerRecv, clientVars, options
<1>2. PICK f \in Nat : \E s, r \in 0 .. f, c, d, t, x, h \in Nat :
        Terms(i, f, s, r, c, d, t, x, h)
  BY TermsAre
<1>3. PICK s \in 0 .. f, r \in 0 .. f, c \in Nat, d \in Nat, t \in Nat, x \in Nat, h \in Nat :
        Terms(i, f, s, r, c, d, t, x, h)
  BY <1>2
<1>4. TxLeft(i)' = t /\ RxLeft(i)' = x /\ h = 1
  BY <1>1, <1>3 DEF TxLeft, RxLeft, ChildLeft, Terms
<1>5. CASE q # <<>> /\ conn' = [conn EXCEPT ![i].c2s = Tail(@)]
  <2>1. /\ Tail(q) \in Seq(Frames) /\ Len(q) \in Nat \ {0} /\ Len(Tail(q)) = Len(q) - 1
        /\ Head(q) \in Frames
    BY <1>5, Of, Taken
  <2>2. /\ conn'[i].c2s = Tail(q) /\ conn'[i].s2c = conn[i].s2c
        /\ conn'[i].state = conn[i].state
        /\ \A j \in Instances \ {i} : conn'[j] = conn[j]
    BY <1>5, <2>1, ToServer
  <2>3. c \in Nat \ {0} /\ c - 1 \in Nat /\ Len(conn'[i].c2s) = c - 1
    BY <1>3, <2>1, <2>2 DEF Terms
  <2>4. CASE echo
    <3>1. child' = [child EXCEPT ![i] = [pc |-> "send", frame |-> Head(q)]] /\ arrived' = arrived
      BY <1>1, <1>5, <2>4 DEF ServerRecv
    <3>2. child'[i].pc = "send" /\ \A j \in Instances \ {i} : child'[j] = child[j]
      BY <3>1 DEF IInv, TypeOK
    <3>3. Terms(i, f, s, r, c - 1, d, t, x, 3)'
      BY <1>1, <1>3, <1>4, <2>2, <2>3, <3>2 DEF Terms, ChildLeft
    <3>4. 3 * (c - 1) + d + t + x + 3 + 4 * s + r < 3 * c + d + t + x + h + 4 * s + r
      BY <1>4
    <3>5. Lower(i)
      BY <1>3, <2>3, <3>3, <3>4, Lowers
    <3>6. Linked(i)'
      BY <1>1, <2>2, <3>1, <3>2 DEF Linked
    <3>. QED BY <1>1, <2>2, <3>1, <3>2, <3>5, <3>6 DEF Step, Same
  <2>5. CASE ~echo
    <3>1. arrived' = [arrived EXCEPT ![i] = Append(@, Head(q))] /\ child' = child
      BY <1>1, <1>5, <2>5 DEF ServerRecv
    <3>2. \A j \in Instances \ {i} : arrived'[j] = arrived[j]
      BY <3>1, Types
    <3>3. Terms(i, f, s, r, c - 1, d, t, x, h)'
      BY <1>1, <1>3, <1>4, <2>2, <2>3, <3>1 DEF Terms, ChildLeft
    <3>4. 3 * (c - 1) + d + t + x + h + 4 * s + r < 3 * c + d + t + x + h + 4 * s + r
      OBVIOUS
    <3>5. Lower(i)
      BY <1>3, <2>3, <3>3, <3>4, Lowers
    <3>6. Linked(i)'
      BY <1>1, <2>2, <2>5, <3>1 DEF Linked
    <3>. QED BY <1>1, <2>2, <3>1, <3>2, <3>5, <3>6 DEF Step, Same
  <2>. QED BY <2>4, <2>5
<1>6. CASE ~Up(i) /\ child' = [child EXCEPT ![i].pc = "done"] /\ conn' = conn /\ arrived' = arrived
  <2>1. child'[i].pc = "done" /\ \A j \in Instances \ {i} : child'[j] = child[j]
    BY <1>6 DEF IInv, TypeOK
  <2>2. Terms(i, f, s, r, c, d, t, x, 0)'
    BY <1>1, <1>3, <1>4, <1>6, <2>1 DEF Terms, ChildLeft
  <2>3. 3 * c + d + t + x + 0 + 4 * s + r < 3 * c + d + t + x + h + 4 * s + r
    BY <1>4
  <2>4. Lower(i)
    BY <1>3, <2>2, <2>3, Lowers
  <2>5. Linked(i)'
    BY <1>1, <1>6, <2>1 DEF Linked, Up
  <2>. QED BY <1>1, <1>6, <2>1, <2>4, <2>5 DEF Step, Same
<1>. QED BY <1>5, <1>6 DEF ServerRecv

LEMMA ServerSendStep ==
  ASSUME IInv, NEW i \in Instances, Linked(i), ServerSend(i)
  PROVE  Step(i)
<1>. DEFINE q == conn[i].s2c
<1>1. /\ UNCHANGED <<options, phase>> /\ child[i].pc = "send" /\ arrived' = arrived
      /\ echo' = echo /\ frame_number' = frame_number /\ phase' = phase /\ tx' = tx
      /\ rx' = rx /\ sent' = sent /\ received' = received
  BY DEF ServerSend, clientVars, options
<1>2. PICK f \in Nat : \E s, r \in 0 .. f, c, d, t, x, h \in Nat :
        Terms(i, f, s, r, c, d, t, x, h)
  BY TermsAre
<1>3. PICK s \in 0 .. f, r \in 0 .. f, c \in Nat, d \in Nat, t \in Nat, x \in Nat, h \in Nat :
        Terms(i, f, s, r, c, d, t, x, h)
  BY <1>2
<1>4. TxLeft(i)' = t /\ RxLeft(i)' = x /\ h = 3
  BY <1>1, <1>3 DEF TxLeft, RxLeft, ChildLeft, Terms
<1>5. CASE /\ Up(i) /\ conn' = [conn EXCEPT ![i].s2c = Append(@, child[i].frame)]
           /\ child' = [child EXCEPT ![i] = [pc |-> "recv", frame |-> NoFrame]]
  <2>1. child[i].frame \in Frames
    BY <1>1, Of DEF InOrder, Frames
  <2>2. Append(q, child[i].frame) \in Seq(Frames) /\ Len(Append(q, child[i].frame)) = Len(q) + 1
    BY <2>1, Of, Added
  <2>3. /\ conn'[i].s2c = Append(q, child[i].frame) /\ conn'[i].c2s = conn[i].c2s
        /\ conn'[i].state = conn[i].state
        /\ \A j \in Instances \ {i} : conn'[j] = conn[j]
    BY <1>5, <2>2, ToClient
  <2>4. child'[i].pc = "recv" /\ \A j \in Instances \ {i} : child'[j] = child[j]
    BY <1>5 DEF IInv, TypeOK
  <2>5. Terms(i, f, s, r, c, d + 1, t, x, 1)'
    BY <1>1, <1>3, <1>4, <2>2, <2>3, <2>4 DEF Terms, ChildLeft
  <2>6. d + 1 \in Nat /\ 3 * c + (d + 1) + t + x + 1 + 4 * s + r < 3 * c + d + t + x + h + 4 * s + r
    BY <1>4
  <2>7. Lower(i)
    BY <1>3, <2>5, <2>6, Lowers
  <2>8. Linked(i)'
    BY <1>1, <2>3, <2>4 DEF Linked
  <2>. QED BY <1>1, <2>3, <2>4, <2>7, <2>8 DEF Step, Same
<1>6. CASE ~Up(i) /\ child' = [child EXCEPT ![i] = [pc |-> "done", frame |-> NoFrame]] /\ conn' = conn
  <2>1. child'[i].pc = "done" /\ \A j \in Instances \ {i} : child'[j] = child[j]
    BY <1>6 DEF IInv, TypeOK
  <2>2. Terms(i, f, s, r, c, d, t, x, 0)'
    BY <1>1, <1>3, <1>4, <1>6, <2>1 DEF Terms, ChildLeft
  <2>3. 3 * c + d + t + x + 0 + 4 * s + r < 3 * c + d + t + x + h + 4 * s + r
    BY <1>4
  <2>4. Lower(i)
    BY <1>3, <2>2, <2>3, Lowers
  <2>5. Linked(i)'
    BY <1>1, <1>6, <2>1 DEF Linked, Up
  <2>. QED BY <1>1, <1>6, <2>1, <2>4, <2>5 DEF Step, Same
<1>. QED BY <1>5, <1>6 DEF ServerSend

LEMMA MovesStep ==
  ASSUME IInv, NEW i \in Instances, Linked(i), Moves(i)
  PROVE  Step(i)
  BY TransmitStep, TransmitEndsStep, ReceiveStep, ReceiveEndsStep, WaitStep,
     ServerRecvStep, ServerSendStep DEF Moves

(* A step of anything else: it does not take a running instance back.      *)
Quiet(i) ==
  /\ Linked(i)'
  /\ phase[i] = "run" => phase'[i] = "run" /\ Work(i)' <= Work(i)

LEMMA WorkInt == ASSUME IInv, NEW i \in Instances PROVE Work(i) \in Int
<1>1. PICK f \in Nat : \E s, r \in 0 .. f, c, d, t, x, h \in Nat :
        Terms(i, f, s, r, c, d, t, x, h)
  BY TermsAre
<1>2. PICK s \in 0 .. f, r \in 0 .. f, c \in Nat, d \in Nat, t \in Nat, x \in Nat, h \in Nat :
        Terms(i, f, s, r, c, d, t, x, h)
  BY <1>1
<1>3. Work(i) = 4 * (f - s) + 3 * c + d + (f - r) + t + x + h
  BY <1>2 DEF Work, Terms
<1>4. 4 * (f - s) + 3 * c + d + (f - r) + t + x + h \in Int
  OBVIOUS
<1>. QED BY <1>3, <1>4

LEMMA SameQuiet ==
  ASSUME IInv, NEW i \in Instances, Linked(i), UNCHANGED options,
         phase'[i] = phase[i], Same(i)
  PROVE  Quiet(i)
<1>1. Linked(i)' /\ Work(i)' = Work(i)
  BY LinkedSame, WorkSame DEF options
<1>2. Work(i) <= Work(i)
  BY WorkInt
<1>. QED BY <1>1, <1>2 DEF Quiet

LEMMA MovesQuiet ==
  ASSUME IInv, AllLinked, NEW i \in Instances, Moves(i), NEW j \in Instances
  PROVE  Quiet(j)
<1>1. Step(i)
  BY MovesStep DEF AllLinked
<1>2. CASE j = i
  <2>1. Linked(i)' /\ Lower(i) /\ phase' = phase
    BY <1>1 DEF Step
  <2>. QED BY <1>2, <2>1 DEF Quiet, Lower
<1>3. CASE j # i
  BY <1>1, <1>3, SameQuiet DEF Step, AllLinked
<1>. QED BY <1>2, <1>3

(* The steps on the way to a connection are those of instances that do not *)
(* run yet.                                                                *)
LEMMA WayQuiet ==
  ASSUME IInv, AllLinked, NEW i \in Instances, NEW p, Goto(i, p), phase[i] # "run",
         p # "run", UNCHANGED <<options, stateRest>>, NEW j \in Instances
  PROVE  Quiet(j)
<1>. USE DEF options, stateRest
<1>1. phase'[i] = p /\ \A k \in Instances \ {i} : phase'[k] = phase[k]
  BY DEF Goto, IInv, TypeOK
<1>2. CASE j = i
  BY <1>1, <1>2 DEF AllLinked, Linked, Quiet
<1>3. CASE j # i
  BY <1>1, <1>3, SameQuiet DEF AllLinked, Same
<1>. QED BY <1>2, <1>3

LEMMA RequestQuiet ==
  ASSUME IInv, AllLinked, NEW i \in Instances, NEW d \in Devices, NEW p, Request(i, d),
         Goto(i, p), phase[i] # "run", p # "run", UNCHANGED others, NEW j \in Instances
  PROVE  Quiet(j)
<1>. USE DEF others, options, clientRest
<1>1. /\ phase'[i] = p /\ conn'[i].state = "pending"
      /\ \A k \in Instances \ {i} : phase'[k] = phase[k] /\ conn'[k] = conn[k]
  BY DEF Goto, Request, IInv, TypeOK
<1>2. CASE j = i
  BY <1>1, <1>2 DEF AllLinked, Linked, Quiet
<1>3. CASE j # i
  BY <1>1, <1>3, SameQuiet DEF AllLinked, Same
<1>. QED BY <1>2, <1>3

LEMMA ConnectedQuiet ==
  ASSUME IInv, AllLinked, NEW i \in Instances, Connected(i), NEW j \in Instances
  PROVE  Quiet(j)
<1>1. /\ phase[i] # "run" /\ conn[i].state = "up" /\ UNCHANGED options
      /\ phase' = [k \in Instances |-> IF k = i THEN "run"
                                       ELSE IF two /\ i = 1 THEN "check" ELSE phase[k]]
      /\ tx' = [tx EXCEPT ![i] = "send"]
      /\ rx' = [rx EXCEPT ![i] = IF echo THEN "recv" ELSE "off"]
      /\ echo' = echo /\ sent' = sent /\ received' = received
      /\ arrived' = arrived /\ conn' = conn /\ child' = child
  BY DEF Connected, options
<1>2. /\ tx'[i] = "send" /\ rx'[i] = IF echo THEN "recv" ELSE "off"
      /\ \A k \in Instances \ {i} : tx'[k] = tx[k] /\ rx'[k] = rx[k]
  BY <1>1 DEF IInv, TypeOK
<1>3. CASE j = i
  BY <1>1, <1>2, <1>3 DEF AllLinked, Linked, Quiet
<1>4. CASE j # i /\ phase'[j] = phase[j]
  BY <1>1, <1>2, <1>4, SameQuiet DEF AllLinked, Same
<1>5. CASE j # i /\ phase'[j] # phase[j]
  <2>1. phase[j] = "none" /\ phase'[j] = "check"
    BY <1>1, <1>5 DEF IInv, Instances
  <2>. QED BY <1>1, <1>2, <1>5, <2>1 DEF AllLinked, Linked, Quiet
<1>. QED BY <1>3, <1>4, <1>5

LEMMA DeviceLeavesQuiet ==
  ASSUME IInv, AllLinked, NEW d, DeviceLeaves(d), NEW j \in Instances
  PROVE  Quiet(j)
<1>1. /\ UNCHANGED <<options, clientVars, child, arrived>>
      /\ conn'[j] = conn[j] \/ conn'[j] \in Cut(conn[j], "lost")
  BY DEF DeviceLeaves, Instances
<1>2. CASE conn'[j] = conn[j]
  BY <1>1, <1>2, SameQuiet DEF AllLinked, Same, clientVars
<1>3. CASE conn'[j] \in Cut(conn[j], "lost")
  <2>. DEFINE e == conn'[j]
  <2>1. e \in Cut(conn[j], "lost")
    BY <1>3
  <2>. HIDE DEF e
  <2>2. /\ e.state = "lost" /\ Len(e.c2s) \in Nat /\ Len(e.c2s) <= Len(conn[j].c2s)
        /\ Len(e.s2c) \in Nat /\ Len(e.s2c) <= Len(conn[j].s2c)
    BY <2>1, Of, CutLeaves
  <2>3. conn'[j].state = "lost"
    BY <2>2 DEF e
  <2>4. Linked(j)'
    BY <1>1, <2>3 DEF AllLinked, Linked, options, clientVars
  <2>5. PICK f \in Nat : \E s, r \in 0 .. f, c, g, t, x, h \in Nat :
          Terms(j, f, s, r, c, g, t, x, h)
    BY TermsAre
  <2>6. PICK s \in 0 .. f, r \in 0 .. f, c \in Nat, g \in Nat, t \in Nat, x \in Nat, h \in Nat :
          Terms(j, f, s, r, c, g, t, x, h)
    BY <2>5
  <2>7. PICK c1 \in Nat, g1 \in Nat : /\ c1 = Len(conn'[j].c2s) /\ g1 = Len(conn'[j].s2c)
                                      /\ c1 <= c /\ g1 <= g
    BY <2>2, <2>6 DEF e, Terms
  <2>8. c1 <= c /\ g1 <= g
    BY <2>7
  <2>9. Terms(j, f, s, r, c1, g1, t, x, h)'
    BY <1>1, <2>6, <2>7 DEF Terms, TxLeft, RxLeft, ChildLeft, options, clientVars
  <2>10. Work(j) = 4 * (f - s) + 3 * c + g + (f - r) + t + x + h
    BY <2>6 DEF Work, Terms
  <2>11. Work(j)' = 4 * (f - s) + 3 * c1 + g1 + (f - r) + t + x + h
    BY <2>9 DEF Work, Terms
  <2>12. 4 * (f - s) + 3 * c1 + g1 + (f - r) + t + x + h
           <= 4 * (f - s) + 3 * c + g + (f - r) + t + x + h
    BY <2>8
  <2>. QED BY <1>1, <2>4, <2>10, <2>11, <2>12 DEF Quiet, clientVars
<1>. QED BY <1>1, <1>2, <1>3

LEMMA AcceptQuiet ==
  ASSUME IInv, AllLinked, NEW i \in Instances, Accept(i), NEW j \in Instances
  PROVE  Quiet(j)
<1>1. /\ conn[i].state = "pending" /\ UNCHANGED options /\ conn' = [conn EXCEPT ![i].state = "up"]
      /\ child' = [child EXCEPT ![i] = [pc |-> "recv", frame |-> NoFrame]]
      /\ phase' = phase /\ tx' = tx /\ rx' = rx /\ sent' = sent
      /\ received' = received /\ arrived' = arrived
  BY DEF Accept, clientVars
<1>2. /\ child'[i].pc = "recv"
      /\ \A k \in Instances \ {i} : conn'[k] = conn[k] /\ child'[k] = child[k]
  BY <1>1 DEF IInv, TypeOK
<1>3. phase[i] # "run" /\ NotRun(i)
  BY <1>1, Of DEF Counting
<1>4. CASE j = i
  <2>1. tx'[i] = "off" /\ received'[i] = 0 /\ Len(arrived'[i]) = 0
    BY <1>1, <1>3, Empty DEF NotRun
  <2>. QED BY <1>1, <1>2, <1>3, <1>4, <2>1 DEF Linked, Quiet
<1>5. CASE j # i
  BY <1>1, <1>2, <1>5, SameQuiet DEF AllLinked, Same
<1>. QED BY <1>4, <1>5

LEMMA NextQuiet ==
  ASSUME IInv, AllLinked, [Next]_vars, NEW j \in Instances PROVE Quiet(j)
<1>1. ASSUME NEW d \in Devices, DeviceComes(d) PROVE Quiet(j)
  BY <1>1, SameQuiet DEF DeviceComes, AllLinked, Same, clientVars
<1>2. ASSUME NEW d \in Devices, DeviceLeaves(d) PROVE Quiet(j)
  BY <1>2, DeviceLeavesQuiet
<1>3. ASSUME NEW i \in Instances, CheckDiscovery(i) \/ WaitForDevice(i) \/ ConnectFails(i)
      PROVE  Quiet(j)
  <2>1. \E p \in {"waitfor", "auto", "choose", "failed"} : Goto(i, p)
    BY <1>3 DEF CheckDiscovery, WaitForDevice, ConnectFails
  <2>2. phase[i] # "run" /\ UNCHANGED <<options, stateRest>>
    BY <1>3 DEF CheckDiscovery, WaitForDevice, ConnectFails, others, clientRest, stateRest
  <2>. QED BY <2>1, <2>2, WayQuiet
<1>4. ASSUME NEW i \in Instances, AutoConnect(i) \/ Choose(i)
      PROVE  Quiet(j)
  <2>1. phase[i] # "run" /\ UNCHANGED others
    BY <1>4 DEF AutoConnect, Choose
  <2>2. CASE \E p \in {"choose", "failed"} : Goto(i, p) /\ UNCHANGED conn
    BY <2>1, <2>2, WayQuiet DEF others, clientRest, stateRest
  <2>3. CASE \E d \in Devices, p \in {"connect", "picked"} : Request(i, d) /\ Goto(i, p)
    BY <2>1, <2>3, RequestQuiet
  <2>. QED BY <1>4, <2>2, <2>3, SprayAssumption DEF AutoConnect, Choose
<1>5. ASSUME NEW i \in Instances, Connected(i) \/ Accept(i) \/ Moves(i)
      PROVE  Quiet(j)
  BY <1>5, ConnectedQuiet, AcceptQuiet, MovesQuiet
<1>6. CASE UNCHANGED vars
  BY <1>6, SameQuiet DEF vars, AllLinked, Same, clientVars
<1>. QED BY <1>1, <1>2, <1>3, <1>4, <1>5, <1>6 DEF Next, Moves

LEMMA LinkedInductive == Spec => []AllLinked
<1>1. Init => AllLinked
  BY Empty DEF Init, AllLinked, Linked, Instances
<1>2. IInv /\ AllLinked /\ [Next]_vars => AllLinked'
  <2>. SUFFICES ASSUME IInv, AllLinked, [Next]_vars PROVE AllLinked'
    OBVIOUS
  <2>1. \A j \in Instances : Linked(j)'
    BY NextQuiet DEF Quiet
  <2>. QED BY <2>1 DEF AllLinked
<1>. QED BY <1>1, <1>2, Inductive, PTL DEF Spec

(* Whatever the length of the queues, two full directions do not wait for  *)
(* each other, nor wait() for a child that waits for its reader            *)
(* (irdaspray_transmit, irdaspray_receive, the child of ir_server).        *)
THEOREM NoneWaitForEachOther == Spec => []NoCircularWait
<1>1. IInv /\ AllLinked => NoCircularWait
  <2>. SUFFICES ASSUME IInv, AllLinked, NEW i \in Instances, phase[i] = "run",
                       ~CanMove(i), ~Finished(i)
                PROVE  FALSE
    BY DEF NoCircularWait
  <2>1. PICK m, n, h, l \in Nat : Numbering(i, m, n, h, l)
    BY Numbers
  <2>2. /\ Linked(i) /\ Counting(i) /\ frame_number \in Nat /\ Buffers \in Nat \ {0}
        /\ sent[i] \in 0 .. frame_number /\ received[i] \in 0 .. frame_number
        /\ tx[i] \in {"off", "send", "done"} /\ rx[i] \in {"off", "recv", "wait", "done"}
        /\ child[i].pc \in {"off", "recv", "send", "done"}
        /\ conn[i].state \in {"none", "pending", "up", "lost", "closed"}
    BY Of, Types, SprayAssumption DEF AllLinked, IInv, TypeOK
  <2>3. Up(i)
    <3>1. CASE ~Up(i)
      BY <2>2, <3>1 DEF CanMove, MayReceive, Finished, Linked, Counting
    <3>. QED BY <3>1
  <2>4. conn[i].state = "up" /\ child[i].pc \in {"recv", "send"}
    BY <2>2, <2>3 DEF Up, Counting, Linked
  <2>5. /\ conn[i].c2s = <<>> <=> l = 0
        /\ conn[i].s2c = <<>> <=> n = 0
        /\ Len(conn[i].c2s) = l /\ Len(conn[i].s2c) = n /\ Len(arrived[i]) = m
        /\ m + n + h + l = sent[i] /\ h = Held(i) /\ (~echo => n = 0 /\ h = 0)
    BY <2>1, <2>3, Of, EmptySeq DEF Numbering
  <2>6. (child[i].pc = "recv" => l = 0) /\ (child[i].pc = "send" => n >= Buffers)
    BY <2>2, <2>3, <2>4, <2>5 DEF CanMove, MayReceive
  <2>7. echo => received[i] = m
    BY <2>2, <2>4, <2>5 DEF Linked
  <2>8. CASE tx[i] = "send"
    <3>1. sent[i] < frame_number /\ l >= Buffers
      BY <2>2, <2>3, <2>5, <2>8 DEF CanMove, MayReceive, MoreToSend
    <3>2. child[i].pc = "send" /\ n >= Buffers /\ n # 0
      BY <2>2, <2>4, <2>6, <3>1
    <3>3. echo /\ received[i] < frame_number
      <4>1. echo /\ received[i] = m
        BY <2>5, <2>7, <3>2
      <4>2. m + n + h + l < frame_number /\ frame_number \in Nat
        BY <2>2, <2>5, <3>1
      <4>3. m < frame_number
        BY <4>2
      <4>. QED BY <4>1, <4>3
    <3>4. rx[i] = "recv"
      BY <2>2, <3>3 DEF Linked, Counting
    <3>. QED BY <2>5, <3>2, <3>3, <3>4 DEF CanMove, MayReceive
  <2>9. CASE tx[i] = "done"
    <3>1. rx[i] = "recv"
      BY <2>2, <2>4, <2>9 DEF Linked, CanMove, MayReceive
    <3>2. received[i] < frame_number /\ n = 0 /\ echo
      BY <2>2, <2>3, <2>5, <3>1 DEF CanMove, MayReceive, Linked
    <3>3. child[i].pc = "recv" /\ l = 0 /\ h = 0
      <4>1. child[i].pc = "recv"
        BY <2>2, <2>4, <2>6, <3>2
      <4>2. child[i].frame = NoFrame
        BY <2>1, <4>1 DEF Numbering
      <4>. QED BY <2>5, <2>6, <4>1, <4>2 DEF Held
    <3>4. sent[i] = frame_number
      BY <2>2, <2>4, <2>9 DEF Counting
    <3>. QED BY <2>5, <2>7, <3>2, <3>3, <3>4
  <2>. QED BY <2>2, <2>8, <2>9 DEF Counting
<1>. QED BY <1>1, Inductive, LinkedInductive, PTL

(* No transfer goes on for ever: every step of its processes leaves less   *)
(* to do, and nothing else leaves more (the loops of irdaspray_transmit,   *)
(* irdaspray_receive and the server's child).                              *)
THEOREM TransferLessens == Spec => WorkLessens
<1>. DEFINE Lessens ==
       \A i \in Instances : phase[i] = "run" =>
         /\ phase'[i] = "run" /\ Work(i)' <= Work(i)
         /\ Moves(i) => Work(i)' < Work(i)
<1>1. IInv /\ AllLinked /\ [Next]_vars => [Lessens]_vars
  <2>. SUFFICES ASSUME IInv, AllLinked, [Next]_vars, NEW i \in Instances, phase[i] = "run"
                PROVE  /\ phase'[i] = "run" /\ Work(i)' <= Work(i)
                       /\ Moves(i) => Work(i)' < Work(i)
    OBVIOUS
  <2>1. phase'[i] = "run" /\ Work(i)' <= Work(i)
    BY NextQuiet DEF Quiet
  <2>2. Moves(i) => Work(i)' < Work(i)
    BY MovesStep DEF AllLinked, Step, Lower
  <2>. QED BY <2>1, <2>2
<1>2. Spec => [][Lessens]_vars
  BY <1>1, Inductive, LinkedInductive, PTL DEF Spec
<1>. QED BY <1>2 DEF WorkLessens
=============================================================================
