------------------------- MODULE UserProgramProofs -------------------------
(***************************************************************************)
(* The invariants of two programs that talk to a peer over a socket,       *)
(* irpsion5 and irkbd, for any clients, files, buffers, room on a          *)
(* connection and number of commands on their way.                         *)
(*                                                                         *)
(* IrPsion5: whatever pieces a stream is read in, the units stored and the *)
(* units still on their way are consecutive and end with the last one      *)
(* sent; a connection that ends may only shorten them.  What the client    *)
(* announced is what it opened until someone changes the file, so a server *)
(* that has as many units as were announced has them all.                  *)
(*                                                                         *)
(* Irkbd: the right to make the next exchange is a token: a timer, a       *)
(* signal, a command, an answer, or a handler that holds it.  Every step   *)
(* hands it on before it lets go of it.                                    *)
(***************************************************************************)
EXTENDS IrPsion5, Irkbd, SequenceTheorems, TLAPS

-----------------------------------------------------------------------------
(* irpsion5                                                                *)

(* The m units of a file that follow its first a.                          *)
Units(a, m) == [i \in 1 .. m |-> a + i]

TypeOK ==
  /\ file \in [Client -> Seq(Nat)] /\ changed \in [Client -> BOOLEAN]
  /\ cpc \in [Client -> {"connect", "header", "reply", "send", "last", "ok", "failed"}]
  /\ size \in [Client -> Nat] /\ off \in [Client -> Nat]
  /\ conn \in [Client -> {"none", "up", "closed", "lost"}]
  /\ toServer \in [Client -> Seq(Nat)] /\ ack \in [Client -> BOOLEAN]
  /\ spc \in {"accept", "first", "ack", "data", "dead", "ended"}
  /\ mode \in {0, 1} /\ cfd \in Client \union {NoClient}
  /\ stored \in [Client -> Seq(Nat)] /\ done \subseteq Client

Serves == spc \in {"first", "ack", "data"}

(* Where the client may be, and its stream, at each place of the server.   *)
AtFirst(c) ==
  /\ cpc[c] \in {"header", "reply", "failed"} /\ off[c] = 0 /\ ~ack[c]
  /\ toServer[c] \in {<<>>, << 0 >>}
  /\ cpc[c] = "header" => toServer[c] = <<>>

AtAck(c) ==
  /\ cpc[c] \in {"reply", "failed"} /\ off[c] = 0 /\ ~ack[c]
  /\ toServer[c] = <<>> /\ stored[c] = <<>>

AtData(c) ==
  /\ cpc[c] \notin {"connect", "header"}
  /\ stored[c] = Units(0, Len(stored[c]))
  /\ toServer[c] = Units(Len(stored[c]), Len(toServer[c]))
  /\ Len(stored[c]) + Len(toServer[c]) <= off[c]
  /\ conn[c] = "up" => Len(stored[c]) + Len(toServer[c]) = off[c]

InStep(c) ==
  cfd = c => /\ spc = "first" => AtFirst(c)
             /\ spc = "ack" => AtAck(c)
             /\ spc = "data" => AtData(c)

(* Before the header is sent nothing is on its way.                        *)
Unsent(c) ==
  cpc[c] \in {"connect", "header"} =>
    toServer[c] = <<>> /\ off[c] = 0 /\ ~ack[c] /\ c \notin done
    /\ (cpc[c] = "connect" => conn[c] = "none" /\ cfd # c)

(* The server, or the client that goes on, knows the announced size.       *)
Told(c) ==
  \/ cpc[c] \in {"reply", "send", "last", "ok"}
  \/ cfd = c /\ (spc \in {"ack", "data"} \/ toServer[c] # <<>>)

Announced(c) ==
  ~changed[c] => off[c] <= Len(file[c]) /\ (Told(c) => size[c] = Len(file[c]))

(* How connections end.                                                    *)
Ended(c) ==
  /\ conn[c] = "up" => cfd = c
  /\ conn[c] = "none" => cpc[c] \in {"connect", "failed"}
  /\ cpc[c] = "ok" => conn[c] # "up"
  /\ conn[c] = "closed" /\ cpc[c] \notin {"connect", "failed"} => c \in done \/ spc = "dead"
  /\ c \in done => cfd # c

Received(c) == c \in done /\ ~changed[c] => stored[c] = file[c]

PerClient(c) ==
  /\ file[c] = Units(0, Len(file[c]))
  /\ InStep(c) /\ Unsent(c) /\ Announced(c) /\ Ended(c) /\ Received(c)

IInv ==
  /\ TypeOK
  /\ cfd # NoClient <=> Serves
  /\ \A c \in Client : PerClient(c)

-----------------------------------------------------------------------------
(* Units                                                                   *)

LEMMA UnitsType ==
  ASSUME NEW a \in Nat, NEW m \in Nat
  PROVE  Units(a, m) \in Seq(Nat) /\ Len(Units(a, m)) = m
  <1>1. Units(a, m) \in [1 .. m -> Nat]
    BY DEF Units
  <1> QED BY <1>1, SeqDef, LenProperties

LEMMA NoUnits ==
  /\ \A a \in Nat : Units(a, 0) = <<>>
  /\ <<>> \in Seq(Nat) /\ Len(<<>>) = 0
  /\ << 0 >> \in Seq(Nat) /\ Len(<< 0 >>) = 1 /\ << 0 >> # <<>>
  <1>1. ASSUME NEW a \in Nat PROVE Units(a, 0) = <<>>
    BY UnitsType, EmptySeq
  <1> QED BY <1>1

LEMMA UnitsJoin ==
  ASSUME NEW a \in Nat, NEW m \in Nat, NEW k \in Nat
  PROVE  Units(a, m) \o Units(a + m, k) = Units(a, m + k)
  <1> DEFINE s == Units(a, m)  t == Units(a + m, k)  u == Units(a, m + k)
  <1>1. s \in Seq(Nat) /\ Len(s) = m /\ t \in Seq(Nat) /\ Len(t) = k
        /\ u \in Seq(Nat) /\ Len(u) = m + k
    <2>1. a + m \in Nat /\ m + k \in Nat
      OBVIOUS
    <2> QED BY <2>1, UnitsType
  <1>2. \A i \in 1 .. m : s[i] = a + i
    BY DEF Units
  <1>3. \A i \in 1 .. k : t[i] = (a + m) + i
    BY DEF Units
  <1>4. \A i \in 1 .. m + k : u[i] = a + i
    BY DEF Units
  <1> HIDE DEF s, t, u
  <1>5. s \o t \in Seq(Nat) /\ Len(s \o t) = m + k
        /\ \A i \in 1 .. m + k : (s \o t)[i] = IF i <= m THEN s[i] ELSE t[i - m]
    BY <1>1, ConcatProperties
  <1>6. ASSUME NEW i \in 1 .. m + k PROVE (s \o t)[i] = u[i]
    <2>1. CASE i <= m
      BY <1>2, <1>4, <1>5, <2>1
    <2>2. CASE ~(i <= m)
      <3>1. i - m \in 1 .. k
        BY <2>2
      <3> QED BY <1>3, <1>4, <1>5, <2>2, <3>1
    <2> QED BY <2>1, <2>2
  <1>7. s \o t = u
    BY <1>1, <1>5, <1>6, SeqEqual
  <1> QED BY <1>7 DEF s, t, u

(* A part of consecutive units: after the first i and up to the j-th.      *)
LEMMA UnitsPart ==
  ASSUME NEW a \in Nat, NEW m \in Nat, NEW i \in Nat, NEW j \in Nat, i <= j, j <= m
  PROVE  SubSeq(Units(a, m), i + 1, j) = Units(a + i, j - i)
  <1> DEFINE s == Units(a, m)  t == SubSeq(s, i + 1, j)  u == Units(a + i, j - i)
  <1>1. s \in Seq(Nat) /\ Len(s) = m /\ \A n \in 1 .. m : s[n] = a + n
    BY UnitsType DEF Units
  <1>2. a + i \in Nat /\ j - i \in Nat
    OBVIOUS
  <1>3. u \in Seq(Nat) /\ Len(u) = j - i /\ \A n \in 1 .. j - i : u[n] = (a + i) + n
    BY <1>2, UnitsType DEF Units
  <1> HIDE DEF s, u
  <1>4. t \in Seq(Nat) /\ Len(t) = j - i /\ \A n \in 1 .. j - i : t[n] = s[i + n]
    <2>1. \A n \in i + 1 .. j : s[n] \in Nat
      BY <1>1
    <2>2. /\ t \in Seq(Nat)
          /\ Len(t) = IF i + 1 <= j THEN j - (i + 1) + 1 ELSE 0
          /\ \A n \in 1 .. j - (i + 1) + 1 : t[n] = s[(i + 1) + n - 1]
      BY <2>1, SubSeqProperties
    <2> HIDE DEF t
    <2>3. Len(t) = j - i
      BY <2>2
    <2>4. ASSUME NEW n \in 1 .. j - i PROVE t[n] = s[i + n]
      <3>1. n \in 1 .. j - (i + 1) + 1 /\ (i + 1) + n - 1 = i + n
        OBVIOUS
      <3> QED BY <2>2, <3>1
    <2> QED BY <2>2, <2>3, <2>4
  <1> HIDE DEF t
  <1>5. ASSUME NEW n \in 1 .. j - i PROVE t[n] = u[n]
    <2>1. i + n \in 1 .. m /\ a + (i + n) = (a + i) + n
      OBVIOUS
    <2> QED BY <1>1, <1>3, <1>4, <2>1
  <1>6. t = u
    BY <1>3, <1>4, <1>5, SeqEqual
  <1> QED BY <1>6 DEF s, t, u

LEMMA UnitsFirst ==
  ASSUME NEW a \in Nat, NEW m \in Nat, NEW j \in Nat, j <= m
  PROVE  SubSeq(Units(a, m), 1, j) = Units(a, j)
  <1>1. PICK i \in Nat : i = 0
    OBVIOUS
  <1>2. i <= j
    BY <1>1
  <1>3. SubSeq(Units(a, m), i + 1, j) = Units(a + i, j - i)
    BY <1>2, UnitsPart, Zenon
  <1>4. i + 1 = 1 /\ a + i = a /\ j - i = j
    BY <1>1
  <1> QED BY <1>3, <1>4

(* What may remain of a stream.                                            *)
LEMMA Remaining ==
  ASSUME NEW s \in Seq(Nat), NEW r \in Remains(s)
  PROVE  /\ r \in Seq(Nat) /\ Len(r) \in Nat /\ Len(r) <= Len(s)
         /\ s = <<>> => r = <<>>
         /\ s = << 0 >> => r \in {<<>>, << 0 >>}
         /\ \A a \in Nat : s = Units(a, Len(s)) => r = Units(a, Len(r))
  <1>1. PICK n \in 0 .. Len(s) : r = SubSeq(s, 1, n)
    BY DEF Remains
  <1>2. Len(s) \in Nat /\ \A k \in 1 .. Len(s) : s[k] \in Nat
    BY LenProperties, ElementOfSeq
  <1>3. r \in Seq(Nat) /\ Len(r) = n /\ \A k \in 1 .. n : r[k] = s[k]
    <2>1. \A k \in 1 .. n : s[k] \in Nat
      BY <1>2
    <2>2. /\ r \in Seq(Nat) /\ Len(r) = IF 1 <= n THEN n - 1 + 1 ELSE 0
          /\ \A k \in 1 .. n - 1 + 1 : r[k] = s[1 + k - 1]
      BY <1>1, <2>1, SubSeqProperties
    <2> QED BY <2>2
  <1>4. s = <<>> => r = <<>>
    BY <1>2, <1>3, EmptySeq
  <1>5. s = << 0 >> => r \in {<<>>, << 0 >>}
    <2> SUFFICES ASSUME s = << 0 >> PROVE r \in {<<>>, << 0 >>}
      OBVIOUS
    <2>1. Len(s) = 1 /\ s[1] = 0
      BY NoUnits
    <2>2. CASE n = 0
      BY <1>3, <2>2, EmptySeq
    <2>3. CASE n = 1
      <3>1. Len(r) = Len(s) /\ \A k \in 1 .. Len(s) : r[k] = s[k]
        BY <1>3, <2>1, <2>3
      <3> QED BY <1>3, <3>1, SeqEqual
    <2> QED BY <2>1, <2>2, <2>3
  <1>6. ASSUME NEW a \in Nat, s = Units(a, Len(s)) PROVE r = Units(a, Len(r))
    <2> DEFINE m == Len(s)
    <2>1. m \in Nat /\ n \in Nat /\ n <= m
      BY <1>2
    <2>2. s = Units(a, m)
      BY <1>6
    <2> HIDE DEF m
    <2>3. SubSeq(Units(a, m), 1, n) = Units(a, n)
      BY <2>1, UnitsFirst
    <2> QED BY <1>1, <1>3, <2>2, <2>3
  <1> QED BY <1>2, <1>3, <1>4, <1>5, <1>6

-----------------------------------------------------------------------------
(* Steps of others, and ends of connections                                *)

LEMMA Whole ==
  ASSUME NEW s \in Seq(Nat)
  PROVE  s \in Remains(s)
  <1>1. Len(s) \in Nat /\ \A k \in 1 .. Len(s) : s[k] \in Nat
    BY LenProperties, ElementOfSeq
  <1> DEFINE n == Len(s)  t == SubSeq(s, 1, n)
  <1>2. t \in Seq(Nat) /\ Len(t) = n /\ \A k \in 1 .. n : t[k] = s[k]
    <2> HIDE DEF n
    <2>1. n \in Nat /\ \A k \in 1 .. n : s[k] \in Nat
      BY <1>1 DEF n
    <2>2. /\ t \in Seq(Nat) /\ Len(t) = IF 1 <= n THEN n - 1 + 1 ELSE 0
          /\ \A k \in 1 .. n - 1 + 1 : t[k] = s[1 + k - 1]
      BY <2>1, SubSeqProperties
    <2> HIDE DEF t
    <2> QED BY <2>1, <2>2
  <1> HIDE DEF t
  <1>3. t = s
    BY <1>2, SeqEqual
  <1>4. n \in 0 .. Len(s)
    BY <1>1
  <1> QED BY <1>3, <1>4 DEF Remains, t

(* A client that a step leaves alone.                                      *)
Same(d) ==
  /\ file'[d] = file[d] /\ changed'[d] = changed[d] /\ cpc'[d] = cpc[d]
  /\ size'[d] = size[d] /\ off'[d] = off[d] /\ conn'[d] = conn[d]
  /\ toServer'[d] = toServer[d] /\ ack'[d] = ack[d] /\ stored'[d] = stored[d]
  /\ (d \in done') <=> (d \in done)
  /\ (cfd' = d) <=> (cfd = d)
  /\ cfd = d => spc' = spc

LEMMA SameKept ==
  ASSUME NEW d \in Client, PerClient(d), Same(d), spc = "dead" => spc' = "dead"
  PROVE  PerClient(d)'
  <1>1. InStep(d)'
    BY DEF PerClient, Same, InStep, AtFirst, AtAck, AtData
  <1>2. Unsent(d)'
    BY DEF PerClient, Same, Unsent
  <1>3. Announced(d)'
    BY DEF PerClient, Same, Announced, Told
  <1>4. Ended(d)'
    BY DEF PerClient, Same, Ended
  <1>5. Received(d)'
    BY DEF PerClient, Same, Received
  <1>6. file'[d] = Units(0, Len(file'[d]))
    BY DEF PerClient, Same
  <1> QED BY <1>1, <1>2, <1>3, <1>4, <1>5, <1>6 DEF PerClient

(* So a step is right if it is right for the client it is about.           *)
LEMMA OneClient ==
  ASSUME IInv, NEW c \in Client, TypeOK', (cfd # NoClient <=> Serves)',
         \A d \in Client \ {c} : Same(d), spc = "dead" => spc' = "dead",
         PerClient(c)'
  PROVE  IInv'
  <1>1. \A d \in Client : PerClient(d)'
    <2> SUFFICES ASSUME NEW d \in Client, d # c PROVE PerClient(d)'
      OBVIOUS
    <2>1. PerClient(d) /\ Same(d)
      BY DEF IInv
    <2> QED BY <2>1, SameKept
  <1> QED BY <1>1 DEF IInv

LEMMA EndsFacts ==
  ASSUME TypeOK, NEW c \in Client, NEW how \in {"closed", "lost"}, Ends(c, how)
  PROVE  /\ conn' \in [Client -> {"none", "up", "closed", "lost"}]
         /\ toServer' \in [Client -> Seq(Nat)] /\ ack' \in [Client -> BOOLEAN]
         /\ conn'[c] = IF conn[c] = "up" THEN how ELSE conn[c]
         /\ toServer'[c] \in Remains(toServer[c])
         /\ ack'[c] => ack[c]
         /\ \A d \in Client \ {c} : /\ conn'[d] = conn[d] /\ toServer'[d] = toServer[d]
                                    /\ ack'[d] = ack[d]
  <1>1. toServer[c] \in Seq(Nat) /\ toServer[c] \in Remains(toServer[c])
    BY Whole DEF TypeOK
  <1>2. CASE conn[c] = "up"
    <2>1. PICK s \in Remains(toServer[c]) : toServer' = [toServer EXCEPT ![c] = s]
      BY <1>2 DEF Ends
    <2>2. PICK a \in {ack[c], FALSE} : ack' = [ack EXCEPT ![c] = a]
      BY <1>2 DEF Ends
    <2>3. conn' = [conn EXCEPT ![c] = how]
      BY <1>2 DEF Ends
    <2>4. s \in Seq(Nat)
      BY <1>1, Remaining
    <2>5. /\ conn' \in [Client -> {"none", "up", "closed", "lost"}] /\ conn'[c] = how
          /\ \A d \in Client \ {c} : conn'[d] = conn[d]
      BY <2>3 DEF TypeOK
    <2>6. /\ toServer' \in [Client -> Seq(Nat)] /\ toServer'[c] = s
          /\ \A d \in Client \ {c} : toServer'[d] = toServer[d]
      BY <2>1, <2>4 DEF TypeOK
    <2>7. /\ ack' \in [Client -> BOOLEAN] /\ ack'[c] = a
          /\ \A d \in Client \ {c} : ack'[d] = ack[d]
      BY <2>2 DEF TypeOK
    <2>8. a => ack[c]
      BY <2>2
    <2> QED BY <1>2, <2>5, <2>6, <2>7, <2>8
  <1>3. CASE conn[c] # "up"
    <2>1. conn' = conn /\ toServer' = toServer /\ ack' = ack
      BY <1>3 DEF Ends
    <2> QED BY <1>1, <1>3, <2>1 DEF TypeOK
  <1> QED BY <1>2, <1>3

(* What is true of a client's stream stays true of what remains of it.     *)
LEMMA StreamCut ==
  ASSUME NEW c \in Client, TypeOK, InStep(c), cfd' = cfd, spc' = spc,
         off' = off, stored' = stored,
         cpc'[c] \in {"failed", cpc[c]} \/ (cpc[c] = "last" /\ cpc'[c] = "ok"),
         toServer'[c] \in Remains(toServer[c]), conn'[c] # "up", ack'[c] => ack[c]
  PROVE  InStep(c)'
  <1> DEFINE s == toServer[c]  r == toServer'[c]
  <1>1. s \in Seq(Nat) /\ Len(s) \in Nat /\ stored[c] \in Seq(Nat) /\ Len(stored[c]) \in Nat
        /\ off[c] \in Nat
    BY LenProperties DEF TypeOK
  <1>2. /\ Len(r) \in Nat /\ Len(r) <= Len(s)
        /\ s = <<>> => r = <<>>
        /\ s = << 0 >> => r \in {<<>>, << 0 >>}
        /\ \A a \in Nat : s = Units(a, Len(s)) => r = Units(a, Len(r))
    BY <1>1, Remaining
  <1> SUFFICES ASSUME cfd = c
               PROVE  /\ spc = "first" => AtFirst(c)'
                      /\ spc = "ack" => AtAck(c)'
                      /\ spc = "data" => AtData(c)'
    BY DEF InStep
  <1>3. CASE spc = "first"
    <2>1. AtFirst(c)
      BY <1>3 DEF InStep
    <2>2. s \in {<<>>, << 0 >>} /\ r \in {<<>>, << 0 >>}
      BY <1>2, <2>1 DEF AtFirst
    <2> QED BY <1>2, <1>3, <2>1, <2>2 DEF AtFirst
  <1>4. CASE spc = "ack"
    <2>1. AtAck(c)
      BY <1>4 DEF InStep
    <2> QED BY <1>2, <1>4, <2>1 DEF AtAck
  <1>5. CASE spc = "data"
    <2>1. AtData(c)
      BY <1>5 DEF InStep
    <2>2. r = Units(Len(stored[c]), Len(r))
      BY <1>1, <1>2, <2>1 DEF AtData
    <2>3. Len(stored[c]) + Len(r) <= off[c]
      <3>1. Len(stored[c]) + Len(s) <= off[c]
        BY <2>1 DEF AtData
      <3>2. PICK k \in Nat, m \in Nat, n \in Nat, l \in Nat :
               k = Len(stored[c]) /\ m = Len(s) /\ n = Len(r) /\ l = off[c]
        BY <1>1, <1>2
      <3>3. k + n <= l
        <4>1. k + m <= l /\ n <= m
          BY <1>2, <3>1, <3>2
        <4> QED BY <4>1
      <3> QED BY <3>2, <3>3
    <2> HIDE DEF r
    <2>4. toServer'[c] = Units(Len(stored[c]), Len(toServer'[c]))
          /\ Len(stored[c]) + Len(toServer'[c]) <= off[c]
      BY <2>2, <2>3 DEF r
    <2> QED BY <1>5, <2>1, <2>4 DEF AtData
  <1> QED BY <1>3, <1>4, <1>5

(* What the invariant says of the client of a step.                        *)
LEMMA Of ==
  ASSUME IInv, NEW c \in Client
  PROVE  /\ TypeOK /\ InStep(c) /\ Unsent(c) /\ Announced(c) /\ Ended(c) /\ Received(c)
         /\ file[c] = Units(0, Len(file[c]))
         /\ file[c] \in Seq(Nat) /\ Len(file[c]) \in Nat
         /\ toServer[c] \in Seq(Nat) /\ Len(toServer[c]) \in Nat
         /\ stored[c] \in Seq(Nat) /\ Len(stored[c]) \in Nat
         /\ off[c] \in Nat /\ size[c] \in Nat /\ c # NoClient
  BY LenProperties, NoClientAssumption DEF IInv, PerClient, TypeOK

-----------------------------------------------------------------------------
(* The steps                                                               *)

LEMMA InitIInv == Init => IInv
  <1> SUFFICES ASSUME Init PROVE IInv
    OBVIOUS
  <1>1. ASSUME NEW c \in Client
        PROVE  file[c] \in Seq(Nat) /\ file[c] = Units(0, Len(file[c]))
    <2>1. PICK n \in 0 .. MaxLen : file[c] = [i \in 1 .. n |-> i]
      BY DEF Init
    <2>2. n \in Nat
      BY SizesAssumption
    <2>3. \A i \in 1 .. n : 0 + i = i
      BY <2>2
    <2>4. file[c] = Units(0, n)
      BY <2>1, <2>3 DEF Units
    <2>5. Units(0, n) \in Seq(Nat) /\ Len(Units(0, n)) = n
      BY <2>2, UnitsType
    <2> QED BY <2>4, <2>5
  <1>2. file \in [Client -> Seq(Nat)]
    <2>1. file \in [Client -> {[i \in 1 .. n |-> i] : n \in 0 .. MaxLen}]
      BY DEF Init
    <2> QED BY <1>1, <2>1
  <1>3. TypeOK
    BY <1>2, NoUnits DEF Init, TypeOK
  <1>4. cfd # NoClient <=> Serves
    BY DEF Init, Serves
  <1>5. ASSUME NEW c \in Client PROVE PerClient(c)
    <2>1. InStep(c) /\ Unsent(c) /\ Ended(c) /\ Received(c)
      BY NoClientAssumption DEF Init, InStep, Unsent, Ended, Received
    <2>2. Announced(c)
      <3>1. Len(file[c]) \in Nat
        BY <1>1, LenProperties
      <3> QED BY <3>1 DEF Init, Announced, Told
    <2> QED BY <1>1, <2>1, <2>2 DEF PerClient
  <1> QED BY <1>3, <1>4, <1>5 DEF IInv

(* A client that gives up, or ends well after the connection has ended.    *)
LEMMA ClientLeavesStep ==
  ASSUME IInv, NEW c \in Client, NEW to \in {"failed", "ok"}, ClientLeaves(c, to),
         to = "ok" => cpc[c] = "last" /\ conn[c] # "up"
  PROVE  IInv'
  <1>1. /\ cpc' = [cpc EXCEPT ![c] = to]
        /\ UNCHANGED <<file, changed, size, off, spc, mode, cfd, stored, done>>
        /\ Ends(c, "closed")
    BY DEF ClientLeaves, ClientAt, server
  <1>2. /\ conn' \in [Client -> {"none", "up", "closed", "lost"}]
        /\ toServer' \in [Client -> Seq(Nat)] /\ ack' \in [Client -> BOOLEAN]
        /\ conn'[c] = IF conn[c] = "up" THEN "closed" ELSE conn[c]
        /\ toServer'[c] \in Remains(toServer[c])
        /\ ack'[c] => ack[c]
        /\ \A d \in Client \ {c} : /\ conn'[d] = conn[d] /\ toServer'[d] = toServer[d]
                                   /\ ack'[d] = ack[d]
    BY <1>1, Of, EndsFacts
  <1>3. /\ cpc' \in [Client -> {"connect", "header", "reply", "send", "last", "ok", "failed"}]
        /\ cpc'[c] = to /\ \A d \in Client \ {c} : cpc'[d] = cpc[d]
    BY <1>1, Of DEF TypeOK
  <1>4. TypeOK'
    BY <1>1, <1>2, <1>3, Of DEF TypeOK
  <1>5. \A d \in Client \ {c} : Same(d)
    BY <1>1, <1>2, <1>3 DEF Same
  <1>6. conn'[c] # "up"
    BY <1>2
  <1>7. InStep(c)'
    BY <1>1, <1>2, <1>3, <1>6, Of, StreamCut
  <1>8. Unsent(c)'
    BY <1>3 DEF Unsent
  <1>9. Announced(c)'
    <2>1. toServer[c] = <<>> => toServer'[c] = <<>>
      BY <1>2, Of, Remaining
    <2>2. Told(c)' => Told(c)
      BY <1>1, <1>3, <2>1 DEF Told
    <2> QED BY <1>1, <2>2, Of DEF Announced
  <1>10. Ended(c)'
    BY <1>1, <1>2, <1>3, <1>6, Of DEF Ended
  <1>11. Received(c)'
    BY <1>1, Of DEF Received
  <1>12. PerClient(c)'
    BY <1>1, <1>7, <1>8, <1>9, <1>10, <1>11, Of DEF PerClient
  <1>13. (cfd # NoClient <=> Serves)'
    BY <1>1 DEF IInv, Serves
  <1>14. spc = "dead" => spc' = "dead"
    BY <1>1
  <1> QED BY <1>4, <1>5, <1>12, <1>13, <1>14, OneClient

LEMMA LinkLostStep ==
  ASSUME IInv, NEW c \in Client, LinkLost(c)
  PROVE  IInv'
  <1>1. /\ UNCHANGED <<file, changed, cpc, size, off, spc, mode, cfd, stored, done>>
        /\ Ends(c, "lost") /\ conn[c] = "up"
    BY DEF LinkLost, client, server
  <1>2. /\ conn' \in [Client -> {"none", "up", "closed", "lost"}]
        /\ toServer' \in [Client -> Seq(Nat)] /\ ack' \in [Client -> BOOLEAN]
        /\ conn'[c] = "lost"
        /\ toServer'[c] \in Remains(toServer[c])
        /\ ack'[c] => ack[c]
        /\ \A d \in Client \ {c} : /\ conn'[d] = conn[d] /\ toServer'[d] = toServer[d]
                                   /\ ack'[d] = ack[d]
    BY <1>1, Of, EndsFacts
  <1>3. TypeOK'
    BY <1>1, <1>2, Of DEF TypeOK
  <1>4. \A d \in Client \ {c} : Same(d)
    BY <1>1, <1>2 DEF Same
  <1>5. InStep(c)'
    BY <1>1, <1>2, Of, StreamCut
  <1>6. toServer[c] = <<>> => toServer'[c] = <<>>
    BY <1>2, Of, Remaining
  <1>7. Unsent(c)'
    BY <1>1, <1>2, <1>6, Of DEF Unsent
  <1>8. Announced(c)'
    <2>1. Told(c)' => Told(c)
      BY <1>1, <1>6 DEF Told
    <2> QED BY <1>1, <2>1, Of DEF Announced
  <1>9. Ended(c)'
    BY <1>1, <1>2, Of DEF Ended
  <1>10. Received(c)'
    BY <1>1, Of DEF Received
  <1>11. PerClient(c)'
    BY <1>1, <1>5, <1>7, <1>8, <1>9, <1>10, Of DEF PerClient
  <1>12. (cfd # NoClient <=> Serves)'
    BY <1>1 DEF IInv, Serves
  <1>13. spc = "dead" => spc' = "dead"
    BY <1>1
  <1> QED BY <1>3, <1>4, <1>11, <1>12, <1>13, OneClient

(* The server is done with its client, whose file it has or gives up.      *)
LEMMA ServerLeavesStep ==
  ASSUME IInv, NEW c \in Client, cfd = c, NEW to \in {"accept", "dead", "ended"},
         ServerLeaves(to), UNCHANGED <<client, mode, stored>>,
         \/ done' = done /\ to = "dead"
         \/ done' = done \union {c} /\ spc = "data" /\ Len(stored[c]) >= size[c]
  PROVE  IInv'
  <1>1. /\ UNCHANGED <<file, changed, cpc, size, off, mode, stored>>
        /\ spc' = to /\ cfd' = NoClient /\ Ends(c, "closed")
    BY DEF ServerLeaves, client
  <1>2. /\ conn' \in [Client -> {"none", "up", "closed", "lost"}]
        /\ toServer' \in [Client -> Seq(Nat)] /\ ack' \in [Client -> BOOLEAN]
        /\ conn'[c] = IF conn[c] = "up" THEN "closed" ELSE conn[c]
        /\ toServer'[c] \in Remains(toServer[c])
        /\ ack'[c] => ack[c]
        /\ \A d \in Client \ {c} : /\ conn'[d] = conn[d] /\ toServer'[d] = toServer[d]
                                   /\ ack'[d] = ack[d]
    BY <1>1, Of, EndsFacts
  <1>3. spc # "dead" /\ spc \in {"first", "ack", "data"}
    BY Of DEF IInv, Serves
  <1>4. TypeOK'
    BY <1>1, <1>2, Of DEF TypeOK
  <1>5. \A d \in Client \ {c} : Same(d)
    <2> SUFFICES ASSUME NEW d \in Client \ {c} PROVE Same(d)
      OBVIOUS
    <2>1. d # NoClient /\ cfd # d
      BY Of
    <2>2. (d \in done') <=> (d \in done)
      OBVIOUS
    <2> QED BY <1>1, <1>2, <2>1, <2>2 DEF Same
  <1>6. cfd' # c /\ conn'[c] # "up"
    BY <1>1, <1>2, Of
  <1>7. InStep(c)'
    BY <1>6 DEF InStep
  <1>8. toServer[c] = <<>> => toServer'[c] = <<>>
    BY <1>2, Of, Remaining
  <1>9. spc = "data" => cpc[c] \notin {"connect", "header"}
    BY Of DEF InStep, AtData
  <1>10. c \notin done /\ cpc[c] # "connect"
    BY Of DEF Ended, Unsent
  <1>11. Unsent(c)'
    <2> SUFFICES ASSUME cpc[c] = "header"
                 PROVE  toServer'[c] = <<>> /\ off'[c] = 0 /\ ~ack'[c] /\ c \notin done'
      BY <1>1, <1>10 DEF Unsent
    <2>1. toServer[c] = <<>> /\ off[c] = 0 /\ ~ack[c] /\ c \notin done
      BY Of DEF Unsent
    <2>2. done' = done
      BY <1>9
    <2> QED BY <1>1, <1>2, <1>8, <2>1, <2>2
  <1>12. Announced(c)'
    <2>1. Told(c)' => Told(c)
      BY <1>1, <1>6 DEF Told
    <2> QED BY <1>1, <2>1, Of DEF Announced
  <1>13. Ended(c)'
    <2>1. c \in done' \/ spc' = "dead"
      BY <1>1
    <2>2. conn'[c] = "none" => cpc'[c] \in {"connect", "failed"}
      BY <1>1, <1>2, Of DEF Ended
    <2> QED BY <1>6, <2>1, <2>2 DEF Ended
  <1>14. Received(c)'
    <2> SUFFICES ASSUME done' = done \union {c}, spc = "data", Len(stored[c]) >= size[c],
                        ~changed[c]
                 PROVE  stored[c] = file[c]
      BY <1>1, <1>10 DEF Received
    <2>1. AtData(c)
      BY Of DEF InStep
    <2>2. size[c] = Len(file[c]) /\ off[c] <= Len(file[c])
      BY Of DEF Announced, Told
    <2>3. Len(stored[c]) + Len(toServer[c]) <= off[c]
      BY <2>1 DEF AtData
    <2>4. PICK k \in Nat, m \in Nat, l \in Nat, n \in Nat :
             k = Len(stored[c]) /\ m = Len(toServer[c]) /\ l = off[c] /\ n = Len(file[c])
      BY Of
    <2>5. k + m <= l /\ l <= n /\ k >= n
      BY <2>2, <2>3, <2>4
    <2>6. k = n
      BY <2>5
    <2>7. stored[c] = Units(0, k) /\ file[c] = Units(0, n)
      BY <2>1, <2>4, Of DEF AtData
    <2> QED BY <2>6, <2>7
  <1>15. PerClient(c)'
    BY <1>1, <1>7, <1>11, <1>12, <1>13, <1>14, Of DEF PerClient
  <1>16. (cfd # NoClient <=> Serves)'
    BY <1>1 DEF Serves
  <1> QED BY <1>3, <1>4, <1>5, <1>15, <1>16, OneClient

LEMMA ConnectStep ==
  ASSUME IInv, NEW c \in Client, Connect(c)
  PROVE  IInv'
  <1>1. /\ cpc' = [cpc EXCEPT ![c] = "header"] /\ conn' = [conn EXCEPT ![c] = "up"]
        /\ cfd' = c /\ spc' = "first" /\ cpc[c] = "connect" /\ spc = "accept"
        /\ UNCHANGED <<file, changed, size, off, toServer, ack, mode, stored, done>>
    BY DEF Connect, ClientAt
  <1>2. TypeOK'
    BY <1>1, Of DEF TypeOK
  <1>3. /\ cpc'[c] = "header" /\ \A d \in Client \ {c} : cpc'[d] = cpc[d]
        /\ conn'[c] = "up" /\ \A d \in Client \ {c} : conn'[d] = conn[d]
    BY <1>1, Of DEF TypeOK
  <1>4. cfd = NoClient
    BY <1>1 DEF IInv, Serves
  <1>5. \A d \in Client \ {c} : Same(d)
    BY <1>1, <1>3, <1>4, Of DEF Same
  <1>6. toServer[c] = <<>> /\ off[c] = 0 /\ ~ack[c] /\ c \notin done
    BY <1>1, Of DEF Unsent
  <1>7. InStep(c)'
    BY <1>1, <1>3, <1>6 DEF InStep, AtFirst
  <1>8. Unsent(c)'
    BY <1>1, <1>3, <1>6 DEF Unsent
  <1>9. Announced(c)'
    <2>1. ~Told(c)'
      BY <1>1, <1>3, <1>6 DEF Told
    <2> QED BY <1>1, <2>1, Of DEF Announced
  <1>10. Ended(c)'
    BY <1>1, <1>3, <1>6 DEF Ended
  <1>11. Received(c)'
    BY <1>1, <1>6 DEF Received
  <1>12. PerClient(c)'
    BY <1>1, <1>7, <1>8, <1>9, <1>10, <1>11, Of DEF PerClient
  <1>13. (cfd # NoClient <=> Serves)'
    BY <1>1, Of DEF Serves
  <1>14. spc # "dead"
    BY <1>1
  <1> QED BY <1>2, <1>5, <1>12, <1>13, <1>14, OneClient

LEMMA SendHeaderStep ==
  ASSUME IInv, NEW c \in Client, SendHeader(c)
  PROVE  IInv'
  <1>1. /\ cpc[c] = "header" /\ conn[c] = "up"
        /\ size' = [size EXCEPT ![c] = Len(file[c])]
        /\ toServer' = [toServer EXCEPT ![c] = toServer[c] \o << 0 >>]
        /\ cpc' = [cpc EXCEPT ![c] = "reply"]
        /\ UNCHANGED <<file, changed, off, conn, ack, spc, mode, cfd, stored, done>>
    BY Of DEF SendHeader, Write, ClientAt, AfterHeader, server, TypeOK
  <1>2. toServer[c] = <<>> /\ off[c] = 0 /\ ~ack[c] /\ c \notin done /\ cfd = c
    BY <1>1, Of DEF Unsent, Ended
  <1>3. toServer[c] \o << 0 >> = << 0 >>
    BY <1>2, NoUnits, ConcatEmptySeq
  <1>4. TypeOK'
    BY <1>1, <1>3, NoUnits, Of DEF TypeOK
  <1>5. /\ cpc'[c] = "reply" /\ size'[c] = Len(file[c]) /\ toServer'[c] = << 0 >>
        /\ \A d \in Client \ {c} : /\ cpc'[d] = cpc[d] /\ size'[d] = size[d]
                                   /\ toServer'[d] = toServer[d]
    BY <1>1, <1>3, Of DEF TypeOK
  <1>6. \A d \in Client \ {c} : Same(d)
    BY <1>1, <1>5 DEF Same
  <1>7. spc = "first"
    <2>1. spc # "ack" /\ spc # "data"
      BY <1>1, <1>2, Of DEF InStep, AtAck, AtData
    <2> QED BY <1>2, <2>1, Of DEF IInv, Serves
  <1>8. InStep(c)'
    BY <1>1, <1>2, <1>5, <1>7 DEF InStep, AtFirst
  <1>9. Unsent(c)'
    BY <1>5 DEF Unsent
  <1>10. Announced(c)'
    BY <1>1, <1>5, Of DEF Announced
  <1>11. Ended(c)'
    BY <1>1, <1>2, <1>5 DEF Ended
  <1>12. Received(c)'
    BY <1>1, <1>2 DEF Received
  <1>13. PerClient(c)'
    BY <1>1, <1>8, <1>9, <1>10, <1>11, <1>12, Of DEF PerClient
  <1>14. (cfd # NoClient <=> Serves)'
    BY <1>1 DEF IInv, Serves
  <1>15. spc = "dead" => spc' = "dead"
    BY <1>1
  <1> QED BY <1>4, <1>6, <1>13, <1>14, <1>15, OneClient

LEMMA ReadReplyStep ==
  ASSUME IInv, NEW c \in Client, ReadReply(c)
  PROVE  IInv'
  <1>1. /\ cpc[c] = "reply" /\ ack[c]
        /\ ack' = [ack EXCEPT ![c] = FALSE] /\ cpc' = [cpc EXCEPT ![c] = "send"]
        /\ UNCHANGED <<file, changed, size, off, conn, toServer, spc, mode, cfd, stored, done>>
    BY DEF ReadReply, ClientAt, server
  <1>2. TypeOK'
    BY <1>1, Of DEF TypeOK
  <1>3. /\ cpc'[c] = "send" /\ ~ack'[c]
        /\ \A d \in Client \ {c} : cpc'[d] = cpc[d] /\ ack'[d] = ack[d]
    BY <1>1, Of DEF TypeOK
  <1>4. \A d \in Client \ {c} : Same(d)
    BY <1>1, <1>3 DEF Same
  <1>5. InStep(c)'
    BY <1>1, <1>3, Of DEF InStep, AtFirst, AtAck, AtData
  <1>6. Unsent(c)'
    BY <1>3 DEF Unsent
  <1>7. Announced(c)'
    <2>1. Told(c)
      BY <1>1 DEF Told
    <2> QED BY <1>1, <2>1, Of DEF Announced
  <1>8. Ended(c)'
    BY <1>1, <1>3, Of DEF Ended
  <1>9. Received(c)'
    BY <1>1, Of DEF Received
  <1>10. PerClient(c)'
    BY <1>1, <1>5, <1>6, <1>7, <1>8, <1>9, Of DEF PerClient
  <1>11. (cfd # NoClient <=> Serves)'
    BY <1>1 DEF IInv, Serves
  <1>12. spc = "dead" => spc' = "dead"
    BY <1>1
  <1> QED BY <1>2, <1>4, <1>10, <1>11, <1>12, OneClient

(* What a read of the file returns: the next units, as many as there are   *)
(* and the buffer holds.                                                   *)
LEMMA Chunk ==
  ASSUME NEW n \in Nat, NEW o \in Nat
  PROVE  LET chunk == SubSeq(Units(0, n), o + 1, Lesser(o + BufLen, n)) IN
         \E l \in Nat : chunk = Units(o, l) /\ (o <= n => o + l <= n)
  <1> DEFINE j == Lesser(o + BufLen, n)  chunk == SubSeq(Units(0, n), o + 1, j)
  <1>1. BufLen \in Nat /\ j \in Nat /\ j <= n /\ j <= o + BufLen
    BY SizesAssumption DEF Lesser
  <1> HIDE DEF j
  <1>2. CASE o <= j
    <2>1. PICK a \in Nat, k \in Nat : a = 0 /\ k = j
      BY <1>1
    <2>2. o <= k /\ k <= n
      BY <1>1, <1>2, <2>1
    <2>3. SubSeq(Units(a, n), o + 1, k) = Units(a + o, k - o)
      BY <2>2, UnitsPart, Zenon
    <2>4. chunk = Units(o, k - o) /\ k - o \in Nat /\ o + (k - o) <= n
      <3>1. a + o = o /\ k - o \in Nat /\ o + (k - o) <= n
        BY <2>1, <2>2
      <3> QED BY <2>1, <2>3, <3>1
    <2> HIDE DEF chunk
    <2>5. \E l \in Nat : chunk = Units(o, l) /\ (o <= n => o + l <= n)
      BY <2>4
    <2> QED BY <2>5 DEF chunk, j
  <1>3. CASE ~(o <= j)
    <2>1. chunk = <<>>
      <3>1. o + 1 \in Int /\ j \in Int /\ j < o + 1
        BY <1>1, <1>3
      <3> QED BY <3>1, SubSeqEmpty
    <2> HIDE DEF chunk
    <2>2. chunk = Units(o, 0) /\ 0 \in Nat /\ (o <= n => o + 0 <= n)
      <3>1. chunk = Units(o, 0)
        BY <2>1, NoUnits
      <3> QED BY <3>1
    <2>3. \E l \in Nat : chunk = Units(o, l) /\ (o <= n => o + l <= n)
      BY <2>2
    <2> QED BY <2>3 DEF chunk, j
  <1> QED BY <1>2, <1>3

LEMMA SendChunkStep ==
  ASSUME IInv, NEW c \in Client, SendChunk(c)
  PROVE  IInv'
  <1> DEFINE chunk == SubSeq(file[c], off[c] + 1, Lesser(off[c] + BufLen, Len(file[c])))
  <1>1. /\ cpc[c] = "send" /\ (chunk # <<>> => conn[c] = "up")
        /\ toServer' = [toServer EXCEPT ![c] = toServer[c] \o chunk]
        /\ off' = [off EXCEPT ![c] = off[c] + Len(chunk)]
        /\ cpc' = [cpc EXCEPT ![c] = "last"] \/ cpc' = cpc
        /\ UNCHANGED <<file, changed, size, conn, ack, spc, mode, cfd, stored, done>>
    BY Of DEF SendChunk, Write, ClientAt, server, TypeOK
  <1>2. PICK l \in Nat : /\ chunk = Units(off[c], l)
                         /\ off[c] <= Len(file[c]) => off[c] + l <= Len(file[c])
    BY Of, Chunk
  <1> HIDE DEF chunk
  <1>3. chunk \in Seq(Nat) /\ Len(chunk) = l
    BY <1>2, Of, UnitsType
  <1>4. toServer[c] \o chunk \in Seq(Nat)
        /\ Len(toServer[c] \o chunk) = Len(toServer[c]) + l
    BY <1>3, Of, ConcatProperties
  <1>5. off[c] + l \in Nat
    BY Of
  <1>6. TypeOK'
    BY <1>1, <1>3, <1>4, <1>5, Of DEF TypeOK
  <1>7. /\ cpc'[c] \in {"last", "send"} /\ toServer'[c] = toServer[c] \o chunk
        /\ off'[c] = off[c] + l
        /\ \A d \in Client \ {c} : /\ cpc'[d] = cpc[d] /\ toServer'[d] = toServer[d]
                                   /\ off'[d] = off[d]
    BY <1>1, <1>3, Of DEF TypeOK
  <1>8. \A d \in Client \ {c} : Same(d)
    BY <1>1, <1>7 DEF Same
  <1>9. InStep(c)'
    <2> SUFFICES ASSUME cfd = c
                 PROVE  /\ spc # "first" /\ spc # "ack"
                        /\ spc = "data" => AtData(c)'
      BY <1>1 DEF InStep
    <2>1. spc # "first" /\ spc # "ack"
      BY <1>1, Of DEF InStep, AtFirst, AtAck
    <2>2. ASSUME spc = "data" PROVE AtData(c)'
      <3>1. AtData(c)
        BY <2>2, Of DEF InStep
      <3>2. PICK k \in Nat, m \in Nat, o \in Nat :
               k = Len(stored[c]) /\ m = Len(toServer[c]) /\ o = off[c]
        BY Of
      <3>3. toServer[c] = Units(k, m) /\ k + m <= o /\ (conn[c] = "up" => k + m = o)
        BY <3>1, <3>2 DEF AtData
      <3>4. chunk = Units(o, l)
        BY <1>2, <3>2
      <3>5. toServer'[c] = Units(k, m + l)
            /\ k + (m + l) <= o + l
            /\ (conn[c] = "up" => k + (m + l) = o + l)
        <4>1. CASE conn[c] = "up"
          <5>1. k + m = o
            BY <3>3, <4>1
          <5>2. toServer'[c] = Units(k, m) \o Units(k + m, l)
            BY <1>7, <3>3, <3>4, <5>1
          <5>3. Units(k, m) \o Units(k + m, l) = Units(k, m + l)
            BY UnitsJoin
          <5>4. k + (m + l) = o + l
            BY <5>1
          <5> QED BY <5>2, <5>3, <5>4
        <4>2. CASE conn[c] # "up"
          <5>1. chunk = <<>>
            BY <1>1, <4>2
          <5>2. l = 0
            BY <1>3, <5>1, NoUnits
          <5>3. toServer'[c] = toServer[c]
            BY <1>7, <5>1, Of, ConcatEmptySeq
          <5>4. m + l = m /\ k + (m + l) <= o + l
            BY <3>3, <5>2
          <5> QED BY <3>3, <4>2, <5>3, <5>4
        <4> QED BY <4>1, <4>2
      <3>6. m + l \in Nat
        OBVIOUS
      <3>7. Len(toServer'[c]) = m + l
        BY <3>5, <3>6, UnitsType
      <3>8. stored'[c] = stored[c] /\ conn'[c] = conn[c] /\ cpc'[c] \notin {"connect", "header"}
        BY <1>1, <1>7
      <3>9. /\ stored'[c] = Units(0, Len(stored'[c])) /\ Len(stored'[c]) = k
            /\ toServer'[c] = Units(k, Len(toServer'[c]))
            /\ k + Len(toServer'[c]) <= off'[c]
            /\ conn'[c] = "up" => k + Len(toServer'[c]) = off'[c]
        BY <1>7, <3>1, <3>2, <3>5, <3>7, <3>8 DEF AtData
      <3> QED BY <3>8, <3>9 DEF AtData
    <2> QED BY <2>1, <2>2
  <1>10. Unsent(c)'
    BY <1>7 DEF Unsent
  <1>11. Announced(c)'
    <2>1. Told(c)
      BY <1>1 DEF Told
    <2> QED BY <1>1, <1>2, <1>7, <2>1, Of DEF Announced
  <1>12. Ended(c)'
    BY <1>1, <1>7, Of DEF Ended
  <1>13. Received(c)'
    BY <1>1, Of DEF Received
  <1>14. PerClient(c)'
    BY <1>1, <1>9, <1>10, <1>11, <1>12, <1>13, Of DEF PerClient
  <1>15. (cfd # NoClient <=> Serves)'
    BY <1>1 DEF IInv, Serves
  <1>16. spc = "dead" => spc' = "dead"
    BY <1>1
  <1> QED BY <1>6, <1>8, <1>14, <1>15, <1>16, OneClient

LEMMA ReadHeaderStep ==
  ASSUME IInv, ReadHeader
  PROVE  IInv'
  <1>1. PICK c \in Client : c = cfd
    BY Of DEF IInv, ReadHeader, Serves, TypeOK
  <1>2. PICK n \in 1 .. Lesser(BufLen, Len(toServer[c])) :
           /\ stored' = [stored EXCEPT ![c] = <<>>]
           /\ toServer' = [toServer EXCEPT ![c] = SubSeq(toServer[c], n + 1, Len(toServer[c]))]
    BY <1>1, Of DEF ReadHeader, FirstRead, TypeOK
  <1>3. /\ spc = "first" /\ toServer[c] # <<>> /\ spc' = "ack"
        /\ UNCHANGED <<file, changed, cpc, size, off, conn, ack, mode, cfd, done>>
    BY <1>1 DEF ReadHeader, client
  <1>4. AtFirst(c) /\ toServer[c] = << 0 >> /\ cpc[c] # "header"
    BY <1>1, <1>3, Of DEF InStep, AtFirst
  <1>5. SubSeq(toServer[c], n + 1, Len(toServer[c])) = <<>>
    <2>1. Len(toServer[c]) = 1 /\ n \in Int /\ n >= 1
      BY <1>4, NoUnits, SizesAssumption DEF Lesser
    <2>2. n + 1 \in Int /\ Len(toServer[c]) \in Int /\ Len(toServer[c]) < n + 1
      BY <2>1
    <2> QED BY <2>2, SubSeqEmpty
  <1>6. TypeOK'
    BY <1>2, <1>3, <1>5, NoUnits, Of DEF TypeOK
  <1>7. /\ stored'[c] = <<>> /\ toServer'[c] = <<>>
        /\ \A d \in Client \ {c} : stored'[d] = stored[d] /\ toServer'[d] = toServer[d]
    BY <1>2, <1>5, Of DEF TypeOK
  <1>8. \A d \in Client \ {c} : Same(d)
    BY <1>1, <1>3, <1>7 DEF Same
  <1>9. InStep(c)'
    BY <1>3, <1>4, <1>7 DEF InStep, AtFirst, AtAck
  <1>10. c \notin done /\ cpc[c] # "connect"
    BY <1>1, Of DEF Ended, Unsent
  <1>11. Unsent(c)'
    BY <1>3, <1>4, <1>10 DEF Unsent
  <1>12. Announced(c)'
    <2>1. Told(c)
      BY <1>1, <1>3 DEF Told
    <2> QED BY <1>3, <2>1, Of DEF Announced
  <1>13. Ended(c)'
    BY <1>3, Of DEF Ended
  <1>14. Received(c)'
    BY <1>3, <1>10 DEF Received
  <1>15. PerClient(c)'
    BY <1>3, <1>9, <1>11, <1>12, <1>13, <1>14, Of DEF PerClient
  <1>16. (cfd # NoClient <=> Serves)'
    BY <1>1, <1>3, Of DEF Serves
  <1>17. spc # "dead"
    BY <1>3
  <1> QED BY <1>6, <1>8, <1>15, <1>16, <1>17, OneClient

LEMMA WriteAckStep ==
  ASSUME IInv, WriteAck
  PROVE  IInv'
  <1>1. PICK c \in Client : c = cfd
    BY Of DEF IInv, WriteAck, Serves, TypeOK
  <1>2. /\ spc = "ack" /\ spc' = "data" /\ ack' = [ack EXCEPT ![c] = TRUE]
        /\ UNCHANGED <<file, changed, cpc, size, off, conn, toServer, mode, cfd, stored, done>>
    BY <1>1 DEF WriteAck, client
  <1>3. AtAck(c)
    BY <1>1, <1>2, Of DEF InStep
  <1>4. TypeOK'
    BY <1>2, Of DEF TypeOK
  <1>5. \A d \in Client \ {c} : ack'[d] = ack[d]
    BY <1>2, Of DEF TypeOK
  <1>6. \A d \in Client \ {c} : Same(d)
    BY <1>1, <1>2, <1>5 DEF Same
  <1>7. AtData(c)'
    <2>1. stored[c] = <<>> /\ toServer[c] = <<>> /\ Len(<<>>) = 0 /\ Units(0, 0) = <<>>
      BY <1>3, NoUnits DEF AtAck
    <2>2. off[c] = 0 /\ cpc[c] \in {"reply", "failed"}
      BY <1>3 DEF AtAck
    <2>3. 0 + 0 = 0 /\ 0 <= 0
      OBVIOUS
    <2> QED BY <1>2, <2>1, <2>2, <2>3 DEF AtData
  <1>8. InStep(c)'
    BY <1>2, <1>7 DEF InStep
  <1>9. Unsent(c)'
    BY <1>2, <1>3 DEF Unsent, AtAck
  <1>10. Announced(c)'
    <2>1. Told(c)
      BY <1>1, <1>2 DEF Told
    <2> QED BY <1>2, <2>1, Of DEF Announced
  <1>11. Ended(c)'
    BY <1>2, Of DEF Ended
  <1>12. Received(c)'
    BY <1>2, Of DEF Received
  <1>13. PerClient(c)'
    BY <1>2, <1>8, <1>9, <1>10, <1>11, <1>12, Of DEF PerClient
  <1>14. (cfd # NoClient <=> Serves)'
    BY <1>1, <1>2, Of DEF Serves
  <1>15. spc # "dead"
    BY <1>2
  <1> QED BY <1>4, <1>6, <1>13, <1>14, <1>15, OneClient

LEMMA TakenOff ==
  ASSUME NEW k \in Nat, NEW m \in Nat, NEW n \in Nat, n <= m
  PROVE  k + n \in Nat /\ m - n \in Nat /\ 0 \in Nat /\ (k + n) + (m - n) = k + m
  OBVIOUS

LEMMA ReadDataStep ==
  ASSUME IInv, ReadData
  PROVE  IInv'
  <1>1. PICK c \in Client : c = cfd
    BY Of DEF IInv, ReadData, Serves, TypeOK
  <1>2. PICK n \in 1 .. Lesser(BufLen, Len(toServer[c])) :
           /\ stored' = [stored EXCEPT ![c] = stored[c] \o SubSeq(toServer[c], 1, n)]
           /\ toServer' = [toServer EXCEPT ![c] = SubSeq(toServer[c], n + 1, Len(toServer[c]))]
    BY <1>1, Of DEF ReadData, TypeOK
  <1>3. /\ spc = "data"
        /\ UNCHANGED <<file, changed, cpc, size, off, conn, ack, spc, mode, cfd, done>>
    BY <1>1 DEF ReadData, client
  <1>4. AtData(c)
    BY <1>1, <1>3, Of DEF InStep
  <1>5. PICK k \in Nat, m \in Nat, o \in Nat :
           k = Len(stored[c]) /\ m = Len(toServer[c]) /\ o = off[c]
    BY Of
  <1>6. /\ stored[c] = Units(0, k) /\ toServer[c] = Units(k, m)
        /\ k + m <= o /\ (conn[c] = "up" => k + m = o)
    BY <1>4, <1>5 DEF AtData
  <1>7. n \in Nat /\ n >= 1 /\ n <= m
    BY <1>5, SizesAssumption DEF Lesser
  <1>8. stored[c] \o SubSeq(toServer[c], 1, n) = Units(0, k + n)
    <2>1. SubSeq(Units(k, m), 1, n) = Units(k, n)
      BY <1>7, UnitsFirst
    <2>2. 0 + k = k
      OBVIOUS
    <2>3. Units(0, k) \o Units(0 + k, n) = Units(0, k + n)
      <3>1. 0 \in Nat
        OBVIOUS
      <3> QED BY <1>7, <3>1, UnitsJoin
    <2> QED BY <1>6, <2>1, <2>2, <2>3
  <1>9. SubSeq(toServer[c], n + 1, Len(toServer[c])) = Units(k + n, m - n)
    <2>1. SubSeq(Units(k, m), n + 1, m) = Units(k + n, m - n)
      <3>1. n <= m /\ m <= m /\ n \in Nat
        BY <1>7
      <3> QED BY <3>1, UnitsPart, Zenon
    <2> QED BY <1>5, <1>6, <2>1
  <1>10. k + n \in Nat /\ m - n \in Nat /\ 0 \in Nat /\ (k + n) + (m - n) = k + m
    BY <1>7, TakenOff, Zenon
  <1>11. /\ Units(0, k + n) \in Seq(Nat) /\ Len(Units(0, k + n)) = k + n
         /\ Units(k + n, m - n) \in Seq(Nat) /\ Len(Units(k + n, m - n)) = m - n
    BY <1>10, UnitsType
  <1>12. TypeOK'
    BY <1>2, <1>3, <1>8, <1>9, <1>11, Of DEF TypeOK
  <1>13. /\ stored'[c] = Units(0, k + n) /\ toServer'[c] = Units(k + n, m - n)
         /\ \A d \in Client \ {c} : stored'[d] = stored[d] /\ toServer'[d] = toServer[d]
    BY <1>2, <1>8, <1>9, Of DEF TypeOK
  <1>14. \A d \in Client \ {c} : Same(d)
    BY <1>1, <1>3, <1>13 DEF Same
  <1>15. AtData(c)'
    <2>1. Len(stored'[c]) = k + n /\ Len(toServer'[c]) = m - n
      BY <1>11, <1>13
    <2>2. cpc'[c] \notin {"connect", "header"}
      BY <1>3, <1>4 DEF AtData
    <2>3. off'[c] = o /\ conn'[c] = conn[c]
      BY <1>3, <1>5
    <2> QED BY <1>6, <1>10, <1>13, <2>1, <2>2, <2>3 DEF AtData
  <1>16. InStep(c)'
    BY <1>3, <1>15 DEF InStep
  <1>17. c \notin done
    BY <1>1, Of DEF Ended
  <1>18. Unsent(c)'
    BY <1>3, <1>4 DEF Unsent, AtData
  <1>19. Announced(c)'
    <2>1. Told(c)
      BY <1>1, <1>3 DEF Told
    <2> QED BY <1>3, <2>1, Of DEF Announced
  <1>20. Ended(c)'
    BY <1>3, Of DEF Ended
  <1>21. Received(c)'
    BY <1>3, <1>17 DEF Received
  <1>22. PerClient(c)'
    BY <1>3, <1>16, <1>18, <1>19, <1>20, <1>21, Of DEF PerClient
  <1>23. (cfd # NoClient <=> Serves)'
    BY <1>3 DEF IInv, Serves
  <1>24. spc # "dead"
    BY <1>3
  <1> QED BY <1>12, <1>14, <1>22, <1>23, <1>24, OneClient

(* A file that is changed is still made of consecutive units.              *)
LEMMA FileChangesStep ==
  ASSUME IInv, NEW c \in Client, FileChanges(c)
  PROVE  IInv'
  <1>1. /\ cpc[c] \in {"reply", "send"} /\ changed' = [changed EXCEPT ![c] = TRUE]
        /\ UNCHANGED <<cpc, size, off, conn, toServer, ack, spc, mode, cfd, stored, done>>
    BY DEF FileChanges, server
  <1>2. PICK n \in Nat : n = Len(file[c]) /\ file[c] = Units(0, n)
    BY Of
  <1>3. PICK l \in Nat : file' = [file EXCEPT ![c] = Units(0, l)]
    <2>1. CASE file' = [file EXCEPT ![c] = Append(file[c], Len(file[c]) + 1)]
      <3>1. Append(Units(0, n), n + 1) = Units(0, n + 1)
        <4> DEFINE s == Units(0, n)  t == Append(s, n + 1)  u == Units(0, n + 1)
        <4>1. n + 1 \in Nat /\ 0 \in Nat
          OBVIOUS
        <4>2. s \in Seq(Nat) /\ Len(s) = n /\ \A i \in 1 .. n : s[i] = 0 + i
          BY <4>1, UnitsType DEF Units
        <4>3. u \in Seq(Nat) /\ Len(u) = n + 1 /\ \A i \in 1 .. n + 1 : u[i] = 0 + i
          BY <4>1, UnitsType DEF Units
        <4> HIDE DEF s, u
        <4>4. /\ t \in Seq(Nat) /\ Len(t) = n + 1
              /\ \A i \in 1 .. n : t[i] = s[i]
              /\ t[n + 1] = n + 1
          BY <4>1, <4>2, AppendProperties
        <4> HIDE DEF t
        <4>5. ASSUME NEW i \in 1 .. n + 1 PROVE t[i] = u[i]
          <5>1. CASE i = n + 1
            BY <4>3, <4>4, <5>1
          <5>2. CASE i # n + 1
            BY <4>2, <4>3, <4>4, <5>2
          <5> QED BY <5>1, <5>2
        <4>6. t = u
          BY <4>3, <4>4, <4>5, SeqEqual
        <4> QED BY <4>6 DEF s, t, u
      <3>2. n + 1 \in Nat
        OBVIOUS
      <3> QED BY <1>2, <2>1, <3>1, <3>2
    <2>2. CASE file[c] # <<>> /\ file' = [file EXCEPT ![c] = Front(file[c])]
      <3>1. n # 0
        BY <1>2, <2>2, NoUnits
      <3>2. n - 1 \in Nat /\ 0 \in Nat
        BY <3>1
      <3>3. SubSeq(Units(0, n), 1, n - 1) = Units(0, n - 1)
        <4>1. n - 1 <= n
          OBVIOUS
        <4> QED BY <3>2, <4>1, UnitsFirst
      <3>4. Front(file[c]) = Units(0, n - 1)
        BY <1>2, <3>3 DEF Front
      <3> QED BY <2>2, <3>2, <3>4
    <2> QED BY <2>1, <2>2, Of DEF FileChanges, TypeOK
  <1>4. Units(0, l) \in Seq(Nat) /\ Len(Units(0, l)) = l
    BY UnitsType
  <1>5. TypeOK'
    BY <1>1, <1>3, <1>4, Of DEF TypeOK
  <1>6. /\ changed'[c] = TRUE /\ file'[c] = Units(0, l)
        /\ \A d \in Client \ {c} : changed'[d] = changed[d] /\ file'[d] = file[d]
    BY <1>1, <1>3, Of DEF TypeOK
  <1>7. \A d \in Client \ {c} : Same(d)
    BY <1>1, <1>6 DEF Same
  <1>8. InStep(c)'
    BY <1>1, Of DEF InStep, AtFirst, AtAck, AtData
  <1>9. Unsent(c)'
    BY <1>1 DEF Unsent
  <1>10. Announced(c)' /\ Received(c)'
    BY <1>6 DEF Announced, Received
  <1>11. Ended(c)'
    BY <1>1, Of DEF Ended
  <1>12. PerClient(c)'
    BY <1>4, <1>6, <1>8, <1>9, <1>10, <1>11 DEF PerClient
  <1>13. (cfd # NoClient <=> Serves)'
    BY <1>1 DEF IInv, Serves
  <1>14. spc = "dead" => spc' = "dead"
    BY <1>1
  <1> QED BY <1>5, <1>7, <1>12, <1>13, <1>14, OneClient

LEMMA IInvStep ==
  ASSUME IInv, [Next]_vars
  PROVE  IInv'
  <1>1. ASSUME NEW c \in Client, ClientStep(c)
        PROVE  IInv'
    <2>1. CASE ClientFails(c)
      BY <2>1, ClientLeavesStep DEF ClientFails
    <2>2. CASE ClientCutOff(c)
      BY <2>2, ClientLeavesStep DEF ClientCutOff
    <2>3. CASE LastRead(c)
      <3>1. PICK to \in {"ok", "failed"} : ClientLeaves(c, to)
        BY <2>3 DEF LastRead
      <3>2. cpc[c] = "last" /\ conn[c] # "up"
        BY <2>3 DEF LastRead
      <3> QED BY <3>1, <3>2, ClientLeavesStep
    <2> QED BY <1>1, <2>1, <2>2, <2>3, ConnectStep, SendHeaderStep, ReadReplyStep, SendChunkStep
        DEF ClientStep
  <1>2. ASSUME spc \in {"first", "ack", "data"} \/ cfd # NoClient
        PROVE  cfd \in Client /\ spc \in {"first", "ack", "data"}
    BY <1>2 DEF IInv, Serves, TypeOK
  <1>3. CASE ServerFails
    BY <1>2, <1>3, ServerLeavesStep DEF ServerFails
  <1>4. CASE ServerCutOff
    BY <1>2, <1>4, ServerLeavesStep DEF ServerCutOff
  <1>5. CASE Finish
    <2>1. cfd \in Client /\ spc = "data"
      BY <1>2, <1>5 DEF Finish
    <2>2. PICK c \in Client : c = cfd
      BY <2>1
    <2>3. Len(stored[c]) >= size[c]
      <3>1. Len(stored[c]) \in Nat /\ size[c] \in Nat
        BY Of
      <3>2. ~(Len(stored[c]) < size[c])
        BY <1>5, <2>2 DEF Finish, MoreToCome
      <3> QED BY <3>1, <3>2
    <2>4. PICK to \in {"accept", "dead", "ended"} : ServerLeaves(to)
      BY <1>5 DEF Finish
    <2> QED BY <1>5, <2>1, <2>2, <2>3, <2>4, ServerLeavesStep DEF Finish
  <1>6. CASE UNCHANGED vars
    <2>1. /\ UNCHANGED <<file, changed, cpc, size, off, conn, toServer, ack>>
          /\ UNCHANGED <<spc, mode, cfd, stored, done>>
      BY <1>6 DEF vars
    <2>2. TypeOK' /\ (cfd # NoClient <=> Serves)'
      BY <2>1 DEF IInv, TypeOK, Serves
    <2>3. ASSUME NEW c \in Client PROVE PerClient(c)'
      <3>1. Same(c) /\ PerClient(c)
        BY <2>1 DEF Same, IInv
      <3>2. spc = "dead" => spc' = "dead"
        BY <2>1
      <3> QED BY <3>1, <3>2, SameKept
    <2> QED BY <2>2, <2>3 DEF IInv
  <1> QED BY <1>1, <1>3, <1>4, <1>5, <1>6, LinkLostStep, FileChangesStep, ReadHeaderStep,
             WriteAckStep, ReadDataStep
      DEF Next, ServerStep

(* The units stored, on their way and sent are consecutive, and nobody but *)
(* the client being served has a connection.                               *)
THEOREM Inductive == Spec => []IInv
  BY InitIInv, IInvStep, PTL DEF Spec

(* A file for which handle_client returned 0 is the file that was opened,  *)
(* unless it was changed, in whatever pieces it arrived.                   *)
THEOREM FilesArriveWhole == Spec => []ReceivedIsWhole
  <1>1. IInv => ReceivedIsWhole
    <2> SUFFICES ASSUME IInv, NEW c \in done, ~changed[c] PROVE stored[c] = file[c]
      BY DEF ReceivedIsWhole
    <2>1. c \in Client
      BY DEF IInv, TypeOK
    <2> QED BY <2>1, Of DEF Received
  <1> QED BY <1>1, Inductive, PTL

(* A sender that reports success has been read to the end, unless the link *)
(* was lost or the server gave up.                                         *)
THEOREM SuccessMeansReceived == Spec => []SentIsReceived
  <1>1. IInv => SentIsReceived
    <2> SUFFICES ASSUME IInv, NEW c \in Client, cpc[c] = "ok", conn[c] # "lost", spc # "dead"
                 PROVE  c \in done
      BY DEF SentIsReceived
    <2>1. conn[c] \in {"none", "up", "closed", "lost"}
      BY Of DEF TypeOK
    <2> QED BY <2>1, Of DEF Ended
  <1> QED BY <1>1, Inductive, PTL

-----------------------------------------------------------------------------
(* irkbd                                                                   *)

KbdStates == {"IDLE", "INIT_KBD", "INIT_MOUSE", "READY", "POLLING"}
Commands  == {"ENABLE", "INIT_KBD", "INIT_MOUSE"}
Answers   == {"POLL", "KBD", "MS"}
Handlers  == {"alrm", "io"}

KbdTypeOK ==
  /\ pc \in {"discover", "up", "session", "kbd", "mouse", "wait"}
  /\ state \in KbdStates /\ connected \in BOOLEAN
  /\ timer \in BOOLEAN /\ sigalrm \in BOOLEAN /\ sigio \in BOOLEAN
  /\ stack \in Seq(Handlers)
  /\ alrm \in [step : {"none", "read", "send", "finish"}, saw : KbdStates]
  /\ io \in {"none", "recv", "set", "arm", "leave"}
  /\ frame \in Answers \union {"NONE"} /\ link \in {"up", "down"}
  /\ outq \in Seq(Commands) /\ inq \in Seq(Answers)

(* Until main starts the first exchange nothing is under way.              *)
BeforeFirst ==
  state = "IDLE" =>
    /\ pc \in {"discover", "up", "session"}
    /\ ~timer /\ ~sigalrm /\ alrm.step = "none"
    /\ outq = <<>> /\ inq = <<>> /\ frame = "NONE" /\ io \notin {"set", "arm"}

(* The SIGALRM handler always has a command to send.                       *)
HasCommand == alrm.step \in {"send", "finish"} => alrm.saw # "IDLE"

(* A SIGALRM handler that has sent its command has passed the token on,    *)
(* unless it is going to start the timer itself.                           *)
Token ==
  pc = "wait" /\ link = "up" =>
    \/ timer \/ sigalrm
    \/ alrm.step \in {"read", "send"}
    \/ alrm.step = "finish" /\ alrm.saw = "POLLING"
    \/ outq # <<>> \/ inq # <<>> \/ io \in {"set", "arm"}

KbdInv == KbdTypeOK /\ BeforeFirst /\ HasCommand /\ Token

(* What the queues and the nesting of the handlers are built with.         *)
LEMMA OneMore ==
  ASSUME NEW S, NEW q \in Seq(S)
  PROVE  /\ <<>> \in Seq(S)
         /\ q # <<>> => Head(q) \in S /\ Tail(q) \in Seq(S)
         /\ \A e \in S : /\ Append(q, e) \in Seq(S) /\ Append(q, e) # <<>>
                         /\ <<e>> \o q \in Seq(S)
  <1>1. <<>> \in Seq(S)
    BY EmptySeq
  <1>2. q # <<>> => Head(q) \in S /\ Tail(q) \in Seq(S)
    BY HeadTailProperties
  <1>3. ASSUME NEW e \in S
        PROVE  /\ Append(q, e) \in Seq(S) /\ Append(q, e) # <<>>
               /\ <<e>> \o q \in Seq(S)
    <2>1. Append(q, e) \in Seq(S) /\ Append(q, e) # <<>>
      BY AppendProperties
    <2>2. <<e>> \in Seq(S)
      OBVIOUS
    <2>. QED
      BY <2>1, <2>2, ConcatProperties
  <1>. QED
    BY <1>1, <1>2, <1>3

LEMMA MainKeepsToken ==
  ASSUME KbdInv, ConnectRequest \/ MainStep
  PROVE  KbdInv'
  <1>. USE DEF KbdInv, ConnectRequest, MainStep, SetConnected, SetInitKbd,
       SetInitMouse, StartTimer, LeaveWait, Main, wire
  <1>1. KbdTypeOK'
    BY DEF KbdTypeOK, KbdStates
  <1>2. BeforeFirst'
    BY DEF BeforeFirst
  <1>3. HasCommand'
    BY DEF HasCommand
  <1>4. Token'
    BY DEF Token, KbdTypeOK
  <1>. QED
    BY <1>1, <1>2, <1>3, <1>4

LEMMA SignalsKeepToken ==
  ASSUME KbdInv, TimerExpires \/ EnterAlrm \/ EnterIo
  PROVE  KbdInv'
  <1>1. \E h \in Handlers : stack' = stack \/ stack' = <<h>> \o stack
    BY DEF Handlers, TimerExpires, EnterAlrm, EnterIo
  <1>2. stack' \in Seq(Handlers)
    BY <1>1, OneMore DEF KbdInv, KbdTypeOK
  <1>. USE DEF KbdInv, TimerExpires, EnterAlrm, EnterIo, main, wire
  <1>3. alrm' \in [step : {"none", "read", "send", "finish"}, saw : KbdStates]
    BY DEF KbdTypeOK, KbdStates
  <1>4. /\ timer' \in BOOLEAN /\ sigalrm' \in BOOLEAN /\ sigio' \in BOOLEAN
        /\ io' \in {"none", "recv", "set", "arm", "leave"}
    BY DEF KbdTypeOK
  <1>5. UNCHANGED <<pc, state, connected, frame, link, outq, inq>>
    OBVIOUS
  <1>6. KbdTypeOK'
    BY <1>2, <1>3, <1>4, <1>5 DEF KbdTypeOK
  <1>7. BeforeFirst'
    BY DEF BeforeFirst, KbdTypeOK
  <1>8. HasCommand'
    BY DEF HasCommand
  <1>9. Token'
    BY DEF Token, KbdTypeOK
  <1>. QED
    BY <1>6, <1>7, <1>8, <1>9

LEMMA AlrmKeepsToken ==
  ASSUME KbdInv, AlrmRead \/ AlrmSend \/ AlrmFinish
  PROVE  KbdInv'
  <1>1. state' \in KbdStates /\ (state' = "IDLE" => state = "IDLE")
    BY DEF KbdInv, KbdTypeOK, KbdStates, AlrmRead, AlrmSend, AlrmFinish,
       StateAfter
  <1>2. state # "IDLE" /\ alrm.step # "none"
    BY DEF KbdInv, BeforeFirst, AlrmRead, AlrmSend, AlrmFinish
  <1>3. /\ alrm' \in [step : {"none", "read", "send", "finish"}, saw : KbdStates]
        /\ HasCommand'
    <2>1. CASE AlrmRead
      BY <1>2, <2>1 DEF KbdInv, KbdTypeOK, HasCommand, AlrmRead
    <2>2. CASE AlrmSend
      BY <2>2 DEF KbdInv, KbdTypeOK, HasCommand, AlrmSend
    <2>3. CASE AlrmFinish
      BY <2>3 DEF KbdInv, KbdTypeOK, KbdStates, HasCommand, AlrmFinish, Quiescent
    <2>. QED
      BY <2>1, <2>2, <2>3
  <1>4. stack' \in Seq(Handlers) /\ timer' \in BOOLEAN
    <2>1. stack' = stack \/ (stack # <<>> /\ stack' = Tail(stack))
      BY DEF AlrmRead, AlrmSend, AlrmFinish, Innermost, signals
    <2>2. timer' = timer \/ timer' = (timer \/ alrm.saw = "POLLING")
      BY DEF AlrmRead, AlrmSend, AlrmFinish, signals
    <2>3. stack \in Seq(Handlers) /\ timer \in BOOLEAN
      BY DEF KbdInv, KbdTypeOK
    <2>4. stack' \in Seq(Handlers)
      BY <2>1, <2>3, OneMore
    <2>. QED
      BY <2>2, <2>3, <2>4
  <1>5. \/ outq' = outq
        \/ \E s \in Commands : outq' = Append(outq, s)
    <2>1. CASE AlrmSend
      <3>1. alrm.saw \in KbdStates \ {"IDLE"}
        BY <2>1 DEF KbdInv, KbdTypeOK, HasCommand, AlrmSend
      <3>2. Command(alrm.saw) \in Commands
        BY <3>1 DEF Command, KbdStates, Commands
      <3>. QED
        BY <2>1, <3>2 DEF AlrmSend
    <2>. QED
      BY <2>1 DEF AlrmRead, AlrmFinish, wire
  <1>6. outq' \in Seq(Commands) /\ (outq # <<>> => outq' # <<>>)
    BY <1>5, OneMore DEF KbdInv, KbdTypeOK
  <1>7. UNCHANGED <<pc, connected, sigalrm, sigio, io, frame, link, inq>>
    BY DEF AlrmRead, AlrmSend, AlrmFinish, main, signals, wire
  <1>8. KbdTypeOK'
    BY <1>1, <1>3, <1>4, <1>6, <1>7 DEF KbdInv, KbdTypeOK
  <1>9. BeforeFirst'
    BY <1>1, <1>2 DEF BeforeFirst
  <1>10. Token'
    <2>. SUFFICES ASSUME pc = "wait", link = "up" PROVE Token'
      BY <1>7 DEF Token
    <2>1. CASE AlrmRead
      BY <2>1 DEF KbdInv, KbdTypeOK, Token, AlrmRead
    <2>2. CASE AlrmSend
      <3>1. alrm.saw \in KbdStates \ {"IDLE"}
        BY <2>2 DEF KbdInv, KbdTypeOK, HasCommand, AlrmSend
      <3>2. Command(alrm.saw) # "none"
        BY <3>1 DEF Command, KbdStates
      <3>3. outq' = Append(outq, Command(alrm.saw))
        BY <2>2, <3>2 DEF AlrmSend
      <3>4. outq' # <<>>
        BY <3>3 DEF KbdInv, KbdTypeOK
      <3>. QED
        BY <3>4 DEF Token
    <2>3. CASE AlrmFinish
      BY <2>3 DEF KbdInv, KbdTypeOK, Token, AlrmFinish, wire
    <2>. QED
      BY <2>1, <2>2, <2>3
  <1>. QED
    BY <1>3, <1>8, <1>9, <1>10 DEF KbdInv

LEMMA IoKeepsToken ==
  ASSUME KbdInv, IoRecv \/ IoEof \/ IoSetState \/ IoArm \/ IoLeave
  PROVE  KbdInv'
  <1>. USE DEF KbdInv, IoRecv, IoEof, IoSetState, IoArm, IoLeave
  <1>1. stack' \in Seq(Handlers)
    <2>1. stack' = stack \/ (stack # <<>> /\ stack' = Tail(stack))
      BY DEF Innermost, signals
    <2>2. stack \in Seq(Handlers)
      BY DEF KbdTypeOK
    <2>3. stack # <<>> => Tail(stack) \in Seq(Handlers)
      BY <2>2, OneMore
    <2>. QED
      BY <2>1, <2>2, <2>3
  <1>2. UNCHANGED <<pc, sigalrm, sigio, alrm, link, outq>>
    BY DEF main, signals, wire
  <1>3. /\ frame' \in Answers \union {"NONE"} /\ inq' \in Seq(Answers)
        /\ frame' = "NONE" => frame = "NONE"
    <2>1. \/ inq' = inq /\ frame' = frame
          \/ inq # <<>> /\ inq' = <<>> /\ frame' = Head(inq)
      BY DEF wire
    <2>2. inq # <<>> => Head(inq) \in Answers
      BY OneMore DEF KbdTypeOK
    <2>3. <<>> \in Seq(Answers) /\ "NONE" \notin Answers
      BY EmptySeq DEF Answers
    <2>. QED
      BY <2>1, <2>2, <2>3 DEF KbdTypeOK
  <1>4. /\ io' \in {"none", "recv", "set", "arm", "leave"}
        /\ frame' # "NONE" \/ io' \in {"none", "leave"} \/ io \in {"set", "arm"}
    BY <1>3 DEF KbdTypeOK, Answers, FirstStep
  <1>5. state' \in KbdStates /\ timer' \in BOOLEAN /\ connected' \in BOOLEAN
    BY DEF KbdTypeOK, KbdStates, main, signals, Rearms
  <1>6. KbdTypeOK'
    BY <1>1, <1>2, <1>3, <1>4, <1>5 DEF KbdTypeOK
  <1>7. BeforeFirst'
    BY <1>2 DEF BeforeFirst, KbdTypeOK, signals, wire, FirstStep
  <1>8. HasCommand'
    BY <1>2 DEF HasCommand
  <1>9. Token'
    <2>1. IoRecv => io' \in {"set", "arm"}
      <3>1. inq # <<>> => Head(inq) \in Answers
        BY OneMore DEF KbdTypeOK
      <3>. QED
        BY <3>1 DEF Answers, FirstStep
    <2>. QED
      BY <1>2, <2>1 DEF Token, KbdTypeOK, signals, wire, Rearms
  <1>. QED
    BY <1>6, <1>7, <1>8, <1>9

LEMMA StationKeepsToken ==
  ASSUME KbdInv, StationAnswers \/ LinkDown
  PROVE  KbdInv'
  <1>. USE DEF KbdInv, StationAnswers, LinkDown, main
  <1>1. \/ outq' = <<>> /\ inq' = inq
        \/ /\ outq # <<>> /\ outq' = Tail(outq)
           /\ \E f \in Answers : inq' = Append(inq, f)
    <2>1. \A s \in Commands : Answer(s) \in Answers
      BY DEF Commands, Answers, Answer
    <2>2. outq # <<>> => Head(outq) \in Commands
      BY OneMore DEF KbdTypeOK
    <2>. QED
      BY <2>1, <2>2
  <1>2. outq' \in Seq(Commands) /\ inq' \in Seq(Answers)
    <2>1. outq \in Seq(Commands) /\ inq \in Seq(Answers)
      BY DEF KbdTypeOK
    <2>2. \A f \in Answers : Append(inq, f) \in Seq(Answers)
      BY <2>1, OneMore
    <2>3. <<>> \in Seq(Commands) /\ (outq # <<>> => Tail(outq) \in Seq(Commands))
      BY <2>1, OneMore
    <2>. QED
      BY <1>1, <2>1, <2>2, <2>3
  <1>3. KbdTypeOK'
    BY <1>2 DEF KbdTypeOK
  <1>4. BeforeFirst'
    BY DEF BeforeFirst
  <1>5. HasCommand'
    BY DEF HasCommand
  <1>6. Token'
    <2>1. CASE StationAnswers
      <3>1. PICK f \in Answers : inq' = Append(inq, f)
        <4>1. outq # <<>>
          BY <2>1
        <4>2. inq' = Append(inq, Answer(Head(outq)))
          BY <2>1
        <4>3. Head(outq) \in Commands
          BY <4>1, OneMore DEF KbdTypeOK
        <4>. QED
          BY <4>2, <4>3 DEF Commands, Answers, Answer
      <3>2. inq' # <<>>
        BY <3>1, OneMore DEF KbdTypeOK
      <3>. QED
        BY <3>2 DEF Token
    <2>2. CASE LinkDown
      BY <2>2 DEF Token
    <2>. QED
      BY <2>1, <2>2
  <1>. QED
    BY <1>3, <1>4, <1>5, <1>6

(* The token is never lost, and the first session has one.                 *)
THEOREM TokenKept == KbdSpec => []KbdInv
  <1>1. KbdInit => KbdInv
    <2>. SUFFICES ASSUME KbdInit PROVE KbdInv
      OBVIOUS
    <2>1. KbdTypeOK
      BY EmptySeq DEF KbdInit, Quiescent, KbdTypeOK, KbdStates
    <2>2. BeforeFirst /\ HasCommand /\ Token
      BY DEF KbdInit, Quiescent, BeforeFirst, HasCommand, Token
    <2>. QED
      BY <2>1, <2>2 DEF KbdInv
  <1>2. KbdInv /\ [KbdNext]_kbdVars => KbdInv'
    <2>. SUFFICES ASSUME KbdInv, [KbdNext]_kbdVars PROVE KbdInv'
      OBVIOUS
    <2>1. CASE UNCHANGED kbdVars
      BY <2>1 DEF kbdVars, KbdInv, KbdTypeOK, BeforeFirst, HasCommand, Token
    <2>2. CASE KbdNext
      BY <2>2, MainKeepsToken, SignalsKeepToken, AlrmKeepsToken, IoKeepsToken,
         StationKeepsToken DEF KbdNext, MainStep
    <2>. QED
      BY <2>1, <2>2
  <1>. QED
    BY <1>1, <1>2, PTL DEF KbdSpec

(* On a live session there is always a timer, an alarm, a command, an      *)
(* answer or a handler that will produce one, although nothing is retried  *)
(* and each handler may interrupt the other.                               *)
THEOREM PollingKept == KbdSpec => []KeepsPolling
  <1>1. KbdInv => KeepsPolling
    BY DEF KbdInv, Token, KeepsPolling
  <1>. QED
    BY <1>1, TokenKept, PTL
=============================================================================
