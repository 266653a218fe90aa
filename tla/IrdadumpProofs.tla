--------------------------- MODULE IrdadumpProofs ---------------------------
(***************************************************************************)
(* The two data structures of irdadump.  For blocks, bytes and chunks of   *)
(* every size, the message of a network buffer always lies in its block as *)
(* netbuf.h draws it, and the buffer implements Message.  For every table  *)
(* size and every set of selectors, services and addresses, IInv is an     *)
(* inductive invariant of IrdaTracker: however the frames of the two sides *)
(* interleave, twice sent CONNECTs and lost links included, frames are     *)
(* printed as what was looked up and no entry outlives its connection but  *)
(* in the ways the properties name.                                        *)
(***************************************************************************)
EXTENDS NetBuf, IrdaTracker, FiniteSetTheorems, WellFoundedInduction, TLAPS

(* The network buffer                                                      *)

BufIInv == BufTypeOK /\ Picture

(* A chunk is a sequence of bytes.                                         *)
LEMMA ChunkSeq ==
  \A s \in Chunks : /\ s \in Seq(Byte) /\ Len(s) \in Nat
                    /\ \A i \in 1 .. Len(s) : s[i] \in Byte
BY DEF Chunks

(* Writing a chunk into a block leaves a block.                            *)
LEMMA FillBlock ==
  ASSUME NEW n \in Nat, NEW m \in Block(n), NEW from \in Nat, NEW s \in Chunks
  PROVE  Fill(m, from, s) \in Block(n)
<1>1. \A i \in 1 .. Len(s) : s[i] \in Byte
  BY ChunkSeq
<1>2. Len(s) \in Nat
  BY ChunkSeq
<1>3. DOMAIN m = 0 .. n - 1
  BY DEF Block
<1>4. \A a \in 0 .. n - 1 :
        (IF from <= a /\ a < from + Len(s) THEN s[a - from + 1] ELSE m[a]) \in Byte
  BY <1>1, <1>2 DEF Block
<1> QED
  BY <1>3, <1>4 DEF Fill, Block

(* A block realloc returns is a block of the new size.                     *)
LEMMA ReallocBlock ==
  ASSUME BufTypeOK, NEW n \in Nat, truesize <= n, NEW b \in Byte
  PROVE  Realloc(n, b) \in Block(n)
BY DEF Realloc, Block, BufTypeOK

(* Moving the message inside a block leaves a block.                       *)
LEMMA MoveBlock ==
  ASSUME NEW n \in Nat, NEW m \in Block(n), NEW a \in Nat, NEW k \in Nat, NEW by \in Nat
  PROVE  Move(m, a, k, by) \in Block(n)
BY DEF Move, Block

(* The initial buffer is empty and has its picture.                        *)
LEMMA InitBufIInv == BufInit => BufIInv
BY SizeAssumption DEF BufInit, BufIInv, BufTypeOK, Picture, Block

(* Every call keeps the message inside the block.                          *)
LEMMA NextBufIInv == BufIInv /\ [BufNext]_bufVars => BufIInv'
<1> SUFFICES ASSUME BufIInv, [BufNext]_bufVars PROVE BufIInv'
  OBVIOUS
<1>1. CASE g_netbuf_recycle
  BY <1>1 DEF BufIInv, BufTypeOK, Picture, g_netbuf_recycle
<1>2. ASSUME NEW s \in Chunks, PutFits(s) PROVE BufIInv'
  <2>1. mem' \in Block(truesize)
    BY <1>2, FillBlock DEF BufIInv, BufTypeOK, PutFits
  <2> QED
    BY <1>2, <2>1, ChunkSeq DEF BufIInv, BufTypeOK, Picture, PutFits
<1>3. ASSUME NEW s \in Chunks, PushFits(s) PROVE BufIInv'
  <2>1. Len(s) \in Nat
    BY ChunkSeq
  <2>2. mem' \in Block(truesize)
    BY <1>3, <2>1, FillBlock DEF BufIInv, BufTypeOK, PushFits
  <2> QED
    BY <1>3, <2>1, <2>2 DEF BufIInv, BufTypeOK, Picture, PushFits
<1>4. ASSUME NEW s \in Chunks, NEW b \in Byte, PutGrows(s, b) PROVE BufIInv'
  <2>1. Len(s) \in Nat
    BY ChunkSeq
  <2>2. Realloc(truesize + Len(s), b) \in Block(truesize + Len(s))
    BY <2>1, ReallocBlock DEF BufIInv, BufTypeOK
  <2>3. mem' \in Block(truesize + Len(s))
    BY <1>4, <2>1, <2>2, FillBlock DEF BufIInv, BufTypeOK, PutGrows
  <2> QED
    BY <1>4, <2>1, <2>3, SizeAssumption DEF BufIInv, BufTypeOK, Picture, PutGrows, Resize
<1>5. ASSUME NEW s \in Chunks, NEW b \in Byte, PushGrows(s, b) PROVE BufIInv'
  <2>1. Len(s) \in Nat
    BY ChunkSeq
  <2>2. Realloc(truesize + Len(s), b) \in Block(truesize + Len(s))
    BY <2>1, ReallocBlock DEF BufIInv, BufTypeOK
  <2>3. Moved(Realloc(truesize + Len(s), b), Len(s)) \in Block(truesize + Len(s))
    BY <2>1, <2>2, MoveBlock DEF BufIInv, BufTypeOK, Moved
  <2>4. mem' \in Block(truesize + Len(s))
    BY <1>5, <2>1, <2>3, FillBlock DEF BufIInv, BufTypeOK, PushGrows
  <2> QED
    BY <1>5, <2>1, <2>4, SizeAssumption DEF BufIInv, BufTypeOK, Picture, PushGrows, Resize
<1>6. ASSUME NEW n \in 0 .. MaxSize,
             g_netbuf_pull(n) \/ g_netbuf_trim(n) \/ g_netbuf_reserve(n)
      PROVE  BufIInv'
  BY <1>6, SizeAssumption
  DEF BufIInv, BufTypeOK, Picture, g_netbuf_pull, g_netbuf_trim, g_netbuf_reserve
<1>7. CASE UNCHANGED bufVars
  BY <1>7 DEF BufIInv, BufTypeOK, Picture, bufVars
<1> QED
  BY <1>1, <1>2, <1>3, <1>4, <1>5, <1>6, <1>7 DEF BufNext

(* Whatever calls were made, in whatever order, the block has its recorded *)
(* size and headroom, message and tailroom partition it.                   *)
THEOREM InPicture == BufSpec => [](BufTypeOK /\ Picture)
<1>1. BufSpec => []BufIInv
  BY InitBufIInv, NextBufIInv, PTL DEF BufSpec
<1> QED
  BY <1>1, PTL DEF BufIInv

-----------------------------------------------------------------------------
(* The refinement                                                          *)

(* The bytes of a block from offset d on, n of them.                       *)
Bytes(m, d, n) == [i \in 1 .. n |-> m[d + i - 1]]

(* They form a sequence of n bytes when they lie inside the block.         *)
LEMMA BytesSeq ==
  ASSUME NEW k \in Nat, NEW m \in Block(k), NEW d \in Nat, NEW n \in Nat, d + n <= k
  PROVE  /\ Bytes(m, d, n) \in Seq(Byte)
         /\ Len(Bytes(m, d, n)) = n
         /\ \A i \in 1 .. n : Bytes(m, d, n)[i] = m[d + i - 1]
<1>1. Bytes(m, d, n) \in [1 .. n -> Byte]
  BY DEF Bytes, Block
<1>2. Bytes(m, d, n) \in Seq(Byte)
  BY <1>1
<1>3. Len(Bytes(m, d, n)) = n
  BY <1>1
<1> QED
  BY <1>2, <1>3 DEF Bytes

(* The message is such a sequence.                                         *)
LEMMA ContentSeq ==
  BufIInv => /\ content \in Seq(Byte) /\ Len(content) = len
          /\ \A i \in 1 .. len : content[i] = mem[data + i - 1]
<1> SUFFICES ASSUME BufIInv
             PROVE  /\ content \in Seq(Byte) /\ Len(content) = len
                    /\ \A i \in 1 .. len : content[i] = mem[data + i - 1]
  OBVIOUS
<1>1. content = Bytes(mem, data, len)
  BY DEF content, Bytes
<1>2. /\ truesize \in Nat /\ mem \in Block(truesize)
      /\ data \in Nat /\ len \in Nat /\ data + len <= truesize
  BY SizeAssumption DEF BufIInv, BufTypeOK, Picture
<1>3. /\ Bytes(mem, data, len) \in Seq(Byte)
      /\ Len(Bytes(mem, data, len)) = len
      /\ \A i \in 1 .. len : Bytes(mem, data, len)[i] = mem[data + i - 1]
  BY <1>2, BytesSeq
<1> QED
  BY <1>1, <1>3

(* The same, after a step.                                                 *)
LEMMA ContentSeqNext ==
  ASSUME BufIInv'
  PROVE  /\ content' \in Seq(Byte) /\ Len(content') = len'
         /\ \A i \in 1 .. len' : content'[i] = mem'[data' + i - 1]
<1>1. content' = Bytes(mem', data', len')
  BY DEF content, Bytes
<1>2. BufTypeOK' /\ Picture'
  BY DEF BufIInv
<1>3. /\ truesize' \in Nat /\ mem' \in Block(truesize')
      /\ data' \in Nat /\ len' \in Nat /\ data' + len' <= truesize'
  BY <1>2, SizeAssumption DEF BufTypeOK, Picture, Block
<1> QED
  BY <1>1, <1>3, BytesSeq

(* A step that keeps the bytes of the message where data points, and puts  *)
(* more behind them, appends.                                              *)
LEMMA KeepsFront ==
  ASSUME BufIInv, BufIInv', data' = data, len <= len',
         \A a \in data .. data + len - 1 : mem'[a] = mem[a]
  PROVE  M!Next
<1>1. /\ Len(content) = len
      /\ \A i \in 1 .. len : content[i] = mem[data + i - 1]
  BY ContentSeq
<1>2. /\ content' \in Seq(Byte) /\ Len(content') = len'
      /\ \A i \in 1 .. len' : content'[i] = mem'[data' + i - 1]
  BY ContentSeqNext
<1>3. \A i \in 1 .. len : content'[i] = content[i]
  <2> SUFFICES ASSUME NEW i \in 1 .. len PROVE content'[i] = content[i]
    OBVIOUS
  <2>1. i \in 1 .. len' /\ data + i - 1 \in data .. data + len - 1
    BY DEF BufIInv, BufTypeOK
  <2> QED
    BY <1>1, <1>2, <2>1
<1>4. M!StartsWith(content', content)
  BY <1>1, <1>2, <1>3 DEF M!StartsWith
<1> QED
  BY <1>2, <1>4 DEF M!Next, M!Append_

(* A step that finds the bytes of the message behind new ones prepends.    *)
LEMMA KeepsBack ==
  ASSUME BufIInv, BufIInv', NEW n \in Nat, len' = len + n,
         \A i \in 1 .. len : mem'[data' + n + i - 1] = mem[data + i - 1]
  PROVE  M!Next
<1>1. /\ Len(content) = len
      /\ \A i \in 1 .. len : content[i] = mem[data + i - 1]
  BY ContentSeq
<1>2. /\ content' \in Seq(Byte) /\ Len(content') = len'
      /\ \A i \in 1 .. len' : content'[i] = mem'[data' + i - 1]
  BY ContentSeqNext
<1>3. \A i \in 1 .. len : content'[len' - len + i] = content[i]
  <2> SUFFICES ASSUME NEW i \in 1 .. len PROVE content'[n + i] = content[i]
    BY DEF BufIInv, BufTypeOK
  <2>1. n + i \in 1 .. len'
    BY DEF BufIInv, BufTypeOK
  <2>2. content'[n + i] = mem'[data' + n + i - 1]
    BY <1>2, <2>1 DEF BufIInv, BufTypeOK
  <2> QED
    BY <1>1, <2>2
<1>4. M!EndsWith(content', content)
  <2>1. len <= len'
    BY DEF BufIInv, BufTypeOK
  <2> QED
    BY <1>1, <1>2, <1>3, <2>1 DEF M!EndsWith
<1> QED
  BY <1>2, <1>4 DEF M!Next, M!Prepend

(* A step that shortens the message at its front or its back, without      *)
(* touching the block.                                                     *)
LEMMA Shortens ==
  ASSUME BufIInv, BufIInv', mem' = mem, NEW n \in Nat, len' = len - n,
         data' = data + n \/ data' = data \/ len' = 0
  PROVE  M!Next
<1>1. /\ Len(content) = len
      /\ \A i \in 1 .. len : content[i] = mem[data + i - 1]
  BY ContentSeq
<1>2. /\ content' \in Seq(Byte) /\ Len(content') = len'
      /\ \A i \in 1 .. len' : content'[i] = mem[data' + i - 1]
  BY ContentSeqNext
<1>3. len' \in Nat /\ len \in Nat /\ data \in Nat /\ len' <= len /\ len - len' = n
  <2>1. BufTypeOK /\ BufTypeOK'
    BY DEF BufIInv
  <2>2. len' \in Nat /\ len \in Nat /\ data \in Nat
    BY <2>1 DEF BufTypeOK
  <2>3. len' = len - n
    OBVIOUS
  <2> QED
    BY <2>2, <2>3
<1>4. CASE data' = data + n
  <2>1. \A i \in 1 .. len' : content[n + i] = content'[i]
    <3> SUFFICES ASSUME NEW i \in 1 .. len' PROVE content[n + i] = content'[i]
      OBVIOUS
    <3>1. n + i \in 1 .. len /\ data + (n + i) - 1 = data' + i - 1
      BY <1>3, <1>4
    <3> QED
      BY <1>1, <1>2, <3>1
  <2>2. M!EndsWith(content, content')
    BY <1>1, <1>2, <1>3, <2>1 DEF M!EndsWith
  <2> QED
    BY <1>2, <2>2 DEF M!Next, M!DropFront
<1>5. CASE data' = data \/ len' = 0
  <2>1. \A i \in 1 .. len' : content[i] = content'[i]
    <3> SUFFICES ASSUME NEW i \in 1 .. len' PROVE content[i] = content'[i]
      OBVIOUS
    <3>1. i \in 1 .. len /\ data' = data
      BY <1>3, <1>5
    <3> QED
      BY <1>1, <1>2, <3>1
  <2>2. M!StartsWith(content, content')
    BY <1>1, <1>2, <1>3, <2>1 DEF M!StartsWith
  <2> QED
    BY <1>2, <2>2 DEF M!Next, M!DropBack
<1> QED
  BY <1>4, <1>5

(* realloc keeps the cells of the old block.                               *)
LEMMA ReallocKeeps ==
  ASSUME NEW k \in Nat, NEW b, NEW a \in 0 .. k - 1, a < truesize
  PROVE  DOMAIN Realloc(k, b) = 0 .. k - 1 /\ Realloc(k, b)[a] = mem[a]
BY DEF Realloc

(* Writing a chunk leaves the cells behind it alone.                       *)
LEMMA FillBehind ==
  ASSUME NEW m, NEW from \in Nat, NEW s \in Chunks,
         NEW c \in DOMAIN m, c \in Int, from + Len(s) <= c
  PROVE  Fill(m, from, s)[c] = m[c]
<1>1. Len(s) \in Nat
  BY ChunkSeq
<1>2. ~(c < from + Len(s))
  BY <1>1
<1> QED
  BY <1>2 DEF Fill

(* A block grown by n and its message moved back by n: the bytes of the    *)
(* message are where they are looked for.                                  *)
LEMMA GrownAndMoved ==
  ASSUME BufIInv, NEW n \in Nat, NEW b \in Byte, NEW i \in 1 .. len,
         NEW m, m = Moved(Realloc(truesize + n, b), n)
  PROVE  /\ data + n + i - 1 \in DOMAIN m
         /\ data + n + i - 1 \in Int
         /\ data + n <= data + n + i - 1
         /\ m[data + n + i - 1] = mem[data + i - 1]
<1>1. /\ truesize \in Nat /\ data \in Nat /\ len \in Nat /\ i \in Nat /\ 1 <= i
      /\ data + len <= truesize /\ i <= len
  BY SizeAssumption DEF BufIInv, BufTypeOK, Picture
<1>2. PICK c \in Int : c = data + n + i - 1
  BY <1>1
<1>3. PICK a \in Int : a = data + i - 1
  BY <1>1
<1>4. PICK k \in Nat : k = truesize + n
  BY <1>1
<1>5. /\ a \in 0 .. k - 1 /\ a < truesize /\ c \in 0 .. k - 1
      /\ data + n <= c /\ c < data + n + len /\ c - n = a
  BY <1>1, <1>2, <1>3, <1>4
<1>6. DOMAIN Realloc(k, b) = 0 .. k - 1 /\ Realloc(k, b)[a] = mem[a]
  BY <1>5, ReallocKeeps
<1>7. m = Move(Realloc(k, b), data, len, n)
  BY <1>4 DEF Moved
<1>8. c \in DOMAIN m /\ m[c] = Realloc(k, b)[a]
  BY <1>5, <1>6, <1>7 DEF Move
<1> QED
  BY <1>2, <1>3, <1>5, <1>6, <1>8

(* Every call is a step of Message.                                        *)
LEMMA NextRefines == BufIInv /\ BufIInv' /\ [BufNext]_bufVars => [M!Next]_content
<1> SUFFICES ASSUME BufIInv, BufIInv', [BufNext]_bufVars PROVE M!Next \/ UNCHANGED content
  OBVIOUS
<1>1. CASE g_netbuf_recycle
  <2>1. len' = 0 /\ mem' = mem /\ len \in Nat
    BY <1>1 DEF g_netbuf_recycle, BufIInv, BufTypeOK
  <2> QED
    BY <2>1, Shortens
<1>2. ASSUME NEW s \in Chunks, PutFits(s) PROVE M!Next
  <2>1. Len(s) \in Nat
    BY ChunkSeq
  <2>2. \A a \in data .. data + len - 1 : mem'[a] = mem[a]
    BY <1>2, <2>1 DEF PutFits, Fill, BufIInv, BufTypeOK, Picture, Block
  <2> QED
    BY <1>2, <2>1, <2>2, KeepsFront DEF PutFits, BufIInv, BufTypeOK
<1>3. ASSUME NEW s \in Chunks, PushFits(s) PROVE M!Next
  <2>1. Len(s) \in Nat
    BY ChunkSeq
  <2>2. \A a \in data .. data + len - 1 : mem'[a] = mem[a]
    BY <1>3, <2>1 DEF PushFits, Fill, BufIInv, BufTypeOK, Picture, Block
  <2>3. \A i \in 1 .. len : mem'[data' + Len(s) + i - 1] = mem[data + i - 1]
    <3> SUFFICES ASSUME NEW i \in 1 .. len
                 PROVE  mem'[data' + Len(s) + i - 1] = mem[data + i - 1]
      OBVIOUS
    <3>1. /\ data' + Len(s) + i - 1 = data + i - 1
          /\ data + i - 1 \in data .. data + len - 1
      BY <1>3, <2>1 DEF PushFits, BufIInv, BufTypeOK
    <3> QED
      BY <2>2, <3>1
  <2> QED
    BY <1>3, <2>1, <2>3, KeepsBack DEF PushFits
<1>4. ASSUME NEW s \in Chunks, NEW b \in Byte, PutGrows(s, b) PROVE M!Next
  <2>1. Len(s) \in Nat
    BY ChunkSeq
  <2>2. \A a \in data .. data + len - 1 : mem'[a] = mem[a]
    BY <1>4, <2>1 DEF PutGrows, Realloc, Fill, BufIInv, BufTypeOK, Picture
  <2> QED
    BY <1>4, <2>1, <2>2, KeepsFront DEF PutGrows, BufIInv, BufTypeOK
<1>5. ASSUME NEW s \in Chunks, NEW b \in Byte, PushGrows(s, b) PROVE M!Next
  <2>1. Len(s) \in Nat
    BY ChunkSeq
  <2>2. ASSUME NEW i \in 1 .. len
        PROVE  mem'[data' + Len(s) + i - 1] = mem[data + i - 1]
    <3>1. PICK m : m = Moved(Realloc(truesize + Len(s), b), Len(s))
      OBVIOUS
    <3>2. data \in Nat
      BY DEF BufIInv, BufTypeOK
    <3>3. mem' = Fill(m, data, s) /\ data' = data
      BY <1>5, <3>1 DEF PushGrows
    <3>4. PICK c \in DOMAIN m : /\ c = data + Len(s) + i - 1 /\ c \in Int
                                /\ data + Len(s) <= c
                                /\ m[c] = mem[data + i - 1]
      BY <2>1, <3>1, GrownAndMoved
    <3>5. Fill(m, data, s)[c] = m[c]
      BY <3>2, <3>4, FillBehind
    <3> QED
      BY <3>3, <3>4, <3>5
  <2> QED
    BY <1>5, <2>1, <2>2, KeepsBack DEF PushGrows
<1>6. ASSUME NEW n \in 0 .. MaxSize, g_netbuf_pull(n) PROVE M!Next
  BY <1>6, SizeAssumption, Shortens DEF g_netbuf_pull, BufIInv, BufTypeOK
<1>7. ASSUME NEW n \in 0 .. MaxSize, g_netbuf_trim(n) PROVE M!Next
  <2>1. len - n \in Nat /\ len' + (len - n) = len
    BY <1>7, SizeAssumption DEF g_netbuf_trim, BufIInv, BufTypeOK
  <2> QED
    BY <1>7, <2>1, Shortens DEF g_netbuf_trim
<1>8. ASSUME NEW n \in 0 .. MaxSize, g_netbuf_reserve(n) PROVE M!Next
  BY <1>8, Shortens DEF g_netbuf_reserve, BufIInv, BufTypeOK
<1>9. CASE UNCHANGED bufVars
  BY <1>9 DEF bufVars, content
<1> QED
  BY <1>1, <1>2, <1>3, <1>4, <1>5, <1>6, <1>7, <1>8, <1>9 DEF BufNext

(* For every block and chunk size the buffer implements a message: growing *)
(* the block and moving what is in it change no byte.                      *)
THEOREM ImplementsMessage == BufSpec => IsMessage
<1>1. BufInit => M!Init
  BY DEF BufInit, M!Init, content
<1>2. BufSpec => []BufIInv
  BY InitBufIInv, NextBufIInv, PTL DEF BufSpec
<1> QED
  BY <1>1, <1>2, NextRefines, PTL DEF BufSpec, IsMessage, M!Spec

-----------------------------------------------------------------------------
(* The table of connections                                                *)

(* A set of entries has a first one.  The entries up to a given one shrink *)
(* with it, and strict inclusion of finite sets is well-founded.           *)
LEMMA FirstIn == ASSUME NEW S, S \subseteq Slots, S # {} PROVE First(S) \in S
<1>. DEFINE Down(i) == {j \in S : j <= i}
            R == StrictSubsetOrdering(S)
            T == {Down(i) : i \in S}
<1>1. S \subseteq Nat /\ IsFiniteSet(S)
  BY TrackerAssumption, FS_Subset
<1>2. IsWellFoundedOn(R, FiniteSubsetsOf(S))
  BY FS_StrictSubsetOrderingWellFounded
<1>3. T \subseteq FiniteSubsetsOf(S) /\ T # {}
  <2>1. \A i \in S : IsFiniteSet(Down(i))
    BY <1>1, FS_Subset
  <2>. QED BY <2>1 DEF FiniteSubsetsOf
<1>4. PICK x \in T : \A y \in T : ~(<<y, x>> \in R)
  <2>. HIDE DEF R, T
  <2>. QED BY <1>2, <1>3, WFMin
<1>5. PICK i \in S : x = Down(i)
  OBVIOUS
<1>6. ASSUME NEW j \in S PROVE i <= j
  <2>1. i \in Nat /\ j \in Nat
    BY <1>1
  <2>. SUFFICES ASSUME j < i PROVE FALSE
    BY <2>1
  <2>2. Down(j) \in T
    OBVIOUS
  <2>3. i \notin Down(j) /\ i \in Down(i)
    BY <2>1
  <2>4. \A k \in S : k \in Nat /\ (k <= j => k <= i)
    BY <1>1, <2>1
  <2>5. Down(j) \subseteq Down(i)
    BY <2>4
  <2>6. <<Down(j), x>> \in R
    BY <2>3, <2>5, <1>5 DEF StrictSubsetOrdering
  <2>. QED BY <2>2, <2>6, <1>4
<1>. QED BY <1>6 DEF First

(* What find_connection returns has the selectors of the frame.            *)
LEMMA FoundMatches ==
  ASSUME NEW f
  PROVE  \/ find_connection(f) = NoSlot /\ \A i \in Slots : ~Matches(conn[i], f)
         \/ find_connection(f) \in Slots /\ Matches(conn[find_connection(f)], f)
<1>. DEFINE hits == {i \in Slots : Matches(conn[i], f)}
<1>1. CASE conn_cache # NoSlot /\ conn_cache \in hits
  BY <1>1 DEF find_connection
<1>2. CASE ~(conn_cache # NoSlot /\ conn_cache \in hits) /\ hits = {}
  BY <1>2 DEF find_connection
<1>3. CASE ~(conn_cache # NoSlot /\ conn_cache \in hits) /\ hits # {}
  <2>1. First(hits) \in hits
    BY <1>3, FirstIn
  <2>2. find_connection(f) = First(hits)
    BY <1>3 DEF find_connection
  <2>. QED BY <2>1, <2>2
<1>. QED BY <1>1, <1>2, <1>3

(* No entry has the number that stands for none.                           *)
LEMMA NoSlotIsNone == NoSlot \notin Slots
BY TrackerAssumption DEF NoSlot

(* The frames of a connection carry the same two selectors, whoever sends. *)
LEMMA SamePair ==
  ASSUME NEW c, NEW by, c.by \in Sides, by \in Sides
  PROVE  /\ Self(FrameOf(c, by)) = Self(FrameOf(c, c.by))
         /\ Peer(FrameOf(c, by)) = Peer(FrameOf(c, c.by))
<1>1. CASE by = c.by
  BY <1>1
<1>2. CASE by # c.by
  BY <1>2 DEF FrameOf, Frame, Self, Peer, Sides
<1>. QED BY <1>1, <1>2

(* Two open connections differ in their selectors.                         *)
LEMMA PairsDiffer ==
  ASSUME StationsOK, NEW c \in open, NEW d \in open, NEW e,
         Matches(e, FrameOf(c, c.by)), Matches(e, FrameOf(d, d.by))
  PROVE  c = d
<1>1. /\ c.by \in Sides /\ d.by \in Sides /\ c.slsap \in Clients /\ d.slsap \in Clients
      /\ c.svc \in Services \union {"ias"} /\ d.svc \in Services \union {"ias"}
  BY DEF StationsOK
<1>2. c.dlsap \notin Clients /\ d.dlsap \notin Clients
  BY <1>1, TrackerAssumption, Zenon DEF StationsOK, Other, Sides
<1>3. /\ e.self = IF c.by = "self" THEN c.slsap ELSE c.dlsap
      /\ e.self = IF d.by = "self" THEN d.slsap ELSE d.dlsap
      /\ e.peer = IF c.by = "self" THEN c.dlsap ELSE c.slsap
      /\ e.peer = IF d.by = "self" THEN d.dlsap ELSE d.slsap
  BY DEF Matches, FrameOf, Frame, Self, Peer
<1>4. c.by = d.by /\ c.slsap = d.slsap
  BY <1>1, <1>2, <1>3 DEF Sides
<1>. QED BY <1>4 DEF StationsOK
-----------------------------------------------------------------------------
(* The table is empty, no link is up and nothing is asked.                 *)
LEMMA InitIInv == Init => IInv
<1>. SUFFICES ASSUME Init PROVE IInv
  OBVIOUS
<1>1. /\ last_ias = [sel |-> LSAP_IAS, svc |-> "none"]
      /\ conn = [i \in Slots |-> [valid |-> FALSE, self |-> 0, peer |-> 0,
                                  svc |-> "none", caddr |-> 0]]
      /\ conn_cache = NoSlot /\ lap = 0 /\ open = {} /\ lost = {}
      /\ asking = [x \in Sides |-> "none"] /\ asked = "none"
  BY DEF Init
<1>2. 0 \in Selectors /\ LSAP_IAS \in Selectors
  BY DEF Selectors, LSAP_IAS
<1>3. TypeOK
  BY <1>1, <1>2 DEF TypeOK
<1>4. StationsOK /\ LookupOK /\ SureOK
  BY <1>1 DEF StationsOK, LookupOK, SureOK, Sides
<1>5. \A i \in Slots : ~conn[i].valid
  BY <1>1
<1>6. ZombiesEndWithLink /\ EntryPerConnection
  BY <1>5 DEF ZombiesEndWithLink, EntryPerConnection
<1>. QED BY <1>3, <1>4, <1>6 DEF IInv

(* A frame that leaves the table alone.                                    *)
LEMMA TableKept ==
  ASSUME IInv, UNCHANGED <<conn, lap, open, lost, orphans>>
  PROVE  SureOK' /\ ZombiesEndWithLink' /\ EntryPerConnection'
<1>1. SureOK'
  BY DEF IInv, SureOK, Matches, FrameOf, Frame, Self, Peer
<1>2. ZombiesEndWithLink'
  BY DEF IInv, ZombiesEndWithLink
<1>3. EntryPerConnection'
  BY DEF IInv, EntryPerConnection, Matches, FrameOf, Frame, Self, Peer
<1>. QED BY <1>1, <1>2, <1>3

(* A link comes up: there was no connection.                               *)
LEMMA LinkUpIInv == ASSUME IInv, LinkUp PROVE IInv'
<1>. USE DEF LinkUp, dumpVars
<1>1. TypeOK'
  BY DEF IInv, TypeOK
<1>2. open = {}
  BY DEF IInv, StationsOK
<1>3. StationsOK' /\ SureOK'
  BY <1>2 DEF IInv, StationsOK, SureOK
<1>4. LookupOK'
  BY DEF IInv, LookupOK
<1>5. ZombiesEndWithLink'
  BY DEF IInv, ZombiesEndWithLink
<1>6. EntryPerConnection'
  BY <1>2 DEF IInv, EntryPerConnection
<1>. QED BY <1>1, <1>3, <1>4, <1>5, <1>6 DEF IInv

(* Without a link nothing is open and nothing is asked.                    *)
LEMMA NoLinkStations ==
  ASSUME IInv, NoLink, UNCHANGED last_ias
  PROVE  StationsOK' /\ LookupOK' /\ SureOK'
<1>1. StationsOK' /\ SureOK'
  BY DEF IInv, NoLink, StationsOK, SureOK
<1>2. LookupOK'
  BY DEF IInv, NoLink, LookupOK
<1>. QED BY <1>1, <1>2

(* The link is closed, and its entries with it: a valid one that is left   *)
(* has the address of a link that was lost before.                         *)
LEMMA DiscIInv == ASSUME IInv, Disc PROVE IInv'
<1>. USE DEF Disc, garbage_connection
<1>1. TypeOK'
  BY DEF IInv, TypeOK, NoLink
<1>2. StationsOK' /\ LookupOK' /\ SureOK'
  BY NoLinkStations
<1>3. ASSUME NEW i \in Slots, conn'[i].valid
      PROVE  conn'[i] = conn[i] /\ conn[i].caddr \in lost'
  <2>1. conn'[i] = IF conn[i].valid /\ conn[i].caddr = lap
                   THEN [conn[i] EXCEPT !.valid = FALSE] ELSE conn[i]
    OBVIOUS
  <2>2. conn'[i] = conn[i] /\ conn[i].caddr # lap
    BY <1>3, <2>1 DEF IInv, TypeOK
  <2>. QED BY <1>3, <2>2 DEF IInv, ZombiesEndWithLink
<1>4. ZombiesEndWithLink' /\ EntryPerConnection'
  BY <1>3 DEF ZombiesEndWithLink, EntryPerConnection
<1>. QED BY <1>1, <1>2, <1>4 DEF IInv

(* The link is lost, and its entries stay.                                 *)
LEMMA LinkLostIInv == ASSUME IInv, LinkLost PROVE IInv'
<1>. USE DEF LinkLost, dumpVars
<1>1. TypeOK'
  BY DEF IInv, TypeOK, NoLink
<1>2. StationsOK' /\ LookupOK' /\ SureOK'
  BY NoLinkStations
<1>3. \A i \in Slots : conn'[i].valid => conn'[i].caddr \in lost'
  BY DEF IInv, ZombiesEndWithLink
<1>4. ZombiesEndWithLink' /\ EntryPerConnection'
  BY <1>3 DEF ZombiesEndWithLink, EntryPerConnection
<1>. QED BY <1>1, <1>2, <1>4 DEF IInv

-----------------------------------------------------------------------------
(* CONNECT_CMD writes free entries only, the first one if it is tracked,   *)
(* and the same in each.                                                   *)
LEMMA ConnectWrites ==
  ASSUME TypeOK, NEW f, NEW copies, connect_cmd(f, copies)
  PROVE  /\ \A j \in Slots : \/ conn'[j] = conn[j]
                             \/ j \in Free /\ Tracked(f) /\ conn'[j] = Entry(f)
         /\ Tracked(f) => \E i \in Slots : conn'[i] = Entry(f)
         /\ conn' = [j \in Slots |-> conn'[j]]
<1>1. CASE ~Tracked(f)
  BY <1>1 DEF connect_cmd, TypeOK
<1>2. CASE Tracked(f)
  <2>. DEFINE i == First(Free)
              more == Free \ {i}
  <2>1. i \in Free
    BY <1>2, FirstIn DEF Tracked, Free
  <2>2. more # {} => First(more) \in more
    BY FirstIn DEF Free
  <2>3. conn' = [j \in Slots |->
                  IF j = i \/ (copies = 2 /\ more # {} /\ j = First(more))
                  THEN Entry(f) ELSE conn[j]]
    BY <1>2 DEF connect_cmd
  <2>. HIDE DEF i
  <2>4. i \in Slots
    BY <2>1 DEF Free
  <2>5. \A j \in Slots : conn'[j] = conn[j] \/ (j \in Free /\ conn'[j] = Entry(f))
    BY <2>1, <2>2, <2>3
  <2>6. conn'[i] = Entry(f)
    BY <2>3, <2>4
  <2>. QED BY <1>2, <2>3, <2>4, <2>5, <2>6
<1>. QED BY <1>1, <1>2

(* A connection is opened.                                                 *)
LEMMA ConnectIInv ==
  ASSUME IInv, NEW by \in Sides, NEW sel \in Clients,
         NEW svc \in Services \union {"ias"}, NEW copies \in 1 .. 2,
         Connect(by, sel, svc, copies)
  PROVE  IInv'
<1>. DEFINE dst == IF svc = "ias" THEN LSAP_IAS ELSE Lsap[Other(by)][svc]
            f   == Frame(by, sel, dst)
            c   == [by |-> by, slsap |-> sel, dlsap |-> dst, svc |-> svc,
                    sure |-> Tracked(f) /\ asked = by]
<1>1. /\ lap # 0 /\ ~Busy(by, sel) /\ connect_cmd(f, copies) /\ open' = open \union {c}
      /\ UNCHANGED <<last_ias, conn_cache, lap, asking, asked, lost, orphans>>
  BY DEF Connect, connect_cmd
<1>2. Other(by) \in Sides
  BY DEF Other, Sides
<1>3. sel \in Selectors /\ dst \in Selectors
  BY <1>2 DEF Selectors
<1>4. f.by = by /\ f.slsap = sel /\ f.dlsap = dst /\ FrameOf(c, c.by) = f
  BY DEF Frame, FrameOf
<1>5. /\ c.by = by /\ c.slsap = sel /\ c.dlsap = dst /\ c.svc = svc
      /\ c.sure = (Tracked(f) /\ asked = by)
  OBVIOUS
<1>6. c.sure \in BOOLEAN
  BY Zenon
<1>7. c \in [by : Sides, slsap : Clients, dlsap : Selectors,
             svc : Services \union {"ias"}, sure : BOOLEAN]
  BY <1>3, <1>6
<1>8. Self(f) \in Selectors /\ Peer(f) \in Selectors
  BY <1>3, <1>4 DEF Self, Peer
<1>. HIDE DEF c, f
<1>9. Entry(f) \in [valid : BOOLEAN, self : Selectors, peer : Selectors,
                    svc : Services \union {"none"}, caddr : Caddrs \union {0}]
  BY <1>8 DEF Entry, IInv, TypeOK
<1>10. /\ \A j \in Slots : \/ conn'[j] = conn[j]
                           \/ j \in Free /\ Tracked(f) /\ conn'[j] = Entry(f)
       /\ Tracked(f) => \E i \in Slots : conn'[i] = Entry(f)
       /\ conn' = [j \in Slots |-> conn'[j]]
  BY <1>1, ConnectWrites DEF IInv
<1>11. Entry(f).valid /\ Entry(f).caddr = lap /\ Matches(Entry(f), f) /\ Entry(f).svc = last_ias.svc
  BY DEF Entry, Matches
<1>12. TypeOK'
  <2>1. \A j \in Slots : conn'[j] \in
          [valid : BOOLEAN, self : Selectors, peer : Selectors,
           svc : Services \union {"none"}, caddr : Caddrs \union {0}]
    BY <1>9, <1>10 DEF IInv, TypeOK
  <2>. QED BY <1>1, <1>10, <2>1 DEF IInv, TypeOK
<1>13. StationsOK'
  <2>1. open' \subseteq [by : Sides, slsap : Clients, dlsap : Selectors,
                         svc : Services \union {"ias"}, sure : BOOLEAN]
    BY <1>1, <1>7 DEF IInv, StationsOK
  <2>2. \A d \in open : ~(d.by = c.by /\ d.slsap = c.slsap)
    BY <1>1, <1>5 DEF Busy
  <2>3. \A d \in open' :
          /\ lap' # 0
          /\ d.dlsap = IF d.svc = "ias" THEN LSAP_IAS ELSE Lsap[Other(d.by)][d.svc]
          /\ \A e \in open' : e.by = d.by /\ e.slsap = d.slsap => e = d
    BY <1>1, <1>5, <2>2 DEF IInv, StationsOK
  <2>. QED BY <1>1, <2>1, <2>3 DEF IInv, StationsOK
<1>14. LookupOK'
  BY <1>1 DEF IInv, LookupOK
<1>15. SureOK'
  <2>. SUFFICES ASSUME NEW d \in open', d.sure
                PROVE  \E k \in Slots :
                         /\ conn'[k].valid /\ conn'[k].caddr = lap
                         /\ Matches(conn'[k], FrameOf(d, d.by))
                         /\ conn'[k].svc = d.svc \/ d.svc = "ias"
    BY <1>1 DEF SureOK, Matches, FrameOf, Frame, Self, Peer
  <2>1. CASE d \in open
    <3>1. PICK k \in Slots :
            /\ conn[k].valid /\ conn[k].caddr = lap /\ Matches(conn[k], FrameOf(d, d.by))
            /\ conn[k].svc = d.svc \/ d.svc = "ias"
      BY <2>1 DEF IInv, SureOK
    <3>2. conn'[k] = conn[k]
      BY <1>10, <3>1 DEF Free
    <3>. QED BY <3>1, <3>2
  <2>2. CASE d = c
    <3>1. Tracked(f) /\ asked = by
      BY <1>5, <2>2
    <3>2. PICK k \in Slots : conn'[k] = Entry(f)
      BY <1>10, <3>1
    <3>3. last_ias.svc = svc \/ svc = "ias"
      <4>. SUFFICES ASSUME svc # "ias" PROVE last_ias.svc = svc
        OBVIOUS
      <4>1. svc \in Services /\ last_ias.sel = Lsap[Other(by)][svc]
        BY <3>1, <1>4 DEF Tracked
      <4>2. last_ias.svc \in Services /\ last_ias.sel \in {LSAP_ANY, Lsap[Other(by)][last_ias.svc]}
        BY <3>1 DEF IInv, LookupOK
      <4>3. last_ias.sel # LSAP_ANY
        BY <4>1, <1>2, TrackerAssumption
      <4>. QED BY <4>1, <4>2, <4>3, <1>2, TrackerAssumption
    <3>. QED BY <1>4, <1>5, <1>11, <2>2, <3>2, <3>3
  <2>. QED BY <1>1, <2>1, <2>2
<1>16. ZombiesEndWithLink'
  BY <1>1, <1>10, <1>11 DEF IInv, ZombiesEndWithLink
<1>17. EntryPerConnection'
  <2>. SUFFICES ASSUME NEW j \in Slots, conn'[j].valid
                PROVE  \/ conn'[j].caddr \in lost
                       \/ <<conn'[j].self, conn'[j].peer>> \in orphans
                       \/ \E d \in open' : Matches(conn'[j], FrameOf(d, d.by))
    BY <1>1 DEF EntryPerConnection, Matches, FrameOf, Frame, Self, Peer
  <2>1. CASE conn'[j] = conn[j]
    BY <1>1, <2>1 DEF IInv, EntryPerConnection
  <2>2. CASE conn'[j] = Entry(f)
    BY <1>1, <1>4, <1>11, <2>2
  <2>. QED BY <1>10, <2>1, <2>2
<1>. QED BY <1>12, <1>13, <1>14, <1>15, <1>16, <1>17 DEF IInv

(* CONNECT_RSP and data.                                                   *)
LEMMA DataIInv ==
  ASSUME IInv, NEW c \in open, NEW by \in Sides, ConnectRspOrData(c, by)
  PROVE  IInv'
<1>. USE DEF ConnectRspOrData, lookup
<1>1. TypeOK'
  BY FoundMatches DEF IInv, TypeOK
<1>2. StationsOK' /\ LookupOK'
  BY DEF IInv, StationsOK, LookupOK
<1>. QED BY <1>1, <1>2, TableKept DEF IInv

(* A query: last_ias is its side's from here on.                           *)
LEMMA QueryIInv ==
  ASSUME IInv, NEW c \in open, NEW svc \in Services, Query(c, svc)
  PROVE  IInv'
<1>. USE DEF Query, parse_iriap_command
<1>1. TypeOK'
  BY FoundMatches DEF IInv, TypeOK
<1>2. c.by \in Sides
  BY DEF IInv, StationsOK
<1>3. StationsOK'
  BY <1>2 DEF IInv, StationsOK
<1>4. LookupOK'
  BY <1>2 DEF IInv, StationsOK, LookupOK
<1>. QED BY <1>1, <1>3, <1>4, TableKept DEF IInv

(* An answer: last_ias is then the side's that it was, or nobody's.        *)
LEMMA AnswerIInv ==
  ASSUME IInv, NEW c \in open, NEW ok \in BOOLEAN, Answer(c, ok)
  PROVE  IInv'
<1>. DEFINE sel == IF ok THEN Lsap[Other(c.by)][asking[c.by]] ELSE LSAP_ANY
<1>1. /\ asking[c.by] # "none" /\ UNCHANGED <<conn, lap, open, lost, orphans>>
      /\ last_ias' = IF sel = LSAP_ANY THEN last_ias ELSE [last_ias EXCEPT !.sel = sel]
      /\ conn_cache' = find_connection(FrameOf(c, Other(c.by)))
      /\ asking' = [asking EXCEPT ![c.by] = "none"]
      /\ asked' = IF ok /\ asked # c.by THEN "none" ELSE asked
  BY DEF Answer, parse_iriap_response
<1>2. c.by \in Sides /\ Other(c.by) \in Sides /\ asking[c.by] \in Services
  BY <1>1 DEF IInv, StationsOK, Other, Sides
<1>3. sel \in Selectors \union {LSAP_ANY}
  BY <1>2 DEF Selectors
<1>. HIDE DEF sel
<1>4. TypeOK'
  BY <1>1, <1>3, FoundMatches DEF IInv, TypeOK
<1>5. StationsOK'
  BY <1>1, <1>2 DEF IInv, StationsOK
<1>6. /\ last_ias'.svc = last_ias.svc
      /\ last_ias'.sel = IF sel = LSAP_ANY THEN last_ias.sel ELSE sel
  BY <1>1 DEF IInv, TypeOK
<1>7. LookupOK'
  <2>. SUFFICES ASSUME asked' \in Sides
                PROVE  /\ asking'[asked'] # "none" => last_ias'.svc = asking'[asked']
                       /\ last_ias'.svc \in Services
                       /\ last_ias'.sel \in {LSAP_ANY, Lsap[Other(asked')][last_ias'.svc]}
    BY DEF LookupOK
  <2>1. asked' = asked /\ (ok => asked = c.by)
    BY <1>1 DEF Sides
  <2>2. /\ asking[asked] # "none" => last_ias.svc = asking[asked]
        /\ last_ias.svc \in Services
        /\ last_ias.sel \in {LSAP_ANY, Lsap[Other(asked)][last_ias.svc]}
    BY <2>1 DEF IInv, LookupOK
  <2>3. asking'[asked'] # "none" => asking'[asked'] = asking[asked]
    BY <1>1, <1>2, <2>1 DEF IInv, StationsOK
  <2>4. CASE ok
    BY <1>1, <1>6, <2>1, <2>2, <2>3, <2>4 DEF sel
  <2>5. CASE ~ok
    BY <1>6, <2>1, <2>2, <2>3, <2>5 DEF sel
  <2>. QED BY <2>4, <2>5
<1>. QED BY <1>1, <1>4, <1>5, <1>7, TableKept DEF IInv

(* DISCONNECT ends the entry that find_connection returns.  It is no other *)
(* connection's, for no two have the same selectors; and if the connection *)
(* has another one, twins were met.                                        *)
LEMMA DisconnectIInv ==
  ASSUME IInv, NEW c \in open, NEW by \in Sides, Disconnect(c, by)
  PROVE  IInv'
<1>. DEFINE f == FrameOf(c, by)
            i == find_connection(f)
<1>1. /\ conn_cache' = i /\ open' = open \ {c}
      /\ conn' = IF i = NoSlot THEN conn ELSE [conn EXCEPT ![i].valid = FALSE]
      /\ orphans' = IF Twins(f) THEN orphans \union {Pair(f)} ELSE orphans
      /\ UNCHANGED <<last_ias, lap, asking, asked, lost>>
  BY DEF Disconnect, disconnect
<1>2. \/ i = NoSlot /\ \A j \in Slots : ~Matches(conn[j], f)
      \/ i \in Slots /\ i # NoSlot /\ Matches(conn[i], f)
  BY FoundMatches, NoSlotIsNone
<1>3. \A e : Matches(e, f) <=> Matches(e, FrameOf(c, c.by))
  <2>1. c.by \in Sides
    BY DEF IInv, StationsOK
  <2>. QED BY <2>1, SamePair DEF Matches
<1>4. StationsOK /\ TypeOK
  BY DEF IInv
<1>. HIDE DEF i, f
<1>5. TypeOK'
  BY <1>1, <1>2 DEF IInv, TypeOK
<1>6. StationsOK' /\ LookupOK'
  BY <1>1 DEF IInv, StationsOK, LookupOK
<1>7. \A j \in Slots : j # i => conn'[j] = conn[j]
  BY <1>1, <1>2 DEF IInv, TypeOK
<1>8. i \in Slots => ~conn'[i].valid
  BY <1>1, NoSlotIsNone DEF IInv, TypeOK
<1>9. SureOK'
  <2>. SUFFICES ASSUME NEW d \in open', d.sure
                PROVE  \E k \in Slots :
                         /\ conn'[k].valid /\ conn'[k].caddr = lap
                         /\ Matches(conn'[k], FrameOf(d, d.by))
                         /\ conn'[k].svc = d.svc \/ d.svc = "ias"
    BY <1>1 DEF SureOK, Matches, FrameOf, Frame, Self, Peer
  <2>1. d \in open /\ d # c
    BY <1>1
  <2>2. PICK k \in Slots :
          /\ conn[k].valid /\ conn[k].caddr = lap /\ Matches(conn[k], FrameOf(d, d.by))
          /\ conn[k].svc = d.svc \/ d.svc = "ias"
    BY <2>1 DEF IInv, SureOK
  <2>3. k # i
    BY <1>2, <1>3, <1>4, <2>1, <2>2, PairsDiffer, NoSlotIsNone
  <2>4. conn'[k] = conn[k]
    BY <1>7, <2>3
  <2>. QED BY <2>2, <2>4
<1>10. ZombiesEndWithLink'
  BY <1>1, <1>7, <1>8 DEF IInv, ZombiesEndWithLink
<1>11. EntryPerConnection'
  <2>. SUFFICES ASSUME NEW j \in Slots, conn'[j].valid
                PROVE  \/ conn'[j].caddr \in lost
                       \/ <<conn'[j].self, conn'[j].peer>> \in orphans'
                       \/ \E d \in open' : Matches(conn'[j], FrameOf(d, d.by))
    BY <1>1 DEF EntryPerConnection, Matches, FrameOf, Frame, Self, Peer
  <2>1. j # i /\ conn'[j] = conn[j]
    BY <1>7, <1>8
  <2>2. CASE Matches(conn[j], f)
    <3>1. Twins(f)
      BY <1>2, <2>1, <2>2 DEF Twins
    <3>2. Pair(f) = <<conn[j].self, conn[j].peer>>
      BY <2>2 DEF Pair, Matches
    <3>. QED BY <1>1, <2>1, <3>1, <3>2
  <2>3. CASE ~Matches(conn[j], f)
    <3>1. \/ conn[j].caddr \in lost
          \/ <<conn[j].self, conn[j].peer>> \in orphans
          \/ \E d \in open : Matches(conn[j], FrameOf(d, d.by))
      BY <2>1 DEF IInv, EntryPerConnection
    <3>. QED BY <1>1, <1>3, <2>1, <2>3, <3>1
  <2>. QED BY <2>2, <2>3
<1>. QED BY <1>5, <1>6, <1>9, <1>10, <1>11 DEF IInv

-----------------------------------------------------------------------------
(* IInv holds at first and every step of irdadump and the stations keeps   *)
(* it.                                                                     *)
THEOREM Inductive == Spec => []IInv
<1>1. ASSUME IInv, [Next]_vars PROVE IInv'
  <2>1. CASE LinkUp
    BY <1>1, <2>1, LinkUpIInv
  <2>2. CASE Disc
    BY <1>1, <2>2, DiscIInv
  <2>3. CASE LinkLost
    BY <1>1, <2>3, LinkLostIInv
  <2>4. CASE \E by \in Sides, sel \in Clients, svc \in Services \union {"ias"}, n \in 1 .. 2 :
               Connect(by, sel, svc, n)
    BY <1>1, <2>4, ConnectIInv
  <2>5. CASE \E c \in open, by \in Sides : ConnectRspOrData(c, by)
    BY <1>1, <2>5, DataIInv
  <2>6. CASE \E c \in open, by \in Sides : Disconnect(c, by)
    BY <1>1, <2>6, DisconnectIInv
  <2>7. CASE \E c \in open, svc \in Services : Query(c, svc)
    BY <1>1, <2>7, QueryIInv
  <2>8. CASE \E c \in open, ok \in BOOLEAN : Answer(c, ok)
    BY <1>1, <2>8, AnswerIInv
  <2>9. CASE UNCHANGED vars
    <3>1. SureOK' /\ ZombiesEndWithLink' /\ EntryPerConnection'
      BY <1>1, <2>9, TableKept DEF vars
    <3>2. TypeOK' /\ StationsOK' /\ LookupOK'
      BY <1>1, <2>9 DEF vars, IInv, TypeOK, StationsOK, LookupOK
    <3>. QED BY <3>1, <3>2 DEF IInv
  <2>. QED BY <1>1, <2>1, <2>2, <2>3, <2>4, <2>5, <2>6, <2>7, <2>8, <2>9 DEF Next
<1>. QED BY InitIInv, <1>1, PTL DEF Spec

(* Every variable of irdadump keeps its type; in particular what it        *)
(* remembers as its last entry is one of the table.                        *)
THEOREM TypeCorrect == Spec => []TypeOK
<1>1. IInv => TypeOK
  BY DEF IInv
<1>. QED BY Inductive, <1>1, PTL

(* A valid entry never outlives its link, unless the link was lost.        *)
THEOREM ZombiesEnd == Spec => []ZombiesEndWithLink
<1>1. IInv => ZombiesEndWithLink
  BY DEF IInv
<1>. QED BY Inductive, <1>1, PTL

(* A valid entry never outlives its connection, unless twins were met.     *)
THEOREM EntriesEnd == Spec => []EntryPerConnection
<1>1. IInv => EntryPerConnection
  BY DEF IInv
<1>. QED BY Inductive, <1>1, PTL

(* Frames are decoded as what was looked up for their connection: the      *)
(* entry of the connection is there, and without twins find_connection     *)
(* can return no other.                                                    *)
THEOREM Decoded == Spec => []DecodedAsLookedUp
<1>1. ASSUME IInv PROVE DecodedAsLookedUp
  <2>. SUFFICES ASSUME NEW c \in open, c.sure, ~Twins(FrameOf(c, c.by))
                PROVE  LET i == find_connection(FrameOf(c, c.by)) IN
                         /\ i # NoSlot
                         /\ conn[i].valid /\ conn[i].caddr = lap
                         /\ conn[i].svc = c.svc \/ c.svc = "ias"
    BY DEF DecodedAsLookedUp
  <2>1. PICK k \in Slots :
          /\ conn[k].valid /\ conn[k].caddr = lap /\ Matches(conn[k], FrameOf(c, c.by))
          /\ conn[k].svc = c.svc \/ c.svc = "ias"
    BY <1>1 DEF IInv, SureOK
  <2>2. find_connection(FrameOf(c, c.by)) = k
    BY <2>1, FoundMatches DEF Twins
  <2>. QED BY <2>1, <2>2, NoSlotIsNone
<1>. QED BY Inductive, <1>1, PTL
=============================================================================
