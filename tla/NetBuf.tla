------------------------------- MODULE NetBuf -------------------------------
(***************************************************************************)
(* The network buffer of irdadump (irdadump/netbuf.c): one memory block    *)
(* with the message somewhere inside it, so that headers can be pulled off *)
(* and pushed back in front without copying.                               *)
(*                                                                         *)
(*     head         data               tail          end                   *)
(*       | headroom   |        len       |  tailroom  |                    *)
(*                                                                         *)
(* Pointers are offsets from head, which realloc may move.  malloc and     *)
(* realloc leave new cells with any content; that they fail is left out.   *)
(* The caller fills the space that put and push return (put_data,          *)
(* prepend_hdr and the capture code all do), so the bytes are parameters   *)
(* of the actions.                                                         *)
(*                                                                         *)
(* A definition followed by one it differs from in one place is a faulty   *)
(* variant of it, used only to see the properties fail.                    *)
(***************************************************************************)
EXTENDS Integers, Sequences

CONSTANTS
  Byte,          \* values of a byte
  MaxSize,       \* bound on the size of a block
  MaxChunk       \* bound on the bytes one call adds

ASSUME SizeAssumption ==
  Byte # {} /\ MaxSize \in Nat /\ MaxChunk \in Nat

VARIABLES mem, truesize, data, tail, end, len

bufVars == <<mem, truesize, data, tail, end, len>>

(* A block of n cells.                                                     *)
Block(n) == [0 .. n - 1 -> Byte]

Chunks == UNION {[1 .. n -> Byte] : n \in 0 .. MaxChunk}

BufInit ==
  /\ truesize \in 0 .. MaxSize
  /\ \E b \in Byte : mem = [a \in 0 .. truesize - 1 |-> b]
  /\ data = 0 /\ tail = 0 /\ len = 0
  /\ end = truesize

g_netbuf_recycle ==
  /\ data' = 0 /\ tail' = 0 /\ len' = 0
  /\ end' = truesize
  /\ UNCHANGED <<mem, truesize>>

(* The block realloc returns: the old cells, then cells with any content b.*)
Realloc(n, b) ==
  [a \in 0 .. n - 1 |-> IF a < truesize THEN mem[a] ELSE b]

Resize_StaleEnd(n) == truesize' = n /\ UNCHANGED end

Resize(n) == truesize' = n /\ end' = n

(* Block m with s written from offset from on.                             *)
Fill(m, from, s) ==
  [a \in DOMAIN m |-> IF from <= a /\ a < from + Len(s) THEN s[a - from + 1] ELSE m[a]]

(* Move n cells of block m from offset a to offset a + by.                 *)
Move(m, a, n, by) ==
  [c \in DOMAIN m |-> IF a + by <= c /\ c < a + by + n THEN m[c - by] ELSE m[c]]

-----------------------------------------------------------------------------
(* g_netbuf_put and g_netbuf_put_data                                      *)
PutFits(s) ==
  /\ tail + Len(s) <= end
  /\ tail' = tail + Len(s)
  /\ len' = len + Len(s)
  /\ mem' = Fill(mem, tail, s)
  /\ UNCHANGED <<truesize, data, end>>

PutGrows(s, b) ==
  /\ tail + Len(s) > end
  /\ truesize + Len(s) <= MaxSize
  /\ tail' = tail + Len(s)
  /\ len' = len + Len(s)
  /\ Resize(truesize + Len(s))
  /\ mem' = Fill(Realloc(truesize + Len(s), b), tail, s)
  /\ UNCHANGED data

(* g_netbuf_push and g_netbuf_prepend_hdr                                  *)
PushFits(s) ==
  /\ Len(s) <= data
  /\ data' = data - Len(s)
  /\ len' = len + Len(s)
  /\ mem' = Fill(mem, data - Len(s), s)
  /\ UNCHANGED <<truesize, tail, end>>

Moved_Not(m, n) == m

(* g_memmove(msg->data+len, msg->data, msg->len)                           *)
Moved(m, n) == Move(m, data, len, n)

PushGrows(s, b) ==
  /\ Len(s) > data
  /\ truesize + Len(s) <= MaxSize
  /\ tail' = tail + Len(s)
  /\ len' = len + Len(s)
  /\ Resize(truesize + Len(s))
  /\ mem' = Fill(Moved(Realloc(truesize + Len(s), b), Len(s)), data, s)
  /\ UNCHANGED data

g_netbuf_pull(n) ==
  /\ n <= len
  /\ len' = len - n
  /\ data' = data + n
  /\ UNCHANGED <<mem, truesize, tail, end>>

g_netbuf_trim(n) ==
  /\ len > n
  /\ len' = n
  /\ tail' = data + n
  /\ UNCHANGED <<mem, truesize, data, end>>

(* Callers reserve headroom in an empty message that has the room: the     *)
(* function does not look.                                                 *)
g_netbuf_reserve(n) ==
  /\ len = 0 /\ tail + n <= end
  /\ data' = data + n
  /\ tail' = tail + n
  /\ UNCHANGED <<mem, truesize, end, len>>

BufNext ==
  \/ g_netbuf_recycle
  \/ \E s \in Chunks : PutFits(s) \/ PushFits(s)
  \/ \E s \in Chunks, b \in Byte : PutGrows(s, b) \/ PushGrows(s, b)
  \/ \E n \in 0 .. MaxSize : g_netbuf_pull(n) \/ g_netbuf_trim(n) \/ g_netbuf_reserve(n)

BufSpec == BufInit /\ [][BufNext]_bufVars

-----------------------------------------------------------------------------
(* Properties                                                              *)

(* The block matches its recorded size, and the message lies inside it.    *)
BufTypeOK ==
  /\ truesize \in 0 .. MaxSize
  /\ mem \in Block(truesize)
  /\ data \in Nat /\ tail \in Nat /\ end \in Nat /\ len \in Nat

(* "This is how it work" (netbuf.h:25): headroom, message and tailroom     *)
(* partition the block, along every sequence of calls.                     *)
Picture == data + len = tail /\ tail <= end /\ end = truesize

content == [i \in 1 .. len |-> mem[data + i - 1]]

M == INSTANCE Message WITH msg <- content

(* The buffer implements a message: neither growing the block nor moving   *)
(* what is in it changes a byte.                                           *)
IsMessage == M!Spec
=============================================================================
