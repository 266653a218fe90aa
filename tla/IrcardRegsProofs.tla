-------------------------- MODULE IrcardRegsProofs --------------------------
(***************************************************************************)
(* The four invariants of IrcardRegs, for all speeds and every bound on    *)
(* the events of an interrupt.                                             *)
(*                                                                         *)
(* Between two routines the invariants speak of the registers; within one  *)
(* they depend on what is left of it.  The inductive invariant says that   *)
(* what is left, run from the present state, accesses every register in    *)
(* its bank and ends in a state that is in order.  Runs(c, s, x, p, y) is  *)
(* that statement, for the routine c at speed s, the program p and the     *)
(* states x and y of the chip; it composes over the concatenations the     *)
(* routines are made of, so each routine has one lemma saying where it     *)
(* leads.                                                                  *)
(***************************************************************************)
EXTENDS IrcardRegs, Integers, TLAPS

Banks    == 0 .. 3
EnBits   == {"INTR", "TX", "RX"}
Locals   == {"receive", "complete", "irq"}
Values   == {XcvrOff, TxdFrc}
Commands == {"RX_SPEC_BITS", "RX_RFP", "TX_SPEC_BITS", "0x07"}
Contexts == {"probe", "speed", "xmit", "irq", "rxirq"}

Op ==
  [op : {"switch"}, bank : Banks, save : Locals \union {"no"}]
  \union [op : {"restore"}, from : Locals]
  \union [op : {"mcr"}, en : SUBSET EnBits, bank : Banks]
  \union [op : {"mcrSaved"}, en : SUBSET EnBits, from : Locals]
  \union [op : {"reg"}, reg : Registers, val : SUBSET (Values \union Commands)]
  \union [op : {"loop"}, left : Int]

(* What the programs work on, without the dead local "no".                 *)
State ==
  [bank : Banks, en : SUBSET EnBits, trans : SUBSET (Values \union Commands),
   mode : {"SIR", "FIR"}, receive : Banks, complete : Banks, irq : Banks]

St(b, e, t, m, r, k, q) ==
  [bank |-> b, en |-> e, trans |-> t, mode |-> m,
   receive |-> r, complete |-> k, irq |-> q]

Now == St(mcr.bank, mcr.en, trans, mode, saved["receive"], saved["complete"], saved["irq"])

Kept(x, v) ==
  IF v = "receive" THEN x.receive ELSE IF v = "complete" THEN x.complete ELSE x.irq

Rate(s) == s \in Nat /\ (s <= 1152000 \/ s >= 4000000)

(* The mode latched when IR_TRANS_CTRL goes from t to v.                   *)
Latched(t, v, m) ==
  IF XcvrOff \in t /\ XcvrOff \notin v
  THEN (IF TxdFrc \in v THEN "FIR" ELSE "SIR") ELSE m

Switched(x, o) ==
  St(o.bank, x.en, x.trans, x.mode,
     IF o.save = "receive" THEN x.bank ELSE x.receive,
     IF o.save = "complete" THEN x.bank ELSE x.complete,
     IF o.save = "irq" THEN x.bank ELSE x.irq)

SetMcr(x, b, e) == St(b, e, x.trans, x.mode, x.receive, x.complete, x.irq)

Accessed(x, o) ==
  IF o.reg = "IR_TRANS_CTRL" /\ x.bank = BankOf(o.reg)
  THEN St(x.bank, x.en, o.val, Latched(x.trans, o.val, x.mode),
          x.receive, x.complete, x.irq)
  ELSE x

(* The state after an operation; a loop that sees no event restores.       *)
After(x, o) ==
  CASE o.op = "switch"   -> Switched(x, o)
    [] o.op = "restore"  -> SetMcr(x, Kept(x, o.from), x.en)
    [] o.op = "mcr"      -> SetMcr(x, o.bank, o.en)
    [] o.op = "mcrSaved" -> SetMcr(x, Kept(x, o.from), o.en)
    [] o.op = "reg"      -> Accessed(x, o)
    [] o.op = "loop"     -> SetMcr(x, x.irq, x.en)

(* The chip is in order when a routine ends.                               *)
InOrder(c, s, x) ==
  /\ c \in {"irq", "rxirq"} => x.bank = x.irq
  /\ IsFir(s) => "INTR" \in x.en
  /\ x.trans = {}
  /\ x.mode = "FIR" <=> s >= 4000000

Exempt(c, r) == c = "rxirq" \/ (c = "speed" /\ r = "RESET")

(* What must hold when an operation is next.                               *)
Ok(c, s, x, o) ==
  /\ o.op = "reg" => Exempt(c, o.reg) \/ x.bank = BankOf(o.reg)
  /\ o.op = "loop" => /\ c \in {"irq", "rxirq"}
                      /\ c = "irq" => x.bank = 0
                      /\ InOrder(c, s, After(x, o))

Trace(c, s, p, t) ==
  \A n \in 1 .. Len(p) : Ok(c, s, t[n - 1], p[n]) /\ t[n] = After(t[n - 1], p[n])

Runs(c, s, x, p, y) ==
  /\ p \in Seq(Op)
  /\ \E t \in [0 .. Len(p) -> State] : t[0] = x /\ t[Len(p)] = y /\ Trace(c, s, p, t)

TypeOK ==
  /\ mcr \in [bank : Banks, en : SUBSET EnBits]
  /\ trans \in SUBSET (Values \union Commands)
  /\ mode \in {"SIR", "FIR"}
  /\ Rate(speed)
  /\ prog \in Seq(Op)
  /\ ctx \in Contexts
  /\ saved \in [Locals \union {"no"} -> Banks]

(* What is left of a routine leads to a state in order.                    *)
EndsWell(c, s, x, p) == \E y \in State : Runs(c, s, x, p, y) /\ InOrder(c, s, y)

IInv == TypeOK /\ EndsWell(ctx, speed, Now, prog)

-----------------------------------------------------------------------------
(* Operations and states                                                   *)

LEMMA BankOfRegister ==
  /\ \A r \in Registers : BankOf(r) \in Banks
  /\ BankOf("MSR") = 0 /\ BankOf("MISC") = 0 /\ BankOf("TX_CTRL1") = 0
  /\ BankOf("TX_CTRL2") = 0 /\ BankOf("TX_STAT") = 0 /\ BankOf("RX_CTRL") = 0
  /\ BankOf("RESET") = 0
  /\ BankOf("RX_RING_FRM_PTR") = 1 /\ BankOf("TX_BYTE_COUNT") = 1
  /\ BankOf("IR_CONF") = 2 /\ BankOf("IR_TRANS_CTRL") = 2
  /\ BankOf("SH_MEM_PAGE") = 3 /\ BankOf("TX_DMA_ADDR") = 3 /\ BankOf("REVISION_ID") = 3
  BY DEF BankOf, Banks, Bank0, Bank1, Bank2, Registers

LEMMA StType ==
  ASSUME NEW b \in Banks, NEW e \in SUBSET EnBits, NEW t \in SUBSET (Values \union Commands),
         NEW m \in {"SIR", "FIR"}, NEW r \in Banks, NEW k \in Banks, NEW q \in Banks
  PROVE  St(b, e, t, m, r, k, q) \in State
  BY DEF St, State

LEMMA StFields ==
  ASSUME NEW b, NEW e, NEW t, NEW m, NEW r, NEW k, NEW q
  PROVE  /\ St(b, e, t, m, r, k, q).bank = b
         /\ St(b, e, t, m, r, k, q).en = e
         /\ St(b, e, t, m, r, k, q).trans = t
         /\ St(b, e, t, m, r, k, q).mode = m
         /\ St(b, e, t, m, r, k, q).receive = r
         /\ St(b, e, t, m, r, k, q).complete = k
         /\ St(b, e, t, m, r, k, q).irq = q
  BY DEF St

LEMMA StateFields ==
  ASSUME NEW x \in State
  PROVE  /\ x.bank \in Banks /\ x.en \in SUBSET EnBits
         /\ x.trans \in SUBSET (Values \union Commands) /\ x.mode \in {"SIR", "FIR"}
         /\ x.receive \in Banks /\ x.complete \in Banks /\ x.irq \in Banks
         /\ x = St(x.bank, x.en, x.trans, x.mode, x.receive, x.complete, x.irq)
  BY DEF St, State

LEMMA NowType ==
  ASSUME TypeOK
  PROVE  Now \in State
  <1>1. mcr.bank \in Banks /\ mcr.en \in SUBSET EnBits
    BY DEF TypeOK
  <1>2. saved["receive"] \in Banks /\ saved["complete"] \in Banks /\ saved["irq"] \in Banks
    BY DEF TypeOK, Locals
  <1>3. trans \in SUBSET (Values \union Commands) /\ mode \in {"SIR", "FIR"}
    BY DEF TypeOK
  <1> QED BY <1>1, <1>2, <1>3, StType DEF Now

LEMMA KeptType ==
  ASSUME NEW x \in State, NEW v \in Locals
  PROVE  Kept(x, v) \in Banks
  BY StateFields, SMT DEF Kept, Locals

(* An operation has the shape of one of the six kinds.                     *)
LEMMA OpFields ==
  ASSUME NEW o \in Op
  PROVE  /\ o.op \in {"switch", "restore", "mcr", "mcrSaved", "reg", "loop"}
         /\ o.op = "switch" => o.bank \in Banks /\ o.save \in Locals \union {"no"}
         /\ o.op = "restore" => o.from \in Locals
         /\ o.op = "mcr" => o.bank \in Banks /\ o.en \in SUBSET EnBits
         /\ o.op = "mcrSaved" => o.en \in SUBSET EnBits /\ o.from \in Locals
         /\ o.op = "reg" => o.reg \in Registers /\ o.val \in SUBSET (Values \union Commands)
         /\ o.op = "loop" => o.left \in Int
  BY DEF Op

LEMMA AfterType ==
  ASSUME NEW x \in State, NEW o \in Op
  PROVE  After(x, o) \in State
  <1>1. CASE o.op = "switch"
    BY <1>1, OpFields, StateFields, StType DEF After, Switched
  <1>2. CASE o.op = "restore"
    BY <1>2, OpFields, StateFields, KeptType, StType DEF After, SetMcr
  <1>3. CASE o.op = "mcr"
    BY <1>3, OpFields, StateFields, StType DEF After, SetMcr
  <1>4. CASE o.op = "mcrSaved"
    BY <1>4, OpFields, StateFields, KeptType, StType DEF After, SetMcr
  <1>5. CASE o.op = "reg"
    <2>1. After(x, o) = Accessed(x, o)
      BY <1>5 DEF After
    <2>2. Latched(x.trans, o.val, x.mode) \in {"SIR", "FIR"}
      BY StateFields DEF Latched
    <2>3. CASE o.reg = "IR_TRANS_CTRL" /\ x.bank = BankOf(o.reg)
      <3> DEFINE m == Latched(x.trans, o.val, x.mode)
      <3>1. Accessed(x, o) = St(x.bank, x.en, o.val, m, x.receive, x.complete, x.irq)
        BY <2>3 DEF Accessed
      <3>2. m \in {"SIR", "FIR"}
        BY <2>2
      <3>3. o.val \in SUBSET (Values \union Commands)
        BY <1>5, OpFields
      <3>4. x.bank \in Banks /\ x.en \in SUBSET EnBits /\ x.receive \in Banks
            /\ x.complete \in Banks /\ x.irq \in Banks
        BY StateFields
      <3> HIDE DEF m
      <3>5. St(x.bank, x.en, o.val, m, x.receive, x.complete, x.irq) \in State
        BY <3>2, <3>3, <3>4, StType
      <3> QED BY <2>1, <3>1, <3>5
    <2>4. CASE ~(o.reg = "IR_TRANS_CTRL" /\ x.bank = BankOf(o.reg))
      BY <2>1, <2>4 DEF Accessed
    <2> QED BY <2>3, <2>4
  <1>6. CASE o.op = "loop"
    BY <1>6, OpFields, StateFields, StType DEF After, SetMcr
  <1> QED BY <1>1, <1>2, <1>3, <1>4, <1>5, <1>6, OpFields

-----------------------------------------------------------------------------
(* Runs                                                                    *)

LEMMA RunsNothing ==
  ASSUME NEW c, NEW s, NEW x \in State
  PROVE  Runs(c, s, x, <<>>, x)
  <1> DEFINE t == [n \in 0 .. 0 |-> x]
  <1>1. t \in [0 .. Len(<<>>) -> State] /\ t[0] = x /\ t[Len(<<>>)] = x
    OBVIOUS
  <1>2. Trace(c, s, <<>>, t)
    BY DEF Trace
  <1>3. <<>> \in Seq(Op)
    OBVIOUS
  <1> QED BY <1>1, <1>2, <1>3 DEF Runs

LEMMA RanNothing ==
  ASSUME NEW c, NEW s, NEW x, NEW y, Runs(c, s, x, <<>>, y)
  PROVE  y = x
  <1>1. Len(<<>>) = 0
    OBVIOUS
  <1> QED BY <1>1 DEF Runs

(* One operation after a program.                                          *)
LEMMA RunsThen ==
  ASSUME NEW c, NEW s, NEW x, NEW p, NEW y, NEW o \in Op,
         Runs(c, s, x, p, y), Ok(c, s, y, o), NEW z, z = After(y, o)
  PROVE  Runs(c, s, x, p \o <<o>>, z)
  <1>1. PICK t \in [0 .. Len(p) -> State] :
           t[0] = x /\ t[Len(p)] = y /\ Trace(c, s, p, t)
    BY DEF Runs
  <1>2. p \in Seq(Op) /\ Len(p) \in Nat
    BY DEF Runs
  <1>3. y \in State
    BY <1>1, <1>2
  <1>4. z \in State
    BY <1>3, AfterType
  <1> DEFINE u == [n \in 0 .. Len(p) + 1 |-> IF n = Len(p) + 1 THEN z ELSE t[n]]
             w == p \o <<o>>
  <1>5. w \in Seq(Op) /\ Len(w) = Len(p) + 1 /\ w[Len(p) + 1] = o
        /\ \A n \in 1 .. Len(p) : w[n] = p[n]
    BY <1>2
  <1>6. u \in [0 .. Len(w) -> State]
    BY <1>1, <1>2, <1>4, <1>5
  <1>7. u[0] = x /\ u[Len(w)] = z
    BY <1>1, <1>2, <1>5
  <1>8. ASSUME NEW n \in 1 .. Len(w)
        PROVE  Ok(c, s, u[n - 1], w[n]) /\ u[n] = After(u[n - 1], w[n])
    <2>1. CASE n = Len(p) + 1
      <3>1. u[n] = z /\ u[n - 1] = y /\ w[n] = o
        BY <1>1, <1>2, <1>5, <2>1
      <3> QED BY <3>1
    <2>2. CASE n # Len(p) + 1
      <3>1. n \in 1 .. Len(p) /\ n - 1 \in 0 .. Len(p) /\ n \in 0 .. Len(p)
        BY <1>2, <1>5, <2>2
      <3>2. u[n] = t[n] /\ u[n - 1] = t[n - 1] /\ w[n] = p[n]
        BY <1>2, <1>5, <3>1
      <3> QED BY <1>1, <3>1, <3>2 DEF Trace
    <2> QED BY <2>1, <2>2
  <1>9. Trace(c, s, w, u)
    BY <1>8 DEF Trace
  <1> HIDE DEF u, w
  <1>10. Runs(c, s, x, w, z)
    BY <1>5, <1>6, <1>7, <1>9 DEF Runs
  <1> QED BY <1>10 DEF w

(* One program after another.                                              *)
LEMMA RunsBoth ==
  ASSUME NEW c, NEW s, NEW x, NEW p, NEW y, NEW q, NEW z,
         Runs(c, s, x, p, y), Runs(c, s, y, q, z)
  PROVE  Runs(c, s, x, p \o q, z)
  <1>1. PICK t \in [0 .. Len(p) -> State] :
           t[0] = x /\ t[Len(p)] = y /\ Trace(c, s, p, t)
    BY DEF Runs
  <1>2. PICK v \in [0 .. Len(q) -> State] :
           v[0] = y /\ v[Len(q)] = z /\ Trace(c, s, q, v)
    BY DEF Runs
  <1>3. p \in Seq(Op) /\ Len(p) \in Nat /\ q \in Seq(Op) /\ Len(q) \in Nat
    BY DEF Runs
  <1> DEFINE u == [n \in 0 .. Len(p) + Len(q) |->
                     IF n <= Len(p) THEN t[n] ELSE v[n - Len(p)]]
             w == p \o q
  <1>5. w \in Seq(Op) /\ Len(w) = Len(p) + Len(q)
        /\ (\A n \in 1 .. Len(p) : w[n] = p[n])
        /\ (\A n \in 1 .. Len(w) : n > Len(p) => w[n] = q[n - Len(p)])
    BY <1>3
  <1>6. u \in [0 .. Len(w) -> State]
    <2> SUFFICES ASSUME NEW n \in 0 .. Len(p) + Len(q)
                 PROVE  (IF n <= Len(p) THEN t[n] ELSE v[n - Len(p)]) \in State
      BY <1>5
    <2>1. CASE n <= Len(p)
      BY <1>1, <1>3, <2>1
    <2>2. CASE ~(n <= Len(p))
      <3>1. n - Len(p) \in 0 .. Len(q)
        BY <1>3, <2>2
      <3> QED BY <1>2, <2>2, <3>1
    <2> QED BY <2>1, <2>2
  <1>7. u[0] = x /\ u[Len(w)] = z
    <2>1. u[0] = x
      BY <1>1, <1>3
    <2>2. CASE Len(q) = 0
      BY <1>1, <1>2, <1>3, <1>5, <2>2
    <2>3. CASE Len(q) # 0
      <3>1. ~(Len(w) <= Len(p)) /\ Len(w) - Len(p) = Len(q) /\ Len(w) \in 0 .. Len(p) + Len(q)
        BY <1>3, <1>5, <2>3
      <3> QED BY <1>2, <2>1, <3>1
    <2> QED BY <2>1, <2>2, <2>3
  <1>8. ASSUME NEW n \in 1 .. Len(w)
        PROVE  Ok(c, s, u[n - 1], w[n]) /\ u[n] = After(u[n - 1], w[n])
    <2>1. CASE n <= Len(p)
      <3>1. n \in 1 .. Len(p) /\ n - 1 <= Len(p) /\ n - 1 \in 0 .. Len(p) + Len(q)
            /\ n \in 0 .. Len(p) + Len(q)
        BY <1>3, <1>5, <2>1
      <3>2. u[n] = t[n] /\ u[n - 1] = t[n - 1] /\ w[n] = p[n]
        BY <1>5, <3>1, <2>1
      <3> QED BY <1>1, <3>1, <3>2 DEF Trace
    <2>2. CASE ~(n <= Len(p))
      <3>1. n - Len(p) \in 1 .. Len(q) /\ n - 1 \in 0 .. Len(p) + Len(q)
            /\ n \in 0 .. Len(p) + Len(q) /\ (n - 1) - Len(p) = (n - Len(p)) - 1
            /\ n > Len(p)
        BY <1>3, <1>5, <2>2
      <3>2. u[n] = v[n - Len(p)] /\ w[n] = q[n - Len(p)]
        BY <1>5, <2>2, <3>1
      <3>3. u[n - 1] = v[(n - Len(p)) - 1]
        <4>1. CASE n - 1 = Len(p)
          <5>1. (n - Len(p)) - 1 = 0
            BY <1>3, <1>5, <4>1
          <5>2. u[n - 1] = t[Len(p)]
            BY <3>1, <4>1, <1>3
          <5> QED BY <1>1, <1>2, <5>1, <5>2
        <4>2. CASE n - 1 # Len(p)
          <5>1. ~(n - 1 <= Len(p))
            BY <1>3, <1>5, <2>2, <4>2
          <5> QED BY <3>1, <5>1
        <4> QED BY <4>1, <4>2
      <3> QED BY <1>2, <3>1, <3>2, <3>3 DEF Trace
    <2> QED BY <2>1, <2>2
  <1>9. Trace(c, s, w, u)
    BY <1>8 DEF Trace
  <1> HIDE DEF u, w
  <1>10. Runs(c, s, x, w, z)
    BY <1>5, <1>6, <1>7, <1>9, <1>3 DEF Runs
  <1> QED BY <1>10 DEF w

(* The first operation of a program.                                       *)
LEMMA RunsFirst ==
  ASSUME NEW c, NEW s, NEW x, NEW p, NEW y, Runs(c, s, x, p, y), p # <<>>
  PROVE  /\ Head(p) \in Op /\ Tail(p) \in Seq(Op)
         /\ Ok(c, s, x, Head(p))
         /\ Runs(c, s, After(x, Head(p)), Tail(p), y)
  <1>1. PICK t \in [0 .. Len(p) -> State] :
           t[0] = x /\ t[Len(p)] = y /\ Trace(c, s, p, t)
    BY DEF Runs
  <1>2. p \in Seq(Op) /\ Len(p) \in Nat /\ Len(p) >= 1 /\ Head(p) = p[1] /\ Head(p) \in Op
    BY DEF Runs
  <1> DEFINE w == Tail(p)
             u == [n \in 0 .. Len(p) - 1 |-> t[n + 1]]
  <1>3. w \in Seq(Op) /\ Len(w) = Len(p) - 1 /\ \A n \in 1 .. Len(w) : w[n] = p[n + 1]
    BY <1>2
  <1>4. Ok(c, s, x, Head(p)) /\ t[1] = After(x, Head(p))
    <2>1. 1 \in 1 .. Len(p) /\ 1 - 1 = 0
      BY <1>2
    <2>2. Ok(c, s, t[1 - 1], p[1]) /\ t[1] = After(t[1 - 1], p[1])
      BY <1>1, <2>1 DEF Trace
    <2> QED BY <1>1, <1>2, <2>1, <2>2
  <1>5. u \in [0 .. Len(w) -> State] /\ u[0] = t[1] /\ u[Len(w)] = y
    BY <1>1, <1>2, <1>3
  <1>6. ASSUME NEW n \in 1 .. Len(w)
        PROVE  Ok(c, s, u[n - 1], w[n]) /\ u[n] = After(u[n - 1], w[n])
    <2>1. n + 1 \in 1 .. Len(p) /\ n - 1 \in 0 .. Len(p) - 1 /\ n \in 0 .. Len(p) - 1
          /\ (n - 1) + 1 = n /\ (n + 1) - 1 = n
      BY <1>2, <1>3
    <2>2. u[n - 1] = t[(n + 1) - 1] /\ u[n] = t[n + 1] /\ w[n] = p[n + 1]
      BY <1>3, <2>1
    <2> QED BY <1>1, <2>1, <2>2 DEF Trace
  <1>7. Trace(c, s, w, u)
    BY <1>6 DEF Trace
  <1> HIDE DEF u, w
  <1>8. Runs(c, s, After(x, Head(p)), w, y)
    BY <1>3, <1>4, <1>5, <1>7 DEF Runs
  <1> QED BY <1>2, <1>3, <1>4, <1>8 DEF w

LEMMA RunsState ==
  ASSUME NEW c, NEW s, NEW x, NEW p, NEW y, Runs(c, s, x, p, y)
  PROVE  x \in State /\ y \in State /\ p \in Seq(Op)
  <1>1. PICK t \in [0 .. Len(p) -> State] : t[0] = x /\ t[Len(p)] = y
    BY DEF Runs
  <1>2. p \in Seq(Op) /\ Len(p) \in Nat
    BY DEF Runs
  <1>3. 0 \in 0 .. Len(p) /\ Len(p) \in 0 .. Len(p)
    BY <1>2
  <1> QED BY <1>1, <1>2, <1>3

LEMMA StComponents ==
  ASSUME NEW b, NEW e, NEW t, NEW m, NEW r, NEW k, NEW q,
         St(b, e, t, m, r, k, q) \in State
  PROVE  /\ b \in Banks /\ e \in SUBSET EnBits /\ t \in SUBSET (Values \union Commands)
         /\ m \in {"SIR", "FIR"} /\ r \in Banks /\ k \in Banks /\ q \in Banks
  BY StFields, StateFields

-----------------------------------------------------------------------------
(* What each operation does at the end of a program                        *)

LEMMA SwitchBank ==
  ASSUME NEW c, NEW s, NEW x, NEW p, NEW b, NEW e, NEW t, NEW m, NEW r, NEW k, NEW q,
         NEW n \in Banks,
         Runs(c, s, x, p, St(b, e, t, m, r, k, q))
  PROVE  Runs(c, s, x, p \o switch_bank(n), St(n, e, t, m, r, k, q))
  <1> DEFINE y == St(b, e, t, m, r, k, q)
             o == [op |-> "switch", bank |-> n, save |-> "no"]
  <1>1. y \in State
    BY RunsState
  <1>2. o \in Op
    BY DEF Op, Banks, Locals, EnBits
  <1>3. Ok(c, s, y, o)
    BY DEF Ok
  <1>4. St(n, e, t, m, r, k, q) = After(y, o)
    <2>1. After(y, o) = Switched(y, o)
      BY DEF After
    <2> QED BY <2>1, StFields DEF Switched
  <1> HIDE DEF y, o
  <1>5. Runs(c, s, x, p \o <<o>>, St(n, e, t, m, r, k, q))
    BY <1>2, <1>3, <1>4, RunsThen DEF y
  <1> QED BY <1>5 DEF o, switch_bank

LEMMA SwitchBank_receive ==
  ASSUME NEW c, NEW s, NEW x, NEW p, NEW b, NEW e, NEW t, NEW m, NEW r, NEW k, NEW q,
         NEW n \in Banks,
         Runs(c, s, x, p, St(b, e, t, m, r, k, q))
  PROVE  Runs(c, s, x, p \o switch_bank_to(n, "receive"), St(n, e, t, m, b, k, q))
  <1> DEFINE y == St(b, e, t, m, r, k, q)
             o == [op |-> "switch", bank |-> n, save |-> "receive"]
  <1>1. y \in State
    BY RunsState
  <1>2. o \in Op
    BY DEF Op, Banks, Locals, EnBits
  <1>3. Ok(c, s, y, o)
    BY DEF Ok
  <1>4. St(n, e, t, m, b, k, q) = After(y, o)
    <2>1. After(y, o) = Switched(y, o)
      BY DEF After
    <2> QED BY <2>1, StFields DEF Switched
  <1> HIDE DEF y, o
  <1>5. Runs(c, s, x, p \o <<o>>, St(n, e, t, m, b, k, q))
    BY <1>2, <1>3, <1>4, RunsThen DEF y
  <1> QED BY <1>5 DEF o, switch_bank_to

LEMMA SwitchBank_complete ==
  ASSUME NEW c, NEW s, NEW x, NEW p, NEW b, NEW e, NEW t, NEW m, NEW r, NEW k, NEW q,
         NEW n \in Banks,
         Runs(c, s, x, p, St(b, e, t, m, r, k, q))
  PROVE  Runs(c, s, x, p \o switch_bank_to(n, "complete"), St(n, e, t, m, r, b, q))
  <1> DEFINE y == St(b, e, t, m, r, k, q)
             o == [op |-> "switch", bank |-> n, save |-> "complete"]
  <1>1. y \in State
    BY RunsState
  <1>2. o \in Op
    BY DEF Op, Banks, Locals, EnBits
  <1>3. Ok(c, s, y, o)
    BY DEF Ok
  <1>4. St(n, e, t, m, r, b, q) = After(y, o)
    <2>1. After(y, o) = Switched(y, o)
      BY DEF After
    <2> QED BY <2>1, StFields DEF Switched
  <1> HIDE DEF y, o
  <1>5. Runs(c, s, x, p \o <<o>>, St(n, e, t, m, r, b, q))
    BY <1>2, <1>3, <1>4, RunsThen DEF y
  <1> QED BY <1>5 DEF o, switch_bank_to

LEMMA SwitchBank_irq ==
  ASSUME NEW c, NEW s, NEW x, NEW p, NEW b, NEW e, NEW t, NEW m, NEW r, NEW k, NEW q,
         NEW n \in Banks,
         Runs(c, s, x, p, St(b, e, t, m, r, k, q))
  PROVE  Runs(c, s, x, p \o switch_bank_to(n, "irq"), St(n, e, t, m, r, k, b))
  <1> DEFINE y == St(b, e, t, m, r, k, q)
             o == [op |-> "switch", bank |-> n, save |-> "irq"]
  <1>1. y \in State
    BY RunsState
  <1>2. o \in Op
    BY DEF Op, Banks, Locals, EnBits
  <1>3. Ok(c, s, y, o)
    BY DEF Ok
  <1>4. St(n, e, t, m, r, k, b) = After(y, o)
    <2>1. After(y, o) = Switched(y, o)
      BY DEF After
    <2> QED BY <2>1, StFields DEF Switched
  <1> HIDE DEF y, o
  <1>5. Runs(c, s, x, p \o <<o>>, St(n, e, t, m, r, k, b))
    BY <1>2, <1>3, <1>4, RunsThen DEF y
  <1> QED BY <1>5 DEF o, switch_bank_to

LEMMA RestoreBank ==
  ASSUME NEW c, NEW s, NEW x, NEW p, NEW b, NEW e, NEW t, NEW m, NEW r, NEW k, NEW q,
         Runs(c, s, x, p, St(b, e, t, m, r, k, q))
  PROVE  Runs(c, s, x, p \o restore_bank("irq"), St(q, e, t, m, r, k, q))
  <1> DEFINE y == St(b, e, t, m, r, k, q)
             o == [op |-> "restore", from |-> "irq"]
  <1>1. y \in State
    BY RunsState
  <1>2. o \in Op
    BY DEF Op, Banks, Locals, EnBits
  <1>3. Ok(c, s, y, o)
    BY DEF Ok
  <1>4. St(q, e, t, m, r, k, q) = After(y, o)
    <2>1. After(y, o) = SetMcr(y, Kept(y, o.from), y.en)
      BY DEF After
    <2> QED BY <2>1, StFields DEF SetMcr, Kept
  <1> HIDE DEF y, o
  <1>5. Runs(c, s, x, p \o <<o>>, St(q, e, t, m, r, k, q))
    BY <1>2, <1>3, <1>4, RunsThen DEF y
  <1> QED BY <1>5 DEF o, restore_bank

LEMMA RawSwitchBank ==
  ASSUME NEW c, NEW s, NEW x, NEW p, NEW b, NEW e, NEW t, NEW m, NEW r, NEW k, NEW q,
         NEW n \in Banks,
         Runs(c, s, x, p, St(b, e, t, m, r, k, q))
  PROVE  Runs(c, s, x, p \o raw_switch_bank(n), St(n, {}, t, m, r, k, q))
  <1> DEFINE y == St(b, e, t, m, r, k, q)
             o == [op |-> "mcr", en |-> {}, bank |-> n]
  <1>1. y \in State
    BY RunsState
  <1>2. o \in Op
    BY DEF Op, Banks, Locals, EnBits
  <1>3. Ok(c, s, y, o)
    BY DEF Ok
  <1>4. St(n, {}, t, m, r, k, q) = After(y, o)
    <2>1. After(y, o) = SetMcr(y, o.bank, o.en)
      BY DEF After
    <2> QED BY <2>1, StFields DEF SetMcr
  <1> HIDE DEF y, o
  <1>5. Runs(c, s, x, p \o <<o>>, St(n, {}, t, m, r, k, q))
    BY <1>2, <1>3, <1>4, RunsThen DEF y
  <1> QED BY <1>5 DEF o, raw_switch_bank

LEMMA SetsMcr ==
  ASSUME NEW c, NEW s, NEW x, NEW p, NEW b, NEW e, NEW t, NEW m, NEW r, NEW k, NEW q,
         NEW n \in Banks, NEW f \in SUBSET EnBits,
         Runs(c, s, x, p, St(b, e, t, m, r, k, q))
  PROVE  Runs(c, s, x, p \o set_mcr(f, n), St(n, f, t, m, r, k, q))
  <1> DEFINE y == St(b, e, t, m, r, k, q)
             o == [op |-> "mcr", en |-> f, bank |-> n]
  <1>1. y \in State
    BY RunsState
  <1>2. o \in Op
    BY DEF Op, Banks, Locals, EnBits
  <1>3. Ok(c, s, y, o)
    BY DEF Ok
  <1>4. St(n, f, t, m, r, k, q) = After(y, o)
    <2>1. After(y, o) = SetMcr(y, o.bank, o.en)
      BY DEF After
    <2> QED BY <2>1, StFields DEF SetMcr
  <1> HIDE DEF y, o
  <1>5. Runs(c, s, x, p \o <<o>>, St(n, f, t, m, r, k, q))
    BY <1>2, <1>3, <1>4, RunsThen DEF y
  <1> QED BY <1>5 DEF o, set_mcr

LEMMA SetsMcr_receive ==
  ASSUME NEW c, NEW s, NEW x, NEW p, NEW b, NEW e, NEW t, NEW m, NEW r, NEW k, NEW q,
         NEW f \in SUBSET EnBits,
         Runs(c, s, x, p, St(b, e, t, m, r, k, q))
  PROVE  Runs(c, s, x, p \o set_mcr_saved(f, "receive"), St(r, f, t, m, r, k, q))
  <1> DEFINE y == St(b, e, t, m, r, k, q)
             o == [op |-> "mcrSaved", en |-> f, from |-> "receive"]
  <1>1. y \in State
    BY RunsState
  <1>2. o \in Op
    BY DEF Op, Banks, Locals, EnBits
  <1>3. Ok(c, s, y, o)
    BY DEF Ok
  <1>4. St(r, f, t, m, r, k, q) = After(y, o)
    <2>1. After(y, o) = SetMcr(y, Kept(y, o.from), o.en)
      BY DEF After
    <2> QED BY <2>1, StFields DEF SetMcr, Kept
  <1> HIDE DEF y, o
  <1>5. Runs(c, s, x, p \o <<o>>, St(r, f, t, m, r, k, q))
    BY <1>2, <1>3, <1>4, RunsThen DEF y
  <1> QED BY <1>5 DEF o, set_mcr_saved

LEMMA SetsMcr_complete ==
  ASSUME NEW c, NEW s, NEW x, NEW p, NEW b, NEW e, NEW t, NEW m, NEW r, NEW k, NEW q,
         NEW f \in SUBSET EnBits,
         Runs(c, s, x, p, St(b, e, t, m, r, k, q))
  PROVE  Runs(c, s, x, p \o set_mcr_saved(f, "complete"), St(k, f, t, m, r, k, q))
  <1> DEFINE y == St(b, e, t, m, r, k, q)
             o == [op |-> "mcrSaved", en |-> f, from |-> "complete"]
  <1>1. y \in State
    BY RunsState
  <1>2. o \in Op
    BY DEF Op, Banks, Locals, EnBits
  <1>3. Ok(c, s, y, o)
    BY DEF Ok
  <1>4. St(k, f, t, m, r, k, q) = After(y, o)
    <2>1. After(y, o) = SetMcr(y, Kept(y, o.from), o.en)
      BY DEF After
    <2> QED BY <2>1, StFields DEF SetMcr, Kept
  <1> HIDE DEF y, o
  <1>5. Runs(c, s, x, p \o <<o>>, St(k, f, t, m, r, k, q))
    BY <1>2, <1>3, <1>4, RunsThen DEF y
  <1> QED BY <1>5 DEF o, set_mcr_saved

LEMMA Outb ==
  ASSUME NEW c, NEW s, NEW x, NEW p, NEW b, NEW e, NEW t, NEW m, NEW r, NEW k, NEW q,
         NEW v \in SUBSET (Values \union Commands),
         NEW g \in Registers, g # "IR_TRANS_CTRL", Exempt(c, g) \/ b = BankOf(g),
         Runs(c, s, x, p, St(b, e, t, m, r, k, q))
  PROVE  Runs(c, s, x, p \o outb(v, g), St(b, e, t, m, r, k, q))
  <1> DEFINE y == St(b, e, t, m, r, k, q)
             o == [op |-> "reg", reg |-> g, val |-> v]
  <1>1. y \in State
    BY RunsState
  <1>2. o \in Op
    BY DEF Op
  <1>3. Ok(c, s, y, o)
    BY StFields DEF Ok
  <1>4. St(b, e, t, m, r, k, q) = After(y, o)
    <2>1. After(y, o) = Accessed(y, o)
      BY DEF After
    <2> QED BY <2>1, StFields DEF Accessed
  <1> HIDE DEF y, o
  <1>5. Runs(c, s, x, p \o <<o>>, St(b, e, t, m, r, k, q))
    BY <1>2, <1>3, <1>4, RunsThen DEF y
  <1> QED BY <1>5 DEF o, outb

LEMMA Access ==
  ASSUME NEW c, NEW s, NEW x, NEW p, NEW b, NEW e, NEW t, NEW m, NEW r, NEW k, NEW q,
         NEW g \in Registers, g # "IR_TRANS_CTRL", Exempt(c, g) \/ b = BankOf(g),
         Runs(c, s, x, p, St(b, e, t, m, r, k, q))
  PROVE  Runs(c, s, x, p \o access(g), St(b, e, t, m, r, k, q))
  <1> DEFINE y == St(b, e, t, m, r, k, q)
             o == [op |-> "reg", reg |-> g, val |-> {}]
  <1>1. y \in State
    BY RunsState
  <1>2. o \in Op
    BY DEF Op
  <1>3. Ok(c, s, y, o)
    BY StFields DEF Ok
  <1>4. St(b, e, t, m, r, k, q) = After(y, o)
    <2>1. After(y, o) = Accessed(y, o)
      BY DEF After
    <2> QED BY <2>1, StFields DEF Accessed
  <1> HIDE DEF y, o
  <1>5. Runs(c, s, x, p \o <<o>>, St(b, e, t, m, r, k, q))
    BY <1>2, <1>3, <1>4, RunsThen DEF y
  <1> QED BY <1>5 DEF o, access

(* IR_TRANS_CTRL: the transceiver may latch another mode.                  *)
LEMMA OutbTrans ==
  ASSUME NEW c, NEW s, NEW x, NEW p, NEW e, NEW t, NEW m, NEW r, NEW k, NEW q,
         NEW v \in SUBSET Values,
         Runs(c, s, x, p, St(2, e, t, m, r, k, q))
  PROVE  Runs(c, s, x, p \o outb(v, "IR_TRANS_CTRL"),
              St(2, e, v, Latched(t, v, m), r, k, q))
  <1> DEFINE y == St(2, e, t, m, r, k, q)
             o == [op |-> "reg", reg |-> "IR_TRANS_CTRL", val |-> v]
             l == Latched(t, v, m)
  <1>1. "IR_TRANS_CTRL" \in Registers
    BY DEF Registers, Bank2
  <1>2. o \in Op
    BY <1>1 DEF Op
  <1>3. Ok(c, s, y, o)
    BY StFields, BankOfRegister DEF Ok
  <1>4. St(2, e, v, l, r, k, q) = After(y, o)
    <2>1. After(y, o) = Accessed(y, o)
      BY DEF After
    <2>2. y.bank = BankOf("IR_TRANS_CTRL")
      BY StFields, BankOfRegister
    <2>3. Accessed(y, o) = St(y.bank, y.en, v, Latched(y.trans, v, y.mode),
                              y.receive, y.complete, y.irq)
      BY <2>2 DEF Accessed
    <2> QED BY <2>1, <2>3, StFields
  <1> HIDE DEF y, o, l
  <1>5. Runs(c, s, x, p \o <<o>>, St(2, e, v, l, r, k, q))
    BY <1>2, <1>3, <1>4, RunsThen DEF y
  <1> QED BY <1>5 DEF o, outb, l

-----------------------------------------------------------------------------
(* What each routine does                                                  *)

Plain == Registers \ {"IR_TRANS_CTRL"}

LEMMA PlainRegisters ==
  /\ Bank0 \union Bank1 \union Bank3 \subseteq Plain
  /\ "IR_CONF" \in Plain
  /\ \A g \in Plain : g \in Registers /\ g # "IR_TRANS_CTRL"
  /\ \A g \in Bank0 : BankOf(g) = 0
  /\ \A g \in Bank1 : BankOf(g) = 1
  /\ \A g \in Bank3 : BankOf(g) = 3
  BY DEF Plain, Registers, Bank0, Bank1, Bank2, Bank3, BankOf

LEMMA Small == 0 \in Banks /\ 1 \in Banks /\ 2 \in Banks /\ 3 \in Banks
  BY DEF Banks

LEMMA Concat == ASSUME NEW p \in Seq(Op) PROVE <<>> \o p = p
  OBVIOUS

LEMMA Enables ==
  /\ {} \in SUBSET EnBits /\ {"INTR"} \in SUBSET EnBits
  /\ {"INTR", "TX"} \in SUBSET EnBits /\ {"RX", "INTR"} \in SUBSET EnBits
  BY DEF EnBits

LEMMA Written ==
  /\ {"RX_SPEC_BITS"} \in SUBSET (Values \union Commands)
  /\ {"RX_RFP"} \in SUBSET (Values \union Commands)
  /\ {"TX_SPEC_BITS"} \in SUBSET (Values \union Commands)
  /\ {"0x07"} \in SUBSET (Values \union Commands)
  BY DEF Commands

LEMMA Probes ==
  ASSUME NEW c, NEW s, NEW b, NEW e, NEW t, NEW m, NEW r, NEW k, NEW q,
         St(b, e, t, m, r, k, q) \in State
  PROVE  Runs(c, s, St(b, e, t, m, r, k, q), ircard_probe, St(3, e, t, m, r, k, q))
  <1> DEFINE x == St(b, e, t, m, r, k, q)
             p1 == switch_bank(3)
             p2 == p1 \o access("REVISION_ID")
             p3 == p2 \o access("SH_MEM_PAGE")
             p4 == p3 \o switch_bank(0)
             p5 == p4 \o access("TX_CTRL2")
             p6 == p5 \o switch_bank(3)
             p7 == p6 \o access("SH_MEM_PAGE")
             p8 == p7 \o access("TX_DMA_ADDR")
  <1> HIDE DEF x, p1, p2, p3, p4, p5, p6, p7, p8
  <1>1. Runs(c, s, x, p1, St(3, e, t, m, r, k, q))
    <2>1. x \in State
      BY DEF x
    <2>2. Runs(c, s, x, <<>>, St(b, e, t, m, r, k, q))
      BY <2>1, RunsNothing DEF x
    <2>3. Runs(c, s, x, <<>> \o p1, St(3, e, t, m, r, k, q))
      BY <2>2, SwitchBank, Small DEF p1
    <2>4. <<>> \o p1 = p1
      BY DEF p1, switch_bank
    <2> QED BY <2>3, <2>4
  <1>2. Runs(c, s, x, p2, St(3, e, t, m, r, k, q))
    BY <1>1, Access, PlainRegisters DEF p2, Bank3
  <1>3. Runs(c, s, x, p3, St(3, e, t, m, r, k, q))
    BY <1>2, Access, PlainRegisters DEF p3, Bank3
  <1>4. Runs(c, s, x, p4, St(0, e, t, m, r, k, q))
    BY <1>3, SwitchBank, Small DEF p4
  <1>5. Runs(c, s, x, p5, St(0, e, t, m, r, k, q))
    BY <1>4, Access, PlainRegisters DEF p5, Bank0
  <1>6. Runs(c, s, x, p6, St(3, e, t, m, r, k, q))
    BY <1>5, SwitchBank, Small DEF p6
  <1>7. Runs(c, s, x, p7, St(3, e, t, m, r, k, q))
    BY <1>6, Access, PlainRegisters DEF p7, Bank3
  <1>8. Runs(c, s, x, p8, St(3, e, t, m, r, k, q))
    BY <1>7, Access, PlainRegisters DEF p8, Bank3
  <1> QED BY <1>8 DEF x, p1, p2, p3, p4, p5, p6, p7, p8, ircard_probe

LEMMA SirToFir ==
  ASSUME NEW c, NEW s, NEW b, NEW e, NEW m, NEW r, NEW k, NEW q,
         St(b, e, {}, m, r, k, q) \in State
  PROVE  Runs(c, s, St(b, e, {}, m, r, k, q), ircard_sir_to_fir, St(2, {}, {}, "FIR", r, k, q))
  <1> DEFINE x == St(b, e, {}, m, r, k, q)
             p1 == raw_switch_bank(2)
             p2 == p1 \o outb({XcvrOff}, "IR_TRANS_CTRL")
             p3 == p2 \o outb({XcvrOff, TxdFrc}, "IR_TRANS_CTRL")
             p4 == p3 \o outb({TxdFrc}, "IR_TRANS_CTRL")
             p5 == p4 \o outb({}, "IR_TRANS_CTRL")
  <1> HIDE DEF x, p1, p2, p3, p4, p5
  <1>1. Runs(c, s, x, p1, St(2, {}, {}, m, r, k, q))
    <2>1. x \in State
      BY DEF x
    <2>2. Runs(c, s, x, <<>>, St(b, e, {}, m, r, k, q))
      BY <2>1, RunsNothing DEF x
    <2>3. Runs(c, s, x, <<>> \o p1, St(2, {}, {}, m, r, k, q))
      BY <2>2, RawSwitchBank, Small DEF p1
    <2>4. <<>> \o p1 = p1
      BY DEF p1, raw_switch_bank
    <2> QED BY <2>3, <2>4
  <1>2. Runs(c, s, x, p2, St(2, {}, {XcvrOff}, m, r, k, q))
    <2>1. Runs(c, s, x, p2, St(2, {}, {XcvrOff}, Latched({}, {XcvrOff}, m), r, k, q))
      BY <1>1, OutbTrans DEF p2, Values
    <2>2. Latched({}, {XcvrOff}, m) = m
      BY DEF Latched, XcvrOff, TxdFrc
    <2> QED BY <2>1, <2>2
  <1>3. Runs(c, s, x, p3, St(2, {}, {XcvrOff, TxdFrc}, m, r, k, q))
    <2>1. Runs(c, s, x, p3, St(2, {}, {XcvrOff, TxdFrc}, Latched({XcvrOff}, {XcvrOff, TxdFrc}, m), r, k, q))
      BY <1>2, OutbTrans DEF p3, Values
    <2>2. Latched({XcvrOff}, {XcvrOff, TxdFrc}, m) = m
      BY DEF Latched, XcvrOff, TxdFrc
    <2> QED BY <2>1, <2>2
  <1>4. Runs(c, s, x, p4, St(2, {}, {TxdFrc}, "FIR", r, k, q))
    <2>1. Runs(c, s, x, p4, St(2, {}, {TxdFrc}, Latched({XcvrOff, TxdFrc}, {TxdFrc}, m), r, k, q))
      BY <1>3, OutbTrans DEF p4, Values
    <2>2. Latched({XcvrOff, TxdFrc}, {TxdFrc}, m) = "FIR"
      BY DEF Latched, XcvrOff, TxdFrc
    <2> QED BY <2>1, <2>2
  <1>5. Runs(c, s, x, p5, St(2, {}, {}, "FIR", r, k, q))
    <2>1. Runs(c, s, x, p5, St(2, {}, {}, Latched({TxdFrc}, {}, "FIR"), r, k, q))
      BY <1>4, OutbTrans DEF p5, Values
    <2>2. Latched({TxdFrc}, {}, "FIR") = "FIR"
      BY DEF Latched, XcvrOff, TxdFrc
    <2> QED BY <2>1, <2>2
  <1> QED BY <1>5 DEF x, p1, p2, p3, p4, p5, ircard_sir_to_fir

LEMMA FirToSir ==
  ASSUME NEW c, NEW s, NEW b, NEW e, NEW m, NEW r, NEW k, NEW q,
         St(b, e, {}, m, r, k, q) \in State
  PROVE  Runs(c, s, St(b, e, {}, m, r, k, q), ircard_fir_to_sir, St(2, {}, {}, "SIR", r, k, q))
  <1> DEFINE x == St(b, e, {}, m, r, k, q)
             p1 == raw_switch_bank(2)
             p2 == p1 \o outb({XcvrOff}, "IR_TRANS_CTRL")
             p3 == p2 \o outb({}, "IR_TRANS_CTRL")
  <1> HIDE DEF x, p1, p2, p3
  <1>1. Runs(c, s, x, p1, St(2, {}, {}, m, r, k, q))
    <2>1. x \in State
      BY DEF x
    <2>2. Runs(c, s, x, <<>>, St(b, e, {}, m, r, k, q))
      BY <2>1, RunsNothing DEF x
    <2>3. Runs(c, s, x, <<>> \o p1, St(2, {}, {}, m, r, k, q))
      BY <2>2, RawSwitchBank, Small DEF p1
    <2>4. <<>> \o p1 = p1
      BY DEF p1, raw_switch_bank
    <2> QED BY <2>3, <2>4
  <1>2. Runs(c, s, x, p2, St(2, {}, {XcvrOff}, m, r, k, q))
    <2>1. Runs(c, s, x, p2, St(2, {}, {XcvrOff}, Latched({}, {XcvrOff}, m), r, k, q))
      BY <1>1, OutbTrans DEF p2, Values
    <2>2. Latched({}, {XcvrOff}, m) = m
      BY DEF Latched, XcvrOff, TxdFrc
    <2> QED BY <2>1, <2>2
  <1>3. Runs(c, s, x, p3, St(2, {}, {}, "SIR", r, k, q))
    <2>1. Runs(c, s, x, p3, St(2, {}, {}, Latched({XcvrOff}, {}, m), r, k, q))
      BY <1>2, OutbTrans DEF p3, Values
    <2>2. Latched({XcvrOff}, {}, m) = "SIR"
      BY DEF Latched, XcvrOff, TxdFrc
    <2> QED BY <2>1, <2>2
  <1> QED BY <1>3 DEF x, p1, p2, p3, ircard_fir_to_sir

LEMMA DmaWrites ==
  ASSUME NEW c, NEW s, NEW b, NEW e, NEW t, NEW m, NEW r, NEW k, NEW q,
         St(b, e, t, m, r, k, q) \in State
  PROVE  Runs(c, s, St(b, e, t, m, r, k, q), ircard_dma_write, St(0, {"INTR", "TX"}, t, m, r, k, q))
  <1> DEFINE x == St(b, e, t, m, r, k, q)
             p1 == switch_bank(0)
             p2 == p1 \o access("MISC")
             p3 == p2 \o set_mcr({"INTR", "TX"}, 0)
             p4 == p3 \o access("TX_CTRL2")
             p5 == p4 \o switch_bank(1)
             p6 == p5 \o access("TX_BYTE_COUNT")
             p7 == p6 \o switch_bank(3)
             p8 == p7 \o access("SH_MEM_PAGE")
             p9 == p8 \o access("TX_DMA_ADDR")
             p10 == p9 \o switch_bank(0)
             p11 == p10 \o access("MISC")
             p12 == p11 \o switch_bank(0)
             p13 == p12 \o access("TX_CTRL1")
  <1> HIDE DEF x, p1, p2, p3, p4, p5, p6, p7, p8, p9, p10, p11, p12, p13
  <1>1. Runs(c, s, x, p1, St(0, e, t, m, r, k, q))
    <2>1. x \in State
      BY DEF x
    <2>2. Runs(c, s, x, <<>>, St(b, e, t, m, r, k, q))
      BY <2>1, RunsNothing DEF x
    <2>3. Runs(c, s, x, <<>> \o p1, St(0, e, t, m, r, k, q))
      BY <2>2, SwitchBank, Small DEF p1
    <2>4. <<>> \o p1 = p1
      BY DEF p1, switch_bank
    <2> QED BY <2>3, <2>4
  <1>2. Runs(c, s, x, p2, St(0, e, t, m, r, k, q))
    BY <1>1, Access, PlainRegisters DEF p2, Bank0
  <1>3. Runs(c, s, x, p3, St(0, {"INTR", "TX"}, t, m, r, k, q))
    BY <1>2, SetsMcr, Small, Enables DEF p3
  <1>4. Runs(c, s, x, p4, St(0, {"INTR", "TX"}, t, m, r, k, q))
    BY <1>3, Access, PlainRegisters DEF p4, Bank0
  <1>5. Runs(c, s, x, p5, St(1, {"INTR", "TX"}, t, m, r, k, q))
    BY <1>4, SwitchBank, Small DEF p5
  <1>6. Runs(c, s, x, p6, St(1, {"INTR", "TX"}, t, m, r, k, q))
    BY <1>5, Access, PlainRegisters DEF p6, Bank1
  <1>7. Runs(c, s, x, p7, St(3, {"INTR", "TX"}, t, m, r, k, q))
    BY <1>6, SwitchBank, Small DEF p7
  <1>8. Runs(c, s, x, p8, St(3, {"INTR", "TX"}, t, m, r, k, q))
    BY <1>7, Access, PlainRegisters DEF p8, Bank3
  <1>9. Runs(c, s, x, p9, St(3, {"INTR", "TX"}, t, m, r, k, q))
    BY <1>8, Access, PlainRegisters DEF p9, Bank3
  <1>10. Runs(c, s, x, p10, St(0, {"INTR", "TX"}, t, m, r, k, q))
    BY <1>9, SwitchBank, Small DEF p10
  <1>11. Runs(c, s, x, p11, St(0, {"INTR", "TX"}, t, m, r, k, q))
    BY <1>10, Access, PlainRegisters DEF p11, Bank0
  <1>12. Runs(c, s, x, p12, St(0, {"INTR", "TX"}, t, m, r, k, q))
    BY <1>11, SwitchBank, Small DEF p12
  <1>13. Runs(c, s, x, p13, St(0, {"INTR", "TX"}, t, m, r, k, q))
    BY <1>12, Access, PlainRegisters DEF p13, Bank0
  <1> QED BY <1>13 DEF x, p1, p2, p3, p4, p5, p6, p7, p8, p9, p10, p11, p12, p13, ircard_dma_write

(* Its RESET commands reach bank 0 when that is the bank it is called with. *)
LEMMA Receives ==
  ASSUME NEW c, NEW s, NEW b, NEW e, NEW t, NEW m, NEW r, NEW k, NEW q,
         St(b, e, t, m, r, k, q) \in State,
         c \in {"speed", "rxirq"} \/ b = 0
  PROVE  Runs(c, s, St(b, e, t, m, r, k, q), ircard_receive, St(0, {"RX", "INTR"}, t, m, b, k, q))
  <1> DEFINE x == St(b, e, t, m, r, k, q)
             p1 == switch_bank_to(0, "receive")
             p2 == p1 \o set_mcr_saved({"INTR"}, "receive")
             p3 == p2 \o outb({"RX_SPEC_BITS"}, "RESET")
             p4 == p3 \o outb({"RX_RFP"}, "RESET")
             p5 == p4 \o set_mcr_saved({"RX", "INTR"}, "receive")
             p6 == p5 \o switch_bank(0)
             p7 == p6 \o access("RX_CTRL")
             p8 == p7 \o access("MISC")
  <1> HIDE DEF x, p1, p2, p3, p4, p5, p6, p7, p8
  <1>1. Runs(c, s, x, p1, St(0, e, t, m, b, k, q))
    <2>1. x \in State
      BY DEF x
    <2>2. Runs(c, s, x, <<>>, St(b, e, t, m, r, k, q))
      BY <2>1, RunsNothing DEF x
    <2>3. Runs(c, s, x, <<>> \o p1, St(0, e, t, m, b, k, q))
      BY <2>2, SwitchBank_receive, Small DEF p1
    <2>4. <<>> \o p1 = p1
      BY DEF p1, switch_bank_to
    <2> QED BY <2>3, <2>4
  <1>2. Runs(c, s, x, p2, St(b, {"INTR"}, t, m, b, k, q))
    BY <1>1, SetsMcr_receive, Enables DEF p2
  <1>3. Runs(c, s, x, p3, St(b, {"INTR"}, t, m, b, k, q))
    BY <1>2, Outb, Written, PlainRegisters DEF p3, Exempt, Bank0
  <1>4. Runs(c, s, x, p4, St(b, {"INTR"}, t, m, b, k, q))
    BY <1>3, Outb, Written, PlainRegisters DEF p4, Exempt, Bank0
  <1>5. Runs(c, s, x, p5, St(b, {"RX", "INTR"}, t, m, b, k, q))
    BY <1>4, SetsMcr_receive, Enables DEF p5
  <1>6. Runs(c, s, x, p6, St(0, {"RX", "INTR"}, t, m, b, k, q))
    BY <1>5, SwitchBank, Small DEF p6
  <1>7. Runs(c, s, x, p7, St(0, {"RX", "INTR"}, t, m, b, k, q))
    BY <1>6, Access, PlainRegisters DEF p7, Bank0
  <1>8. Runs(c, s, x, p8, St(0, {"RX", "INTR"}, t, m, b, k, q))
    BY <1>7, Access, PlainRegisters DEF p8, Bank0
  <1> QED BY <1>8 DEF x, p1, p2, p3, p4, p5, p6, p7, p8, ircard_receive

(* ircard_xmit_complete up to what follows it.                             *)
Completed ==
  switch_bank_to(0, "complete") \o access("TX_STAT")
  \o set_mcr_saved({"INTR"}, "complete") \o access("MISC")
  \o outb({"TX_SPEC_BITS"}, "RESET")

LEMMA Completes ==
  ASSUME NEW c, NEW s, NEW b, NEW e, NEW t, NEW m, NEW r, NEW k, NEW q,
         St(b, e, t, m, r, k, q) \in State,
         c = "rxirq" \/ b = 0
  PROVE  Runs(c, s, St(b, e, t, m, r, k, q), Completed, St(b, {"INTR"}, t, m, r, b, q))
  <1> DEFINE x == St(b, e, t, m, r, k, q)
             p1 == switch_bank_to(0, "complete")
             p2 == p1 \o access("TX_STAT")
             p3 == p2 \o set_mcr_saved({"INTR"}, "complete")
             p4 == p3 \o access("MISC")
             p5 == p4 \o outb({"TX_SPEC_BITS"}, "RESET")
  <1> HIDE DEF x, p1, p2, p3, p4, p5
  <1>1. Runs(c, s, x, p1, St(0, e, t, m, r, b, q))
    <2>1. x \in State
      BY DEF x
    <2>2. Runs(c, s, x, <<>>, St(b, e, t, m, r, k, q))
      BY <2>1, RunsNothing DEF x
    <2>3. Runs(c, s, x, <<>> \o p1, St(0, e, t, m, r, b, q))
      BY <2>2, SwitchBank_complete, Small DEF p1
    <2>4. <<>> \o p1 = p1
      BY DEF p1, switch_bank_to
    <2> QED BY <2>3, <2>4
  <1>2. Runs(c, s, x, p2, St(0, e, t, m, r, b, q))
    BY <1>1, Access, PlainRegisters DEF p2, Bank0
  <1>3. Runs(c, s, x, p3, St(b, {"INTR"}, t, m, r, b, q))
    BY <1>2, SetsMcr_complete, Enables DEF p3
  <1>4. Runs(c, s, x, p4, St(b, {"INTR"}, t, m, r, b, q))
    BY <1>3, Access, PlainRegisters DEF p4, Exempt, Bank0
  <1>5. Runs(c, s, x, p5, St(b, {"INTR"}, t, m, r, b, q))
    BY <1>4, Outb, Written, PlainRegisters DEF p5, Exempt, Bank0
  <1> QED BY <1>5 DEF x, p1, p2, p3, p4, p5, Completed

(* What handling an event leaves as it is, for the loop that goes on.      *)
Handled(c, x, z) ==
  /\ z.irq = x.irq /\ z.trans = x.trans /\ z.mode = x.mode
  /\ "INTR" \in x.en => "INTR" \in z.en
  /\ c = "irq" => z.bank = 0

LEMMA HandlesCompletion ==
  ASSUME NEW c \in {"irq", "rxirq"}, NEW s, NEW x \in State, c = "irq" => x.bank = 0,
         NEW next \in {"more", "turn", "wait"}
  PROVE  \E z \in State : Runs(c, s, x, ircard_xmit_complete(next), z) /\ Handled(c, x, z)
  <1> DEFINE b == x.bank
             y == St(b, {"INTR"}, x.trans, x.mode, x.receive, b, x.irq)
  <1>0. x = St(b, x.en, x.trans, x.mode, x.receive, x.complete, x.irq) /\ b \in Banks
    BY StateFields
  <1>1. c = "rxirq" \/ b = 0
    OBVIOUS
  <1> HIDE DEF b
  <1>2. Runs(c, s, x, Completed, y)
    <2>1. St(b, x.en, x.trans, x.mode, x.receive, x.complete, x.irq) \in State
      BY <1>0
    <2>2. Runs(c, s, St(b, x.en, x.trans, x.mode, x.receive, x.complete, x.irq), Completed, y)
      BY <1>1, <2>1, Completes
    <2> QED BY <1>0, <2>2
  <1>3. y \in State
    BY <1>2, RunsState
  <1>4. ircard_xmit_complete(next) = Completed \o Follow(next)
    BY DEF ircard_xmit_complete, Completed
  <1>5. CASE next = "more"
    <2> DEFINE z == St(0, {"INTR", "TX"}, x.trans, x.mode, x.receive, b, x.irq)
    <2>1. Follow(next) = ircard_dma_write
      BY <1>5 DEF Follow
    <2>2. Runs(c, s, y, ircard_dma_write, z)
      BY <1>3, DmaWrites
    <2>3. Handled(c, x, z)
      BY StFields DEF Handled
    <2> HIDE DEF y, z
    <2>4. z \in State
      BY <2>2, RunsState
    <2>5. Runs(c, s, x, Completed \o ircard_dma_write, z)
      BY <1>2, <2>2, RunsBoth
    <2> QED BY <1>4, <2>1, <2>3, <2>4, <2>5
  <1>6. CASE next = "turn"
    <2> DEFINE z == St(0, {"RX", "INTR"}, x.trans, x.mode, b, b, x.irq)
               a == access("TX_CTRL1")
    <2>1. Follow(next) = a \o ircard_receive
      BY <1>6 DEF Follow
    <2>2. Runs(c, s, y, <<>> \o a, y)
      <3>1. Runs(c, s, y, <<>>, y)
        BY <1>3, RunsNothing
      <3> QED BY <1>1, <3>1, Access, PlainRegisters DEF Exempt, Bank0
    <2>3. <<>> \o a = a
      BY DEF access
    <2>4. c \in {"speed", "rxirq"} \/ b = 0
      BY <1>1
    <2>5. Runs(c, s, y, ircard_receive, z)
      BY <1>3, <2>4, Receives
    <2>6. Handled(c, x, z)
      BY StFields DEF Handled
    <2> HIDE DEF y, z, a
    <2>7. z \in State
      BY <2>5, RunsState
    <2>8. Runs(c, s, y, a \o ircard_receive, z)
      BY <2>2, <2>3, <2>5, RunsBoth
    <2>9. Runs(c, s, x, Completed \o (a \o ircard_receive), z)
      BY <1>2, <2>8, RunsBoth
    <2> QED BY <1>4, <2>1, <2>6, <2>7, <2>9
  <1>7. CASE next = "wait"
    <2>1. Follow(next) = <<>>
      BY <1>7 DEF Follow
    <2>2. Handled(c, x, y)
      BY <1>1, StFields DEF Handled
    <2> HIDE DEF y
    <2>3. Runs(c, s, x, Completed \o <<>>, y)
      BY <1>2, <1>3, RunsNothing, RunsBoth
    <2> QED BY <1>3, <1>4, <2>1, <2>2, <2>3
  <1> QED BY <1>5, <1>6, <1>7

LEMMA HandlesReception ==
  ASSUME NEW s, NEW x \in State, NEW overrun \in BOOLEAN
  PROVE  \E z \in State : /\ Runs("rxirq", s, x, ircard_receive_complete(overrun), z)
                          /\ Handled("rxirq", x, z)
  <1> DEFINE c == "rxirq"
             a == access("RX_RING_FRM_PTR")
             f == switch_bank(1) \o a
             g == switch_bank(0) \o outb({"RX_SPEC_BITS"}, "RESET")
             Y(n) == St(n, x.en, x.trans, x.mode, x.receive, x.complete, x.irq)
  <1>0. x = Y(x.bank) /\ Y(x.bank) \in State
    BY StateFields
  <1>1. Runs(c, s, x, f, Y(1))
    <2>1. Runs(c, s, x, <<>>, Y(x.bank))
      BY <1>0, RunsNothing
    <2>2. Runs(c, s, x, <<>> \o switch_bank(1), Y(1))
      BY <2>1, SwitchBank, Small
    <2>3. <<>> \o switch_bank(1) = switch_bank(1)
      BY DEF switch_bank
    <2>4. Runs(c, s, x, switch_bank(1), Y(1))
      BY <2>2, <2>3
    <2> QED BY <2>4, Access, PlainRegisters DEF Bank1
  <1>2. Y(1) \in State
    BY <1>1, RunsState
  <1>3. Runs(c, s, Y(1), g, Y(0))
    <2>1. Runs(c, s, Y(1), <<>>, Y(1))
      BY <1>2, RunsNothing
    <2>2. Runs(c, s, Y(1), <<>> \o switch_bank(0), Y(0))
      BY <2>1, SwitchBank, Small
    <2>3. <<>> \o switch_bank(0) = switch_bank(0)
      BY DEF switch_bank
    <2>4. Runs(c, s, Y(1), switch_bank(0), Y(0))
      BY <2>2, <2>3
    <2> QED BY <2>4, Outb, Written, PlainRegisters DEF Bank0
  <1>4. Y(0) \in State
    BY <1>3, RunsState
  <1>5. Handled(c, x, Y(1)) /\ Handled(c, x, Y(0))
    BY StFields DEF Handled
  <1>6. ircard_receive_complete(overrun) = f \o (IF overrun THEN g ELSE <<>>)
    BY DEF ircard_receive_complete
  <1> HIDE DEF Y, f, g
  <1>7. Runs(c, s, x, f \o g, Y(0))
    BY <1>1, <1>3, RunsBoth
  <1>8. Runs(c, s, x, f \o <<>>, Y(1))
    BY <1>1, <1>2, RunsNothing, RunsBoth
  <1>9. CASE overrun
    BY <1>4, <1>5, <1>6, <1>7, <1>9
  <1>10. CASE ~overrun
    BY <1>2, <1>5, <1>6, <1>8, <1>10
  <1> QED BY <1>9, <1>10

LEMMA Handles ==
  ASSUME NEW c \in {"irq", "rxirq"}, NEW s, NEW x \in State, c = "irq" => x.bank = 0,
         NEW e \in Events, e \in {"rx", "overrun"} => c = "rxirq"
  PROVE  \E z \in State : Runs(c, s, x, Handle(e), z) /\ Handled(c, x, z)
  <1>1. CASE e \in {"more", "turn", "wait"}
    <2>1. Handle(e) = ircard_xmit_complete(e)
      BY <1>1 DEF Handle
    <2> QED BY <1>1, <2>1, HandlesCompletion
  <1>2. CASE e \in {"rx", "overrun"}
    <2>1. c = "rxirq"
      BY <1>2
    <2>2. PICK v \in BOOLEAN : Handle(e) = ircard_receive_complete(v)
      BY <1>2 DEF Handle
    <2> QED BY <2>1, <2>2, HandlesReception
  <1>3. CASE e = "other"
    <2>1. Handle(e) = <<>>
      BY <1>3 DEF Handle
    <2>2. Runs(c, s, x, <<>>, x)
      BY RunsNothing
    <2>3. Handled(c, x, x)
      BY DEF Handled
    <2> QED BY <2>1, <2>2, <2>3
  <1> QED BY <1>1, <1>2, <1>3 DEF Events

(* The transceiver follows the rate, since no rate lies between the two.   *)
ModeAt(s) == IF s >= 4000000 THEN "FIR" ELSE "SIR"

(* The transceiver in state x may be taken from one rate to the other: it  *)
(* is in the mode of the first, or a reset has put it in SIR mode already. *)
Tunable(x, from, to) ==
  /\ Rate(from) /\ Rate(to)
  /\ x.trans = {}
  /\ x.mode = "FIR" => from >= 4000000
  /\ from >= 4000000 => x.mode = "FIR" \/ to <= 1152000

LEMMA Retunes ==
  ASSUME NEW s, NEW x \in State, NEW from, NEW to, Tunable(x, from, to)
  PROVE  \E y \in State :
           /\ Runs("speed", s, x, Transceiver(from, to), y)
           /\ y.trans = {} /\ y.mode = ModeAt(to)
  <1> DEFINE M == ModeAt(to)
             X == St(x.bank, x.en, {}, x.mode, x.receive, x.complete, x.irq)
             Y(m) == St(2, {}, {}, m, x.receive, x.complete, x.irq)
  <1>1. x = X /\ X \in State /\ x.mode \in {"SIR", "FIR"}
    <2>1. x.trans = {}
      BY DEF Tunable
    <2> QED BY <2>1, StateFields
  <1>2. CASE from > 1152000 /\ to < 4000000
    <2>1. Transceiver(from, to) = ircard_fir_to_sir
      BY <1>2 DEF Transceiver
    <2>2. M = "SIR"
      BY <1>2 DEF ModeAt, Tunable, Rate
    <2>3. Runs("speed", s, X, ircard_fir_to_sir, Y("SIR"))
      BY <1>1, FirToSir
    <2>4. Y("SIR") \in State
      BY <2>3, RunsState
    <2>5. Y("SIR").trans = {} /\ Y("SIR").mode = "SIR"
      BY StFields
    <2> QED BY <1>1, <2>1, <2>2, <2>3, <2>4, <2>5
  <1>3. CASE ~(from > 1152000 /\ to < 4000000) /\ from < 4000000 /\ to > 1152000
    <2>1. Transceiver(from, to) = ircard_sir_to_fir
      BY <1>3 DEF Transceiver
    <2>2. M = "FIR"
      BY <1>3 DEF ModeAt, Tunable, Rate
    <2>3. Runs("speed", s, X, ircard_sir_to_fir, Y("FIR"))
      BY <1>1, SirToFir
    <2>4. Y("FIR") \in State
      BY <2>3, RunsState
    <2>5. Y("FIR").trans = {} /\ Y("FIR").mode = "FIR"
      BY StFields
    <2> QED BY <1>1, <2>1, <2>2, <2>3, <2>4, <2>5
  <1>4. CASE ~(from > 1152000 /\ to < 4000000) /\ ~(from < 4000000 /\ to > 1152000)
    <2>1. Transceiver(from, to) = <<>>
      BY <1>4 DEF Transceiver
    <2>2. M = x.mode
      BY <1>1, <1>4 DEF ModeAt, Tunable, Rate
    <2>3. Runs("speed", s, x, <<>>, x)
      BY RunsNothing
    <2>4. x.trans = {}
      BY DEF Tunable
    <2> QED BY <2>1, <2>2, <2>3, <2>4
  <1> QED BY <1>2, <1>3, <1>4

LEMMA ChangesSpeed ==
  ASSUME NEW x \in State, NEW from, NEW to, Tunable(x, from, to)
  PROVE  EndsWell("speed", to, x, change_speed(from, to))
  <1> DEFINE c == "speed"
             M == ModeAt(to)
             p0 == Transceiver(from, to)
             p1 == p0 \o raw_switch_bank(0)
             p2 == p1 \o outb({"0x07"}, "RESET")
             p3 == p2 \o raw_switch_bank(2)
             p4 == p3 \o access("IR_CONF")
  <1>0. PICK w \in State : Runs(c, to, x, p0, w) /\ w.trans = {} /\ w.mode = M
    BY Retunes
  <1> DEFINE Y(b, e) == St(b, e, {}, M, w.receive, w.complete, w.irq)
             z == St(0, {"RX", "INTR"}, {}, M, 2, w.complete, w.irq)
  <1>1. w = Y(w.bank, w.en) /\ Runs(c, to, x, p0, Y(w.bank, w.en))
    <2>1. w = St(w.bank, w.en, w.trans, w.mode, w.receive, w.complete, w.irq)
      BY StateFields
    <2> HIDE DEF M, p0
    <2> QED BY <1>0, <2>1
  <1> HIDE DEF M, p0, p1, p2, p3, p4
  <1>2. Runs(c, to, x, p1, Y(0, {}))
    BY <1>1, RawSwitchBank, Small DEF p1
  <1>3. Runs(c, to, x, p2, Y(0, {}))
    BY <1>2, Outb, Written, PlainRegisters DEF p2, Bank0
  <1>4. Runs(c, to, x, p3, Y(2, {}))
    BY <1>3, RawSwitchBank, Small DEF p3
  <1>5. Runs(c, to, x, p4, Y(2, {}))
    BY <1>4, Access, PlainRegisters, BankOfRegister DEF p4
  <1>6. Y(2, {}) \in State
    BY <1>5, RunsState
  <1>7. change_speed(from, to) = p4 \o (IF IsFir(to) THEN ircard_receive ELSE <<>>)
    BY DEF change_speed, p4, p3, p2, p1, p0
  <1>8. Runs(c, to, Y(2, {}), ircard_receive, z)
    BY <1>6, Receives
  <1>9. z \in State
    BY <1>8, RunsState
  <1>10. M = "FIR" <=> to >= 4000000
    BY DEF M, ModeAt
  <1>11. CASE IsFir(to)
    <2>1. InOrder(c, to, z)
      BY <1>10, StFields DEF InOrder
    <2> HIDE DEF z, Y
    <2>2. Runs(c, to, x, p4 \o ircard_receive, z)
      BY <1>5, <1>8, RunsBoth
    <2> QED BY <1>7, <1>9, <1>11, <2>1, <2>2 DEF EndsWell
  <1>12. CASE ~IsFir(to)
    <2>1. InOrder(c, to, Y(2, {}))
      BY <1>10, <1>12, StFields DEF InOrder
    <2> HIDE DEF z, Y
    <2>2. Runs(c, to, x, p4 \o <<>>, Y(2, {}))
      BY <1>5, <1>6, RunsNothing, RunsBoth
    <2> QED BY <1>6, <1>7, <1>12, <2>1, <2>2 DEF EndsWell
  <1> QED BY <1>11, <1>12

-----------------------------------------------------------------------------
(* The turns of the interrupt loop                                         *)

LEMMA Alone ==
  ASSUME NEW c, NEW s, NEW x \in State, NEW o \in Op, Ok(c, s, x, o)
  PROVE  Runs(c, s, x, <<o>>, After(x, o))
  <1>1. Runs(c, s, x, <<>>, x)
    BY RunsNothing
  <1>2. Runs(c, s, x, <<>> \o <<o>>, After(x, o))
    BY <1>1, RunsThen
  <1>3. <<>> \o <<o>> = <<o>>
    OBVIOUS
  <1> QED BY <1>2, <1>3

(* Restored(x) is x when the handler has restored the bank it saved.       *)
Restored(x) == SetMcr(x, x.irq, x.en)

LEMMA Leaves ==
  ASSUME NEW c, NEW s, NEW x \in State
  PROVE  Runs(c, s, x, LeaveIrq, Restored(x)) /\ Restored(x) \in State
  <1> DEFINE o == [op |-> "restore", from |-> "irq"]
  <1>1. o \in Op
    BY DEF Op, Locals
  <1>2. Ok(c, s, x, o)
    BY DEF Ok
  <1>3. After(x, o) = Restored(x)
    <2>1. After(x, o) = SetMcr(x, Kept(x, "irq"), x.en)
      BY DEF After
    <2> QED BY <2>1 DEF Kept, Restored
  <1>4. LeaveIrq = <<o>>
    BY DEF LeaveIrq, restore_bank
  <1> HIDE DEF o
  <1> QED BY <1>1, <1>2, <1>3, <1>4, Alone, AfterType

LEMMA Loops ==
  ASSUME NEW c \in {"irq", "rxirq"}, NEW s, NEW x \in State, NEW n \in Int,
         c = "irq" => x.bank = 0, InOrder(c, s, Restored(x))
  PROVE  Runs(c, s, x, access("MSR") \o loop(n), Restored(x))
  <1> DEFINE o == [op |-> "loop", left |-> n]
             a == [op |-> "reg", reg |-> "MSR", val |-> {}]
  <1>1. o \in Op
    BY DEF Op
  <1>2. After(x, o) = Restored(x)
    BY DEF After, Restored
  <1>3. Ok(c, s, x, o)
    BY <1>2 DEF Ok
  <1>4. a \in Op
    BY PlainRegisters DEF Op, Bank0
  <1>5. Ok(c, s, x, a)
    BY BankOfRegister DEF Ok, Exempt
  <1>6. After(x, a) = x
    <2>1. After(x, a) = Accessed(x, a)
      BY DEF After
    <2> QED BY <2>1 DEF Accessed
  <1>7. access("MSR") = <<a>> /\ loop(n) = <<o>>
    BY DEF access, loop
  <1> HIDE DEF o, a
  <1>8. Runs(c, s, x, <<a>>, x)
    BY <1>4, <1>5, <1>6, Alone
  <1>9. Runs(c, s, x, <<o>>, Restored(x))
    BY <1>1, <1>2, <1>3, Alone
  <1> QED BY <1>7, <1>8, <1>9, RunsBoth

(* What follows an event leads to the same end as no event would have.     *)
LEMMA Turns ==
  ASSUME NEW c \in {"irq", "rxirq"}, NEW d \in {"irq", "rxirq"}, NEW s, NEW x \in State,
         d = "irq" => c = "irq", c = "irq" => x.bank = 0,
         InOrder(c, s, Restored(x)),
         NEW e \in Events, e \in {"rx", "overrun"} => d = "rxirq",
         NEW n \in Int
  PROVE  EndsWell(d, s, x, Handle(e) \o (IF n = 0 THEN LeaveIrq ELSE access("MSR") \o loop(n)))
  <1>1. PICK z \in State : Runs(d, s, x, Handle(e), z) /\ Handled(d, x, z)
    <2>1. d = "irq" => x.bank = 0
      OBVIOUS
    <2> QED BY <2>1, Handles
  <1>2. InOrder(d, s, Restored(z))
    <2>1. Restored(x) = St(x.irq, x.en, x.trans, x.mode, x.receive, x.complete, x.irq)
      BY DEF Restored, SetMcr
    <2>2. Restored(z) = St(z.irq, z.en, z.trans, z.mode, z.receive, z.complete, z.irq)
      BY DEF Restored, SetMcr
    <2>3. /\ Restored(x).trans = x.trans /\ Restored(x).mode = x.mode
          /\ Restored(x).en = x.en
      BY <2>1, StFields
    <2>4. /\ Restored(z).trans = z.trans /\ Restored(z).mode = z.mode
          /\ Restored(z).en = z.en
          /\ Restored(z).bank = z.irq /\ Restored(z).irq = z.irq
      BY <2>2, StFields
    <2> QED BY <1>1, <2>3, <2>4 DEF Handled, InOrder
  <1>3. d = "irq" => z.bank = 0
    BY <1>1 DEF Handled
  <1>4. Restored(z) \in State /\ Runs(d, s, z, LeaveIrq, Restored(z))
    BY Leaves
  <1>5. Runs(d, s, z, access("MSR") \o loop(n), Restored(z))
    BY <1>2, <1>3, Loops
  <1>6. CASE n = 0
    <2>1. Runs(d, s, x, Handle(e) \o LeaveIrq, Restored(z))
      BY <1>1, <1>4, RunsBoth
    <2> QED BY <1>2, <1>4, <1>6, <2>1 DEF EndsWell
  <1>7. CASE n # 0
    <2>1. Runs(d, s, x, Handle(e) \o (access("MSR") \o loop(n)), Restored(z))
      BY <1>1, <1>5, RunsBoth
    <2> QED BY <1>2, <1>4, <1>7, <2>1 DEF EndsWell
  <1> QED BY <1>6, <1>7

LEMMA Enters ==
  ASSUME NEW s, NEW x \in State, InOrder("xmit", s, x)
  PROVE  EndsWell("irq", s, x, switch_bank_to(0, "irq") \o access("MSR") \o loop(MaxEvents))
  <1> DEFINE y == St(0, x.en, x.trans, x.mode, x.receive, x.complete, x.bank)
             w == switch_bank_to(0, "irq")
  <1>1. x = St(x.bank, x.en, x.trans, x.mode, x.receive, x.complete, x.irq)
    BY StateFields
  <1>2. Runs("irq", s, x, <<>>, x)
    BY RunsNothing
  <1>3. Runs("irq", s, x, <<>> \o w, y)
    BY <1>1, <1>2, SwitchBank_irq, Small
  <1>4. <<>> \o w = w /\ w \in Seq(Op)
    BY <1>3 DEF switch_bank_to, Op, Banks, Locals
  <1>5. Runs("irq", s, x, w, y) /\ y \in State
    BY <1>3, <1>4, RunsState
  <1>6. y.bank = 0
    BY StFields
  <1>7. InOrder("irq", s, Restored(y))
    <2>1. Restored(y) = St(y.irq, y.en, y.trans, y.mode, y.receive, y.complete, y.irq)
      BY DEF Restored, SetMcr
    <2>2. y.trans = x.trans /\ y.mode = x.mode /\ y.en = x.en
      BY StFields
    <2> HIDE DEF y
    <2>3. /\ Restored(y).trans = x.trans /\ Restored(y).mode = x.mode
          /\ Restored(y).en = x.en /\ Restored(y).bank = y.irq /\ Restored(y).irq = y.irq
      BY <2>1, <2>2, StFields
    <2> QED BY <2>3 DEF InOrder
  <1>8. MaxEvents \in Int
    BY RegsAssumption
  <1> DEFINE a == access("MSR")
             l == loop(MaxEvents)
  <1> HIDE DEF y, w
  <1>9. Runs("irq", s, y, a \o l, Restored(y))
    BY <1>5, <1>6, <1>7, <1>8, Loops
  <1>10. Restored(y) \in State
    BY <1>9, RunsState
  <1>11. (w \o a) \o l = w \o (a \o l)
    <2>1. a \in Seq(Op)
      <3>1. "MSR" \in Registers
        BY PlainRegisters DEF Bank0
      <3> QED BY <3>1 DEF access, Op
    <2>2. l \in Seq(Op)
      BY <1>8 DEF loop, Op
    <2> HIDE DEF a, l
    <2> QED BY <1>4, <2>1, <2>2
  <1> HIDE DEF a, l
  <1>12. Runs("irq", s, x, w \o (a \o l), Restored(y))
    BY <1>5, <1>9, RunsBoth
  <1> QED BY <1>7, <1>10, <1>11, <1>12 DEF EndsWell, w, a, l

LEMMA Transmits ==
  ASSUME NEW s, NEW x \in State, InOrder("probe", s, x), NEW first \in BOOLEAN
  PROVE  EndsWell("xmit", s, x, hard_xmit(first))
  <1> DEFINE Y(n, e) == St(n, e, x.trans, x.mode, x.receive, x.complete, x.irq)
             w == switch_bank(0)
  <1>1. x = Y(x.bank, x.en)
    BY StateFields
  <1>2. Runs("xmit", s, x, <<>>, x)
    BY RunsNothing
  <1>3. Runs("xmit", s, x, <<>> \o w, Y(0, x.en))
    BY <1>1, <1>2, SwitchBank, Small
  <1>4. <<>> \o w = w
    BY DEF switch_bank
  <1>5. Runs("xmit", s, x, w, Y(0, x.en)) /\ Y(0, x.en) \in State
    BY <1>3, <1>4, RunsState
  <1>6. Runs("xmit", s, Y(0, x.en), ircard_dma_write, Y(0, {"INTR", "TX"}))
    BY <1>5, DmaWrites
  <1>7. Y(0, {"INTR", "TX"}) \in State
    BY <1>6, RunsState
  <1>8. InOrder("xmit", s, Y(0, x.en)) /\ InOrder("xmit", s, Y(0, {"INTR", "TX"}))
    BY StFields DEF InOrder
  <1> HIDE DEF Y, w
  <1>9. Runs("xmit", s, x, w \o ircard_dma_write, Y(0, {"INTR", "TX"}))
    BY <1>5, <1>6, RunsBoth
  <1>10. Runs("xmit", s, x, w \o <<>>, Y(0, x.en))
    BY <1>5, RunsNothing, RunsBoth
  <1>11. hard_xmit(first) = w \o (IF first THEN ircard_dma_write ELSE <<>>)
    BY DEF hard_xmit, w
  <1>12. CASE first
    BY <1>7, <1>8, <1>9, <1>11, <1>12 DEF EndsWell
  <1>13. CASE ~first
    BY <1>5, <1>8, <1>10, <1>11, <1>13 DEF EndsWell
  <1> QED BY <1>12, <1>13

-----------------------------------------------------------------------------
(* The invariant                                                           *)

(* Between two routines the chip is in order.                              *)
LEMMA AtRest ==
  ASSUME IInv, prog = <<>>
  PROVE  Now \in State /\ InOrder(ctx, speed, Now)
  <1>1. PICK y \in State : Runs(ctx, speed, Now, prog, y) /\ InOrder(ctx, speed, y)
    BY DEF IInv, EndsWell
  <1>2. y = Now
    BY <1>1, RanNothing
  <1> QED BY <1>1, <1>2

LEMMA PowerOn ==
  ASSUME NEW r \in Banks, NEW k \in Banks, NEW q \in Banks
  PROVE  /\ St(0, {}, {}, "SIR", r, k, q) \in State
         /\ EndsWell("probe", 9600, St(0, {}, {}, "SIR", r, k, q), ircard_probe)
  <1>1. St(0, {}, {}, "SIR", r, k, q) \in State
    BY StType, Small
  <1> DEFINE z == St(3, {}, {}, "SIR", r, k, q)
  <1>2. Runs("probe", 9600, St(0, {}, {}, "SIR", r, k, q), ircard_probe, z)
    BY <1>1, Probes
  <1>3. z \in State
    BY <1>2, RunsState
  <1>4. InOrder("probe", 9600, z)
    BY StFields DEF InOrder, IsFir
  <1> HIDE DEF z
  <1> QED BY <1>1, <1>2, <1>3, <1>4 DEF EndsWell

(* What is left of a routine is a program.                                 *)
LEMMA EndsWellProgram ==
  ASSUME NEW c, NEW s, NEW x, NEW p, EndsWell(c, s, x, p)
  PROVE  p \in Seq(Op)
  BY RunsState DEF EndsWell

LEMMA SavedBanks ==
  ASSUME TypeOK
  PROVE  saved["receive"] \in Banks /\ saved["complete"] \in Banks /\ saved["irq"] \in Banks
  BY DEF TypeOK, Locals

LEMMA InitIInv == Init => IInv
  <1> SUFFICES ASSUME Init PROVE IInv
    OBVIOUS
  <1>1. Now = St(0, {}, {}, "SIR", 0, 0, 0)
    BY DEF Init, Now
  <1>2. EndsWell(ctx, speed, Now, prog)
    BY <1>1, PowerOn, Small DEF Init
  <1>3. mcr \in [bank : Banks, en : SUBSET EnBits]
    BY Small DEF Init
  <1>4. saved \in [Locals \union {"no"} -> Banks]
    BY DEF Init, Locals, Banks
  <1>5. ctx \in Contexts /\ Rate(speed) /\ mode \in {"SIR", "FIR"} /\ trans = {}
    BY DEF Init, Contexts, Rate
  <1> QED BY <1>2, <1>3, <1>4, <1>5, EndsWellProgram DEF IInv, TypeOK

LEMMA SpeedsRate == Rate(9600) /\ \A s \in Speeds : Rate(s)
  BY RegsAssumption, RatesAssumption DEF Rate

(* An operation of the running program.                                    *)
LEMMA Operation ==
  ASSUME IInv, prog # <<>>, prog' = Tail(prog), UNCHANGED <<speed, ctx>>,
         TypeOK', Now' = After(Now, Head(prog))
  PROVE  EndsWell(ctx, speed, Now, prog)'
  <1>1. PICK y \in State : Runs(ctx, speed, Now, prog, y) /\ InOrder(ctx, speed, y)
    BY DEF IInv, EndsWell
  <1>2. Runs(ctx, speed, After(Now, Head(prog)), Tail(prog), y)
    BY <1>1, RunsFirst
  <1>3. EndsWell(ctx, speed, After(Now, Head(prog)), Tail(prog))
    BY <1>1, <1>2 DEF EndsWell
  <1> QED BY <1>3

(* The first operation of what is left, and what must hold for it.         *)
LEMMA FirstOperation ==
  ASSUME IInv, prog # <<>>
  PROVE  Head(prog) \in Op /\ Tail(prog) \in Seq(Op) /\ Ok(ctx, speed, Now, Head(prog))
  <1>1. PICK y \in State : Runs(ctx, speed, Now, prog, y)
    BY DEF IInv, EndsWell
  <1> QED BY <1>1, RunsFirst

LEMMA NowFields ==
  /\ Now.bank = mcr.bank /\ Now.en = mcr.en /\ Now.trans = trans /\ Now.mode = mode
  /\ Now.receive = saved["receive"] /\ Now.complete = saved["complete"]
  /\ Now.irq = saved["irq"]
  BY StFields DEF Now

LEMMA KeptSaved ==
  ASSUME NEW v \in Locals
  PROVE  Kept(Now, v) = saved[v]
  BY NowFields DEF Kept, Locals

LEMMA Starts ==
  ASSUME TypeOK, IInv, NEW c \in Contexts, NEW p, Start(c, p)
  PROVE  ctx' = c /\ prog' = p /\ Now \in State
         /\ InOrder("probe", speed, Now) /\ InOrder("xmit", speed, Now)
  BY AtRest DEF Start, InOrder

LEMMA IInvStep ==
  ASSUME IInv, [Next]_vars
  PROVE  IInv'
  <1> USE DEF IInv
  <1> SUFFICES TypeOK' /\ EndsWell(ctx, speed, Now, prog)'
    OBVIOUS
  <1>1. CASE ircard_config
    <2>1. Now' = St(0, {}, {}, "SIR", saved["receive"], saved["complete"], saved["irq"])
      BY <1>1 DEF ircard_config, Now
    <2>2. ctx' = "probe" /\ speed' = 9600 /\ prog' = ircard_probe
      BY <1>1 DEF ircard_config, Start
    <2>3. EndsWell(ctx, speed, Now, prog)'
      BY <2>1, <2>2, SavedBanks, PowerOn
    <2>4. TypeOK'
      BY <1>1, <2>2, <2>3, EndsWellProgram, SpeedsRate, Small DEF ircard_config, TypeOK, Contexts
    <2> QED BY <2>3, <2>4
  <1>2. CASE CardReset
    <2>1. Now' = St(0, {}, {}, "SIR", saved["receive"], saved["complete"], saved["irq"])
      BY <1>2 DEF CardReset, Now
    <2>2. ctx' = "speed" /\ speed' = 9600 /\ prog' = change_speed(speed, 9600)
      BY <1>2 DEF CardReset, Start
    <2>3. Now' \in State
      BY <2>1, SavedBanks, PowerOn
    <2>4. (Now').trans = {} /\ (Now').mode = "SIR"
      BY <2>1, StFields
    <2>5. PICK x \in State : x = Now'
      BY <2>3
    <2>6. Tunable(x, speed, 9600)
      BY <2>4, <2>5, SpeedsRate DEF Tunable, TypeOK
    <2>7. EndsWell("speed", 9600, x, change_speed(speed, 9600))
      BY <2>6, ChangesSpeed
    <2>8. EndsWell(ctx, speed, Now, prog)'
      BY <2>2, <2>5, <2>7
    <2>9. TypeOK'
      BY <1>2, <2>2, <2>8, EndsWellProgram, SpeedsRate, Small DEF CardReset, TypeOK, Contexts
    <2> QED BY <2>8, <2>9
  <1>3. ASSUME NEW s \in Speeds, ircard_change_speed(s)
        PROVE  TypeOK' /\ EndsWell(ctx, speed, Now, prog)'
    <2>1. Now' = Now
      BY <1>3 DEF ircard_change_speed, Now
    <2>2. ctx' = "speed" /\ speed' = s /\ prog' = change_speed(speed, s)
      BY <1>3 DEF ircard_change_speed, Start
    <2>3. Now \in State /\ InOrder(ctx, speed, Now)
      BY <1>3, AtRest DEF ircard_change_speed, Start
    <2>4. Tunable(Now, speed, s)
      BY <2>3, SpeedsRate DEF Tunable, InOrder, TypeOK
    <2>5. EndsWell("speed", s, Now, change_speed(speed, s))
      BY <2>3, <2>4, ChangesSpeed
    <2>6. EndsWell(ctx, speed, Now, prog)'
      BY <2>1, <2>2, <2>5
    <2>7. TypeOK'
      BY <1>3, <2>2, <2>6, EndsWellProgram, SpeedsRate
      DEF ircard_change_speed, TypeOK, Contexts
    <2> QED BY <2>6, <2>7
  <1>4. ASSUME NEW first \in BOOLEAN, ircard_hard_xmit(first)
        PROVE  TypeOK' /\ EndsWell(ctx, speed, Now, prog)'
    <2>1. Now' = Now /\ speed' = speed
      BY <1>4 DEF ircard_hard_xmit, Now
    <2>2. ctx' = "xmit" /\ prog' = hard_xmit(first)
          /\ Now \in State /\ InOrder("probe", speed, Now)
      BY <1>4, Starts DEF ircard_hard_xmit, Contexts
    <2>3. EndsWell("xmit", speed, Now, hard_xmit(first))
      BY <2>2, Transmits
    <2>4. EndsWell(ctx, speed, Now, prog)'
      BY <2>1, <2>2, <2>3
    <2>5. TypeOK'
      BY <1>4, <2>1, <2>2, <2>4, EndsWellProgram DEF ircard_hard_xmit, TypeOK, Contexts
    <2> QED BY <2>4, <2>5
  <1>5. CASE ircard_interrupt
    <2> DEFINE p == switch_bank_to(0, "irq") \o access("MSR") \o loop(MaxEvents)
    <2>1. Now' = Now /\ speed' = speed
      BY <1>5 DEF ircard_interrupt, Now
    <2>2. Start("irq", p)
      BY <1>5 DEF ircard_interrupt
    <2> HIDE DEF p
    <2>3. ctx' = "irq" /\ prog' = p /\ Now \in State /\ InOrder("xmit", speed, Now)
      BY <2>2, Starts DEF Contexts
    <2>4. EndsWell("irq", speed, Now, p)
      BY <2>3, Enters DEF p
    <2>5. EndsWell(ctx, speed, Now, prog)'
      BY <2>1, <2>3, <2>4
    <2>6. TypeOK'
      BY <1>5, <2>1, <2>3, <2>5, EndsWellProgram DEF ircard_interrupt, TypeOK, Contexts
    <2> QED BY <2>5, <2>6
  <1>6. ASSUME NEW e \in Events, IrqEvent(e)
        PROVE  TypeOK' /\ EndsWell(ctx, speed, Now, prog)'
    <2> DEFINE n == Head(prog).left - 1
               p == Handle(e) \o (IF n = 0 THEN LeaveIrq ELSE access("MSR") \o loop(n))
    <2>1. Now' = Now /\ speed' = speed /\ UNCHANGED <<mcr, trans, mode, saved>>
      BY <1>6 DEF IrqEvent, Now
    <2>2. prog # <<>> /\ Head(prog).op = "loop"
      BY <1>6 DEF IrqEvent, Running
    <2>3. prog' = p /\ ctx' = IF e \in {"rx", "overrun"} THEN "rxirq" ELSE ctx
      BY <1>6 DEF IrqEvent
    <2>4. Head(prog) \in Op /\ Ok(ctx, speed, Now, Head(prog))
      BY <2>2, FirstOperation
    <2>5. n \in Int
      BY <2>2, <2>4, OpFields
    <2>6. Now \in State
      BY NowType
    <2>7. After(Now, Head(prog)) = Restored(Now)
      BY <2>2 DEF After, Restored
    <2>8. /\ ctx \in {"irq", "rxirq"}
          /\ ctx = "irq" => Now.bank = 0
          /\ InOrder(ctx, speed, Restored(Now))
      BY <2>2, <2>4, <2>7 DEF Ok
    <2> HIDE DEF n
    <2>9. PICK d \in {"irq", "rxirq"} : d = ctx'
      BY <2>3, <2>8
    <2>10. (d = "irq" => ctx = "irq") /\ (e \in {"rx", "overrun"} => d = "rxirq")
      BY <2>3, <2>8, <2>9
    <2>11. EndsWell(d, speed, Now, p)
      BY <2>5, <2>6, <2>8, <2>10, Turns
    <2> HIDE DEF p
    <2>12. EndsWell(ctx, speed, Now, prog)'
      BY <2>1, <2>3, <2>9, <2>11
    <2>13. TypeOK'
      BY <2>1, <2>9, <2>12, EndsWellProgram DEF TypeOK, Contexts
    <2> QED BY <2>12, <2>13
  <1>7. CASE IrqDone
    <2>1. Now' = Now /\ UNCHANGED <<speed, ctx, mcr, trans, mode, saved>>
      BY <1>7 DEF IrqDone, Now
    <2>2. prog # <<>> /\ Head(prog).op = "loop" /\ prog' = LeaveIrq
      BY <1>7 DEF IrqDone, Running
    <2>3. Ok(ctx, speed, Now, Head(prog))
      BY <2>2, FirstOperation
    <2>4. After(Now, Head(prog)) = Restored(Now)
      BY <2>2 DEF After, Restored
    <2>5. InOrder(ctx, speed, Restored(Now))
      BY <2>2, <2>3, <2>4 DEF Ok
    <2>6. Restored(Now) \in State /\ Runs(ctx, speed, Now, LeaveIrq, Restored(Now))
      BY NowType, Leaves
    <2>7. EndsWell(ctx, speed, Now, LeaveIrq)
      BY <2>5, <2>6 DEF EndsWell
    <2>8. EndsWell(ctx, speed, Now, prog)'
      BY <2>1, <2>2, <2>7
    <2>9. TypeOK'
      BY <2>1, <2>8, EndsWellProgram DEF TypeOK
    <2> QED BY <2>8, <2>9
  <1> DEFINE o == Head(prog)
  <1>8. CASE DoSwitch
    <2>1. prog # <<>> /\ o.op = "switch" /\ prog' = Tail(prog) /\ UNCHANGED <<speed, ctx>>
      BY <1>8 DEF DoSwitch, Running, Step
    <2>2. o \in Op /\ Tail(prog) \in Seq(Op)
      BY <2>1, FirstOperation
    <2>3. o.bank \in Banks /\ o.save \in Locals \union {"no"}
      BY <2>1, <2>2, OpFields
    <2> HIDE DEF o
    <2>4. /\ saved' = [saved EXCEPT ![o.save] = mcr.bank]
          /\ mcr' = [mcr EXCEPT !.bank = o.bank]
          /\ UNCHANGED <<trans, mode>>
      BY <1>8 DEF DoSwitch, o
    <2>5. mcr' \in [bank : Banks, en : SUBSET EnBits] /\ mcr'.bank = o.bank /\ mcr'.en = mcr.en
      BY <2>3, <2>4 DEF TypeOK
    <2>6. mcr.bank \in Banks
      BY DEF TypeOK
    <2>7. saved' \in [Locals \union {"no"} -> Banks]
      BY <2>3, <2>4, <2>6 DEF TypeOK
    <2>8. TypeOK'
      BY <2>1, <2>2, <2>4, <2>5, <2>7 DEF TypeOK
    <2>9. /\ saved'["receive"] = IF o.save = "receive" THEN mcr.bank ELSE saved["receive"]
          /\ saved'["complete"] = IF o.save = "complete" THEN mcr.bank ELSE saved["complete"]
          /\ saved'["irq"] = IF o.save = "irq" THEN mcr.bank ELSE saved["irq"]
      BY <2>3, <2>4 DEF TypeOK, Locals
    <2>10. Now' = St(mcr'.bank, mcr'.en, trans', mode',
                     saved'["receive"], saved'["complete"], saved'["irq"])
      BY DEF Now
    <2>11. After(Now, o) = Switched(Now, o)
      BY <2>1 DEF After, o
    <2>12. Now' = After(Now, o)
      BY <2>4, <2>5, <2>9, <2>10, <2>11, NowFields DEF Switched
    <2> QED BY <2>1, <2>8, <2>12, Operation DEF o
  <1>9. ASSUME NEW b \in Banks, NEW e \in SUBSET EnBits,
               prog # <<>>, prog' = Tail(prog), UNCHANGED <<speed, ctx>>,
               mcr' = [bank |-> b, en |-> e], UNCHANGED <<trans, mode, saved>>,
               After(Now, o) = SetMcr(Now, b, e)
        PROVE  TypeOK' /\ EndsWell(ctx, speed, Now, prog)'
    <2>1. Tail(prog) \in Seq(Op)
      BY <1>9, FirstOperation
    <2>2. TypeOK'
      BY <1>9, <2>1 DEF TypeOK
    <2>3. Now' = SetMcr(Now, b, e)
      BY <1>9, NowFields DEF Now, SetMcr
    <2> QED BY <1>9, <2>2, <2>3, Operation
  <1>10. CASE DoRestore
    <2>1. prog # <<>> /\ o.op = "restore" /\ prog' = Tail(prog) /\ UNCHANGED <<speed, ctx>>
          /\ UNCHANGED <<trans, mode, saved>>
      BY <1>10 DEF DoRestore, Running, Step
    <2>2. o \in Op /\ o.from \in Locals
      BY <2>1, FirstOperation, OpFields
    <2>3. saved[o.from] \in Banks /\ Kept(Now, o.from) = saved[o.from]
      BY <2>2, KeptSaved DEF TypeOK
    <2>4. mcr' = [bank |-> saved[o.from], en |-> mcr.en] /\ mcr.en \in SUBSET EnBits
      BY <1>10 DEF DoRestore, TypeOK
    <2>5. After(Now, o) = SetMcr(Now, saved[o.from], mcr.en)
      BY <2>1, <2>3, NowFields DEF After
    <2> QED BY <1>9, <2>1, <2>3, <2>4, <2>5
  <1>11. CASE DoMcr
    <2>1. prog # <<>> /\ o.op = "mcr" /\ prog' = Tail(prog) /\ UNCHANGED <<speed, ctx>>
          /\ UNCHANGED <<trans, mode, saved>> /\ mcr' = [bank |-> o.bank, en |-> o.en]
      BY <1>11 DEF DoMcr, Running, Step
    <2>2. o.bank \in Banks /\ o.en \in SUBSET EnBits
      BY <2>1, FirstOperation, OpFields
    <2>3. After(Now, o) = SetMcr(Now, o.bank, o.en)
      BY <2>1 DEF After
    <2> QED BY <1>9, <2>1, <2>2, <2>3
  <1>12. CASE DoMcrSaved
    <2>1. prog # <<>> /\ o.op = "mcrSaved" /\ prog' = Tail(prog) /\ UNCHANGED <<speed, ctx>>
          /\ UNCHANGED <<trans, mode, saved>> /\ mcr' = [bank |-> saved[o.from], en |-> o.en]
      BY <1>12 DEF DoMcrSaved, Running, Step
    <2>2. o.from \in Locals /\ o.en \in SUBSET EnBits
      BY <2>1, FirstOperation, OpFields
    <2>3. saved[o.from] \in Banks /\ Kept(Now, o.from) = saved[o.from]
      BY <2>2, KeptSaved DEF TypeOK
    <2>4. After(Now, o) = SetMcr(Now, saved[o.from], o.en)
      BY <2>1, <2>3 DEF After
    <2> QED BY <1>9, <2>1, <2>2, <2>3, <2>4
  <1>13. CASE DoRegister
    <2>1. prog # <<>> /\ o.op = "reg" /\ prog' = Tail(prog) /\ UNCHANGED <<speed, ctx>>
          /\ UNCHANGED <<mcr, saved>>
      BY <1>13 DEF DoRegister, Running, Step
    <2>2. o \in Op /\ Tail(prog) \in Seq(Op)
      BY <2>1, FirstOperation
    <2>3. o.val \in SUBSET (Values \union Commands)
      BY <2>1, <2>2, OpFields
    <2>4. /\ trans' = IF o.reg = "IR_TRANS_CTRL" /\ mcr.bank = BankOf(o.reg)
                      THEN o.val ELSE trans
          /\ mode' = Latched(trans, trans', mode)
      BY <1>13 DEF DoRegister, Latched
    <2> HIDE DEF o
    <2>5. trans' \in SUBSET (Values \union Commands)
      BY <2>3, <2>4 DEF TypeOK
    <2>6. mode' \in {"SIR", "FIR"}
      BY <2>4 DEF Latched, TypeOK
    <2>7. TypeOK'
      BY <2>1, <2>2, <2>5, <2>6 DEF TypeOK
    <2>8. After(Now, o) = Accessed(Now, o)
      BY <2>1 DEF After, o
    <2>9. Now' = St(mcr.bank, mcr.en, trans', mode',
                    saved["receive"], saved["complete"], saved["irq"])
      BY <2>1 DEF Now
    <2>10. CASE o.reg = "IR_TRANS_CTRL" /\ mcr.bank = BankOf(o.reg)
      <3>1. trans' = o.val /\ mode' = Latched(trans, o.val, mode)
        BY <2>4, <2>10
      <3>2. Accessed(Now, o) = St(mcr.bank, mcr.en, o.val, Latched(trans, o.val, mode),
                                  saved["receive"], saved["complete"], saved["irq"])
        BY <2>10, NowFields DEF Accessed
      <3> QED BY <2>1, <2>7, <2>8, <2>9, <3>1, <3>2, Operation DEF o
    <2>11. CASE ~(o.reg = "IR_TRANS_CTRL" /\ mcr.bank = BankOf(o.reg))
      <3>1. trans' = trans /\ mode' = mode
        BY <2>4, <2>11 DEF Latched
      <3>2. Accessed(Now, o) = Now
        BY <2>11, NowFields DEF Accessed
      <3>3. Now' = Now
        BY <2>9, <3>1 DEF Now
      <3> QED BY <2>1, <2>7, <2>8, <3>2, <3>3, Operation DEF o
    <2> QED BY <2>10, <2>11
  <1>14. CASE UNCHANGED vars
    <2>1. Now' = Now
      BY <1>14 DEF vars, Now
    <2> QED BY <1>14, <2>1 DEF vars, TypeOK
  <1> QED
    BY <1>1, <1>2, <1>3, <1>4, <1>5, <1>6, <1>7, <1>8, <1>10, <1>11, <1>12, <1>13, <1>14
    DEF Next

(* The registers are in order between two routines, and while one runs     *)
(* what is left of it accesses each in its bank and ends in order.         *)
THEOREM Inductive == Spec => []IInv
  BY InitIInv, IInvStep, PTL DEF Spec

(* Every register is accessed with its bank selected, in every sequence of *)
(* routines: of the exceptions AccessInBank names there are no others.     *)
THEOREM EveryAccessInBank == Spec => []AccessInBank
  <1>1. IInv => AccessInBank
    <2> SUFFICES ASSUME IInv, ctx # "rxirq", NEW r \in Registers,
                        ~(r = "RESET" /\ ctx = "speed"), Running("reg"), Head(prog).reg = r
                 PROVE  mcr.bank = BankOf(r)
      BY DEF AccessInBank, InBank
    <2>1. prog # <<>> /\ Head(prog).op = "reg"
      BY DEF Running
    <2>2. Ok(ctx, speed, Now, Head(prog))
      BY <2>1, FirstOperation
    <2>3. Now.bank = BankOf(r)
      BY <2>1, <2>2 DEF Ok, Exempt
    <2> QED BY <2>3, NowFields
  <1> QED BY <1>1, Inductive, PTL

(* The interrupt handler returns with the bank it found.                   *)
THEOREM HandlerRestoresBank == Spec => []BankRestored
  <1>1. IInv => BankRestored
    BY AtRest, NowFields DEF BankRestored, InOrder
  <1> QED BY <1>1, Inductive, PTL

(* At FIR speed every routine leaves interrupts enabled.                   *)
THEOREM InterruptsStayEnabled == Spec => []InterruptsSurvive
  <1>1. IInv => InterruptsSurvive
    BY AtRest, NowFields DEF InterruptsSurvive, InOrder
  <1> QED BY <1>1, Inductive, PTL

(* The transceiver is on and in the mode of the rate, whatever rates it    *)
(* went through, if none lies between 1152000 and 4000000.                 *)
THEOREM TransceiverInMode == Spec => []TransceiverFollowsSpeed
  <1>1. IInv => TransceiverFollowsSpeed
    BY AtRest, NowFields DEF TransceiverFollowsSpeed, InOrder
  <1> QED BY <1>1, Inductive, PTL
=============================================================================
