-------------------------- MODULE RelayMsgs_proofs --------------------------
(***************************************************************************)
(* RelayMsgs.Send keeps identifiers, order and completeness for messages   *)
(* of every number and size, every limit and every pattern of failures.    *)
(***************************************************************************)
EXTENDS RelayMsgs, TLAPS

\* Messages of side s that were submitted: a first part of its messages.
Count(s) == IF side = s THEN maxTxCount
            ELSE IF s = "Src" \/ side = "done" THEN Len(r[s]) ELSE 0

\* The calls of side s submitted messages 1..c, each once and in order, and no
\* other message of s has an identifier.
Submitted(s, c) ==
    /\ \A k \in Calls(s) : \A p \in DOMAIN txs[s][k].msgs : txs[s][k].msgs[p] \in 1..c
    /\ \A i \in 1..c : \E k \in Calls(s) : \E p \in DOMAIN txs[s][k].msgs : txs[s][k].msgs[p] = i
    /\ \A i \in DOMAIN ids[s] : i > c => ids[s][i] = NoID

IdsOf(s) ==
    \A i \in DOMAIN ids[s] :
        /\ ids[s][i] # NoID =>
               /\ ids[s][i].tx \in Calls(s)
               /\ txs[s][ids[s][i].tx].ok
               /\ ids[s][i].index \in DOMAIN txs[s][ids[s][i].tx].msgs
               /\ txs[s][ids[s][i].tx].msgs[ids[s][i].index] = i
        /\ \A k \in Calls(s) : \A p \in DOMAIN txs[s][k].msgs :
               txs[s][k].msgs[p] = i /\ txs[s][k].ok => ids[s][i] = [tx |-> k, index |-> p]

OrderOf(s) ==
    \A k, l \in Calls(s) :
        \A p \in DOMAIN txs[s][k].msgs, q \in DOMAIN txs[s][l].msgs :
            k < l \/ (k = l /\ p < q) => txs[s][k].msgs[p] < txs[s][l].msgs[q]

SideInv(s, c) == Submitted(s, c) /\ IdsOf(s) /\ OrderOf(s)

\* The batch is the run of messages after the submitted ones.
BatchInv ==
    side \in Sides =>
        /\ next = maxTxCount + Len(msgs) + 1
        /\ next <= Len(r[side]) + 1
        /\ \A p \in DOMAIN msgs : msgs[p] = maxTxCount + p

SuccessInv == succeeded <=> \A s \in Sides : \A k \in Calls(s) : txs[s][k].ok

Inv ==
    /\ TypeOK
    /\ BatchInv
    /\ SuccessInv
    /\ \A s \in Sides : SideInv(s, Count(s))

-----------------------------------------------------------------------------
\* Types of what a call of SendMsgs changes.
LEMMA SendMsgsType ==
    ASSUME TypeOK, side \in Sides, NEW ok \in BOOLEAN, SendMsgs(ok), r' = r
    PROVE  /\ txs' \in [Sides -> Seq([msgs : Seq(Nat), ok : BOOLEAN])]
           /\ \A s \in Sides : ids'[s] \in [DOMAIN r[s] -> [tx : Nat, index : Nat]]
           /\ succeeded' \in BOOLEAN
           /\ DOMAIN ids' = Sides
<1>1. txs' \in [Sides -> Seq([msgs : Seq(Nat), ok : BOOLEAN])]
  BY DEF TypeOK, SendMsgs
<1>2. succeeded' \in BOOLEAN
  BY DEF TypeOK, SendMsgs
<1>3. ASSUME NEW s \in Sides
      PROVE  ids'[s] \in [DOMAIN r[s] -> [tx : Nat, index : Nat]]
  <2>1. CASE ~ok \/ s # side
    BY <2>1 DEF TypeOK, SendMsgs
  <2>2. CASE ok /\ s = side
    <3>1. maxTxCount \in Nat /\ Len(msgs) \in Nat /\ Len(txs[side]) \in Nat
      BY DEF TypeOK
    <3> QED BY <2>2, <3>1 DEF TypeOK, SendMsgs
  <2> QED BY <2>1, <2>2
<1>4. DOMAIN ids' = Sides
  BY DEF TypeOK, SendMsgs
<1> QED BY <1>1, <1>2, <1>3, <1>4

\* What a call of SendMsgs does to the history of its side.
LEMMA SendMsgsCalls ==
    ASSUME TypeOK, side \in Sides, NEW ok \in BOOLEAN, SendMsgs(ok)
    PROVE  /\ txs'[side] = Append(txs[side], [msgs |-> msgs, ok |-> ok])
           /\ DOMAIN txs'[side] = 1..(Len(txs[side]) + 1)
           /\ DOMAIN txs[side] = 1..Len(txs[side])
           /\ Len(txs[side]) \in Nat
           /\ \A k \in 1..Len(txs[side]) : txs'[side][k] = txs[side][k]
           /\ txs'[side][Len(txs[side]) + 1] = [msgs |-> msgs, ok |-> ok]
           /\ DOMAIN msgs = 1..Len(msgs) /\ Len(msgs) \in Nat
           /\ \A s \in Sides : s # side => txs'[s] = txs[s] /\ ids'[s] = ids[s]
<1>1. txs \in [Sides -> Seq([msgs : Seq(Nat), ok : BOOLEAN])]
  BY DEF TypeOK
<1>2. txs[side] \in Seq([msgs : Seq(Nat), ok : BOOLEAN])
  BY <1>1
<1>3. txs' = [txs EXCEPT ![side] = Append(@, [msgs |-> msgs, ok |-> ok])]
  BY DEF SendMsgs
<1>4. txs'[side] = Append(txs[side], [msgs |-> msgs, ok |-> ok])
  BY <1>1, <1>3
<1>5. [msgs |-> msgs, ok |-> ok] \in [msgs : Seq(Nat), ok : BOOLEAN]
  BY DEF TypeOK
<1>6. \A s \in Sides : s # side => txs'[s] = txs[s] /\ ids'[s] = ids[s]
  <2> TAKE s \in Sides
  <2> HAVE s # side
  <2>1. txs'[s] = txs[s]
    BY <1>1, <1>3
  <2>2. ids'[s] = ids[s]
    BY DEF SendMsgs
  <2> QED BY <2>1, <2>2
<1>7. DOMAIN msgs = 1..Len(msgs) /\ Len(msgs) \in Nat
  BY DEF TypeOK
<1> QED BY <1>2, <1>4, <1>5, <1>6, <1>7

\* The identifiers after a call of SendMsgs.
LEMMA SendMsgsIds ==
    ASSUME TypeOK, side \in Sides, NEW ok \in BOOLEAN, SendMsgs(ok)
    PROVE  /\ DOMAIN ids'[side] = DOMAIN ids[side]
           /\ DOMAIN ids[side] = 1..Len(r[side])
           /\ ~ok => ids'[side] = ids[side]
           /\ ok => \A i \in DOMAIN ids[side] :
                  ids'[side][i] = IF i - maxTxCount \in 1..Len(msgs)
                                  THEN [tx |-> Len(txs[side]) + 1, index |-> i - maxTxCount]
                                  ELSE ids[side][i]
<1>1. ids[side] \in [DOMAIN r[side] -> [tx : Nat, index : Nat]]
  BY DEF TypeOK
<1>2. DOMAIN r[side] = 1..Len(r[side])
  BY DEF TypeOK, Sides
<1>3. CASE ok
  <2>1. ids' = [ids EXCEPT ![side] = [i \in DOMAIN @ |->
                    IF i - maxTxCount \in 1..Len(msgs)
                    THEN [tx |-> Len(txs[side]) + 1, index |-> i - maxTxCount] ELSE @[i]]]
    BY <1>3 DEF SendMsgs
  <2>2. side \in DOMAIN ids
    BY DEF TypeOK
  <2> QED BY <1>1, <1>2, <1>3, <2>1, <2>2
<1>4. CASE ~ok
  BY <1>1, <1>2, <1>4 DEF SendMsgs
<1> QED BY <1>3, <1>4

\* The other sides keep what they have.
LEMMA SideInvFrame ==
    ASSUME NEW s, NEW c, txs'[s] = txs[s], ids'[s] = ids[s], SideInv(s, c)
    PROVE  SideInv(s, c)'
<1>1. Submitted(s, c)'
  BY DEF SideInv, Submitted, Calls
<1>2. IdsOf(s)'
  BY DEF SideInv, IdsOf, Calls
<1>3. OrderOf(s)'
  BY DEF SideInv, OrderOf, Calls
<1> QED BY <1>1, <1>2, <1>3 DEF SideInv

\* The count of a primed invariant may be taken for a constant.
LEMMA CountFrame ==
    ASSUME NEW s, NEW c, Count(s)' = c, SideInv(s, c)'
    PROVE  SideInv(s, Count(s))'
BY DEF SideInv, Submitted, IdsOf, OrderOf, Calls

\* A side that does not change.
LEMMA SideFrame ==
    ASSUME NEW s, Count(s)' = Count(s), txs'[s] = txs[s], ids'[s] = ids[s], SideInv(s, Count(s))
    PROVE  SideInv(s, Count(s))'
<1>1. PICK c : c = Count(s)
  OBVIOUS
<1>2. SideInv(s, c)'
  BY <1>1, SideInvFrame
<1> QED BY <1>1, <1>2, CountFrame

\* A call of SendMsgs with the batch extends what was submitted by the batch.
LEMMA SendMsgsSide ==
    ASSUME TypeOK, BatchInv, NEW s \in Sides, NEW c, side = s, c = maxTxCount + Len(msgs),
           SideInv(s, maxTxCount), NEW ok \in BOOLEAN, SendMsgs(ok)
    PROVE  SideInv(s, c)'
<1> DEFINE n == Len(txs[s])
<1>1. /\ n \in Nat
      /\ DOMAIN txs[s] = 1..n
      /\ DOMAIN txs'[s] = 1..(n + 1)
      /\ \A k \in 1..n : txs'[s][k] = txs[s][k]
      /\ txs'[s][n + 1].msgs = msgs
      /\ txs'[s][n + 1].ok = ok
      /\ DOMAIN msgs = 1..Len(msgs) /\ Len(msgs) \in Nat
  <2>1. txs'[s][n + 1] = [msgs |-> msgs, ok |-> ok]
    BY SendMsgsCalls
  <2>2. txs'[s][n + 1].msgs = msgs /\ txs'[s][n + 1].ok = ok
    BY <2>1
  <2>3. /\ n \in Nat
        /\ DOMAIN txs[s] = 1..n
        /\ DOMAIN txs'[s] = 1..(n + 1)
        /\ \A k \in 1..n : txs'[s][k] = txs[s][k]
        /\ DOMAIN msgs = 1..Len(msgs) /\ Len(msgs) \in Nat
    BY SendMsgsCalls
  <2> QED BY <2>2, <2>3
<1>2. /\ DOMAIN ids'[s] = DOMAIN ids[s]
      /\ DOMAIN ids[s] = 1..Len(r[s])
      /\ ~ok => ids'[s] = ids[s]
      /\ ok => \A i \in DOMAIN ids[s] :
             ids'[s][i] = IF i - maxTxCount \in 1..Len(msgs)
                          THEN [tx |-> n + 1, index |-> i - maxTxCount]
                          ELSE ids[s][i]
  BY SendMsgsIds
<1>3. \A p \in DOMAIN msgs : msgs[p] = maxTxCount + p
  BY DEF BatchInv
<1>4. maxTxCount \in Nat /\ Len(r[s]) \in Nat
  BY DEF TypeOK, Sides
<1>5. /\ \A k \in 1..n : \A p \in DOMAIN txs[s][k].msgs : txs[s][k].msgs[p] \in 1..maxTxCount
      /\ \A i \in 1..maxTxCount : \E k \in 1..n : \E p \in DOMAIN txs[s][k].msgs : txs[s][k].msgs[p] = i
      /\ \A i \in DOMAIN ids[s] : i > maxTxCount => ids[s][i] = NoID
  BY <1>1 DEF SideInv, Submitted, Calls
<1>6. \A k \in 1..n : DOMAIN txs[s][k].msgs \subseteq Nat
  <2> TAKE k \in 1..n
  <2>1. txs[s] \in Seq([msgs : Seq(Nat), ok : BOOLEAN])
    BY DEF TypeOK
  <2>2. txs[s][k] \in [msgs : Seq(Nat), ok : BOOLEAN]
    <3> DEFINE T == [msgs : Seq(Nat), ok : BOOLEAN]
               q == txs[s]
    <3>1. q \in Seq(T) /\ k \in 1..Len(q)
      BY <2>1
    <3> HIDE DEF T, q
    <3>2. q[k] \in T
      BY <3>1
    <3> QED BY <3>2 DEF T, q
  <2>3. txs[s][k].msgs \in Seq(Nat)
    BY <2>2
  <2> QED BY <2>3
<1> HIDE DEF n
<1>7. Submitted(s, c)'
  <2>1. ASSUME NEW k \in 1..(n + 1), NEW p \in DOMAIN txs'[s][k].msgs
        PROVE  txs'[s][k].msgs[p] \in 1..c
    <3>1. CASE k \in 1..n
      <4>1. txs'[s][k].msgs[p] \in 1..maxTxCount
        BY <1>1, <1>5, <3>1
      <4> QED BY <1>1, <1>4, <4>1
    <3>2. CASE k = n + 1
      <4>1. txs'[s][k].msgs = msgs
        BY <1>1, <3>2
      <4>2. p \in 1..Len(msgs) /\ msgs[p] = maxTxCount + p
        BY <1>1, <1>3, <2>1, <4>1
      <4> QED BY <1>1, <1>4, <4>1, <4>2
    <3> QED BY <1>1, <2>1, <3>1, <3>2
  <2>2. ASSUME NEW i \in 1..c
        PROVE  \E k \in 1..(n + 1) : \E p \in DOMAIN txs'[s][k].msgs : txs'[s][k].msgs[p] = i
    <3>1. CASE i \in 1..maxTxCount
      <4>1. PICK k \in 1..n : \E p \in DOMAIN txs[s][k].msgs : txs[s][k].msgs[p] = i
        BY <1>5, <3>1
      <4>2. k \in 1..(n + 1) /\ txs'[s][k] = txs[s][k]
        BY <1>1, <4>1
      <4> QED BY <4>1, <4>2
    <3>2. CASE i \notin 1..maxTxCount
      <4>1. i - maxTxCount \in 1..Len(msgs)
        BY <1>1, <1>4, <2>2, <3>2
      <4>2. msgs[i - maxTxCount] = i
        BY <1>1, <1>3, <1>4, <2>2, <4>1
      <4>3. n + 1 \in 1..(n + 1)
        BY <1>1
      <4> QED BY <1>1, <4>1, <4>2, <4>3
    <3> QED BY <3>1, <3>2
  <2>3. ASSUME NEW i \in DOMAIN ids'[s], i > c
        PROVE  ids'[s][i] = NoID
    <3>1. i \in Nat /\ i > maxTxCount /\ i - maxTxCount \notin 1..Len(msgs)
      BY <1>1, <1>2, <1>4, <2>3
    <3> QED BY <1>2, <1>5, <2>3, <3>1
  <2> QED BY <1>1, <2>1, <2>2, <2>3 DEF Submitted, Calls
<1>8. IdsOf(s)'
  <2> SUFFICES ASSUME NEW i \in DOMAIN ids'[s]
               PROVE  /\ ids'[s][i] # NoID =>
                             /\ ids'[s][i].tx \in 1..(n + 1)
                             /\ txs'[s][ids'[s][i].tx].ok
                             /\ ids'[s][i].index \in DOMAIN txs'[s][ids'[s][i].tx].msgs
                             /\ txs'[s][ids'[s][i].tx].msgs[ids'[s][i].index] = i
                      /\ \A k \in 1..(n + 1) : \A p \in DOMAIN txs'[s][k].msgs :
                             txs'[s][k].msgs[p] = i /\ txs'[s][k].ok
                                 => ids'[s][i] = [tx |-> k, index |-> p]
    BY <1>1 DEF IdsOf, Calls
  <2>1. i \in 1..Len(r[s]) /\ i \in DOMAIN ids[s]
    BY <1>2
  <2>2. /\ ids[s][i] # NoID =>
               /\ ids[s][i].tx \in 1..n
               /\ txs[s][ids[s][i].tx].ok
               /\ ids[s][i].index \in DOMAIN txs[s][ids[s][i].tx].msgs
               /\ txs[s][ids[s][i].tx].msgs[ids[s][i].index] = i
        /\ \A k \in 1..n : \A p \in DOMAIN txs[s][k].msgs :
               txs[s][k].msgs[p] = i /\ txs[s][k].ok => ids[s][i] = [tx |-> k, index |-> p]
    <3>1. IdsOf(s) /\ Calls(s) = 1..n
      BY <1>1 DEF SideInv, Calls
    <3> QED BY <2>1, <3>1 DEF IdsOf
  <2>3. CASE ok /\ i - maxTxCount \in 1..Len(msgs)
    <3>1. ids'[s][i] = [tx |-> n + 1, index |-> i - maxTxCount]
      BY <1>2, <2>1, <2>3
    <3>2. msgs[i - maxTxCount] = i
      BY <1>1, <1>3, <1>4, <2>1, <2>3
    <3>3. n + 1 \in 1..(n + 1)
      BY <1>1
    <3>4. ASSUME NEW k \in 1..(n + 1), NEW p \in DOMAIN txs'[s][k].msgs,
                 txs'[s][k].msgs[p] = i
          PROVE  k = n + 1 /\ p = i - maxTxCount
      <4>1. i \notin 1..maxTxCount
        BY <1>4, <2>1, <2>3
      <4>2. k \notin 1..n
        BY <1>1, <1>5, <3>4, <4>1
      <4>3. k = n + 1
        BY <1>1, <4>2
      <4>4. p \in 1..Len(msgs) /\ msgs[p] = i
        BY <1>1, <3>4, <4>3
      <4> QED BY <1>1, <1>3, <1>4, <2>1, <4>3, <4>4
    <3>5. /\ ids'[s][i].tx = n + 1
          /\ ids'[s][i].index = i - maxTxCount
      BY <3>1
    <3>6. txs'[s][n + 1].ok /\ txs'[s][n + 1].msgs = msgs
      BY <1>1, <2>3
    <3>7. i - maxTxCount \in DOMAIN msgs
      BY <1>1, <2>3
    <3>8. \A k \in 1..(n + 1) : \A p \in DOMAIN txs'[s][k].msgs :
              txs'[s][k].msgs[p] = i => ids'[s][i] = [tx |-> k, index |-> p]
      BY <3>1, <3>4
    <3> QED BY <3>2, <3>3, <3>5, <3>6, <3>7, <3>8
  <2>4. CASE ~(ok /\ i - maxTxCount \in 1..Len(msgs))
    <3>1. ids'[s][i] = ids[s][i]
      BY <1>2, <2>1, <2>4
    <3>2. ids[s][i] # NoID =>
              /\ ids[s][i].tx \in 1..(n + 1)
              /\ txs'[s][ids[s][i].tx] = txs[s][ids[s][i].tx]
      BY <1>1, <2>2
    <3>3. ASSUME NEW k \in 1..(n + 1), NEW p \in DOMAIN txs'[s][k].msgs,
                 txs'[s][k].msgs[p] = i, txs'[s][k].ok
          PROVE  ids[s][i] = [tx |-> k, index |-> p]
      <4>1. CASE k \in 1..n
        BY <1>1, <2>2, <3>3, <4>1
      <4>2. CASE k = n + 1
        <5>1. ok /\ p \in 1..Len(msgs) /\ msgs[p] = i
          BY <1>1, <3>3, <4>2
        <5>2. i - maxTxCount = p
          BY <1>1, <1>3, <1>4, <2>1, <5>1
        <5> QED BY <2>4, <5>1, <5>2
      <4> QED BY <1>1, <4>1, <4>2
    <3> QED BY <2>2, <3>1, <3>2, <3>3
  <2> QED BY <2>3, <2>4
<1>9. OrderOf(s)'
  <2> SUFFICES ASSUME NEW k \in 1..(n + 1), NEW l \in 1..(n + 1),
                      NEW p \in DOMAIN txs'[s][k].msgs, NEW q \in DOMAIN txs'[s][l].msgs,
                      k < l \/ (k = l /\ p < q)
               PROVE  txs'[s][k].msgs[p] < txs'[s][l].msgs[q]
    BY <1>1 DEF OrderOf, Calls
  <2>1. CASE l \in 1..n
    <3>1. k \in 1..n
      BY <1>1, <2>1
    <3>2. txs'[s][k] = txs[s][k] /\ txs'[s][l] = txs[s][l]
      BY <1>1, <2>1, <3>1
    <3>3. \A a, b \in 1..n : \A x \in DOMAIN txs[s][a].msgs, y \in DOMAIN txs[s][b].msgs :
              a < b \/ (a = b /\ x < y) => txs[s][a].msgs[x] < txs[s][b].msgs[y]
      BY <1>1 DEF SideInv, OrderOf, Calls
    <3> QED BY <2>1, <3>1, <3>2, <3>3
  <2>2. CASE l = n + 1 /\ k \in 1..n
    <3>1. txs'[s][k].msgs[p] \in 1..maxTxCount
      BY <1>1, <1>5, <2>2
    <3>2. txs'[s][l].msgs[q] = maxTxCount + q /\ q \in 1..Len(msgs)
      BY <1>1, <1>3, <2>2
    <3> QED BY <1>4, <3>1, <3>2
  <2>3. CASE l = n + 1 /\ k = n + 1
    <3>1. txs'[s][k].msgs = msgs /\ txs'[s][l].msgs = msgs
      BY <1>1, <2>3
    <3>2. p \in 1..Len(msgs) /\ q \in 1..Len(msgs) /\ p < q
      BY <1>1, <2>3, <3>1
    <3>3. msgs[p] = maxTxCount + p /\ msgs[q] = maxTxCount + q
      BY <1>1, <1>3, <3>2
    <3> QED BY <1>1, <1>4, <3>1, <3>2, <3>3
  <2> QED BY <1>1, <2>1, <2>2, <2>3
<1> QED BY <1>7, <1>8, <1>9 DEF SideInv

\* The initial states.
LEMMA InitInv == Init => Inv
<1> SUFFICES ASSUME Init PROVE Inv
  OBVIOUS
<1>1. r \in [Src : Seq(Nat), Dst : Seq(Nat), MaxTxSize : Nat, MaxMsgLength : Nat]
  BY RoundsAssumption DEF Init
<1>2. \A s \in Sides : r[s] \in Seq(Nat) /\ Len(r[s]) \in Nat
  BY <1>1 DEF Sides
<1>3. TypeOK
  <2>1. ASSUME NEW s \in Sides
        PROVE  ids[s] \in [DOMAIN r[s] -> [tx : Nat, index : Nat]]
    BY <1>2 DEF Init, NoID
  <2>2. txs \in [Sides -> Seq([msgs : Seq(Nat), ok : BOOLEAN])]
    BY DEF Init
  <2> QED BY <1>1, <2>1, <2>2 DEF Init, TypeOK, Sides
<1>4. BatchInv
  BY <1>2 DEF Init, BatchInv, Sides
<1>5. SuccessInv
  BY DEF Init, SuccessInv, Calls
<1>6. ASSUME NEW s \in Sides
      PROVE  SideInv(s, Count(s))
  <2>1. Count(s) = 0
    BY DEF Init, Count, Sides
  <2>2. txs[s] = <<>> /\ ids[s] = [i \in DOMAIN r[s] |-> NoID] /\ DOMAIN r[s] \subseteq Nat
    BY <1>2 DEF Init
  <2>3. Calls(s) = {}
    BY <2>2 DEF Calls
  <2>4. Submitted(s, 0)
    BY <2>2, <2>3 DEF Submitted
  <2>5. IdsOf(s) /\ OrderOf(s)
    BY <2>2, <2>3 DEF IdsOf, OrderOf
  <2> QED BY <2>1, <2>4, <2>5 DEF SideInv
<1> QED BY <1>3, <1>4, <1>5, <1>6 DEF Inv

\* Succeeded follows the calls.
LEMMA SendMsgsSuccess ==
    ASSUME TypeOK, SuccessInv, side \in Sides, NEW ok \in BOOLEAN, SendMsgs(ok)
    PROVE  SuccessInv'
<1> DEFINE n == Len(txs[side])
<1>1. /\ n \in Nat
      /\ DOMAIN txs[side] = 1..n
      /\ DOMAIN txs'[side] = 1..(n + 1)
      /\ \A k \in 1..n : txs'[side][k] = txs[side][k]
      /\ txs'[side][n + 1] = [msgs |-> msgs, ok |-> ok]
      /\ \A s \in Sides : s # side => txs'[s] = txs[s]
  BY SendMsgsCalls
<1>2. txs'[side][n + 1].ok = ok
  BY <1>1
<1>3. succeeded' = (succeeded /\ ok)
  BY DEF SendMsgs
<1> HIDE DEF n
<1>4. (\A k \in 1..(n + 1) : txs'[side][k].ok) <=> (ok /\ \A k \in 1..n : txs[side][k].ok)
  <2>1. 1..(n + 1) = (1..n) \cup {n + 1}
    BY <1>1
  <2> QED BY <1>1, <1>2, <2>1
<1>5. (\A s \in Sides : \A k \in DOMAIN txs'[s] : txs'[s][k].ok)
        <=> (ok /\ \A s \in Sides : \A k \in DOMAIN txs[s] : txs[s][k].ok)
  <2>1. \A s \in Sides : s # side => ((\A k \in DOMAIN txs'[s] : txs'[s][k].ok)
                                        <=> (\A k \in DOMAIN txs[s] : txs[s][k].ok))
    BY <1>1
  <2>2. (\A k \in DOMAIN txs'[side] : txs'[side][k].ok)
          <=> (ok /\ \A k \in DOMAIN txs[side] : txs[side][k].ok)
    BY <1>1, <1>4
  <2> QED BY <2>1, <2>2
<1> QED BY <1>3, <1>5 DEF SuccessInv, Calls

\* Every step keeps the invariant.
LEMMA NextInv == Inv /\ [Next]_vars => Inv'
<1> SUFFICES ASSUME Inv, [Next]_vars PROVE Inv'
  OBVIOUS
<1> USE DEF Inv
<1>0. \A s \in Sides : r[s] \in Seq(Nat) /\ Len(r[s]) \in Nat /\ DOMAIN r[s] = 1..Len(r[s])
  BY DEF TypeOK, Sides
<1>1. CASE AddMsg
  <2>1. /\ side \in Sides /\ side' = side /\ r' = r /\ next' = next + 1 /\ next <= Len(r[side])
        /\ msgs' = Append(msgs, next) /\ UNCHANGED <<maxTxCount, ids, succeeded, txs>>
    BY <1>1 DEF AddMsg
  <2>2. r[side][next] \in Nat
    <3>1. r[side] \in Seq(Nat) /\ Len(r[side]) \in Nat
      BY <1>0, <2>1
    <3>2. next \in Nat \ {0}
      BY DEF TypeOK
    <3>3. next \in 1..Len(r[side])
      BY <2>1, <3>1, <3>2
    <3> QED BY <3>1, <3>3
  <2>3. TypeOK'
    <3>1. msgs' \in Seq(Nat) /\ next' \in Nat \ {0}
      BY <2>1 DEF TypeOK
    <3>2. msgLen' \in Nat /\ txSize' \in Nat
      <4>1. msgLen' = msgLen + 1 /\ txSize' = txSize + r[side][next]
        BY <1>1 DEF AddMsg
      <4>2. msgLen \in Nat /\ txSize \in Nat
        BY DEF TypeOK
      <4> QED BY <2>2, <4>1, <4>2
    <3> QED BY <2>1, <3>1, <3>2 DEF TypeOK
  <2>4. BatchInv'
    <3>1. next = maxTxCount + Len(msgs) + 1 /\ \A p \in DOMAIN msgs : msgs[p] = maxTxCount + p
      BY <2>1 DEF BatchInv
    <3>2. /\ msgs \in Seq(Nat) /\ next \in Nat /\ maxTxCount \in Nat
          /\ Len(msgs) \in Nat /\ DOMAIN msgs = 1..Len(msgs)
      BY DEF TypeOK
    <3>3. /\ Len(msgs') = Len(msgs) + 1 /\ DOMAIN msgs' = 1..(Len(msgs) + 1)
          /\ \A p \in 1..Len(msgs) : msgs'[p] = msgs[p]
          /\ msgs'[Len(msgs) + 1] = next
      BY <2>1, <3>2
    <3>4. \A p \in DOMAIN msgs' : msgs'[p] = maxTxCount + p
      BY <3>1, <3>2, <3>3
    <3> QED BY <1>0, <2>1, <3>1, <3>2, <3>3, <3>4 DEF BatchInv
  <2>5. SuccessInv'
    BY <2>1 DEF SuccessInv, Calls
  <2>6. ASSUME NEW s \in Sides PROVE SideInv(s, Count(s))'
    <3>1. Count(s)' = Count(s)
      BY <2>1 DEF Count
    <3> QED BY <2>1, <3>1, SideFrame
  <2> QED BY <2>3, <2>4, <2>5, <2>6
<1>2. CASE SendFullBatch
  <2>1. PICK ok \in BOOLEAN : SendMsgs(ok)
    BY <1>2 DEF SendFullBatch
  <2>2. /\ side \in Sides /\ side' = side /\ r' = r /\ next' = next + 1 /\ next <= Len(r[side])
        /\ msgs' = <<next>> /\ maxTxCount' = maxTxCount + Len(msgs)
        /\ msgLen' = 1 /\ txSize' = r[side][next]
    BY <1>2 DEF SendFullBatch
  <2>3. r[side][next] \in Nat
    <3>1. r[side] \in Seq(Nat) /\ Len(r[side]) \in Nat
      BY <1>0, <2>2
    <3>2. next \in Nat \ {0}
      BY DEF TypeOK
    <3>3. next \in 1..Len(r[side])
      BY <2>2, <3>1, <3>2
    <3> QED BY <3>1, <3>3
  <2>4. TypeOK'
    <3>1. msgs' \in Seq(Nat) /\ next' \in Nat \ {0} /\ maxTxCount' \in Nat
      BY <2>2 DEF TypeOK
    <3>2. /\ txs' \in [Sides -> Seq([msgs : Seq(Nat), ok : BOOLEAN])]
          /\ \A s \in Sides : ids'[s] \in [DOMAIN r[s] -> [tx : Nat, index : Nat]]
          /\ succeeded' \in BOOLEAN
          /\ DOMAIN ids' = Sides
      BY <2>1, <2>2, SendMsgsType
    <3> QED BY <2>2, <2>3, <3>1, <3>2 DEF TypeOK
  <2>5. BatchInv'
    <3>1. next = maxTxCount + Len(msgs) + 1
      BY <2>2 DEF BatchInv
    <3>2. next \in Nat /\ maxTxCount \in Nat /\ Len(msgs) \in Nat
      BY DEF TypeOK
    <3>3. Len(msgs') = 1 /\ DOMAIN msgs' = 1..1 /\ msgs'[1] = next
      BY <2>2
    <3> QED BY <1>0, <2>2, <3>1, <3>2, <3>3 DEF BatchInv
  <2>6. SuccessInv'
    BY <2>1, <2>2, SendMsgsSuccess
  <2>7. ASSUME NEW s \in Sides PROVE SideInv(s, Count(s))'
    <3>1. CASE s = side
      <4>1. Count(s) = maxTxCount /\ Count(s)' = maxTxCount + Len(msgs)
        BY <2>2, <3>1 DEF Count
      <4>2. SideInv(s, maxTxCount)
        BY <4>1
      <4>3. PICK c : c = maxTxCount + Len(msgs)
        OBVIOUS
      <4>4. SideInv(s, c)'
        BY <2>1, <3>1, <4>2, <4>3, SendMsgsSide
      <4> QED BY <4>1, <4>3, <4>4, CountFrame
    <3>2. CASE s # side
      <4>1. Count(s)' = Count(s)
        BY <2>2, <3>2 DEF Count
      <4>2. txs'[s] = txs[s] /\ ids'[s] = ids[s]
        BY <2>1, <2>2, <3>2, SendMsgsCalls
      <4> QED BY <4>1, <4>2, SideFrame
    <3> QED BY <3>1, <3>2
  <2> QED BY <2>4, <2>5, <2>6, <2>7
<1>3. CASE SendLeftover
  <2>1. PICK ok \in BOOLEAN : SendMsgs(ok)
    BY <1>3 DEF SendLeftover
  <2>2. /\ side \in Sides /\ side' = (IF side = "Src" THEN "Dst" ELSE "done") /\ r' = r
        /\ next > Len(r[side]) /\ next' = 1 /\ msgs' = <<>>
        /\ msgLen' = 0 /\ txSize' = 0 /\ maxTxCount' = 0
    BY <1>3 DEF SendLeftover, NextSide
  <2>3. TypeOK'
    <3>1. /\ txs' \in [Sides -> Seq([msgs : Seq(Nat), ok : BOOLEAN])]
          /\ \A s \in Sides : ids'[s] \in [DOMAIN r[s] -> [tx : Nat, index : Nat]]
          /\ succeeded' \in BOOLEAN
          /\ DOMAIN ids' = Sides
      BY <2>1, <2>2, SendMsgsType
    <3> QED BY <2>2, <3>1 DEF TypeOK, Sides
  <2>4. BatchInv'
    BY <1>0, <2>2 DEF BatchInv, Sides
  <2>5. SuccessInv'
    BY <2>1, <2>2, SendMsgsSuccess
  <2>6. ASSUME NEW s \in Sides PROVE SideInv(s, Count(s))'
    <3>1. CASE s = side
      <4>1. Len(r[side]) = maxTxCount + Len(msgs)
        <5>1. Len(r[side]) \in Nat /\ maxTxCount \in Nat /\ Len(msgs) \in Nat
          BY <1>0, <2>2 DEF TypeOK
        <5>2. next = maxTxCount + Len(msgs) + 1 /\ next <= Len(r[side]) + 1
          BY <2>2 DEF BatchInv
        <5> QED BY <2>2, <5>1, <5>2
      <4>2. Count(s) = maxTxCount /\ Count(s)' = maxTxCount + Len(msgs)
        BY <2>2, <3>1, <4>1 DEF Count, Sides
      <4>3. SideInv(s, maxTxCount)
        BY <4>2
      <4>4. PICK c : c = maxTxCount + Len(msgs)
        OBVIOUS
      <4>5. SideInv(s, c)'
        BY <2>1, <3>1, <4>3, <4>4, SendMsgsSide
      <4> QED BY <4>2, <4>4, <4>5, CountFrame
    <3>2. CASE s # side
      <4>1. Count(s)' = Count(s)
        BY <2>2, <3>2 DEF Count, Sides
      <4>2. txs'[s] = txs[s] /\ ids'[s] = ids[s]
        BY <2>1, <2>2, <3>2, SendMsgsCalls
      <4> QED BY <4>1, <4>2, SideFrame
    <3> QED BY <3>1, <3>2
  <2> QED BY <2>3, <2>4, <2>5, <2>6
<1>4. CASE NoLeftover
  <2>1. /\ side \in Sides /\ side' = (IF side = "Src" THEN "Dst" ELSE "done") /\ r' = r
        /\ next > Len(r[side]) /\ next' = 1 /\ msgs = <<>> /\ msgs' = <<>>
        /\ msgLen' = 0 /\ txSize' = 0 /\ maxTxCount' = 0
        /\ UNCHANGED <<ids, succeeded, txs>>
    BY <1>4 DEF NoLeftover, NextSide
  <2>2. TypeOK'
    BY <2>1 DEF TypeOK, Sides
  <2>3. BatchInv'
    BY <1>0, <2>1 DEF BatchInv, Sides
  <2>4. SuccessInv'
    BY <2>1 DEF SuccessInv, Calls
  <2>5. ASSUME NEW s \in Sides PROVE SideInv(s, Count(s))'
    <3>1. Len(r[side]) = maxTxCount
      BY <1>0, <2>1 DEF BatchInv, TypeOK
    <3>2. Count(s)' = Count(s)
      BY <2>1, <3>1 DEF Count, Sides
    <3> QED BY <2>1, <3>2, SideFrame
  <2> QED BY <2>2, <2>3, <2>4, <2>5
<1>5. CASE UNCHANGED vars
  <2>1. \A s \in Sides : Count(s)' = Count(s)
    BY <1>5 DEF vars, Count
  <2>2. ASSUME NEW s \in Sides PROVE SideInv(s, Count(s))'
    BY <1>5, <2>1, SideFrame DEF vars
  <2> QED BY <1>5, <2>2 DEF vars, TypeOK, BatchInv, SuccessInv, Calls
<1> QED BY <1>1, <1>2, <1>3, <1>4, <1>5 DEF Next, Return

-----------------------------------------------------------------------------
\* The invariant gives the properties of the runs.
LEMMA InvImplies == Inv => IdsNameTheirMsgs /\ SentInOrder /\ AllSubmitted
<1> SUFFICES ASSUME Inv PROVE IdsNameTheirMsgs /\ SentInOrder /\ AllSubmitted
  OBVIOUS
<1>1. \A s \in Sides : Submitted(s, Count(s)) /\ IdsOf(s) /\ OrderOf(s)
  BY DEF Inv, SideInv
<1>2. IdsNameTheirMsgs
  BY <1>1 DEF IdsNameTheirMsgs, IdsOf
<1>3. SentInOrder
  BY <1>1 DEF SentInOrder, OrderOf
<1>4. AllSubmitted
  <2> SUFFICES ASSUME side = "done"
               PROVE  /\ \A s \in Sides : \A i \in DOMAIN r[s] :
                             \E k \in Calls(s) : \E p \in DOMAIN txs[s][k].msgs : txs[s][k].msgs[p] = i
                      /\ succeeded <=> \A s \in Sides : \A k \in Calls(s) : txs[s][k].ok
    BY DEF AllSubmitted
  <2>1. \A s \in Sides : Count(s) = Len(r[s]) /\ DOMAIN r[s] = 1..Len(r[s])
    BY DEF Inv, Count, TypeOK, Sides
  <2> QED BY <1>1, <2>1 DEF Submitted, Inv, SuccessInv
<1> QED BY <1>2, <1>3, <1>4

(***************************************************************************)
(* The variables of Send keep their types, for every round of messages.    *)
(***************************************************************************)
THEOREM SendTypeCorrect == Spec => []TypeOK
<1>1. Inv => TypeOK
  BY DEF Inv
<1> QED BY <1>1, InitInv, NextInv, PTL DEF Spec

(***************************************************************************)
(* The identifiers Send returns name their own messages, for every number  *)
(* of messages, all sizes and limits and every pattern of failing batches. *)
(***************************************************************************)
THEOREM IdsCorrect == Spec => []IdsNameTheirMsgs
BY InitInv, NextInv, InvImplies, PTL DEF Spec

(***************************************************************************)
(* Messages leave in order and no message leaves twice.                    *)
(***************************************************************************)
THEOREM OrderCorrect == Spec => []SentInOrder
BY InitInv, NextInv, InvImplies, PTL DEF Spec

(***************************************************************************)
(* When Send returns, every message was submitted and Succeeded tells      *)
(* whether every call succeeded.                                           *)
(***************************************************************************)
THEOREM SubmissionCorrect == Spec => []AllSubmitted
BY InitInv, NextInv, InvImplies, PTL DEF Spec
=============================================================================
