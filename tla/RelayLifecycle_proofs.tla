----------------------- MODULE RelayLifecycle_proofs -----------------------
(***************************************************************************)
(* The relay service and the chains implement PacketLifecycle, for every   *)
(* value of the constants of RelayService.                                 *)
(***************************************************************************)
EXTENDS RelayLists_proofs

(***************************************************************************)
(* Only packets whose sending is finalized are listed, carried or          *)
(* received, and only packets that were sent are refunded.  With mock      *)
(* clients no chain checks this: it rests on where the lists of the        *)
(* relayer come from.                                                      *)
(***************************************************************************)
MsgsSent ==
    \A c \in Chains :
        /\ packets[c] \cup batch[Other(c)].recv \cup mempool[Other(c)].tx.recv \cup Recv(c)
              \subseteq Finalized(c).sent
        /\ Latest(c).refunded \subseteq Latest(c).sent

\* What is finalized of a chain is in its latest block.
LEMMA FinalIsSent ==
    ASSUME ViewsStayValid, NEW c \in Chains
    PROVE  NotAfter(Finalized(c), Latest(c))
BY Window DEF ViewsStayValid, KnowsThePast, Finalized

\* A transaction delivers only what was sent.
LEMMA BlockTxSent ==
    ASSUME FinalViews, MsgsSent, NEW c \in Chains, NEW b \in Batch, BlockTx(c, b)
    PROVE  b.recv \subseteq Finalized(Other(c)).sent
<1>o. Other(c) \in Chains /\ Other(Other(c)) = c
  BY OtherFacts
<1>1. CASE b = mempool[c].tx
  BY <1>o, <1>1 DEF MsgsSent
<1>2. CASE RivalTx(c, b)
  <2>1. NotAfter(hist[Other(c)][Depth], Finalized(Other(c)))
    BY <1>o, ProvedIsFinal
  <2> QED
    BY <1>2, <2>1 DEF RivalTx, NotAfter, Commitments
<1> QED
  BY <1>1, <1>2 DEF BlockTx

\* What a block may add to a store.
LEMMA FollowersSent ==
    ASSUME TypeOK, FinalViews, MsgsSent, NEW c \in Chains, NEW s \in Store, MayFollow(c, s)
    PROVE  /\ Latest(c).sent \subseteq s.sent /\ s.refunded \subseteq s.sent
           /\ s.recv \subseteq Finalized(Other(c)).sent
<1>o. Other(c) \in Chains /\ Other(Other(c)) = c
  BY OtherFacts
<1>1. /\ Latest(c) \in Store /\ Latest(c).refunded \subseteq Latest(c).sent
      /\ Latest(c).recv \subseteq Finalized(Other(c)).sent
  BY <1>o, ReadTypes DEF MsgsSent, Recv
<1>2. CASE s \in QuietStores(c)
  BY <1>1, <1>2, QuietFields
<1>3. CASE \E b \in Batch : BlockTx(c, b) /\ s = TxResult(Latest(c), b)
  <2>1. PICK b \in Batch : BlockTx(c, b) /\ s = TxResult(Latest(c), b)
    BY <1>3
  <2>2. b.recv \subseteq Finalized(Other(c)).sent
    BY <2>1, BlockTxSent
  <2>3. /\ s.sent = Latest(c).sent /\ s.recv = Latest(c).recv \cup b.recv
        /\ s.refunded \subseteq Latest(c).refunded \cup Commitments(Latest(c))
    BY <1>1, <2>1 DEF TxResult, Store
  <2> QED
    BY <1>1, <2>2, <2>3 DEF Commitments
<1> QED
  BY <1>2, <1>3 DEF MayFollow

\* MsgsSent is inductive together with the earlier invariants.
LEMMA NextMsgsSent == TypeOK /\ ViewsStayValid /\ FinalViews /\ MsgsSent /\ [Next]_vars => MsgsSent'
<1> SUFFICES ASSUME TypeOK, ViewsStayValid, FinalViews, MsgsSent, [Next]_vars PROVE MsgsSent'
  OBVIOUS
<1>1. CASE ChainStep
  <2>1. PICK c \in Chains, s \in Store :
            /\ AddBlock(c, s) /\ MayFollow(c, s) /\ MempoolShrinks
            /\ UNCHANGED <<listVars, batch>>
    BY <1>1, ChainStepAddsBlock
  <2>2. /\ Latest(c)' = s /\ Latest(Other(c))' = Latest(Other(c))
        /\ NotAfter(Finalized(c), Finalized(c)') /\ Finalized(Other(c))' = Finalized(Other(c))
    BY <2>1, BlockShifts
  <2>3. /\ Latest(c).sent \subseteq s.sent /\ s.refunded \subseteq s.sent
        /\ s.recv \subseteq Finalized(Other(c)).sent
    BY <2>1, FollowersSent
  <2>4. \A d \in Chains : mempool'[d].tx.recv \subseteq mempool[d].tx.recv
    BY <2>1 DEF MempoolShrinks, EmptyBatch
  <2>5. ASSUME NEW d \in Chains
        PROVE  /\ Finalized(d).sent \subseteq Finalized(d)'.sent
               /\ Recv(d)' \subseteq Finalized(d)'.sent
               /\ Latest(d)'.refunded \subseteq Latest(d)'.sent
    <3>1. CASE d = c
      <4>1. Recv(d)' = Recv(d)
        BY <2>2, <3>1 DEF Recv
      <4> QED
        BY <2>2, <2>3, <3>1, <4>1 DEF MsgsSent, NotAfter
    <3>2. CASE d = Other(c)
      BY <2>2, <2>3, <3>2, OtherFacts DEF MsgsSent, Recv
    <3> QED
      BY <3>1, <3>2 DEF Chains, Other
  <2> QED
    BY <2>1, <2>4, <2>5, OtherFacts DEF MsgsSent, listVars
<1>2. CASE Effects
  <2>1. \A d \in Chains : Latest(d)' = Latest(d) /\ Finalized(d)' = Finalized(d) /\ Recv(d)' = Recv(d)
    BY <1>2 DEF Effects, Latest, Finalized, Recv
  <2>2. ASSUME NEW c \in Chains PROVE packets'[c] \subseteq Finalized(c).sent
    <3>1. sh[c].at.sent \subseteq Finalized(c).sent
      BY DEF FinalViews, NotAfter
    <3> QED
      BY <1>2, <3>1, QueriesRead DEF Effects, ListEffects, MsgsSent
  <2>3. ASSUME NEW c \in Chains PROVE batch'[c].recv \subseteq Finalized(Other(c)).sent
    <3>1. \A r \in BOOLEAN : MsgsTo(c, r).recv \subseteq packets[Other(c)]
      BY DEF MsgsTo, RelayBatch
    <3> QED
      BY <1>2, <3>1, OtherFacts DEF Effects, MsgEffects, MsgsSent, EmptyBatch
  <2>4. ASSUME NEW c \in Chains PROVE mempool'[c].tx.recv \subseteq Finalized(Other(c)).sent
    BY <1>2, OtherFacts DEF Effects, MsgEffects, MsgsSent, EmptyBatch
  <2> QED
    BY <2>1, <2>2, <2>3, <2>4, OtherFacts DEF MsgsSent
<1>3. CASE UNCHANGED vars
  BY <1>3 DEF vars, chainVars, listVars, MsgsSent, Latest, Finalized, Recv
<1> QED
  BY <1>1, <1>2, <1>3, ServeStepEffects, FaultStepEffects DEF Next

\* At the start no packet exists.
LEMMA InitMsgsSent == Init => MsgsSent
<1> SUFFICES ASSUME Init PROVE MsgsSent
  OBVIOUS
<1>1. \A c \in Chains : Latest(c) = EmptyStore
  BY Window DEF Init, Latest
<1> QED
  BY <1>1, OtherFacts
  DEF Init, MsgsSent, Recv, EmptyStore, NoPackets, NoBatches, EmptyBatch, NoTx

-----------------------------------------------------------------------------
(***************************************************************************)
(* The refinement.  A block without transactions is a Send or a stuttering *)
(* step; a block with one is an Execute, in which only the packets whose   *)
(* store entries really change take part; the service itself stutters.     *)
(***************************************************************************)
fateMap == [c \in Chains |-> [n \in Seqs |-> Fate(c, n)]]

\* The outcomes of a packet of c exclude one another.
Exclusive(c) ==
    /\ Latest(c).acked \subseteq Recv(c)
    /\ Latest(c).refunded \cap Recv(c) = {}
    /\ Recv(c) \cup Latest(c).refunded \subseteq Latest(c).sent

\* They do, by the earlier invariants.
LEMMA AllExclusive ==
    ASSUME ViewsStayValid, MsgsSent, NEW c \in Chains
    PROVE  Exclusive(c)
<1>1. Recv(c) \subseteq Latest(c).sent
  BY FinalIsSent DEF MsgsSent, NotAfter
<1> QED
  BY <1>1 DEF ViewsStayValid, SettledRightly, MsgsSent, Exclusive

\* So that the sets of the stores tell the fate of every packet.
LEMMA FateIs ==
    ASSUME NEW c \in Chains, NEW n, Exclusive(c)
    PROVE  /\ n \in Latest(c).refunded => Fate(c, n) = "refunded"
           /\ n \in Latest(c).acked => Fate(c, n) = "acked"
           /\ n \in Recv(c) \ Latest(c).acked => Fate(c, n) = "delivered"
           /\ n \in Latest(c).sent \ (Recv(c) \cup Latest(c).refunded) => Fate(c, n) = "sent"
           /\ n \notin Latest(c).sent => Fate(c, n) = "unsent"
<1>1. n \in Latest(c).refunded => n \notin Latest(c).acked /\ n \notin Recv(c) /\ n \in Latest(c).sent
  BY DEF Exclusive
<1>2. n \in Latest(c).acked => n \in Recv(c) /\ n \in Latest(c).sent
  BY DEF Exclusive
<1>3. n \in Recv(c) => n \in Latest(c).sent
  BY DEF Exclusive
<1> QED
  BY <1>1, <1>2, <1>3 DEF Fate

\* The fate of a packet of c depends only on what c and its counterparty say of it.
LEMMA FateDepends ==
    ASSUME NEW c \in Chains, NEW n,
           n \in Latest(c)'.refunded <=> n \in Latest(c).refunded,
           n \in Latest(c)'.acked <=> n \in Latest(c).acked,
           n \in Latest(c)'.sent <=> n \in Latest(c).sent,
           n \in Recv(c)' <=> n \in Recv(c)
    PROVE  Fate(c, n)' = Fate(c, n)
BY DEF Fate

\* The first blocks hold no packet.
LEMMA InitRefines == Init => Lifecycle!Init
<1> SUFFICES ASSUME Init PROVE Lifecycle!Init
  OBVIOUS
<1>1. \A c \in Chains : Latest(c) = EmptyStore
  BY Window DEF Init, Latest
<1>2. \A c \in Chains, n \in Seqs : Fate(c, n) = "unsent"
  BY <1>1, OtherFacts DEF Fate, Recv, EmptyStore
<1> QED
  BY <1>2 DEF Lifecycle!Init

\* SendPacket adds a packet that was unsent.
LEMMA SendRefines ==
    ASSUME ViewsStayValid, MsgsSent, NEW c \in Chains, NEW n \in Seqs \ Latest(c).sent,
           Latest(c) \in Store, Latest(c)' = [Latest(c) EXCEPT !.sent = @ \cup {n}],
           Latest(Other(c))' = Latest(Other(c))
    PROVE  Lifecycle!Send(c, n)
<1>1. /\ Latest(c)'.sent = Latest(c).sent \cup {n} /\ Latest(c)'.acked = Latest(c).acked
      /\ Latest(c)'.refunded = Latest(c).refunded /\ Latest(c)'.recv = Latest(c).recv
  BY DEF Store
<1>2. \A d \in Chains : Recv(d)' = Recv(d)
  BY <1>1 DEF Recv, Chains, Other
<1>3. Fate(c, n) = "unsent" /\ Exclusive(c)
  BY AllExclusive, FateIs
<1>4. Fate(c, n)' = "sent"
  BY <1>1, <1>2, <1>3 DEF Fate, Exclusive
<1>5. \A d \in Chains, m \in Seqs : d # c \/ m # n => Fate(d, m)' = Fate(d, m)
  <2> SUFFICES ASSUME NEW d \in Chains, NEW m \in Seqs, d # c \/ m # n
               PROVE  Fate(d, m)' = Fate(d, m)
    OBVIOUS
  <2>1. CASE d = c
    BY <1>1, <1>2, <2>1, FateDepends
  <2>2. CASE d # c
    <3>1. Latest(d)' = Latest(d)
      BY <2>2 DEF Chains, Other
    <3> QED
      BY <1>2, <3>1, FateDepends
  <2> QED
    BY <2>1, <2>2
<1>6. fateMap' = [fateMap EXCEPT ![c][n] = "sent"]
  <2> DEFINE f == [fateMap EXCEPT ![c][n] = "sent"]
  <2>1. /\ f = [d \in Chains |-> f[d]]
        /\ \A d \in Chains : f[d] = [m \in Seqs |-> f[d][m]]
    BY DEF fateMap
  <2>2. \A d \in Chains, m \in Seqs : f[d][m] = IF d = c /\ m = n THEN "sent" ELSE Fate(d, m)
    BY DEF fateMap
  <2> HIDE DEF f
  <2>3. \A d \in Chains : [m \in Seqs |-> Fate(d, m)'] = f[d]
    BY <1>4, <1>5, <2>1, <2>2
  <2>4. fateMap' = f
    BY <2>1, <2>3 DEF fateMap
  <2> QED
    BY <2>4 DEF f
<1> QED
  BY <1>3, <1>6 DEF Lifecycle!Send, fateMap

\* A transaction delivers, acknowledges and refunds what its packets' fates allow.
LEMMA ExecuteRefines ==
    ASSUME TypeOK, ViewsStayValid, FinalViews, MsgsSent, NEW c \in Chains, NEW b \in Batch,
           BlockTx(c, b), Latest(c)' = TxResult(Latest(c), b),
           Latest(Other(c))' = Latest(Other(c))
    PROVE  \E D, A, R \in SUBSET Seqs : Lifecycle!Execute(c, D, A, R)
<1> DEFINE o == Other(c)
           s == Latest(c)
           D == b.recv \ s.recv
           A == b.ack \cap Commitments(s)
           R == (b.timeout \cap Commitments(s)) \ b.ack
<1>o. o \in Chains /\ o # c /\ Other(o) = c /\ \A d \in Chains : d = c \/ d = o
  BY OtherFacts DEF Chains, Other
<1>t. s \in Store /\ Latest(o) \in Store
  BY <1>o, ReadTypes
<1>s. D \in SUBSET Seqs /\ A \in SUBSET Seqs /\ R \in SUBSET Seqs
  BY DEF Batch
<1>1. b.ack \subseteq Recv(c) /\ b.timeout \subseteq Latest(o).expired \ Recv(c)
  BY BlockTxRightful
<1>2. b.recv \subseteq Latest(o).sent
  BY <1>o, BlockTxSent, FinalIsSent DEF NotAfter
<1>3. b.recv \cap s.expired = {} /\ (Ordered /\ b.recv # {} => InOrder(s.recv, b.recv))
  BY DEF BlockTx, TxAccepted, RecvAccepted
<1>4. Exclusive(c) /\ Exclusive(o) /\ Latest(o).refunded \subseteq s.expired
  BY <1>o, AllExclusive DEF ViewsStayValid, SettledRightly
<1>5. /\ Latest(c)'.sent = s.sent /\ Latest(c)'.recv = s.recv \cup D
      /\ Latest(c)'.acked = s.acked \cup A /\ Latest(c)'.refunded = s.refunded \cup R
  BY <1>t DEF TxResult, Store
<1>6. Recv(o) = s.recv /\ Recv(o)' = s.recv \cup D /\ Recv(c)' = Recv(c)
  BY <1>o, <1>5 DEF Recv
<1>d. \A n \in D : Fate(o, n) = "sent"
  BY <1>o, <1>2, <1>3, <1>4, <1>6, FateIs
<1>a. \A n \in A : Fate(c, n) = "delivered"
  BY <1>1, <1>4, FateIs DEF Commitments
<1>r. \A n \in R : Fate(c, n) = "sent"
  BY <1>1, <1>4, FateIs DEF Commitments
<1> HIDE DEF D, A, R, s
<1>q. ASSUME Ordered, NEW n \in D, NEW m \in Seqs, m < n
      PROVE  m \in D \/ Fate(o, m) \in {"delivered", "acked"}
  <2>1. n \in b.recv /\ InOrder(s.recv, b.recv)
    BY <1>3, <1>q DEF D
  <2>2. m \in s.recv \cup b.recv
    BY <1>q, <2>1 DEF InOrder
  <2>3. m \in D \/ m \in Recv(o)
    BY <1>6, <2>2 DEF D
  <2> QED
    BY <1>o, <1>4, <2>3, FateIs
<1>7. ASSUME NEW n \in Seqs PROVE Fate(o, n)' = IF n \in D THEN "delivered" ELSE Fate(o, n)
  <2>1. CASE n \in D
    <3>1. n \in Latest(o).sent /\ n \notin Latest(o).refunded /\ n \notin Latest(o).acked
      BY <1>2, <1>3, <1>4, <1>6, <2>1 DEF D, Exclusive
    <3>2. n \in Recv(o)'
      BY <1>6, <2>1
    <3> QED
      BY <2>1, <3>1, <3>2 DEF Fate
  <2>2. CASE n \notin D
    BY <1>o, <1>6, <2>2, FateDepends
  <2> QED
    BY <2>1, <2>2
<1>8. ASSUME NEW n \in Seqs
      PROVE  Fate(c, n)' = IF n \in A THEN "acked" ELSE IF n \in R THEN "refunded" ELSE Fate(c, n)
  <2>1. CASE n \in A
    <3>1. n \notin s.refunded /\ n \notin R
      BY <2>1 DEF A, R, Commitments
    <3> QED
      BY <1>5, <2>1, <3>1 DEF Fate
  <2>2. CASE n \notin A /\ n \in R
    <3>1. n \in Latest(c)'.refunded /\ n \notin Latest(c)'.acked /\ n \notin Recv(c)'
      BY <1>1, <1>5, <1>6, <2>2 DEF R, Commitments
    <3>2. Fate(c, n)' = "refunded"
      BY <3>1 DEF Fate
    <3> QED
      BY <2>2, <3>2
  <2>3. CASE n \notin A /\ n \notin R
    <3>1. /\ n \in Latest(c)'.refunded <=> n \in Latest(c).refunded
          /\ n \in Latest(c)'.acked <=> n \in Latest(c).acked
          /\ n \in Latest(c)'.sent <=> n \in Latest(c).sent
          /\ n \in Recv(c)' <=> n \in Recv(c)
      BY <1>5, <1>6, <2>3 DEF s
    <3>2. Fate(c, n)' = Fate(c, n)
      BY <3>1, FateDepends
    <3> QED
      BY <2>3, <3>2
  <2> QED
    BY <2>1, <2>2, <2>3
<1>9. fateMap' = [fateMap EXCEPT
                    ![o] = [n \in Seqs |-> IF n \in D THEN "delivered" ELSE @[n]],
                    ![c] = [n \in Seqs |-> IF n \in A THEN "acked"
                                           ELSE IF n \in R THEN "refunded" ELSE @[n]]]
  BY <1>o, <1>7, <1>8 DEF fateMap
<1>10. Lifecycle!Execute(c, D, A, R)
  BY <1>o, <1>s, <1>d, <1>a, <1>r, <1>q, <1>9 DEF Lifecycle!Execute, Lifecycle!In, fateMap
<1> QED
  BY <1>s, <1>10

\* A block maps to a step of the life cycle, or changes no fate.
LEMMA BlockRefines ==
    ASSUME TypeOK, ViewsStayValid, FinalViews, MsgsSent, NEW c \in Chains, NEW s \in Store,
           MayFollow(c, s), Latest(c)' = s, Latest(Other(c))' = Latest(Other(c))
    PROVE  Lifecycle!Next \/ fateMap' = fateMap
<1>t. Latest(c) \in Store
  BY ReadTypes
<1>1. ASSUME Latest(c)'.sent = Latest(c).sent, Latest(c)'.acked = Latest(c).acked,
             Latest(c)'.refunded = Latest(c).refunded, Latest(c)'.recv = Latest(c).recv
      PROVE  fateMap' = fateMap
  <2>1. \A d \in Chains, n \in Seqs : Fate(d, n)' = Fate(d, n)
    BY <1>1 DEF Fate, Recv, Chains, Other
  <2> QED
    BY <2>1 DEF fateMap
<1>2. CASE s = Latest(c)
  BY <1>1, <1>2
<1>3. ASSUME NEW n \in Seqs \ Latest(c).sent, s = [Latest(c) EXCEPT !.sent = @ \cup {n}]
      PROVE  Lifecycle!Next
  BY <1>t, <1>3, SendRefines DEF Lifecycle!Next
<1>4. ASSUME NEW n \in Seqs, s = [Latest(c) EXCEPT !.expired = @ \cup {n}]
      PROVE  fateMap' = fateMap
  BY <1>t, <1>1, <1>4 DEF Store
<1>5. ASSUME NEW b \in Batch, BlockTx(c, b), s = TxResult(Latest(c), b)
      PROVE  Lifecycle!Next
  BY <1>5, ExecuteRefines DEF Lifecycle!Next
<1> QED
  BY <1>2, <1>3, <1>4, <1>5 DEF MayFollow, QuietStores

\* Every step of the service and of the chains is a step of the life cycle or changes no fate.
LEMMA NextRefines ==
    TypeOK /\ ViewsStayValid /\ FinalViews /\ MsgsSent /\ [Next]_vars
        => Lifecycle!Next \/ fateMap' = fateMap
<1> SUFFICES ASSUME TypeOK, ViewsStayValid, FinalViews, MsgsSent, [Next]_vars
             PROVE  Lifecycle!Next \/ fateMap' = fateMap
  OBVIOUS
<1>1. CASE ChainStep
  <2>1. PICK c \in Chains, s \in Store : AddBlock(c, s) /\ MayFollow(c, s)
    BY <1>1, ChainStepAddsBlock
  <2>2. Latest(c)' = s /\ Latest(Other(c))' = Latest(Other(c))
    BY <2>1, BlockShifts
  <2> QED
    BY <2>1, <2>2, BlockRefines
<1>2. ASSUME hist' = hist PROVE fateMap' = fateMap
  BY <1>2 DEF fateMap, Fate, Recv, Latest
<1>3. CASE ServeStep
  BY <1>2, <1>3, ServeStepEffects DEF Effects
<1>4. CASE FaultStep
  BY <1>2, <1>4, FaultStepEffects DEF Effects
<1>5. CASE UNCHANGED vars
  BY <1>2, <1>5 DEF vars, chainVars
<1> QED
  BY <1>1, <1>3, <1>4, <1>5 DEF Next

\* The service and the chains implement PacketLifecycle: however retries, crashes, lost or
\* late transactions and other relayers interleave, and whether or not the light clients
\* verify anything, a packet is delivered only if it was sent, acknowledged only if it was
\* delivered, refunded only if it never is, and on ordered channels delivered in sequence.
THEOREM LifecycleCorrect == Spec => ImplementsLifecycle
<1>1. TypeOK /\ ViewsStayValid /\ FinalViews /\ MsgsSent /\ [Next]_vars
        => [Lifecycle!Next]_fateMap
  BY NextRefines
<1>2. Spec => Lifecycle!Init /\ [][Lifecycle!Next]_fateMap
  BY <1>1, TypeCorrect, ViewsCorrect, FinalViewsCorrect, InitMsgsSent, NextMsgsSent, InitRefines,
     PTL DEF Spec
<1> QED
  BY <1>2, PTL DEF ImplementsLifecycle, Lifecycle!Spec, fateMap

-----------------------------------------------------------------------------
(***************************************************************************)
(* CloseStrandsNoAck.  On an ordered channel ProcessTimeoutPackets times   *)
(* out only the next packet to be received, so that all before it are in   *)
(* the header's block, from which the acknowledgements of the same round   *)
(* are listed; those that are not on the chain yet go into the batch of    *)
(* the MsgTimeout, ahead of it.                                            *)
(***************************************************************************)
InSequence == Ordered => \A c \in Chains : \A n \in Recv(c), m \in Seqs : m < n => m \in Recv(c)

AcksListed(c) ==
    pc \in {"unreceivedAcks", "decide", "build"} \/ (pc = "acks" /\ c \notin todo)

AcksReady(c) ==
    /\ pc = "acks" => ackCtx[c] = sh[c].at
    /\ AcksListed(c) => sh[c].at.recv \subseteq acks[c] \cup Latest(Other(c)).acked
    /\ pc = "build" /\ acks[Other(c)] # {} => doAck[c]

\* All packets before those of S are in T.
AllBefore(S, T) == \A n \in S, m \in Seqs : m < n => m \in T

AckedFirst(c) ==
    /\ AllBefore(batch[c].timeout, batch[c].ack \cup Latest(c).acked)
    /\ AllBefore(mempool[c].tx.timeout, mempool[c].tx.ack \cup Latest(c).acked)
    /\ AllBefore(Latest(c).refunded, Latest(c).acked)

AcksReadyInv == Ordered /\ faults = 0 => \A c \in Chains : AcksReady(c)

AckedFirstInv == Ordered /\ faults = 0 => \A c \in Chains : AckedFirst(c)

\* Neither noack nor an optimize interval keeps the strategy from relaying acknowledgements.
AcksAtOnce == \A c \in Chains : ~NoAck[c] /\ (~Patient \/ OptCount[c] = 0)

\* A chain receives the packets of an ordered channel in sequence.
LEMMA NextInSequence == TypeOK /\ ViewsStayValid /\ FinalViews /\ InSequence /\ [Next]_vars => InSequence'
<1> SUFFICES ASSUME TypeOK, ViewsStayValid, FinalViews, InSequence, [Next]_vars, Ordered,
                    NEW d \in Chains, NEW n \in Recv(d)', NEW m \in Seqs, m < n
             PROVE  m \in Recv(d)'
  BY DEF InSequence
<1>1. CASE Recv(d)' = Recv(d)
  BY <1>1 DEF InSequence
<1>2. CASE ChainStep
  <2>1. PICK c \in Chains, s \in Store : AddBlock(c, s) /\ MayFollow(c, s)
    BY <1>2, ChainStepAddsBlock
  <2>2. Latest(c)' = s /\ Latest(Other(c))' = Latest(Other(c)) /\ Latest(c) \in Store
    BY <2>1, BlockShifts, ReadTypes
  <2>3. CASE d = c
    BY <1>1, <2>2, <2>3 DEF Recv
  <2>4. CASE d = Other(c) /\ s \in QuietStores(c)
    BY <1>1, <2>2, <2>4, OtherFacts, QuietFields DEF Recv
  <2>5. CASE d = Other(c) /\ \E b \in Batch : BlockTx(c, b) /\ s = TxResult(Latest(c), b)
    <3>1. PICK b \in Batch : BlockTx(c, b) /\ s = TxResult(Latest(c), b)
      BY <2>5
    <3>2. Recv(d) = Latest(c).recv /\ Recv(d)' = Latest(c).recv \cup b.recv
      BY <2>2, <2>5, <3>1, OtherFacts DEF Recv, TxResult, Store
    <3>3. b.recv # {} => InOrder(Latest(c).recv, b.recv)
      BY <3>1 DEF BlockTx, TxAccepted, RecvAccepted
    <3> QED
      BY <3>2, <3>3 DEF InSequence, InOrder
  <2> QED
    BY <2>1, <2>3, <2>4, <2>5 DEF MayFollow, Chains, Other
<1>3. CASE hist' = hist
  BY <1>1, <1>3 DEF Recv, Latest
<1> QED
  BY <1>2, <1>3, ServeStepEffects, FaultStepEffects DEF Next, Effects, vars, chainVars

\* What one step keeps of the acknowledgements a chain has.
LEMMA AckedGrows ==
    ASSUME TypeOK, ViewsStayValid, FinalViews, [Next]_vars, NEW c \in Chains
    PROVE  Latest(c).acked \subseteq Latest(c)'.acked
<1>1. CASE ChainStep
  <2>1. PICK d \in Chains, s \in Store : AddBlock(d, s) /\ MayFollow(d, s)
    BY <1>1, ChainStepAddsBlock
  <2>2. Latest(d)' = s /\ NotAfter(Latest(d), s) /\ Latest(Other(d))' = Latest(Other(d))
    BY <2>1, BlockShifts
  <2> QED
    BY <2>2 DEF NotAfter, Chains, Other
<1>2. CASE hist' = hist
  BY <1>2 DEF Latest
<1> QED
  BY <1>1, <1>2, ServeStepEffects, FaultStepEffects DEF Next, Effects, vars, chainVars

\* What chain c has received and a store t of its counterparty holds no commitment of has
\* been acknowledged, if t is at least as new as the finalized block.
LEMMA GoneIsAcked ==
    ASSUME ViewsStayValid, MsgsSent, NEW c \in Chains, NEW t,
           NotAfter(Finalized(c), t), NotAfter(t, Latest(c))
    PROVE  Recv(c) \subseteq Commitments(t) \cup Latest(c).acked
<1>1. Recv(c) \subseteq t.sent
  BY DEF MsgsSent, NotAfter
<1>2. Recv(c) \cap t.refunded = {}
  BY DEF ViewsStayValid, SettledRightly, NotAfter
<1>3. t.acked \subseteq Latest(c).acked
  BY DEF NotAfter
<1> QED
  BY <1>1, <1>2, <1>3 DEF Commitments

\* Outside of the ack phases nothing is said of the lists.
LEMMA NoAcksYet ==
    ASSUME pc' \notin {"acks", "unreceivedAcks", "decide", "build"}
    PROVE  \A c \in Chains : AcksReady(c)'
BY DEF AcksReady, AcksListed

\* Without faults the acknowledgements of a round cover the header's block.
LEMMA ServeStepAcksReady ==
    ASSUME MaxSeq <= PageLimit, AcksAtOnce, TypeOK, ViewsStayValid, MsgsSent, ListsInv,
           ListsProvable, faults = 0, \A c \in Chains : AcksReady(c), ServeStep
    PROVE  \A c \in Chains : AcksReady(c)'
<1> USE DEF chainVars, shVars, listVars
<1>h. \A c \in Chains : Latest(c)' = Latest(c)
  BY ServeStepEffects DEF Effects, Latest
<1>1. CASE StartService
  BY <1>1, NoAcksYet DEF StartService, Goto
<1>2. CASE UpdatesSrc
  BY <1>2, NoAcksYet DEF UpdatesSrc, Goto
<1>3. CASE UpdatesDst
  BY <1>3, NoAcksYet DEF UpdatesDst, Goto
<1>4. CASE UpdateBacklogMetrics
  BY <1>4, NoAcksYet DEF UpdateBacklogMetrics, Goto
<1>5. CASE Wait
  BY <1>5, NoAcksYet DEF Wait, Goto
<1>6. ASSUME NEW agedPackets \in SUBSET Chains, NEW agedAcks \in SUBSET Chains,
             Decide(agedPackets, agedAcks)
      PROVE  \A c \in Chains : AcksReady(c)'
  <2>1. pc = "decide" /\ pc' = "build" /\ UNCHANGED <<sh, acks>> /\ doAck' = Choices(acks, agedAcks)
    BY <1>6 DEF Decide, Goto
  <2>2. ASSUME NEW c \in Chains, acks[Other(c)] # {} PROVE doAck'[c]
    <3>1. /\ Other(c) \in agedAcks => doAck'[c]
          /\ Cardinality(acks[Other(c)]) >= OptCount[c] => doAck'[c]
      BY <2>1, <2>2 DEF Choices, ShouldExecuteRelay
    <3>2. CASE ~Patient
      BY <1>6, <2>2, <3>1, <3>2, OtherFacts DEF Decide
    <3>3. CASE OptCount[c] = 0
      <4>1. acks[Other(c)] \subseteq Seqs /\ IsFiniteSet(Seqs)
        BY OtherFacts, ChainAssumption, FS_Interval DEF TypeOK, Seqs
      <4>2. Cardinality(acks[Other(c)]) \in Nat
        BY <4>1, FS_Subset, FS_CardinalityType
      <4>3. Cardinality(acks[Other(c)]) >= OptCount[c]
        BY <3>3, <4>2
      <4> QED
        BY <3>1, <4>3
    <3> QED
      BY <3>2, <3>3 DEF AcksAtOnce
  <2> QED
    BY <1>h, <2>1, <2>2, OtherFacts DEF AcksReady, AcksListed
<1>7. ASSUME NEW c \in Chains, QueryPackets(c) PROVE \A d \in Chains : AcksReady(d)'
  BY <1>7, NoAcksYet DEF QueryPackets, Done, Goto
<1>8. ASSUME NEW c \in Chains, FilterUnreceived(c) PROVE \A d \in Chains : AcksReady(d)'
  BY <1>8, NoAcksYet DEF FilterUnreceived, Done, Goto
<1>9. ASSUME NEW c \in Chains, ProcessTimeoutPackets(c) PROVE \A d \in Chains : AcksReady(d)'
  <2>1. CASE todo = {c}
    <3>1. pc' = "acks" /\ todo' = Chains /\ sh' = sh /\ ackCtx' = [d \in Chains |-> sh[d].at]
      BY <1>9, <2>1 DEF ProcessTimeoutPackets, Done, Goto
    <3> QED
      BY <3>1 DEF AcksReady, AcksListed
  <2>2. CASE todo # {c}
    BY <1>9, <2>2, NoAcksYet DEF ProcessTimeoutPackets, Done
  <2> QED
    BY <2>1, <2>2
<1>10. ASSUME NEW c \in Chains, QueryAcks(c) PROVE \A d \in Chains : AcksReady(d)'
  <2>1. /\ pc = "acks" /\ pc' \in {"acks", "unreceivedAcks"} /\ sh' = sh
        /\ pc' = "acks" => ackCtx' = ackCtx
        /\ \A d \in Chains : AcksListed(d)' => d = c \/ AcksListed(d)
    BY <1>10 DEF QueryAcks, Done, Goto, AcksListed
  <2>2. QueriesAcks(c)
    BY OtherFacts DEF QueriesAcks, AcksAtOnce
  <2>3. /\ acks'[c] = QueryUnfinalizedRelayAcknowledgements(sh[c].at, Finalized(Other(c)))
        /\ \A d \in Chains \ {c} : acks'[d] = acks[d]
    BY <1>10, <2>1, <2>2 DEF QueryAcks, TypeOK, AcksReady
  <2>4. sh[c].at.recv \subseteq acks'[c] \cup Latest(Other(c)).acked
    <3>1. sh[c].at.recv \in SUBSET Seqs
      BY DEF TypeOK, Header, Store
    <3>2. acks'[c] = sh[c].at.recv \cap Commitments(Finalized(Other(c)))
      BY <2>3, <3>1, WholePage DEF QueryUnfinalizedRelayAcknowledgements, UnreceivedAcks
    <3>3. sh[c].at.recv \subseteq Recv(Other(c))
      BY ReadsThePast, OtherFacts DEF NotAfter, Recv
    <3>4. Recv(Other(c)) \subseteq Commitments(Finalized(Other(c))) \cup Latest(Other(c)).acked
      BY OtherFacts, NotAfterOrder, FinalIsSent, GoneIsAcked
    <3> QED
      BY <3>2, <3>3, <3>4
  <2> QED
    BY <1>h, <2>1, <2>3, <2>4, OtherFacts DEF AcksReady
<1>11. ASSUME NEW g \in Chains, RetryFetchDst(g) \/ RetryStore(g)
       PROVE  \A d \in Chains : AcksReady(d)'
  BY <1>11 DEF RetryFetchDst, RetryStore, ListsProvable, TypeOK
<1>12. ASSUME NEW c \in Chains, FilterAcks(c) PROVE \A d \in Chains : AcksReady(d)'
  <2>1. /\ pc = "unreceivedAcks" /\ pc' \in {"unreceivedAcks", "decide"} /\ sh' = sh
    BY <1>12 DEF FilterAcks, Done, Goto
  <2>2. /\ acks'[c] = acks[c] \cap Commitments(Latest(Other(c)))
        /\ \A d \in Chains \ {c} : acks'[d] = acks[d]
    BY <1>12 DEF FilterAcks, UnreceivedAcks, TypeOK
  <2>3. sh[c].at.recv \subseteq acks'[c] \cup Latest(Other(c)).acked
    <3>1. sh[c].at.recv \subseteq acks[c] \cup Latest(Other(c)).acked
      BY <2>1 DEF AcksReady, AcksListed
    <3>2. sh[c].at.recv \subseteq Recv(Other(c))
      BY ReadsThePast, OtherFacts DEF NotAfter, Recv
    <3>3. Recv(Other(c)) \subseteq Commitments(Latest(Other(c))) \cup Latest(Other(c)).acked
      BY OtherFacts, NotAfterOrder, FinalIsSent, GoneIsAcked
    <3> QED
      BY <2>2, <3>1, <3>2, <3>3
  <2> QED
    BY <1>h, <2>1, <2>2, <2>3, OtherFacts DEF AcksReady, AcksListed
<1>13. ASSUME NEW c \in Chains, Build(c) PROVE \A d \in Chains : AcksReady(d)'
  <2>1. CASE todo = {c}
    BY <1>13, <2>1, NoAcksYet DEF Build, Done, Goto
  <2>2. CASE todo # {c}
    BY <1>13, <1>h, <2>2, OtherFacts DEF Build, Done, AcksReady, AcksListed
  <2> QED
    BY <2>1, <2>2
<1>14. ASSUME NEW c \in Chains, BuildError(c) PROVE \A d \in Chains : AcksReady(d)'
  BY <1>14, NoAcksYet DEF BuildError, ServeFails, Goto
<1>15. ASSUME NEW c \in Chains, SendNothing(c) PROVE \A d \in Chains : AcksReady(d)'
  BY <1>15, NoAcksYet DEF SendNothing, AfterSend, Goto
<1>16. ASSUME NEW c \in Chains, Broadcast(c) PROVE \A d \in Chains : AcksReady(d)'
  BY <1>16, NoAcksYet DEF Broadcast, WaitPhase, Goto
<1>17. ASSUME NEW c \in Chains, SendRejected(c) PROVE \A d \in Chains : AcksReady(d)'
  BY <1>17, NoAcksYet DEF SendRejected, AfterSend, Goto
<1>18. ASSUME NEW c \in Chains, WaitForCommit(c) PROVE \A d \in Chains : AcksReady(d)'
  BY <1>18, NoAcksYet DEF WaitForCommit, AfterSend, Goto
<1> QED
  BY <1>1, <1>2, <1>3, <1>4, <1>5, <1>6, <1>7, <1>8, <1>9, <1>10, <1>11, <1>12, <1>13,
     <1>14, <1>15, <1>16, <1>17, <1>18 DEF ServeStep

\* The service builds a batch, or keeps or empties the batches it has.
LEMMA ServeStepBatches ==
    ASSUME TypeOK, ServeStep
    PROVE  \/ \E c \in Chains : Build(c)
           \/ \A c \in Chains : batch'[c] \in {batch[c], EmptyBatch}
BY DEF ServeStep, StartService, UpdatesSrc, UpdatesDst, UpdateBacklogMetrics, Wait, Decide,
       QueryPackets, FilterUnreceived, ProcessTimeoutPackets, QueryAcks, RetryFetchDst, RetryStore, FilterAcks,
       BuildError, ServeFails, SendNothing, SendRejected, Broadcast, WaitForCommit, NoBatches,
       TypeOK

\* The batch that Build makes acknowledges all packets before the one it times out.
LEMMA BuildAckedFirst ==
    ASSUME AcksAtOnce, TypeOK, ListsProvable, Ordered, faults = 0, NEW c \in Chains,
           AcksReady(c), AcksReady(Other(c)), pc = "build", NEW refresh \in BOOLEAN
    PROVE  AllBefore(MsgsTo(c, refresh).timeout, MsgsTo(c, refresh).ack \cup Latest(c).acked)
<1>o. Other(c) \in Chains /\ Other(Other(c)) = c
  BY OtherFacts
<1>1. MsgsTo(c, refresh).timeout = timeouts[c]
  BY DEF MsgsTo, RelayBatch
<1>2. ASSUME NEW n \in timeouts[c], NEW m \in Seqs, m < n
      PROVE  m \in acks[Other(c)] \cup Latest(c).acked
  <2>1. m \in sh[Other(c)].at.recv
    BY <1>2 DEF ListsProvable, ProvesNotReceived, IsNextSequenceReceive
  <2> QED
    BY <1>o, <2>1 DEF AcksReady, AcksListed
<1>3. acks[Other(c)] \subseteq MsgsTo(c, refresh).ack
  <2>1. acks[Other(c)] # {} => RelaysAcksTo(c) /\ doAck[c]
    BY <1>o DEF AcksReady, AcksAtOnce, RelaysAcksTo
  <2> QED
    BY <2>1 DEF MsgsTo, RelayBatch
<1> QED
  BY <1>1, <1>2, <1>3 DEF AllBefore

\* Lists stay ready when a chain adds a block.
LEMMA NextAcksReady ==
    ASSUME MaxSeq <= PageLimit, AcksAtOnce
    PROVE  /\ TypeOK /\ ViewsStayValid /\ FinalViews /\ MsgsSent /\ ListsInv /\ ListsProvable
           /\ AcksReadyInv /\ [Next]_vars
           => AcksReadyInv'
<1> SUFFICES ASSUME TypeOK, ViewsStayValid, FinalViews, MsgsSent, ListsInv, ListsProvable,
                    \A c \in Chains : AcksReady(c), [Next]_vars, faults = 0, ~FaultStep
             PROVE  \A c \in Chains : AcksReady(c)'
  BY FaultsStay DEF AcksReadyInv
<1>1. ASSUME UNCHANGED <<pc, todo, shVars, listVars>>
      PROVE  \A c \in Chains : AcksReady(c)'
  <2>1. \A c \in Chains : Latest(c).acked \subseteq Latest(c)'.acked
    BY AckedGrows
  <2> QED
    BY <1>1, <2>1, OtherFacts DEF AcksReady, AcksListed, shVars, listVars
<1>2. CASE ChainStep
  BY <1>1, <1>2, ChainStepAddsBlock
<1>3. CASE ServeStep
  BY <1>3, ServeStepAcksReady
<1>4. CASE UNCHANGED vars
  BY <1>1, <1>4 DEF vars
<1> QED
  BY <1>2, <1>3, <1>4 DEF Next

\* A transaction that times a packet out leaves nothing before it unacknowledged.
LEMMA BlockAckedFirst ==
    ASSUME TypeOK, ViewsStayValid, MsgsSent, NEW c \in Chains, AckedFirst(c), NEW s \in Store,
           MayFollow(c, s)
    PROVE  AllBefore(s.refunded, s.acked)
<1>1. Latest(c) \in Store /\ AllBefore(Latest(c).refunded, Latest(c).acked)
  BY ReadTypes DEF AckedFirst
<1>2. CASE s \in QuietStores(c)
  BY <1>1, <1>2, QuietFields
<1>3. ASSUME NEW b \in Batch, BlockTx(c, b), s = TxResult(Latest(c), b)
      PROVE  AllBefore(s.refunded, s.acked)
  <2>1. /\ s.acked = Latest(c).acked \cup (b.ack \cap Commitments(Latest(c)))
        /\ s.refunded \subseteq Latest(c).refunded \cup b.timeout
    BY <1>1, <1>3 DEF TxResult, Store
  <2>2. b.ack \subseteq s.acked
    <3>1. b.ack \subseteq Recv(c)
      BY <1>3, BlockTxRightful
    <3>2. Recv(c) \subseteq Commitments(Latest(c)) \cup Latest(c).acked
      BY NotAfterOrder, FinalIsSent, GoneIsAcked
    <3> QED
      BY <2>1, <3>1, <3>2
  <2>3. AllBefore(b.timeout, b.ack \cup Latest(c).acked)
    BY <1>3 DEF BlockTx, RivalTx, AckedFirst, AllBefore
  <2> QED
    BY <1>1, <2>1, <2>2, <2>3 DEF AllBefore
<1> QED
  BY <1>2, <1>3 DEF MayFollow

\* From the lists to the batch, the mempool and the chain, acknowledgements go first.
LEMMA NextAckedFirst ==
    ASSUME AcksAtOnce
    PROVE  /\ TypeOK /\ ViewsStayValid /\ FinalViews /\ MsgsSent /\ ListsProvable
           /\ AcksReadyInv /\ AckedFirstInv /\ [Next]_vars
           => AckedFirstInv'
<1> SUFFICES ASSUME TypeOK, ViewsStayValid, FinalViews, MsgsSent, ListsProvable, Ordered,
                    \A c \in Chains : AcksReady(c), \A c \in Chains : AckedFirst(c),
                    [Next]_vars, faults = 0, ~FaultStep, NEW d \in Chains
             PROVE  AckedFirst(d)'
  BY FaultsStay DEF AcksReadyInv, AckedFirstInv
<1>g. Latest(d).acked \subseteq Latest(d)'.acked
  BY AckedGrows
<1>e. EmptyBatch.timeout = {}
  BY DEF EmptyBatch
<1>1. CASE ChainStep
  <2>1. PICK c \in Chains, s \in Store :
            /\ AddBlock(c, s) /\ MayFollow(c, s) /\ MempoolShrinks /\ batch' = batch
    BY <1>1, ChainStepAddsBlock
  <2>2. Latest(c)' = s /\ Latest(Other(c))' = Latest(Other(c))
    BY <2>1, BlockShifts
  <2>3. AllBefore(Latest(d)'.refunded, Latest(d)'.acked)
    <3>1. CASE d = c
      BY <2>1, <2>2, <3>1, BlockAckedFirst
    <3>2. CASE d # c
      BY <2>2, <3>2 DEF Chains, Other, AckedFirst
    <3> QED
      BY <3>1, <3>2
  <2>4. AllBefore(mempool'[d].tx.timeout, mempool'[d].tx.ack \cup Latest(d)'.acked)
    BY <1>e, <1>g, <2>1 DEF MempoolShrinks, AckedFirst, AllBefore
  <2>5. AllBefore(batch'[d].timeout, batch'[d].ack \cup Latest(d)'.acked)
    BY <1>g, <2>1 DEF AckedFirst, AllBefore
  <2> QED
    BY <2>3, <2>4, <2>5 DEF AckedFirst
<1>2. CASE ServeStep
  <2>1. Latest(d)' = Latest(d) /\ mempool'[d].tx \in {mempool[d].tx, batch[d], EmptyBatch}
    BY <1>2, ServeStepEffects DEF Effects, MsgEffects, Latest
  <2>2. AllBefore(mempool'[d].tx.timeout, mempool'[d].tx.ack \cup Latest(d).acked)
    BY <1>e, <2>1 DEF AckedFirst, AllBefore
  <2>3. AllBefore(batch'[d].timeout, batch'[d].ack \cup Latest(d).acked)
    <3>1. CASE batch'[d] \in {batch[d], EmptyBatch}
      BY <1>e, <3>1 DEF AckedFirst, AllBefore
    <3>2. ASSUME NEW c \in Chains, Build(c), batch'[d] # batch[d]
          PROVE  AllBefore(batch'[d].timeout, batch'[d].ack \cup Latest(d).acked)
      <4>1. PICK refresh \in Refreshes(c) : batch' = [batch EXCEPT ![c] = MsgsTo(c, refresh)]
        BY <3>2 DEF Build
      <4>2. d = c /\ batch'[d] = MsgsTo(d, refresh) /\ refresh \in BOOLEAN /\ pc = "build"
        BY <3>2, <4>1, ServiceAssumption DEF Build, Refreshes, TypeOK
      <4> QED
        BY <4>2, OtherFacts, BuildAckedFirst
    <3> QED
      BY <1>2, <3>1, <3>2, ServeStepBatches
  <2> QED
    BY <2>1, <2>2, <2>3 DEF AckedFirst
<1>3. CASE UNCHANGED vars
  BY <1>3 DEF vars, chainVars, AckedFirst, Latest
<1> QED
  BY <1>1, <1>2, <1>3 DEF Next

\* At the start there are no packets.
LEMMA InitAckedFirst == Init => InSequence /\ AcksReadyInv /\ AckedFirstInv
<1> SUFFICES ASSUME Init
             PROVE  InSequence /\ \A c \in Chains : AcksReady(c) /\ AckedFirst(c)
  BY DEF AcksReadyInv, AckedFirstInv
<1>1. \A c \in Chains : Latest(c).recv = {} /\ Latest(c).refunded = {}
  BY Window DEF Init, Latest, EmptyStore
<1>2. InSequence
  BY <1>1, OtherFacts DEF InSequence, Recv
<1>3. \A c \in Chains : AcksReady(c)
  BY DEF Init, AcksReady, AcksListed
<1>4. \A c \in Chains : batch[c].timeout = {} /\ mempool[c].tx.timeout = {}
  BY DEF Init, NoBatches, NoTx, EmptyBatch
<1> QED
  BY <1>1, <1>2, <1>3, <1>4 DEF AckedFirst, AllBefore

\* On an ordered channel a relayer that meets no fault, lists all packets on one page and
\* does not hold back acknowledgements never closes the channel before all that was received
\* has been acknowledged, whatever other relayers do in the meantime.
THEOREM CloseCorrect ==
    ASSUME MaxSeq <= PageLimit, AcksAtOnce
    PROVE  Spec => []CloseStrandsNoAck
<1>1. /\ TypeOK /\ ViewsStayValid /\ FinalViews /\ MsgsSent /\ ListsInv /\ ListsProvable
      /\ AcksReadyInv /\ [Next]_vars
      => AcksReadyInv'
  BY NextAcksReady
<1>2. /\ TypeOK /\ ViewsStayValid /\ FinalViews /\ MsgsSent /\ ListsProvable
      /\ AcksReadyInv /\ AckedFirstInv /\ [Next]_vars
      => AckedFirstInv'
  BY NextAckedFirst
<1>3. TypeOK /\ ViewsStayValid /\ InSequence /\ AckedFirstInv => CloseStrandsNoAck
  <2> SUFFICES ASSUME TypeOK, ViewsStayValid, InSequence, AckedFirstInv, Ordered, faults = 0,
                      NEW c \in Chains, NEW n \in Latest(c).refunded, NEW m \in Recv(c)
               PROVE  m \in Latest(c).acked
    BY DEF CloseStrandsNoAck
  <2>1. n \in Seqs /\ m \in Seqs
    BY ReadTypes, OtherFacts DEF Store, Recv
  <2>2. n \notin Recv(c)
    BY DEF ViewsStayValid, SettledRightly
  <2>3. m < n
    <3>1. m # n
      BY <2>2
    <3>2. ~(n < m)
      BY <2>1, <2>2 DEF InSequence
    <3>3. m \in Nat /\ n \in Nat
      BY <2>1, ChainAssumption DEF Seqs
    <3> QED
      BY <3>1, <3>2, <3>3
  <2> QED
    BY <2>1, <2>3 DEF AckedFirstInv, AckedFirst, AllBefore
<1> QED
  BY <1>1, <1>2, <1>3, TypeCorrect, ViewsCorrect, FinalViewsCorrect, ListsInvCorrect, InitMsgsSent,
     NextMsgsSent, InitProvable, NextListsProvable, InitAckedFirst, NextInSequence, PTL DEF Spec

=============================================================================
