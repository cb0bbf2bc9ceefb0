------------------------ MODULE RelayService_proofs ------------------------
(***************************************************************************)
(* Theorems about RelayService, for every value of its constants.          *)
(***************************************************************************)
EXTENDS RelayService, TLAPS

\* The other chain is the other one.
LEMMA OtherFacts ==
    \A c \in Chains : Other(c) \in Chains /\ Other(c) # c /\ Other(Other(c)) = c
BY DEF Chains, Other

\* The window of blocks the relayer can see is not empty and holds the finalized block.
LEMMA Window == Depth \in Nat /\ 0 \in 0..Depth /\ Delay \in 0..Depth /\ Depth \in 0..Depth
BY ServiceAssumption DEF Depth

\* Stores, headers and batches that hold nothing are well formed.
LEMMA EmptyTypes ==
    /\ EmptyStore \in Store
    /\ EmptyHeader \in Header
    /\ EmptyBatch \in Batch
    /\ NoHeaders \in [Chains -> Header]
    /\ NoStores \in [Chains -> Store]
    /\ NoPackets \in [Chains -> SUBSET Seqs]
    /\ Nothing \in [Chains -> BOOLEAN]
    /\ NoBatches \in [Chains -> Batch]
BY DEF EmptyStore, EmptyHeader, EmptyBatch, Store, Header, Batch, NoHeaders, NoStores,
       NoPackets, Nothing, NoBatches

\* What the relayer reads of a chain is well formed.
LEMMA ReadTypes ==
    ASSUME TypeOK, NEW c \in Chains
    PROVE  Latest(c) \in Store /\ Finalized(c) \in Store /\ FinalizedHeader(c) \in Header
BY Window DEF TypeOK, Latest, Finalized, FinalizedHeader, Header

\* A transaction leaves a well-formed store.
LEMMA TxResultType ==
    ASSUME NEW s \in Store, NEW b \in Batch
    PROVE  TxResult(s, b) \in Store
BY DEF TxResult, Store, Batch, Commitments

\* The messages built for a chain are a well-formed batch.
LEMMA MsgsType ==
    ASSUME TypeOK, NEW c \in Chains, NEW refresh \in BOOLEAN
    PROVE  MsgsTo(c, refresh) \in Batch
<1>1. Other(c) \in Chains
  BY OtherFacts
<1>2. sh[Other(c)] \in Header /\ EmptyHeader \in Header
  BY <1>1, EmptyTypes DEF TypeOK
<1>3. /\ packets[Other(c)] \in SUBSET Seqs /\ acks[Other(c)] \in SUBSET Seqs
      /\ timeouts[c] \in SUBSET Seqs /\ doRelay[c] \in BOOLEAN /\ doAck[c] \in BOOLEAN
  BY <1>1 DEF TypeOK
<1>4. NeedsUpdate(c, doRelay[c], doAck[c], timeouts[c] # {}) \in BOOLEAN
  BY <1>3 DEF NeedsUpdate
<1> QED
  BY <1>2, <1>3, <1>4 DEF MsgsTo, RelayBatch, Batch

\* The lists the strategy makes hold sequences.
LEMMA ListTypes ==
    ASSUME NEW s \in Store, NEW t \in Store, NEW S \in SUBSET Seqs, NEW a \in BOOLEAN
    PROVE  /\ QueryUnfinalizedRelayPackets(s, t) \in SUBSET Seqs
           /\ QueryUnfinalizedRelayAcknowledgements(s, t) \in SUBSET Seqs
           /\ UnreceivedPackets(s, S) \in SUBSET Seqs
           /\ UnreceivedAcks(s, S) \in SUBSET Seqs
           /\ TimeoutPackets(S, s, a) \in SUBSET Seqs
           /\ KeptPackets(S, s, t) \in SUBSET Seqs
BY DEF QueryUnfinalizedRelayPackets, QueryUnfinalizedRelayAcknowledgements, Page,
       UnreceivedPackets, UnreceivedAcks, TimeoutPackets, KeptPackets, Commitments, Store

\* A new block keeps the window of blocks well formed.
LEMMA AddBlockType ==
    ASSUME TypeOK, NEW c \in Chains, NEW s \in Store, AddBlock(c, s)
    PROVE  hist' \in [Chains -> [0..Depth -> Store]]
<1> DEFINE w == [i \in 0..Depth |-> IF i = 0 THEN s ELSE hist[c][i - 1]]
<1>1. hist \in [Chains -> [0..Depth -> Store]]
  BY DEF TypeOK
<1>2. w \in [0..Depth -> Store]
  <2> SUFFICES ASSUME NEW i \in 0..Depth, i # 0
               PROVE  hist[c][i - 1] \in Store
    OBVIOUS
  <2>1. i - 1 \in 0..Depth
    BY Window
  <2> QED
    BY <1>1, <2>1
<1>3. hist' = [hist EXCEPT ![c] = w]
  BY DEF AddBlock
<1> HIDE DEF w
<1> QED
  BY <1>1, <1>2, <1>3

\* A block without the relayer's transaction changes the chain's history only, and the
\* mempool at most by forgetting a transaction that is confirmed.
LEMMA OtherBlockType ==
    ASSUME TypeOK, NEW c \in Chains, NEW s \in Store, OtherBlock(c, s)
    PROVE  TypeOK'
<1>1. hist' \in [Chains -> [0..Depth -> Store]]
  BY AddBlockType DEF OtherBlock
<1>2. mempool' \in [Chains -> [status : {"none", "pending", "committed"}, tx : Batch]]
  BY EmptyTypes DEF OtherBlock, TypeOK, NoTx
<1> QED
  BY <1>1, <1>2 DEF OtherBlock, TypeOK, shVars, listVars, statVars

\* Moving to another phase starts its goroutines.
LEMMA PhaseTypes ==
    ASSUME TypeOK, NEW p \in Phases
    PROVE  /\ Goto(p) => pc' \in Phases /\ todo' \in SUBSET Chains
           /\ \A g : Done(g, p) => /\ pc' \in Phases /\ todo' \in SUBSET Chains
                                   /\ pc' \in {pc, p}
BY DEF Goto, Done, TypeOK

(***************************************************************************)
(* Type correctness.  The count of failed attempts needs a strengthening:  *)
(* Serve is tried again only while attempts are left.                      *)
(***************************************************************************)
AttemptsLeft == pc # "stopped" => attempts < RtyAttNum

TypeInv == TypeOK /\ AttemptsLeft

\* NewRelayService starts with well-formed state and no failed attempt.
LEMMA InitTypeInv == Init => TypeInv
BY EmptyTypes, ServiceAssumption
   DEF Init, TypeInv, TypeOK, AttemptsLeft, NoTx, Phases, Chains

\* Blocks, with or without a transaction of the relayer, keep all variables well formed.
LEMMA ChainStepTypeInv ==
    ASSUME TypeInv, ChainStep
    PROVE  TypeInv'
<1> USE DEF TypeInv
<1>1. PICK c \in Chains :
         NewBlock(c) \/ SendPacket(c) \/ Expire(c) \/ RivalRelay(c) \/ ExecTx(c)
  BY DEF ChainStep
<1>2. Latest(c) \in Store /\ Latest(Other(c)) \in Store
  BY ReadTypes, OtherFacts
<1>3. CASE NewBlock(c)
  BY <1>2, <1>3, OtherBlockType DEF NewBlock, OtherBlock, AttemptsLeft
<1>4. CASE SendPacket(c)
  <2>1. PICK n \in 1..Traffic[c] : OtherBlock(c, [Latest(c) EXCEPT !.sent = @ \cup {n}])
    BY <1>4 DEF SendPacket
  <2>2. n \in Seqs
    BY <2>1, ServiceAssumption, ChainAssumption DEF Seqs
  <2>3. [Latest(c) EXCEPT !.sent = @ \cup {n}] \in Store
    BY <1>2, <2>2 DEF Store
  <2> QED
    BY <2>1, <2>3, OtherBlockType DEF OtherBlock, AttemptsLeft
<1>5. CASE Expire(c)
  <2>1. PICK n \in (Mortal[Other(c)] \cap Latest(Other(c)).sent) \ Latest(c).expired :
            OtherBlock(c, [Latest(c) EXCEPT !.expired = @ \cup {n}])
    BY <1>5 DEF Expire
  <2>2. n \in Seqs
    BY <2>1, OtherFacts, ServiceAssumption
  <2>3. [Latest(c) EXCEPT !.expired = @ \cup {n}] \in Store
    BY <1>2, <2>2 DEF Store
  <2> QED
    BY <2>1, <2>3, OtherBlockType DEF OtherBlock, AttemptsLeft
<1>6. CASE RivalRelay(c)
  <2>1. PICK n \in Seqs, kind \in {"recv", "ack"} :
            OtherBlock(c, TxResult(Latest(c),
                [update |-> TRUE, hdr |-> FinalizedHeader(Other(c)),
                 recv |-> IF kind = "recv" THEN {n} ELSE {},
                 ack |-> IF kind = "ack" THEN {n} ELSE {},
                 timeout |-> {}]))
    BY <1>6 DEF RivalRelay
  <2>2. FinalizedHeader(Other(c)) \in Header
    BY ReadTypes, OtherFacts
  <2> DEFINE b == [update |-> TRUE, hdr |-> FinalizedHeader(Other(c)),
                   recv |-> IF kind = "recv" THEN {n} ELSE {},
                   ack |-> IF kind = "ack" THEN {n} ELSE {},
                   timeout |-> {}]
  <2>3. b \in Batch
    BY <2>1, <2>2 DEF Batch
  <2>4. TxResult(Latest(c), b) \in Store
    BY <1>2, <2>3, TxResultType
  <2> QED
    BY <2>1, <2>4, OtherBlockType DEF OtherBlock, AttemptsLeft
<1>7. CASE ExecTx(c)
  <2> DEFINE b == mempool[c].tx
             s == IF TxAccepted(Latest(c), b) THEN TxResult(Latest(c), b) ELSE Latest(c)
  <2>1. b \in Batch
    BY DEF TypeOK
  <2>2. s \in Store
    BY <1>2, <2>1, TxResultType
  <2>3. AddBlock(c, s)
    BY <1>7 DEF ExecTx
  <2>4. hist' \in [Chains -> [0..Depth -> Store]]
    BY <2>2, <2>3, AddBlockType
  <2>5. mempool' \in [Chains -> [status : {"none", "pending", "committed"}, tx : Batch]]
    BY <1>7, EmptyTypes DEF ExecTx, TypeOK
  <2> QED
    BY <1>7, <2>4, <2>5 DEF ExecTx, TypeOK, AttemptsLeft, shVars, listVars, statVars
<1> QED
  BY <1>1, <1>3, <1>4, <1>5, <1>6, <1>7

\* Every phase the service moves to is a phase.
LEMMA PhaseNames ==
    /\ \A c \in Chains : SendPhase(c) \in Phases /\ WaitPhase(c) \in Phases
    /\ FailingPhases \subseteq Phases /\ "stopped" \notin FailingPhases
    /\ \A c \in Chains : SendPhase(c) # "stopped" /\ WaitPhase(c) # "stopped"
BY DEF Phases, FailingPhases, SendPhase, WaitPhase

\* A failure of Serve leaves well-formed state behind and uses up one attempt.
LEMMA ServeFailsType ==
    ASSUME TypeInv, pc # "stopped", ServeFails,
           UNCHANGED <<chainVars, sh, statVars>>, faults' \in 0..MaxFaults
    PROVE  TypeInv'
<1>1. attempts + 1 \in 0..RtyAttNum
  BY ServiceAssumption DEF TypeInv, TypeOK, AttemptsLeft
<1>2. pc' \in Phases /\ todo' \in SUBSET Chains
  BY DEF ServeFails, Goto, Phases
<1>3. AttemptsLeft'
  BY <1>1, ServiceAssumption DEF ServeFails, Goto, AttemptsLeft
<1> QED
  BY <1>1, <1>2, <1>3, EmptyTypes
  DEF TypeInv, TypeOK, ServeFails, Forget, chainVars, statVars

\* What follows a send is a phase, and the attempts start afresh after Serve.
LEMMA AfterSendType ==
    ASSUME TypeInv, pc # "stopped", NEW c \in Chains, AfterSend(c)
    PROVE  /\ pc' \in Phases /\ todo' \in SUBSET Chains
           /\ attempts' \in 0..RtyAttNum /\ AttemptsLeft'
BY ServiceAssumption DEF AfterSend, Goto, TypeInv, TypeOK, AttemptsLeft, Phases

\* A fault is counted.
LEMMA FaultType == ASSUME TypeOK, Fault PROVE faults' \in 0..MaxFaults
BY ServiceAssumption DEF Fault, TypeOK

\* A step of the sh.Updates that an OnRetry callback runs, before it stores the headers.
RetryStep(g) == RetryFetchSrc(g) \/ RetryFetchDst(g) \/ RetryFetchError(g)

\* Such a step changes only the headers of its own goroutine, to finalized ones or none.
LEMMA RetryEffects ==
    ASSUME TypeOK, NEW g \in Chains, RetryStep(g)
    PROVE  /\ pc = "acks" /\ g \in todo \cup fetching
           /\ UNCHANGED <<chainVars, pc, todo, attempts, sh, ackCtx, listVars, batch, statVars>>
           /\ got' \in [Chains -> [Chains -> Header]]
           /\ \A h \in Chains : h # g => got'[h] = got[h]
           /\ \A c \in Chains : got'[g][c] \in {got[g][c], EmptyHeader, FinalizedHeader(c)}
           /\ fetching' \in SUBSET Chains /\ fetched' \in SUBSET fetching'
           /\ faults' \in 0..MaxFaults
<1>h. \A c \in Chains : FinalizedHeader(c) \in Header
  BY ReadTypes
<1>g. got \in [Chains -> [Chains -> Header]] /\ fetching \in SUBSET Chains
      /\ fetched \in SUBSET fetching /\ faults \in 0..MaxFaults
  BY DEF TypeOK
<1>1. CASE RetryFetchSrc(g)
  <2> DEFINE new == [NoHeaders EXCEPT !["src"] = FinalizedHeader("src")]
  <2>1. new \in [Chains -> Header] /\ \A c \in Chains : new[c] \in {EmptyHeader, FinalizedHeader(c)}
    BY <1>h, EmptyTypes DEF Chains, NoHeaders
  <2>2. got' = [got EXCEPT ![g] = new]
    BY <1>1 DEF RetryFetchSrc
  <2> HIDE DEF new
  <2>3. /\ got' \in [Chains -> [Chains -> Header]] /\ got'[g] = new
        /\ \A h \in Chains : h # g => got'[h] = got[h]
    BY <1>g, <2>1, <2>2
  <2> QED
    BY <1>1, <1>g, <2>1, <2>3, FaultType DEF RetryFetchSrc
<1>2. CASE RetryFetchDst(g)
  <2> DEFINE new == [got[g] EXCEPT !["dst"] = FinalizedHeader("dst")]
  <2>1. new \in [Chains -> Header] /\ \A c \in Chains : new[c] \in {got[g][c], FinalizedHeader(c)}
    BY <1>g, <1>h DEF Chains
  <2>2. got' = [got EXCEPT ![g] = new]
    BY <1>2 DEF RetryFetchDst
  <2> HIDE DEF new
  <2>3. /\ got' \in [Chains -> [Chains -> Header]] /\ got'[g] = new
        /\ \A h \in Chains : h # g => got'[h] = got[h]
    BY <1>g, <2>1, <2>2
  <2> QED
    BY <1>2, <1>g, <2>1, <2>3 DEF RetryFetchDst
<1>3. CASE RetryFetchError(g)
  <2>1. NoHeaders \in [Chains -> Header] /\ \A c \in Chains : NoHeaders[c] = EmptyHeader
    BY EmptyTypes DEF NoHeaders
  <2>2. got' = [got EXCEPT ![g] = NoHeaders]
    BY <1>3 DEF RetryFetchError
  <2>3. /\ got' \in [Chains -> [Chains -> Header]] /\ got'[g] = NoHeaders
        /\ \A h \in Chains : h # g => got'[h] = got[h]
    BY <1>g, <2>1, <2>2
  <2>4. fetched' \in SUBSET fetching' /\ fetching' \in SUBSET Chains
    BY <1>3, <1>g DEF RetryFetchError
  <2> QED
    BY <1>3, <1>g, <2>1, <2>3, <2>4, FaultType DEF RetryFetchError
<1> QED
  BY <1>1, <1>2, <1>3 DEF RetryStep

\* It keeps all variables well formed.
LEMMA RetryTypeInv ==
    ASSUME TypeInv, NEW g \in Chains, RetryStep(g)
    PROVE  TypeInv'
<1>1. TypeOK
  BY DEF TypeInv
<1> QED
  BY <1>1, RetryEffects DEF TypeInv, TypeOK, AttemptsLeft, chainVars, listVars, statVars

\* Every step of StartService and Serve keeps all variables well formed.
LEMMA ServeStepTypeInv ==
    ASSUME TypeInv, ServeStep
    PROVE  TypeInv'
<1> USE DEF TypeInv
<1>h. \A c \in Chains : FinalizedHeader(c) \in Header
  BY ReadTypes
<1>s. \A c \in Chains : Latest(c) \in Store /\ Finalized(c) \in Store
  BY ReadTypes
<1>a. \A c \in Chains : sh[c].at \in Store /\ ackCtx[c] \in Store
  BY DEF TypeOK, Header
<1>p. ASSUME NEW p \in Phases \ {"stopped"}, pc # "stopped", attempts' = attempts,
             Goto(p) \/ \E g \in Chains : Done(g, p)
      PROVE  pc' \in Phases /\ todo' \in SUBSET Chains /\ AttemptsLeft'
  BY <1>p, PhaseTypes DEF AttemptsLeft, Goto
<1>1. CASE StartService
  <2>1. pc' \in Phases /\ todo' \in SUBSET Chains /\ AttemptsLeft'
    BY <1>1, <1>p DEF StartService, Phases
  <2> QED
    BY <1>1, <2>1, <1>h DEF StartService, TypeOK, chainVars, listVars, statVars
<1>2. CASE UpdatesSrc
  <2>1. pc' \in Phases /\ todo' \in SUBSET Chains /\ AttemptsLeft'
    BY <1>2, <1>p DEF UpdatesSrc, Phases
  <2>2. [NoHeaders EXCEPT !["src"] = FinalizedHeader("src")] \in [Chains -> Header]
    BY <1>h, EmptyTypes DEF Chains
  <2> QED
    BY <1>2, <2>1, <2>2 DEF UpdatesSrc, TypeOK, chainVars, listVars, statVars
<1>3. CASE UpdatesDst
  <2>1. pc' \in Phases /\ todo' \in SUBSET Chains /\ AttemptsLeft'
    BY <1>3, <1>p DEF UpdatesDst, Phases
  <2>2. [got["src"] EXCEPT !["dst"] = FinalizedHeader("dst")] \in [Chains -> Header]
    BY <1>h DEF Chains, TypeOK
  <2>3. got' \in [Chains -> [Chains -> Header]]
    BY <1>3, EmptyTypes DEF UpdatesDst, TypeOK
  <2> QED
    BY <1>3, <2>1, <2>2, <2>3 DEF UpdatesDst, TypeOK, chainVars, listVars, statVars
<1>4. CASE UpdateBacklogMetrics
  <2>1. pc' \in Phases /\ todo' \in SUBSET Chains /\ AttemptsLeft'
    BY <1>4, <1>p DEF UpdateBacklogMetrics, Phases
  <2>2. counted' \in [Chains -> SUBSET Seqs] /\ backlog' \in [Chains -> SUBSET Seqs]
    BY <1>4 DEF UpdateBacklogMetrics, TypeOK
  <2> QED
    BY <1>4, <2>1, <2>2 DEF UpdateBacklogMetrics, TypeOK, chainVars, shVars, listVars
<1>5. CASE Wait
  <2>1. pc' \in Phases /\ todo' \in SUBSET Chains /\ AttemptsLeft'
    BY <1>5, <1>p DEF Wait, Phases
  <2> QED
    BY <1>5, <2>1 DEF Wait, TypeOK, chainVars, shVars, listVars, statVars
<1>6. ASSUME NEW agedPackets \in SUBSET Chains, NEW agedAcks \in SUBSET Chains,
             Decide(agedPackets, agedAcks)
      PROVE  TypeInv'
  <2>1. pc' \in Phases /\ todo' \in SUBSET Chains /\ AttemptsLeft'
    BY <1>6, <1>p DEF Decide, Phases
  <2>2. doRelay' \in [Chains -> BOOLEAN] /\ doAck' \in [Chains -> BOOLEAN]
    BY <1>6 DEF Decide, Choices, ShouldExecuteRelay
  <2> QED
    BY <1>6, <2>1, <2>2 DEF Decide, TypeOK, chainVars, shVars, statVars
<1>7. ASSUME NEW c \in Chains, QueryPackets(c) PROVE TypeInv'
  <2>1. pc' \in Phases /\ todo' \in SUBSET Chains /\ AttemptsLeft'
    BY <1>7, <1>p DEF QueryPackets, Phases
  <2>2. packets' \in [Chains -> SUBSET Seqs]
    <3>1. QueryUnfinalizedRelayPackets(sh[c].at, Finalized(Other(c))) \in SUBSET Seqs
      BY <1>a, <1>s, OtherFacts, ListTypes
    <3> QED
      BY <1>7, <3>1 DEF QueryPackets, TypeOK
  <2> QED
    BY <1>7, <2>1, <2>2 DEF QueryPackets, TypeOK, chainVars, shVars, statVars
<1>8. ASSUME NEW c \in Chains, FilterUnreceived(c) PROVE TypeInv'
  <2>1. pc' \in Phases /\ todo' \in SUBSET Chains /\ AttemptsLeft'
    BY <1>8, <1>p DEF FilterUnreceived, Phases
  <2>2. packets' \in [Chains -> SUBSET Seqs]
    BY <1>8 DEF FilterUnreceived, UnreceivedPackets, TypeOK
  <2> QED
    BY <1>8, <2>1, <2>2 DEF FilterUnreceived, TypeOK, chainVars, shVars, statVars
<1>9. ASSUME NEW c \in Chains, ProcessTimeoutPackets(c) PROVE TypeInv'
  <2>1. pc' \in Phases /\ todo' \in SUBSET Chains /\ AttemptsLeft'
    BY <1>9, <1>p DEF ProcessTimeoutPackets, Phases
  <2>2. PICK answered \in BOOLEAN :
            /\ faults' = faults \/ Fault
            /\ timeouts' = [timeouts EXCEPT ![c] =
                              TimeoutPackets(packets[c], sh[Other(c)].at, answered)]
    BY <1>9 DEF ProcessTimeoutPackets
  <2>3. /\ TimeoutPackets(packets[c], sh[Other(c)].at, answered) \in SUBSET Seqs
        /\ KeptPackets(packets[c], sh[Other(c)].at, Latest(Other(c))) \in SUBSET Seqs
    <3>1. packets[c] \in SUBSET Seqs /\ sh[Other(c)].at \in Store /\ Latest(Other(c)) \in Store
      BY <1>a, <1>s, OtherFacts DEF TypeOK
    <3> QED
      BY <3>1, ListTypes
  <2>4. timeouts' \in [Chains -> SUBSET Seqs] /\ packets' \in [Chains -> SUBSET Seqs]
    BY <1>9, <2>2, <2>3 DEF ProcessTimeoutPackets, TypeOK
  <2>5. ackCtx' \in [Chains -> Store]
    BY <1>9, <1>a DEF ProcessTimeoutPackets, TypeOK
  <2>6. faults' \in 0..MaxFaults
    BY <2>2, FaultType DEF TypeOK
  <2> QED
    BY <1>9, <2>1, <2>4, <2>5, <2>6 DEF ProcessTimeoutPackets, TypeOK, chainVars, statVars
<1>10. ASSUME NEW c \in Chains, QueryAcks(c) PROVE TypeInv'
  <2>1. pc' \in Phases /\ todo' \in SUBSET Chains /\ AttemptsLeft'
    BY <1>10, <1>p DEF QueryAcks, Phases
  <2>2. acks' \in [Chains -> SUBSET Seqs]
    <3>1. QueryUnfinalizedRelayAcknowledgements(ackCtx[c], Finalized(Other(c))) \in SUBSET Seqs
      BY <1>a, <1>s, OtherFacts, ListTypes
    <3> QED
      BY <1>10, <3>1 DEF QueryAcks, TypeOK
  <2>3. ackCtx' \in [Chains -> Store]
    BY <1>10, EmptyTypes DEF QueryAcks, TypeOK
  <2> QED
    BY <1>10, <2>1, <2>2, <2>3 DEF QueryAcks, TypeOK, chainVars, statVars
<1>11. ASSUME NEW c \in Chains, RetryStore(c) PROVE TypeInv'
  <2>1. sh' \in [Chains -> Header] /\ got' \in [Chains -> [Chains -> Header]]
    BY <1>11, EmptyTypes DEF RetryStore, TypeOK
  <2> QED
    BY <1>11, <2>1 DEF RetryStore, TypeOK, AttemptsLeft, chainVars, listVars, statVars
<1>12. ASSUME NEW c \in Chains, FilterAcks(c) PROVE TypeInv'
  <2>1. pc' \in Phases /\ todo' \in SUBSET Chains /\ AttemptsLeft'
    BY <1>12, <1>p DEF FilterAcks, Phases
  <2>2. acks' \in [Chains -> SUBSET Seqs]
    BY <1>12 DEF FilterAcks, UnreceivedAcks, TypeOK
  <2> QED
    BY <1>12, <2>1, <2>2 DEF FilterAcks, TypeOK, chainVars, shVars, statVars
<1>13. ASSUME NEW c \in Chains, Build(c) PROVE TypeInv'
  <2>1. pc' \in Phases /\ todo' \in SUBSET Chains /\ AttemptsLeft'
    BY <1>13, <1>p DEF Build, Phases
  <2>2. PICK refresh \in Refreshes(c) : batch' = [batch EXCEPT ![c] = MsgsTo(c, refresh)]
    BY <1>13 DEF Build
  <2>3. refresh \in BOOLEAN
    BY ServiceAssumption DEF Refreshes
  <2>4. batch' \in [Chains -> Batch]
    BY <2>2, <2>3, MsgsType DEF TypeOK
  <2>5. /\ packets' \in [Chains -> SUBSET Seqs] /\ timeouts' \in [Chains -> SUBSET Seqs]
        /\ acks' \in [Chains -> SUBSET Seqs]
        /\ doRelay' \in [Chains -> BOOLEAN] /\ doAck' \in [Chains -> BOOLEAN]
    BY <1>13, EmptyTypes DEF Build, Forget, listVars, TypeOK
  <2> QED
    BY <1>13, <2>1, <2>4, <2>5 DEF Build, TypeOK, chainVars, shVars, statVars
<1>14. ASSUME NEW c \in Chains, BuildError(c) PROVE TypeInv'
  BY <1>14, ServeFailsType DEF BuildError, TypeOK
<1>15. ASSUME NEW c \in Chains, SendNothing(c) PROVE TypeInv'
  BY <1>15, PhaseNames, AfterSendType
  DEF SendNothing, TypeOK, chainVars, shVars, listVars, statVars
<1>16. ASSUME NEW c \in Chains, Broadcast(c) PROVE TypeInv'
  <2>1. pc' \in Phases /\ todo' \in SUBSET Chains /\ AttemptsLeft'
    BY <1>16, <1>p, PhaseNames DEF Broadcast
  <2>2. mempool' \in [Chains -> [status : {"none", "pending", "committed"}, tx : Batch]]
    BY <1>16 DEF Broadcast, TypeOK
  <2>3. batch' \in [Chains -> Batch]
    BY <1>16, EmptyTypes DEF Broadcast, TypeOK
  <2> QED
    BY <1>16, <2>1, <2>2, <2>3 DEF Broadcast, TypeOK, shVars, listVars, statVars
<1>17. ASSUME NEW c \in Chains, SendRejected(c) PROVE TypeInv'
  <2>1. batch' \in [Chains -> Batch]
    BY <1>17, EmptyTypes DEF SendRejected, TypeOK
  <2> QED
    BY <1>17, <2>1, PhaseNames, AfterSendType
    DEF SendRejected, TypeOK, chainVars, shVars, listVars, statVars
<1>18. ASSUME NEW c \in Chains, WaitForCommit(c) PROVE TypeInv'
  BY <1>18, PhaseNames, AfterSendType
  DEF WaitForCommit, TypeOK, chainVars, shVars, listVars, statVars
<1>19. ASSUME NEW c \in Chains, RetryFetchDst(c) PROVE TypeInv'
  BY <1>19, RetryTypeInv DEF RetryStep
<1> QED
  BY <1>1, <1>2, <1>3, <1>4, <1>5, <1>6, <1>7, <1>8, <1>9, <1>10, <1>11, <1>12, <1>13,
     <1>14, <1>15, <1>16, <1>17, <1>18, <1>19 DEF ServeStep

\* So do RPC errors, lost transactions, impatience and crashes.
LEMMA FaultStepTypeInv ==
    ASSUME TypeInv, FaultStep
    PROVE  TypeInv'
<1> USE DEF TypeInv
<1>1. CASE StartServiceError
  BY <1>1, FaultType
  DEF StartServiceError, TypeOK, AttemptsLeft, Goto, Phases, chainVars, shVars, listVars,
      statVars
<1>2. CASE ServeError
  BY <1>2, PhaseNames, FaultType, ServeFailsType DEF ServeError
<1>3. CASE TimestampError
  <2>1. doRelay' \in [Chains -> BOOLEAN] /\ doAck' \in [Chains -> BOOLEAN]
    BY <1>3, EmptyTypes DEF TimestampError, Choices, ShouldExecuteRelay
  <2> QED
    BY <1>3, <2>1, FaultType
    DEF TimestampError, TypeOK, AttemptsLeft, Goto, Phases, chainVars, shVars, statVars
<1>4. CASE Crash
  <2>1. got' \in [Chains -> [Chains -> Header]]
    BY <1>4, EmptyTypes DEF Crash
  <2> QED
    BY <1>4, <2>1, EmptyTypes, FaultType, ServiceAssumption
    DEF Crash, TypeOK, AttemptsLeft, Goto, Forget, Phases, chainVars
<1>5. ASSUME NEW c \in Chains, DropTx(c) PROVE TypeInv'
  <2>1. mempool' \in [Chains -> [status : {"none", "pending", "committed"}, tx : Batch]]
    BY <1>5, EmptyTypes DEF DropTx, TypeOK, NoTx
  <2> QED
    BY <1>5, <2>1, FaultType DEF DropTx, TypeOK, AttemptsLeft, shVars, listVars, statVars
<1>6. ASSUME NEW c \in Chains, RetryFetchSrc(c) \/ RetryFetchError(c) PROVE TypeInv'
  BY <1>6, RetryTypeInv DEF RetryStep
<1>7. ASSUME NEW c \in Chains, GiveUpWaiting(c) PROVE TypeInv'
  BY <1>7, PhaseNames, FaultType, AfterSendType
  DEF GiveUpWaiting, TypeOK, chainVars, shVars, listVars, statVars
<1> QED
  BY <1>1, <1>2, <1>3, <1>4, <1>5, <1>6, <1>7 DEF FaultStep

\* TypeInv is inductive.
LEMMA NextTypeInv == TypeInv /\ [Next]_vars => TypeInv'
<1>1. CASE UNCHANGED vars
  BY <1>1 DEF vars, chainVars, shVars, listVars, statVars, TypeInv, TypeOK, AttemptsLeft
<1> QED
  BY <1>1, ChainStepTypeInv, ServeStepTypeInv, FaultStepTypeInv DEF Next

\* Every variable keeps its type; in particular Serve is never retried more often than
\* the attempts of retry.Do in RelayService.Start allow.
THEOREM TypeCorrect == Spec => []TypeOK
<1>1. TypeInv => TypeOK
  BY DEF TypeInv
<1> QED
  BY <1>1, InitTypeInv, NextTypeInv, PTL DEF Spec

-----------------------------------------------------------------------------
(***************************************************************************)
(* Packets are never both delivered and refunded.  ViewsStayValid is       *)
(* inductive together with TypeOK.  Blocks preserve it because stores only *)
(* grow and nothing expired is received any more; the service preserves it *)
(* because it only concludes what follows from a store of the past.        *)
(***************************************************************************)

\* "Not after" is a preorder.
LEMMA NotAfterOrder ==
    /\ \A s : NotAfter(s, s)
    /\ \A r, s, t : NotAfter(r, s) /\ NotAfter(s, t) => NotAfter(r, t)
    /\ \A s \in Store : NotAfter(EmptyStore, s)
BY DEF NotAfter, EmptyStore

\* The store s may follow the latest store of chain c.
Grows(c, s) ==
    /\ NotAfter(Latest(c), s)
    /\ (s.recv \ Latest(c).recv) \cap Latest(c).expired = {}
    /\ s.acked \subseteq Recv(c)
    /\ s.refunded \subseteq Latest(Other(c)).expired \ Recv(c)

\* The mempools hold no transaction they did not hold before.
MempoolShrinks == \A c \in Chains : mempool'[c].tx \in {mempool[c].tx, EmptyBatch}

\* A new block whose store grows by the rules of the chain keeps all views valid.
LEMMA BlockKeepsViews ==
    ASSUME TypeOK, ViewsStayValid, NEW c \in Chains, NEW s \in Store,
           AddBlock(c, s), Grows(c, s), MempoolShrinks,
           UNCHANGED <<pc, todo, shVars, listVars, batch>>
    PROVE  ViewsStayValid'
<1> DEFINE o == Other(c)
<1>o. o \in Chains /\ o # c /\ Other(o) = c /\ \A d \in Chains : d = c \/ d = o
  BY OtherFacts DEF Chains, Other
<1>t. hist \in [Chains -> [0..Depth -> Store]]
  BY DEF TypeOK
<1> HIDE DEF o
<1>1. /\ hist'[c] = [i \in 0..Depth |-> IF i = 0 THEN s ELSE hist[c][i - 1]]
      /\ hist'[o] = hist[o]
  BY <1>t, <1>o DEF AddBlock
<1>2. Latest(c)' = s /\ Latest(o)' = Latest(o)
  BY <1>1, Window DEF Latest
<1>3. Recv(c)' = Recv(c) /\ Recv(o)' = s.recv /\ Recv(o) = Latest(c).recv
  BY <1>2, <1>o DEF Recv, o
<1>4. Latest(c).expired \ Latest(c).recv \subseteq s.expired \ s.recv
  BY DEF Grows, NotAfter
<1>m. \A d \in Chains : /\ mempool'[d].tx.ack \subseteq mempool[d].tx.ack
                        /\ mempool'[d].tx.timeout \subseteq mempool[d].tx.timeout
  BY DEF MempoolShrinks, EmptyBatch
<1>5. TimeoutsAreFinal'
  <2>1. ASSUME NEW d \in Chains
        PROVE  (timeouts[d] \cup batch[d].timeout \cup mempool[d].tx.timeout
                   \subseteq Latest(Other(d)).expired \ Recv(d))'
    <3>1. timeouts[d] \cup batch[d].timeout \cup mempool[d].tx.timeout
              \subseteq Latest(Other(d)).expired \ Recv(d)
      BY DEF ViewsStayValid, TimeoutsAreFinal
    <3>2. CASE d = c
      BY <3>1, <3>2, <1>m, <1>2, <1>3 DEF listVars, o
    <3>3. CASE d = o
      BY <3>1, <3>3, <1>m, <1>o, <1>2, <1>3, <1>4 DEF listVars
    <3> QED
      BY <3>2, <3>3, <1>o
  <2> QED
    BY <2>1 DEF TimeoutsAreFinal
<1>6. ASSUME NEW d \in Chains
      PROVE  KnowsThePast(d)'
  <2>1. KnowsThePast(d)
    BY DEF ViewsStayValid
  <2>2. CASE d = c
    <3>1. \A i \in 0..Depth : NotAfter(hist'[c][i], s)
      <4> SUFFICES ASSUME NEW i \in 0..Depth, i # 0
                   PROVE  NotAfter(hist[c][i - 1], s)
        BY <1>1, NotAfterOrder
      <4>1. i - 1 \in 0..Depth
        BY Window
      <4>2. NotAfter(hist[c][i - 1], Latest(c))
        BY <2>1, <2>2, <4>1 DEF KnowsThePast
      <4> QED
        BY <4>2, NotAfterOrder DEF Grows
    <3>2. /\ NotAfter(sh[c].at, s) /\ NotAfter(ackCtx[c], s)
          /\ \A g \in Chains : NotAfter(got[g][c].at, s)
      BY <2>1, <2>2, NotAfterOrder DEF KnowsThePast, Grows
    <3> QED
      BY <2>2, <3>1, <3>2, <1>2 DEF KnowsThePast, shVars
  <2>3. CASE d = o
    BY <2>1, <2>3, <1>1, <1>2 DEF KnowsThePast, shVars
  <2> QED
    BY <2>2, <2>3, <1>o
<1>7. ASSUME NEW d \in Chains
      PROVE  FilteredStayLive(d)'
  <2>1. FilteredStayLive(d)
    BY DEF ViewsStayValid
  <2>2. Filtered(d)' = Filtered(d)
    BY DEF Filtered
  <2>3. CASE d = c
    BY <2>1, <2>2, <2>3, <1>3 DEF FilteredStayLive, shVars, listVars
  <2>4. CASE d = o
    <3>1. sh[c].at.expired \subseteq Latest(c).expired
      BY DEF ViewsStayValid, KnowsThePast, NotAfter
    <3> QED
      BY <2>1, <2>2, <2>4, <3>1, <1>o, <1>3 DEF FilteredStayLive, Grows, shVars, listVars
  <2> QED
    BY <2>3, <2>4, <1>o
<1>8. ASSUME NEW d \in Chains
      PROVE  AcksInFlight(d)'
  <2>1. AcksInFlight(d)
    BY DEF ViewsStayValid
  <2>2. Recv(d) \subseteq Recv(d)'
    BY <1>o, <1>3 DEF Grows, NotAfter
  <2> QED
    BY <2>1, <2>2, <1>m DEF AcksInFlight, listVars
<1>9. ASSUME NEW d \in Chains
      PROVE  SettledRightly(d)'
  <2>1. SettledRightly(d)
    BY DEF ViewsStayValid
  <2>2. CASE d = c
    BY <2>2, <1>2, <1>3 DEF SettledRightly, Grows, o
  <2>3. CASE d = o
    BY <2>1, <2>3, <1>o, <1>2, <1>3, <1>4 DEF SettledRightly, Grows, NotAfter
  <2> QED
    BY <2>2, <2>3, <1>o
<1> QED
  BY <1>5, <1>6, <1>7, <1>8, <1>9 DEF ViewsStayValid

\* A transaction with rightful acknowledgements and timeouts makes the store grow by the
\* rules: of what it delivers nothing has expired.
LEMMA TxGrows ==
    ASSUME TypeOK, ViewsStayValid, NEW c \in Chains, NEW b \in Batch,
           TxAccepted(Latest(c), b),
           b.ack \subseteq Recv(c),
           b.timeout \subseteq Latest(Other(c)).expired \ Recv(c)
    PROVE  Grows(c, TxResult(Latest(c), b))
<1> DEFINE s == Latest(c)
<1>1. s \in Store
  BY ReadTypes
<1>2. SettledRightly(c)
  BY DEF ViewsStayValid
<1>3. b.recv \cap s.expired = {}
  BY DEF TxAccepted, RecvAccepted
<1>4. /\ TxResult(s, b).sent = s.sent /\ TxResult(s, b).expired = s.expired
      /\ TxResult(s, b).recv = s.recv \cup b.recv
      /\ TxResult(s, b).acked = s.acked \cup (b.ack \cap Commitments(s))
      /\ TxResult(s, b).refunded = s.refunded \cup ((b.timeout \cap Commitments(s)) \ b.ack)
  BY <1>1 DEF TxResult, Store
<1> QED
  BY <1>2, <1>3, <1>4 DEF Grows, NotAfter, SettledRightly

\* A block that changes nothing but what is sent or expired grows by the rules.
LEMMA QuietGrows ==
    ASSUME ViewsStayValid, NEW c \in Chains, NEW s \in Store,
           s.acked = Latest(c).acked, s.refunded = Latest(c).refunded,
           s.recv = Latest(c).recv, Latest(c).sent \subseteq s.sent,
           Latest(c).expired \subseteq s.expired
    PROVE  Grows(c, s)
<1>1. SettledRightly(c)
  BY DEF ViewsStayValid
<1> QED
  BY <1>1 DEF Grows, NotAfter, SettledRightly

(***************************************************************************)
(* The blocks a chain may add: without a transaction, with the relayer's,  *)
(* or with one of an honest rival, who proves what it sends with the       *)
(* finalized header.                                                       *)
(***************************************************************************)
QuietStores(c) ==
    {Latest(c)}
    \cup {[Latest(c) EXCEPT !.sent = @ \cup {n}] : n \in Seqs \ Latest(c).sent}
    \cup {[Latest(c) EXCEPT !.expired = @ \cup {n}] : n \in Seqs}

RivalTx(c, b) ==
    /\ b.recv \subseteq Commitments(hist[Other(c)][Depth])
    /\ b.ack \subseteq hist[Other(c)][Depth].recv
    /\ b.timeout = {}

BlockTx(c, b) == TxAccepted(Latest(c), b) /\ (b = mempool[c].tx \/ RivalTx(c, b))

\* s may be the store of the next block of chain c.
MayFollow(c, s) ==
    \/ s \in QuietStores(c)
    \/ \E b \in Batch : BlockTx(c, b) /\ s = TxResult(Latest(c), b)

\* A block without the relayer's transaction only ever empties a mempool.
LEMMA OtherBlockShrinks ==
    ASSUME TypeOK, NEW c \in Chains, NEW s, OtherBlock(c, s)
    PROVE  MempoolShrinks
BY DEF OtherBlock, MempoolShrinks, TypeOK, NoTx

\* Every step of a chain adds one block to one chain and nothing else.
LEMMA ChainStepAddsBlock ==
    ASSUME TypeOK, ChainStep
    PROVE  \E c \in Chains : \E s \in Store :
              /\ AddBlock(c, s) /\ MayFollow(c, s) /\ MempoolShrinks
              /\ UNCHANGED <<pc, todo, attempts, shVars, listVars, batch, statVars, faults>>
<1>1. PICK c \in Chains :
         NewBlock(c) \/ SendPacket(c) \/ Expire(c) \/ RivalRelay(c) \/ ExecTx(c)
  BY DEF ChainStep
<1>2. Latest(c) \in Store /\ Latest(Other(c)) \in Store
  BY ReadTypes, OtherFacts
<1>q. ASSUME NEW s \in Store, OtherBlock(c, s), MayFollow(c, s)
      PROVE  /\ AddBlock(c, s) /\ MempoolShrinks
             /\ UNCHANGED <<pc, todo, attempts, shVars, listVars, batch, statVars, faults>>
  BY <1>q, OtherBlockShrinks DEF OtherBlock
<1>3. CASE NewBlock(c)
  <2>1. MayFollow(c, Latest(c)) /\ OtherBlock(c, Latest(c))
    BY <1>3 DEF NewBlock, MayFollow, QuietStores
  <2> QED
    BY <1>2, <2>1, <1>q
<1>4. CASE SendPacket(c)
  <2>1. PICK n \in 1..Traffic[c] :
            /\ n \notin Latest(c).sent
            /\ OtherBlock(c, [Latest(c) EXCEPT !.sent = @ \cup {n}])
    BY <1>4 DEF SendPacket
  <2>2. n \in Seqs
    BY <2>1, ServiceAssumption, ChainAssumption DEF Seqs
  <2>3. [Latest(c) EXCEPT !.sent = @ \cup {n}] \in Store
    BY <1>2, <2>2 DEF Store
  <2>4. MayFollow(c, [Latest(c) EXCEPT !.sent = @ \cup {n}])
    BY <2>1, <2>2 DEF MayFollow, QuietStores
  <2> QED
    BY <2>1, <2>3, <2>4, <1>q
<1>5. CASE Expire(c)
  <2>1. PICK n \in (Mortal[Other(c)] \cap Latest(Other(c)).sent) \ Latest(c).expired :
            OtherBlock(c, [Latest(c) EXCEPT !.expired = @ \cup {n}])
    BY <1>5 DEF Expire
  <2>2. n \in Seqs
    BY <2>1, OtherFacts, ServiceAssumption
  <2>3. [Latest(c) EXCEPT !.expired = @ \cup {n}] \in Store
    BY <1>2, <2>2 DEF Store
  <2>4. MayFollow(c, [Latest(c) EXCEPT !.expired = @ \cup {n}])
    BY <2>2 DEF MayFollow, QuietStores
  <2> QED
    BY <2>1, <2>3, <2>4, <1>q
<1>6. CASE RivalRelay(c)
  <2>1. PICK n \in Seqs, kind \in {"recv", "ack"} :
            LET b == [update |-> TRUE, hdr |-> FinalizedHeader(Other(c)),
                      recv |-> IF kind = "recv" THEN {n} ELSE {},
                      ack |-> IF kind = "ack" THEN {n} ELSE {},
                      timeout |-> {}]
            IN /\ b.recv \subseteq Commitments(b.hdr.proves)
               /\ b.ack \subseteq b.hdr.proves.recv
               /\ TxAccepted(Latest(c), b)
               /\ OtherBlock(c, TxResult(Latest(c), b))
    BY <1>6 DEF RivalRelay
  <2> DEFINE b == [update |-> TRUE, hdr |-> FinalizedHeader(Other(c)),
                   recv |-> IF kind = "recv" THEN {n} ELSE {},
                   ack |-> IF kind = "ack" THEN {n} ELSE {},
                   timeout |-> {}]
  <2>2. b \in Batch
    BY <2>1, ReadTypes, OtherFacts DEF Batch
  <2>3. RivalTx(c, b)
    BY <2>1 DEF RivalTx, FinalizedHeader
  <2>4. TxResult(Latest(c), b) \in Store
    BY <1>2, <2>2, TxResultType
  <2>5. TxAccepted(Latest(c), b) /\ OtherBlock(c, TxResult(Latest(c), b))
    BY <2>1
  <2> HIDE DEF b
  <2>6. MayFollow(c, TxResult(Latest(c), b))
    BY <2>2, <2>3, <2>5 DEF MayFollow, BlockTx
  <2> QED
    BY <2>4, <2>5, <2>6, <1>q
<1>7. CASE ExecTx(c)
  <2> DEFINE b == mempool[c].tx
             s == IF TxAccepted(Latest(c), b) THEN TxResult(Latest(c), b) ELSE Latest(c)
  <2>1. b \in Batch
    BY DEF TypeOK
  <2>2. s \in Store
    BY <1>2, <2>1, TxResultType
  <2>3. MayFollow(c, s)
    BY <2>1 DEF MayFollow, BlockTx, QuietStores
  <2>4. /\ AddBlock(c, s)
        /\ UNCHANGED <<pc, todo, attempts, shVars, listVars, batch, statVars, faults>>
    BY <1>7 DEF ExecTx
  <2>5. MempoolShrinks
    BY <1>7 DEF ExecTx, MempoolShrinks, TypeOK
  <2> HIDE DEF s
  <2> QED
    BY <2>2, <2>3, <2>4, <2>5
<1> QED
  BY <1>1, <1>3, <1>4, <1>5, <1>6, <1>7

\* What a transaction of a block acknowledges was received, and what it times out never
\* will be.
LEMMA BlockTxRightful ==
    ASSUME TypeOK, ViewsStayValid, NEW c \in Chains, NEW b \in Batch, BlockTx(c, b)
    PROVE  b.ack \subseteq Recv(c) /\ b.timeout \subseteq Latest(Other(c)).expired \ Recv(c)
<1>1. CASE b = mempool[c].tx
  BY <1>1 DEF ViewsStayValid, AcksInFlight, TimeoutsAreFinal
<1>2. CASE RivalTx(c, b)
  <2>1. NotAfter(hist[Other(c)][Depth], Latest(Other(c)))
    BY Window, OtherFacts DEF ViewsStayValid, KnowsThePast
  <2> QED
    BY <1>2, <2>1 DEF RivalTx, NotAfter, Recv
<1> QED
  BY <1>1, <1>2 DEF BlockTx

\* The fields of a store of a quiet block.
LEMMA QuietFields ==
    ASSUME NEW c \in Chains, Latest(c) \in Store, NEW s \in QuietStores(c)
    PROVE  /\ s.acked = Latest(c).acked /\ s.refunded = Latest(c).refunded
           /\ s.recv = Latest(c).recv /\ Latest(c).sent \subseteq s.sent
           /\ Latest(c).expired \subseteq s.expired
BY DEF QuietStores, Store

\* Every store that may follow grows by the rules.
LEMMA FollowersGrow ==
    ASSUME TypeOK, ViewsStayValid, NEW c \in Chains, NEW s \in Store, MayFollow(c, s)
    PROVE  Grows(c, s)
<1>1. CASE s \in QuietStores(c)
  BY <1>1, ReadTypes, QuietFields, QuietGrows
<1>2. CASE \E b \in Batch : BlockTx(c, b) /\ s = TxResult(Latest(c), b)
  BY <1>2, BlockTxRightful, TxGrows DEF BlockTx
<1> QED
  BY <1>1, <1>2 DEF MayFollow

\* Every block of a chain keeps all views valid.
LEMMA ChainStepKeepsViews ==
    ASSUME TypeOK, ViewsStayValid, ChainStep
    PROVE  ViewsStayValid'
<1>1. PICK c \in Chains, s \in Store :
          /\ AddBlock(c, s) /\ MayFollow(c, s) /\ MempoolShrinks
          /\ UNCHANGED <<pc, todo, shVars, listVars, batch>>
  BY ChainStepAddsBlock
<1>2. Grows(c, s)
  BY <1>1, FollowersGrow
<1> QED
  BY <1>1, <1>2, BlockKeepsViews

(***************************************************************************)
(* Steps of the service leave the chains alone.  The lemmas that follow    *)
(* say which conjunct of ViewsStayValid depends on which variables.        *)
(***************************************************************************)

\* What is said of the chains alone stays true while no block is added.
LEMMA SameChains ==
    ASSUME ViewsStayValid, hist' = hist
    PROVE  \A c \in Chains : /\ Latest(c)' = Latest(c) /\ Recv(c)' = Recv(c)
                             /\ SettledRightly(c)'
BY DEF ViewsStayValid, SettledRightly, Recv, Latest

\* What the relayer knows of the past stays so while it reads no new header.
LEMMA SameHeaders ==
    ASSUME ViewsStayValid, hist' = hist, UNCHANGED <<sh, ackCtx, got>>
    PROVE  \A c \in Chains : KnowsThePast(c)'
BY DEF ViewsStayValid, KnowsThePast, Latest

\* Timeouts stay final while lists, batches and mempools keep them.
LEMMA SameTimeouts ==
    ASSUME ViewsStayValid, hist' = hist, UNCHANGED <<timeouts, batch, mempool>>
    PROVE  TimeoutsAreFinal'
BY DEF ViewsStayValid, TimeoutsAreFinal, Recv, Latest

\* Acknowledgements stay rightful while lists, batches and mempools keep them.
LEMMA SameAcks ==
    ASSUME ViewsStayValid, hist' = hist, UNCHANGED <<acks, batch, mempool>>
    PROVE  \A c \in Chains : AcksInFlight(c)'
BY DEF ViewsStayValid, AcksInFlight, Recv, Latest

\* Outside of the filter phases nothing is said of filtered lists.
LEMMA NotFiltering ==
    ASSUME pc' \notin {"unreceived", "timeouts"}
    PROVE  \A c \in Chains : FilteredStayLive(c)'
BY DEF FilteredStayLive, Filtered

\* The headers and stores the relayer reads are of the past.
LEMMA ReadsThePast ==
    ASSUME TypeOK, ViewsStayValid, NEW c \in Chains
    PROVE  /\ NotAfter(FinalizedHeader(c).at, Latest(c))
           /\ NotAfter(sh[c].at, Latest(c)) /\ NotAfter(EmptyStore, Latest(c))
BY Window, ReadTypes, NotAfterOrder DEF ViewsStayValid, KnowsThePast, FinalizedHeader

\* A batch for chain c acknowledges and times out only what is listed.
LEMMA MsgsFromLists ==
    ASSUME TypeOK, NEW c \in Chains, NEW refresh \in BOOLEAN
    PROVE  /\ MsgsTo(c, refresh).ack \subseteq acks[Other(c)]
           /\ MsgsTo(c, refresh).timeout = timeouts[c]
BY DEF MsgsTo, RelayBatch

\* Forgetting lists and batches and returning to a phase without them is safe.
LEMMA ResetKeepsViews ==
    ASSUME TypeOK, ViewsStayValid, hist' = hist, mempool' = mempool,
           pc' \notin {"unreceived", "timeouts"},
           sh' \in {sh, NoHeaders}, ackCtx' = NoStores, got' = [c \in Chains |-> NoHeaders],
           timeouts' = NoPackets, acks' = NoPackets, batch' = NoBatches
    PROVE  ViewsStayValid'
<1>1. \A c \in Chains : FilteredStayLive(c)'
  BY NotFiltering
<1>2. \A c \in Chains : Latest(c)' = Latest(c) /\ Recv(c)' = Recv(c) /\ SettledRightly(c)'
  BY SameChains
<1>3. ASSUME NEW c \in Chains PROVE KnowsThePast(c)'
  <2>1. NotAfter(sh[c].at, Latest(c)) /\ NotAfter(EmptyStore, Latest(c))
    BY ReadsThePast
  <2>2. sh'[c].at \in {sh[c].at, EmptyStore}
    BY DEF NoHeaders, EmptyHeader
  <2>3. ackCtx'[c] = EmptyStore /\ \A g \in Chains : got'[g][c].at = EmptyStore
    BY DEF NoHeaders, NoStores, EmptyHeader
  <2>4. \A i \in 0..Depth : NotAfter(hist[c][i], Latest(c))
    BY DEF ViewsStayValid, KnowsThePast
  <2> QED
    BY <1>2, <2>1, <2>2, <2>3, <2>4 DEF KnowsThePast
<1>4. TimeoutsAreFinal'
  BY <1>2, OtherFacts
  DEF ViewsStayValid, TimeoutsAreFinal, NoPackets, NoBatches, EmptyBatch
<1>5. \A c \in Chains : AcksInFlight(c)'
  BY <1>2, OtherFacts
  DEF ViewsStayValid, AcksInFlight, NoPackets, NoBatches, EmptyBatch
<1> QED
  BY <1>1, <1>2, <1>3, <1>4, <1>5 DEF ViewsStayValid

\* A phase that touches neither headers, lists nor batches, and does not filter.
LEMMA IdleKeepsViews ==
    ASSUME ViewsStayValid, pc' \notin {"unreceived", "timeouts"},
           UNCHANGED <<hist, mempool, sh, ackCtx, got, timeouts, acks, batch>>
    PROVE  ViewsStayValid'
BY SameChains, SameHeaders, SameTimeouts, SameAcks, NotFiltering DEF ViewsStayValid

\* The phases after a send are not those of the filter.
LEMMA AfterSendPhase ==
    ASSUME NEW c \in Chains, AfterSend(c)
    PROVE  pc' \notin {"unreceived", "timeouts"}
BY DEF AfterSend, Goto

\* Neither does a step of OnRetry's sh.Updates invalidate a view.
LEMMA RetryKeepsViews ==
    ASSUME TypeOK, ViewsStayValid, NEW g \in Chains, RetryStep(g)
    PROVE  ViewsStayValid'
<1>1. hist' = hist /\ UNCHANGED <<pc, sh, ackCtx, timeouts, acks, batch, mempool>>
  BY RetryEffects DEF chainVars, listVars
<1>2. ASSUME NEW c \in Chains PROVE KnowsThePast(c)'
  <2>1. ASSUME NEW h \in Chains PROVE NotAfter(got'[h][c].at, Latest(c))
    <3>1. got'[h][c] \in {got[h][c], EmptyHeader, FinalizedHeader(c)}
      BY RetryEffects
    <3> QED
      BY <3>1, ReadsThePast DEF EmptyHeader, ViewsStayValid, KnowsThePast
  <2> QED
    BY <1>1, <2>1, SameChains DEF ViewsStayValid, KnowsThePast
<1>3. \A c \in Chains : FilteredStayLive(c)'
  BY <1>1, NotFiltering, RetryEffects
<1> QED
  BY <1>1, <1>2, <1>3, SameChains, SameTimeouts, SameAcks DEF ViewsStayValid

\* Every step of StartService and Serve keeps all views valid.
LEMMA ServeStepKeepsViews ==
    ASSUME TypeOK, ViewsStayValid, ServeStep
    PROVE  ViewsStayValid'
<1>1. CASE StartService
  <2>1. hist' = hist /\ UNCHANGED <<ackCtx, got, timeouts, acks, batch, mempool>>
    BY <1>1 DEF StartService, chainVars, listVars
  <2>2. ASSUME NEW c \in Chains PROVE KnowsThePast(c)'
    <3>1. NotAfter(sh'[c].at, Latest(c))
      BY <1>1, ReadsThePast DEF StartService
    <3> QED
      BY <2>1, <3>1, SameChains DEF ViewsStayValid, KnowsThePast
  <2>3. \A c \in Chains : FilteredStayLive(c)'
    BY <1>1, NotFiltering DEF StartService, Goto
  <2> QED
    BY <2>1, <2>2, <2>3, SameChains, SameTimeouts, SameAcks DEF ViewsStayValid
<1>2. CASE UpdatesSrc
  <2>1. hist' = hist /\ UNCHANGED <<sh, ackCtx, timeouts, acks, batch, mempool>>
    BY <1>2 DEF UpdatesSrc, chainVars, listVars
  <2>2. ASSUME NEW c \in Chains PROVE KnowsThePast(c)'
    <3>1. /\ NotAfter(FinalizedHeader("src").at, Latest("src"))
          /\ NotAfter(EmptyStore, Latest(c))
      BY ReadsThePast DEF Chains
    <3>2. ASSUME NEW g \in Chains PROVE NotAfter(got'[g][c].at, Latest(c))
      <4>1. CASE g = "src"
        <5>1. got'["src"][c] = IF c = "src" THEN FinalizedHeader("src") ELSE EmptyHeader
          BY <1>2 DEF UpdatesSrc, TypeOK, Chains, NoHeaders
        <5> QED
          BY <4>1, <5>1, <3>1 DEF EmptyHeader
      <4>2. CASE g # "src"
        BY <1>2, <4>2 DEF UpdatesSrc, TypeOK, ViewsStayValid, KnowsThePast
      <4> QED
        BY <4>1, <4>2
    <3> QED
      BY <2>1, <3>2, SameChains DEF ViewsStayValid, KnowsThePast
  <2>3. \A c \in Chains : FilteredStayLive(c)'
    BY <1>2, NotFiltering DEF UpdatesSrc, Goto
  <2> QED
    BY <2>1, <2>2, <2>3, SameChains, SameTimeouts, SameAcks DEF ViewsStayValid
<1>3. CASE UpdatesDst
  <2>1. hist' = hist /\ UNCHANGED <<ackCtx, timeouts, acks, batch, mempool>>
    BY <1>3 DEF UpdatesDst, chainVars, listVars
  <2>2. ASSUME NEW c \in Chains PROVE KnowsThePast(c)'
    <3>1. /\ NotAfter(FinalizedHeader("dst").at, Latest("dst"))
          /\ NotAfter(EmptyStore, Latest(c))
      BY ReadsThePast DEF Chains
    <3>2. \A g \in Chains : NotAfter(got[g][c].at, Latest(c))
      BY DEF ViewsStayValid, KnowsThePast
    <3>3. NotAfter(sh'[c].at, Latest(c))
      <4>1. sh'[c] = IF c = "dst" THEN FinalizedHeader("dst") ELSE got["src"][c]
        BY <1>3 DEF UpdatesDst, TypeOK, Chains
      <4> QED
        BY <3>1, <3>2, <4>1 DEF Chains
    <3>4. ASSUME NEW g \in Chains PROVE NotAfter(got'[g][c].at, Latest(c))
      <4>1. got'[g][c] = IF g = "src" THEN EmptyHeader ELSE got[g][c]
        BY <1>3 DEF UpdatesDst, TypeOK, NoHeaders
      <4> QED
        BY <3>1, <3>2, <4>1 DEF EmptyHeader
    <3> QED
      BY <2>1, <3>3, <3>4, SameChains DEF ViewsStayValid, KnowsThePast
  <2>3. \A c \in Chains : FilteredStayLive(c)'
    BY <1>3, NotFiltering DEF UpdatesDst, Goto
  <2> QED
    BY <2>1, <2>2, <2>3, SameChains, SameTimeouts, SameAcks DEF ViewsStayValid
<1>4. CASE UpdateBacklogMetrics
  <2>1. /\ hist' = hist
        /\ UNCHANGED <<sh, ackCtx, got, timeouts, acks, batch, mempool>>
    BY <1>4 DEF UpdateBacklogMetrics, chainVars, shVars, listVars
  <2>2. \A c \in Chains : FilteredStayLive(c)'
    BY <1>4 DEF UpdateBacklogMetrics, Goto, FilteredStayLive, Filtered
  <2> QED
    BY <2>1, <2>2, SameChains, SameHeaders, SameTimeouts, SameAcks DEF ViewsStayValid
<1>5. CASE Wait
  BY <1>5, IdleKeepsViews DEF Wait, Goto, chainVars, shVars, listVars
<1>6. ASSUME NEW agedPackets \in SUBSET Chains, NEW agedAcks \in SUBSET Chains,
             Decide(agedPackets, agedAcks)
      PROVE  ViewsStayValid'
  BY <1>6, IdleKeepsViews DEF Decide, Goto, chainVars, shVars
<1>7. ASSUME NEW c \in Chains, QueryPackets(c) PROVE ViewsStayValid'
  BY <1>7, IdleKeepsViews DEF QueryPackets, Done, Goto, chainVars, shVars
<1>8. ASSUME NEW c \in Chains, FilterUnreceived(c) PROVE ViewsStayValid'
  <2>1. /\ hist' = hist
        /\ UNCHANGED <<sh, ackCtx, got, timeouts, acks, batch, mempool>>
    BY <1>8 DEF FilterUnreceived, chainVars, shVars
  <2>2. ASSUME NEW d \in Chains, Filtered(d)' PROVE packets'[d] \cap sh[Other(d)].at.expired \cap Recv(d) = {}
    <3>1. CASE d = c
      BY <1>8, <3>1 DEF FilterUnreceived, UnreceivedPackets, Recv, TypeOK
    <3>2. CASE d # c
      <4>1. Filtered(d)
        BY <1>8, <2>2, <3>2 DEF FilterUnreceived, Filtered, Done, Goto
      <4>2. packets'[d] = packets[d]
        BY <1>8, <3>2 DEF FilterUnreceived, TypeOK
      <4> QED
        BY <4>1, <4>2 DEF ViewsStayValid, FilteredStayLive
    <3> QED
      BY <3>1, <3>2
  <2>3. \A d \in Chains : FilteredStayLive(d)'
    BY <2>1, <2>2, SameChains DEF FilteredStayLive
  <2> QED
    BY <2>1, <2>3, SameChains, SameHeaders, SameTimeouts, SameAcks DEF ViewsStayValid
<1>9. ASSUME NEW c \in Chains, ProcessTimeoutPackets(c) PROVE ViewsStayValid'
  <2>1. hist' = hist /\ UNCHANGED <<sh, got, acks, batch, mempool>>
    BY <1>9 DEF ProcessTimeoutPackets, chainVars
  <2>2. ASSUME NEW d \in Chains PROVE KnowsThePast(d)'
    <3>1. NotAfter(ackCtx'[d], Latest(d))
      BY <1>9 DEF ProcessTimeoutPackets, ViewsStayValid, KnowsThePast
    <3> QED
      BY <2>1, <3>1, SameChains DEF ViewsStayValid, KnowsThePast
  <2>3. TimeoutsAreFinal'
    <3>1. packets[c] \cap sh[Other(c)].at.expired \cap Recv(c) = {}
      BY <1>9 DEF ProcessTimeoutPackets, ViewsStayValid, FilteredStayLive, Filtered
    <3>2. sh[Other(c)].at.expired \subseteq Latest(Other(c)).expired
      BY OtherFacts DEF ViewsStayValid, KnowsThePast, NotAfter
    <3>3. PICK answered \in BOOLEAN :
              timeouts' = [timeouts EXCEPT ![c] =
                             TimeoutPackets(packets[c], sh[Other(c)].at, answered)]
      BY <1>9 DEF ProcessTimeoutPackets
    <3>4. TimeoutPackets(packets[c], sh[Other(c)].at, answered)
              \subseteq packets[c] \cap sh[Other(c)].at.expired
      BY DEF TimeoutPackets
    <3>5. timeouts'[c] \subseteq Latest(Other(c)).expired \ Recv(c)
      BY <3>1, <3>2, <3>3, <3>4 DEF TypeOK
    <3>6. \A d \in Chains : d # c => timeouts'[d] = timeouts[d]
      BY <3>3 DEF TypeOK
    <3>7. \A d \in Chains : Latest(Other(d))' = Latest(Other(d)) /\ Recv(d)' = Recv(d)
      BY <2>1, OtherFacts, SameChains
    <3> QED
      BY <2>1, <3>5, <3>6, <3>7 DEF ViewsStayValid, TimeoutsAreFinal
  <2>4. ASSUME NEW d \in Chains PROVE FilteredStayLive(d)'
    <3> SUFFICES ASSUME Filtered(d)'
                 PROVE  packets'[d] \cap sh[Other(d)].at.expired \cap Recv(d) = {}
      BY <2>1, SameChains DEF FilteredStayLive
    <3>1. d # c /\ Filtered(d)
      BY <1>9 DEF ProcessTimeoutPackets, Filtered, Done, Goto
    <3>2. packets'[d] = packets[d]
      BY <1>9, <3>1 DEF ProcessTimeoutPackets, TypeOK
    <3> QED
      BY <3>1, <3>2 DEF ViewsStayValid, FilteredStayLive
  <2> QED
    BY <2>1, <2>2, <2>3, <2>4, SameChains, SameAcks DEF ViewsStayValid
<1>10. ASSUME NEW c \in Chains, QueryAcks(c) PROVE ViewsStayValid'
  <2>1. hist' = hist /\ UNCHANGED <<sh, got, timeouts, batch, mempool>>
    BY <1>10 DEF QueryAcks, chainVars
  <2>2. ASSUME NEW d \in Chains PROVE KnowsThePast(d)'
    <3>1. NotAfter(ackCtx'[d], Latest(d))
      BY <1>10, ReadsThePast DEF QueryAcks, ViewsStayValid, KnowsThePast, NoStores
    <3> QED
      BY <2>1, <3>1, SameChains DEF ViewsStayValid, KnowsThePast
  <2>3. acks'[c] \subseteq Latest(c).recv
    <3>1. ackCtx[c].recv \subseteq Latest(c).recv
      BY DEF ViewsStayValid, KnowsThePast, NotAfter
    <3>2. acks'[c] \subseteq ackCtx[c].recv
      BY <1>10
      DEF QueryAcks, TypeOK, QueryUnfinalizedRelayAcknowledgements, UnreceivedAcks, Page
    <3> QED
      BY <3>1, <3>2
  <2>4. ASSUME NEW d \in Chains PROVE AcksInFlight(d)'
    <3>1. acks'[Other(d)] \subseteq Recv(d)
      <4>1. CASE Other(d) = c
        BY <2>3, <4>1 DEF Recv
      <4>2. CASE Other(d) # c
        BY <1>10, <4>2, OtherFacts DEF QueryAcks, TypeOK, ViewsStayValid, AcksInFlight
      <4> QED
        BY <4>1, <4>2
    <3> QED
      BY <2>1, <3>1, SameChains DEF ViewsStayValid, AcksInFlight
  <2>5. \A d \in Chains : FilteredStayLive(d)'
    BY <1>10, NotFiltering DEF QueryAcks, Done, Goto
  <2> QED
    BY <2>1, <2>2, <2>4, <2>5, SameChains, SameTimeouts DEF ViewsStayValid
<1>11. ASSUME NEW g \in Chains, RetryStore(g) PROVE ViewsStayValid'
  <2>1. hist' = hist /\ UNCHANGED <<ackCtx, timeouts, acks, batch, mempool>>
    BY <1>11 DEF RetryStore, chainVars, listVars
  <2>2. ASSUME NEW c \in Chains PROVE KnowsThePast(c)'
    <3>1. NotAfter(sh'[c].at, Latest(c))
      BY <1>11 DEF RetryStore, ViewsStayValid, KnowsThePast
    <3>2. ASSUME NEW h \in Chains PROVE NotAfter(got'[h][c].at, Latest(c))
      <4>1. got'[h][c] = IF h = g THEN EmptyHeader ELSE got[h][c]
        BY <1>11 DEF RetryStore, TypeOK, NoHeaders
      <4> QED
        BY <4>1, ReadsThePast DEF EmptyHeader, ViewsStayValid, KnowsThePast
    <3> QED
      BY <2>1, <3>1, <3>2, SameChains DEF ViewsStayValid, KnowsThePast
  <2>3. \A c \in Chains : FilteredStayLive(c)'
    BY <1>11, NotFiltering DEF RetryStore
  <2> QED
    BY <2>1, <2>2, <2>3, SameChains, SameTimeouts, SameAcks DEF ViewsStayValid
<1>12. ASSUME NEW c \in Chains, FilterAcks(c) PROVE ViewsStayValid'
  <2>1. hist' = hist /\ UNCHANGED <<sh, ackCtx, got, timeouts, batch, mempool>>
    BY <1>12 DEF FilterAcks, chainVars, shVars
  <2>2. \A d \in Chains : acks'[d] \subseteq acks[d]
    BY <1>12 DEF FilterAcks, UnreceivedAcks, TypeOK
  <2>3. \A d \in Chains : AcksInFlight(d)'
    BY <2>1, <2>2, OtherFacts, SameChains DEF ViewsStayValid, AcksInFlight
  <2>4. \A d \in Chains : FilteredStayLive(d)'
    BY <1>12, NotFiltering DEF FilterAcks, Done, Goto
  <2> QED
    BY <2>1, <2>3, <2>4, SameChains, SameHeaders, SameTimeouts DEF ViewsStayValid
<1>13. ASSUME NEW c \in Chains, Build(c) PROVE ViewsStayValid'
  <2>1. hist' = hist /\ UNCHANGED <<sh, ackCtx, got, mempool>>
    BY <1>13 DEF Build, chainVars, shVars
  <2>2. PICK refresh \in Refreshes(c) : batch' = [batch EXCEPT ![c] = MsgsTo(c, refresh)]
    BY <1>13 DEF Build
  <2>3. refresh \in BOOLEAN
    BY ServiceAssumption DEF Refreshes
  <2>4. \A d \in Chains : timeouts'[d] \subseteq timeouts[d] /\ acks'[d] \subseteq acks[d]
    BY <1>13 DEF Build, Forget, NoPackets, listVars
  <2>5. batch'[c].ack \subseteq acks[Other(c)] /\ batch'[c].timeout \subseteq timeouts[c]
    BY <2>2, <2>3, MsgsFromLists DEF TypeOK
  <2>6. \A d \in Chains : d # c => batch'[d] = batch[d]
    BY <2>2 DEF TypeOK
  <2>7. TimeoutsAreFinal'
    BY <2>1, <2>4, <2>5, <2>6, OtherFacts, SameChains DEF ViewsStayValid, TimeoutsAreFinal
  <2>8. \A d \in Chains : AcksInFlight(d)'
    BY <2>1, <2>4, <2>5, <2>6, OtherFacts, SameChains DEF ViewsStayValid, AcksInFlight
  <2>9. \A d \in Chains : FilteredStayLive(d)'
    BY <1>13, NotFiltering DEF Build, Done, Goto
  <2> QED
    BY <2>1, <2>7, <2>8, <2>9, SameChains, SameHeaders DEF ViewsStayValid
<1>14. ASSUME NEW c \in Chains, BuildError(c) PROVE ViewsStayValid'
  BY <1>14, ResetKeepsViews DEF BuildError, ServeFails, Forget, Goto, chainVars
<1>15. ASSUME NEW c \in Chains, SendNothing(c) PROVE ViewsStayValid'
  BY <1>15, AfterSendPhase, IdleKeepsViews DEF SendNothing, chainVars, shVars, listVars
<1>16. ASSUME NEW c \in Chains, Broadcast(c) PROVE ViewsStayValid'
  <2>1. hist' = hist /\ UNCHANGED <<sh, ackCtx, got, timeouts, acks>>
    BY <1>16 DEF Broadcast, shVars, listVars
  <2>2. /\ mempool'[c].tx = batch[c] /\ batch'[c].ack = {} /\ batch'[c].timeout = {}
        /\ \A d \in Chains : d # c => mempool'[d] = mempool[d] /\ batch'[d] = batch[d]
    BY <1>16 DEF Broadcast, TypeOK, EmptyBatch
  <2>3. TimeoutsAreFinal'
    BY <2>1, <2>2, OtherFacts, SameChains DEF ViewsStayValid, TimeoutsAreFinal
  <2>4. \A d \in Chains : AcksInFlight(d)'
    BY <2>1, <2>2, OtherFacts, SameChains DEF ViewsStayValid, AcksInFlight
  <2>5. \A d \in Chains : FilteredStayLive(d)'
    BY <1>16, NotFiltering DEF Broadcast, Goto, WaitPhase
  <2> QED
    BY <2>1, <2>3, <2>4, <2>5, SameChains, SameHeaders DEF ViewsStayValid
<1>17. ASSUME NEW c \in Chains, SendRejected(c) PROVE ViewsStayValid'
  <2>1. hist' = hist /\ UNCHANGED <<sh, ackCtx, got, timeouts, acks, mempool>>
    BY <1>17 DEF SendRejected, chainVars, shVars, listVars
  <2>2. \A d \in Chains : /\ batch'[d].ack \subseteq batch[d].ack
                          /\ batch'[d].timeout \subseteq batch[d].timeout
    BY <1>17 DEF SendRejected, TypeOK, EmptyBatch
  <2>3. TimeoutsAreFinal'
    BY <2>1, <2>2, OtherFacts, SameChains DEF ViewsStayValid, TimeoutsAreFinal
  <2>4. \A d \in Chains : AcksInFlight(d)'
    BY <2>1, <2>2, OtherFacts, SameChains DEF ViewsStayValid, AcksInFlight
  <2>5. \A d \in Chains : FilteredStayLive(d)'
    BY <1>17, AfterSendPhase, NotFiltering DEF SendRejected
  <2> QED
    BY <2>1, <2>3, <2>4, <2>5, SameChains, SameHeaders DEF ViewsStayValid
<1>18. ASSUME NEW c \in Chains, WaitForCommit(c) PROVE ViewsStayValid'
  BY <1>18, AfterSendPhase, IdleKeepsViews DEF WaitForCommit, chainVars, shVars, listVars
<1>19. ASSUME NEW g \in Chains, RetryFetchDst(g) PROVE ViewsStayValid'
  BY <1>19, RetryKeepsViews DEF RetryStep
<1> QED
  BY <1>1, <1>2, <1>3, <1>4, <1>5, <1>6, <1>7, <1>8, <1>9, <1>10, <1>11, <1>12, <1>13,
     <1>14, <1>15, <1>16, <1>17, <1>18, <1>19 DEF ServeStep

\* So do RPC errors, lost transactions, impatience and crashes.
LEMMA FaultStepKeepsViews ==
    ASSUME TypeOK, ViewsStayValid, FaultStep
    PROVE  ViewsStayValid'
<1>1. CASE StartServiceError
  BY <1>1, IdleKeepsViews DEF StartServiceError, Goto, chainVars, shVars, listVars
<1>2. CASE ServeError
  BY <1>2, ResetKeepsViews DEF ServeError, ServeFails, Forget, Goto, chainVars
<1>3. CASE TimestampError
  BY <1>3, IdleKeepsViews DEF TimestampError, Goto, chainVars, shVars
<1>4. CASE Crash
  BY <1>4, ResetKeepsViews DEF Crash, Forget, Goto, chainVars
<1>5. ASSUME NEW c \in Chains, DropTx(c) PROVE ViewsStayValid'
  <2>1. /\ hist' = hist /\ UNCHANGED <<pc, todo, sh, ackCtx, got, packets, timeouts, acks, batch>>
    BY <1>5 DEF DropTx, shVars, listVars
  <2>2. \A d \in Chains : /\ mempool'[d].tx.ack \subseteq mempool[d].tx.ack
                          /\ mempool'[d].tx.timeout \subseteq mempool[d].tx.timeout
    BY <1>5 DEF DropTx, TypeOK, NoTx, EmptyBatch
  <2>3. TimeoutsAreFinal'
    BY <2>1, <2>2, OtherFacts, SameChains DEF ViewsStayValid, TimeoutsAreFinal
  <2>4. \A d \in Chains : AcksInFlight(d)'
    BY <2>1, <2>2, OtherFacts, SameChains DEF ViewsStayValid, AcksInFlight
  <2>5. \A d \in Chains : FilteredStayLive(d)'
    BY <2>1, SameChains DEF ViewsStayValid, FilteredStayLive, Filtered
  <2> QED
    BY <2>1, <2>3, <2>4, <2>5, SameChains, SameHeaders DEF ViewsStayValid
<1>6. ASSUME NEW g \in Chains, RetryFetchSrc(g) \/ RetryFetchError(g) PROVE ViewsStayValid'
  BY <1>6, RetryKeepsViews DEF RetryStep
<1>7. ASSUME NEW c \in Chains, GiveUpWaiting(c) PROVE ViewsStayValid'
  BY <1>7, AfterSendPhase, IdleKeepsViews DEF GiveUpWaiting, chainVars, shVars, listVars
<1> QED
  BY <1>1, <1>2, <1>3, <1>4, <1>5, <1>6, <1>7 DEF FaultStep

\* A relayer that has read nothing has only valid views.
LEMMA InitViews == Init => ViewsStayValid
<1> SUFFICES ASSUME Init PROVE ViewsStayValid
  OBVIOUS
<1>1. \A c \in Chains : /\ Latest(c) = EmptyStore
                        /\ \A i \in 0..Depth : hist[c][i] = EmptyStore
  BY Window DEF Init, Latest
<1>2. ASSUME NEW c \in Chains
      PROVE  /\ timeouts[c] = {} /\ acks[c] = {} /\ sh[c].at = EmptyStore
             /\ ackCtx[c] = EmptyStore /\ \A g \in Chains : got[g][c].at = EmptyStore
             /\ batch[c].ack = {} /\ batch[c].timeout = {}
             /\ mempool[c].tx.ack = {} /\ mempool[c].tx.timeout = {}
  BY DEF Init, NoPackets, NoHeaders, NoStores, NoBatches, NoTx, EmptyBatch, EmptyHeader
<1>3. TimeoutsAreFinal
  BY <1>2 DEF TimeoutsAreFinal
<1>4. ASSUME NEW c \in Chains
      PROVE  KnowsThePast(c) /\ FilteredStayLive(c) /\ AcksInFlight(c) /\ SettledRightly(c)
  <2>1. KnowsThePast(c)
    BY <1>1, <1>2, NotAfterOrder DEF KnowsThePast
  <2>2. FilteredStayLive(c)
    BY DEF Init, FilteredStayLive, Filtered
  <2>3. AcksInFlight(c)
    BY <1>2, OtherFacts DEF AcksInFlight
  <2>4. SettledRightly(c)
    BY <1>1 DEF SettledRightly, EmptyStore
  <2> QED
    BY <2>1, <2>2, <2>3, <2>4
<1> QED
  BY <1>3, <1>4 DEF ViewsStayValid

\* ViewsStayValid is inductive together with TypeOK.
LEMMA NextViews == TypeOK /\ ViewsStayValid /\ [Next]_vars => ViewsStayValid'
<1> SUFFICES ASSUME TypeOK, ViewsStayValid, [Next]_vars PROVE ViewsStayValid'
  OBVIOUS
<1>1. CASE UNCHANGED vars
  <2>1. /\ hist' = hist /\ UNCHANGED <<mempool, pc, todo, sh, ackCtx, got, packets, timeouts, acks, batch>>
    BY <1>1 DEF vars, chainVars, shVars, listVars
  <2>2. \A d \in Chains : FilteredStayLive(d)'
    BY <2>1, SameChains DEF ViewsStayValid, FilteredStayLive, Filtered
  <2> QED
    BY <2>1, <2>2, SameChains, SameHeaders, SameTimeouts, SameAcks DEF ViewsStayValid
<1> QED
  BY <1>1, ChainStepKeepsViews, ServeStepKeepsViews, FaultStepKeepsViews DEF Next

\* The relayer's view of the chains is always of their past, and what it concluded from
\* it about timeouts and acknowledgements holds until the messages are executed.
THEOREM ViewsCorrect == Spec => []ViewsStayValid
BY TypeCorrect, InitViews, NextViews, PTL DEF Spec

\* ProcessTimeoutPackets never takes a packet for timed out that was or will be received,
\* whatever the finality delay, the rival relayer and the faults.
THEOREM TimeoutsCorrect == Spec => []TimeoutsAreFinal
<1>1. ViewsStayValid => TimeoutsAreFinal
  BY DEF ViewsStayValid
<1> QED
  BY <1>1, ViewsCorrect, PTL

\* Whatever the light clients verify, no packet is both received and refunded, and none
\* acknowledged that was not received.
THEOREM OutcomeCorrect == Spec => []ExclusiveOutcome
<1>1. ViewsStayValid => ExclusiveOutcome
  BY DEF ViewsStayValid, SettledRightly, ExclusiveOutcome
<1> QED
  BY <1>1, ViewsCorrect, PTL
=============================================================================
