------------------------- MODULE RelayLists_proofs -------------------------
(***************************************************************************)
(* Theorems about what the relay service lists, counts and builds from the *)
(* blocks it has read, for every value of the constants of RelayService.   *)
(***************************************************************************)
EXTENDS RelayService_proofs, FiniteSetTheorems

(***************************************************************************)
(* What a step of the service or a fault may do to the state, whichever    *)
(* step it is: headers come from finalized blocks, lists from the queries, *)
(* messages from the lists, and the mempool from the batches.              *)
(***************************************************************************)
HeaderEffects ==
    \A c \in Chains :
        /\ sh'[c] \in {sh[c], EmptyHeader, FinalizedHeader(c)} \cup {got[g][c] : g \in Chains}
        /\ ackCtx'[c] \in {ackCtx[c], EmptyStore, sh[c].at}
        /\ \A g \in Chains : got'[g][c] \in {got[g][c], EmptyHeader, FinalizedHeader(c)}

ListEffects ==
    \A c \in Chains :
        /\ packets'[c] \subseteq packets[c]
              \/ packets'[c] = QueryUnfinalizedRelayPackets(sh[c].at, Finalized(Other(c)))
        /\ acks'[c] \subseteq acks[c]
              \/ acks'[c] = QueryUnfinalizedRelayAcknowledgements(ackCtx[c], Finalized(Other(c)))

MsgEffects ==
    \A c \in Chains :
        /\ batch'[c] \in {batch[c], EmptyBatch} \cup {MsgsTo(c, r) : r \in BOOLEAN}
        /\ mempool'[c].tx \in {mempool[c].tx, batch[c], EmptyBatch}

Effects == hist' = hist /\ HeaderEffects /\ ListEffects /\ MsgEffects

\* A step that leaves headers, lists and messages alone.
LEMMA QuietEffects ==
    /\ UNCHANGED <<sh, ackCtx, got>> => HeaderEffects
    /\ UNCHANGED <<packets, acks>> => ListEffects
    /\ UNCHANGED <<batch, mempool>> => MsgEffects
BY DEF HeaderEffects, ListEffects, MsgEffects

\* Serve returns an error, or the process dies.
LEMMA ResetEffects ==
    ASSUME TypeOK, UNCHANGED <<hist, mempool>>, sh' \in {sh, NoHeaders}, ackCtx' = NoStores,
           got' = [c \in Chains |-> NoHeaders], packets' = NoPackets, acks' = NoPackets,
           batch' = NoBatches
    PROVE  Effects
<1>1. HeaderEffects
  BY DEF HeaderEffects, NoHeaders, NoStores
<1>2. ListEffects
  BY DEF ListEffects, NoPackets
<1>3. MsgEffects
  BY DEF MsgEffects, NoBatches
<1> QED
  BY <1>1, <1>2, <1>3 DEF Effects

\* A step of OnRetry's sh.Updates fetches a header or drops those of its goroutine.
LEMMA RetryHeaders ==
    ASSUME TypeOK, NEW g \in Chains, RetryStep(g)
    PROVE  Effects
<1>1. HeaderEffects
  <2>1. \A c, h \in Chains : got'[h][c] \in {got[h][c], EmptyHeader, FinalizedHeader(c)}
    BY RetryEffects
  <2> QED
    BY <2>1, RetryEffects DEF HeaderEffects
<1> QED
  BY <1>1, RetryEffects, QuietEffects DEF Effects, chainVars, listVars

\* Every step of StartService and Serve has only these effects.
LEMMA ServeStepEffects ==
    ASSUME TypeOK, ServeStep
    PROVE  Effects
<1> USE DEF Effects, chainVars, shVars, listVars
<1>1. CASE StartService
  <2>1. HeaderEffects
    BY <1>1 DEF StartService, HeaderEffects
  <2> QED
    BY <1>1, <2>1, QuietEffects DEF StartService
<1>2. CASE UpdatesSrc
  <2>1. HeaderEffects
    BY <1>2 DEF UpdatesSrc, HeaderEffects, TypeOK, NoHeaders, Chains
  <2> QED
    BY <1>2, <2>1, QuietEffects DEF UpdatesSrc
<1>3. CASE UpdatesDst
  <2>1. \A c \in Chains : sh'[c] \in {FinalizedHeader(c), got["src"][c]}
    BY <1>3 DEF UpdatesDst, TypeOK, Chains
  <2>2. \A c, g \in Chains : got'[g][c] \in {got[g][c], EmptyHeader}
    BY <1>3 DEF UpdatesDst, TypeOK, NoHeaders
  <2>3. HeaderEffects
    BY <1>3, <2>1, <2>2 DEF UpdatesDst, HeaderEffects, Chains
  <2> QED
    BY <1>3, <2>3, QuietEffects DEF UpdatesDst
<1>4. CASE UpdateBacklogMetrics
  BY <1>4, QuietEffects DEF UpdateBacklogMetrics
<1>5. CASE Wait
  BY <1>5, QuietEffects DEF Wait
<1>6. ASSUME NEW agedPackets \in SUBSET Chains, NEW agedAcks \in SUBSET Chains,
             Decide(agedPackets, agedAcks)
      PROVE  Effects
  BY <1>6, QuietEffects DEF Decide
<1>7. ASSUME NEW c \in Chains, QueryPackets(c) PROVE Effects
  <2>1. ListEffects
    BY <1>7 DEF QueryPackets, ListEffects, TypeOK
  <2> QED
    BY <1>7, <2>1, QuietEffects DEF QueryPackets
<1>8. ASSUME NEW c \in Chains, FilterUnreceived(c) PROVE Effects
  <2>1. ListEffects
    BY <1>8 DEF FilterUnreceived, ListEffects, UnreceivedPackets, TypeOK
  <2> QED
    BY <1>8, <2>1, QuietEffects DEF FilterUnreceived
<1>9. ASSUME NEW c \in Chains, ProcessTimeoutPackets(c) PROVE Effects
  <2>1. \A d \in Chains : packets'[d] \subseteq packets[d]
    BY <1>9 DEF ProcessTimeoutPackets, KeptPackets, TypeOK
  <2>2. ListEffects
    BY <1>9, <2>1 DEF ProcessTimeoutPackets, ListEffects
  <2>3. HeaderEffects
    BY <1>9 DEF ProcessTimeoutPackets, HeaderEffects
  <2> QED
    BY <1>9, <2>2, <2>3, QuietEffects DEF ProcessTimeoutPackets
<1>10. ASSUME NEW c \in Chains, QueryAcks(c) PROVE Effects
  <2>1. ListEffects
    BY <1>10 DEF QueryAcks, ListEffects, TypeOK
  <2>2. HeaderEffects
    BY <1>10 DEF QueryAcks, HeaderEffects, NoStores
  <2> QED
    BY <1>10, <2>1, <2>2, QuietEffects DEF QueryAcks
<1>11. ASSUME NEW g \in Chains, RetryStore(g) PROVE Effects
  <2>1. \A c, h \in Chains : got'[h][c] \in {got[h][c], EmptyHeader}
    BY <1>11 DEF RetryStore, TypeOK, NoHeaders
  <2>2. HeaderEffects
    BY <1>11, <2>1 DEF RetryStore, HeaderEffects
  <2> QED
    BY <1>11, <2>2, QuietEffects DEF RetryStore
<1>12. ASSUME NEW c \in Chains, FilterAcks(c) PROVE Effects
  <2>1. ListEffects
    BY <1>12 DEF FilterAcks, ListEffects, UnreceivedAcks, TypeOK
  <2> QED
    BY <1>12, <2>1, QuietEffects DEF FilterAcks
<1>13. ASSUME NEW c \in Chains, Build(c) PROVE Effects
  <2>1. PICK refresh \in Refreshes(c) : batch' = [batch EXCEPT ![c] = MsgsTo(c, refresh)]
    BY <1>13 DEF Build
  <2>2. refresh \in BOOLEAN
    BY ServiceAssumption DEF Refreshes
  <2>3. MsgEffects
    BY <1>13, <2>1, <2>2 DEF Build, MsgEffects, TypeOK
  <2>4. ListEffects
    BY <1>13 DEF Build, Forget, NoPackets, ListEffects
  <2> QED
    BY <1>13, <2>3, <2>4, QuietEffects DEF Build
<1>14. ASSUME NEW c \in Chains, BuildError(c) PROVE Effects
  BY <1>14, ResetEffects DEF BuildError, ServeFails, Forget
<1>15. ASSUME NEW c \in Chains, SendNothing(c) PROVE Effects
  BY <1>15, QuietEffects DEF SendNothing
<1>16. ASSUME NEW c \in Chains, Broadcast(c) PROVE Effects
  <2>1. MsgEffects
    BY <1>16 DEF Broadcast, MsgEffects, TypeOK
  <2> QED
    BY <1>16, <2>1, QuietEffects DEF Broadcast
<1>17. ASSUME NEW c \in Chains, SendRejected(c) PROVE Effects
  <2>1. MsgEffects
    BY <1>17 DEF SendRejected, MsgEffects, TypeOK
  <2> QED
    BY <1>17, <2>1, QuietEffects DEF SendRejected
<1>18. ASSUME NEW c \in Chains, WaitForCommit(c) PROVE Effects
  BY <1>18, QuietEffects DEF WaitForCommit
<1>19. ASSUME NEW g \in Chains, RetryFetchDst(g) PROVE Effects
  BY <1>19, RetryHeaders DEF RetryStep
<1> QED
  BY <1>1, <1>2, <1>3, <1>4, <1>5, <1>6, <1>7, <1>8, <1>9, <1>10, <1>11, <1>12, <1>13,
     <1>14, <1>15, <1>16, <1>17, <1>18, <1>19 DEF ServeStep

\* So have RPC errors, lost transactions, impatience and crashes.
LEMMA FaultStepEffects ==
    ASSUME TypeOK, FaultStep
    PROVE  Effects
<1> USE DEF Effects, chainVars, shVars, listVars
<1>1. CASE StartServiceError
  BY <1>1, QuietEffects DEF StartServiceError
<1>2. CASE ServeError
  BY <1>2, ResetEffects DEF ServeError, ServeFails, Forget
<1>3. CASE TimestampError
  BY <1>3, QuietEffects DEF TimestampError
<1>4. CASE Crash
  BY <1>4, ResetEffects DEF Crash, Forget
<1>5. ASSUME NEW c \in Chains, DropTx(c) PROVE Effects
  <2>1. MsgEffects
    BY <1>5 DEF DropTx, MsgEffects, TypeOK, NoTx
  <2> QED
    BY <1>5, <2>1, QuietEffects DEF DropTx
<1>6. ASSUME NEW g \in Chains, RetryFetchSrc(g) \/ RetryFetchError(g) PROVE Effects
  BY <1>6, RetryHeaders DEF RetryStep
<1>7. ASSUME NEW c \in Chains, GiveUpWaiting(c) PROVE Effects
  BY <1>7, QuietEffects DEF GiveUpWaiting
<1> QED
  BY <1>1, <1>2, <1>3, <1>4, <1>5, <1>6, <1>7 DEF FaultStep

-----------------------------------------------------------------------------
(***************************************************************************)
(* What the relayer holds of a chain is of its finalized past, in which    *)
(* every block contains the ones before it.                                *)
(***************************************************************************)
FinalViews ==
    \A c \in Chains :
        /\ \A i \in 1..Depth : NotAfter(hist[c][i], hist[c][i - 1])
        /\ NotAfter(sh[c].at, Finalized(c))
        /\ NotAfter(ackCtx[c], Finalized(c))
        /\ \A g \in Chains : NotAfter(got[g][c].at, Finalized(c))

\* A new block shifts the window of blocks by one: each place holds what the place before
\* it held.
LEMMA BlockShifts ==
    ASSUME TypeOK, ViewsStayValid, FinalViews, NEW c \in Chains, NEW s \in Store,
           AddBlock(c, s), MayFollow(c, s)
    PROVE  /\ Latest(c)' = s /\ NotAfter(Latest(c), s)
           /\ NotAfter(Finalized(c), Finalized(c)')
           /\ \A i \in 1..Depth : NotAfter(hist'[c][i], hist'[c][i - 1])
           /\ hist'[Other(c)] = hist[Other(c)]
           /\ Latest(Other(c))' = Latest(Other(c))
           /\ Finalized(Other(c))' = Finalized(Other(c))
<1>1. /\ hist'[c] = [i \in 0..Depth |-> IF i = 0 THEN s ELSE hist[c][i - 1]]
      /\ hist'[Other(c)] = hist[Other(c)]
  BY OtherFacts DEF AddBlock, TypeOK
<1>2. NotAfter(Latest(c), s)
  BY FollowersGrow DEF Grows
<1>3. Latest(c)' = s
  BY <1>1, Window DEF Latest
<1>4. ASSUME NEW i \in 1..Depth PROVE NotAfter(hist'[c][i], hist'[c][i - 1])
  <2>1. i \in 0..Depth /\ i - 1 \in 0..Depth /\ i # 0
    BY Window
  <2>2. hist'[c][i] = hist[c][i - 1]
    BY <1>1, <2>1
  <2>3. CASE i = 1
    BY <1>1, <1>2, <2>1, <2>2, <2>3 DEF Latest
  <2>4. CASE i # 1
    <3>1. i - 1 \in 1..Depth /\ i - 1 # 0
      BY <2>4, Window
    <3>2. hist'[c][i - 1] = hist[c][(i - 1) - 1]
      BY <1>1, <2>1, <3>1
    <3> QED
      BY <2>2, <3>1, <3>2 DEF FinalViews
  <2> QED
    BY <2>3, <2>4
<1>5. NotAfter(Finalized(c), Finalized(c)')
  <2>1. CASE Delay = 0
    BY <1>1, <1>2, <2>1, Window DEF Finalized, Latest
  <2>2. CASE Delay # 0
    <3>1. Delay \in 1..Depth
      BY <2>2, Window
    <3>2. hist'[c][Delay] = hist[c][Delay - 1]
      BY <1>1, <2>2, Window
    <3> QED
      BY <3>1, <3>2 DEF FinalViews, Finalized
  <2> QED
    BY <2>1, <2>2
<1> QED
  BY <1>1, <1>2, <1>3, <1>4, <1>5 DEF Latest, Finalized

\* The finalized block is never forgotten, and the relayer's view never gets ahead of it.
LEMMA NextFinalViews ==
    TypeOK /\ ViewsStayValid /\ FinalViews /\ [Next]_vars => FinalViews'
<1> SUFFICES ASSUME TypeOK, ViewsStayValid, FinalViews, [Next]_vars PROVE FinalViews'
  OBVIOUS
<1>1. CASE ChainStep
  <2>1. PICK c \in Chains, s \in Store :
            AddBlock(c, s) /\ MayFollow(c, s) /\ UNCHANGED shVars
    BY <1>1, ChainStepAddsBlock
  <2>2. ASSUME NEW d \in Chains
        PROVE  /\ NotAfter(Finalized(d), Finalized(d)')
               /\ \A i \in 1..Depth : NotAfter(hist'[d][i], hist'[d][i - 1])
    <3>1. CASE d = c
      BY <2>1, <3>1, BlockShifts
    <3>2. CASE d = Other(c)
      <4>1. Finalized(d)' = Finalized(d) /\ hist'[d] = hist[d]
        BY <2>1, <3>2, BlockShifts
      <4> QED
        BY <4>1, NotAfterOrder DEF FinalViews
    <3> QED
      BY <3>1, <3>2 DEF Chains, Other
  <2> QED
    BY <2>1, <2>2, NotAfterOrder DEF FinalViews, shVars
<1>2. CASE Effects
  <2>1. \A c \in Chains : Finalized(c)' = Finalized(c) /\ FinalizedHeader(c).at = Finalized(c)
    BY <1>2 DEF Effects, Finalized, FinalizedHeader
  <2>2. \A c \in Chains : NotAfter(EmptyStore, Finalized(c)) /\ NotAfter(Finalized(c), Finalized(c))
    BY NotAfterOrder, ReadTypes
  <2>3. ASSUME NEW c \in Chains
        PROVE  /\ NotAfter(sh'[c].at, Finalized(c)) /\ NotAfter(ackCtx'[c], Finalized(c))
               /\ \A g \in Chains : NotAfter(got'[g][c].at, Finalized(c))
    BY <1>2, <2>1, <2>2 DEF Effects, HeaderEffects, EmptyHeader, FinalViews
  <2> QED
    BY <1>2, <2>1, <2>3 DEF Effects, FinalViews
<1>3. CASE UNCHANGED vars
  BY <1>3 DEF vars, chainVars, shVars, FinalViews, Finalized
<1> QED
  BY <1>1, <1>2, <1>3, ServeStepEffects, FaultStepEffects DEF Next

\* Nothing has been read of the first blocks.
LEMMA InitFinalViews == Init => FinalViews
<1> SUFFICES ASSUME Init PROVE FinalViews
  OBVIOUS
<1>1. \A c \in Chains : \A i \in 0..Depth : hist[c][i] = EmptyStore
  BY DEF Init
<1>2. \A i \in 1..Depth : i \in 0..Depth /\ i - 1 \in 0..Depth
  BY Window
<1>3. \A c \in Chains : /\ sh[c].at = EmptyStore /\ ackCtx[c] = EmptyStore
                        /\ \A g \in Chains : got[g][c].at = EmptyStore
  BY DEF Init, NoHeaders, NoStores, EmptyHeader
<1> QED
  BY <1>1, <1>2, <1>3, Window, NotAfterOrder DEF FinalViews, Finalized

\* All the relayer has read of a chain is contained in the block that is finalized now.
LEMMA FinalViewsCorrect == Spec => []FinalViews
BY TypeCorrect, ViewsCorrect, InitFinalViews, NextFinalViews, PTL DEF Spec

-----------------------------------------------------------------------------
(***************************************************************************)
(* ListsCoveredByHeaders.  The headers are replaced while lists exist only *)
(* by the OnRetry callbacks of the ack queries; those fetch headers after  *)
(* the query heights ackCtx were fixed, so that both what is stored and    *)
(* what is still to be stored contain ackCtx, and ackCtx all the lists.    *)
(***************************************************************************)
ListPhases == {"packets", "metrics", "unreceived", "timeouts", "acks", "unreceivedAcks",
               "decide", "build"}

NoListsYet ==
    pc \notin ListPhases => packets = NoPackets /\ timeouts = NoPackets /\ acks = NoPackets

\* Goroutine g, inside the sh.Updates of its OnRetry, has fetched the header of chain c.
HasHeader(g, c) == g \in fetching /\ (c = "src" \/ g \in fetched)

QueryHeightsHold ==
    pc = "acks" =>
        \A c \in Chains :
            /\ packets[c] \subseteq ackCtx[c].sent
            /\ acks[c] \subseteq ackCtx[c].recv
            /\ timeouts[c] \subseteq ackCtx[Other(c)].expired
            /\ NotAfter(ackCtx[c], sh[c].at)
            /\ \A g \in Chains : HasHeader(g, c) => NotAfter(ackCtx[c], got[g][c].at)

FetchingInTime == fetching \subseteq todo /\ (pc # "acks" => fetching = {})

ListsInv == ListsCoveredByHeaders /\ NoListsYet /\ QueryHeightsHold /\ FetchingInTime

\* Without lists nothing has to be covered.
LEMMA NothingListed ==
    ASSUME packets = NoPackets, timeouts = NoPackets, acks = NoPackets
    PROVE  ListsCoveredByHeaders /\ NoListsYet
BY DEF NoPackets, ListsCoveredByHeaders, NoListsYet

\* While headers stay and lists shrink, the lists stay covered.
LEMMA ShrunkLists ==
    ASSUME ListsInv, sh' = sh,
           \A c \in Chains : /\ packets'[c] \subseteq packets[c] /\ acks'[c] \subseteq acks[c]
                             /\ timeouts'[c] \subseteq timeouts[c]
    PROVE  ListsCoveredByHeaders'
BY OtherFacts DEF ListsInv, ListsCoveredByHeaders

\* A phase outside of the ack queries, entered with covered lists.
LEMMA OtherPhase ==
    ASSUME ListsCoveredByHeaders', pc' # "acks", pc' \in ListPhases, fetching' = {}
    PROVE  ListsInv'
BY DEF ListsInv, NoListsYet, QueryHeightsHold, FetchingInTime

\* A phase without lists.
LEMMA PhaseWithoutLists ==
    ASSUME packets' = NoPackets, timeouts' = NoPackets, acks' = NoPackets, pc' # "acks",
           fetching' = {}
    PROVE  ListsInv'
<1>1. ListsCoveredByHeaders' /\ NoListsYet'
  BY DEF NoPackets, ListsCoveredByHeaders, NoListsYet
<1> QED
  BY <1>1 DEF ListsInv, QueryHeightsHold, FetchingInTime

\* What the queries list is in the store they read.
LEMMA QueriesRead ==
    ASSUME NEW s, NEW t
    PROVE  /\ QueryUnfinalizedRelayPackets(s, t) \subseteq Commitments(s)
           /\ Commitments(s) \subseteq s.sent
           /\ QueryUnfinalizedRelayAcknowledgements(s, t) \subseteq s.recv
BY DEF QueryUnfinalizedRelayPackets, QueryUnfinalizedRelayAcknowledgements, UnreceivedPackets,
       UnreceivedAcks, Page, Commitments

\* A goroutine holds after a step of OnRetry's sh.Updates what it held, or a header that
\* is finalized now.
LEMMA RetryHolds ==
    ASSUME TypeOK, NEW g \in Chains, RetryStep(g), NEW h \in Chains, NEW c \in Chains, HasHeader(h, c)'
    PROVE  (HasHeader(h, c) /\ got'[h][c] = got[h][c]) \/ got'[h][c] = FinalizedHeader(c)
<1>1. CASE h # g
  <2>1. got'[h] = got[h] /\ (h \in fetching' => h \in fetching) /\ (h \in fetched' => h \in fetched)
    BY <1>1, RetryEffects DEF RetryStep, RetryFetchSrc, RetryFetchDst, RetryFetchError
  <2> QED
    BY <2>1 DEF HasHeader
<1>2. CASE h = g /\ RetryFetchSrc(g)
  <2>1. got'[g] = [NoHeaders EXCEPT !["src"] = FinalizedHeader("src")]
    BY <1>2 DEF RetryFetchSrc, TypeOK
  <2>2. c = "src"
    BY <1>2 DEF RetryFetchSrc, HasHeader, TypeOK
  <2> QED
    BY <1>2, <2>1, <2>2 DEF NoHeaders
<1>3. CASE h = g /\ RetryFetchDst(g)
  <2>1. got'[g] = [got[g] EXCEPT !["dst"] = FinalizedHeader("dst")] /\ g \in fetching
    BY <1>3 DEF RetryFetchDst, TypeOK
  <2> QED
    BY <1>3, <2>1 DEF HasHeader, Chains, TypeOK
<1>4. CASE h = g /\ RetryFetchError(g)
  BY <1>4 DEF RetryFetchError, HasHeader
<1> QED
  BY <1>1, <1>2, <1>3, <1>4 DEF RetryStep

\* Headers fetched by an OnRetry callback are not older than the query heights.
LEMMA RetryKeepsLists ==
    ASSUME TypeOK, FinalViews, ListsInv, NEW g \in Chains, RetryStep(g)
    PROVE  ListsInv'
<1>1. /\ pc = "acks" /\ pc' = pc /\ UNCHANGED <<todo, sh, ackCtx, packets, timeouts, acks>>
  BY RetryEffects DEF listVars
<1>2. \A c \in Chains : NotAfter(ackCtx[c], FinalizedHeader(c).at)
  BY DEF FinalViews, FinalizedHeader, Finalized
<1>3. \A c, h \in Chains : HasHeader(h, c)' => NotAfter(ackCtx[c], got'[h][c].at)
  BY <1>1, <1>2, RetryHolds DEF ListsInv, QueryHeightsHold
<1>4. QueryHeightsHold'
  BY <1>1, <1>3 DEF ListsInv, QueryHeightsHold
<1>5. FetchingInTime'
  BY <1>1
  DEF RetryStep, RetryFetchSrc, RetryFetchDst, RetryFetchError, ListsInv, FetchingInTime
<1> QED
  BY <1>1, <1>4, <1>5 DEF ListsInv, ListsCoveredByHeaders, NoListsYet

\* Every step of StartService and Serve keeps the lists covered.
LEMMA ServeStepLists ==
    ASSUME TypeOK, FinalViews, ListsInv, ServeStep
    PROVE  ListsInv'
<1> USE DEF chainVars, shVars, listVars, ListPhases
<1>1. CASE StartService
  BY <1>1, PhaseWithoutLists DEF StartService, Goto, ListsInv, NoListsYet, FetchingInTime
<1>2. CASE UpdatesSrc
  BY <1>2, PhaseWithoutLists DEF UpdatesSrc, Goto, ListsInv, NoListsYet, FetchingInTime
<1>3. CASE UpdatesDst
  BY <1>3, PhaseWithoutLists DEF UpdatesDst, Goto, ListsInv, NoListsYet, FetchingInTime
<1>4. CASE UpdateBacklogMetrics
  BY <1>4, ShrunkLists, OtherPhase DEF UpdateBacklogMetrics, Goto, ListsInv, FetchingInTime
<1>5. CASE Wait
  BY <1>5, PhaseWithoutLists DEF Wait, Goto, ListsInv, NoListsYet, FetchingInTime
<1>6. ASSUME NEW agedPackets \in SUBSET Chains, NEW agedAcks \in SUBSET Chains,
             Decide(agedPackets, agedAcks)
      PROVE  ListsInv'
  BY <1>6, ShrunkLists, OtherPhase DEF Decide, Goto, ListsInv, FetchingInTime
<1>7. ASSUME NEW c \in Chains, QueryPackets(c) PROVE ListsInv'
  <2>1. \A d \in Chains : packets'[d] \subseteq sh[d].at.sent
    BY <1>7, QueriesRead DEF QueryPackets, TypeOK, ListsInv, ListsCoveredByHeaders
  <2>2. ListsCoveredByHeaders'
    BY <1>7, <2>1 DEF QueryPackets, ListsInv, ListsCoveredByHeaders
  <2> QED
    BY <1>7, <2>2, OtherPhase DEF QueryPackets, Done, Goto, ListsInv, FetchingInTime
<1>8. ASSUME NEW c \in Chains, FilterUnreceived(c) PROVE ListsInv'
  <2>1. \A d \in Chains : packets'[d] \subseteq packets[d]
    BY <1>8 DEF FilterUnreceived, UnreceivedPackets, TypeOK
  <2>2. ListsCoveredByHeaders'
    BY <1>8, <2>1, ShrunkLists DEF FilterUnreceived
  <2> QED
    BY <1>8, <2>2, OtherPhase DEF FilterUnreceived, Done, Goto, ListsInv, FetchingInTime
<1>9. ASSUME NEW c \in Chains, ProcessTimeoutPackets(c) PROVE ListsInv'
  <2>1. \A d \in Chains : packets'[d] \subseteq packets[d]
    BY <1>9 DEF ProcessTimeoutPackets, KeptPackets, TypeOK
  <2>2. \A d \in Chains : timeouts'[d] \subseteq sh[Other(d)].at.expired
    <3>1. PICK answered \in BOOLEAN :
              timeouts' = [timeouts EXCEPT ![c] =
                             TimeoutPackets(packets[c], sh[Other(c)].at, answered)]
      BY <1>9 DEF ProcessTimeoutPackets
    <3>2. TimeoutPackets(packets[c], sh[Other(c)].at, answered) \subseteq sh[Other(c)].at.expired
      BY DEF TimeoutPackets
    <3> QED
      BY <3>1, <3>2 DEF TypeOK, ListsInv, ListsCoveredByHeaders
  <2>3. ListsCoveredByHeaders'
    BY <1>9, <2>1, <2>2 DEF ProcessTimeoutPackets, ListsInv, ListsCoveredByHeaders
  <2>4. CASE todo = {c}
    <3>1. pc' = "acks" /\ fetching' = {} /\ ackCtx' = [d \in Chains |-> sh[d].at] /\ sh' = sh
      BY <1>9, <2>4 DEF ProcessTimeoutPackets, Done, Goto, ListsInv, FetchingInTime
    <3>2. QueryHeightsHold'
      BY <2>3, <3>1, OtherFacts, NotAfterOrder DEF HasHeader, QueryHeightsHold, ListsCoveredByHeaders
    <3> QED
      BY <2>3, <3>1, <3>2 DEF ListsInv, NoListsYet, FetchingInTime
  <2>5. CASE todo # {c}
    BY <1>9, <2>3, <2>5, OtherPhase
    DEF ProcessTimeoutPackets, Done, ListsInv, FetchingInTime
  <2> QED
    BY <2>4, <2>5
<1>10. ASSUME NEW c \in Chains, QueryAcks(c) PROVE ListsInv'
  <2>1. ASSUME NEW d \in Chains
        PROVE  acks'[d] \subseteq ackCtx[d].recv
    BY <1>10, QueriesRead DEF QueryAcks, TypeOK, ListsInv, QueryHeightsHold
  <2>2. \A d \in Chains : ackCtx[d].recv \subseteq sh[d].at.recv
    BY <1>10 DEF QueryAcks, ListsInv, QueryHeightsHold, NotAfter
  <2>3. ListsCoveredByHeaders'
    BY <1>10, <2>1, <2>2 DEF QueryAcks, ListsInv, ListsCoveredByHeaders
  <2>4. CASE todo = {c}
    BY <1>10, <2>3, <2>4, OtherPhase DEF QueryAcks, Done, Goto, ListsInv, FetchingInTime
  <2>5. CASE todo # {c}
    <3>1. QueryHeightsHold'
      BY <1>10, <2>1, <2>5 DEF HasHeader, QueryAcks, Done, ListsInv, QueryHeightsHold
    <3>2. FetchingInTime' /\ NoListsYet'
      BY <1>10, <2>5 DEF QueryAcks, Done, ListsInv, FetchingInTime, NoListsYet
    <3> QED
      BY <2>3, <3>1, <3>2 DEF ListsInv
  <2> QED
    BY <2>4, <2>5
<1>11. ASSUME NEW g \in Chains, RetryStore(g) PROVE ListsInv'
  <2>1. /\ pc = "acks" /\ pc' = pc /\ g \in fetching /\ g \in fetched /\ sh' = got[g]
        /\ UNCHANGED <<todo, ackCtx, packets, timeouts, acks>>
        /\ fetching' = fetching \ {g} /\ fetched' = fetched \ {g}
    BY <1>11 DEF RetryStore, TypeOK
  <2>2. \A c \in Chains : NotAfter(ackCtx[c], got[g][c].at)
    BY <2>1 DEF ListsInv, QueryHeightsHold, HasHeader
  <2>3. ListsCoveredByHeaders'
    BY <2>1, <2>2, OtherFacts DEF ListsInv, QueryHeightsHold, ListsCoveredByHeaders, NotAfter
  <2>4. \A h, c \in Chains : HasHeader(h, c)' => HasHeader(h, c) /\ got'[h] = got[h]
    BY <1>11, <2>1 DEF RetryStore, TypeOK, HasHeader
  <2>5. QueryHeightsHold'
    BY <2>1, <2>2, <2>4 DEF ListsInv, QueryHeightsHold
  <2> QED
    BY <2>1, <2>3, <2>5 DEF ListsInv, NoListsYet, FetchingInTime
<1>12. ASSUME NEW c \in Chains, FilterAcks(c) PROVE ListsInv'
  <2>1. \A d \in Chains : acks'[d] \subseteq acks[d]
    BY <1>12 DEF FilterAcks, UnreceivedAcks, TypeOK
  <2>2. ListsCoveredByHeaders'
    BY <1>12, <2>1, ShrunkLists DEF FilterAcks
  <2> QED
    BY <1>12, <2>2, OtherPhase DEF FilterAcks, Done, Goto, ListsInv, FetchingInTime
<1>13. ASSUME NEW c \in Chains, Build(c) PROVE ListsInv'
  <2>1. CASE todo = {c}
    BY <1>13, <2>1, PhaseWithoutLists DEF Build, Done, Goto, Forget, ListsInv, FetchingInTime
  <2>2. CASE todo # {c}
    BY <1>13, <2>2, ShrunkLists, OtherPhase DEF Build, Done, ListsInv, FetchingInTime
  <2> QED
    BY <2>1, <2>2
<1>14. ASSUME NEW c \in Chains, BuildError(c) PROVE ListsInv'
  BY <1>14, PhaseWithoutLists DEF BuildError, ServeFails, Forget, Goto
<1>15. ASSUME NEW c \in Chains, SendNothing(c) PROVE ListsInv'
  BY <1>15, PhaseWithoutLists
  DEF SendNothing, AfterSend, SendPhase, Goto, ListsInv, NoListsYet, FetchingInTime
<1>16. ASSUME NEW c \in Chains, Broadcast(c) PROVE ListsInv'
  BY <1>16, PhaseWithoutLists
  DEF Broadcast, SendPhase, WaitPhase, Goto, ListsInv, NoListsYet, FetchingInTime
<1>17. ASSUME NEW c \in Chains, SendRejected(c) PROVE ListsInv'
  BY <1>17, PhaseWithoutLists
  DEF SendRejected, AfterSend, SendPhase, Goto, ListsInv, NoListsYet, FetchingInTime
<1>18. ASSUME NEW c \in Chains, WaitForCommit(c) PROVE ListsInv'
  BY <1>18, PhaseWithoutLists
  DEF WaitForCommit, AfterSend, WaitPhase, Goto, ListsInv, NoListsYet, FetchingInTime
<1>19. ASSUME NEW g \in Chains, RetryFetchDst(g) PROVE ListsInv'
  BY <1>19, RetryKeepsLists DEF RetryStep
<1> QED
  BY <1>1, <1>2, <1>3, <1>4, <1>5, <1>6, <1>7, <1>8, <1>9, <1>10, <1>11, <1>12, <1>13,
     <1>14, <1>15, <1>16, <1>17, <1>18, <1>19 DEF ServeStep

\* So do faults: headers fetched by an OnRetry callback are newer than the query heights.
LEMMA FaultStepLists ==
    ASSUME TypeOK, FinalViews, ListsInv, FaultStep
    PROVE  ListsInv'
<1> USE DEF chainVars, shVars, listVars, ListPhases
<1>1. CASE StartServiceError
  BY <1>1, PhaseWithoutLists DEF StartServiceError, Goto, ListsInv, NoListsYet, FetchingInTime
<1>2. CASE ServeError
  BY <1>2, PhaseWithoutLists DEF ServeError, ServeFails, Forget, Goto
<1>3. CASE TimestampError
  BY <1>3, ShrunkLists, OtherPhase DEF TimestampError, Goto, ListsInv, FetchingInTime
<1>4. CASE Crash
  BY <1>4, PhaseWithoutLists DEF Crash, Forget, Goto
<1>5. ASSUME NEW c \in Chains, DropTx(c) PROVE ListsInv'
  BY <1>5
  DEF HasHeader, DropTx, ListsInv, ListsCoveredByHeaders, NoListsYet, QueryHeightsHold, FetchingInTime
<1>6. ASSUME NEW g \in Chains, RetryFetchSrc(g) \/ RetryFetchError(g) PROVE ListsInv'
  BY <1>6, RetryKeepsLists DEF RetryStep
<1>7. ASSUME NEW c \in Chains, GiveUpWaiting(c) PROVE ListsInv'
  BY <1>7, PhaseWithoutLists
  DEF GiveUpWaiting, AfterSend, WaitPhase, Goto, ListsInv, NoListsYet, FetchingInTime
<1> QED
  BY <1>1, <1>2, <1>3, <1>4, <1>5, <1>6, <1>7 DEF FaultStep

\* ListsInv is inductive together with what is known of the views.
LEMMA NextListsInv == TypeOK /\ FinalViews /\ ListsInv /\ [Next]_vars => ListsInv'
<1> SUFFICES ASSUME TypeOK, FinalViews, ListsInv, [Next]_vars PROVE ListsInv'
  OBVIOUS
<1>1. ASSUME UNCHANGED <<pc, todo, shVars, listVars>> PROVE ListsInv'
  BY <1>1
  DEF HasHeader, shVars, listVars, ListsInv, ListsCoveredByHeaders, NoListsYet, QueryHeightsHold,
      FetchingInTime
<1>2. CASE ChainStep
  BY <1>1, <1>2, ChainStepAddsBlock
<1>3. CASE UNCHANGED vars
  BY <1>1, <1>3 DEF vars
<1> QED
  BY <1>2, <1>3, ServeStepLists, FaultStepLists DEF Next

\* The relayer starts with empty lists.
LEMMA InitListsInv == Init => ListsInv
BY NothingListed DEF Init, ListsInv, QueryHeightsHold, FetchingInTime

\* ListsInv holds throughout.
LEMMA ListsInvCorrect == Spec => []ListsInv
BY TypeCorrect, FinalViewsCorrect, InitListsInv, NextListsInv, PTL DEF Spec

\* The SyncHeaders that proofs are built from are never older than what the lists were
\* read from, although the OnRetry callbacks of both ack queries may store headers
\* concurrently and out of order.
THEOREM ListsCorrect == Spec => []ListsCoveredByHeaders
<1>1. ListsInv => ListsCoveredByHeaders
  BY DEF ListsInv
<1> QED
  BY <1>1, ListsInvCorrect, PTL

-----------------------------------------------------------------------------
(***************************************************************************)
(* What OnlyNewPacketsUnprovable needs of the lists.  Without faults no    *)
(* header is replaced after a list was read from it, and a timeout is      *)
(* decided by ProcessTimeoutPackets from the very header that proves it.   *)
(***************************************************************************)
SameBlock ==
    ProofLag = 0 =>
        \A c \in Chains : /\ sh[c].proves = sh[c].at
                          /\ \A g \in Chains : got[g][c].proves = got[g][c].at

ListsProvable ==
    faults = 0 =>
        /\ fetching = {}
        /\ \A c \in Chains : /\ packets[c] \subseteq Commitments(sh[c].at)
                             /\ \A n \in timeouts[c] : ProvesNotReceived(sh[Other(c)].at, n)

\* Headers come from FinalizedHeader, which without a lag proves the block it is of.
LEMMA NextSameBlock == TypeOK /\ SameBlock /\ [Next]_vars => SameBlock'
<1> SUFFICES ASSUME TypeOK, SameBlock, [Next]_vars, ProofLag = 0
             PROVE  \A c \in Chains : /\ sh'[c].proves = sh'[c].at
                                      /\ \A g \in Chains : got'[g][c].proves = got'[g][c].at
  BY DEF SameBlock
<1>1. ASSUME UNCHANGED <<sh, got>>
      PROVE  \A c \in Chains : /\ sh'[c].proves = sh'[c].at
                               /\ \A g \in Chains : got'[g][c].proves = got'[g][c].at
  BY <1>1 DEF SameBlock
<1>2. CASE Effects
  <2>1. \A c \in Chains : FinalizedHeader(c).proves = FinalizedHeader(c).at
    BY ServiceAssumption DEF FinalizedHeader, Depth
  <2> QED
    BY <1>2, <2>1 DEF Effects, HeaderEffects, SameBlock, EmptyHeader
<1>3. CASE ChainStep
  BY <1>1, <1>3, ChainStepAddsBlock DEF shVars
<1>4. CASE UNCHANGED vars
  BY <1>1, <1>4 DEF vars, shVars
<1> QED
  BY <1>2, <1>3, <1>4, ServeStepEffects, FaultStepEffects DEF Next

\* Every fault is counted.
LEMMA FaultsCount == TypeOK /\ FaultStep => faults' # 0
BY DEF TypeOK, FaultStep, StartServiceError, ServeError, TimestampError, Crash, DropTx,
       RetryFetchSrc, RetryFetchError, GiveUpWaiting, Fault

\* Lists that shrink under the same headers stay provable.
LEMMA ShrunkProvable ==
    ASSUME ListsProvable, UNCHANGED <<sh, fetching, faults>>,
           \A c \in Chains : packets'[c] \subseteq packets[c] /\ timeouts'[c] \subseteq timeouts[c]
    PROVE  ListsProvable'
BY DEF ListsProvable

\* So do empty lists under any header.
LEMMA EmptyProvable ==
    ASSUME fetching' = {}, packets' = NoPackets, timeouts' = NoPackets
    PROVE  ListsProvable'
BY DEF ListsProvable, NoPackets

\* Every step of StartService and Serve keeps the lists provable.
LEMMA ServeStepProvable ==
    ASSUME TypeOK, ViewsStayValid, ListsInv, ListsProvable, ServeStep
    PROVE  ListsProvable'
<1> USE DEF chainVars, shVars, listVars, ListPhases
<1>1. CASE StartService
  BY <1>1, EmptyProvable DEF StartService, ListsInv, NoListsYet, FetchingInTime
<1>2. CASE UpdatesSrc
  BY <1>2, EmptyProvable DEF UpdatesSrc, ListsInv, NoListsYet, FetchingInTime
<1>3. CASE UpdatesDst
  BY <1>3, EmptyProvable DEF UpdatesDst, ListsInv, NoListsYet, FetchingInTime
<1>4. CASE UpdateBacklogMetrics
  BY <1>4, ShrunkProvable DEF UpdateBacklogMetrics
<1>5. CASE Wait
  BY <1>5, ShrunkProvable DEF Wait
<1>6. ASSUME NEW agedPackets \in SUBSET Chains, NEW agedAcks \in SUBSET Chains,
             Decide(agedPackets, agedAcks)
      PROVE  ListsProvable'
  BY <1>6, ShrunkProvable DEF Decide
<1>7. ASSUME NEW c \in Chains, QueryPackets(c) PROVE ListsProvable'
  <2>1. \A d \in Chains : packets'[d] \subseteq packets[d]
                             \/ packets'[d] \subseteq Commitments(sh[d].at)
    BY <1>7, QueriesRead DEF QueryPackets, TypeOK
  <2> QED
    BY <1>7, <2>1 DEF QueryPackets, ListsProvable
<1>8. ASSUME NEW c \in Chains, FilterUnreceived(c) PROVE ListsProvable'
  <2>1. \A d \in Chains : packets'[d] \subseteq packets[d]
    BY <1>8 DEF FilterUnreceived, UnreceivedPackets, TypeOK
  <2> QED
    BY <1>8, <2>1, ShrunkProvable DEF FilterUnreceived
<1>9. ASSUME NEW c \in Chains, ProcessTimeoutPackets(c) PROVE ListsProvable'
  <2> SUFFICES ASSUME faults' = 0 PROVE ListsProvable'
    BY DEF ListsProvable
  <2>1. PICK answered \in BOOLEAN :
           /\ IF answered THEN UNCHANGED faults ELSE Ordered /\ Fault
           /\ timeouts' = [timeouts EXCEPT ![c] =
                             TimeoutPackets(packets[c], sh[Other(c)].at, answered)]
    BY <1>9 DEF ProcessTimeoutPackets
  <2>2. faults = 0
    BY <2>1 DEF Fault, TypeOK
  <2>3. \A d \in Chains : packets'[d] \subseteq packets[d]
    BY <1>9 DEF ProcessTimeoutPackets, KeptPackets, TypeOK
  <2>4. ASSUME NEW n \in TimeoutPackets(packets[c], sh[Other(c)].at, answered)
        PROVE  ProvesNotReceived(sh[Other(c)].at, n)
    <3>1. CASE Ordered
      BY <2>4, <3>1 DEF TimeoutPackets, ProvesNotReceived
    <3>2. CASE ~Ordered
      <4>1. n \in packets[c] \cap sh[Other(c)].at.expired
        BY <2>4, <3>2 DEF TimeoutPackets
      <4>2. n \notin Recv(c)
        BY <1>9, <4>1 DEF ProcessTimeoutPackets, ViewsStayValid, FilteredStayLive, Filtered
      <4>3. sh[Other(c)].at.recv \subseteq Recv(c)
        BY OtherFacts, ReadsThePast DEF NotAfter, Recv
      <4> QED
        BY <3>2, <4>2, <4>3 DEF ProvesNotReceived
    <3> QED
      BY <3>1, <3>2
  <2>5. \A d \in Chains : \A n \in timeouts'[d] : ProvesNotReceived(sh[Other(d)].at, n)
    BY <2>1, <2>2, <2>4 DEF ListsProvable, TypeOK
  <2> QED
    BY <1>9, <2>2, <2>3, <2>5 DEF ProcessTimeoutPackets, ListsProvable
<1>10. ASSUME NEW c \in Chains, QueryAcks(c) PROVE ListsProvable'
  BY <1>10, ShrunkProvable DEF QueryAcks
<1>11. ASSUME NEW g \in Chains, RetryFetchDst(g) \/ RetryStore(g) PROVE ListsProvable'
  BY <1>11 DEF RetryFetchDst, RetryStore, ListsProvable, TypeOK
<1>12. ASSUME NEW c \in Chains, FilterAcks(c) PROVE ListsProvable'
  BY <1>12, ShrunkProvable DEF FilterAcks
<1>13. ASSUME NEW c \in Chains, Build(c) PROVE ListsProvable'
  BY <1>13, ShrunkProvable DEF Build, Forget, NoPackets
<1>14. ASSUME NEW c \in Chains, BuildError(c) PROVE ListsProvable'
  BY <1>14, EmptyProvable DEF BuildError, ServeFails, Forget
<1>15. ASSUME NEW c \in Chains, SendNothing(c) PROVE ListsProvable'
  BY <1>15, ShrunkProvable DEF SendNothing
<1>16. ASSUME NEW c \in Chains, Broadcast(c) PROVE ListsProvable'
  BY <1>16, ShrunkProvable DEF Broadcast
<1>17. ASSUME NEW c \in Chains, SendRejected(c) PROVE ListsProvable'
  BY <1>17, ShrunkProvable DEF SendRejected
<1>18. ASSUME NEW c \in Chains, WaitForCommit(c) PROVE ListsProvable'
  BY <1>18, ShrunkProvable DEF WaitForCommit
<1> QED
  BY <1>1, <1>2, <1>3, <1>4, <1>5, <1>6, <1>7, <1>8, <1>9, <1>10, <1>11, <1>12, <1>13,
     <1>14, <1>15, <1>16, <1>17, <1>18 DEF ServeStep

\* ListsProvable is inductive together with the earlier invariants.
LEMMA NextListsProvable ==
    TypeOK /\ ViewsStayValid /\ ListsInv /\ ListsProvable /\ [Next]_vars => ListsProvable'
<1> SUFFICES ASSUME TypeOK, ViewsStayValid, ListsInv, ListsProvable, [Next]_vars
             PROVE  ListsProvable'
  OBVIOUS
<1>1. CASE ChainStep
  BY <1>1, ChainStepAddsBlock, ShrunkProvable DEF shVars, listVars
<1>2. CASE FaultStep
  BY <1>2, FaultsCount DEF ListsProvable
<1>3. CASE UNCHANGED vars
  BY <1>3, ShrunkProvable DEF vars, shVars, listVars
<1> QED
  BY <1>1, <1>2, <1>3, ServeStepProvable DEF Next

\* The relayer starts with empty headers and lists.
LEMMA InitProvable == Init => SameBlock /\ ListsProvable
BY DEF Init, SameBlock, ListsProvable, NoHeaders, EmptyHeader, NoPackets

-----------------------------------------------------------------------------
(***************************************************************************)
(* CountedAreSettled.  A packet of the backlog that is missing from the    *)
(* next list is counted as received.  It is in the block the header is of, *)
(* so that its commitment is either still there, and the query left it out *)
(* because the finalized counterparty has received it, or was deleted by a *)
(* refund or by an acknowledgement, which exists only for packets that the *)
(* finalized counterparty has received.                                    *)
(***************************************************************************)
AcksFinal(c) ==
    acks[Other(c)] \cup batch[c].ack \cup mempool[c].tx.ack \cup Latest(c).acked
        \subseteq Finalized(Other(c)).recv

AcksAreFinal == \A c \in Chains : AcksFinal(c)

BacklogRead(c) ==
    /\ backlog[c] \subseteq sh[c].at.sent
    /\ \A g \in Chains : HasHeader(g, c) => backlog[c] \subseteq got[g][c].at.sent
    /\ pc = "updatesDst" /\ c = "src" => backlog[c] \subseteq got["src"][c].at.sent

Listed(c) == pc = "metrics" \/ (pc = "packets" /\ c \notin todo)

ListComplete(c) ==
    Listed(c) => Commitments(sh[c].at) \subseteq packets[c] \cup Finalized(Other(c)).recv

BacklogInv ==
    /\ pc = "start" => backlog = NoPackets
    /\ \A c \in Chains : BacklogRead(c) /\ ListComplete(c)

\* A page of at least as many entries as there are packets holds all of them.
LEMMA WholePage ==
    ASSUME MaxSeq <= PageLimit, NEW S \in SUBSET Seqs
    PROVE  Page(S) = S
<1> SUFFICES ASSUME NEW n \in S
             PROVE  Cardinality({m \in S : StorePos[m] < StorePos[n]}) < PageLimit
  BY DEF Page
<1> DEFINE T == {m \in S : StorePos[m] < StorePos[n]}
<1>1. IsFiniteSet(Seqs) /\ Cardinality(Seqs) = MaxSeq
  BY ChainAssumption, FS_Interval DEF Seqs
<1>2. T \in SUBSET Seqs /\ n \in Seqs
  OBVIOUS
<1>3. n \notin T
  <2>1. StorePos[n] \in Nat
    BY <1>2, ChainAssumption
  <2> QED
    BY <2>1
<1>4. T # Seqs
  BY <1>2, <1>3
<1>5. IsFiniteSet(T) /\ Cardinality(T) <= Cardinality(Seqs) /\ Cardinality(T) # Cardinality(Seqs)
  BY <1>1, <1>2, <1>4, FS_Subset
<1>6. Cardinality(T) \in Nat
  BY <1>5, FS_CardinalityType
<1> QED
  BY <1>1, <1>5, <1>6, ChainAssumption

\* What a header proves is contained in the finalized block.
LEMMA ProvedIsFinal ==
    ASSUME FinalViews, NEW c \in Chains
    PROVE  NotAfter(hist[c][Depth], Finalized(c))
<1>1. CASE ProofLag = 0
  BY <1>1, NotAfterOrder, ServiceAssumption DEF Depth, Finalized
<1>2. CASE ProofLag = 1
  BY <1>2, Window, ServiceAssumption DEF Depth, Finalized, FinalViews
<1> QED
  BY <1>1, <1>2, ServiceAssumption

\* Acknowledgements are listed and sent only for what the finalized chain has received.
LEMMA NextAcksFinal ==
    TypeOK /\ ViewsStayValid /\ FinalViews /\ AcksAreFinal /\ [Next]_vars => AcksAreFinal'
<1> SUFFICES ASSUME TypeOK, ViewsStayValid, FinalViews, \A c \in Chains : AcksFinal(c), [Next]_vars,
                    NEW d \in Chains
             PROVE  AcksFinal(d)'
  BY DEF AcksAreFinal
<1>o. Other(d) \in Chains /\ Other(Other(d)) = d
  BY OtherFacts
<1>1. CASE ChainStep
  <2>1. PICK c \in Chains, s \in Store :
            /\ AddBlock(c, s) /\ MayFollow(c, s) /\ MempoolShrinks
            /\ UNCHANGED <<listVars, batch>>
    BY <1>1, ChainStepAddsBlock
  <2>2. \A e \in Chains : Finalized(e).recv \subseteq Finalized(e)'.recv
    <3>1. /\ NotAfter(Finalized(c), Finalized(c)')
          /\ Finalized(Other(c))' = Finalized(Other(c))
      BY <2>1, BlockShifts
    <3> QED
      BY <3>1 DEF NotAfter, Chains, Other
  <2>3. Latest(d)'.acked \subseteq Finalized(Other(d)).recv
    <3>1. CASE d # c
      BY <2>1, <3>1, BlockShifts DEF AcksFinal, Chains, Other
    <3>2. CASE d = c
      <4>1. Latest(d)' = s /\ Latest(d) \in Store
        BY <2>1, <3>2, BlockShifts, ReadTypes
      <4>2. CASE s \in QuietStores(d)
        BY <4>1, <4>2, QuietFields DEF AcksFinal
      <4>3. CASE \E b \in Batch : BlockTx(d, b) /\ s = TxResult(Latest(d), b)
        <5>1. PICK b \in Batch : BlockTx(d, b) /\ s = TxResult(Latest(d), b)
          BY <4>3
        <5>2. s.acked \subseteq Latest(d).acked \cup b.ack
          BY <4>1, <5>1 DEF TxResult, Store
        <5>3. b.ack \subseteq Finalized(Other(d)).recv
          <6>1. CASE b = mempool[d].tx
            BY <6>1 DEF AcksFinal
          <6>2. CASE RivalTx(d, b)
            <7>1. NotAfter(hist[Other(d)][Depth], Finalized(Other(d)))
              BY <1>o, ProvedIsFinal
            <7> QED
              BY <6>2, <7>1 DEF RivalTx, NotAfter
          <6> QED
            BY <5>1, <6>1, <6>2 DEF BlockTx
        <5> QED
          BY <4>1, <5>2, <5>3 DEF AcksFinal
      <4> QED
        BY <2>1, <3>2, <4>2, <4>3 DEF MayFollow
    <3> QED
      BY <3>1, <3>2
  <2>4. mempool'[d].tx.ack \subseteq mempool[d].tx.ack
    BY <2>1 DEF MempoolShrinks, EmptyBatch
  <2> QED
    BY <1>o, <2>1, <2>2, <2>3, <2>4 DEF AcksFinal, listVars
<1>2. CASE Effects
  <2>1. \A e \in Chains : Latest(e)' = Latest(e) /\ Finalized(e)' = Finalized(e)
    BY <1>2 DEF Effects, Latest, Finalized
  <2>2. acks'[Other(d)] \subseteq Finalized(Other(d)).recv
    <3>1. ackCtx[Other(d)].recv \subseteq Finalized(Other(d)).recv
      BY <1>o DEF FinalViews, NotAfter
    <3> QED
      BY <1>2, <1>o, <3>1, QueriesRead DEF Effects, ListEffects, AcksFinal
  <2>3. batch'[d].ack \subseteq Finalized(Other(d)).recv
    <3>1. \A r \in BOOLEAN : MsgsTo(d, r).ack \subseteq acks[Other(d)]
      BY MsgsFromLists
    <3> QED
      BY <1>2, <3>1 DEF Effects, MsgEffects, AcksFinal, EmptyBatch
  <2>4. mempool'[d].tx.ack \subseteq Finalized(Other(d)).recv
    BY <1>2 DEF Effects, MsgEffects, AcksFinal, EmptyBatch
  <2> QED
    BY <1>o, <2>1, <2>2, <2>3, <2>4 DEF AcksFinal
<1>3. CASE UNCHANGED vars
  BY <1>3 DEF vars, chainVars, listVars, AcksFinal, Latest, Finalized
<1> QED
  BY <1>1, <1>2, <1>3, ServeStepEffects, FaultStepEffects DEF Next

\* Outside of the phases that read headers and list packets the backlog is left alone.
LEMMA BacklogKept ==
    ASSUME BacklogInv, UNCHANGED <<sh, backlog>>, fetching' \subseteq fetching,
           fetched' \subseteq fetched, \A g \in fetching' : got'[g] = got[g],
           pc' \notin {"start", "updatesDst", "packets", "metrics"}
    PROVE  BacklogInv'
BY DEF BacklogInv, BacklogRead, ListComplete, Listed, HasHeader

\* A header fetched by an OnRetry callback holds the packets of the backlog.
LEMMA RetryKeepsBacklog ==
    ASSUME TypeOK, FinalViews, BacklogInv, NEW g \in Chains, RetryStep(g)
    PROVE  BacklogInv'
<1>1. pc = "acks" /\ pc' = pc /\ UNCHANGED <<sh, backlog>>
  BY RetryEffects DEF statVars
<1>2. \A c \in Chains : backlog[c] \subseteq FinalizedHeader(c).at.sent
  BY DEF BacklogInv, BacklogRead, FinalViews, NotAfter, FinalizedHeader, Finalized
<1>3. \A c, h \in Chains : HasHeader(h, c)' => backlog[c] \subseteq got'[h][c].at.sent
  BY <1>2, RetryHolds DEF BacklogInv, BacklogRead
<1> QED
  BY <1>1, <1>3 DEF BacklogInv, BacklogRead, ListComplete, Listed

\* Every step of StartService and Serve keeps the backlog in the blocks that were read.
LEMMA ServeStepBacklog ==
    ASSUME MaxSeq <= PageLimit, TypeOK, FinalViews, ListsInv, BacklogInv, ServeStep
    PROVE  BacklogInv'
<1> USE DEF chainVars, shVars, listVars, statVars
<1>f. pc # "acks" => fetching = {}
  BY DEF ListsInv, FetchingInTime
<1>g. \A c \in Chains : sh[c].at.sent \subseteq FinalizedHeader(c).at.sent
  BY DEF FinalViews, NotAfter, FinalizedHeader, Finalized
<1>1. CASE StartService
  <2>1. backlog' = NoPackets /\ fetching' = {} /\ pc' = "updates"
    BY <1>1, <1>f DEF StartService, Goto, BacklogInv
  <2> QED
    BY <2>1 DEF BacklogInv, BacklogRead, ListComplete, Listed, NoPackets
<1>2. CASE UpdatesSrc
  <2>1. got'["src"]["src"] = FinalizedHeader("src")
    BY <1>2 DEF UpdatesSrc, TypeOK, NoHeaders, Chains
  <2>2. backlog' = backlog /\ sh' = sh /\ fetching' = {} /\ pc' = "updatesDst"
    BY <1>2, <1>f DEF UpdatesSrc, Goto
  <2>3. backlog["src"] \subseteq FinalizedHeader("src").at.sent
    BY <1>g DEF BacklogInv, BacklogRead, Chains
  <2> QED
    BY <2>1, <2>2, <2>3 DEF HasHeader, BacklogInv, BacklogRead, ListComplete, Listed
<1>3. CASE UpdatesDst
  <2>1. sh'["src"] = got["src"]["src"] /\ sh'["dst"] = FinalizedHeader("dst")
    BY <1>3 DEF UpdatesDst, TypeOK, Chains
  <2>2. backlog' = backlog /\ fetching' = {} /\ pc = "updatesDst" /\ pc' = "packets" /\ todo' = Chains
    BY <1>3, <1>f DEF UpdatesDst, Goto
  <2>3. \A c \in Chains : backlog[c] \subseteq sh'[c].at.sent
    BY <1>g, <2>1, <2>2 DEF BacklogInv, BacklogRead, Chains
  <2> QED
    BY <2>2, <2>3 DEF HasHeader, BacklogInv, BacklogRead, ListComplete, Listed
<1>4. CASE UpdateBacklogMetrics
  <2>1. backlog' = packets /\ sh' = sh /\ fetching' = {} /\ pc' = "unreceived"
    BY <1>4, <1>f DEF UpdateBacklogMetrics, Goto
  <2> QED
    BY <2>1 DEF HasHeader, BacklogInv, BacklogRead, ListComplete, Listed, ListsInv, ListsCoveredByHeaders
<1>5. CASE Wait
  BY <1>5, BacklogKept DEF Wait, Goto
<1>6. ASSUME NEW agedPackets \in SUBSET Chains, NEW agedAcks \in SUBSET Chains,
             Decide(agedPackets, agedAcks)
      PROVE  BacklogInv'
  BY <1>6, BacklogKept DEF Decide, Goto
<1>7. ASSUME NEW c \in Chains, QueryPackets(c) PROVE BacklogInv'
  <2>1. /\ UNCHANGED <<hist, sh, backlog, got, fetching, fetched>> /\ pc = "packets" /\ c \in todo
        /\ pc' \in {"packets", "metrics"}
        /\ \A d \in Chains : Listed(d)' => d = c \/ Listed(d)
    BY <1>7 DEF QueryPackets, Done, Goto, Listed
  <2>2. /\ packets'[c] = QueryUnfinalizedRelayPackets(sh[c].at, Finalized(Other(c)))
        /\ \A d \in Chains \ {c} : packets'[d] = packets[d]
    BY <1>7 DEF QueryPackets, TypeOK
  <2>3. Commitments(sh[c].at) \subseteq packets'[c] \cup Finalized(Other(c)).recv
    <3>1. Commitments(sh[c].at) \in SUBSET Seqs
      BY DEF TypeOK, Header, Store, Commitments
    <3>2. Page(Commitments(sh[c].at)) = Commitments(sh[c].at)
      BY <3>1, WholePage
    <3> QED
      BY <2>2, <3>2 DEF QueryUnfinalizedRelayPackets, UnreceivedPackets
  <2>4. \A d \in Chains : ListComplete(d)'
    BY <2>1, <2>2, <2>3 DEF BacklogInv, ListComplete, Finalized
  <2> QED
    BY <2>1, <2>4 DEF HasHeader, BacklogInv, BacklogRead
<1>8. ASSUME NEW c \in Chains, FilterUnreceived(c) PROVE BacklogInv'
  BY <1>8, BacklogKept DEF FilterUnreceived, Done, Goto
<1>9. ASSUME NEW c \in Chains, ProcessTimeoutPackets(c) PROVE BacklogInv'
  BY <1>9, BacklogKept DEF ProcessTimeoutPackets, Done, Goto
<1>10. ASSUME NEW c \in Chains, QueryAcks(c) PROVE BacklogInv'
  BY <1>10, BacklogKept DEF QueryAcks, Done, Goto
<1>11. ASSUME NEW g \in Chains, RetryStore(g) PROVE BacklogInv'
  <2>1. /\ sh' = got[g] /\ backlog' = backlog /\ pc = "acks" /\ pc' = "acks"
        /\ \A c \in Chains : HasHeader(g, c)
        /\ \A h, c \in Chains : HasHeader(h, c)' => HasHeader(h, c) /\ got'[h] = got[h]
    BY <1>11 DEF RetryStore, TypeOK, HasHeader
  <2> QED
    BY <2>1 DEF BacklogInv, BacklogRead, ListComplete, Listed
<1>12. ASSUME NEW c \in Chains, FilterAcks(c) PROVE BacklogInv'
  BY <1>12, BacklogKept DEF FilterAcks, Done, Goto
<1>13. ASSUME NEW c \in Chains, Build(c) PROVE BacklogInv'
  BY <1>13, BacklogKept DEF Build, Done, Goto
<1>14. ASSUME NEW c \in Chains, BuildError(c) PROVE BacklogInv'
  BY <1>14, BacklogKept DEF BuildError, ServeFails, Goto
<1>15. ASSUME NEW c \in Chains, SendNothing(c) PROVE BacklogInv'
  BY <1>15, BacklogKept DEF SendNothing, AfterSend, Goto
<1>16. ASSUME NEW c \in Chains, Broadcast(c) PROVE BacklogInv'
  BY <1>16, BacklogKept DEF Broadcast, WaitPhase, Goto
<1>17. ASSUME NEW c \in Chains, SendRejected(c) PROVE BacklogInv'
  BY <1>17, BacklogKept DEF SendRejected, AfterSend, Goto
<1>18. ASSUME NEW c \in Chains, WaitForCommit(c) PROVE BacklogInv'
  BY <1>18, BacklogKept DEF WaitForCommit, AfterSend, Goto
<1>19. ASSUME NEW g \in Chains, RetryFetchDst(g) PROVE BacklogInv'
  BY <1>19, RetryKeepsBacklog DEF RetryStep
<1> QED
  BY <1>1, <1>2, <1>3, <1>4, <1>5, <1>6, <1>7, <1>8, <1>9, <1>10, <1>11, <1>12, <1>13,
     <1>14, <1>15, <1>16, <1>17, <1>18, <1>19 DEF ServeStep

\* Faults leave the backlog alone; a crash forgets it together with the headers.
LEMMA FaultStepBacklog ==
    ASSUME TypeOK, FinalViews, ListsInv, BacklogInv, FaultStep
    PROVE  BacklogInv'
<1> USE DEF chainVars, shVars, listVars, statVars
<1>1. CASE StartServiceError
  BY <1>1, BacklogKept DEF StartServiceError, Goto
<1>2. CASE ServeError
  BY <1>2, BacklogKept DEF ServeError, ServeFails, Goto
<1>3. CASE TimestampError
  BY <1>3, BacklogKept DEF TimestampError, Goto
<1>4. CASE Crash
  <2>1. backlog' = NoPackets /\ pc' = "start" /\ fetching' = {}
    BY <1>4 DEF Crash, Goto
  <2> QED
    BY <2>1 DEF BacklogInv, BacklogRead, ListComplete, Listed, NoPackets
<1>5. ASSUME NEW c \in Chains, DropTx(c) PROVE BacklogInv'
  BY <1>5 DEF HasHeader, DropTx, BacklogInv, BacklogRead, ListComplete, Listed, Finalized
<1>6. ASSUME NEW g \in Chains, RetryFetchSrc(g) \/ RetryFetchError(g) PROVE BacklogInv'
  BY <1>6, RetryKeepsBacklog DEF RetryStep
<1>7. ASSUME NEW c \in Chains, GiveUpWaiting(c) PROVE BacklogInv'
  BY <1>7, BacklogKept DEF GiveUpWaiting, AfterSend, Goto
<1> QED
  BY <1>1, <1>2, <1>3, <1>4, <1>5, <1>6, <1>7 DEF FaultStep

\* The finalized blocks and the refunds that justify a count stay.
LEMMA NextBacklog ==
    ASSUME MaxSeq <= PageLimit
    PROVE  /\ TypeOK /\ ViewsStayValid /\ FinalViews /\ ListsInv /\ BacklogInv
           /\ AcksAreFinal /\ CountedAreSettled /\ [Next]_vars
           => BacklogInv' /\ CountedAreSettled'
<1> SUFFICES ASSUME TypeOK, ViewsStayValid, FinalViews, ListsInv, BacklogInv,
                    AcksAreFinal, CountedAreSettled, [Next]_vars
             PROVE  BacklogInv' /\ CountedAreSettled'
  OBVIOUS
<1>1. CASE ChainStep
  <2>1. PICK c \in Chains, s \in Store :
            /\ AddBlock(c, s) /\ MayFollow(c, s)
            /\ UNCHANGED <<pc, todo, shVars, listVars, statVars>>
    BY <1>1, ChainStepAddsBlock
  <2>2. \A d \in Chains : /\ Finalized(d).recv \subseteq Finalized(d)'.recv
                          /\ Latest(d).refunded \subseteq Latest(d)'.refunded
    <3>1. /\ NotAfter(Finalized(c), Finalized(c)') /\ NotAfter(Latest(c), Latest(c)')
          /\ Finalized(Other(c))' = Finalized(Other(c)) /\ Latest(Other(c))' = Latest(Other(c))
      BY <2>1, BlockShifts
    <3> QED
      BY <3>1 DEF NotAfter, Chains, Other
  <2>3. BacklogInv'
    BY <2>1, <2>2, OtherFacts
    DEF HasHeader, BacklogInv, BacklogRead, ListComplete, Listed, shVars, listVars, statVars
  <2>4. CountedAreSettled'
    BY <2>1, <2>2, OtherFacts DEF CountedAreSettled, statVars
  <2> QED
    BY <2>3, <2>4
<1>2. ASSUME hist' = hist, counted' = counted PROVE CountedAreSettled'
  BY <1>2 DEF CountedAreSettled, Finalized, Latest
<1>3. CASE ServeStep
  <2>1. BacklogInv'
    BY <1>3, ServeStepBacklog
  <2>2. CASE UpdateBacklogMetrics
    <3>1. ASSUME NEW c \in Chains, NEW n \in backlog[c] \ packets[c]
          PROVE  n \in Finalized(Other(c)).recv \cup Latest(c).refunded
      <4>1. n \in sh[c].at.sent
        BY DEF BacklogInv, BacklogRead
      <4>2. Commitments(sh[c].at) \subseteq packets[c] \cup Finalized(Other(c)).recv
        BY <2>2 DEF UpdateBacklogMetrics, BacklogInv, ListComplete, Listed
      <4>3. NotAfter(sh[c].at, Latest(c))
        BY ReadsThePast
      <4>4. Latest(c).acked \subseteq Finalized(Other(c)).recv
        BY DEF AcksAreFinal, AcksFinal
      <4> QED
        BY <3>1, <4>1, <4>2, <4>3, <4>4 DEF Commitments, NotAfter
    <3>2. \A c \in Chains : counted'[c] = counted[c] \cup (backlog[c] \ packets[c])
      BY <2>2 DEF UpdateBacklogMetrics
    <3>3. hist' = hist
      BY <2>2 DEF UpdateBacklogMetrics, chainVars
    <3> QED
      BY <2>1, <3>1, <3>2, <3>3 DEF CountedAreSettled, Finalized, Latest
  <2>3. CASE ~UpdateBacklogMetrics
    <3>1. counted' = counted
      BY <1>3, <2>3
      DEF ServeStep, StartService, UpdatesSrc, UpdatesDst, Wait, Decide, QueryPackets,
          FilterUnreceived, ProcessTimeoutPackets, QueryAcks, RetryFetchDst, RetryStore, FilterAcks, Build,
          BuildError, SendNothing, Broadcast, SendRejected, WaitForCommit, statVars
    <3> QED
      BY <1>2, <1>3, <2>1, <3>1, ServeStepEffects DEF Effects
  <2> QED
    BY <2>2, <2>3
<1>4. CASE FaultStep
  <2>1. counted' = counted
    BY <1>4
    DEF FaultStep, StartServiceError, ServeError, TimestampError, Crash, DropTx,
        RetryFetchSrc, RetryFetchError, GiveUpWaiting, statVars
  <2> QED
    BY <1>2, <1>4, <2>1, FaultStepBacklog, FaultStepEffects DEF Effects
<1>5. CASE UNCHANGED vars
  <2>1. BacklogInv'
    BY <1>5
    DEF HasHeader, vars, chainVars, shVars, listVars, statVars, BacklogInv, BacklogRead, ListComplete,
        Listed, Finalized
  <2> QED
    BY <1>2, <1>5, <2>1 DEF vars, chainVars, statVars
<1> QED
  BY <1>1, <1>3, <1>4, <1>5 DEF Next

\* At the start nothing is in the backlog, in flight or counted.
LEMMA InitBacklog ==
    Init => BacklogInv /\ AcksAreFinal /\ CountedAreSettled
<1> SUFFICES ASSUME Init PROVE BacklogInv /\ AcksAreFinal /\ CountedAreSettled
  OBVIOUS
<1>1. \A c \in Chains : Latest(c).acked = {}
  BY Window DEF Init, Latest, EmptyStore
<1>2. \A c \in Chains : AcksFinal(c)
  BY <1>1, OtherFacts DEF Init, AcksFinal, NoPackets, NoBatches, EmptyBatch, NoTx
<1> QED
  BY <1>2 DEF Init, AcksAreFinal, BacklogInv, BacklogRead, ListComplete, Listed, CountedAreSettled, NoPackets

\* Where a page holds all packets of a channel, the packets that the metric counts as
\* received are received on the finalized counterparty, or refunded: headers, lists and
\* counterparty are read at different times, across retries, failed rounds and crashes.
THEOREM CountedCorrect ==
    ASSUME MaxSeq <= PageLimit
    PROVE  Spec => []CountedAreSettled
<1>1. /\ TypeOK /\ ViewsStayValid /\ FinalViews /\ ListsInv /\ BacklogInv
      /\ AcksAreFinal /\ CountedAreSettled /\ [Next]_vars
      => BacklogInv' /\ CountedAreSettled'
  BY NextBacklog
<1> QED
  BY <1>1, TypeCorrect, ViewsCorrect, FinalViewsCorrect, ListsInvCorrect, InitBacklog,
     NextAcksFinal, PTL DEF Spec

-----------------------------------------------------------------------------
(***************************************************************************)
(* A relayer that is alone and meets no fault: AcksProvable and            *)
(* NoRedundantMsgs.  Packets are then received, acknowledged and refunded  *)
(* only by the transaction that waitForCommit waits for.  When it returns, *)
(* the two last blocks agree, so that what the next Serve reads of a block *)
(* at most one behind the latest is what the latest block says.            *)
(***************************************************************************)
Alone == ~Rivals /\ faults = 0

\* Two stores agree on what the relayer's transactions can change.
Agree(s, t) == s.recv = t.recv /\ s.acked = t.acked /\ s.refunded = t.refunded

Calm(c) ==
    /\ pc # WaitPhase(c) => mempool[c].status = "none"
    /\ mempool[c].status = "none" =>
          \A i \in 0..Depth : i <= 1 => Agree(hist[c][i], Latest(c))

WaitsForItsOwn == Alone => \A c \in Chains : Calm(c)

HeadersAgree ==
    Alone /\ Delay = 0 =>
        \A c \in Chains : /\ Agree(sh[c].at, sh[c].proves)
                          /\ \A g \in Chains : Agree(got[g][c].at, got[g][c].proves)

\* Alone, a chain changes what the relayer waits for only by including its transaction.
LEMMA AloneBlock ==
    ASSUME TypeOK, ChainStep, ~Rivals
    PROVE  \E c \in Chains : \E s \in Store :
              /\ AddBlock(c, s) /\ mempool'[Other(c)] = mempool[Other(c)]
              /\ UNCHANGED <<pc, todo, shVars, listVars, batch, faults>>
              /\ \/ /\ Agree(s, Latest(c)) /\ Latest(c).sent \subseteq s.sent
                    /\ mempool'[c].status \in {"none", mempool[c].status}
                 \/ mempool[c].status = "pending" /\ mempool'[c].status = "committed"
<1>1. PICK c \in Chains : NewBlock(c) \/ SendPacket(c) \/ Expire(c) \/ ExecTx(c)
  BY DEF ChainStep, RivalRelay
<1>2. Latest(c) \in Store /\ Other(c) # c /\ Other(c) \in Chains /\ Latest(Other(c)) \in Store
  BY ReadTypes, OtherFacts
<1>3. ASSUME NEW s \in Store, OtherBlock(c, s)
      PROVE  /\ AddBlock(c, s) /\ mempool'[Other(c)] = mempool[Other(c)]
             /\ UNCHANGED <<pc, todo, shVars, listVars, batch, faults>>
             /\ mempool'[c].status \in {"none", mempool[c].status}
  BY <1>2, <1>3 DEF OtherBlock, TypeOK, NoTx
<1>4. CASE NewBlock(c)
  BY <1>2, <1>3, <1>4 DEF NewBlock, Agree
<1>5. CASE SendPacket(c)
  <2>1. PICK n \in 1..Traffic[c] : OtherBlock(c, [Latest(c) EXCEPT !.sent = @ \cup {n}])
    BY <1>5 DEF SendPacket
  <2> DEFINE s == [Latest(c) EXCEPT !.sent = @ \cup {n}]
  <2>2. n \in Seqs
    BY <2>1, ServiceAssumption, ChainAssumption DEF Seqs
  <2>3. s \in Store /\ Agree(s, Latest(c)) /\ Latest(c).sent \subseteq s.sent
    BY <1>2, <2>2 DEF Store, Agree
  <2> QED
    BY <1>3, <2>1, <2>3
<1>6. CASE Expire(c)
  <2>1. PICK n \in Latest(Other(c)).sent : OtherBlock(c, [Latest(c) EXCEPT !.expired = @ \cup {n}])
    BY <1>6 DEF Expire
  <2> DEFINE s == [Latest(c) EXCEPT !.expired = @ \cup {n}]
  <2>2. s \in Store /\ Agree(s, Latest(c)) /\ Latest(c).sent \subseteq s.sent
    BY <1>2, <2>1 DEF Store, Agree
  <2> QED
    BY <1>3, <2>1, <2>2
<1>7. CASE ExecTx(c)
  <2> DEFINE b == mempool[c].tx
             s == IF TxAccepted(Latest(c), b) THEN TxResult(Latest(c), b) ELSE Latest(c)
  <2>1. s \in Store
    BY <1>2, TxResultType DEF TypeOK
  <2>2. /\ AddBlock(c, s) /\ mempool'[Other(c)] = mempool[Other(c)]
        /\ UNCHANGED <<pc, todo, shVars, listVars, batch, faults>>
        /\ mempool[c].status = "pending" /\ mempool'[c].status = "committed"
    BY <1>2, <1>7 DEF ExecTx, TypeOK
  <2> QED
    BY <2>1, <2>2
<1> QED
  BY <1>1, <1>4, <1>5, <1>6, <1>7

\* What the service does to the mempools: it broadcasts, or waits for the transaction to
\* be followed by a block, or leaves them alone in a phase in which nothing is awaited.
LEMMA ServeStepMempool ==
    ASSUME TypeOK, ServeStep
    PROVE  \/ \E c \in Chains : Broadcast(c) \/ WaitForCommit(c)
           \/ mempool' = mempool /\ \A c \in Chains : pc # WaitPhase(c)
BY DEF ServeStep, StartService, UpdatesSrc, UpdatesDst, UpdateBacklogMetrics, Wait, Decide,
       QueryPackets, FilterUnreceived, ProcessTimeoutPackets, QueryAcks, RetryFetchDst, RetryStore, FilterAcks,
       Build, BuildError, SendNothing, SendRejected, SendPhase, WaitPhase, chainVars

\* No step of the service undoes a fault.
LEMMA FaultsStay ==
    ASSUME TypeOK, [Next]_vars, faults' = 0
    PROVE  faults = 0 /\ ~FaultStep
<1>1. ~FaultStep
  BY FaultsCount
<1>2. faults' = faults \/ Fault
  <2>1. CASE ServeStep
    BY <2>1
    DEF ServeStep, StartService, UpdatesSrc, UpdatesDst, UpdateBacklogMetrics, Wait, Decide,
        QueryPackets, FilterUnreceived, ProcessTimeoutPackets, QueryAcks, RetryFetchDst, RetryStore, FilterAcks,
        Build, BuildError, SendNothing, SendRejected, Broadcast, WaitForCommit
  <2>2. CASE ChainStep
    BY <2>2, ChainStepAddsBlock
  <2> QED
    BY <1>1, <2>1, <2>2 DEF Next, vars
<1> QED
  BY <1>1, <1>2 DEF Fault, TypeOK

\* In every phase but the two waits no transaction of the relayer is on its way, and when
\* none is, the two last blocks agree.
LEMMA NextWaits == TypeOK /\ WaitsForItsOwn /\ [Next]_vars => WaitsForItsOwn'
<1> SUFFICES ASSUME TypeOK, \A c \in Chains : Calm(c), [Next]_vars, ~Rivals, faults' = 0,
                    ~FaultStep, NEW d \in Chains
             PROVE  Calm(d)'
  BY FaultsStay DEF WaitsForItsOwn, Alone
<1>1. CASE ChainStep
  <2>1. PICK c \in Chains, s \in Store :
              /\ AddBlock(c, s) /\ mempool'[Other(c)] = mempool[Other(c)] /\ pc' = pc
              /\ \/ /\ Agree(s, Latest(c))
                    /\ mempool'[c].status \in {"none", mempool[c].status}
                 \/ mempool[c].status = "pending" /\ mempool'[c].status = "committed"
    BY <1>1, AloneBlock
  <2>2. CASE d # c
    <3>1. d = Other(c) /\ hist'[d] = hist[d]
      BY <2>1, <2>2 DEF AddBlock, TypeOK, Chains, Other
    <3> QED
      BY <2>1, <3>1 DEF Calm, Latest
  <2>3. CASE d = c
    <3>1. hist'[d] = [i \in 0..Depth |-> IF i = 0 THEN s ELSE hist[d][i - 1]]
      BY <2>1, <2>3 DEF AddBlock, TypeOK
    <3>2. Latest(d)' = s
      BY <3>1, Window DEF Latest
    <3>3. CASE Agree(s, Latest(c)) /\ mempool'[c].status \in {"none", mempool[c].status}
      <4>1. ASSUME NEW i \in 0..Depth, i <= 1 PROVE Agree(hist'[d][i], s)
        <5>1. CASE i = 0
          BY <3>1, <5>1 DEF Agree
        <5>2. CASE i = 1
          BY <2>3, <3>1, <3>3, <5>2 DEF Agree, Latest
        <5> QED
          BY <4>1, <5>1, <5>2, Window
      <4> QED
        BY <2>1, <2>3, <3>2, <3>3, <4>1 DEF Calm
    <3>4. CASE mempool[c].status = "pending" /\ mempool'[c].status = "committed"
      BY <2>1, <2>3, <3>4 DEF Calm
    <3> QED
      BY <2>1, <3>3, <3>4
  <2> QED
    BY <2>2, <2>3
<1>2. CASE ServeStep
  <2>1. hist' = hist
    BY <1>2, ServeStepEffects DEF Effects
  <2>2. ASSUME NEW c \in Chains, Broadcast(c) PROVE Calm(d)'
    <3>1. pc' = WaitPhase(c) /\ pc # WaitPhase(d) /\ (d # c => WaitPhase(d) # WaitPhase(c))
      BY <2>2 DEF Broadcast, Goto, SendPhase, WaitPhase, Chains
    <3>2. /\ d = c => mempool'[d].status = "pending"
          /\ d # c => mempool'[d] = mempool[d]
      BY <2>2 DEF Broadcast, TypeOK
    <3> QED
      BY <2>1, <3>1, <3>2 DEF Calm, Latest
  <2>3. ASSUME NEW c \in Chains, WaitForCommit(c) PROVE Calm(d)'
    <3>1. /\ pc = WaitPhase(c) /\ mempool[c].status = "none" /\ mempool' = mempool
          /\ (d # c => WaitPhase(d) # WaitPhase(c))
      BY <2>3 DEF WaitForCommit, WaitPhase, chainVars, Chains
    <3> QED
      BY <2>1, <3>1 DEF Calm, Latest
  <2>4. ASSUME mempool' = mempool, \A c \in Chains : pc # WaitPhase(c) PROVE Calm(d)'
    BY <2>1, <2>4 DEF Calm, Latest
  <2> QED
    BY <1>2, <2>2, <2>3, <2>4, ServeStepMempool
<1>3. CASE UNCHANGED vars
  BY <1>3 DEF vars, chainVars, Calm, Latest
<1> QED
  BY <1>1, <1>2, <1>3 DEF Next

\* A header is fetched only while nothing of the relayer is on its way.
LEMMA NextHeadersAgree == TypeOK /\ WaitsForItsOwn /\ HeadersAgree /\ [Next]_vars => HeadersAgree'
<1> DEFINE H == \A c \in Chains : /\ Agree(sh[c].at, sh[c].proves)
                                  /\ \A g \in Chains : Agree(got[g][c].at, got[g][c].proves)
<1> SUFFICES ASSUME TypeOK, \A c \in Chains : Calm(c), H, [Next]_vars, Delay = 0, ~FaultStep
             PROVE  H'
  BY FaultsStay DEF WaitsForItsOwn, HeadersAgree, Alone
<1>1. ASSUME UNCHANGED <<sh, got>> PROVE H'
  BY <1>1
<1>2. CASE ChainStep
  BY <1>1, <1>2, ChainStepAddsBlock DEF shVars
<1>3. CASE ServeStep
  <2>1. CASE \E c \in Chains : Broadcast(c) \/ WaitForCommit(c)
    BY <1>1, <2>1 DEF Broadcast, WaitForCommit, shVars
  <2>2. CASE \A c \in Chains : pc # WaitPhase(c)
    <3>1. ASSUME NEW c \in Chains
          PROVE  Agree(FinalizedHeader(c).at, FinalizedHeader(c).proves)
      <4>1. \A i \in 0..Depth : i <= 1 => Agree(hist[c][i], Latest(c))
        BY <2>2 DEF Calm
      <4>2. Depth \in 0..Depth /\ Depth <= 1 /\ 0 \in 0..Depth
        BY ServiceAssumption, Window DEF Depth
      <4>3. Agree(hist[c][Depth], Latest(c)) /\ Latest(c) = hist[c][Delay]
        BY <4>1, <4>2 DEF Latest
      <4> QED
        BY <4>3 DEF FinalizedHeader, Agree
    <3>2. Agree(EmptyHeader.at, EmptyHeader.proves)
      BY DEF Agree, EmptyHeader
    <3>3. HeaderEffects
      BY <1>3, ServeStepEffects DEF Effects
    <3> QED
      BY <3>1, <3>2, <3>3 DEF HeaderEffects
  <2> QED
    BY <1>3, <2>1, <2>2, ServeStepMempool
<1>4. CASE UNCHANGED vars
  BY <1>1, <1>4 DEF vars, shVars
<1> QED
  BY <1>2, <1>3, <1>4 DEF Next

\* At the start nothing is on its way and all blocks are alike.
LEMMA InitWaits == Init => WaitsForItsOwn /\ HeadersAgree
<1> SUFFICES ASSUME Init PROVE (\A c \in Chains : Calm(c)) /\ HeadersAgree
  BY DEF WaitsForItsOwn
<1>1. \A c \in Chains : \A i \in 0..Depth : hist[c][i] = EmptyStore
  BY DEF Init
<1>2. \A c \in Chains : Calm(c)
  BY <1>1, Window DEF Init, Calm, Agree, Latest, NoTx
<1> QED
  BY <1>2 DEF Init, HeadersAgree, Agree, NoHeaders, EmptyHeader

\* waitForCommit returns only when a block follows the one that holds the transaction, and
\* that is enough: where the finalized block is the latest (tendermint) or a header proves
\* its own block (mock), a lone relayer can prove every acknowledgement it lists at once.
THEOREM AcksProvableCorrect ==
    ASSUME Delay = 0 \/ ProofLag = 0
    PROVE  Spec => []AcksProvable
<1>1. ListsInv /\ SameBlock /\ HeadersAgree => AcksProvable
  BY DEF ListsInv, ListsCoveredByHeaders, SameBlock, HeadersAgree, Alone, Agree, AcksProvable
<1> QED
  BY <1>1, TypeCorrect, ListsInvCorrect, InitProvable, NextSameBlock, InitWaits, NextWaits,
     NextHeadersAgree, PTL DEF Spec

\* All that the lists hold can be proved, except for packets sent in the header's own block.
LEMMA MsgsProvable ==
    ASSUME TypeOK, ListsInv, ListsProvable, faults = 0, NEW c \in Chains,
           Agree(sh[Other(c)].at, sh[Other(c)].proves)
    PROVE  LET b == MsgsTo(c, FALSE) IN Provable([b EXCEPT !.recv = @ \ SentWithHeader(b)])
<1> DEFINE b == MsgsTo(c, FALSE)
           p == [b EXCEPT !.recv = @ \ SentWithHeader(b)]
<1> SUFFICES Provable(p)
  OBVIOUS
<1>o. Other(c) \in Chains /\ Other(Other(c)) = c
  BY OtherFacts
<1>p. /\ p.hdr = b.hdr /\ p.ack = b.ack /\ p.timeout = b.timeout
      /\ p.recv = b.recv \ (b.hdr.at.sent \ b.hdr.proves.sent)
  BY DEF MsgsTo, RelayBatch, SentWithHeader
<1>2. /\ packets[Other(c)] \subseteq Commitments(sh[Other(c)].at)
      /\ acks[Other(c)] \subseteq sh[Other(c)].proves.recv
      /\ \A n \in timeouts[c] : ProvesNotReceived(sh[Other(c)].proves, n)
  BY <1>o DEF ListsProvable, ListsInv, ListsCoveredByHeaders, Agree, ProvesNotReceived,
              IsNextSequenceReceive
<1>3. doRelay[c] \in BOOLEAN /\ doAck[c] \in BOOLEAN
  BY DEF TypeOK
<1>4. CASE NeedsUpdate(c, doRelay[c], doAck[c], timeouts[c] # {})
  <2>1. b.hdr = sh[Other(c)]
    BY <1>4 DEF MsgsTo, RelayBatch
  <2>2. /\ b.recv \subseteq packets[Other(c)] /\ b.ack \subseteq acks[Other(c)]
        /\ b.timeout = timeouts[c]
    BY DEF MsgsTo, RelayBatch
  <2> HIDE DEF b, p
  <2>3. p.recv \subseteq Commitments(sh[Other(c)].proves)
    BY <1>p, <1>2, <2>1, <2>2 DEF Agree, Commitments
  <2> QED
    BY <1>p, <1>2, <2>1, <2>2, <2>3 DEF Provable
<1>5. CASE ~NeedsUpdate(c, doRelay[c], doAck[c], timeouts[c] # {})
  <2>1. ~doRelay[c] /\ ~(doAck[c] /\ RelaysAcksTo(c)) /\ timeouts[c] = {}
    BY <1>3, <1>5 DEF NeedsUpdate
  <2>2. b.recv = {} /\ b.ack = {} /\ b.timeout = {}
    BY <2>1 DEF MsgsTo, RelayBatch
  <2> HIDE DEF b, p
  <2> QED
    BY <1>p, <2>2 DEF Provable
<1> QED
  BY <1>4, <1>5

\* With the provers of the repository (the finalized block is the latest one, or a header
\* proves its own block) Build fails for a lone relayer without faults only because of a
\* packet sent in the header's own block; acknowledgements, timeouts and earlier packets
\* can always be proved, on ordered channels too.
THEOREM BuildsCorrect ==
    ASSUME Delay = 0 \/ ProofLag = 0
    PROVE  Spec => []OnlyNewPacketsUnprovable
<1>1. SameBlock /\ HeadersAgree /\ Alone => \A c \in Chains : Agree(sh[c].at, sh[c].proves)
  BY DEF SameBlock, HeadersAgree, Agree
<1>2. TypeOK /\ ListsInv /\ SameBlock /\ ListsProvable /\ HeadersAgree => OnlyNewPacketsUnprovable
  BY <1>1, MsgsProvable, OtherFacts DEF OnlyNewPacketsUnprovable, TypeOK, Alone
<1> QED
  BY <1>2, TypeCorrect, ViewsCorrect, ListsInvCorrect, InitProvable, NextSameBlock,
     NextListsProvable, InitWaits, NextWaits, NextHeadersAgree, PTL DEF Spec

-----------------------------------------------------------------------------
(***************************************************************************)
(* NoRedundantMsgs.  What the filters at the latest height have let pass   *)
(* stays unreceived and unacknowledged until the relayer's own transaction *)
(* changes that, by when the batch has been handed over; how far finality  *)
(* lags behind the latest block plays no part.                             *)
(***************************************************************************)
FreshPackets(c) ==
    \/ pc \in {"timeouts", "acks", "unreceivedAcks", "decide", "build"}
    \/ pc = "unreceived" /\ c \notin todo

FreshAcks(c) == pc \in {"decide", "build"} \/ (pc = "unreceivedAcks" /\ c \notin todo)

CurrentLists(c) ==
    /\ FreshPackets(c) => packets[c] \cap Recv(c) = {}
    /\ FreshAcks(c) => acks[c] \subseteq Commitments(Latest(Other(c)))
    /\ timeouts[c] \subseteq Commitments(sh[c].at)

\* The phases between the building of the messages for chain c and their sending.
Handing(c) ==
    IF c = "src" THEN {"build", "sendSrc"} ELSE {"build", "sendSrc", "waitSrc", "sendDst"}

NoMsgs(b) == b.recv = {} /\ b.ack = {} /\ b.timeout = {}

CurrentBatch(c) ==
    /\ batch[c].recv \cap Latest(c).recv = {}
    /\ batch[c].ack \subseteq Commitments(Latest(c))
    /\ batch[c].timeout \subseteq Commitments(sh[c].at)
    /\ pc \notin Handing(c) => NoMsgs(batch[c])

NothingStale == \A c \in Chains : CurrentLists(c) /\ CurrentBatch(c)

NoRedundantInv == Alone => NothingStale

\* A batch without messages repeats nothing.
LEMMA EmptyIsFresh ==
    /\ NoMsgs(EmptyBatch)
    /\ \A c \in Chains : NoMsgs(batch'[c]) => CurrentBatch(c)'
BY DEF EmptyBatch, NoMsgs, CurrentBatch

\* A block that does not hold the relayer's transaction makes nothing stale.
LEMMA QuietBlockFresh ==
    ASSUME TypeOK, NothingStale, NEW c \in Chains, NEW s \in Store, AddBlock(c, s),
           Agree(s, Latest(c)), Latest(c).sent \subseteq s.sent,
           UNCHANGED <<pc, todo, shVars, listVars, batch>>
    PROVE  NothingStale'
<1>1. Latest(c)' = s /\ \A d \in Chains \ {c} : Latest(d)' = Latest(d)
  BY Window DEF AddBlock, TypeOK, Latest
<1>2. \A d \in Chains : /\ Latest(d)'.recv = Latest(d).recv /\ Recv(d)' = Recv(d)
                        /\ Commitments(Latest(d)) \subseteq Commitments(Latest(d)')
  BY <1>1, OtherFacts DEF Agree, Recv, Commitments
<1>3. \A d \in Chains : CurrentLists(d)'
  BY <1>2, OtherFacts DEF NothingStale, CurrentLists, FreshPackets, FreshAcks, listVars, shVars
<1>4. \A d \in Chains : CurrentBatch(d)'
  BY <1>2 DEF NothingStale, CurrentBatch, shVars
<1> QED
  BY <1>3, <1>4 DEF NothingStale

\* Without lists there is nothing to be stale.
LEMMA NoLists ==
    ASSUME timeouts' = NoPackets, pc' \notin ListPhases
    PROVE  \A c \in Chains : CurrentLists(c)'
<1> SUFFICES ASSUME NEW c \in Chains PROVE CurrentLists(c)'
  OBVIOUS
<1>1. ~FreshPackets(c)' /\ ~FreshAcks(c)' /\ timeouts'[c] = {}
  BY DEF FreshPackets, FreshAcks, ListPhases, NoPackets
<1> QED
  BY <1>1 DEF CurrentLists

\* The relayer's transaction is included while it is awaited: the lists are forgotten and
\* the batch has been handed over.
LEMMA OwnBlockFresh ==
    ASSUME TypeOK, ListsInv, NothingStale, NEW c \in Chains, NEW s \in Store, AddBlock(c, s),
           pc = WaitPhase(c), UNCHANGED <<pc, todo, shVars, listVars, batch>>
    PROVE  NothingStale'
<1>1. \A d \in Chains \ {c} : Latest(d)' = Latest(d)
  BY DEF AddBlock, TypeOK, Latest
<1>2. pc' \notin ListPhases /\ pc \notin Handing(c)
  BY DEF WaitPhase, ListPhases, Handing, Chains
<1>3. timeouts' = NoPackets
  BY <1>2 DEF ListsInv, NoListsYet, listVars
<1>4. \A d \in Chains : CurrentLists(d)'
  BY <1>2, <1>3, NoLists
<1>5. ASSUME NEW d \in Chains PROVE CurrentBatch(d)'
  <2>1. CASE d = c
    BY <1>2, <2>1, EmptyIsFresh DEF NothingStale, CurrentBatch
  <2>2. CASE d # c
    BY <1>1, <2>2 DEF NothingStale, CurrentBatch, shVars
  <2> QED
    BY <2>1, <2>2
<1> QED
  BY <1>4, <1>5 DEF NothingStale

\* Outside of the phases in which messages are handed over there are none.
LEMMA IdleBatches ==
    ASSUME NothingStale, batch' = batch, pc \notin {"build", "sendSrc", "waitSrc", "sendDst"}
    PROVE  \A c \in Chains : CurrentBatch(c)'
BY EmptyIsFresh DEF NothingStale, CurrentBatch, Handing

\* Batches that are kept or emptied stay fresh.
LEMMA KeptBatches ==
    ASSUME NothingStale, UNCHANGED <<hist, sh>>,
           \A c \in Chains : batch'[c] \in {batch[c], EmptyBatch},
           \A c \in Chains : pc' \notin Handing(c) => NoMsgs(batch'[c])
    PROVE  \A c \in Chains : CurrentBatch(c)'
<1> SUFFICES ASSUME NEW c \in Chains, batch'[c] = batch[c] PROVE CurrentBatch(c)'
  BY EmptyIsFresh
<1>1. Latest(c)' = Latest(c)
  BY DEF Latest
<1> QED
  BY <1>1 DEF NothingStale, CurrentBatch

\* So do lists that are kept or shrink in a phase that asks no more of them.
LEMMA KeptLists ==
    ASSUME NothingStale, UNCHANGED <<hist, sh>>,
           \A c \in Chains : /\ packets'[c] \subseteq packets[c] /\ acks'[c] \subseteq acks[c]
                             /\ timeouts'[c] \subseteq timeouts[c]
                             /\ FreshPackets(c)' => FreshPackets(c)
                             /\ FreshAcks(c)' => FreshAcks(c)
    PROVE  \A c \in Chains : CurrentLists(c)'
<1> SUFFICES ASSUME NEW c \in Chains PROVE CurrentLists(c)'
  OBVIOUS
<1>1. \A d \in Chains : Latest(d)' = Latest(d) /\ Recv(d)' = Recv(d)
  BY DEF Latest, Recv
<1>2. CurrentLists(c)
  BY DEF NothingStale
<1> QED
  BY <1>1, <1>2, OtherFacts DEF CurrentLists

\* Every step of StartService and Serve reads what is current and keeps it so.
LEMMA ServeStepFresh ==
    ASSUME TypeOK, ListsInv, ListsProvable, faults = 0, NothingStale, ServeStep
    PROVE  NothingStale'
<1> USE DEF chainVars, shVars, listVars
<1>n. ASSUME pc \notin ListPhases, pc' \notin ListPhases, timeouts' = timeouts
      PROVE  \A c \in Chains : CurrentLists(c)'
  BY <1>n, NoLists DEF ListsInv, NoListsYet
<1>s. ASSUME NEW c \in Chains, pc \in {SendPhase(c), WaitPhase(c)}, AfterSend(c),
             UNCHANGED <<hist, sh, timeouts>>, NoMsgs(batch'[c]),
             \A d \in Chains \ {c} : batch'[d] = batch[d], batch'[c] \in {batch[c], EmptyBatch}
      PROVE  NothingStale'
  <2>1. pc \notin ListPhases /\ pc' \notin ListPhases
    BY <1>s DEF SendPhase, WaitPhase, AfterSend, Goto, ListPhases
  <2>2. ASSUME NEW d \in Chains, pc' \notin Handing(d) PROVE NoMsgs(batch'[d])
    <3>1. CASE d = c
      BY <1>s, <3>1
    <3>2. CASE d # c
      <4>1. d = "src" /\ c = "dst"
        BY <1>s, <2>2, <3>2 DEF AfterSend, Goto, Handing, Chains
      <4>2. pc \notin Handing(d)
        BY <1>s, <4>1 DEF SendPhase, WaitPhase, Handing
      <4> QED
        BY <1>s, <3>2, <4>2 DEF NothingStale, CurrentBatch
    <3> QED
      BY <3>1, <3>2
  <2> QED
    BY <1>s, <1>n, <2>1, <2>2, KeptBatches DEF NothingStale
<1>1. CASE StartService
  BY <1>1, <1>n, IdleBatches DEF StartService, Goto, ListPhases, NothingStale
<1>2. CASE UpdatesSrc
  BY <1>2, <1>n, IdleBatches DEF UpdatesSrc, Goto, ListPhases, NothingStale
<1>3. CASE UpdatesDst
  <2>1. pc = "updatesDst" /\ pc' = "packets" /\ batch' = batch /\ timeouts' = NoPackets
    BY <1>3 DEF UpdatesDst, Goto, ListsInv, NoListsYet, ListPhases
  <2>2. \A c \in Chains : CurrentLists(c)'
    BY <2>1 DEF CurrentLists, FreshPackets, FreshAcks, NoPackets
  <2> QED
    BY <2>1, <2>2, IdleBatches DEF NothingStale
<1>4. CASE UpdateBacklogMetrics
  <2>1. /\ pc = "metrics" /\ pc' = "unreceived" /\ todo' = Chains
        /\ UNCHANGED <<hist, sh, batch, packets, acks, timeouts>>
    BY <1>4 DEF UpdateBacklogMetrics, Goto
  <2> QED
    BY <2>1, KeptLists, IdleBatches DEF FreshPackets, FreshAcks, NothingStale
<1>5. CASE Wait
  BY <1>5, <1>n, IdleBatches DEF Wait, Goto, ListPhases, NothingStale
<1>6. ASSUME NEW agedPackets \in SUBSET Chains, NEW agedAcks \in SUBSET Chains,
             Decide(agedPackets, agedAcks)
      PROVE  NothingStale'
  <2>1. /\ pc = "decide" /\ pc' = "build"
        /\ UNCHANGED <<hist, sh, batch, packets, acks, timeouts>>
    BY <1>6 DEF Decide, Goto
  <2> QED
    BY <2>1, KeptLists, IdleBatches DEF FreshPackets, FreshAcks, NothingStale
<1>7. ASSUME NEW c \in Chains, QueryPackets(c) PROVE NothingStale'
  <2>1. /\ pc = "packets" /\ pc' \in {"packets", "metrics"}
        /\ UNCHANGED <<hist, sh, batch, timeouts>>
    BY <1>7 DEF QueryPackets, Done, Goto
  <2>2. \A d \in Chains : CurrentLists(d)'
    BY <2>1 DEF NothingStale, CurrentLists, FreshPackets, FreshAcks
  <2> QED
    BY <2>1, <2>2, IdleBatches DEF NothingStale
<1>8. ASSUME NEW c \in Chains, FilterUnreceived(c) PROVE NothingStale'
  <2>1. /\ pc = "unreceived" /\ pc' \in {"unreceived", "timeouts"}
        /\ UNCHANGED <<hist, sh, batch, timeouts>>
        /\ \A d \in Chains : FreshPackets(d)' => d = c \/ FreshPackets(d)
    BY <1>8 DEF FilterUnreceived, Done, Goto, FreshPackets
  <2>2. /\ packets'[c] \cap Recv(c) = {}
        /\ \A d \in Chains \ {c} : packets'[d] = packets[d]
    BY <1>8 DEF FilterUnreceived, UnreceivedPackets, TypeOK, Recv
  <2>3. \A d \in Chains : Recv(d)' = Recv(d) /\ Latest(d)' = Latest(d)
    BY <2>1 DEF Recv, Latest
  <2>4. \A d \in Chains : CurrentLists(d)'
    BY <2>1, <2>2, <2>3 DEF NothingStale, CurrentLists, FreshAcks
  <2> QED
    BY <2>1, <2>4, IdleBatches DEF NothingStale
<1>9. ASSUME NEW c \in Chains, ProcessTimeoutPackets(c) PROVE NothingStale'
  <2>1. /\ pc = "timeouts" /\ pc' \in {"timeouts", "acks"} /\ UNCHANGED <<hist, sh, batch>>
    BY <1>9 DEF ProcessTimeoutPackets, Done, Goto
  <2>2. \A d \in Chains : packets'[d] \subseteq packets[d]
    BY <1>9 DEF ProcessTimeoutPackets, KeptPackets, TypeOK
  <2>3. \A d \in Chains : timeouts'[d] \subseteq Commitments(sh[d].at)
    <3>1. PICK answered \in BOOLEAN :
              timeouts' = [timeouts EXCEPT ![c] =
                             TimeoutPackets(packets[c], sh[Other(c)].at, answered)]
      BY <1>9 DEF ProcessTimeoutPackets
    <3>2. TimeoutPackets(packets[c], sh[Other(c)].at, answered) \subseteq packets[c]
      BY DEF TimeoutPackets
    <3>3. packets[c] \subseteq Commitments(sh[c].at)
      BY DEF ListsProvable
    <3> QED
      BY <3>1, <3>2, <3>3 DEF NothingStale, CurrentLists, TypeOK
  <2>4. \A d \in Chains : Recv(d)' = Recv(d) /\ Latest(d)' = Latest(d)
    BY <2>1 DEF Recv, Latest
  <2>5. \A d \in Chains : CurrentLists(d)'
    BY <2>1, <2>2, <2>3, <2>4 DEF NothingStale, CurrentLists, FreshPackets, FreshAcks
  <2> QED
    BY <2>1, <2>5, IdleBatches DEF NothingStale
<1>10. ASSUME NEW c \in Chains, QueryAcks(c) PROVE NothingStale'
  <2>1. /\ pc = "acks" /\ pc' \in {"acks", "unreceivedAcks"} /\ (pc' # "acks" => todo' = Chains)
        /\ UNCHANGED <<hist, sh, batch, packets, timeouts>>
    BY <1>10 DEF QueryAcks, Done, Goto
  <2>2. \A d \in Chains : CurrentLists(d)'
    BY <2>1 DEF NothingStale, CurrentLists, FreshPackets, FreshAcks, Latest, Recv
  <2> QED
    BY <2>1, <2>2, IdleBatches DEF NothingStale
<1>11. ASSUME NEW g \in Chains, RetryFetchDst(g) \/ RetryStore(g) PROVE NothingStale'
  BY <1>11 DEF RetryFetchDst, RetryStore, ListsProvable, TypeOK
<1>12. ASSUME NEW c \in Chains, FilterAcks(c) PROVE NothingStale'
  <2>1. /\ pc = "unreceivedAcks" /\ pc' \in {"unreceivedAcks", "decide"}
        /\ UNCHANGED <<hist, sh, batch, packets, timeouts>>
        /\ \A d \in Chains : FreshAcks(d)' => d = c \/ FreshAcks(d)
    BY <1>12 DEF FilterAcks, Done, Goto, FreshAcks
  <2>2. /\ acks'[c] \subseteq Commitments(Latest(Other(c)))
        /\ \A d \in Chains \ {c} : acks'[d] = acks[d]
    BY <1>12 DEF FilterAcks, UnreceivedAcks, TypeOK
  <2>3. \A d \in Chains : Recv(d)' = Recv(d) /\ Latest(d)' = Latest(d)
    BY <2>1 DEF Recv, Latest
  <2>4. \A d \in Chains : CurrentLists(d)'
    BY <2>1, <2>2, <2>3, OtherFacts DEF NothingStale, CurrentLists, FreshPackets
  <2> QED
    BY <2>1, <2>4, IdleBatches DEF NothingStale
<1>13. ASSUME NEW c \in Chains, Build(c) PROVE NothingStale'
  <2>1. PICK refresh \in Refreshes(c) : batch' = [batch EXCEPT ![c] = MsgsTo(c, refresh)]
    BY <1>13 DEF Build
  <2>2. pc = "build" /\ pc' \in {"build", "sendSrc"} /\ UNCHANGED <<hist, sh>>
    BY <1>13 DEF Build, Done, Goto
  <2>3. ASSUME NEW d \in Chains PROVE CurrentBatch(d)'
    <3>h. pc' \in Handing(d) /\ Latest(d)' = Latest(d)
      BY <2>2 DEF Handing, Latest
    <3>1. CASE d = c
      <4>1. /\ MsgsTo(c, refresh).recv \subseteq packets[Other(c)]
            /\ MsgsTo(c, refresh).ack \subseteq acks[Other(c)]
            /\ MsgsTo(c, refresh).timeout = timeouts[c]
        BY DEF MsgsTo, RelayBatch
      <4>2. /\ packets[Other(c)] \cap Latest(c).recv = {}
            /\ acks[Other(c)] \subseteq Commitments(Latest(c))
            /\ timeouts[c] \subseteq Commitments(sh[c].at)
        BY <2>2, OtherFacts DEF NothingStale, CurrentLists, FreshPackets, FreshAcks, Recv
      <4>3. batch'[c] = MsgsTo(c, refresh)
        BY <2>1 DEF TypeOK
      <4> QED
        BY <2>2, <3>h, <3>1, <4>1, <4>2, <4>3 DEF CurrentBatch
    <3>2. CASE d # c
      <4>1. batch'[d] = batch[d]
        BY <2>1, <3>2 DEF TypeOK
      <4> QED
        BY <2>2, <3>h, <4>1 DEF NothingStale, CurrentBatch
    <3> QED
      BY <3>1, <3>2
  <2>4. CASE todo = {c}
    <3>1. pc' = "sendSrc" /\ timeouts' = NoPackets
      BY <1>13, <2>4 DEF Build, Done, Goto, Forget
    <3> QED
      BY <2>3, <3>1, NoLists DEF ListPhases, NothingStale
  <2>5. CASE todo # {c}
    <3>1. pc' = "build" /\ UNCHANGED <<packets, acks, timeouts>>
      BY <1>13, <2>5 DEF Build, Done
    <3>2. \A d \in Chains : CurrentLists(d)'
      BY <2>2, <3>1, KeptLists DEF FreshPackets, FreshAcks
    <3> QED
      BY <2>3, <3>2 DEF NothingStale
  <2> QED
    BY <2>4, <2>5
<1>14. ASSUME NEW c \in Chains, BuildError(c) PROVE NothingStale'
  <2>1. pc' \in {"stopped", "updates"} /\ timeouts' = NoPackets /\ batch' = NoBatches
    BY <1>14 DEF BuildError, ServeFails, Forget, Goto
  <2>2. \A d \in Chains : CurrentBatch(d)'
    BY <2>1, EmptyIsFresh DEF NoBatches
  <2> QED
    BY <2>1, <2>2, NoLists DEF ListPhases, NothingStale
<1>15. ASSUME NEW c \in Chains, SendNothing(c) PROVE NothingStale'
  <2>1. NoMsgs(batch[c])
    BY <1>15 DEF SendNothing, HasMsgs, NoMsgs
  <2> QED
    BY <1>15, <1>s, <2>1 DEF SendNothing
<1>16. ASSUME NEW c \in Chains, Broadcast(c) PROVE NothingStale'
  <2>1. /\ pc = SendPhase(c) /\ pc' = WaitPhase(c) /\ UNCHANGED <<timeouts, hist, sh>>
        /\ batch'[c] = EmptyBatch /\ \A d \in Chains \ {c} : batch'[d] = batch[d]
    BY <1>16 DEF Broadcast, Goto, TypeOK
  <2>2. pc \notin ListPhases /\ pc' \notin ListPhases
    BY <2>1 DEF SendPhase, WaitPhase, ListPhases
  <2>3. ASSUME NEW d \in Chains, pc' \notin Handing(d) PROVE NoMsgs(batch'[d])
    <3>1. CASE d = c
      BY <2>1, <3>1, EmptyIsFresh
    <3>2. CASE d # c
      <4>1. d = "src" /\ c = "dst"
        BY <2>1, <2>3, <3>2 DEF WaitPhase, Handing, Chains
      <4>2. pc \notin Handing(d)
        BY <2>1, <4>1 DEF SendPhase, Handing
      <4> QED
        BY <2>1, <3>2, <4>2 DEF NothingStale, CurrentBatch
    <3> QED
      BY <3>1, <3>2
  <2> QED
    BY <1>n, <2>1, <2>2, <2>3, KeptBatches DEF NothingStale
<1>17. ASSUME NEW c \in Chains, SendRejected(c) PROVE NothingStale'
  <2>1. /\ batch'[c] = EmptyBatch /\ NoMsgs(batch'[c])
        /\ \A d \in Chains \ {c} : batch'[d] = batch[d]
    BY <1>17, EmptyIsFresh DEF SendRejected, TypeOK
  <2> QED
    BY <1>17, <1>s, <2>1 DEF SendRejected
<1>18. ASSUME NEW c \in Chains, WaitForCommit(c) PROVE NothingStale'
  <2>1. NoMsgs(batch[c])
    BY <1>18 DEF WaitForCommit, WaitPhase, Handing, NothingStale, CurrentBatch, Chains
  <2> QED
    BY <1>18, <1>s, <2>1 DEF WaitForCommit
<1> QED
  BY <1>1, <1>2, <1>3, <1>4, <1>5, <1>6, <1>7, <1>8, <1>9, <1>10, <1>11, <1>12, <1>13,
     <1>14, <1>15, <1>16, <1>17, <1>18 DEF ServeStep

\* Nothing the lone relayer holds grows stale before it is used.
LEMMA NextNoRedundant ==
    TypeOK /\ ListsInv /\ ListsProvable /\ WaitsForItsOwn /\ NoRedundantInv /\ [Next]_vars
    => NoRedundantInv'
<1> SUFFICES ASSUME TypeOK, ListsInv, ListsProvable, \A c \in Chains : Calm(c),
                    NothingStale, [Next]_vars, ~Rivals, faults = 0, ~FaultStep
             PROVE  NothingStale'
  BY FaultsStay DEF WaitsForItsOwn, NoRedundantInv, Alone
<1>1. CASE ChainStep
  <2>1. PICK c \in Chains, s \in Store :
              /\ AddBlock(c, s) /\ UNCHANGED <<pc, todo, shVars, listVars, batch>>
              /\ \/ Agree(s, Latest(c)) /\ Latest(c).sent \subseteq s.sent
                 \/ mempool[c].status = "pending"
    BY <1>1, AloneBlock
  <2>2. mempool[c].status = "pending" => pc = WaitPhase(c)
    BY DEF Calm
  <2> QED
    BY <2>1, <2>2, QuietBlockFresh, OwnBlockFresh
<1>2. CASE UNCHANGED vars
  BY <1>2
  DEF vars, chainVars, shVars, listVars, NothingStale, CurrentLists, CurrentBatch,
      FreshPackets, FreshAcks, Latest, Recv
<1> QED
  BY <1>1, <1>2, ServeStepFresh DEF Next

\* At the start there are no lists and no batches.
LEMMA InitNoRedundant == Init => NoRedundantInv
<1> SUFFICES ASSUME Init PROVE NothingStale
  BY DEF NoRedundantInv
<1>1. \A c \in Chains : CurrentLists(c)
  BY DEF Init, CurrentLists, FreshPackets, FreshAcks, NoPackets
<1>2. \A c \in Chains : NoMsgs(batch[c])
  BY EmptyIsFresh DEF Init, NoBatches
<1>3. \A c \in Chains : CurrentBatch(c)
  BY <1>2 DEF CurrentBatch, NoMsgs
<1> QED
  BY <1>1, <1>3 DEF NothingStale

\* However far finality lags behind the latest block, a relayer that is alone and meets no
\* fault never sends a chain a packet or an acknowledgement it already has: the wait of
\* waitForCommit and the filters at the latest height are enough, however blocks and
\* goroutines interleave.  A timeout is repeated only until the header shows the first.
THEOREM NoRedundantCorrect == Spec => []NoRedundantMsgs
<1>1. NoRedundantInv => NoRedundantMsgs
  BY DEF NoRedundantInv, NoRedundantMsgs, Alone, NothingStale, CurrentBatch
<1> QED
  BY <1>1, TypeCorrect, ViewsCorrect, ListsInvCorrect, InitProvable, NextListsProvable, InitWaits,
     NextWaits, InitNoRedundant, NextNoRedundant, PTL DEF Spec

=============================================================================
