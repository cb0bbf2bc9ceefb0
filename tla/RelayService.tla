---------------------------- MODULE RelayService ----------------------------
(***************************************************************************)
(* The relay service (core/service.go) running the naive strategy between  *)
(* two chains that go on producing blocks while it works.  One Serve is a  *)
(* pass through the phases of pc; every read of a chain is a step of its   *)
(* own, and the goroutines of an errgroup are the members of todo.  A      *)
(* transaction that has been broadcast sits in the chain's mempool until   *)
(* a block includes it, whether or not the relayer still waits for it.     *)
(***************************************************************************)
EXTENDS NaiveStrategy

CONSTANTS
    Delay,      \* finality delay: the finalized block is Delay behind the latest
    ProofLag,   \* 1 iff a header proves the store of the block before it
    Traffic,    \* Traffic[c]: how many packets are sent on chain c
    Mortal,     \* Mortal[c]: the packets of c that carry a timeout
    Rivals,     \* TRUE iff another relayer serves the same path
    Patient,    \* TRUE iff the optimize intervals are not zero
    Refresh,    \* TRUE iff the prover may ask for a client refresh
    RtyAttNum,  \* attempts of retry.Do
    MaxFaults   \* bound on RPC errors, lost transactions and crashes

ASSUME ServiceAssumption ==
    /\ Delay \in Nat
    /\ ProofLag \in {0, 1}
    /\ Traffic \in [Chains -> 0..MaxSeq]
    /\ Mortal \in [Chains -> SUBSET Seqs]
    /\ Rivals \in BOOLEAN
    /\ Patient \in BOOLEAN
    /\ Refresh \in BOOLEAN
    /\ RtyAttNum \in Nat \ {0}
    /\ MaxFaults \in Nat

VARIABLES
    hist,       \* hist[c][i]: store of chain c, i blocks before its latest block
    mempool,    \* mempool[c]: the relayer's transaction on chain c
    pc,         \* phase of the service
    todo,       \* goroutines of the current phase that have not finished
    attempts,   \* failed attempts of the current retry.Do in Start
    sh,         \* the SyncHeaders: latest finalized header of each chain
    ackCtx,     \* query heights of UnrelayedAcknowledgements, read before its goroutines run
    got,        \* got[g]: headers goroutine g has fetched and not yet stored
    fetching,   \* goroutines inside the sh.Updates of an ack query's OnRetry
    fetched,    \* those of them that have both headers and are about to store them
    packets,    \* pseqs.Src, pseqs.Dst
    timeouts,   \* pseqs.SrcTimeout, pseqs.DstTimeout
    acks,       \* aseqs.Src, aseqs.Dst
    doRelay,    \* doExecuteRelaySrc, doExecuteRelayDst
    doAck,      \* doExecuteAckSrc, doExecuteAckDst
    batch,      \* msgs.Src, msgs.Dst
    backlog,    \* srcBacklog, dstBacklog of the strategy's metrics
    counted,    \* packets counted by ReceivePacketsFinalizedCounter
    faults      \* faults so far

chainVars == <<hist, mempool>>
listVars  == <<packets, timeouts, acks, doRelay, doAck>>
shVars    == <<sh, ackCtx, got, fetching, fetched>>
statVars  == <<backlog, counted>>
vars == <<chainVars, pc, todo, attempts, shVars, listVars, batch, statVars, faults>>

Depth == Delay + ProofLag

Latest(c) == hist[c][0]
Finalized(c) == hist[c][Delay]
FinalizedHeader(c) == [at |-> hist[c][Delay], proves |-> hist[c][Depth]]

NoTx == [status |-> "none", tx |-> EmptyBatch]
NoHeaders == [c \in Chains |-> EmptyHeader]
NoStores == [c \in Chains |-> EmptyStore]
NoPackets == [c \in Chains |-> {}]
Nothing == [c \in Chains |-> FALSE]
NoBatches == [c \in Chains |-> EmptyBatch]

Phases == {"start", "updates", "updatesDst", "packets", "metrics", "unreceived",
           "timeouts", "acks", "unreceivedAcks", "decide", "build",
           "sendSrc", "waitSrc", "sendDst", "waitDst", "wait", "stopped"}

\* Phases of Serve in which an RPC error makes Serve return an error.
FailingPhases == {"updates", "updatesDst", "packets", "metrics", "unreceived",
                  "timeouts", "acks", "unreceivedAcks", "build"}

SendPhase(c) == IF c = "src" THEN "sendSrc" ELSE "sendDst"
WaitPhase(c) == IF c = "src" THEN "waitSrc" ELSE "waitDst"

TypeOK ==
    /\ hist \in [Chains -> [0..Depth -> Store]]
    /\ mempool \in [Chains -> [status : {"none", "pending", "committed"}, tx : Batch]]
    /\ pc \in Phases
    /\ todo \in SUBSET Chains
    /\ attempts \in 0..RtyAttNum
    /\ sh \in [Chains -> Header]
    /\ ackCtx \in [Chains -> Store]
    /\ got \in [Chains -> [Chains -> Header]]
    /\ fetching \in SUBSET Chains
    /\ fetched \in SUBSET fetching
    /\ packets \in [Chains -> SUBSET Seqs]
    /\ timeouts \in [Chains -> SUBSET Seqs]
    /\ acks \in [Chains -> SUBSET Seqs]
    /\ doRelay \in [Chains -> BOOLEAN]
    /\ doAck \in [Chains -> BOOLEAN]
    /\ batch \in [Chains -> Batch]
    /\ backlog \in [Chains -> SUBSET Seqs]
    /\ counted \in [Chains -> SUBSET Seqs]
    /\ faults \in 0..MaxFaults

Init ==
    /\ hist = [c \in Chains |-> [i \in 0..Depth |-> EmptyStore]]
    /\ mempool = [c \in Chains |-> NoTx]
    /\ pc = "start"
    /\ todo = Chains
    /\ attempts = 0
    /\ sh = NoHeaders
    /\ ackCtx = NoStores
    /\ got = [c \in Chains |-> NoHeaders]
    /\ fetching = {}
    /\ fetched = {}
    /\ packets = NoPackets
    /\ timeouts = NoPackets
    /\ acks = NoPackets
    /\ doRelay = Nothing
    /\ doAck = Nothing
    /\ batch = NoBatches
    /\ backlog = NoPackets
    /\ counted = NoPackets
    /\ faults = 0

-----------------------------------------------------------------------------
(* The chains *)

AddBlock(c, s) ==
    hist' = [hist EXCEPT ![c] = [i \in 0..Depth |-> IF i = 0 THEN s ELSE hist[c][i - 1]]]

\* A block that does not include the relayer's transaction; it confirms the one before.
OtherBlock(c, s) ==
    /\ AddBlock(c, s)
    /\ mempool' = IF mempool[c].status = "committed"
                  THEN [mempool EXCEPT ![c] = NoTx] ELSE mempool
    /\ UNCHANGED <<pc, todo, attempts, shVars, listVars, batch, statVars, faults>>

NewBlock(c) == OtherBlock(c, Latest(c))

SendPacket(c) ==
    /\ ~Closed(Latest(c))
    /\ \E n \in 1..Traffic[c] :
        /\ n \notin Latest(c).sent
        /\ \A m \in 1..(n - 1) : m \in Latest(c).sent
        /\ OtherBlock(c, [Latest(c) EXCEPT !.sent = @ \cup {n}])

\* The timeout of a packet sent to chain c elapses with this block of c.
Expire(c) ==
    \E n \in (Mortal[Other(c)] \cap Latest(Other(c)).sent) \ Latest(c).expired :
        OtherBlock(c, [Latest(c) EXCEPT !.expired = @ \cup {n}])

\* Another, honest relayer delivers one packet or one acknowledgement to chain c.
RivalRelay(c) ==
    /\ Rivals
    /\ \E n \in Seqs, kind \in {"recv", "ack"} :
        LET b == [update |-> TRUE, hdr |-> FinalizedHeader(Other(c)),
                  recv |-> IF kind = "recv" THEN {n} ELSE {},
                  ack |-> IF kind = "ack" THEN {n} ELSE {},
                  timeout |-> {}]
        IN /\ b.recv \subseteq Commitments(b.hdr.proves)
           /\ b.ack \subseteq b.hdr.proves.recv
           /\ TxAccepted(Latest(c), b)
           /\ TxResult(Latest(c), b) # Latest(c)
           /\ OtherBlock(c, TxResult(Latest(c), b))

\* A block includes the relayer's transaction, which succeeds or fails as a whole.
ExecTx(c) ==
    /\ mempool[c].status = "pending"
    /\ LET b == mempool[c].tx
       IN AddBlock(c, IF TxAccepted(Latest(c), b) THEN TxResult(Latest(c), b) ELSE Latest(c))
    /\ mempool' = [mempool EXCEPT ![c] = [status |-> "committed", tx |-> EmptyBatch]]
    /\ UNCHANGED <<pc, todo, attempts, shVars, listVars, batch, statVars, faults>>

Fault == faults < MaxFaults /\ faults' = faults + 1

\* The node drops the relayer's transaction.
DropTx(c) ==
    /\ Fault
    /\ mempool[c].status = "pending"
    /\ mempool' = [mempool EXCEPT ![c] = NoTx]
    /\ UNCHANGED <<hist, pc, todo, attempts, shVars, listVars, batch, statVars>>

-----------------------------------------------------------------------------
(* The service *)

Goto(phase) == pc' = phase /\ todo' = Chains

\* Goroutine g of the current phase is done; eg.Wait leads to the next phase.
Done(g, phase) ==
    IF todo = {g} THEN Goto(phase) ELSE pc' = pc /\ todo' = todo \ {g}

Forget ==
    /\ packets' = NoPackets
    /\ timeouts' = NoPackets
    /\ acks' = NoPackets
    /\ doRelay' = Nothing
    /\ doAck' = Nothing

\* StartService: NewSyncHeaders fetches both headers before the loop of Start.
StartService ==
    /\ pc = "start"
    /\ sh' = [c \in Chains |-> FinalizedHeader(c)]
    /\ Goto("updates")
    /\ UNCHANGED <<chainVars, attempts, ackCtx, got, fetching, fetched, listVars, batch, statVars, faults>>

StartServiceError ==
    /\ pc = "start"
    /\ Fault
    /\ Goto("stopped")
    /\ UNCHANGED <<chainVars, attempts, shVars, listVars, batch, statVars>>

\* syncHeaders.Updates: src's header is fetched first, both are stored at the end.
UpdatesSrc ==
    /\ pc = "updates"
    /\ got' = [got EXCEPT !["src"] = [NoHeaders EXCEPT !["src"] = FinalizedHeader("src")]]
    /\ Goto("updatesDst")
    /\ UNCHANGED <<chainVars, attempts, sh, ackCtx, fetching, fetched, listVars, batch, statVars, faults>>

UpdatesDst ==
    /\ pc = "updatesDst"
    /\ sh' = [got["src"] EXCEPT !["dst"] = FinalizedHeader("dst")]
    /\ got' = [got EXCEPT !["src"] = NoHeaders]
    /\ Goto("packets")
    /\ UNCHANGED <<chainVars, attempts, ackCtx, fetching, fetched, listVars, batch, statVars, faults>>

\* Variant with a fault: the commitments are listed at the latest height.
QueryPackets_Latest(c) ==
    /\ pc = "packets" /\ c \in todo
    /\ packets' = [packets EXCEPT ![c] =
                     QueryUnfinalizedRelayPackets(Latest(c), Finalized(Other(c)))]
    /\ Done(c, "metrics")
    /\ UNCHANGED <<chainVars, attempts, shVars, timeouts, acks, doRelay, doAck, batch,
                   statVars, faults>>

\* UnrelayedPackets, first errgroup: the goroutine that queries chain c.
QueryPackets(c) ==
    /\ pc = "packets" /\ c \in todo
    /\ packets' = [packets EXCEPT ![c] =
                     QueryUnfinalizedRelayPackets(sh[c].at, Finalized(Other(c)))]
    /\ Done(c, "metrics")
    /\ UNCHANGED <<chainVars, attempts, shVars, timeouts, acks, doRelay, doAck, batch,
                   statVars, faults>>

\* Variant with a fault: the backlog is taken after the filter at the latest height.
UpdateBacklogMetrics_Filtered ==
    /\ pc = "metrics"
    /\ LET new == [c \in Chains |-> UnreceivedPackets(Latest(Other(c)), packets[c])]
       IN /\ counted' = [c \in Chains |-> counted[c] \cup (backlog[c] \ new[c])]
          /\ backlog' = new
    /\ Goto("unreceived")
    /\ UNCHANGED <<chainVars, attempts, shVars, listVars, batch, faults>>

UpdateBacklogMetrics ==
    /\ pc = "metrics"
    /\ counted' = [c \in Chains |-> counted[c] \cup (backlog[c] \ packets[c])]
    /\ backlog' = packets
    /\ Goto("unreceived")
    /\ UNCHANGED <<chainVars, attempts, shVars, listVars, batch, faults>>

\* Variant with a fault: the filter asks at the finalized height.
FilterUnreceived_Finalized(c) ==
    /\ pc = "unreceived" /\ c \in todo
    /\ packets' = [packets EXCEPT ![c] = UnreceivedPackets(sh[Other(c)].at, @)]
    /\ Done(c, "timeouts")
    /\ UNCHANGED <<chainVars, attempts, shVars, timeouts, acks, doRelay, doAck, batch,
                   statVars, faults>>

\* UnrelayedPackets, second errgroup: keep what is unreceived at the latest height.
FilterUnreceived(c) ==
    /\ pc = "unreceived" /\ c \in todo
    /\ packets' = [packets EXCEPT ![c] = UnreceivedPackets(Latest(Other(c)), @)]
    /\ Done(c, "timeouts")
    /\ UNCHANGED <<chainVars, attempts, shVars, timeouts, acks, doRelay, doAck, batch,
                   statVars, faults>>

\* Variant with a fault: a timeout at the latest height is taken for final.
ProcessTimeoutPackets_Latest(c) ==
    /\ pc = "timeouts" /\ c \in todo
    /\ timeouts' = [timeouts EXCEPT ![c] =
                      TimeoutPackets(packets[c], Latest(Other(c)), TRUE)]
    /\ packets' = [packets EXCEPT ![c] =
                     KeptPackets(@, sh[Other(c)].at, Latest(Other(c)))]
    /\ ackCtx' = IF todo = {c} THEN [d \in Chains |-> sh[d].at] ELSE ackCtx
    /\ Done(c, "acks")
    /\ UNCHANGED <<chainVars, attempts, sh, got, fetching, fetched, acks, doRelay, doAck, batch,
                   statVars, faults>>

ProcessTimeoutPackets(c) ==
    /\ pc = "timeouts" /\ c \in todo
    /\ \E answered \in BOOLEAN :
        /\ IF answered THEN UNCHANGED faults ELSE Ordered /\ Fault
        /\ timeouts' = [timeouts EXCEPT ![c] =
                          TimeoutPackets(packets[c], sh[Other(c)].at, answered)]
    /\ packets' = [packets EXCEPT ![c] =
                     KeptPackets(@, sh[Other(c)].at, Latest(Other(c)))]
    /\ ackCtx' = IF todo = {c} THEN [d \in Chains |-> sh[d].at] ELSE ackCtx
    /\ Done(c, "acks")
    /\ UNCHANGED <<chainVars, attempts, sh, got, fetching, fetched, acks, doRelay, doAck, batch,
                   statVars>>

\* Variant with a fault: the query height is read inside the goroutine.
QueryAcks_Fresh(c) ==
    /\ pc = "acks" /\ c \in todo \ fetching
    /\ acks' = [acks EXCEPT ![c] =
                  QueryUnfinalizedRelayAcknowledgements(Finalized(c), Finalized(Other(c)))]
    /\ ackCtx' = IF todo = {c} THEN NoStores ELSE ackCtx
    /\ Done(c, "unreceivedAcks")
    /\ UNCHANGED <<chainVars, attempts, sh, got, fetching, fetched, packets, timeouts, doRelay,
                   doAck, batch, statVars, faults>>

\* UnrelayedAcknowledgements, first errgroup: the goroutine that queries chain c.
QueryAcks(c) ==
    /\ pc = "acks" /\ c \in todo \ fetching
    /\ acks' = [acks EXCEPT ![c] =
                  IF QueriesAcks(c)
                  THEN QueryUnfinalizedRelayAcknowledgements(ackCtx[c], Finalized(Other(c)))
                  ELSE {}]
    /\ ackCtx' = IF todo = {c} THEN NoStores ELSE ackCtx
    /\ Done(c, "unreceivedAcks")
    /\ UNCHANGED <<chainVars, attempts, sh, got, fetching, fetched, packets, timeouts, doRelay,
                   doAck, batch, statVars, faults>>

\* The query of goroutine g fails; OnRetry calls sh.Updates while the other goroutine
\* may do the same: g fetches src's header, then dst's, and then stores both.
RetryFetchSrc(g) ==
    /\ pc = "acks" /\ g \in todo \ fetching
    /\ QueriesAcks(g)
    /\ Fault
    /\ got' = [got EXCEPT ![g] = [NoHeaders EXCEPT !["src"] = FinalizedHeader("src")]]
    /\ fetching' = fetching \cup {g}
    /\ UNCHANGED <<chainVars, pc, todo, attempts, sh, ackCtx, fetched, listVars, batch, statVars>>

RetryFetchDst(g) ==
    /\ pc = "acks" /\ g \in fetching \ fetched
    /\ got' = [got EXCEPT ![g] = [@ EXCEPT !["dst"] = FinalizedHeader("dst")]]
    /\ fetched' = fetched \cup {g}
    /\ UNCHANGED <<chainVars, pc, todo, attempts, sh, ackCtx, fetching, listVars, batch, statVars,
                   faults>>

\* GetLatestFinalizedHeader fails: Updates stores nothing, and OnRetry drops its error.
RetryFetchError(g) ==
    /\ pc = "acks" /\ g \in fetching \ fetched
    /\ Fault
    /\ got' = [got EXCEPT ![g] = NoHeaders]
    /\ fetching' = fetching \ {g}
    /\ UNCHANGED <<chainVars, pc, todo, attempts, sh, ackCtx, fetched, listVars, batch, statVars>>

RetryStore(g) ==
    /\ pc = "acks" /\ g \in fetched
    /\ sh' = got[g]
    /\ got' = [got EXCEPT ![g] = NoHeaders]
    /\ fetching' = fetching \ {g}
    /\ fetched' = fetched \ {g}
    /\ UNCHANGED <<chainVars, pc, todo, attempts, ackCtx, listVars, batch, statVars, faults>>

\* UnrelayedAcknowledgements, second errgroup.
FilterAcks(c) ==
    /\ pc = "unreceivedAcks" /\ c \in todo
    /\ acks' = [acks EXCEPT ![c] = UnreceivedAcks(Latest(Other(c)), @)]
    /\ Done(c, "decide")
    /\ UNCHANGED <<chainVars, attempts, shVars, packets, timeouts, doRelay, doAck, batch,
                   statVars, faults>>

\* shouldExecuteRelay: aged are the chains whose oldest list entry is old enough.
Choices(lists, aged) ==
    [c \in Chains |-> ShouldExecuteRelay(lists[Other(c)], c, Other(c) \in aged)]

Decide(agedPackets, agedAcks) ==
    /\ pc = "decide"
    /\ Patient \/ (agedPackets = Chains /\ agedAcks = Chains)
    /\ doRelay' = Choices(packets, agedPackets)
    /\ doAck' = Choices(acks, agedAcks)
    /\ Goto("build")
    /\ UNCHANGED <<chainVars, attempts, shVars, packets, timeouts, acks, batch, statVars,
                   faults>>

\* Timestamp fails: this call of shouldExecuteRelay answers (false, false).
TimestampError ==
    /\ pc = "decide"
    /\ Fault
    /\ \/ /\ packets # NoPackets
          /\ doRelay' = Nothing
          /\ doAck' = Choices(acks, Chains)
       \/ /\ acks # NoPackets
          /\ doRelay' = Choices(packets, Chains)
          /\ doAck' = Nothing
    /\ Goto("build")
    /\ UNCHANGED <<chainVars, attempts, shVars, packets, timeouts, acks, batch, statVars>>

\* Variant with a fault: the acknowledgements of the other direction.
MsgsTo_Swapped(c, refresh) ==
    RelayBatch(c, sh[Other(c)], packets[Other(c)], acks[c], timeouts[c],
               doRelay[c], doAck[c], refresh)

\* The messages for chain c that relayMsgs and RelayTimeoutPackets build.
MsgsTo(c, refresh) ==
    RelayBatch(c, sh[Other(c)], packets[Other(c)], acks[Other(c)], timeouts[c],
               doRelay[c], doAck[c], refresh)

\* CheckRefreshRequired is asked only if no update is needed anyway.
Refreshes(c) ==
    {FALSE, Refresh /\ ~NeedsUpdate(c, doRelay[c], doAck[c], timeouts[c] # {})}

Build(c) ==
    /\ pc = "build" /\ c \in todo
    /\ \E refresh \in Refreshes(c) :
        /\ Provable(MsgsTo(c, refresh))
        /\ batch' = [batch EXCEPT ![c] = MsgsTo(c, refresh)]
    /\ Done(c, "sendSrc")
    /\ IF todo = {c} THEN Forget ELSE UNCHANGED listVars
    /\ UNCHANGED <<chainVars, attempts, shVars, statVars, faults>>

\* Variant with a fault: the attempts are counted but never exhausted.
ServeFails_Unlimited ==
    /\ attempts' = attempts + 1
    /\ Goto("updates")
    /\ Forget
    /\ ackCtx' = NoStores
    /\ got' = [c \in Chains |-> NoHeaders]
    /\ fetching' = {}
    /\ fetched' = {}
    /\ batch' = NoBatches

\* Serve returns an error: retry.Do tries again, and Start returns after RtyAttNum.
ServeFails ==
    /\ attempts' = attempts + 1
    /\ Goto(IF attempts + 1 = RtyAttNum THEN "stopped" ELSE "updates")
    /\ Forget
    /\ ackCtx' = NoStores
    /\ got' = [c \in Chains |-> NoHeaders]
    /\ fetching' = {}
    /\ fetched' = {}
    /\ batch' = NoBatches

\* ProveState finds another value than the one the message needs.
BuildError(c) ==
    /\ pc = "build" /\ c \in todo
    /\ ~Provable(MsgsTo(c, FALSE))
    /\ ServeFails
    /\ UNCHANGED <<chainVars, sh, statVars, faults>>

ServeError ==
    /\ pc \in FailingPhases
    /\ Fault
    /\ ServeFails
    /\ UNCHANGED <<chainVars, sh, statVars>>

\* What follows Send on chain c; the outcome of the send is only logged.
AfterSend(c) ==
    IF c = "src"
    THEN Goto("sendDst") /\ UNCHANGED attempts
    ELSE Goto("wait") /\ attempts' = 0

SendNothing(c) ==
    /\ pc = SendPhase(c)
    /\ ~HasMsgs(batch[c])
    /\ AfterSend(c)
    /\ UNCHANGED <<chainVars, shVars, listVars, batch, statVars, faults>>

\* The gas simulation runs the messages on the latest block; the account sequence is
\* the chain's only if nothing of the relayer is pending.
Broadcast(c) ==
    /\ pc = SendPhase(c)
    /\ HasMsgs(batch[c])
    /\ mempool[c].status # "pending"
    /\ TxAccepted(Latest(c), batch[c])
    /\ mempool' = [mempool EXCEPT ![c] = [status |-> "pending", tx |-> batch[c]]]
    /\ batch' = [batch EXCEPT ![c] = EmptyBatch]
    /\ Goto(WaitPhase(c))
    /\ UNCHANGED <<hist, attempts, shVars, listVars, statVars, faults>>

\* A broadcast that carries more than a refresh of the client.
BroadcastPackets(c) ==
    /\ batch[c].recv \cup batch[c].ack \cup batch[c].timeout # {}
    /\ Broadcast(c)

\* SendMsgs returns an error before the broadcast: the simulation or CheckTx fails, the
\* client already has the header, or the node does not answer.
SendRejected(c) ==
    /\ pc = SendPhase(c)
    /\ HasMsgs(batch[c])
    /\ batch' = [batch EXCEPT ![c] = EmptyBatch]
    /\ AfterSend(c)
    /\ UNCHANGED <<chainVars, shVars, listVars, statVars, faults>>

\* Variants with a fault: not to wait at all, and not to wait for the following block.
WaitForCommit_Broadcast(c) ==
    /\ pc = WaitPhase(c)
    /\ AfterSend(c)
    /\ UNCHANGED <<chainVars, shVars, listVars, batch, statVars, faults>>

WaitForCommit_Included(c) ==
    /\ pc = WaitPhase(c)
    /\ mempool[c].status # "pending"
    /\ AfterSend(c)
    /\ UNCHANGED <<chainVars, shVars, listVars, batch, statVars, faults>>

\* waitForCommit returns when a block follows the one that holds the transaction.
WaitForCommit(c) ==
    /\ pc = WaitPhase(c)
    /\ mempool[c].status = "none"
    /\ AfterSend(c)
    /\ UNCHANGED <<chainVars, shVars, listVars, batch, statVars, faults>>

\* waitForCommit runs out of retries; the transaction stays in the mempool.
GiveUpWaiting(c) ==
    /\ pc = WaitPhase(c)
    /\ mempool[c].status # "none"
    /\ Fault
    /\ AfterSend(c)
    /\ UNCHANGED <<chainVars, shVars, listVars, batch, statVars>>

Wait ==
    /\ pc = "wait"
    /\ Goto("updates")
    /\ UNCHANGED <<chainVars, attempts, shVars, listVars, batch, statVars, faults>>

\* The process dies (also from concurrent writes to the header map) and is restarted.
Crash ==
    /\ pc # "start"
    /\ Fault
    /\ Goto("start")
    /\ attempts' = 0
    /\ sh' = NoHeaders
    /\ ackCtx' = NoStores
    /\ got' = [c \in Chains |-> NoHeaders]
    /\ fetching' = {}
    /\ fetched' = {}
    /\ Forget
    /\ batch' = NoBatches
    /\ backlog' = NoPackets
    /\ UNCHANGED <<chainVars, counted>>

-----------------------------------------------------------------------------
ChainStep ==
    \E c \in Chains :
        NewBlock(c) \/ SendPacket(c) \/ Expire(c) \/ RivalRelay(c) \/ ExecTx(c)

ServeStep ==
    \/ StartService \/ UpdatesSrc \/ UpdatesDst \/ UpdateBacklogMetrics \/ Wait
    \/ \E agedPackets, agedAcks \in SUBSET Chains : Decide(agedPackets, agedAcks)
    \/ \E c \in Chains :
        \/ QueryPackets(c) \/ FilterUnreceived(c) \/ ProcessTimeoutPackets(c)
        \/ QueryAcks(c) \/ RetryFetchDst(c) \/ RetryStore(c) \/ FilterAcks(c)
        \/ Build(c) \/ BuildError(c)
        \/ SendNothing(c) \/ Broadcast(c) \/ SendRejected(c) \/ WaitForCommit(c)

FaultStep ==
    \/ StartServiceError \/ ServeError \/ TimestampError \/ Crash
    \/ \E c \in Chains : DropTx(c) \/ RetryFetchSrc(c) \/ RetryFetchError(c) \/ GiveUpWaiting(c)

Next == ChainStep \/ ServeStep \/ FaultStep

Spec == Init /\ [][Next]_vars

(***************************************************************************)
(* Fairness: the process keeps running, blocks keep coming and include the *)
(* relayer's transactions.  A batch that keeps being built is not refused  *)
(* for ever (the next header is newer than the client's), and packets that *)
(* stay in the lists grow older than the optimize interval.                *)
(***************************************************************************)
Fairness ==
    /\ WF_vars(ServeStep)
    /\ SF_vars(Decide(Chains, Chains))
    /\ \A c \in Chains : WF_vars(NewBlock(c)) /\ WF_vars(ExecTx(c)) /\ SF_vars(BroadcastPackets(c))

FairSpec == Spec /\ Fairness

-----------------------------------------------------------------------------
(* Properties *)

Recv(c) == Latest(Other(c)).recv

\* A packet is acknowledged only if the other chain received it and is refunded only if
\* it never does.  With mock clients nothing but the relayer's own checks ensures this.
ExclusiveOutcome ==
    \A c \in Chains : /\ Latest(c).acked \subseteq Recv(c)
                      /\ Latest(c).refunded \cap Recv(c) = {}

\* ProcessTimeoutPackets takes a packet for timed out only when it has not been and can
\* no longer be received, however long its MsgTimeout then takes to be executed.
TimeoutsAreFinal ==
    \A c \in Chains :
        timeouts[c] \cup batch[c].timeout \cup mempool[c].tx.timeout
            \subseteq Latest(Other(c)).expired \ Recv(c)

\* The headers the proofs are built from are never older than what the lists were read
\* from, although two OnRetry callbacks may store headers concurrently and out of order.
ListsCoveredByHeaders ==
    \A c \in Chains : /\ packets[c] \subseteq sh[c].at.sent
                      /\ acks[c] \subseteq sh[c].at.recv
                      /\ timeouts[c] \subseteq sh[Other(c)].at.expired

\* A relayer that is alone and meets no fault never sends a receipt or an acknowledgement
\* that the chain already has, however far finality lags behind: waitForCommit and the
\* filters at the latest height hide what is not yet finalized.  Timeouts pass no such
\* filter; a MsgTimeout is repeated only until the header shows its first execution.
NoRedundantMsgs ==
    (~Rivals /\ faults = 0) =>
        \A c \in Chains :
            /\ batch[c].recv \cap Latest(c).recv = {}
            /\ batch[c].ack \subseteq Commitments(Latest(c))
            /\ batch[c].timeout \subseteq Commitments(sh[c].at)

\* The packets the metric counts as received are so on the finalized chain, or refunded.
CountedAreSettled ==
    \A c \in Chains : counted[c] \subseteq Finalized(Other(c)).recv \cup Latest(c).refunded

\* On an ordered channel a relayer that does not hold back acknowledgements closes the
\* channel only after, or together with, acknowledging all that was received.
CloseStrandsNoAck ==
    (Ordered /\ faults = 0) =>
        \A c \in Chains : Latest(c).refunded # {} => Recv(c) \subseteq Latest(c).acked

\* What was received through this relayer alone can be proved as soon as it is listed:
\* waitForCommit returns only when a block follows the one that holds the transaction.
AcksProvable ==
    (~Rivals /\ faults = 0) => \A c \in Chains : acks[c] \subseteq sh[c].proves.recv

(***************************************************************************)
(* The inductive invariant behind ExclusiveOutcome and TimeoutsAreFinal.   *)
(***************************************************************************)

\* What the relayer holds of chain c was the state of c at some earlier block.
KnowsThePast(c) ==
    /\ \A i \in 0..Depth : NotAfter(hist[c][i], Latest(c))
    /\ NotAfter(sh[c].at, Latest(c))
    /\ NotAfter(ackCtx[c], Latest(c))
    /\ \A g \in Chains : NotAfter(got[g][c].at, Latest(c))

\* The list of c has passed the filter at the latest height of the other chain, and
\* ProcessTimeoutPackets has not yet looked at it.
Filtered(c) ==
    \/ pc = "unreceived" /\ c \notin todo
    \/ pc = "timeouts" /\ c \in todo

\* What was unreceived when it was filtered can since have been received only if the
\* header in the SyncHeaders has not reached its timeout.
FilteredStayLive(c) ==
    Filtered(c) => packets[c] \cap sh[Other(c)].at.expired \cap Recv(c) = {}

\* An acknowledgement on its way to chain c is of a packet that was received.
AcksInFlight(c) ==
    acks[Other(c)] \cup batch[c].ack \cup mempool[c].tx.ack \subseteq Recv(c)

SettledRightly(c) ==
    /\ Latest(c).acked \subseteq Recv(c)
    /\ Latest(c).refunded \subseteq Latest(Other(c)).expired \ Recv(c)

\* The relayer's view of each chain is of its past, and all it has concluded from that
\* view about timeouts and acknowledgements still holds of the chains as they are now.
ViewsStayValid ==
    /\ TimeoutsAreFinal
    /\ \A c \in Chains : /\ KnowsThePast(c)
                         /\ FilteredStayLive(c)
                         /\ AcksInFlight(c)
                         /\ SettledRightly(c)

(***************************************************************************)
(* The service together with the chains implements the life of packets     *)
(* that PacketLifecycle promises.                                          *)
(***************************************************************************)
Fate(c, n) ==
    CASE n \in Latest(c).refunded -> "refunded"
      [] n \in Latest(c).acked -> "acked"
      [] n \in Recv(c) \ Latest(c).acked -> "delivered"
      [] n \in Latest(c).sent \ (Recv(c) \cup Latest(c).acked \cup Latest(c).refunded) -> "sent"
      [] OTHER -> "unsent"

Lifecycle == INSTANCE PacketLifecycle WITH
    Ends <- Chains, Peer <- Other, Packets <- Seqs, InSequence <- Ordered,
    fate <- [c \in Chains |-> [n \in Seqs |-> Fate(c, n)]]

\* Every step of the service or of a chain is a step of the packets' life cycle.
ImplementsLifecycle == Lifecycle!Spec

\* The packets sent in the very block of the header that b is proved with.
SentWithHeader(b) == b.hdr.at.sent \ b.hdr.proves.sent

\* A message that cannot be proved makes Serve fail, and a few failures end the service.
\* To a relayer that is alone and meets no fault this happens only because of a packet sent
\* in the header's own block: everything else it has listed can be proved.
OnlyNewPacketsUnprovable ==
    (~Rivals /\ faults = 0 /\ pc = "build") =>
        \A c \in todo : LET b == MsgsTo(c, FALSE)
                       IN Provable([b EXCEPT !.recv = @ \ SentWithHeader(b)])

\* Every packet is eventually acknowledged or refunded, unless the service or the channel
\* has ended: also when it expires between ProcessTimeoutPackets and the execution of its
\* MsgRecvPacket, when a transaction is lost or late, or after a crash.
EventuallySettled ==
    \A c \in Chains : \A n \in 1..Traffic[c] :
        n \in Latest(c).sent ~> \/ n \in Latest(c).acked \cup Latest(c).refunded
                                \/ pc = "stopped"
                                \/ \E d \in Chains : Closed(Latest(d))

(***************************************************************************)
(* A statement of a comment that the code does not keep.                   *)
(***************************************************************************)

\* core/strategies.go says that UnrelayedAcknowledgements returns the packets to execute
\* AcknowledgePacket to: then every received packet is eventually acknowledged.
ReceivedAreAcked ==
    \A c \in Chains, n \in Seqs : n \in Recv(c) ~> n \in Latest(c).acked
=============================================================================
