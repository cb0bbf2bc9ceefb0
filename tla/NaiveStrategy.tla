---------------------------- MODULE NaiveStrategy ----------------------------
(***************************************************************************)
(* The decisions of core/naive-strategy.go and of the chain queries it is  *)
(* built on, as operators on the stores the relayer has read.  A           *)
(* PacketInfoList is a set of sequences; the order of its elements, which  *)
(* matters only on ordered channels, is the store's order StorePos.        *)
(* The list of chain c holds the packets c sent (rp.Src for "src"), and    *)
(* the messages for chain c are built from the list of Other(c).           *)
(***************************************************************************)
EXTENDS IBCChain

CONSTANTS
    NoAck,      \* NoAck["src"] is StrategyCfg.SrcNoack, NoAck["dst"] DstNoack
    OptCount    \* OptCount[c] is the optimize count for messages to chain c

ASSUME StrategyAssumption ==
    /\ NoAck \in [Chains -> BOOLEAN]
    /\ OptCount \in [Chains -> Nat]

\* ctx: store at the query height; cp: the counterparty's finalized store, read afresh.
QueryUnfinalizedRelayPackets(ctx, cp) == UnreceivedPackets(cp, Page(Commitments(ctx)))

QueryUnfinalizedRelayAcknowledgements(ctx, cp) == UnreceivedAcks(cp, Page(ctx.recv))

\* UnrelayedAcknowledgements asks chain c for acknowledgements.
QueriesAcks(c) == ~NoAck[Other(c)]

\* RelayAcknowledgements and UpdateClients, in the direction of chain c (toChain).
RelaysAcksTo(c) == ~NoAck[Other(c)]

(***************************************************************************)
(* ProcessTimeoutPackets for the list S of one direction.  fin and latest  *)
(* are the receiving chain's stores at the finalized and at the latest     *)
(* height; answered is FALSE iff QueryNextSequenceReceive fails, which is  *)
(* only logged.                                                            *)
(***************************************************************************)
IsFirst(S, n) == \A m \in S : StorePos[n] <= StorePos[m]

\* Variant with a fault: the last packet is looked at instead of the first.
TimeoutPackets_Last(S, fin, answered) ==
    IF Ordered
    THEN {n \in S \cap fin.expired : (\A m \in S : m <= n) /\ IsNextSequenceReceive(fin, n)}
    ELSE S \cap fin.expired

TimeoutPackets(S, fin, answered) ==
    IF Ordered
    THEN {n \in S \cap fin.expired : IsFirst(S, n) /\ answered /\ IsNextSequenceReceive(fin, n)}
    ELSE S \cap fin.expired

KeptPackets(S, fin, latest) ==
    LET dead == S \cap (fin.expired \cup latest.expired)
    IN IF Ordered
       THEN {n \in S : \A m \in dead : StorePos[n] < StorePos[m]}
       ELSE S \ dead

\* shouldExecuteRelay for the list S of packets or acks to relay to chain c.
ShouldExecuteRelay(S, c, aged) == (S # {} /\ aged) \/ Cardinality(S) >= OptCount[c]

\* Variant with a fault: timeouts alone do not update the client.
NeedsUpdate_NoTimeout(c, doRelay, doAck, doTimeout) == doRelay \/ (doAck /\ RelaysAcksTo(c))

NeedsUpdate(c, doRelay, doAck, doTimeout) ==
    doRelay \/ (doAck /\ RelaysAcksTo(c)) \/ doTimeout

(***************************************************************************)
(* The messages for chain c: UpdateClients, RelayPackets,                  *)
(* RelayAcknowledgements and RelayTimeoutPackets.                          *)
(***************************************************************************)
RelayBatch(c, hdr, packets, acks, timeouts, doRelay, doAck, refresh) ==
    LET update == NeedsUpdate(c, doRelay, doAck, timeouts # {}) \/ refresh
    IN [update  |-> update,
        hdr     |-> IF update THEN hdr ELSE EmptyHeader,
        recv    |-> IF doRelay THEN packets ELSE {},
        ack     |-> IF RelaysAcksTo(c) /\ doAck THEN acks ELSE {},
        timeout |-> timeouts]

\* ProveState finds the expected value for each message of b; the mock prover does
\* not look.
Provable(b) == Verifies =>
    /\ b.recv \subseteq Commitments(b.hdr.proves)
    /\ b.ack \subseteq b.hdr.proves.recv
    /\ \A n \in b.timeout : ProvesNotReceived(b.hdr.proves, n)

HasMsgs(b) == b.update \/ b.recv \cup b.ack \cup b.timeout # {}

=============================================================================
