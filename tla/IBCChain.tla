------------------------------ MODULE IBCChain ------------------------------
(***************************************************************************)
(* What the relayer relies on in the two chains it connects: the IBC       *)
(* packet store of one channel end, the queries the relayer makes on it    *)
(* and the verification a chain performs on the messages it is sent.       *)
(* The chains are not part of this repository; they are modelled from the  *)
(* way core/ and chains/tendermint/ use them.                              *)
(*                                                                         *)
(* Every field of a store only ever grows, so that a store read at an      *)
(* older height is contained in the store of the latest height.  Heights   *)
(* and timestamps are abstracted: a packet whose timeout height or         *)
(* timeout timestamp is reached by a block of the receiving chain is in    *)
(* the "expired" set of that block.                                        *)
(***************************************************************************)
EXTENDS Naturals, FiniteSets

CONSTANTS
    MaxSeq,     \* packets sent on a channel end have sequences 1..MaxSeq
    Ordered,    \* TRUE iff the channel is ORDERED
    StorePos,   \* position of a sequence's key in the store's iteration order
    PageLimit,  \* number of entries one page of a store query returns
    Verifies    \* FALSE iff the light clients are mock clients, to which a proof is a
                \* hash of the claim the relayer makes

Chains == {"src", "dst"}

Other(c) == IF c = "src" THEN "dst" ELSE "src"

Seqs == 1..MaxSeq

ASSUME ChainAssumption ==
    /\ MaxSeq \in Nat
    /\ Ordered \in BOOLEAN
    /\ StorePos \in [Seqs -> Nat]
    /\ \A m, n \in Seqs : StorePos[m] = StorePos[n] => m = n
    /\ PageLimit \in Nat \ {0}
    /\ Verifies \in BOOLEAN

(***************************************************************************)
(* The store of one channel end.  sent, acked and refunded are about the   *)
(* packets this end sends, recv and expired about those it receives.  An   *)
(* acknowledgement is written when the packet is received.                 *)
(***************************************************************************)
Store == [sent     : SUBSET Seqs,   \* packets committed by SendPacket
          acked    : SUBSET Seqs,   \* commitments deleted by MsgAcknowledgement
          refunded : SUBSET Seqs,   \* commitments deleted by MsgTimeout
          recv     : SUBSET Seqs,   \* receipts (and acknowledgements) written
          expired  : SUBSET Seqs]   \* counterparty packets this block is too late for

EmptyStore == [sent |-> {}, acked |-> {}, refunded |-> {}, recv |-> {}, expired |-> {}]

\* s was the store of a block not after the block whose store is t.
NotAfter(s, t) ==
    /\ s.sent \subseteq t.sent
    /\ s.acked \subseteq t.acked
    /\ s.refunded \subseteq t.refunded
    /\ s.recv \subseteq t.recv
    /\ s.expired \subseteq t.expired

(***************************************************************************)
(* A header as the relayer holds it: the store of the header's own block,  *)
(* which plain queries at its height read, and the store its proofs speak  *)
(* about (the previous block's on a tendermint chain).                     *)
(***************************************************************************)
Header == [at : Store, proves : Store]

Commitments(s) == s.sent \ (s.acked \cup s.refunded)

\* A timeout on an ordered channel closes the channel end that sent the packet.
Closed(s) == Ordered /\ s.refunded # {}

\* QueryNextSequenceReceive returns n (ordered channels).
IsNextSequenceReceive(s, n) ==
    /\ n \notin s.recv
    /\ \A m \in Seqs : m < n => m \in s.recv

\* The first page of the entries S, in the iteration order of the store.
Page(S) == {n \in S : Cardinality({m \in S : StorePos[m] < StorePos[n]}) < PageLimit}

UnreceivedPackets(s, S) == S \ s.recv

UnreceivedAcks(s, S) == S \cap Commitments(s)

(***************************************************************************)
(* A transaction: an optional MsgUpdateClient followed by MsgRecvPackets,  *)
(* MsgAcknowledgements and MsgTimeouts, all with proofs for header hdr.    *)
(***************************************************************************)
Batch == [update : BOOLEAN, hdr : Header,
          recv : SUBSET Seqs, ack : SUBSET Seqs, timeout : SUBSET Seqs]

EmptyHeader == [at |-> EmptyStore, proves |-> EmptyStore]

EmptyBatch == [update |-> FALSE, hdr |-> EmptyHeader,
               recv |-> {}, ack |-> {}, timeout |-> {}]

\* S continues done without a gap, and its messages are in increasing order.
InOrder(done, S) ==
    /\ \A n \in S, m \in Seqs : m < n => m \in done \cup S
    /\ \A m, n \in S \ done : m < n => StorePos[m] < StorePos[n]

\* What the proof of a MsgTimeout for n has to show of the receiving chain.
ProvesNotReceived(s, n) ==
    IF Ordered THEN IsNextSequenceReceive(s, n) ELSE n \notin s.recv

RecvAccepted(s, b) ==
    b.recv # {} => /\ ~Closed(s)
                   /\ b.recv \cap s.expired = {}
                   /\ Verifies => b.recv \subseteq Commitments(b.hdr.proves)
                   /\ Ordered => InOrder(s.recv, b.recv)

\* Acknowledging a packet whose commitment is gone is a no-op.
AckAccepted(s, b) ==
    b.ack # {} => /\ ~Closed(s)
                  /\ Verifies => b.ack \cap Commitments(s) \subseteq b.hdr.proves.recv
                  /\ Ordered => InOrder(s.acked, b.ack)

\* Timing out a packet whose commitment is gone is a no-op.  That the timeout has
\* elapsed is checked against the header itself.
TimeoutAccepted(s, b) ==
    /\ b.timeout \subseteq b.hdr.at.expired
    /\ Verifies => \A n \in (b.timeout \cap Commitments(s)) \ b.ack :
                      ProvesNotReceived(b.hdr.proves, n)

\* A transaction is all or nothing; proofs need the client at the header's height.
TxAccepted(s, b) ==
    /\ b.recv \cup b.ack \cup b.timeout # {} => b.update
    /\ RecvAccepted(s, b)
    /\ AckAccepted(s, b)
    /\ TimeoutAccepted(s, b)

TxResult(s, b) ==
    [s EXCEPT !.recv     = @ \cup b.recv,
              !.acked    = @ \cup (b.ack \cap Commitments(s)),
              !.refunded = @ \cup ((b.timeout \cap Commitments(s)) \ b.ack)]

=============================================================================
