----------------------------- MODULE RelayMsgs -----------------------------
(***************************************************************************)
(* RelayMsgs.Send (core/relayMsgs.go): the messages of a relay round go to *)
(* the chains in transactions that are cut at MaxTxSize and MaxMsgLength.  *)
(* The identifier of a message is written at the offset at which its       *)
(* transaction began; the callers look for the events of a message through *)
(* that identifier.  A message is its encoded size.                        *)
(***************************************************************************)
EXTENDS Integers, Sequences, SequencesExt

CONSTANT Rounds     \* the RelayMsgs that Send is called with

Sides == {"Src", "Dst"}

ASSUME RoundsAssumption ==
    Rounds \subseteq [Src : Seq(Nat), Dst : Seq(Nat), MaxTxSize : Nat, MaxMsgLength : Nat]

VARIABLES
    r,          \* the RelayMsgs
    side,       \* the side whose messages are sent
    next,       \* the next message of this side
    msgs,       \* the batch: positions of messages in r
    msgLen,     \* the length and
    txSize,     \* the size of the batch, as Send counts them
    maxTxCount, \* messages of this side in earlier transactions
    ids,        \* srcMsgIDs and dstMsgIDs
    succeeded,  \* r.Succeeded
    txs         \* txs[s]: the calls of SendMsgs on side s (history)

vars == <<r, side, next, msgs, msgLen, txSize, maxTxCount, ids, succeeded, txs>>

NoID == [tx |-> 0, index |-> 0]

\* Variant with a fault: the size is never checked.
IsMaxTx_LengthOnly(len, size) == r.MaxMsgLength # 0 /\ len > r.MaxMsgLength

IsMaxTx(len, size) ==
    \/ r.MaxMsgLength # 0 /\ len > r.MaxMsgLength
    \/ r.MaxTxSize # 0 /\ size > r.MaxTxSize

Init ==
    /\ r \in Rounds
    /\ side = "Src"
    /\ next = 1
    /\ msgs = <<>>
    /\ msgLen = 0
    /\ txSize = 0
    /\ maxTxCount = 0
    /\ ids = [s \in Sides |-> [i \in DOMAIN r[s] |-> NoID]]
    /\ succeeded = TRUE
    /\ txs = [s \in Sides |-> <<>>]

\* Variant with a fault: identifiers are written from the start of the side.
SendMsgs_NoOffset(ok) ==
    LET tx == Len(txs[side]) + 1
    IN  /\ txs' = [txs EXCEPT ![side] = Append(@, [msgs |-> msgs, ok |-> ok])]
        /\ succeeded' = (succeeded /\ ok)
        /\ ids' = IF ok
                  THEN [ids EXCEPT ![side] = [i \in DOMAIN @ |->
                           IF i \in 1..Len(msgs) THEN [tx |-> tx, index |-> i] ELSE @[i]]]
                  ELSE ids

\* Variant with a fault: only the last call decides on success.
SendMsgs_LastDecides(ok) ==
    LET tx == Len(txs[side]) + 1
    IN  /\ txs' = [txs EXCEPT ![side] = Append(@, [msgs |-> msgs, ok |-> ok])]
        /\ succeeded' = ok
        /\ ids' = IF ok
                  THEN [ids EXCEPT ![side] = [i \in DOMAIN @ |->
                           IF i - maxTxCount \in 1..Len(msgs)
                           THEN [tx |-> tx, index |-> i - maxTxCount] ELSE @[i]]]
                  ELSE ids

\* Submits the batch, and writes the identifiers it got, if it got any, at the offset.
SendMsgs(ok) ==
    LET tx == Len(txs[side]) + 1
    IN  /\ txs' = [txs EXCEPT ![side] = Append(@, [msgs |-> msgs, ok |-> ok])]
        /\ succeeded' = (succeeded /\ ok)
        /\ ids' = IF ok
                  THEN [ids EXCEPT ![side] = [i \in DOMAIN @ |->
                           IF i - maxTxCount \in 1..Len(msgs)
                           THEN [tx |-> tx, index |-> i - maxTxCount] ELSE @[i]]]
                  ELSE ids

\* The message fits in the batch.
AddMsg ==
    /\ side \in Sides
    /\ next <= Len(r[side])
    /\ ~IsMaxTx(msgLen + 1, txSize + r[side][next])
    /\ msgs' = Append(msgs, next)
    /\ msgLen' = msgLen + 1
    /\ txSize' = txSize + r[side][next]
    /\ next' = next + 1
    /\ UNCHANGED <<r, side, maxTxCount, ids, succeeded, txs>>

\* Variant with a fault: the batch is not cleared after it was sent.
SendFullBatch_KeepsMsgs ==
    /\ side \in Sides
    /\ next <= Len(r[side])
    /\ IsMaxTx(msgLen + 1, txSize + r[side][next])
    /\ \E ok \in BOOLEAN : SendMsgs(ok)
    /\ maxTxCount' = maxTxCount + Len(msgs)
    /\ msgs' = Append(msgs, next)
    /\ msgLen' = 1
    /\ txSize' = r[side][next]
    /\ next' = next + 1
    /\ UNCHANGED <<r, side>>

\* It does not: the batch is sent, even an empty one, and the message begins the next.
SendFullBatch ==
    /\ side \in Sides
    /\ next <= Len(r[side])
    /\ IsMaxTx(msgLen + 1, txSize + r[side][next])
    /\ \E ok \in BOOLEAN : SendMsgs(ok)
    /\ maxTxCount' = maxTxCount + Len(msgs)
    /\ msgs' = <<next>>
    /\ msgLen' = 1
    /\ txSize' = r[side][next]
    /\ next' = next + 1
    /\ UNCHANGED <<r, side>>

\* Variant with a fault: the next side is indexed from zero.
NextSide_FromZero ==
    /\ side' = IF side = "Src" THEN "Dst" ELSE "done"
    /\ next' = 0
    /\ msgs' = <<>>
    /\ msgLen' = 0
    /\ txSize' = 0
    /\ maxTxCount' = 0
    /\ UNCHANGED r

\* "reset variables" between the two sides.
NextSide ==
    /\ side' = IF side = "Src" THEN "Dst" ELSE "done"
    /\ next' = 1
    /\ msgs' = <<>>
    /\ msgLen' = 0
    /\ txSize' = 0
    /\ maxTxCount' = 0
    /\ UNCHANGED r

SendLeftover ==
    /\ side \in Sides
    /\ next > Len(r[side])
    /\ msgs # <<>>
    /\ \E ok \in BOOLEAN : SendMsgs(ok)
    /\ NextSide

NoLeftover ==
    /\ side \in Sides
    /\ next > Len(r[side])
    /\ msgs = <<>>
    /\ NextSide
    /\ UNCHANGED <<ids, succeeded, txs>>

Return == side = "done" /\ UNCHANGED vars

Next == AddMsg \/ SendFullBatch \/ SendLeftover \/ NoLeftover \/ Return

Spec == Init /\ [][Next]_vars

-----------------------------------------------------------------------------
(* Properties *)

Calls(s) == DOMAIN txs[s]

TypeOK ==
    /\ r \in [Src : Seq(Nat), Dst : Seq(Nat), MaxTxSize : Nat, MaxMsgLength : Nat]
    /\ side \in Sides \cup {"done"}
    /\ next \in Nat \ {0}
    /\ msgs \in Seq(Nat)
    /\ msgLen \in Nat /\ txSize \in Nat /\ maxTxCount \in Nat
    /\ DOMAIN ids = Sides
    /\ \A s \in Sides : ids[s] \in [DOMAIN r[s] -> [tx : Nat, index : Nat]]
    /\ succeeded \in BOOLEAN
    /\ txs \in [Sides -> Seq([msgs : Seq(Nat), ok : BOOLEAN])]

(***************************************************************************)
(* The identifier at position i names message i in a call that succeeded,  *)
(* and messages of calls that failed have none: writing identifiers at     *)
(* i + maxTxCount never shifts them, whatever batches were cut or lost     *)
(* before, so that no caller waits for the events of another message.      *)
(***************************************************************************)
IdsNameTheirMsgs ==
    \A s \in Sides : \A i \in DOMAIN ids[s] :
        /\ ids[s][i] # NoID =>
               /\ ids[s][i].tx \in Calls(s)
               /\ txs[s][ids[s][i].tx].ok
               /\ ids[s][i].index \in DOMAIN txs[s][ids[s][i].tx].msgs
               /\ txs[s][ids[s][i].tx].msgs[ids[s][i].index] = i
        /\ \A k \in Calls(s) : \A p \in DOMAIN txs[s][k].msgs :
               txs[s][k].msgs[p] = i /\ txs[s][k].ok => ids[s][i] = [tx |-> k, index |-> p]

(***************************************************************************)
(* Messages leave in the order of r and none leaves twice: an update of a  *)
(* client stays ahead of the packets that need it across transactions.     *)
(***************************************************************************)
SentInOrder ==
    \A s \in Sides : \A k, l \in Calls(s) :
        \A p \in DOMAIN txs[s][k].msgs, q \in DOMAIN txs[s][l].msgs :
            k < l \/ (k = l /\ p < q) => txs[s][k].msgs[p] < txs[s][l].msgs[q]

(***************************************************************************)
(* When Send returns, every message was submitted, also after a batch that *)
(* failed, and Succeeded says that every call succeeded: no message fell   *)
(* between two batches.                                                    *)
(***************************************************************************)
AllSubmitted ==
    side = "done" =>
        /\ \A s \in Sides : \A i \in DOMAIN r[s] :
               \E k \in Calls(s) : \E p \in DOMAIN txs[s][k].msgs : txs[s][k].msgs[p] = i
        /\ succeeded <=> \A s \in Sides : \A k \in Calls(s) : txs[s][k].ok

\* The size of a batch, summed over its messages.
SizeOf(s, batch) == FoldLeft(LAMBDA sum, i : sum + r[s][i], 0, batch)

Fits(s, batch) ==
    /\ r.MaxMsgLength # 0 => Len(batch) <= r.MaxMsgLength
    /\ r.MaxTxSize # 0 => SizeOf(s, batch) <= r.MaxTxSize

(***************************************************************************)
(* A transaction that bundles messages keeps both limits; it was cut only  *)
(* where the next message would not fit; and a call without messages       *)
(* happens only as the first one, for a first message too large for any    *)
(* transaction.                                                            *)
(***************************************************************************)
BatchesAreGreedy ==
    \A s \in Sides : \A k \in Calls(s) :
        LET batch == txs[s][k].msgs
        IN  /\ Len(batch) > 1 => Fits(s, batch)
            /\ k + 1 \in Calls(s) => ~Fits(s, Append(batch, Head(txs[s][k + 1].msgs)))
            /\ batch = <<>> => k = 1 /\ r.MaxTxSize # 0 /\ r[s][1] > r.MaxTxSize
=============================================================================
