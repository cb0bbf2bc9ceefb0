---------------------------- MODULE FabricRelay ----------------------------
(***************************************************************************)
(* Relaying between a Fabric network ("src", chains/fabric) and a chain    *)
(* with blocks ("dst") by the commands tx relay and tx                     *)
(* relay-acknowledgements (cmd/tx.go), which an operator runs again and    *)
(* again.  The height of the Fabric chain is a sequence that the chaincode *)
(* advances on request; "dst" follows it with the light client of          *)
(* FabricClient.  Another relayer, the governance of the network, lost     *)
(* answers and crashes interfere.                                          *)
(*                                                                         *)
(* The chaincode cc_ibc and the chain "dst" are not part of the            *)
(* repository: the first is modelled from its use in chains/fabric, the    *)
(* second is a chain of IBCChain with instant finality.                    *)
(***************************************************************************)
EXTENDS IBCChain, FabricClient

CONSTANTS
    Orgs,       \* organisations that may be members of the Fabric network
    Founders,   \* the members when the client is created, which its configuration lists
    Movers,     \* the ones governance is about
    Budgets,    \* what the environment may do: [packets, expiries, rivals, gov,
                \* faults, picks]
    MaxHeight,  \* bound on the sequence
    RetryHeight \* bound on it for commands that cannot succeed

ASSUME FabricAssumption ==
    /\ Movers \subseteq Orgs
    /\ IsFiniteSet(Orgs) /\ Founders \subseteq Orgs /\ Founders # {}
    /\ Budgets \subseteq [packets : [Chains -> 0..MaxSeq], expiries : Nat, rivals : Nat,
                          gov : Nat, faults : Nat, picks : Nat]
    /\ MaxHeight \in Nat \ {0}
    /\ RetryHeight \in 0..MaxHeight

VARIABLES
    net,        \* the network: [gen, members, version]
    ledger,     \* stamps of the sequences 1..Len(ledger): the timestamps of the heights
    late,       \* packets of "dst" whose timeout has passed on the Fabric clock
    store,      \* IBC stores of the chains
    client,     \* client state of the Fabric network on "dst"
    cons,       \* its consensus states
    signed,     \* governance messages the members have signed
    rival,      \* client message another relayer holds
    cmd,        \* the running command
    left        \* what remains of the budget

envVars == <<net, late, signed, rival, left>>
vars == <<envVars, ledger, store, client, cons, cmd>>

Sequence == Len(ledger)

\* What a majority of the organisations S agrees on.
Majority(S) == {q \in SUBSET S : 2 * Cardinality(q) > Cardinality(S)}

Signers == {[org |-> o, gen |-> net.gen[o]] : o \in net.members}

Sign(m, signers) == [m EXCEPT !.proof = [over |-> SignBytes(m), signers |-> signers]]

\* An endorsed transaction of the chaincode that writes value at key.
Endorse(key, value) ==
    [over |-> [version |-> net.version, key |-> key, value |-> value], signers |-> Signers]

\* A timestamp: whose clock it is, and the packets that have timed out by then.
Stamp(who) == [by |-> who, late |-> late]

\* AdvanceSequence as the endorsers simulate it, in a client message.
NextHeader(who) ==
    LET sequence == [value |-> Sequence + 1, stamp |-> Stamp(who)]
    IN [sequence |-> sequence, proof |-> Endorse(SequenceCommitmentKey, sequence),
        info |-> None, msps |-> None]

\* Where "src" and "dst" keep what a message of a command proves.
PathOf(kind, n) == <<IF kind = "relay" THEN "commitments" ELSE "acks", n>>

NoLists == [c \in Chains |-> {}]

Idle == [kind |-> "none", pc |-> "idle", pick |-> {}, seq |-> 0, listSeq |-> 0,
         snap |-> EmptyStore, todo |-> {}, list |-> NoLists, timeouts |-> {}, hdr |-> None,
         proofs |-> {}, calm |-> TRUE]

Init ==
    /\ net = [gen |-> [o \in Orgs |-> 1], members |-> Founders, version |-> 1]
    /\ late = {}
    /\ ledger \in {<<>>, <<[by |-> "rival", late |-> {}]>>}
    /\ store = [c \in Chains |-> EmptyStore]
    /\ client = None
    /\ cons = <<>>
    /\ signed = {}
    /\ rival = None
    /\ cmd = Idle
    /\ left \in Budgets

-----------------------------------------------------------------------------
(* The client on "dst" *)

loadChaincodeInfo ==
    [version |-> 1, endorsement |-> Majority(Founders), ibc |-> Majority(Founders), proof |-> None]

loadMSPInfos ==
    LET order == SetToSeq(Founders)
    IN [i \in DOMAIN order |-> [id |-> order[i], config |-> [org |-> order[i], gen |-> 1],
                                policy |-> {{order[i]}}, frozen |-> FALSE]]

\* MsgUpdateClient on "dst".
UpdateClient(msg) ==
    /\ VerifyClientMessage(client, msg)
    /\ client' = UpdateState(client, msg)
    /\ cons' = UpdateConsensusStates(cons, msg)

-----------------------------------------------------------------------------
(* The environment *)

Spend(what) == left[what] > 0 /\ left' = [left EXCEPT ![what] = @ - 1]

\* A command that is running may fail from now on.
Disturb == cmd' = [cmd EXCEPT !.calm = cmd.pc = "idle"]

SendPacket(c) ==
    /\ client # None
    /\ left.packets[c] > 0
    /\ left' = [left EXCEPT !.packets[c] = @ - 1]
    /\ store' = [store EXCEPT ![c].sent = @ \cup {Cardinality(@) + 1}]
    /\ UNCHANGED <<net, late, signed, rival, ledger, client, cons, cmd>>

\* The timeout of a packet to the Fabric network passes.
Expire ==
    /\ Spend("expiries")
    /\ \E n \in store["dst"].sent \ late : late' = late \cup {n}
    /\ Disturb
    /\ UNCHANGED <<net, signed, rival, ledger, store, client, cons>>

RivalAdvance ==
    /\ Sequence < MaxHeight
    /\ Spend("rivals")
    /\ ledger' = Append(ledger, Stamp("rival"))
    /\ rival' = NextHeader("rival")
    /\ Disturb
    /\ UNCHANGED <<net, late, signed, store, client, cons>>

\* The other relayer updates the client, and may deliver a packet or an acknowledgement.
RivalUpdate ==
    /\ rival # None /\ client # None
    /\ UpdateClient(rival)
    /\ rival' = None
    /\ \/ UNCHANGED store
       \/ \E n \in Commitments(store["src"]) \ store["dst"].recv :
              store' = [store EXCEPT !["dst"].recv = @ \cup {n}]
       \/ \E n \in store["src"].recv \cap Commitments(store["dst"]) :
              store' = [store EXCEPT !["dst"].acked = @ \cup {n}]
    /\ Disturb
    /\ UNCHANGED <<net, late, signed, left, ledger>>

RivalToFabric ==
    /\ Spend("rivals")
    /\ \/ \E n \in Commitments(store["dst"]) \ (store["src"].recv \cup late) :
              store' = [store EXCEPT !["src"].recv = @ \cup {n}]
       \/ \E n \in store["dst"].recv \cap Commitments(store["src"]) :
              store' = [store EXCEPT !["src"].acked = @ \cup {n}]
    /\ Disturb
    /\ UNCHANGED <<net, late, signed, rival, ledger, client, cons>>

NewMSPHeader(type, o, config, policy) ==
    [type |-> type, id |-> o, config |-> config, policy |-> policy, proof |-> None]

\* Governance changes the network; the members of before sign the message about it.
Publish(m, by) ==
    /\ client # None
    /\ Spend("gov")
    /\ signed' = signed \cup {Sign(m, {s \in Signers : s.org \in by})}
    /\ Disturb
    /\ UNCHANGED <<late, rival, ledger, store, client, cons>>

Rotate(o) ==
    /\ o \in net.members
    /\ Publish(NewMSPHeader("UPDATE_CONFIG", o, [org |-> o, gen |-> net.gen[o] + 1], {}), Orgs)
    /\ net' = [net EXCEPT !.gen[o] = @ + 1]

Repolicy(o) ==
    /\ o \in net.members
    /\ Publish(NewMSPHeader("UPDATE_POLICY", o, None, Majority(net.members)), Orgs)
    /\ UNCHANGED net

Expel(o) ==
    /\ o \in net.members
    /\ Publish(NewMSPHeader("FREEZE", o, None, {}), Orgs \ {o})
    /\ net' = [net EXCEPT !.members = @ \ {o}]

Join(o) ==
    /\ o \notin net.members
    /\ Publish(NewMSPHeader("CREATE", o, [org |-> o, gen |-> net.gen[o] + 1], {{o}}), Orgs)
    /\ net' = [net EXCEPT !.gen[o] = @ + 1, !.members = @ \cup {o}]

Upgrade ==
    /\ Publish([version |-> net.version + 1, endorsement |-> Majority(net.members),
                ibc |-> Majority(net.members), proof |-> None], Orgs)
    /\ net' = [net EXCEPT !.version = @ + 1]

IsInfo(m) == "version" \in DOMAIN m

\* Bound on the MSP headers of one client message.
MaxHeaders == 2

\* Signed messages reach the client in any order, several in one, and more than once, in
\* one message too.
Deliver ==
    /\ client # None
    /\ \E info \in {None} \cup {m \in signed : IsInfo(m)},
          msps \in {None} \cup
                  {[headers |-> h] : h \in BoundedSeq({m \in signed : ~IsInfo(m)}, MaxHeaders)} :
           /\ UpdateClient([sequence |-> None, proof |-> None, info |-> info, msps |-> msps])
           /\ client' # client
    /\ Disturb
    /\ UNCHANGED <<envVars, ledger, store>>

-----------------------------------------------------------------------------
(* The commands *)

Fault == Spend("faults") /\ UNCHANGED <<net, late, signed, rival>>

\* The command returns an error before it sent anything, or an error of Send is logged.
Failed == [cmd EXCEPT !.pc = "failed"]

Running == cmd.pc \notin {"idle", "failed"}

\* A packet that has timed out is waiting to be received.
Outdated == \E n \in late : n \in Commitments(store["dst"]) \ store["src"].recv

\* The client believes what the network endorses.
Follows ==
    /\ client # None
    /\ client.info.version = net.version
    /\ EvaluateSignedData(client.info.endorsement, Signers, client.infos)

(***************************************************************************)
(* tx clients: CreateInitialLightClientState and MsgCreateClient.  The     *)
(* sequence is queried, advanced if it is still zero, and then queried     *)
(* again; the rival may advance it in between.                             *)
(***************************************************************************)
BeginCreate ==
    /\ client = None
    /\ ~Running
    /\ cmd' = [Idle EXCEPT !.kind = "create", !.seq = Sequence,
                           !.pc = IF Sequence = 0 THEN "first" ELSE "install"]
    /\ UNCHANGED <<envVars, ledger, store, client, cons>>

EndorseFirst ==
    /\ cmd.pc = "first"
    /\ cmd' = [cmd EXCEPT !.pc = "commit", !.hdr = NextHeader("us")]
    /\ UNCHANGED <<envVars, ledger, store, client, cons>>

QueryFirst ==
    /\ cmd.pc = "second"
    /\ cmd' = [cmd EXCEPT !.pc = "install", !.seq = Sequence]
    /\ UNCHANGED <<envVars, ledger, store, client, cons>>

CreateClient ==
    /\ cmd.pc = "install"
    /\ LET cs == NewClientState([value |-> cmd.seq, stamp |-> ledger[cmd.seq]],
                                loadChaincodeInfo, loadMSPInfos)
       IN /\ Validate(cs)
          /\ client' = cs
          /\ cons' = Initialize(cs)
    /\ cmd' = Idle
    /\ UNCHANGED <<envVars, ledger, store>>

\* Variant with a fault: the header is dated to the next sequence.
Begin_Next(kind, pick) ==
    /\ client # None
    /\ ~Running
    /\ Sequence < IF Outdated \/ ~Follows THEN RetryHeight ELSE MaxHeight
    /\ cmd' = [Idle EXCEPT !.kind = kind, !.pc = "headers", !.pick = pick, !.seq = Sequence + 1,
                           !.calm = pick = {}]
    /\ IF pick = {} THEN UNCHANGED left ELSE Spend("picks")
    /\ UNCHANGED <<net, late, signed, rival, ledger, store, client, cons>>

\* NewSyncHeaders: the current sequence, then the finalized header of "dst".  pick is the
\* flag src-seqs; without it everything is relayed.
Begin(kind, pick) ==
    /\ client # None
    /\ ~Running
    /\ Sequence < IF Outdated \/ ~Follows THEN RetryHeight ELSE MaxHeight
    /\ cmd' = [Idle EXCEPT !.kind = kind, !.pc = "headers", !.pick = pick, !.seq = Sequence,
                           !.calm = pick = {}]
    /\ IF pick = {} THEN UNCHANGED left ELSE Spend("picks")
    /\ UNCHANGED <<net, late, signed, rival, ledger, store, client, cons>>

GetLatestFinalizedHeader ==
    /\ cmd.pc = "headers"
    /\ cmd' = [cmd EXCEPT !.pc = "lists", !.snap = store["dst"], !.todo = Chains]
    /\ UNCHANGED <<envVars, ledger, store, client, cons>>

\* Variant with a fault: nothing the Fabric network sent is ever found.
QueryUnfinalizedRelayPackets_Nil(src, lost) == {}

\* Every packet ever sent, or received, is looked at; the ones whose query fails are skipped.
QueryUnfinalizedRelayPackets(src, lost) == src.sent \ lost

QueryUnfinalizedRelayAcknowledgements(src, lost) == src.recv \ lost

\* The commitment of each packet is proved; an error is taken for its absence.
QueryUnreceivedAcknowledgements(src, S, lost) == (S \cap Commitments(src)) \ lost

\* A query about one packet may fail, which is not reported.
MayLose(lost) == IF lost = {} THEN UNCHANGED envVars ELSE Fault

Losses == {{}} \cup {{n} : n \in Seqs}

\* The first errgroup of UnrelayedPackets and UnrelayedAcknowledgements is over when each
\* chain has been asked; the second one asks both again.
Wait(next) ==
    cmd' = IF next.todo # {} THEN next
           ELSE [next EXCEPT !.pc = IF next.kind = "relay" THEN "metrics" ELSE "filter",
                             !.todo = Chains]

\* What the Fabric network has sent or received, and its sequence; "dst" is asked next.
ListSrc(lost) ==
    /\ cmd.pc = "lists" /\ "src" \in cmd.todo
    /\ MayLose(lost)
    /\ lost \subseteq IF cmd.kind = "relay" THEN store["src"].sent ELSE store["src"].recv
    /\ cmd' = [cmd EXCEPT !.todo = (@ \ {"src"}) \cup {"ask"}, !.listSeq = Sequence,
                          !.calm = @ /\ lost = {},
                          !.list["src"] = IF cmd.kind = "relay"
                             THEN QueryUnfinalizedRelayPackets(store["src"], lost)
                             ELSE QueryUnfinalizedRelayAcknowledgements(store["src"], lost)]
    /\ UNCHANGED <<ledger, store, client, cons>>

\* The counterparty tells what of it is missing.
AskDst ==
    /\ cmd.pc = "lists" /\ "ask" \in cmd.todo
    /\ Wait([cmd EXCEPT !.todo = @ \ {"ask"},
                        !.list["src"] = IF cmd.kind = "relay"
                                        THEN UnreceivedPackets(store["dst"], @)
                                        ELSE UnreceivedAcks(store["dst"], @)])
    /\ UNCHANGED <<envVars, ledger, store, client, cons>>

\* "dst" is asked at its header's height, and then the Fabric network.
ListDst(lost) ==
    /\ cmd.pc = "lists" /\ "dst" \in cmd.todo
    /\ MayLose(lost)
    /\ lost # {} => cmd.kind = "acks" /\ lost \subseteq cmd.snap.recv
    /\ Wait([cmd EXCEPT !.todo = @ \ {"dst"}, !.calm = @ /\ lost = {},
                        !.list["dst"] = IF cmd.kind = "relay"
                           THEN UnreceivedPackets(store["src"], Commitments(cmd.snap))
                           ELSE QueryUnreceivedAcknowledgements(store["src"], cmd.snap.recv, lost)])
    /\ UNCHANGED <<ledger, store, client, cons>>

\* Timestamp knows the current sequence only.
HasTimestamp(seq) == seq = Sequence

\* tryFilterRelayPackets: what was picked has to be on the list.
Picked(list) == IF cmd.pick = {} THEN list ELSE list \cap cmd.pick

TryFilterRelayPackets(next) ==
    cmd' = IF cmd.pick \subseteq next.list["src"]
           THEN [next EXCEPT !.pc = "advance", !.list["src"] = Picked(@)]
           ELSE [next EXCEPT !.pc = "failed"]

updateBacklogMetrics ==
    /\ cmd.pc = "metrics"
    /\ cmd' = IF cmd.list["src"] # {} /\ ~HasTimestamp(cmd.listSeq)
              THEN Failed ELSE [cmd EXCEPT !.pc = "filter"]
    /\ UNCHANGED <<envVars, ledger, store, client, cons>>

\* The second errgroup: the filters at the latest heights.
Filtered(next) ==
    IF next.todo # {} THEN cmd' = next
    ELSE IF next.kind = "relay" THEN cmd' = [next EXCEPT !.pc = "timeouts"]
    ELSE TryFilterRelayPackets(next)

FilterSrc ==
    /\ cmd.pc = "filter" /\ "src" \in cmd.todo
    /\ Filtered([cmd EXCEPT !.todo = @ \ {"src"},
                            !.list["src"] = IF cmd.kind = "relay"
                                            THEN UnreceivedPackets(store["dst"], @)
                                            ELSE UnreceivedAcks(store["dst"], @)])
    /\ UNCHANGED <<envVars, ledger, store, client, cons>>

FilterDst(lost) ==
    /\ cmd.pc = "filter" /\ "dst" \in cmd.todo
    /\ MayLose(lost)
    /\ lost # {} => cmd.kind = "acks" /\ lost \subseteq cmd.list["dst"]
    /\ Filtered([cmd EXCEPT !.todo = @ \ {"dst"}, !.calm = @ /\ lost = {},
                            !.list["dst"] = IF cmd.kind = "relay"
                               THEN UnreceivedPackets(store["src"], @)
                               ELSE QueryUnreceivedAcknowledgements(store["src"], @, lost)])
    /\ UNCHANGED <<ledger, store, client, cons>>

\* Packets to "dst" carry no timeout; the others are judged by the sequence's timestamp.
ProcessTimeoutPackets ==
    /\ cmd.pc = "timeouts"
    /\ IF cmd.list["dst"] # {} /\ ~HasTimestamp(cmd.seq)
       THEN cmd' = Failed
       ELSE TryFilterRelayPackets([cmd EXCEPT
               !.timeouts = cmd.list["dst"] \cap Last(ledger).late,
               !.list["dst"] = @ \ Last(ledger).late])
    /\ UNCHANGED <<envVars, ledger, store, client, cons>>

NeedsClientUpdate == cmd.list["src"] # {} \/ cmd.timeouts # {}

\* UpdateClients towards "dst": SetupHeadersForUpdate has AdvanceSequence endorsed.
SetupHeadersForUpdate ==
    /\ cmd.pc = "advance"
    /\ cmd' = IF NeedsClientUpdate THEN [cmd EXCEPT !.pc = "commit", !.hdr = NextHeader("us")]
                                   ELSE [cmd EXCEPT !.pc = "sendSrc"]
    /\ UNCHANGED <<envVars, ledger, store, client, cons>>

\* Variant with a fault: an invalidated transaction counts as committed.
CommitSequence_Unchecked ==
    /\ cmd.pc = "commit"
    /\ IF Sequence + 1 = cmd.hdr.sequence.value
       THEN ledger' = Append(ledger, cmd.hdr.sequence.stamp)
       ELSE UNCHANGED ledger
    /\ cmd' = [cmd EXCEPT !.pc = IF cmd.kind = "create" THEN "second" ELSE "prove"]
    /\ UNCHANGED <<envVars, store, client, cons>>

\* submit: the transaction is invalid when the sequence moved since it was endorsed.
CommitSequence ==
    /\ cmd.pc = "commit"
    /\ IF Sequence + 1 = cmd.hdr.sequence.value
       THEN /\ ledger' = Append(ledger, cmd.hdr.sequence.stamp)
            /\ cmd' = [cmd EXCEPT !.pc = IF cmd.kind = "create" THEN "second" ELSE "prove"]
       ELSE /\ cmd' = Failed
            /\ UNCHANGED ledger
    /\ UNCHANGED <<envVars, store, client, cons>>

\* Submitting fails, or its outcome stays unknown.
CommitLost ==
    /\ cmd.pc = "commit"
    /\ Fault
    /\ \/ UNCHANGED ledger
       \/ /\ Sequence + 1 = cmd.hdr.sequence.value
          /\ ledger' = Append(ledger, cmd.hdr.sequence.stamp)
    /\ cmd' = [Failed EXCEPT !.calm = FALSE]
    /\ UNCHANGED <<store, client, cons>>

Unproved == cmd.list["src"] \ {p.n : p \in cmd.proofs}

\* What the chaincode holds for the message about n, if anything.
Provable(n) == IF cmd.kind = "relay" THEN n \in Commitments(store["src"])
                                     ELSE n \in store["src"].recv

(***************************************************************************)
(* ProveState for the messages to "dst", one after the other.  Timeouts    *)
(* come last; absence cannot be proved: ProveCommitment fails on an absent *)
(* key, which is what QueryUnreceivedAcknowledgements relies on.           *)
(***************************************************************************)
ProveCommitment ==
    /\ cmd.pc = "prove"
    /\ IF Unproved = {}
       THEN cmd' = IF cmd.timeouts = {} THEN [cmd EXCEPT !.pc = "sendSrc"] ELSE Failed
       ELSE LET n == Min(Unproved)
                key == fabricLedgerKey(PathOf(cmd.kind, n))
            IN cmd' = IF Provable(n)
                      THEN [cmd EXCEPT !.pc = "height",
                              !.proofs = @ \cup {[n |-> n, height |-> 0,
                                                  proof |-> Endorse(key, n)]}]
                      ELSE Failed
    /\ UNCHANGED <<envVars, ledger, store, client, cons>>

\* Variant with a fault: a proof is dated to the next sequence.
QueryProofHeight_Next ==
    /\ cmd.pc = "height"
    /\ cmd' = [cmd EXCEPT !.pc = "prove",
                 !.proofs = {IF p.height = 0 THEN [p EXCEPT !.height = Sequence + 1] ELSE p : p \in @}]
    /\ UNCHANGED <<envVars, ledger, store, client, cons>>

\* The height of the proof is the sequence at the time of a second query.
QueryProofHeight ==
    /\ cmd.pc = "height"
    /\ cmd' = [cmd EXCEPT !.pc = "prove",
                 !.proofs = {IF p.height = 0 THEN [p EXCEPT !.height = Sequence] ELSE p : p \in @}]
    /\ UNCHANGED <<envVars, ledger, store, client, cons>>

(***************************************************************************)
(* Send to the Fabric network: a transaction per message; the first error  *)
(* ends SendMsgs but not the command.  Messages whose effect is there      *)
(* already are no-ops, and a packet that is late is refused.               *)
(***************************************************************************)
SendToSrc ==
    /\ cmd.pc = "sendSrc"
    /\ IF cmd.list["dst"] = {}
       THEN cmd' = [cmd EXCEPT !.pc = "sendDst"] /\ UNCHANGED store
       ELSE LET n == Min(cmd.list["dst"])
            IN IF cmd.kind = "relay" /\ n \in late \ store["src"].recv
               THEN /\ cmd' = [cmd EXCEPT !.pc = "sendDst", !.calm = FALSE]
                    /\ UNCHANGED store
               ELSE /\ cmd' = [cmd EXCEPT !.list["dst"] = @ \ {n}]
                    /\ store' = IF cmd.kind = "relay"
                                THEN [store EXCEPT !["src"].recv = @ \cup {n}]
                                ELSE [store EXCEPT !["src"].acked =
                                        @ \cup ({n} \cap Commitments(store["src"]))]
    /\ UNCHANGED <<envVars, ledger, client, cons>>

\* The answer of a transaction is lost, or the transaction is; the rest is not sent.
SendToSrcLost ==
    /\ cmd.pc = "sendSrc"
    /\ cmd.list["dst"] # {}
    /\ Fault
    /\ LET n == Min(cmd.list["dst"])
       IN \/ UNCHANGED store
          \/ /\ cmd.kind = "relay" /\ n \notin late
             /\ store' = [store EXCEPT !["src"].recv = @ \cup {n}]
          \/ /\ cmd.kind = "acks" /\ n \in Commitments(store["src"])
             /\ store' = [store EXCEPT !["src"].acked = @ \cup {n}]
    /\ cmd' = [cmd EXCEPT !.pc = "sendDst", !.calm = FALSE]
    /\ UNCHANGED <<ledger, client, cons>>

\* A message about n is verified with the client as the update left it.
Verified(cs, p) ==
    \/ cmd.kind = "acks" /\ p.n \notin Commitments(store["dst"])
    \/ VerifyMembership(cs, p.height, p.proof, PathOf(cmd.kind, p.n), p.n)

\* Send to "dst": one transaction, of which all or nothing takes effect.
SendToDst ==
    /\ cmd.pc = "sendDst"
    /\ IF cmd.hdr = None
       THEN cmd' = Idle /\ UNCHANGED <<store, client, cons>>
       ELSE \/ /\ UpdateClient(cmd.hdr)
               /\ \A p \in cmd.proofs : Verified(client', p)
               /\ LET S == {p.n : p \in cmd.proofs}
                  IN store' = IF cmd.kind = "relay"
                              THEN [store EXCEPT !["dst"].recv = @ \cup S]
                              ELSE [store EXCEPT !["dst"].acked =
                                      @ \cup (S \cap Commitments(store["dst"]))]
               /\ cmd' = Idle
            \/ /\ ~(/\ VerifyClientMessage(client, cmd.hdr)
                    /\ \A p \in cmd.proofs : Verified(UpdateState(client, cmd.hdr), p))
               /\ cmd' = Failed
               /\ UNCHANGED <<store, client, cons>>
    /\ UNCHANGED <<envVars, ledger>>

\* An RPC fails, or the process dies; what was sent stays sent.
Abort ==
    /\ Running
    /\ Fault
    /\ cmd' = [Failed EXCEPT !.calm = FALSE]
    /\ UNCHANGED <<ledger, store, client, cons>>

CommandStep ==
    \/ EndorseFirst \/ QueryFirst \/ CreateClient
    \/ GetLatestFinalizedHeader \/ AskDst \/ updateBacklogMetrics \/ FilterSrc
    \/ \E lost \in Losses : ListSrc(lost) \/ ListDst(lost) \/ FilterDst(lost)
    \/ ProcessTimeoutPackets \/ SetupHeadersForUpdate
    \/ CommitSequence \/ ProveCommitment \/ QueryProofHeight \/ SendToSrc \/ SendToDst

\* The bound on the sequence is reached: the model ends here.
Exhausted ==
    /\ client # None
    /\ ~Running
    /\ Sequence >= IF Outdated \/ ~Follows THEN RetryHeight ELSE MaxHeight
    /\ UNCHANGED vars

Next ==
    \/ BeginCreate
    \/ \E c \in Chains : SendPacket(c)
    \/ Expire \/ RivalAdvance \/ RivalUpdate \/ RivalToFabric
    \/ \E o \in Movers : Rotate(o) \/ Repolicy(o) \/ Expel(o) \/ Join(o)
    \/ Upgrade \/ Deliver
    \/ \E kind \in {"relay", "acks"}, pick \in {{}} \cup {{n} : n \in Seqs} : Begin(kind, pick)
    \/ CommandStep
    \/ CommitLost \/ SendToSrcLost \/ Abort
    \/ Exhausted

\* A command that runs goes on; the operator runs both commands again and again.
Fairness ==
    /\ WF_vars(BeginCreate)
    /\ WF_vars(CommandStep)
    /\ \A kind \in {"relay", "acks"} : SF_vars(Begin(kind, {}))

Spec == Init /\ [][Next]_vars /\ Fairness

-----------------------------------------------------------------------------
(* Properties *)

Stamps == [by : {"us", "rival"}, late : SUBSET Seqs]

\* The state of the network, the ledger, the stores and the command.  A command that has
\* begun goes on when the sequence has reached its bound.
TypeOK ==
    /\ net \in [gen : [Orgs -> Nat], members : SUBSET Orgs, version : Nat]
    /\ late \in SUBSET Seqs
    /\ ledger \in Seq(Stamps) /\ Sequence <= MaxHeight + 1
    /\ store \in [Chains -> Store]
    /\ cmd.kind \in {"none", "create", "relay", "acks"}
    /\ cmd.pc \in {"idle", "first", "second", "install", "headers", "lists", "metrics", "filter",
                   "timeouts", "advance", "commit", "prove", "height", "sendSrc", "sendDst",
                   "failed"}
    /\ cmd.todo \subseteq {"src", "ask", "dst"}
    /\ cmd.seq \in 0..Sequence /\ cmd.listSeq \in 0..Sequence
    /\ \A p \in cmd.proofs : p.n \in Seqs /\ p.height \in Nat
    /\ cmd.list \in [Chains -> SUBSET Seqs] /\ cmd.timeouts \in SUBSET Seqs
    /\ DOMAIN cons \subseteq 1..Sequence

(***************************************************************************)
(* "dst" has a consensus state only for sequences the ledger committed,    *)
(* and with the committed timestamp: an endorsement of AdvanceSequence     *)
(* that lost against a concurrent one, or never was submitted, is no       *)
(* height, although its endorsers signed it.                               *)
(***************************************************************************)
HeightsCommitted ==
    client # None =>
        \A h \in DOMAIN cons : h \in DOMAIN ledger /\ cons[h] = ledger[h]

Counts(cs, o) == \E c \in TrustedConfigs(cs.infos) : c.org = o

InfosOf(cs, o) == {i \in DOMAIN cs.infos : cs.infos[i].id = o}

(***************************************************************************)
(* A frozen info stays frozen, and its organisation is not created again:  *)
(* not by a CREATE that was signed before the freeze and not by one signed *)
(* after it, whatever travels in the same message.  If the frozen info is  *)
(* the only one of the organisation, its signatures never count again.     *)
(***************************************************************************)
FrozenForever ==
    [][client # None =>
        \A i \in DOMAIN client.infos : client.infos[i].frozen =>
            LET o == client.infos[i].id
            IN /\ client'.infos[i].frozen
               /\ InfosOf(client', o) = InfosOf(client, o)
               /\ InfosOf(client, o) = {i} => ~Counts(client', o)]_client

\* An organisation has one info: a second CREATE is refused with "already created"
\* (verifyMSPCreate).
CreatedOnce ==
    client # None =>
        \A i, j \in DOMAIN client.infos : client.infos[i].id = client.infos[j].id => i = j

(***************************************************************************)
(* A command fails, or has its transaction refused, only when something    *)
(* interfered with it or a packet that timed out is on the list: alone,    *)
(* the height it advances to is the height of its proofs and the next one  *)
(* for the client.  Creating the client does not fail alone.               *)
(***************************************************************************)
CleanWithoutInterference ==
    cmd.pc = "failed" /\ cmd.calm => client # None /\ (Outdated \/ ~Follows)

(***************************************************************************)
(* Every packet is received and acknowledged in the end, through lost      *)
(* answers, crashes and another relayer, unless the client cannot follow   *)
(* the network or a packet to the Fabric network has timed out: that one   *)
(* cannot be proved absent, and tx relay fails as a whole.                 *)
(***************************************************************************)
EventuallyAcked ==
    \A c \in Chains, n \in Seqs :
        n \in store[c].sent ~> (n \in store[c].acked \/ Outdated \/ ~Follows)
=============================================================================
