------------------------- MODULE FabricRelay_proofs -------------------------
(***************************************************************************)
(* Proofs about FabricRelay, for every set of organisations, every number  *)
(* of packets and heights and every budget of the environment.             *)
(*                                                                         *)
(* A header is endorsed before its sequence is committed, by the command   *)
(* and by the rival.  The proofs follow a header from its endorsement to   *)
(* the client: one that can still be sent has been committed, with the     *)
(* timestamp it carries.                                                   *)
(***************************************************************************)
EXTENDS FabricRelay, SequenceTheorems, FiniteSetTheorems, WellFoundedInduction, TLAPS

-----------------------------------------------------------------------------
(* What holds of a command and of a header *)

CmdFields == {"kind", "pc", "pick", "seq", "listSeq", "snap", "todo", "list", "timeouts", "hdr",
              "proofs", "calm"}

Pcs == {"idle", "first", "second", "install", "headers", "lists", "metrics", "filter",
        "timeouts", "advance", "commit", "prove", "height", "sendSrc", "sendDst", "failed"}

\* A command before it has committed a sequence, and one that has, or needs none.
Before == {"first", "headers", "lists", "metrics", "filter", "timeouts", "advance"}
After == {"prove", "height", "sendSrc", "sendDst"}

\* The sequence of a client message is on the ledger l, with the message's timestamp.
Committed(m, l) ==
    m # None /\ m.sequence # None =>
        m.sequence.value \in DOMAIN l /\ l[m.sequence.value] = m.sequence.stamp

\* A proof of the command: of packet n, dated once its height was asked for.
ProofOK(p) == DOMAIN p = {"n", "height", "proof"} /\ p.n \in Seqs /\ p.height \in Nat

\* The command c, on the ledger l.
CmdOK(c, l) ==
    /\ DOMAIN c = CmdFields
    /\ c.kind \in {"none", "create", "relay", "acks"}
    /\ c.pc \in Pcs
    /\ c.todo \subseteq {"src", "ask", "dst"}
    /\ c.seq \in 0..Len(l) /\ c.listSeq \in 0..Len(l)
    /\ c.snap \in Store
    /\ c.list \in [Chains -> SUBSET Seqs] /\ c.timeouts \in SUBSET Seqs
    /\ \A p \in c.proofs : ProofOK(p)
    /\ c.pc \in Before => c.hdr = None
    /\ c.pc = "commit" => c.hdr.sequence.value \in Nat /\ c.hdr.sequence.stamp \in Stamps
    /\ c.pc \in After => Committed(c.hdr, l)
    /\ c.pc \in Before \cup {"commit"} => Len(l) <= MaxHeight
    /\ c.pc = "second" => Len(l) > 0
    /\ c.pc = "install" => c.seq > 0

\* The client's heights are on the ledger l.
HeightsOn(l, states) == \A h \in DOMAIN states : h \in DOMAIN l /\ states[h] = l[h]

LedgerOK == ledger \in Seq(Stamps) /\ Sequence <= MaxHeight + 1

NetOK == net \in [gen : [Orgs -> Nat], members : SUBSET Orgs, version : Nat]

LeftOK ==
    left \in [packets : [Chains -> Nat], expiries : Nat, rivals : Nat, gov : Nat, faults : Nat,
              picks : Nat]

\* Packets are numbered from 1, and the budget ends with the last number.
SentOK ==
    \A c \in Chains : \E k \in Nat : store[c].sent = 1..k /\ k + left.packets[c] <= MaxSeq

StoreOK == store \in [Chains -> Store] /\ SentOK

HeightInv ==
    /\ NetOK /\ LeftOK /\ StoreOK /\ LedgerOK
    /\ late \in SUBSET Seqs
    /\ CmdOK(cmd, ledger)
    /\ Committed(rival, ledger)
    /\ HeightsOn(ledger, cons)

-----------------------------------------------------------------------------

\* The least of a set of numbers is one of them.
LEMMA MinOf ==
    ASSUME NEW S \in SUBSET Nat, S # {}
    PROVE  Min(S) \in S
<1> DEFINE Least(x) == \A y \in S : x <= y
<1>1. PICK x \in S : \A y \in S : ~ (<<y, x>> \in OpToRel(<, Nat))
  BY NatLessThanWellFounded, WFMin, Zenon
<1>2. Least(x)
  <2>1. ASSUME NEW a \in Nat, NEW b \in Nat, b < a
        PROVE  <<b, a>> \in {ss \in Nat \X Nat : ss[1] < ss[2]}
    BY <2>1
  <2>2. \A a, b \in Nat : b < a => <<b, a>> \in OpToRel(<, Nat)
    BY <2>1, Zenon DEF OpToRel
  <2>3. \A y \in S : ~ (y < x)
    BY <1>1, <2>2
  <2> QED
    BY <2>3
<1>3. (CHOOSE z \in S : Least(z)) \in S
  <2> HIDE DEF Least
  <2> QED
    BY <1>2
<1> QED
  BY <1>3, Zenon DEF Min

\* The ledger after one more sequence.
LEMMA LedgerGrows ==
    ASSUME LedgerOK, NEW s \in Stamps
    PROVE  /\ Append(ledger, s) \in Seq(Stamps) /\ Len(Append(ledger, s)) = Len(ledger) + 1
           /\ Len(ledger) \in Nat /\ DOMAIN ledger = 1..Len(ledger)
           /\ DOMAIN Append(ledger, s) = 1..(Len(ledger) + 1)
           /\ \A i \in DOMAIN ledger : Append(ledger, s)[i] = ledger[i]
           /\ Append(ledger, s)[Len(ledger) + 1] = s
  BY DEF LedgerOK

\* What is committed stays so.
LEMMA CommittedKept ==
    ASSUME LedgerOK, NEW s \in Stamps, NEW m, Committed(m, ledger)
    PROVE  Committed(m, Append(ledger, s))
  BY LedgerGrows DEF Committed

\* A further sequence on the ledger leaves the heights of the client as they are.
LEMMA HeightsKept ==
    ASSUME LedgerOK, NEW s \in Stamps, HeightsOn(ledger, cons)
    PROVE  HeightsOn(Append(ledger, s), cons)
  BY LedgerGrows DEF HeightsOn

\* A command that is running when somebody else advances the sequence.
LEMMA CmdKept ==
    ASSUME LedgerOK, NEW s \in Stamps, CmdOK(cmd, ledger),
           cmd.pc \in Before \cup {"commit"} => Len(ledger) < MaxHeight
    PROVE  CmdOK(cmd, Append(ledger, s))
<1>1. /\ Len(Append(ledger, s)) = Len(ledger) + 1 /\ Len(ledger) \in Nat
      /\ cmd.pc \in After => Committed(cmd.hdr, Append(ledger, s))
  BY LedgerGrows, CommittedKept DEF CmdOK
<1> QED
  BY <1>1, FabricAssumption DEF CmdOK

\* calm is of no concern here.
LEMMA CmdCalm ==
    ASSUME NEW l, CmdOK(cmd, l), Disturb
    PROVE  CmdOK(cmd', l) /\ cmd'.pc = cmd.pc
  BY DEF CmdOK, CmdFields, Disturb

\* Spending of the budget.
LEMMA SpendOK ==
    ASSUME LeftOK, NEW what \in {"expiries", "rivals", "gov", "faults", "picks"}, Spend(what)
    PROVE  LeftOK' /\ left'.packets = left.packets
  BY DEF LeftOK, Spend

\* The client and its heights after a message whose sequence is committed.
LEMMA UpdateHeights ==
    ASSUME NEW m, m # None, Committed(m, ledger), HeightsOn(ledger, cons), UpdateClient(m)
    PROVE  HeightsOn(ledger, cons')
  BY DEF UpdateClient, UpdateConsensusStates, HeightsOn, Committed

\* A header that is endorsed now.
LEMMA NextHeaderOK ==
    ASSUME LedgerOK, late \in SUBSET Seqs, NEW who \in {"us", "rival"}
    PROVE  /\ Stamp(who) \in Stamps
           /\ NextHeader(who).sequence.value = Len(ledger) + 1
           /\ NextHeader(who).sequence.stamp = Stamp(who)
           /\ Committed(NextHeader(who), Append(ledger, Stamp(who)))
<1>1. Stamp(who) \in Stamps
  BY DEF Stamp, Stamps
<1>2. /\ NextHeader(who).sequence.value = Len(ledger) + 1
      /\ NextHeader(who).sequence.stamp = Stamp(who)
  BY DEF NextHeader, Sequence
<1> QED
  BY <1>1, <1>2, LedgerGrows DEF Committed

\* What the stores and the lists of a command are made of.
LEMMA StoreFacts ==
    ASSUME NEW s \in Store
    PROVE  /\ Commitments(s) \in SUBSET Seqs /\ s.sent \in SUBSET Seqs /\ s.recv \in SUBSET Seqs
           /\ s.acked \in SUBSET Seqs
           /\ \A S \in SUBSET Seqs : UnreceivedPackets(s, S) \in SUBSET Seqs
           /\ \A S : UnreceivedAcks(s, S) \in SUBSET Seqs
           /\ \A S, lost : QueryUnreceivedAcknowledgements(s, S, lost) \in SUBSET Seqs
           /\ Seqs \in SUBSET Nat
<1>1. Commitments(s) \in SUBSET Seqs /\ s.sent \in SUBSET Seqs /\ s.recv \in SUBSET Seqs
      /\ s.acked \in SUBSET Seqs
  BY DEF Store, Commitments
<1>2. Seqs \in SUBSET Nat
  BY ChainAssumption DEF Seqs
<1> QED
  BY <1>1, <1>2 DEF UnreceivedPackets, UnreceivedAcks, QueryUnreceivedAcknowledgements

-----------------------------------------------------------------------------
(* The environment *)

\* In the beginning the sequence is 0 or 1.
LEMMA HeightInit == Init => HeightInv
<1> SUFFICES ASSUME Init PROVE HeightInv
  OBVIOUS
<1>0. FabricAssumption /\ ChainAssumption
  BY FabricAssumption, ChainAssumption
<1>1. NetOK /\ LeftOK /\ late \in SUBSET Seqs
  <2>1. left \in [packets : [Chains -> 0..MaxSeq], expiries : Nat, rivals : Nat,
                  gov : Nat, faults : Nat, picks : Nat]
    BY FabricAssumption DEF Init
  <2>2. 0..MaxSeq \subseteq Nat
    BY ChainAssumption
  <2>3. LeftOK /\ left.packets \in [Chains -> 0..MaxSeq]
    BY <2>1, <2>2 DEF LeftOK
  <2> QED
    BY <2>3, FabricAssumption DEF Init, NetOK
<1>2. \A c \in Chains : left.packets[c] \in 0..MaxSeq
  BY FabricAssumption DEF Init
<1>3. StoreOK
  <2>1. store \in [Chains -> Store] /\ \A c \in Chains : store[c].sent = {}
    BY DEF Init, EmptyStore, Store
  <2>2. {} = 1..0 /\ 0 \in Nat
    OBVIOUS
  <2>3. \A c \in Chains : store[c].sent = 1..0 /\ 0 + left.packets[c] <= MaxSeq
    BY <1>2, <2>1, <2>2, ChainAssumption
  <2>4. SentOK
    BY <2>2, <2>3 DEF SentOK
  <2> QED
    BY <2>1, <2>4 DEF StoreOK
<1>4. LedgerOK /\ Len(ledger) \in Nat /\ Len(ledger) <= MaxHeight
  <2>1. [by |-> "rival", late |-> {}] \in Stamps
    BY DEF Stamps
  <2>2. CASE ledger = <<>>
    BY <2>2, FabricAssumption DEF LedgerOK, Sequence
  <2>3. CASE ledger = <<[by |-> "rival", late |-> {}]>>
    <3> DEFINE st == [by |-> "rival", late |-> {}]
    <3> HIDE DEF st
    <3>1. ledger = <<st>> /\ st \in Stamps
      BY <2>1, <2>3 DEF st
    <3>2. ledger \in Seq(Stamps) /\ Len(ledger) = 1
      BY <3>1
    <3> QED
      BY <3>2, FabricAssumption DEF LedgerOK, Sequence
  <2> QED
    BY <2>2, <2>3 DEF Init
<1>5. CmdOK(cmd, ledger)
  <2>1. EmptyStore \in Store /\ NoLists \in [Chains -> SUBSET Seqs]
    BY DEF EmptyStore, Store, NoLists
  <2> QED
    BY <1>4, <2>1 DEF Init, Idle, CmdOK, CmdFields, Pcs, Before, After
<1>6. Committed(rival, ledger) /\ HeightsOn(ledger, cons)
  BY DEF Init, Committed, HeightsOn
<1> QED
  BY <1>1, <1>3, <1>4, <1>5, <1>6 DEF HeightInv

\* A packet is sent.
LEMMA HeightSendPacket ==
    ASSUME HeightInv, NEW c \in Chains, SendPacket(c)
    PROVE  HeightInv'
<1> DEFINE s == store[c].sent
<1>0. /\ UNCHANGED <<net, late, signed, rival, ledger, client, cons, cmd>>
      /\ left' = [left EXCEPT !.packets[c] = @ - 1] /\ left.packets[c] > 0
      /\ store' = [store EXCEPT ![c].sent = @ \cup {Cardinality(@) + 1}]
      /\ LeftOK /\ store \in [Chains -> Store] /\ SentOK /\ MaxSeq \in Nat
  BY ChainAssumption DEF SendPacket, HeightInv, StoreOK
<1>1. /\ LeftOK' /\ left'.packets[c] = left.packets[c] - 1 /\ left.packets[c] \in Nat
      /\ \A d \in Chains : d # c => left'.packets[d] = left.packets[d]
  BY <1>0 DEF LeftOK
<1>2. PICK k \in Nat : s = 1..k /\ k + left.packets[c] <= MaxSeq
  BY <1>0 DEF SentOK
<1>3. Cardinality(s) = k
  BY <1>2, FS_Interval
<1>4. s \cup {k + 1} = 1..(k + 1) /\ k + 1 \in Seqs /\ (k + 1) + left'.packets[c] <= MaxSeq
  BY <1>0, <1>1, <1>2 DEF Seqs
<1>5. /\ store' \in [Chains -> Store] /\ store'[c].sent = 1..(k + 1)
      /\ \A d \in Chains : d # c => store'[d] = store[d]
  BY <1>0, <1>3, <1>4 DEF Store
<1>6. SentOK'
  <2> SUFFICES ASSUME NEW d \in Chains
               PROVE  \E n \in Nat : store'[d].sent = 1..n /\ n + left'.packets[d] <= MaxSeq
    BY DEF SentOK
  <2>1. CASE d = c
    <3>1. k + 1 \in Nat
      OBVIOUS
    <3> QED
      BY <1>4, <1>5, <2>1, <3>1
  <2>2. CASE d # c
    BY <1>0, <1>1, <1>5, <2>2 DEF SentOK
  <2> QED
    BY <2>1, <2>2
<1> QED
  BY <1>0, <1>1, <1>5, <1>6 DEF HeightInv, NetOK, StoreOK, LedgerOK, Sequence

\* What the environment does to the stores, the budget and the client, when it
\* leaves the ledger alone.
LEMMA HeightElsewhere ==
    ASSUME HeightInv, NetOK', LeftOK', store' \in [Chains -> Store],
           \A c \in Chains : store'[c].sent = store[c].sent,
           left'.packets = left.packets, late' \in SUBSET Seqs,
           UNCHANGED ledger, CmdOK(cmd', ledger), Committed(rival', ledger), HeightsOn(ledger, cons')
    PROVE  HeightInv'
<1>1. SentOK'
  BY DEF SentOK, HeightInv, StoreOK
<1> QED
  BY <1>1 DEF HeightInv, StoreOK, LedgerOK, Sequence

\* A timeout passes.
LEMMA HeightExpire ==
    ASSUME HeightInv, Expire
    PROVE  HeightInv'
<1>1. /\ UNCHANGED <<net, signed, rival, ledger, store, client, cons>> /\ Disturb
      /\ Spend("expiries") /\ late' \in SUBSET Seqs
  <2>1. store["dst"].sent \in SUBSET Seqs
    BY StoreFacts DEF HeightInv, StoreOK, Chains
  <2> QED
    BY <2>1 DEF Expire, HeightInv
<1>2. LeftOK' /\ left'.packets = left.packets /\ CmdOK(cmd', ledger)
  BY <1>1, SpendOK, CmdCalm DEF HeightInv
<1> QED
  BY <1>1, <1>2, HeightElsewhere DEF HeightInv, NetOK, StoreOK

\* The rival's header is committed as it is made.
LEMMA HeightRivalAdvance ==
    ASSUME HeightInv, RivalAdvance
    PROVE  HeightInv'
<1>0. /\ LedgerOK /\ late \in SUBSET Seqs /\ Len(ledger) \in Nat /\ Len(ledger) < MaxHeight
      /\ UNCHANGED <<net, late, signed, store, client, cons>> /\ Disturb /\ Spend("rivals")
      /\ ledger' = Append(ledger, Stamp("rival")) /\ rival' = NextHeader("rival")
      /\ MaxHeight \in Nat
  BY FabricAssumption DEF HeightInv, LedgerOK, RivalAdvance, Sequence
<1>1. Stamp("rival") \in Stamps /\ Committed(rival', ledger')
  BY <1>0, NextHeaderOK
<1>2. LedgerOK'
  BY <1>0, <1>1, LedgerGrows DEF LedgerOK, Sequence
<1>3. CmdOK(cmd', ledger') /\ HeightsOn(ledger', cons)
  <2>1. CmdOK(cmd, ledger') /\ HeightsOn(ledger', cons)
    BY <1>0, <1>1, CmdKept, HeightsKept DEF HeightInv
  <2> QED
    BY <1>0, <2>1, CmdCalm
<1>4. LeftOK' /\ left'.packets = left.packets
  BY <1>0, SpendOK DEF HeightInv
<1> QED
  BY <1>0, <1>1, <1>2, <1>3, <1>4 DEF HeightInv, NetOK, StoreOK, SentOK

\* The rival updates the client with what it committed.
LEMMA HeightRivalUpdate ==
    ASSUME HeightInv, RivalUpdate
    PROVE  HeightInv'
<1>0. /\ UNCHANGED <<net, late, signed, left, ledger>> /\ Disturb /\ rival # None /\ rival' = None
      /\ UpdateClient(rival) /\ store \in [Chains -> Store] /\ "dst" \in Chains /\ "src" \in Chains
  BY DEF RivalUpdate, HeightInv, StoreOK, Chains
<1>1. HeightsOn(ledger, cons') /\ CmdOK(cmd', ledger)
  BY <1>0, UpdateHeights, CmdCalm DEF HeightInv
<1>2. store' \in [Chains -> Store] /\ \A c \in Chains : store'[c].sent = store[c].sent
  <2>1. Commitments(store["src"]) \in SUBSET Seqs /\ Commitments(store["dst"]) \in SUBSET Seqs
    BY <1>0, StoreFacts
  <2>2. \/ UNCHANGED store
        \/ \E n \in Seqs : \/ store' = [store EXCEPT !["dst"].recv = @ \cup {n}]
                           \/ store' = [store EXCEPT !["dst"].acked = @ \cup {n}]
    BY <2>1 DEF RivalUpdate
  <2> QED
    BY <1>0, <2>2 DEF Store
<1> QED
  BY <1>0, <1>1, <1>2, HeightElsewhere DEF HeightInv, NetOK, LeftOK, Committed

\* The rival sends to the Fabric network.
LEMMA HeightRivalToFabric ==
    ASSUME HeightInv, RivalToFabric
    PROVE  HeightInv'
<1>0. /\ UNCHANGED <<net, late, signed, rival, ledger, client, cons>> /\ Disturb /\ Spend("rivals")
      /\ store \in [Chains -> Store] /\ "dst" \in Chains /\ "src" \in Chains
  BY DEF RivalToFabric, HeightInv, StoreOK, Chains
<1>1. CmdOK(cmd', ledger) /\ LeftOK' /\ left'.packets = left.packets
  BY <1>0, CmdCalm, SpendOK DEF HeightInv
<1>2. store' \in [Chains -> Store] /\ \A c \in Chains : store'[c].sent = store[c].sent
  <2>1. Commitments(store["src"]) \in SUBSET Seqs /\ Commitments(store["dst"]) \in SUBSET Seqs
    BY <1>0, StoreFacts
  <2>2. \E n \in Seqs : \/ store' = [store EXCEPT !["src"].recv = @ \cup {n}]
                        \/ store' = [store EXCEPT !["src"].acked = @ \cup {n}]
    BY <2>1 DEF RivalToFabric
  <2> QED
    BY <1>0, <2>2 DEF Store
<1> QED
  BY <1>0, <1>1, <1>2, HeightElsewhere DEF HeightInv, NetOK

\* Governance changes the network and leaves the heights alone.
LEMMA HeightPublish ==
    ASSUME HeightInv, NEW m, NEW by, Publish(m, by), NetOK'
    PROVE  HeightInv'
<1>0. /\ UNCHANGED <<late, rival, ledger, store, client, cons>> /\ Disturb /\ Spend("gov")
  BY DEF Publish
<1>1. CmdOK(cmd', ledger) /\ LeftOK' /\ left'.packets = left.packets
  BY <1>0, CmdCalm, SpendOK DEF HeightInv
<1> QED
  BY <1>0, <1>1, HeightElsewhere DEF HeightInv, StoreOK

\* Each of its decisions is such a change.
LEMMA HeightGovernance ==
    ASSUME HeightInv,
           (\E o \in Movers : Rotate(o) \/ Repolicy(o) \/ Expel(o) \/ Join(o)) \/ Upgrade
    PROVE  HeightInv'
<1>0. NetOK /\ Movers \subseteq Orgs
  BY FabricAssumption DEF HeightInv
<1>1. NetOK'
  <2>1. CASE Upgrade
    BY <1>0, <2>1 DEF NetOK, Upgrade
  <2>2. ASSUME NEW o \in Orgs, Rotate(o) \/ Repolicy(o) \/ Expel(o) \/ Join(o) PROVE NetOK'
    <3>1. CASE Rotate(o)
      BY <1>0, <2>2, <3>1 DEF NetOK, Rotate
    <3>2. CASE Repolicy(o)
      BY <1>0, <2>2, <3>2 DEF NetOK, Repolicy
    <3>3. CASE Expel(o)
      BY <1>0, <2>2, <3>3 DEF NetOK, Expel
    <3>4. CASE Join(o)
      <4> DEFINE g == [net.gen EXCEPT ![o] = @ + 1]
      <4>1. g \in [Orgs -> Nat] /\ net.members \cup {o} \in SUBSET Orgs
        BY <1>0, <2>2 DEF NetOK
      <4>2. net' = [net EXCEPT !.gen = g, !.members = net.members \cup {o}]
        BY <3>4 DEF Join
      <4> HIDE DEF g
      <4> QED
        BY <1>0, <4>1, <4>2 DEF NetOK
    <3> QED
      BY <2>2, <3>1, <3>2, <3>3, <3>4
  <2> QED
    BY <1>0, <2>1, <2>2
<1>2. \E m, by : Publish(m, by)
  BY DEF Rotate, Repolicy, Expel, Join, Upgrade
<1> QED
  BY <1>1, <1>2, HeightPublish

\* What governance signed reaches the client and changes no height.
LEMMA HeightDeliver ==
    ASSUME HeightInv, Deliver
    PROVE  HeightInv'
<1>0. UNCHANGED <<net, late, signed, rival, left, ledger, store>> /\ Disturb
  BY DEF Deliver, envVars
<1>1. cons' = cons
  BY DEF Deliver, UpdateClient, UpdateConsensusStates
<1>2. CmdOK(cmd', ledger)
  BY <1>0, CmdCalm DEF HeightInv
<1> QED
  BY <1>0, <1>1, <1>2, HeightElsewhere DEF HeightInv, NetOK, LeftOK, StoreOK
-----------------------------------------------------------------------------
(* The commands *)

\* A command that does not run, and one that has failed.
LEMMA EndOK ==
    ASSUME LedgerOK
    PROVE  /\ CmdOK(Idle, ledger)
           /\ CmdOK(cmd, ledger) => /\ CmdOK(Failed, ledger)
                                    /\ CmdOK([Failed EXCEPT !.calm = FALSE], ledger)
<1>1. EmptyStore \in Store /\ NoLists \in [Chains -> SUBSET Seqs] /\ Len(ledger) \in Nat
  BY DEF EmptyStore, Store, NoLists, LedgerOK
<1>2. CmdOK(Idle, ledger)
  BY <1>1 DEF Idle, CmdOK, CmdFields, Pcs, Before, After
<1>3. CmdOK(cmd, ledger) => CmdOK(Failed, ledger)
  BY DEF Failed, CmdOK, CmdFields, Pcs, Before, After
<1>4. CmdOK(cmd, ledger) => CmdOK([Failed EXCEPT !.calm = FALSE], ledger)
  BY DEF Failed, CmdOK, CmdFields, Pcs, Before, After
<1> QED
  BY <1>2, <1>3, <1>4

\* A step of the command that changes nothing else.
LEMMA HeightCmd ==
    ASSUME HeightInv, UNCHANGED <<envVars, ledger, store, client, cons>>, CmdOK(cmd', ledger)
    PROVE  HeightInv'
  BY HeightElsewhere DEF HeightInv, NetOK, LeftOK, StoreOK, envVars

\* The commands that create the client, up to its header.
LEMMA HeightFirst ==
    ASSUME HeightInv, BeginCreate \/ EndorseFirst \/ QueryFirst
    PROVE  HeightInv'
<1>0. /\ UNCHANGED <<envVars, ledger, store, client, cons>> /\ LedgerOK /\ CmdOK(cmd, ledger)
      /\ Len(ledger) \in Nat /\ late \in SUBSET Seqs /\ MaxHeight \in Nat
  BY FabricAssumption DEF BeginCreate, EndorseFirst, QueryFirst, HeightInv, LedgerOK
<1>1. CASE BeginCreate
  <2>1. CmdOK(Idle, ledger) /\ Idle.hdr = None /\ DOMAIN Idle = CmdFields
    BY <1>0, EndOK DEF Idle, CmdFields
  <2>2. /\ DOMAIN cmd' = CmdFields /\ cmd'.kind = "create" /\ cmd'.seq = Len(ledger)
        /\ cmd'.pc = (IF Len(ledger) = 0 THEN "first" ELSE "install")
        /\ cmd'.snap = Idle.snap /\ cmd'.list = Idle.list /\ cmd'.timeouts = Idle.timeouts
        /\ cmd'.proofs = Idle.proofs /\ cmd'.hdr = None /\ cmd'.listSeq = Idle.listSeq
        /\ cmd'.todo = Idle.todo
    <3>1. cmd' = [Idle EXCEPT !.kind = "create", !.seq = Sequence,
                              !.pc = IF Sequence = 0 THEN "first" ELSE "install"]
      BY <1>1 DEF BeginCreate
    <3> HIDE DEF Idle
    <3> QED
      BY <2>1, <3>1 DEF CmdFields, Sequence
  <2>3. CmdOK(cmd', ledger)
    BY <1>0, <2>1, <2>2 DEF CmdOK, Pcs, Before, After
  <2> QED
    BY <1>0, <2>3, HeightCmd
<1>2. CASE EndorseFirst
  <2> DEFINE h == NextHeader("us")
  <2>1. h.sequence.value \in Nat /\ h.sequence.stamp \in Stamps
    BY <1>0, NextHeaderOK
  <2>2. cmd.pc = "first" /\ cmd' = [cmd EXCEPT !.pc = "commit", !.hdr = h]
    BY <1>2 DEF EndorseFirst
  <2> HIDE DEF h
  <2>3. CmdOK(cmd', ledger)
    BY <1>0, <2>1, <2>2 DEF CmdOK, CmdFields, Pcs, Before, After
  <2> QED
    BY <1>0, <2>3, HeightCmd
<1>3. CASE QueryFirst
  <2>1. cmd.pc = "second" /\ cmd' = [cmd EXCEPT !.pc = "install", !.seq = Len(ledger)]
    BY <1>3 DEF QueryFirst, Sequence
  <2>2. CmdOK(cmd', ledger)
    BY <1>0, <2>1 DEF CmdOK, CmdFields, Pcs, Before, After
  <2> QED
    BY <1>0, <2>2, HeightCmd
<1> QED
  BY <1>1, <1>2, <1>3

\* The client is created at a sequence of the ledger.
LEMMA HeightCreate ==
    ASSUME HeightInv, CreateClient
    PROVE  HeightInv'
<1>0. /\ UNCHANGED <<net, late, signed, rival, left, ledger, store>> /\ LedgerOK /\ CmdOK(cmd, ledger)
      /\ cmd.pc = "install" /\ cmd' = Idle /\ Len(ledger) \in Nat
      /\ DOMAIN ledger = 1..Len(ledger)
  BY DEF CreateClient, envVars, HeightInv, LedgerOK
<1>1. cmd.seq \in DOMAIN ledger
  BY <1>0 DEF CmdOK
<1>2. cons' = [h \in {cmd.seq} |-> ledger[cmd.seq]]
  BY DEF CreateClient, Initialize, NewClientState
<1>3. HeightsOn(ledger, cons')
  BY <1>1, <1>2 DEF HeightsOn
<1>4. CmdOK(cmd', ledger)
  BY <1>0, EndOK
<1> QED
  BY <1>0, <1>3, <1>4, HeightElsewhere DEF HeightInv, NetOK, LeftOK, StoreOK

\* The command starts with the current sequence.
LEMMA HeightBegin ==
    ASSUME HeightInv, NEW kind \in {"relay", "acks"}, NEW pick, Begin(kind, pick)
    PROVE  HeightInv'
<1>0. /\ UNCHANGED <<net, late, signed, rival, ledger, store, client, cons>>
      /\ LedgerOK /\ Len(ledger) \in Nat /\ Len(ledger) <= MaxHeight
      /\ cmd' = [Idle EXCEPT !.kind = kind, !.pc = "headers", !.pick = pick, !.seq = Len(ledger),
                             !.calm = pick = {}]
  BY FabricAssumption DEF Begin, HeightInv, LedgerOK, Sequence
<1>1. LeftOK' /\ left'.packets = left.packets
  BY SpendOK DEF Begin, HeightInv, LeftOK
<1>2. CmdOK(cmd', ledger)
  <2>1. CmdOK(Idle, ledger) /\ Idle.hdr = None /\ DOMAIN Idle = CmdFields
    BY <1>0, EndOK DEF Idle, CmdFields
  <2>2. /\ DOMAIN cmd' = CmdFields /\ cmd'.kind = kind /\ cmd'.pc = "headers" /\ cmd'.seq = Len(ledger)
        /\ cmd'.snap = Idle.snap /\ cmd'.list = Idle.list /\ cmd'.timeouts = Idle.timeouts
        /\ cmd'.proofs = Idle.proofs /\ cmd'.hdr = None /\ cmd'.listSeq = Idle.listSeq
        /\ cmd'.todo = Idle.todo
    <3> HIDE DEF Idle
    <3> QED
      BY <1>0, <2>1 DEF CmdFields
  <2> QED
    BY <1>0, <2>1, <2>2 DEF CmdOK, Pcs, Before, After
<1> QED
  BY <1>0, <1>1, <1>2, HeightElsewhere DEF HeightInv, NetOK, StoreOK

\* The finalized header of "dst".
LEMMA HeightHeader ==
    ASSUME HeightInv, GetLatestFinalizedHeader
    PROVE  HeightInv'
<1>1. /\ UNCHANGED <<envVars, ledger, store, client, cons>> /\ CmdOK(cmd, ledger)
      /\ store["dst"] \in Store /\ cmd.pc = "headers" /\ Chains \subseteq {"src", "ask", "dst"}
      /\ cmd' = [cmd EXCEPT !.pc = "lists", !.snap = store["dst"], !.todo = Chains]
  BY DEF GetLatestFinalizedHeader, HeightInv, StoreOK, Chains
<1>2. CmdOK(cmd', ledger)
  BY <1>1 DEF CmdOK, CmdFields, Pcs, Before, After
<1> QED
  BY <1>1, <1>2, HeightCmd

\* A query about one packet that may fail.
LEMMA LoseOK ==
    ASSUME HeightInv, NEW lost, MayLose(lost)
    PROVE  LeftOK' /\ left'.packets = left.packets /\ UNCHANGED <<net, late, signed, rival>>
  BY SpendOK DEF MayLose, Fault, envVars, HeightInv, LeftOK

\* The command with the list of c and what remains to be asked.
Listing(c, S, T, k, b) ==
    [cmd EXCEPT !.todo = T, !.listSeq = k, !.calm = b, !.list[c] = S]

\* A list changes and nothing else.
LEMMA ListOK ==
    ASSUME HeightInv, cmd.pc \in {"lists", "filter"}, NEW c \in Chains, NEW S \in SUBSET Seqs,
           NEW T \in SUBSET {"src", "ask", "dst"}, NEW k \in 0..Len(ledger), NEW b,
           NEW next, next = Listing(c, S, T, k, b)
    PROVE  /\ CmdOK(next, ledger) /\ next.pc = cmd.pc /\ next.kind = cmd.kind /\ next.hdr = cmd.hdr
           /\ next.pick = cmd.pick /\ next.seq = cmd.seq /\ next.snap = cmd.snap
           /\ next.timeouts = cmd.timeouts /\ next.proofs = cmd.proofs
           /\ next.listSeq = k /\ next.todo = T /\ next.calm = b /\ DOMAIN next = CmdFields
           /\ next.list = [cmd.list EXCEPT ![c] = S]
<1> DEFINE L == [cmd.list EXCEPT ![c] = S]
<1>0. CmdOK(cmd, ledger) /\ DOMAIN cmd = CmdFields
  BY DEF HeightInv, CmdOK
<1>1. L \in [Chains -> SUBSET Seqs]
  BY <1>0 DEF CmdOK
<1>2. next = [cmd EXCEPT !.todo = T, !.listSeq = k, !.calm = b, !.list = L]
  BY <1>0 DEF CmdFields, Listing
<1> HIDE DEF L
<1>3. /\ next.pc = cmd.pc /\ next.kind = cmd.kind /\ next.hdr = cmd.hdr
      /\ next.pick = cmd.pick /\ next.seq = cmd.seq /\ next.snap = cmd.snap
      /\ next.timeouts = cmd.timeouts /\ next.proofs = cmd.proofs
      /\ next.listSeq = k /\ next.todo = T /\ next.calm = b /\ DOMAIN next = CmdFields
      /\ next.list = L
  BY <1>0, <1>2 DEF CmdFields
<1>4. CmdOK(next, ledger)
  BY <1>0, <1>1, <1>3 DEF CmdOK, Pcs, Before, After
<1> QED
  BY <1>3, <1>4 DEF L

\* The first lists are complete.
LEMMA WaitOK ==
    ASSUME NEW next, CmdOK(next, ledger), next.pc = "lists", Wait(next)
    PROVE  CmdOK(cmd', ledger)
<1>1. CASE next.todo # {}
  BY <1>1 DEF Wait
<1>2. CASE next.todo = {}
  <2>1. Chains \subseteq {"src", "ask", "dst"}
    BY DEF Chains
  <2>2. PICK pc \in {"metrics", "filter"} : cmd' = [next EXCEPT !.pc = pc, !.todo = Chains]
    BY <1>2 DEF Wait
  <2> QED
    BY <2>1, <2>2 DEF CmdOK, CmdFields, Pcs, Before, After
<1> QED
  BY <1>1, <1>2

\* What the Fabric network lists of itself.
LEMMA HeightListSrc ==
    ASSUME HeightInv, NEW lost, ListSrc(lost)
    PROVE  HeightInv'
<1> DEFINE S == IF cmd.kind = "relay" THEN QueryUnfinalizedRelayPackets(store["src"], lost)
                ELSE QueryUnfinalizedRelayAcknowledgements(store["src"], lost)
           T == (cmd.todo \ {"src"}) \cup {"ask"}
           b == cmd.calm /\ lost = {}
<1>0. /\ UNCHANGED <<ledger, store, client, cons>> /\ MayLose(lost) /\ cmd.pc = "lists"
      /\ store["src"] \in Store /\ Len(ledger) \in 0..Len(ledger) /\ "src" \in Chains
      /\ CmdOK(cmd, ledger)
  BY DEF ListSrc, HeightInv, StoreOK, Chains, LedgerOK
<1>1. S \in SUBSET Seqs /\ T \in SUBSET {"src", "ask", "dst"}
  BY <1>0, StoreFacts
     DEF QueryUnfinalizedRelayPackets, QueryUnfinalizedRelayAcknowledgements, CmdOK
<1>2. cmd' = Listing("src", S, T, Len(ledger), b)
  BY DEF ListSrc, Sequence, Listing
<1> HIDE DEF S, T, b
<1>3. cmd.pc \in {"lists", "filter"} /\ Len(ledger) \in 0..Len(ledger)
  BY <1>0
<1>4. CmdOK(cmd', ledger)
  BY <1>0, <1>1, <1>2, <1>3, ListOK
<1> QED
  BY <1>0, <1>4, LoseOK, HeightElsewhere DEF HeightInv, NetOK, StoreOK

\* What "dst" says about it.
LEMMA HeightAskDst ==
    ASSUME HeightInv, AskDst
    PROVE  HeightInv'
<1> DEFINE S == IF cmd.kind = "relay" THEN UnreceivedPackets(store["dst"], cmd.list["src"])
                ELSE UnreceivedAcks(store["dst"], cmd.list["src"])
           T == cmd.todo \ {"ask"}
           k == cmd.listSeq
           b == cmd.calm
           next == Listing("src", S, T, k, b)
<1>0. /\ UNCHANGED <<envVars, ledger, store, client, cons>> /\ cmd.pc = "lists"
      /\ store["dst"] \in Store /\ "src" \in Chains /\ CmdOK(cmd, ledger)
      /\ cmd.list["src"] \in SUBSET Seqs /\ cmd.listSeq \in 0..Len(ledger)
  BY DEF AskDst, HeightInv, StoreOK, Chains, CmdOK
<1>1. S \in SUBSET Seqs /\ T \in SUBSET {"src", "ask", "dst"}
  BY <1>0, StoreFacts DEF CmdOK
<1>2. Wait(next)
  <2>1. next = [cmd EXCEPT !.todo = @ \ {"ask"},
                        !.list["src"] = IF cmd.kind = "relay"
                                        THEN UnreceivedPackets(store["dst"], @)
                                        ELSE UnreceivedAcks(store["dst"], @)]
    BY <1>0 DEF CmdOK, CmdFields, Listing
  <2> QED
    BY <2>1 DEF AskDst
<1>3. next = Listing("src", S, T, k, b) /\ k \in 0..Len(ledger)
  BY <1>0
<1> HIDE DEF S, T, k, b, next
<1>4. CmdOK(next, ledger) /\ next.pc = "lists"
  <2>1. cmd.pc \in {"lists", "filter"}
    BY <1>0
  <2>2. CmdOK(next, ledger)
    BY <1>0, <1>1, <1>3, <2>1, ListOK
  <2>3. next.pc = cmd.pc
    BY <1>0, <1>3 DEF Listing, CmdOK, CmdFields
  <2> QED
    BY <1>0, <2>2, <2>3
<1>5. CmdOK(cmd', ledger)
  BY <1>2, <1>4, WaitOK
<1> QED
  BY <1>0, <1>5, HeightCmd

\* What "dst" lists, and the Fabric network says about it.
LEMMA HeightListDst ==
    ASSUME HeightInv, NEW lost, ListDst(lost)
    PROVE  HeightInv'
<1> DEFINE S == IF cmd.kind = "relay" THEN UnreceivedPackets(store["src"], Commitments(cmd.snap))
                ELSE QueryUnreceivedAcknowledgements(store["src"], cmd.snap.recv, lost)
           T == cmd.todo \ {"dst"}
           b == cmd.calm /\ lost = {}
           k == cmd.listSeq
           next == Listing("dst", S, T, k, b)
<1>0. /\ UNCHANGED <<ledger, store, client, cons>> /\ cmd.pc = "lists" /\ MayLose(lost)
      /\ store["src"] \in Store /\ "dst" \in Chains /\ CmdOK(cmd, ledger)
      /\ cmd.listSeq \in 0..Len(ledger) /\ cmd.snap \in Store
  BY DEF ListDst, HeightInv, StoreOK, Chains, CmdOK
<1>1. S \in SUBSET Seqs /\ T \in SUBSET {"src", "ask", "dst"}
  BY <1>0, StoreFacts DEF CmdOK
<1>2. Wait(next)
  <2>1. next = [cmd EXCEPT !.todo = @ \ {"dst"}, !.calm = @ /\ lost = {},
                        !.list["dst"] = IF cmd.kind = "relay"
                           THEN UnreceivedPackets(store["src"], Commitments(cmd.snap))
                           ELSE QueryUnreceivedAcknowledgements(store["src"], cmd.snap.recv, lost)]
    BY <1>0 DEF CmdOK, CmdFields, Listing
  <2> QED
    BY <2>1 DEF ListDst
<1>3. next = Listing("dst", S, T, k, b) /\ k \in 0..Len(ledger)
  BY <1>0
<1> HIDE DEF S, T, k, b, next
<1>4. CmdOK(next, ledger) /\ next.pc = "lists"
  <2>1. cmd.pc \in {"lists", "filter"}
    BY <1>0
  <2>2. CmdOK(next, ledger)
    BY <1>0, <1>1, <1>3, <2>1, ListOK
  <2>3. next.pc = cmd.pc
    BY <1>0, <1>3 DEF Listing, CmdOK, CmdFields
  <2> QED
    BY <1>0, <2>2, <2>3
<1>5. CmdOK(cmd', ledger)
  BY <1>2, <1>4, WaitOK
<1> QED
  BY <1>0, <1>5, LoseOK, HeightElsewhere DEF HeightInv, NetOK, StoreOK

\* What was picked remains.
LEMMA TryFilterOK ==
    ASSUME NEW next, CmdOK(next, ledger), next.pc \in Before, TryFilterRelayPackets(next)
    PROVE  CmdOK(cmd', ledger)
<1> DEFINE L == [next.list EXCEPT !["src"] = Picked(@)]
<1>1. L \in [Chains -> SUBSET Seqs]
  BY DEF CmdOK, Picked, Chains
<1>2. CmdOK([next EXCEPT !.pc = "advance", !.list = L], ledger)
  <2> HIDE DEF L
  <2> QED
    BY <1>1 DEF CmdOK, CmdFields, Pcs, Before, After
<1>3. CmdOK([next EXCEPT !.pc = "failed"], ledger)
  BY DEF CmdOK, CmdFields, Pcs, Before, After
<1>4. [next EXCEPT !.pc = "advance", !.list["src"] = Picked(@)]
        = [next EXCEPT !.pc = "advance", !.list = L]
  BY DEF CmdOK, CmdFields
<1> QED
  BY <1>2, <1>3, <1>4 DEF TryFilterRelayPackets

\* The metrics.
LEMMA HeightMetrics ==
    ASSUME HeightInv, updateBacklogMetrics
    PROVE  HeightInv'
<1>1. /\ UNCHANGED <<envVars, ledger, store, client, cons>> /\ CmdOK(cmd, ledger) /\ LedgerOK
      /\ cmd.pc = "metrics" /\ cmd' \in {Failed, [cmd EXCEPT !.pc = "filter"]}
  BY DEF updateBacklogMetrics, HeightInv
<1>2. CmdOK([cmd EXCEPT !.pc = "filter"], ledger)
  BY <1>1 DEF CmdOK, CmdFields, Pcs, Before, After
<1> QED
  BY <1>1, <1>2, EndOK, HeightCmd

\* The filters are complete.
LEMMA FilteredOK ==
    ASSUME NEW next, CmdOK(next, ledger), next.pc = "filter", Filtered(next)
    PROVE  CmdOK(cmd', ledger)
<1>1. CmdOK([next EXCEPT !.pc = "timeouts"], ledger) /\ next.pc \in Before
  BY DEF CmdOK, CmdFields, Pcs, Before, After
<1> QED
  BY <1>1, TryFilterOK DEF Filtered

\* The filters at the latest heights.
LEMMA HeightFilterSrc ==
    ASSUME HeightInv, FilterSrc
    PROVE  HeightInv'
<1> DEFINE S == IF cmd.kind = "relay" THEN UnreceivedPackets(store["dst"], cmd.list["src"])
                ELSE UnreceivedAcks(store["dst"], cmd.list["src"])
           T == cmd.todo \ {"src"}
           k == cmd.listSeq
           b == cmd.calm
           next == Listing("src", S, T, k, b)
<1>0. /\ UNCHANGED <<envVars, ledger, store, client, cons>> /\ cmd.pc = "filter"
      /\ store["dst"] \in Store /\ "src" \in Chains /\ CmdOK(cmd, ledger)
      /\ cmd.list["src"] \in SUBSET Seqs /\ cmd.listSeq \in 0..Len(ledger)
  BY DEF FilterSrc, HeightInv, StoreOK, Chains, CmdOK
<1>1. S \in SUBSET Seqs /\ T \in SUBSET {"src", "ask", "dst"}
  BY <1>0, StoreFacts DEF CmdOK
<1>2. Filtered(next)
  <2>1. next = [cmd EXCEPT !.todo = @ \ {"src"},
                            !.list["src"] = IF cmd.kind = "relay"
                                            THEN UnreceivedPackets(store["dst"], @)
                                            ELSE UnreceivedAcks(store["dst"], @)]
    BY <1>0 DEF CmdOK, CmdFields, Listing
  <2> QED
    BY <2>1 DEF FilterSrc
<1>3. next = Listing("src", S, T, k, b) /\ k \in 0..Len(ledger)
  BY <1>0
<1> HIDE DEF S, T, k, b, next
<1>4. CmdOK(next, ledger) /\ next.pc = "filter"
  <2>1. cmd.pc \in {"lists", "filter"}
    BY <1>0
  <2>2. CmdOK(next, ledger)
    BY <1>0, <1>1, <1>3, <2>1, ListOK
  <2>3. next.pc = cmd.pc
    BY <1>0, <1>3 DEF Listing, CmdOK, CmdFields
  <2> QED
    BY <1>0, <2>2, <2>3
<1>5. CmdOK(cmd', ledger)
  BY <1>2, <1>4, FilteredOK
<1> QED
  BY <1>0, <1>5, HeightCmd

\* The other list, of which a query may fail.
LEMMA HeightFilterDst ==
    ASSUME HeightInv, NEW lost, FilterDst(lost)
    PROVE  HeightInv'
<1> DEFINE S == IF cmd.kind = "relay" THEN UnreceivedPackets(store["src"], cmd.list["dst"])
                ELSE QueryUnreceivedAcknowledgements(store["src"], cmd.list["dst"], lost)
           T == cmd.todo \ {"dst"}
           b == cmd.calm /\ lost = {}
           k == cmd.listSeq
           next == Listing("dst", S, T, k, b)
<1>0. /\ UNCHANGED <<ledger, store, client, cons>> /\ cmd.pc = "filter" /\ MayLose(lost)
      /\ store["src"] \in Store /\ "dst" \in Chains /\ CmdOK(cmd, ledger)
      /\ cmd.list["dst"] \in SUBSET Seqs /\ cmd.listSeq \in 0..Len(ledger)
  BY DEF FilterDst, HeightInv, StoreOK, Chains, CmdOK
<1>1. S \in SUBSET Seqs /\ T \in SUBSET {"src", "ask", "dst"}
  BY <1>0, StoreFacts DEF CmdOK
<1>2. Filtered(next)
  <2>1. next = [cmd EXCEPT !.todo = @ \ {"dst"}, !.calm = @ /\ lost = {},
                            !.list["dst"] = IF cmd.kind = "relay"
                               THEN UnreceivedPackets(store["src"], @)
                               ELSE QueryUnreceivedAcknowledgements(store["src"], @, lost)]
    BY <1>0 DEF CmdOK, CmdFields, Listing
  <2> QED
    BY <2>1 DEF FilterDst
<1>3. next = Listing("dst", S, T, k, b) /\ k \in 0..Len(ledger)
  BY <1>0
<1> HIDE DEF S, T, k, b, next
<1>4. CmdOK(next, ledger) /\ next.pc = "filter"
  <2>1. cmd.pc \in {"lists", "filter"}
    BY <1>0
  <2>2. CmdOK(next, ledger)
    BY <1>0, <1>1, <1>3, <2>1, ListOK
  <2>3. next.pc = cmd.pc
    BY <1>0, <1>3 DEF Listing, CmdOK, CmdFields
  <2> QED
    BY <1>0, <2>2, <2>3
<1>5. CmdOK(cmd', ledger)
  BY <1>2, <1>4, FilteredOK
<1> QED
  BY <1>0, <1>5, LoseOK, HeightElsewhere DEF HeightInv, NetOK, StoreOK

\* The packets that have timed out.
LEMMA HeightTimeouts ==
    ASSUME HeightInv, ProcessTimeoutPackets
    PROVE  HeightInv'
<1>0. /\ UNCHANGED <<envVars, ledger, store, client, cons>> /\ CmdOK(cmd, ledger) /\ LedgerOK
      /\ cmd.pc = "timeouts" /\ cmd.list \in [Chains -> SUBSET Seqs]
  BY DEF ProcessTimeoutPackets, HeightInv, CmdOK
<1> DEFINE T == cmd.list["dst"] \cap Last(ledger).late
           L == [cmd.list EXCEPT !["dst"] = @ \ Last(ledger).late]
           next == [cmd EXCEPT !.timeouts = T, !.list["dst"] = @ \ Last(ledger).late]
<1>1. T \in SUBSET Seqs /\ L \in [Chains -> SUBSET Seqs]
  BY <1>0 DEF Chains
<1>2. next = [cmd EXCEPT !.timeouts = T, !.list = L]
  BY <1>0 DEF CmdOK, CmdFields
<1>3. CmdOK(next, ledger) /\ next.pc \in Before
  <2> HIDE DEF T, L, next
  <2> QED
    BY <1>0, <1>1, <1>2 DEF CmdOK, CmdFields, Pcs, Before, After
<1>4. cmd' = Failed \/ TryFilterRelayPackets(next)
  BY DEF ProcessTimeoutPackets
<1>5. CmdOK(cmd', ledger)
  <2> HIDE DEF next
  <2> QED
    BY <1>0, <1>3, <1>4, EndOK, TryFilterOK
<1> QED
  BY <1>0, <1>5, HeightCmd

\* The header is endorsed, and is not committed yet.
LEMMA HeightSetupHeaders ==
    ASSUME HeightInv, SetupHeadersForUpdate
    PROVE  HeightInv'
<1>0. /\ UNCHANGED <<envVars, ledger, store, client, cons>> /\ CmdOK(cmd, ledger) /\ LedgerOK
      /\ cmd.pc = "advance" /\ cmd.hdr = None /\ Len(ledger) \in Nat /\ Len(ledger) <= MaxHeight
      /\ late \in SUBSET Seqs
  BY DEF SetupHeadersForUpdate, HeightInv, CmdOK, Before, LedgerOK
<1>1. NextHeader("us").sequence.value \in Nat /\ NextHeader("us").sequence.stamp \in Stamps
  BY <1>0, NextHeaderOK
<1>2. \/ cmd' = [cmd EXCEPT !.pc = "commit", !.hdr = NextHeader("us")]
      \/ cmd' = [cmd EXCEPT !.pc = "sendSrc"]
  BY DEF SetupHeadersForUpdate
<1>3. CASE cmd' = [cmd EXCEPT !.pc = "commit", !.hdr = NextHeader("us")]
  <2> DEFINE h == NextHeader("us")
  <2> HIDE DEF h
  <2>1. cmd' = [cmd EXCEPT !.pc = "commit", !.hdr = h] /\ h.sequence.value \in Nat
        /\ h.sequence.stamp \in Stamps
    BY <1>1, <1>3 DEF h
  <2>2. CmdOK(cmd', ledger)
    BY <1>0, <2>1 DEF CmdOK, CmdFields, Pcs, Before, After
  <2> QED
    BY <1>0, <2>2, HeightCmd
<1>4. CASE cmd' = [cmd EXCEPT !.pc = "sendSrc"]
  <2>1. CmdOK(cmd', ledger)
    BY <1>0, <1>4 DEF CmdOK, CmdFields, Pcs, Before, After, Committed
  <2> QED
    BY <1>0, <2>1, HeightCmd
<1> QED
  BY <1>2, <1>3, <1>4

\* The command's own sequence is committed.
LEMMA CommitOK ==
    ASSUME HeightInv, cmd.pc = "commit", Len(ledger) + 1 = cmd.hdr.sequence.value,
           ledger' = Append(ledger, cmd.hdr.sequence.stamp)
    PROVE  /\ LedgerOK' /\ HeightsOn(ledger', cons) /\ Committed(rival, ledger')
           /\ \A c : /\ DOMAIN c = CmdFields
                     /\ \A f \in CmdFields \ {"pc", "calm"} : c[f] = cmd[f]
                     /\ c.pc \in {"prove", "second", "failed"}
                     => CmdOK(c, ledger')
<1>0. /\ LedgerOK /\ CmdOK(cmd, ledger) /\ Len(ledger) \in Nat /\ Len(ledger) <= MaxHeight
      /\ cmd.hdr.sequence.stamp \in Stamps /\ MaxHeight \in Nat
  BY FabricAssumption DEF HeightInv, CmdOK, LedgerOK, Before
<1>1. /\ ledger' \in Seq(Stamps) /\ Len(ledger') = Len(ledger) + 1
      /\ DOMAIN ledger' = 1..(Len(ledger) + 1) /\ ledger'[Len(ledger) + 1] = cmd.hdr.sequence.stamp
  BY <1>0, LedgerGrows
<1>2. LedgerOK' /\ HeightsOn(ledger', cons) /\ Committed(rival, ledger')
  BY <1>0, <1>1, HeightsKept, CommittedKept DEF HeightInv, LedgerOK, Sequence
<1>3. Committed(cmd.hdr, ledger')
  BY <1>0, <1>1 DEF Committed
<1>4. ASSUME NEW c, DOMAIN c = CmdFields, \A f \in CmdFields \ {"pc", "calm"} : c[f] = cmd[f],
             c.pc \in {"prove", "second", "failed"}
      PROVE  CmdOK(c, ledger')
  <2>1. /\ c.kind = cmd.kind /\ c.seq = cmd.seq /\ c.listSeq = cmd.listSeq /\ c.snap = cmd.snap
        /\ c.list = cmd.list /\ c.timeouts = cmd.timeouts /\ c.proofs = cmd.proofs /\ c.hdr = cmd.hdr
        /\ c.todo = cmd.todo
    BY <1>4 DEF CmdFields
  <2> QED
    BY <1>0, <1>1, <1>3, <1>4, <2>1 DEF CmdOK, Pcs, Before, After
<1> QED
  BY <1>2, <1>4

\* submit.
LEMMA HeightCommit ==
    ASSUME HeightInv, CommitSequence
    PROVE  HeightInv'
<1>0. /\ UNCHANGED <<net, late, signed, rival, left, store, client, cons>> /\ cmd.pc = "commit"
      /\ LedgerOK /\ CmdOK(cmd, ledger)
  BY DEF CommitSequence, envVars, HeightInv
<1>1. CASE Len(ledger) + 1 = cmd.hdr.sequence.value
  <2>1. /\ ledger' = Append(ledger, cmd.hdr.sequence.stamp)
        /\ cmd' = [cmd EXCEPT !.pc = IF cmd.kind = "create" THEN "second" ELSE "prove"]
    BY <1>1 DEF CommitSequence, Sequence
  <2>2. /\ DOMAIN cmd' = CmdFields /\ cmd'.pc \in {"prove", "second", "failed"}
        /\ \A f \in CmdFields \ {"pc", "calm"} : cmd'[f] = cmd[f]
    BY <1>0, <2>1 DEF CmdOK, CmdFields
  <2>3. /\ LedgerOK' /\ HeightsOn(ledger', cons) /\ Committed(rival, ledger')
        /\ CmdOK(cmd', ledger')
    BY <1>0, <1>1, <2>1, <2>2, CommitOK
  <2> QED
    BY <1>0, <2>3 DEF HeightInv, NetOK, LeftOK, StoreOK, SentOK
<1>2. CASE Len(ledger) + 1 # cmd.hdr.sequence.value
  <2>1. cmd' = Failed /\ UNCHANGED ledger
    BY <1>2 DEF CommitSequence, Sequence
  <2>2. CmdOK(cmd', ledger)
    BY <1>0, <2>1, EndOK
  <2> QED
    BY <1>0, <2>1, <2>2, HeightCmd DEF envVars
<1> QED
  BY <1>1, <1>2

\* submit with an outcome that stays unknown.
LEMMA HeightCommitLost ==
    ASSUME HeightInv, CommitLost
    PROVE  HeightInv'
<1>0. /\ UNCHANGED <<net, late, signed, rival, store, client, cons>> /\ cmd.pc = "commit"
      /\ LedgerOK /\ CmdOK(cmd, ledger) /\ Spend("faults")
      /\ cmd' = [Failed EXCEPT !.calm = FALSE]
  BY DEF CommitLost, Fault, HeightInv
<1>1. LeftOK' /\ left'.packets = left.packets /\ SentOK'
  BY <1>0, SpendOK DEF HeightInv, StoreOK, SentOK
<1>2. CASE UNCHANGED ledger
  <2>1. CmdOK(cmd', ledger)
    BY <1>0, EndOK
  <2> QED
    BY <1>0, <1>1, <1>2, <2>1, HeightElsewhere DEF HeightInv, NetOK, StoreOK
<1>3. CASE Len(ledger) + 1 = cmd.hdr.sequence.value /\ ledger' = Append(ledger, cmd.hdr.sequence.stamp)
  <2>1. /\ DOMAIN cmd' = CmdFields /\ cmd'.pc \in {"prove", "second", "failed"}
        /\ \A f \in CmdFields \ {"pc", "calm"} : cmd'[f] = cmd[f]
    BY <1>0 DEF CmdOK, CmdFields, Failed
  <2>2. /\ LedgerOK' /\ HeightsOn(ledger', cons) /\ Committed(rival, ledger')
        /\ CmdOK(cmd', ledger')
    BY <1>0, <1>3, <2>1, CommitOK
  <2> QED
    BY <1>0, <1>1, <2>2 DEF HeightInv, NetOK, StoreOK
<1> QED
  BY <1>2, <1>3 DEF CommitLost, Sequence

\* A proof, and its height.
LEMMA HeightProve ==
    ASSUME HeightInv, ProveCommitment \/ QueryProofHeight
    PROVE  HeightInv'
<1>0. /\ UNCHANGED <<envVars, ledger, store, client, cons>> /\ LedgerOK /\ CmdOK(cmd, ledger)
      /\ cmd.pc \in {"prove", "height"} /\ Committed(cmd.hdr, ledger) /\ Len(ledger) \in Nat
      /\ cmd.list["src"] \in SUBSET Seqs
  BY DEF ProveCommitment, QueryProofHeight, HeightInv, CmdOK, After, LedgerOK, Chains
<1>1. ASSUME NEW P, \A p \in P : ProofOK(p), NEW pc \in {"prove", "height"},
             cmd' = [cmd EXCEPT !.pc = pc, !.proofs = P]
      PROVE  CmdOK(cmd', ledger)
  BY <1>0, <1>1 DEF CmdOK, CmdFields, Pcs, Before, After
<1>2. CASE ProveCommitment
  <2>1. CASE Unproved = {}
    <3>1. cmd' = Failed \/ cmd' = [cmd EXCEPT !.pc = "sendSrc"]
      BY <1>2, <2>1 DEF ProveCommitment
    <3>2. CmdOK([cmd EXCEPT !.pc = "sendSrc"], ledger)
      BY <1>0 DEF CmdOK, CmdFields, Pcs, Before, After
    <3> QED
      BY <1>0, <3>1, <3>2, EndOK, HeightCmd
  <2>2. CASE Unproved # {}
    <3> DEFINE n == Min(Unproved)
               proof == Endorse(fabricLedgerKey(PathOf(cmd.kind, n)), n)
               new == [n |-> n, height |-> 0, proof |-> proof]
    <3>1. n \in Seqs
      <4>1. Unproved \in SUBSET Nat /\ Unproved \subseteq Seqs
        BY <1>0, ChainAssumption DEF Unproved, Seqs
      <4> QED
        BY <2>2, <4>1, MinOf
    <3>2. cmd' = Failed \/ cmd' = [cmd EXCEPT !.pc = "height", !.proofs = @ \cup {new}]
      BY <1>2, <2>2 DEF ProveCommitment
    <3>3. ProofOK(new)
      <4> HIDE DEF n, proof
      <4> QED
        BY <3>1 DEF ProofOK
    <3> HIDE DEF new
    <3>4. \A p \in cmd.proofs \cup {new} : ProofOK(p)
      BY <1>0, <3>3 DEF CmdOK
    <3>5. cmd' = Failed \/ CmdOK(cmd', ledger)
      BY <1>1, <3>2, <3>4
    <3> QED
      BY <1>0, <3>5, EndOK, HeightCmd
  <2> QED
    BY <2>1, <2>2
<1>3. CASE QueryProofHeight
  <2> DEFINE P == {IF p.height = 0 THEN [p EXCEPT !.height = Len(ledger)] ELSE p : p \in cmd.proofs}
  <2>1. \A p \in P : ProofOK(p)
    BY <1>0 DEF CmdOK, ProofOK
  <2>2. cmd' = [cmd EXCEPT !.pc = "prove", !.proofs = P]
    BY <1>3 DEF QueryProofHeight, Sequence
  <2> HIDE DEF P
  <2>3. CmdOK(cmd', ledger)
    BY <1>1, <2>1, <2>2
  <2> QED
    BY <1>0, <2>3, HeightCmd
<1> QED
  BY <1>2, <1>3
\* A transaction of the Fabric network, or none.
LEMMA HeightSendToSrc ==
    ASSUME HeightInv, SendToSrc \/ SendToSrcLost
    PROVE  HeightInv'
<1> DEFINE n == Min(cmd.list["dst"])
<1>0. /\ UNCHANGED <<net, late, signed, rival, ledger, client, cons>> /\ LedgerOK /\ CmdOK(cmd, ledger)
      /\ cmd.pc = "sendSrc" /\ Committed(cmd.hdr, ledger) /\ cmd.list \in [Chains -> SUBSET Seqs]
      /\ store \in [Chains -> Store] /\ "src" \in Chains /\ "dst" \in Chains
  BY DEF SendToSrc, SendToSrcLost, Fault, envVars, HeightInv, CmdOK, After, StoreOK, Chains
<1>1. LeftOK' /\ left'.packets = left.packets
  BY SpendOK DEF SendToSrc, SendToSrcLost, Fault, envVars, HeightInv, LeftOK
<1>2. cmd.list["dst"] # {} => n \in Seqs
  <2>1. cmd.list["dst"] \in SUBSET Nat /\ cmd.list["dst"] \subseteq Seqs
    BY <1>0, ChainAssumption DEF Seqs
  <2> QED
    BY <2>1, MinOf
<1>3. CmdOK(cmd', ledger)
  <2>1. /\ CmdOK([cmd EXCEPT !.pc = "sendDst"], ledger)
        /\ CmdOK([cmd EXCEPT !.pc = "sendDst", !.calm = FALSE], ledger)
    BY <1>0 DEF CmdOK, CmdFields, Pcs, Before, After
  <2>2. CmdOK([cmd EXCEPT !.list["dst"] = @ \ {n}], ledger)
    <3> DEFINE L == [cmd.list EXCEPT !["dst"] = @ \ {n}]
    <3>1. L \in [Chains -> SUBSET Seqs]
      BY <1>0
    <3>2. [cmd EXCEPT !.list["dst"] = @ \ {n}] = [cmd EXCEPT !.list = L]
      BY <1>0 DEF CmdOK, CmdFields
    <3> HIDE DEF L, n
    <3>3. CmdOK([cmd EXCEPT !.list = L], ledger)
      BY <1>0, <3>1 DEF CmdOK, CmdFields, Pcs, Before, After
    <3> QED
      BY <3>2, <3>3
  <2>3. \/ cmd' = [cmd EXCEPT !.pc = "sendDst"]
        \/ cmd' = [cmd EXCEPT !.pc = "sendDst", !.calm = FALSE]
        \/ cmd' = [cmd EXCEPT !.list["dst"] = @ \ {n}]
    BY DEF SendToSrc, SendToSrcLost
  <2> HIDE DEF n
  <2> QED
    BY <2>1, <2>2, <2>3
<1>4. store' \in [Chains -> Store] /\ \A c \in Chains : store'[c].sent = store[c].sent
  <2>1. \/ UNCHANGED store
        \/ /\ cmd.list["dst"] # {}
           /\ \E S \in SUBSET {n} : \/ store' = [store EXCEPT !["src"].recv = @ \cup S]
                                    \/ store' = [store EXCEPT !["src"].acked = @ \cup S]
    <3> DEFINE K == Commitments(store["src"])
    <3> HIDE DEF n, K
    <3>1. {n} \in SUBSET {n} /\ {n} \cap K \in SUBSET {n}
      OBVIOUS
    <3> QED
      BY <3>1, Zenon DEF SendToSrc, SendToSrcLost, n, K
  <2>2. ASSUME NEW S \in SUBSET Seqs,
               \/ store' = [store EXCEPT !["src"].recv = @ \cup S]
               \/ store' = [store EXCEPT !["src"].acked = @ \cup S]
        PROVE  store' \in [Chains -> Store] /\ \A c \in Chains : store'[c].sent = store[c].sent
    BY <1>0, <2>2 DEF Store
  <2> HIDE DEF n
  <2> QED
    BY <1>0, <1>2, <2>1, <2>2
<1> QED
  BY <1>0, <1>1, <1>3, <1>4, HeightElsewhere DEF HeightInv, NetOK

\* The transaction of "dst": its header is a committed one.
LEMMA HeightSendToDst ==
    ASSUME HeightInv, SendToDst
    PROVE  HeightInv'
<1>0. /\ UNCHANGED <<net, late, signed, rival, left, ledger>> /\ LedgerOK /\ CmdOK(cmd, ledger)
      /\ cmd.pc = "sendDst" /\ Committed(cmd.hdr, ledger)
      /\ store \in [Chains -> Store] /\ "dst" \in Chains
  BY DEF SendToDst, envVars, HeightInv, CmdOK, After, StoreOK, Chains
<1>1. CmdOK(cmd', ledger)
  BY <1>0, EndOK DEF SendToDst
<1>2. HeightsOn(ledger, cons')
  <2>1. UNCHANGED cons \/ (cmd.hdr # None /\ UpdateClient(cmd.hdr))
    BY DEF SendToDst
  <2> QED
    BY <1>0, <2>1, UpdateHeights DEF HeightInv
<1>3. store' \in [Chains -> Store] /\ \A c \in Chains : store'[c].sent = store[c].sent
  <2> DEFINE S == {p.n : p \in cmd.proofs}
             K == Commitments(store["dst"])
  <2>1. S \in SUBSET Seqs
    BY <1>0 DEF CmdOK, ProofOK
  <2>2. \/ UNCHANGED store
        \/ store' = [store EXCEPT !["dst"].recv = @ \cup S]
        \/ store' = [store EXCEPT !["dst"].acked = @ \cup (S \cap K)]
    BY DEF SendToDst
  <2> HIDE DEF S, K
  <2>3. S \cap K \in SUBSET Seqs
    BY <2>1
  <2> QED
    BY <1>0, <2>1, <2>2, <2>3 DEF Store
<1> QED
  BY <1>0, <1>1, <1>2, <1>3, HeightElsewhere DEF HeightInv, NetOK, LeftOK

\* A command dies.
LEMMA HeightAbort ==
    ASSUME HeightInv, Abort
    PROVE  HeightInv'
<1>1. /\ UNCHANGED <<net, late, signed, rival, ledger, store, client, cons>> /\ Spend("faults")
      /\ cmd' = [Failed EXCEPT !.calm = FALSE] /\ LedgerOK /\ CmdOK(cmd, ledger)
  BY DEF Abort, Fault, HeightInv
<1>2. LeftOK' /\ left'.packets = left.packets /\ CmdOK(cmd', ledger)
  BY <1>1, SpendOK, EndOK DEF HeightInv
<1> QED
  BY <1>1, <1>2, HeightElsewhere DEF HeightInv, NetOK, StoreOK

\* Every step keeps the invariant.
LEMMA HeightNext == HeightInv /\ [Next]_vars => HeightInv'
<1> SUFFICES ASSUME HeightInv, [Next]_vars PROVE HeightInv'
  OBVIOUS
<1>1. CASE UNCHANGED vars
  BY <1>1 DEF vars, envVars, HeightInv, NetOK, LeftOK, StoreOK, SentOK, LedgerOK, Sequence
<1>2. CASE CommandStep
  BY <1>2, HeightFirst, HeightCreate, HeightHeader, HeightListSrc, HeightAskDst, HeightListDst,
     HeightMetrics, HeightFilterSrc, HeightFilterDst, HeightTimeouts, HeightSetupHeaders,
     HeightCommit, HeightProve, HeightSendToSrc, HeightSendToDst DEF CommandStep
<1>3. CASE \E kind \in {"relay", "acks"}, pick \in {{}} \cup {{n} : n \in Seqs} : Begin(kind, pick)
  BY <1>3, HeightBegin
<1>4. CASE CommitLost \/ SendToSrcLost \/ Abort
  BY <1>4, HeightCommitLost, HeightSendToSrc, HeightAbort
<1>5. CASE BeginCreate \/ (\E c \in Chains : SendPacket(c)) \/ Expire \/ RivalAdvance \/ RivalUpdate
           \/ RivalToFabric
  BY <1>5, HeightFirst, HeightSendPacket, HeightExpire, HeightRivalAdvance, HeightRivalUpdate,
     HeightRivalToFabric
<1>6. CASE (\E o \in Movers : Rotate(o) \/ Repolicy(o) \/ Expel(o) \/ Join(o)) \/ Upgrade \/ Deliver
  BY <1>6, HeightGovernance, HeightDeliver
<1> QED
  BY <1>1, <1>2, <1>3, <1>4, <1>5, <1>6 DEF Next, Exhausted

\* The ledger, the stores, the lists and proofs of a command are well typed at any
\* time (chains/fabric, cmd/tx.go).
THEOREM TypeCorrect == Spec => []TypeOK
<1>1. HeightInv => TypeOK
  <2> SUFFICES ASSUME HeightInv PROVE TypeOK
    OBVIOUS
  <2>1. /\ CmdOK(cmd, ledger) /\ LedgerOK /\ NetOK /\ store \in [Chains -> Store]
        /\ late \in SUBSET Seqs /\ HeightsOn(ledger, cons)
    BY DEF HeightInv, StoreOK
  <2>2. DOMAIN cons \subseteq 1..Sequence
    BY <2>1 DEF HeightsOn, LedgerOK, Sequence
  <2> QED
    BY <2>1, <2>2 DEF TypeOK, CmdOK, ProofOK, LedgerOK, NetOK, Sequence, Pcs
<1> QED
  BY <1>1, HeightInit, HeightNext, PTL DEF Spec

\* Every height of the client is a sequence the ledger committed, with the committed
\* timestamp: neither a lost race for the sequence nor an unknown outcome of submit
\* leaves a header that could still be sent (chains/fabric/prover.go
\* SetupHeadersForUpdate, chains/fabric/chain.go).
THEOREM HeightsCorrect == Spec => []HeightsCommitted
<1>1. HeightInv => HeightsCommitted
  BY DEF HeightInv, HeightsOn, HeightsCommitted
<1> QED
  BY <1>1, HeightInit, HeightNext, PTL DEF Spec

-----------------------------------------------------------------------------
(* The MSP infos of the client *)

\* What the fold of applyMSPHeaders has for each set of positions of the headers.
Iter(infos, headers) ==
    CHOOSE g : g = [s \in SUBSET DOMAIN headers |->
                      IF s = {} THEN infos
                      ELSE applyMSPHeader(g[s \ {Max(s)}], headers[Max(s)])]

\* The fold, by its definition.
LEMMA FoldIsIter ==
    ASSUME NEW infos, NEW headers
    PROVE  applyMSPHeaders(infos, headers) = Iter(infos, headers)[DOMAIN headers]
  BY Zenon DEF applyMSPHeaders, FoldLeft, MapThenFoldSet, Iter

\* The positions of up to two headers.
LEMMA Positions ==
    /\ Max({1}) = 1 /\ Max({2}) = 2 /\ Max({1, 2}) = 2
    /\ {1} \ {1} = {} /\ {2} \ {2} = {} /\ {1, 2} \ {2} = {1}
    /\ {1} # {} /\ {2} # {} /\ {1, 2} # {} /\ {1} # {2} /\ {1, 2} \notin {{1}, {2}}
<1>1. Max({1}) = 1 /\ Max({2}) = 2 /\ Max({1, 2}) = 2
  BY DEF Max
<1> QED
  BY <1>1

\* No header changes nothing.
LEMMA ApplyNone ==
    ASSUME NEW infos
    PROVE  applyMSPHeaders(infos, <<>>) = infos
<1> DEFINE F(g) == [s \in SUBSET {} |->
                      IF s = {} THEN infos ELSE applyMSPHeader(g[s \ {Max(s)}], <<>>[Max(s)])]
           w == [s \in SUBSET {} |-> infos]
<1>1. F(w) = w
  OBVIOUS
<1>2. \A g : g = F(g) => g[{}] = infos
  OBVIOUS
<1>3. DOMAIN <<>> = {}
  OBVIOUS
<1>4. Iter(infos, <<>>) = CHOOSE g : g = F(g)
  BY <1>3 DEF Iter
<1> HIDE DEF F, w
<1>5. Iter(infos, <<>>)[{}] = infos
  BY <1>1, <1>2, <1>4
<1> QED
  BY <1>3, <1>5, FoldIsIter

\* One header.
LEMMA ApplyOne ==
    ASSUME NEW infos, NEW m
    PROVE  applyMSPHeaders(infos, <<m>>) = applyMSPHeader(infos, m)
<1> DEFINE h == <<m>>
           a == applyMSPHeader(infos, m)
           F(g) == [s \in SUBSET {1} |->
                      IF s = {} THEN infos ELSE applyMSPHeader(g[s \ {Max(s)}], h[Max(s)])]
           w == [s \in SUBSET {1} |-> IF s = {} THEN infos ELSE a]
<1>1. DOMAIN h = {1} /\ h[1] = m
  OBVIOUS
<1> HIDE DEF h
<1>2. \A s \in SUBSET {1} : s \in {{}, {1}}
  OBVIOUS
<1>3. F(w) = w
  <2>1. w[{}] = infos /\ w[{1}] = a
    OBVIOUS
  <2>2. F(w)[{}] = infos
    OBVIOUS
  <2>3. F(w)[{1}] = applyMSPHeader(w[{1} \ {Max({1})}], h[Max({1})])
    OBVIOUS
  <2>4. F(w)[{1}] = a
    BY <1>1, <2>1, <2>3, Positions
  <2>5. \A s \in SUBSET {1} : F(w)[s] = w[s]
    BY <1>2, <2>1, <2>2, <2>4
  <2> QED
    BY <2>5
<1>4. ASSUME NEW g, g = F(g) PROVE g[{1}] = a
  <2>1. g[{}] = infos
    BY <1>4
  <2>2. g[{1}] = applyMSPHeader(g[{1} \ {Max({1})}], h[Max({1})])
    BY <1>4
  <2> QED
    BY <1>1, <2>1, <2>2, Positions
<1>5. Iter(infos, h) = CHOOSE g : g = F(g)
  BY <1>1 DEF Iter
<1> HIDE DEF F, w
<1>6. Iter(infos, h)[{1}] = a
  BY <1>3, <1>4, <1>5
<1>7. applyMSPHeaders(infos, h) = a
  BY <1>1, <1>6, FoldIsIter
<1> QED
  BY <1>7 DEF h

\* Two headers, in their order.
LEMMA ApplyTwo ==
    ASSUME NEW infos, NEW m1, NEW m2
    PROVE  applyMSPHeaders(infos, <<m1, m2>>) = applyMSPHeader(applyMSPHeader(infos, m1), m2)
<1> DEFINE h == <<m1, m2>>
           a == applyMSPHeader(infos, m1)
           b == applyMSPHeader(infos, m2)
           c == applyMSPHeader(a, m2)
           F(g) == [s \in SUBSET {1, 2} |->
                      IF s = {} THEN infos ELSE applyMSPHeader(g[s \ {Max(s)}], h[Max(s)])]
           w == [s \in SUBSET {1, 2} |-> IF s = {} THEN infos ELSE IF s = {1} THEN a
                                         ELSE IF s = {2} THEN b ELSE c]
<1>1. DOMAIN h = {1, 2} /\ h[1] = m1 /\ h[2] = m2
  OBVIOUS
<1> HIDE DEF h
<1>2. \A s \in SUBSET {1, 2} : s \in {{}, {1}, {2}, {1, 2}}
  OBVIOUS
<1>3. F(w) = w
  <2>1. w[{}] = infos /\ w[{1}] = a /\ w[{2}] = b /\ w[{1, 2}] = c
    BY Positions
  <2>2. F(w)[{}] = infos
    OBVIOUS
  <2>3. F(w)[{1}] = applyMSPHeader(w[{1} \ {Max({1})}], h[Max({1})])
    OBVIOUS
  <2>4. F(w)[{2}] = applyMSPHeader(w[{2} \ {Max({2})}], h[Max({2})])
    OBVIOUS
  <2>5. F(w)[{1, 2}] = applyMSPHeader(w[{1, 2} \ {Max({1, 2})}], h[Max({1, 2})])
    OBVIOUS
  <2>6. F(w)[{1}] = a
    BY <1>1, <2>1, <2>3, Positions
  <2>7. F(w)[{2}] = b
    BY <1>1, <2>1, <2>4, Positions
  <2>8. F(w)[{1, 2}] = c
    BY <1>1, <2>1, <2>5, Positions
  <2>9. \A s \in SUBSET {1, 2} : F(w)[s] = w[s]
    BY <1>2, <2>1, <2>2, <2>6, <2>7, <2>8
  <2> QED
    BY <2>9
<1>4. ASSUME NEW g, g = F(g) PROVE g[{1, 2}] = c
  <2>1. g[{}] = infos
    BY <1>4
  <2>2. g[{1}] = applyMSPHeader(g[{1} \ {Max({1})}], h[Max({1})])
    BY <1>4
  <2>3. g[{1, 2}] = applyMSPHeader(g[{1, 2} \ {Max({1, 2})}], h[Max({1, 2})])
    BY <1>4
  <2>4. g[{1}] = a
    BY <1>1, <2>1, <2>2, Positions
  <2> QED
    BY <1>1, <2>3, <2>4, Positions
<1>5. Iter(infos, h) = CHOOSE g : g = F(g)
  BY <1>1 DEF Iter
<1> HIDE DEF F, w
<1>6. Iter(infos, h)[{1, 2}] = c
  BY <1>3, <1>4, <1>5
<1>7. applyMSPHeaders(infos, h) = c
  BY <1>1, <1>6, FoldIsIter
<1> QED
  BY <1>7 DEF h

\* An info is of an organisation, whose configuration it holds.
Infos ==
    {x \in [id : Orgs, config : [org : Orgs, gen : Nat], policy : SUBSET SUBSET Orgs,
            frozen : BOOLEAN] : x.config.org = x.id}

InfosOK(infos) == infos \in Seq(Infos)

Types == {"CREATE", "UPDATE_POLICY", "UPDATE_CONFIG", "FREEZE"}

\* A signed message about an organisation.
MSPMsgOK(m) ==
    /\ m.id \in Orgs /\ m.policy \in SUBSET SUBSET Orgs
    /\ m.type \in {"CREATE", "UPDATE_CONFIG"} => m.config \in [org : {m.id}, gen : Nat]

\* new has what old has, in its place and as frozen as it was; what is added is about
\* organisations that base has no info of.
Extends(base, old, new) ==
    /\ DOMAIN old \subseteq DOMAIN new
    /\ \A i \in DOMAIN old : new[i].id = old[i].id /\ (old[i].frozen => new[i].frozen)
    /\ \A i \in DOMAIN new \ DOMAIN old : \A j \in DOMAIN base : base[j].id # new[i].id

\* Where the first info of an organisation is.
LEMMA IndexOK ==
    ASSUME NEW infos, InfosOK(infos), NEW o
    PROVE  IF \E i \in DOMAIN infos : infos[i].id = o
           THEN /\ IndexOf(infos, o) \in DOMAIN infos /\ IndexOf(infos, o) # 0
                /\ infos[IndexOf(infos, o)].id = o
           ELSE IndexOf(infos, o) = 0
<1> DEFINE found == {i \in DOMAIN infos : infos[i].id = o}
<1>1. IndexOf(infos, o) = IF found = {} THEN 0 ELSE CHOOSE k \in found : \A j \in found : k <= j
  BY DEF IndexOf
<1>2. found \in SUBSET (Nat \ {0})
  BY DEF InfosOK
<1>3. CASE found = {}
  BY <1>1, <1>3
<1>4. CASE found # {}
  <2>1. Min(found) \in found
    BY <1>2, <1>4, MinOf
  <2>2. Min(found) = CHOOSE k \in found : \A j \in found : k <= j
    BY Zenon DEF Min
  <2>3. IndexOf(infos, o) \in found
    BY <1>1, <1>4, <2>1, <2>2
  <2> QED
    BY <1>2, <2>3
<1> QED
  BY <1>3, <1>4

\* What is created was not there, in the state that the message is verified with.
LEMMA CreatedNew ==
    ASSUME NEW cs, InfosOK(cs.infos), NEW m, verifyMSPHeader(cs, m)
    PROVE  /\ m.type \in Types
           /\ m.type = "CREATE" => \A j \in DOMAIN cs.infos : cs.infos[j].id # m.id
<1>1. m.type \in Types
  BY DEF verifyMSPHeader, Types
<1>2. m.type = "CREATE" => ~HasMSPID(cs.infos, m.id)
  BY DEF verifyMSPHeader, verifyMSPCreate
<1> QED
  BY <1>1, <1>2, IndexOK DEF HasMSPID

\* A change of the info at k.
LEMMA ChangeOK ==
    ASSUME NEW infos, InfosOK(infos), NEW base, NEW k \in DOMAIN infos, NEW info \in Infos,
           info.id = infos[k].id, infos[k].frozen => info.frozen,
           NEW new, new = [infos EXCEPT ![k] = info]
    PROVE  InfosOK(new) /\ Extends(base, infos, new)
<1>1. InfosOK(new)
  BY DEF InfosOK
<1>2. /\ DOMAIN new = DOMAIN infos /\ new[k] = info
      /\ \A i \in DOMAIN infos : i # k => new[i] = infos[i]
  BY DEF InfosOK
<1> QED
  BY <1>1, <1>2 DEF Extends

\* A header applied to infos, to which another one of the same message may have been
\* applied before.
LEMMA ApplyOK ==
    ASSUME NEW infos, InfosOK(infos), NEW base, NEW m, MSPMsgOK(m), m.type \in Types,
           m.type = "CREATE" => \A j \in DOMAIN base : base[j].id # m.id
    PROVE  InfosOK(applyMSPHeader(infos, m)) /\ Extends(base, infos, applyMSPHeader(infos, m))
<1> DEFINE k == IndexOf(infos, m.id)
           new == applyMSPHeader(infos, m)
<1>1. k = 0 \/ (k \in DOMAIN infos /\ k # 0 /\ infos[k].id = m.id /\ infos[k] \in Infos)
  BY IndexOK DEF InfosOK
<1>2. CASE m.type = "CREATE"
  <2> DEFINE info == [id |-> m.id, config |-> m.config, policy |-> m.policy, frozen |-> FALSE]
  <2>1. new = Append(infos, info)
    BY <1>2 DEF applyMSPHeader
  <2>2. info \in Infos /\ info.id = m.id
    BY <1>2 DEF Infos, MSPMsgOK
  <2> HIDE DEF info, new
  <2>3. InfosOK(new)
    BY <2>1, <2>2 DEF InfosOK
  <2>4. /\ DOMAIN infos \subseteq DOMAIN new
        /\ \A i \in DOMAIN infos : new[i] = infos[i]
        /\ \A i \in DOMAIN new \ DOMAIN infos : new[i] = info
    BY <2>1, <2>2 DEF InfosOK
  <2>5. Extends(base, infos, new)
    BY <1>2, <2>2, <2>4 DEF Extends
  <2> QED
    BY <2>3, <2>5 DEF new
<1>3. CASE m.type # "CREATE" /\ k = 0
  <2>1. new = infos
    BY <1>3 DEF applyMSPHeader, Types
  <2> QED
    BY <2>1 DEF Extends
<1>4. CASE m.type # "CREATE" /\ k # 0
  <2>0. k \in DOMAIN infos /\ infos[k].id = m.id /\ infos[k] \in Infos
    BY <1>1, <1>4
  <2> DEFINE info == CASE m.type = "UPDATE_POLICY" -> [infos[k] EXCEPT !.policy = m.policy]
                       [] m.type = "UPDATE_CONFIG" -> [infos[k] EXCEPT !.config = m.config]
                       [] m.type = "FREEZE" -> [infos[k] EXCEPT !.frozen = TRUE]
  <2>1. new = [infos EXCEPT ![k] = info]
    BY <1>4, <2>0 DEF applyMSPHeader, Types
  <2>2. info \in Infos /\ info.id = infos[k].id /\ (infos[k].frozen => info.frozen)
    <3>1. CASE m.type = "UPDATE_POLICY"
      BY <2>0, <3>1 DEF Infos, MSPMsgOK
    <3>2. CASE m.type = "UPDATE_CONFIG"
      BY <2>0, <3>2 DEF Infos, MSPMsgOK
    <3>3. CASE m.type = "FREEZE"
      BY <2>0, <3>3 DEF Infos
    <3> QED
      BY <1>4, <3>1, <3>2, <3>3 DEF Types
  <2> HIDE DEF info, k, new
  <2>3. InfosOK(new) /\ Extends(base, infos, new)
    BY <2>0, <2>1, <2>2, ChangeOK
  <2> QED
    BY <2>3 DEF new
<1> QED
  BY <1>2, <1>3, <1>4

\* Two headers of one message, both verified with base.
LEMMA ExtendsTwice ==
    ASSUME NEW base, NEW once, NEW twice, Extends(base, base, once), Extends(base, once, twice)
    PROVE  Extends(base, base, twice)
<1>1. DOMAIN base \subseteq DOMAIN once /\ DOMAIN once \subseteq DOMAIN twice
  BY DEF Extends
<1>2. \A i \in DOMAIN base : twice[i].id = base[i].id /\ (base[i].frozen => twice[i].frozen)
  BY <1>1 DEF Extends
<1>3. ASSUME NEW i \in DOMAIN twice \ DOMAIN base, NEW j \in DOMAIN base
      PROVE  base[j].id # twice[i].id
  <2>1. CASE i \in DOMAIN once
    BY <2>1 DEF Extends
  <2>2. CASE i \notin DOMAIN once
    BY <2>2 DEF Extends
  <2> QED
    BY <2>1, <2>2
<1> QED
  BY <1>1, <1>2, <1>3 DEF Extends

\* The signatures of an organisation whose only info is frozen do not count.
LEMMA FrozenDoesNotCount ==
    ASSUME NEW cs, InfosOK(cs.infos), NEW i \in DOMAIN cs.infos, cs.infos[i].frozen,
           NEW o, InfosOf(cs, o) = {i}
    PROVE  ~Counts(cs, o)
<1> SUFFICES ASSUME Counts(cs, o) PROVE FALSE
  OBVIOUS
<1>1. PICK j \in LiveInfos(cs.infos) : cs.infos[j].config.org = o
  BY DEF Counts, TrustedConfigs
<1>2. j \in DOMAIN cs.infos /\ ~cs.infos[j].frozen
  BY <1>1 DEF LiveInfos
<1>3. cs.infos[j].id = o
  BY <1>1, <1>2 DEF InfosOK, Infos
<1>4. j \in InfosOf(cs, o)
  BY <1>2, <1>3 DEF InfosOf
<1> QED
  BY <1>2, <1>4

-----------------------------------------------------------------------------
(* Frozen organisations *)

\* A client message with a sequence, or none at all, has no MSP headers.
Plain(m) == m # None => m.msps = None

\* Which command is in which phase.
KindOK(c) ==
    /\ c.pc \in {"first", "second", "install"} => c.kind = "create"
    /\ c.kind = "create" => c.pc \in {"first", "commit", "second", "install", "failed"}

\* The client is there for the commands that relay, and not for the one that creates it.
FreezeInv ==
    /\ HeightInv
    /\ client # None => InfosOK(client.infos)
    /\ KindOK(cmd) /\ (Running => (cmd.kind = "create" <=> client = None))
    /\ \A m \in signed : ~IsInfo(m) => MSPMsgOK(m)
    /\ Plain(rival) /\ Plain(cmd.hdr)

\* The infos of a new client.
LEMMA LoadedOK == InfosOK(loadMSPInfos)
<1> DEFINE n == Cardinality(Founders)
           D == 1..n
           order == SetToSeq(Founders)
<1>1. n \in Nat /\ ExistsBijection(D, Founders)
  <2>1. IsFiniteSet(Founders)
    BY FabricAssumption, FS_Subset
  <2> QED
    BY <2>1, FS_CardinalityType
<1>2. \E f \in [D -> Founders] : IsInjective(f)
  BY <1>1 DEF ExistsBijection, Bijection, Injection
<1>3. order \in [D -> Founders]
  <2>1. order = CHOOSE f \in [D -> Founders] : IsInjective(f)
    BY DEF SetToSeq
  <2> HIDE DEF D, order
  <2> QED
    BY <1>2, <2>1
<1> DEFINE Info(o) == [id |-> o, config |-> [org |-> o, gen |-> 1], policy |-> {{o}}, frozen |-> FALSE]
<1>4. \A o \in Founders : Info(o) \in Infos
  BY FabricAssumption DEF Infos
<1>5. loadMSPInfos = [i \in D |-> Info(order[i])]
  BY <1>3 DEF loadMSPInfos
<1> HIDE DEF order, Info, n
<1>6. loadMSPInfos \in [1..n -> Infos]
  BY <1>3, <1>4, <1>5
<1> QED
  BY <1>1, <1>6 DEF InfosOK

\* An update without MSP headers, or with up to two of them that were signed.
LEMMA UpdateOK ==
    ASSUME InfosOK(client.infos), NEW msg, UpdateClient(msg),
           \/ msg.msps = None
           \/ /\ msg.msps # None
              /\ \/ msg.msps.headers = <<>>
                 \/ \E m : msg.msps.headers = <<m>> /\ MSPMsgOK(m)
                 \/ \E m1, m2 : msg.msps.headers = <<m1, m2>> /\ MSPMsgOK(m1) /\ MSPMsgOK(m2)
    PROVE  /\ client' # None /\ InfosOK(client'.infos)
           /\ Extends(client.infos, client.infos, client'.infos)
<1> DEFINE h == msg.msps.headers
<1>0. client' # None
  BY DEF UpdateClient, UpdateState, None
<1>1. client'.infos = IF msg.msps = None THEN client.infos ELSE applyMSPHeaders(client.infos, h)
  BY DEF UpdateClient, UpdateState
<1>2. msg.msps # None => \A i \in DOMAIN h : verifyMSPHeader(client, h[i])
  BY DEF UpdateClient, VerifyClientMessage
<1>e. Extends(client.infos, client.infos, client.infos)
  BY DEF Extends
<1>3. CASE msg.msps = None
  BY <1>0, <1>1, <1>3, <1>e
<1>4. CASE msg.msps # None /\ h = <<>>
  BY <1>0, <1>1, <1>4, <1>e, ApplyNone
<1>5. CASE msg.msps # None /\ \E m : h = <<m>> /\ MSPMsgOK(m)
  <2>1. PICK m : h = <<m>> /\ MSPMsgOK(m)
    BY <1>5
  <2>2. verifyMSPHeader(client, m)
    BY <1>2, <1>5, <2>1
  <2>3. /\ m.type \in Types
        /\ m.type = "CREATE" => \A j \in DOMAIN client.infos : client.infos[j].id # m.id
    BY <2>2, CreatedNew
  <2>4. client'.infos = applyMSPHeader(client.infos, m)
    BY <1>1, <1>5, <2>1, ApplyOne
  <2> QED
    BY <1>0, <2>1, <2>3, <2>4, ApplyOK
<1>6. CASE msg.msps # None /\ \E m1, m2 : h = <<m1, m2>> /\ MSPMsgOK(m1) /\ MSPMsgOK(m2)
  <2>1. PICK m1, m2 : h = <<m1, m2>> /\ MSPMsgOK(m1) /\ MSPMsgOK(m2)
    BY <1>6
  <2>2. verifyMSPHeader(client, m1) /\ verifyMSPHeader(client, m2)
    <3>1. 1 \in DOMAIN <<m1, m2>> /\ 2 \in DOMAIN <<m1, m2>> /\ <<m1, m2>>[1] = m1 /\ <<m1, m2>>[2] = m2
      OBVIOUS
    <3> QED
      BY <1>2, <1>6, <2>1, <3>1
  <2>3. /\ m1.type \in Types /\ m2.type \in Types
        /\ m1.type = "CREATE" => \A j \in DOMAIN client.infos : client.infos[j].id # m1.id
        /\ m2.type = "CREATE" => \A j \in DOMAIN client.infos : client.infos[j].id # m2.id
    BY <2>2, CreatedNew
  <2> DEFINE base == client.infos
             once == applyMSPHeader(base, m1)
             twice == applyMSPHeader(once, m2)
  <2>4. client'.infos = twice
    BY <1>1, <1>6, <2>1, ApplyTwo
  <2>5. InfosOK(once) /\ Extends(base, base, once)
    BY <2>1, <2>3, ApplyOK
  <2>6. InfosOK(twice) /\ Extends(base, once, twice)
    <3> HIDE DEF once
    <3> QED
      BY <2>1, <2>3, <2>5, ApplyOK
  <2> HIDE DEF once, twice, base
  <2>7. Extends(base, base, twice)
    BY <2>5, <2>6, ExtendsTwice
  <2> QED
    BY <1>0, <2>4, <2>6, <2>7 DEF base
<1> QED
  BY <1>3, <1>4, <1>5, <1>6

\* The steps of a command that leave the client alone.
Thinking ==
    \/ EndorseFirst \/ QueryFirst
    \/ GetLatestFinalizedHeader \/ AskDst \/ updateBacklogMetrics \/ FilterSrc
    \/ (\E lost \in Losses : ListSrc(lost) \/ ListDst(lost) \/ FilterDst(lost))
    \/ ProcessTimeoutPackets \/ SetupHeadersForUpdate
    \/ CommitSequence \/ ProveCommitment \/ QueryProofHeight \/ SendToSrc
    \/ CommitLost \/ SendToSrcLost \/ Abort

\* c is the command with the header and the kind it has now.
SameHeader(c) == DOMAIN c = CmdFields /\ c.hdr = cmd.hdr /\ c.kind = cmd.kind

\* The lists go on to the next phase.
LEMMA ListsGoOn ==
    ASSUME NEW next, SameHeader(next), next.pc \in {"lists", "filter"},
           Wait(next) \/ Filtered(next) \/ TryFilterRelayPackets(next)
    PROVE  /\ SameHeader(cmd')
           /\ cmd'.pc \in {"lists", "metrics", "filter", "timeouts", "advance", "failed"}
<1>1. CASE Wait(next)
  BY <1>1 DEF Wait, SameHeader, CmdFields
<1>2. ASSUME TryFilterRelayPackets(next)
      PROVE  SameHeader(cmd') /\ cmd'.pc \in {"advance", "failed"}
  BY <1>2 DEF TryFilterRelayPackets, SameHeader, CmdFields
<1>3. CASE Filtered(next)
  <2>1. CASE cmd' = next
    BY <2>1
  <2>2. CASE cmd' = [next EXCEPT !.pc = "timeouts"]
    BY <2>2 DEF SameHeader, CmdFields
  <2> QED
    BY <1>2, <1>3, <2>1, <2>2 DEF Filtered
<1> QED
  BY <1>1, <1>2, <1>3

\* A command that runs either keeps its header, or has just had it endorsed.
LEMMA HeaderOf ==
    ASSUME HeightInv, KindOK(cmd), Thinking
    PROVE  /\ Running /\ cmd'.hdr \in {cmd.hdr, NextHeader("us")}
           /\ cmd'.kind = cmd.kind /\ KindOK(cmd')
           /\ UNCHANGED <<client, signed, rival>>
<1>0. DOMAIN cmd = CmdFields
  BY DEF HeightInv, CmdOK
<1>f. Failed.hdr = cmd.hdr /\ DOMAIN Failed = CmdFields /\ Failed.pc = "failed" /\ Failed.kind = cmd.kind
  BY <1>0 DEF Failed, CmdFields
<1>k. ASSUME Running, cmd.pc \notin {"first", "commit", "second", "install"},
             cmd'.kind = cmd.kind, cmd'.pc \notin {"first", "second", "install"}
      PROVE  KindOK(cmd')
  BY <1>k DEF KindOK, Running
<1>1. CASE EndorseFirst \/ QueryFirst
  BY <1>0, <1>1 DEF EndorseFirst, QueryFirst, CmdFields, envVars, KindOK, Running
<1>2. CASE GetLatestFinalizedHeader
  BY <1>0, <1>2 DEF GetLatestFinalizedHeader, CmdFields, envVars, KindOK, Running
<1>3. CASE \E lost \in Losses : ListSrc(lost)
  <2>1. PICK lost \in Losses : ListSrc(lost)
    BY <1>3
  <2>2. cmd.pc = "lists" /\ UNCHANGED <<client, signed, rival>>
    BY <2>1 DEF ListSrc, MayLose, Fault, envVars
  <2> DEFINE S == IF cmd.kind = "relay" THEN QueryUnfinalizedRelayPackets(store["src"], lost)
                  ELSE QueryUnfinalizedRelayAcknowledgements(store["src"], lost)
             T == (cmd.todo \ {"src"}) \cup {"ask"}
             b == cmd.calm /\ lost = {}
  <2>3. cmd' = Listing("src", S, T, Sequence, b)
    BY <2>1 DEF ListSrc, Listing
  <2> HIDE DEF S, T, b
  <2>4. cmd'.pc = cmd.pc /\ cmd'.kind = cmd.kind /\ cmd'.hdr = cmd.hdr
    BY <1>0, <2>3 DEF Listing, CmdFields
  <2> QED
    BY <1>k, <2>2, <2>4 DEF Running
<1>w. ASSUME UNCHANGED <<client, signed, rival>>, cmd.pc \in {"lists", "filter"},
             NEW next, SameHeader(next), next.pc = cmd.pc,
             Wait(next) \/ Filtered(next) \/ TryFilterRelayPackets(next)
      PROVE  /\ Running /\ cmd'.hdr \in {cmd.hdr, NextHeader("us")}
             /\ cmd'.kind = cmd.kind /\ KindOK(cmd')
             /\ UNCHANGED <<client, signed, rival>>
  <2>1. /\ SameHeader(cmd')
        /\ cmd'.pc \in {"lists", "metrics", "filter", "timeouts", "advance", "failed"}
    BY <1>w, ListsGoOn
  <2> QED
    BY <1>k, <1>w, <2>1 DEF SameHeader, Running
<1>4. CASE AskDst
  <2> DEFINE next == [cmd EXCEPT !.todo = @ \ {"ask"},
                        !.list["src"] = IF cmd.kind = "relay"
                                        THEN UnreceivedPackets(store["dst"], @)
                                        ELSE UnreceivedAcks(store["dst"], @)]
  <2>1. cmd.pc = "lists" /\ UNCHANGED <<client, signed, rival>> /\ Wait(next)
    BY <1>4 DEF AskDst, envVars
  <2>2. SameHeader(next) /\ next.pc = cmd.pc
    BY <1>0 DEF SameHeader, CmdFields
  <2> HIDE DEF next
  <2> QED
    BY <1>w, <2>1, <2>2
<1>5. CASE \E lost \in Losses : ListDst(lost)
  <2>0. PICK lost \in Losses : ListDst(lost)
    BY <1>5
  <2> DEFINE next == [cmd EXCEPT !.todo = @ \ {"dst"}, !.calm = @ /\ lost = {},
                        !.list["dst"] = IF cmd.kind = "relay"
                           THEN UnreceivedPackets(store["src"], Commitments(cmd.snap))
                           ELSE QueryUnreceivedAcknowledgements(store["src"], cmd.snap.recv, lost)]
  <2>1. cmd.pc = "lists" /\ UNCHANGED <<client, signed, rival>> /\ Wait(next)
    BY <2>0 DEF ListDst, MayLose, Fault, envVars
  <2>2. SameHeader(next) /\ next.pc = cmd.pc
    BY <1>0 DEF SameHeader, CmdFields
  <2> HIDE DEF next
  <2> QED
    BY <1>w, <2>1, <2>2
<1>6. CASE updateBacklogMetrics
  <2>1. /\ cmd.pc = "metrics" /\ UNCHANGED <<client, signed, rival>>
        /\ cmd' \in {Failed, [cmd EXCEPT !.pc = "filter"]}
    BY <1>6 DEF updateBacklogMetrics, envVars
  <2>2. cmd'.kind = cmd.kind /\ cmd'.hdr = cmd.hdr /\ cmd'.pc \in {"failed", "filter"}
    BY <1>0, <1>f, <2>1 DEF CmdFields
  <2> QED
    BY <1>k, <2>1, <2>2 DEF Running
<1>7. CASE FilterSrc
  <2> DEFINE next == [cmd EXCEPT !.todo = @ \ {"src"},
                            !.list["src"] = IF cmd.kind = "relay"
                                            THEN UnreceivedPackets(store["dst"], @)
                                            ELSE UnreceivedAcks(store["dst"], @)]
  <2>1. cmd.pc = "filter" /\ UNCHANGED <<client, signed, rival>> /\ Filtered(next)
    BY <1>7 DEF FilterSrc, envVars
  <2>2. SameHeader(next) /\ next.pc = cmd.pc
    BY <1>0 DEF SameHeader, CmdFields
  <2> HIDE DEF next
  <2> QED
    BY <1>w, <2>1, <2>2
<1>8. CASE \E lost \in Losses : FilterDst(lost)
  <2>0. PICK lost \in Losses : FilterDst(lost)
    BY <1>8
  <2> DEFINE next == [cmd EXCEPT !.todo = @ \ {"dst"}, !.calm = @ /\ lost = {},
                            !.list["dst"] = IF cmd.kind = "relay"
                               THEN UnreceivedPackets(store["src"], @)
                               ELSE QueryUnreceivedAcknowledgements(store["src"], @, lost)]
  <2>1. cmd.pc = "filter" /\ UNCHANGED <<client, signed, rival>> /\ Filtered(next)
    BY <2>0 DEF FilterDst, MayLose, Fault, envVars
  <2>2. SameHeader(next) /\ next.pc = cmd.pc
    BY <1>0 DEF SameHeader, CmdFields
  <2> HIDE DEF next
  <2> QED
    BY <1>w, <2>1, <2>2
<1>9. CASE ProcessTimeoutPackets
  <2>0. cmd.pc = "timeouts" /\ UNCHANGED <<client, signed, rival>>
    BY <1>9 DEF ProcessTimeoutPackets, envVars
  <2> DEFINE next == [cmd EXCEPT
               !.timeouts = cmd.list["dst"] \cap Last(ledger).late,
               !.list["dst"] = @ \ Last(ledger).late]
  <2>1. DOMAIN next = CmdFields /\ next.hdr = cmd.hdr /\ next.kind = cmd.kind
    BY <1>0 DEF CmdFields
  <2>2. CASE TryFilterRelayPackets(next)
    <3> HIDE DEF next
    <3>1. cmd'.hdr = cmd.hdr /\ cmd'.kind = cmd.kind /\ cmd'.pc \in {"advance", "failed"}
      BY <2>1, <2>2 DEF TryFilterRelayPackets, CmdFields
    <3> QED
      BY <1>k, <2>0, <3>1 DEF Running
  <2>3. CASE cmd' = Failed
    BY <1>f, <1>k, <2>0, <2>3 DEF Running
  <2> QED
    BY <1>9, <2>2, <2>3 DEF ProcessTimeoutPackets
<1>10. CASE SetupHeadersForUpdate
  <2>1. /\ cmd.pc = "advance" /\ UNCHANGED <<client, signed, rival>>
        /\ cmd'.hdr \in {cmd.hdr, NextHeader("us")} /\ cmd'.kind = cmd.kind
        /\ cmd'.pc \in {"commit", "sendSrc"}
    BY <1>0, <1>10 DEF SetupHeadersForUpdate, CmdFields, envVars
  <2> QED
    BY <1>k, <2>1 DEF Running
<1>11. CASE CommitSequence
  <2>1. cmd.pc = "commit" /\ UNCHANGED <<client, signed, rival>>
    BY <1>11 DEF CommitSequence, envVars
  <2>2. CASE cmd' = [cmd EXCEPT !.pc = IF cmd.kind = "create" THEN "second" ELSE "prove"]
    BY <1>0, <2>1, <2>2 DEF CmdFields, KindOK, Running
  <2>3. CASE cmd' = Failed
    BY <1>f, <2>1, <2>3 DEF KindOK, Running
  <2> QED
    BY <1>11, <2>2, <2>3 DEF CommitSequence
<1>12. CASE ProveCommitment
  <2>1. cmd.pc = "prove" /\ UNCHANGED <<client, signed, rival>>
    BY <1>12 DEF ProveCommitment, envVars
  <2> DEFINE n == Min(Unproved)
             key == fabricLedgerKey(PathOf(cmd.kind, n))
             new == [cmd EXCEPT !.pc = "height",
                              !.proofs = @ \cup {[n |-> n, height |-> 0,
                                                  proof |-> Endorse(key, n)]}]
  <2>2. cmd' \in {new, Failed, [cmd EXCEPT !.pc = "sendSrc"]}
    BY <1>12 DEF ProveCommitment
  <2>3. new.hdr = cmd.hdr /\ new.kind = cmd.kind /\ new.pc = "height"
    BY <1>0 DEF CmdFields
  <2> HIDE DEF new
  <2>4. cmd'.hdr = cmd.hdr /\ cmd'.kind = cmd.kind /\ cmd'.pc \in {"height", "failed", "sendSrc"}
    BY <1>0, <1>f, <2>2, <2>3 DEF CmdFields
  <2> QED
    BY <1>k, <2>1, <2>4 DEF Running
<1>13. CASE QueryProofHeight
  <2>1. /\ cmd.pc = "height" /\ UNCHANGED <<client, signed, rival>>
        /\ cmd'.hdr = cmd.hdr /\ cmd'.kind = cmd.kind /\ cmd'.pc = "prove"
    BY <1>0, <1>13 DEF QueryProofHeight, CmdFields, envVars
  <2> QED
    BY <1>k, <2>1 DEF Running
<1>14. CASE SendToSrc \/ SendToSrcLost
  <2>1. /\ cmd.pc = "sendSrc" /\ UNCHANGED <<client, signed, rival>>
        /\ cmd'.hdr = cmd.hdr /\ cmd'.kind = cmd.kind /\ cmd'.pc \in {"sendSrc", "sendDst"}
    BY <1>0, <1>14 DEF SendToSrc, SendToSrcLost, CmdFields, envVars, Fault
  <2> QED
    BY <1>k, <2>1 DEF Running
<1>15. CASE CommitLost \/ Abort
  BY <1>0, <1>15, <1>f DEF CommitLost, Abort, Fault, Running, CmdFields, KindOK
<1> QED
  BY <1>1, <1>2, <1>3, <1>4, <1>5, <1>6, <1>7, <1>8, <1>9, <1>10, <1>11, <1>12, <1>13, <1>14, <1>15
     DEF Thinking

\* Nothing is known, signed or held before there is a client.
LEMMA FreezeInit == Init => FreezeInv
<1> SUFFICES ASSUME Init PROVE FreezeInv
  OBVIOUS
<1>1. HeightInv
  BY HeightInit
<1>2. client = None /\ rival = None /\ signed = {} /\ cmd.pc = "idle" /\ cmd.kind = "none" /\ cmd.hdr = None
  BY DEF Init, Idle
<1> QED
  BY <1>1, <1>2 DEF FreezeInv, Plain, KindOK, Running

\* A step that leaves the client alone and gives the command or the rival no message
\* with MSP headers.
LEMMA FreezeQuiet ==
    ASSUME FreezeInv, HeightInv', UNCHANGED <<client, signed>>, Plain(rival'), Plain(cmd'.hdr),
           KindOK(cmd'), Running' => (cmd'.kind = "create" <=> client = None)
    PROVE  FreezeInv'
  BY DEF FreezeInv, Plain, IsInfo, MSPMsgOK, InfosOK, KindOK

\* A disturbed command keeps its phase and its header.
LEMMA DisturbHeader ==
    ASSUME HeightInv, Disturb
    PROVE  cmd'.pc = cmd.pc /\ cmd'.hdr = cmd.hdr /\ cmd'.kind = cmd.kind
  BY DEF HeightInv, CmdOK, CmdFields, Disturb

\* A header that is endorsed carries no MSP headers.
LEMMA EndorsedPlain == \A who : Plain(NextHeader(who))
  BY DEF Plain, NextHeader

\* Governance signs what it says about the organisation itself.
LEMMA FreezePublish ==
    ASSUME FreezeInv, HeightInv', NEW m, NEW by, Publish(m, by),
           DOMAIN m = {"type", "id", "config", "policy", "proof"} \/ IsInfo(m),
           ~IsInfo(m) => MSPMsgOK(m)
    PROVE  FreezeInv'
<1>1. /\ client # None /\ UNCHANGED <<client, rival>> /\ Disturb
      /\ signed' = signed \cup {Sign(m, {s \in Signers : s.org \in by})}
  BY DEF Publish
<1>2. cmd'.pc = cmd.pc /\ cmd'.hdr = cmd.hdr /\ cmd'.kind = cmd.kind
  BY <1>1, DisturbHeader DEF FreezeInv
<1> DEFINE sm == Sign(m, {s \in Signers : s.org \in by})
<1>3. ~IsInfo(sm) => MSPMsgOK(sm)
  <2>1. DOMAIN sm = DOMAIN m
    BY DEF Sign
  <2>2. CASE IsInfo(m)
    BY <2>1, <2>2 DEF IsInfo
  <2>3. CASE ~IsInfo(m)
    <3>1. sm.id = m.id /\ sm.type = m.type /\ sm.config = m.config /\ sm.policy = m.policy
      BY <2>3 DEF Sign
    <3> QED
      BY <2>3, <3>1 DEF MSPMsgOK
  <2> QED
    BY <2>2, <2>3
<1> HIDE DEF sm
<1>4. \A x \in signed' : ~IsInfo(x) => MSPMsgOK(x)
  BY <1>1, <1>3 DEF FreezeInv, sm
<1> QED
  BY <1>1, <1>2, <1>4 DEF FreezeInv, Plain, InfosOK, KindOK, Running

\* The client's infos after a step: the invariant, and what was frozen stays frozen and
\* is not created again.
FreezeStep ==
    /\ FreezeInv'
    /\ client # None => client' # None /\ Extends(client.infos, client.infos, client'.infos)

\* A step of somebody else that updates the client.
LEMMA FreezeUpdate ==
    ASSUME FreezeInv, HeightInv', client # None, client' # None, InfosOK(client'.infos),
           Extends(client.infos, client.infos, client'.infos), UNCHANGED signed,
           Plain(rival'), Plain(cmd'.hdr), KindOK(cmd'), Running' => cmd'.kind # "create"
    PROVE  FreezeStep
  BY DEF FreezeStep, FreezeInv, Plain, IsInfo, MSPMsgOK, KindOK

\* Deliveries of governance messages.
LEMMA FreezeDeliver ==
    ASSUME FreezeInv, HeightInv', Deliver
    PROVE  FreezeStep
<1> DEFINE Mine == {m \in signed : ~IsInfo(m)}
<1>1. PICK info \in {None} \cup {m \in signed : IsInfo(m)},
           msps \in {None} \cup {[headers |-> h] : h \in BoundedSeq(Mine, MaxHeaders)} :
           /\ UpdateClient([sequence |-> None, proof |-> None, info |-> info, msps |-> msps])
           /\ client' # client
  BY Zenon DEF Deliver
<1> DEFINE msg == [sequence |-> None, proof |-> None, info |-> info, msps |-> msps]
<1>2. UpdateClient(msg) /\ msg.msps = msps
  BY <1>1
<1>3. \A m \in Mine : MSPMsgOK(m)
  BY DEF FreezeInv
<1> HIDE DEF Mine, msg
<1>4. ASSUME msps # None
      PROVE  \/ msps.headers = <<>>
             \/ \E m : msps.headers = <<m>> /\ MSPMsgOK(m)
             \/ \E m1, m2 : msps.headers = <<m1, m2>> /\ MSPMsgOK(m1) /\ MSPMsgOK(m2)
  <2>1. PICK h \in BoundedSeq(Mine, MaxHeaders) : msps = [headers |-> h]
    BY <1>4
  <2>2. PICK k \in 0..2 : h \in [1..k -> Mine]
    BY DEF BoundedSeq, SeqOf, MaxHeaders
  <2>h. msps.headers = h
    BY <2>1
  <2>3. CASE k = 0
    <3>1. h = <<>>
      BY <2>2, <2>3
    <3> QED
      BY <2>h, <3>1
  <2>4. CASE k = 1
    <3>1. h = <<h[1]>> /\ h[1] \in Mine
      BY <2>2, <2>4
    <3> QED
      BY <1>3, <2>h, <3>1
  <2>5. CASE k = 2
    <3>1. h = <<h[1], h[2]>> /\ h[1] \in Mine /\ h[2] \in Mine
      BY <2>2, <2>5
    <3> QED
      BY <1>3, <2>h, <3>1
  <2> QED
    BY <2>3, <2>4, <2>5
<1>5. client # None /\ InfosOK(client.infos) /\ UNCHANGED <<signed, rival>> /\ Disturb
  BY DEF Deliver, envVars, FreezeInv
<1>6. /\ client' # None /\ InfosOK(client'.infos)
      /\ Extends(client.infos, client.infos, client'.infos)
  BY <1>2, <1>4, <1>5, UpdateOK
<1>7. cmd'.pc = cmd.pc /\ cmd'.hdr = cmd.hdr /\ cmd'.kind = cmd.kind
  BY <1>5, DisturbHeader DEF FreezeInv
<1> QED
  BY <1>5, <1>6, <1>7, FreezeUpdate DEF FreezeInv, KindOK, Running

\* Every step keeps the invariant, and what is frozen frozen.
LEMMA FreezeNext == FreezeInv /\ [Next]_vars => FreezeStep
<1> SUFFICES ASSUME FreezeInv, [Next]_vars PROVE FreezeStep
  OBVIOUS
<1>0. /\ HeightInv /\ HeightInv' /\ Plain(cmd.hdr) /\ Plain(rival) /\ KindOK(cmd) /\ Plain(None)
      /\ Running => (cmd.kind = "create" <=> client = None)
      /\ client # None => InfosOK(client.infos)
  BY HeightNext DEF FreezeInv, Plain
<1>q. ASSUME UNCHANGED client, FreezeInv' PROVE FreezeStep
  BY <1>q DEF FreezeStep, Extends
<1>d. ASSUME Disturb
      PROVE  /\ cmd'.pc = cmd.pc /\ cmd'.hdr = cmd.hdr /\ cmd'.kind = cmd.kind
             /\ Plain(cmd'.hdr) /\ KindOK(cmd')
             /\ Running' => (cmd'.kind = "create" <=> client = None)
  <2>1. cmd'.pc = cmd.pc /\ cmd'.hdr = cmd.hdr /\ cmd'.kind = cmd.kind
    BY <1>0, <1>d, DisturbHeader
  <2> QED
    BY <1>0, <2>1 DEF Plain, KindOK, Running
<1>1. CASE BeginCreate
  <2>1. /\ client = None /\ UNCHANGED <<client, signed, rival>> /\ cmd'.kind = "create"
        /\ cmd'.hdr = None /\ cmd'.pc \in {"first", "install"}
    BY <1>1 DEF BeginCreate, envVars, Idle
  <2> QED
    BY <1>0, <1>q, <2>1, FreezeQuiet DEF KindOK
<1>2. CASE CreateClient
  <2>1. /\ client = None /\ client'.infos = loadMSPInfos /\ UNCHANGED <<signed, rival>> /\ cmd' = Idle
    BY <1>0, <1>2 DEF CreateClient, NewClientState, envVars, KindOK, Running
  <2>2. cmd'.pc = "idle" /\ cmd'.kind = "none" /\ cmd'.hdr = None
    BY <2>1 DEF Idle
  <2> QED
    BY <1>0, <2>1, <2>2, LoadedOK DEF FreezeStep, FreezeInv, KindOK, Running
<1>3. CASE \E c \in Chains : SendPacket(c)
  <2>1. UNCHANGED <<client, signed, rival, cmd>>
    BY <1>3 DEF SendPacket
  <2> QED
    BY <1>0, <1>q, <2>1, FreezeQuiet DEF Running
<1>4. CASE Expire \/ RivalToFabric
  <2>1. UNCHANGED <<client, signed, rival>> /\ Disturb
    BY <1>4 DEF Expire, RivalToFabric
  <2> QED
    BY <1>0, <1>d, <1>q, <2>1, FreezeQuiet
<1>5. CASE RivalAdvance
  <2>1. UNCHANGED <<client, signed>> /\ Disturb /\ rival' = NextHeader("rival")
    BY <1>5 DEF RivalAdvance
  <2> QED
    BY <1>0, <1>d, <1>q, <2>1, FreezeQuiet, EndorsedPlain
<1>6. CASE RivalUpdate
  <2>1. /\ rival # None /\ UpdateClient(rival) /\ rival' = None /\ Disturb /\ UNCHANGED signed
        /\ client # None
    BY <1>6 DEF RivalUpdate
  <2>2. rival.msps = None
    BY <1>0, <2>1 DEF Plain
  <2>3. /\ client' # None /\ InfosOK(client'.infos)
        /\ Extends(client.infos, client.infos, client'.infos)
    BY <1>0, <2>1, <2>2, UpdateOK
  <2> QED
    BY <1>0, <1>d, <2>1, <2>3, FreezeUpdate
<1>7. CASE \E o \in Movers : Rotate(o) \/ Repolicy(o) \/ Expel(o) \/ Join(o)
  <2>1. PICK o \in Movers : Rotate(o) \/ Repolicy(o) \/ Expel(o) \/ Join(o)
    BY <1>7
  <2>2. o \in Orgs /\ net.gen[o] \in Nat /\ net.members \in SUBSET Orgs
    BY <1>0, FabricAssumption DEF HeightInv, NetOK
  <2>3. /\ {} \in SUBSET SUBSET Orgs /\ {{o}} \in SUBSET SUBSET Orgs
        /\ Majority(net.members) \in SUBSET SUBSET Orgs
        /\ [org |-> o, gen |-> net.gen[o] + 1] \in [org : {o}, gen : Nat]
    BY <2>2 DEF Majority
  <2>4. PICK type, config, policy, by :
          /\ Publish(NewMSPHeader(type, o, config, policy), by) /\ policy \in SUBSET SUBSET Orgs
          /\ type \in {"CREATE", "UPDATE_CONFIG"} => config \in [org : {o}, gen : Nat]
    <3>1. CASE Rotate(o)
      BY <2>3, <3>1 DEF Rotate
    <3>2. CASE Repolicy(o)
      BY <2>3, <3>2 DEF Repolicy
    <3>3. CASE Expel(o)
      BY <2>3, <3>3 DEF Expel
    <3>4. CASE Join(o)
      BY <2>3, <3>4 DEF Join
    <3> QED
      BY <2>1, <3>1, <3>2, <3>3, <3>4
  <2> DEFINE m == NewMSPHeader(type, o, config, policy)
  <2>5. /\ DOMAIN m = {"type", "id", "config", "policy", "proof"}
        /\ MSPMsgOK(m)
    BY <2>2, <2>4 DEF NewMSPHeader, MSPMsgOK
  <2>6. Publish(m, by) /\ UNCHANGED client
    BY <2>4 DEF Publish
  <2>7. FreezeInv'
    <3> HIDE DEF m
    <3> QED
      BY <1>0, <2>5, <2>6, FreezePublish
  <2> QED
    BY <1>q, <2>6, <2>7
<1>8. CASE Upgrade
  <2> DEFINE m == [version |-> net.version + 1, endorsement |-> Majority(net.members),
                   ibc |-> Majority(net.members), proof |-> None]
  <2>1. Publish(m, Orgs) /\ UNCHANGED client
    BY <1>8 DEF Upgrade, Publish
  <2>2. IsInfo(m)
    BY DEF IsInfo
  <2>3. FreezeInv'
    <3> HIDE DEF m
    <3> QED
      BY <1>0, <2>1, <2>2, FreezePublish
  <2> QED
    BY <1>q, <2>1, <2>3
<1>9. CASE Deliver
  BY <1>0, <1>9, FreezeDeliver
<1>10. CASE \E kind \in {"relay", "acks"}, pick \in {{}} \cup {{n} : n \in Seqs} : Begin(kind, pick)
  <2>1. /\ client # None /\ UNCHANGED <<client, signed, rival>> /\ cmd'.hdr = None
        /\ cmd'.pc = "headers" /\ cmd'.kind \in {"relay", "acks"}
    BY <1>10 DEF Begin, Idle
  <2> QED
    BY <1>0, <1>q, <2>1, FreezeQuiet DEF KindOK
<1>11. CASE Thinking
  <2>1. /\ Running /\ cmd'.hdr \in {cmd.hdr, NextHeader("us")} /\ cmd'.kind = cmd.kind /\ KindOK(cmd')
        /\ UNCHANGED <<client, signed, rival>>
    BY <1>0, <1>11, HeaderOf
  <2>2. Plain(cmd'.hdr)
    BY <1>0, <2>1, EndorsedPlain
  <2> QED
    BY <1>0, <1>q, <2>1, <2>2, FreezeQuiet
<1>12. CASE SendToDst
  <2>0. /\ cmd.pc = "sendDst" /\ cmd.kind # "create" /\ client # None /\ UNCHANGED <<signed, rival>>
    BY <1>0, <1>12 DEF SendToDst, envVars, KindOK, Running
  <2>1. /\ Failed.hdr = cmd.hdr /\ Failed.pc = "failed" /\ Failed.kind = cmd.kind
        /\ Idle.hdr = None /\ Idle.pc = "idle" /\ Idle.kind = "none"
    BY <1>0 DEF Failed, Idle, HeightInv, CmdOK, CmdFields
  <2>2. CASE cmd' \in {Idle, Failed} /\ UNCHANGED client
    BY <1>0, <1>q, <2>0, <2>1, <2>2, FreezeQuiet DEF KindOK, Running
  <2>3. CASE cmd.hdr # None /\ UpdateClient(cmd.hdr) /\ cmd' = Idle
    <3>1. cmd.hdr.msps = None
      BY <1>0, <2>3 DEF Plain
    <3>2. /\ client' # None /\ InfosOK(client'.infos)
          /\ Extends(client.infos, client.infos, client'.infos)
      BY <1>0, <2>0, <2>3, <3>1, UpdateOK
    <3> QED
      BY <1>0, <2>0, <2>1, <2>3, <3>2, FreezeUpdate DEF KindOK
  <2> QED
    BY <1>12, <2>2, <2>3 DEF SendToDst
<1>13. CASE Exhausted \/ UNCHANGED vars
  <2>1. UNCHANGED <<client, signed, rival, cmd>>
    BY <1>13 DEF Exhausted, vars, envVars
  <2> QED
    BY <1>0, <1>q, <2>1, FreezeQuiet DEF Running
<1> QED
  BY <1>1, <1>2, <1>3, <1>4, <1>5, <1>6, <1>7, <1>8, <1>9, <1>10, <1>11, <1>12, <1>13
     DEF Next, CommandStep, Thinking

(***************************************************************************)
(* A frozen info of the client stays frozen, and its organisation gets no  *)
(* further info, whatever governance messages were signed before or after, *)
(* in whatever order and number they are delivered, two of them, or one    *)
(* twice, in one client message too (verifyMSPCreate, verifyMSPFreeze and  *)
(* applyMSPHeaders, lightclients/fabric-msp).  When the organisation had   *)
(* the one info, its signatures never count again; that it has one,        *)
(* CreatedOnce, is not a theorem: the code does not ensure it.             *)
(***************************************************************************)
THEOREM FrozenCorrect == Spec => FrozenForever
<1>1. FreezeInv /\ [Next]_vars => FreezeInv'
  BY FreezeNext DEF FreezeStep
<1>2. FreezeInv /\ FreezeInv' /\ [Next]_vars =>
        [client # None =>
            \A i \in DOMAIN client.infos : client.infos[i].frozen =>
                LET o == client.infos[i].id
                IN /\ client'.infos[i].frozen
                   /\ InfosOf(client', o) = InfosOf(client, o)
                   /\ InfosOf(client, o) = {i} => ~Counts(client', o)]_client
  <2> SUFFICES ASSUME FreezeInv, FreezeInv', [Next]_vars, client # None,
                      NEW i \in DOMAIN client.infos, client.infos[i].frozen,
                      NEW o, o = client.infos[i].id
               PROVE  /\ client'.infos[i].frozen
                      /\ InfosOf(client', o) = InfosOf(client, o)
                      /\ InfosOf(client, o) = {i} => ~Counts(client', o)
    OBVIOUS
  <2>1. client' # None /\ Extends(client.infos, client.infos, client'.infos)
    BY FreezeNext DEF FreezeStep
  <2>2. InfosOK(client'.infos)
    BY <2>1 DEF FreezeInv
  <2>3. client'.infos[i].frozen /\ i \in DOMAIN client'.infos
    BY <2>1 DEF Extends
  <2>4. InfosOf(client', o) = InfosOf(client, o)
    <3> DEFINE old == client.infos
               new == client'.infos
    <3>1. Extends(old, old, new) /\ i \in DOMAIN old /\ old[i].id = o
      BY <2>1
    <3> HIDE DEF old, new
    <3>2. {k \in DOMAIN new : new[k].id = o} = {k \in DOMAIN old : old[k].id = o}
      BY <3>1 DEF Extends
    <3> QED
      BY <3>2 DEF InfosOf, old, new
  <2>5. InfosOf(client, o) = {i} => ~Counts(client', o)
    BY <2>2, <2>3, <2>4, FrozenDoesNotCount
  <2> QED
    BY <2>3, <2>4, <2>5
<1> QED
  BY <1>1, <1>2, FreezeInit, PTL DEF Spec, FrozenForever

-----------------------------------------------------------------------------
(* Commands that nothing interferes with *)

Listed == {"metrics", "filter", "timeouts", "advance", "commit", "prove", "height"}

\* What the Fabric network lists of itself, and what can be on the lists of a command, and
\* be proved.
RawListed == IF cmd.kind = "relay" THEN store["src"].sent ELSE store["src"].recv
SrcListed == IF cmd.kind = "relay" THEN store["src"].sent \ store["dst"].recv ELSE store["src"].recv
DstListed == Commitments(store["dst"]) \ store["src"].recv

\* The header of the command is endorsed by the network as it is, and is new to the client.
HeaderOK ==
    /\ cmd.hdr # None /\ cmd.hdr.sequence # None /\ cmd.hdr.info = None /\ cmd.hdr.msps = None
    /\ cmd.hdr.proof = Endorse(SequenceCommitmentKey, cmd.hdr.sequence)
    /\ client.sequence.value < cmd.hdr.sequence.value

\* So is a proof of the command, and it is not dated after the sequence.
ProvedOK(p) ==
    /\ p.height <= Sequence
    /\ p.proof = Endorse(fabricLedgerKey(PathOf(cmd.kind, p.n)), p.n)

\* While the chains are asked: "src" is listed raw until "dst" has told what is missing.
ListingOK ==
    /\ cmd.timeouts = {}
    /\ Commitments(cmd.snap) \subseteq Commitments(store["dst"])
    /\ cmd.list["src"] \subseteq RawListed
    /\ "src" \notin cmd.todo => cmd.listSeq = Sequence
    /\ cmd.todo \cap {"src", "ask"} = {} => cmd.list["src"] \subseteq SrcListed
    /\ cmd.kind = "relay" => cmd.list["dst"] \subseteq DstListed

ListedOK ==
    /\ cmd.list["src"] \subseteq SrcListed
    /\ cmd.kind = "relay" => cmd.list["dst"] \subseteq DstListed
    /\ cmd.timeouts \subseteq late \cap DstListed

CalmOK ==
    /\ Running => cmd.pick = {}
    /\ cmd.pc \in Before => cmd.seq = Sequence
    /\ cmd.pc \in Before \cup {"commit"} => cmd.proofs = {}
    /\ cmd.pc = "headers" => cmd.timeouts = {} /\ cmd.list = NoLists
    /\ cmd.pc = "lists" => ListingOK
    /\ cmd.pc = "metrics" => cmd.listSeq = Sequence
    /\ cmd.pc = "timeouts" => cmd.kind = "relay"
    /\ cmd.pc \in Listed /\ cmd.kind # "create" => ListedOK
    /\ cmd.pc = "commit" =>
         /\ cmd.hdr.sequence.value = Sequence + 1
         /\ cmd.kind # "create" => HeaderOK
    /\ cmd.pc \in After /\ cmd.hdr # None =>
         /\ HeaderOK /\ cmd.hdr.sequence.value = Sequence
         /\ \A p \in cmd.proofs : ProvedOK(p)

\* Only what was received is acknowledged, and nothing is refunded.
StoresAgree ==
    /\ \A c \in Chains : store[c].refunded = {}
    /\ store["src"].acked \subseteq store["dst"].recv
    /\ cmd.pc = "lists" => cmd.snap.recv \subseteq store["dst"].recv
    /\ cmd.kind # "relay" => cmd.list["dst"] \subseteq store["dst"].recv

\* Clocks do not run backwards, and the client is not ahead of the ledger.
ClocksAgree ==
    /\ \A i \in DOMAIN ledger : ledger[i].late \subseteq late
    /\ cmd.pc = "commit" => cmd.hdr.sequence.stamp.late \subseteq late
    /\ client # None => client.sequence.value \in 1..Sequence

CleanInv ==
    /\ FreezeInv /\ StoresAgree /\ ClocksAgree
    /\ cmd.calm => CalmOK
    /\ CleanWithoutInterference

\* Nothing is wrong in the beginning.
LEMMA CleanInit == Init => CleanInv
<1> SUFFICES ASSUME Init PROVE CleanInv
  OBVIOUS
<1>1. FreezeInv
  BY FreezeInit
<1>2. cmd.pc = "idle" /\ cmd.kind = "none" /\ client = None
  BY DEF Init, Idle
<1>3. StoresAgree
  BY <1>2 DEF Init, StoresAgree, EmptyStore, Chains, Idle, NoLists
<1>4. ClocksAgree
  <2>1. \A i \in DOMAIN ledger : ledger[i].late = {}
    BY DEF Init
  <2> QED
    BY <1>2, <2>1 DEF ClocksAgree
<1>5. CalmOK /\ CleanWithoutInterference
  BY <1>2 DEF CalmOK, CleanWithoutInterference, Running, Before, After, Listed
<1> QED
  BY <1>1, <1>3, <1>4, <1>5 DEF CleanInv

\* The facts that the steps below start from.
LEMMA CleanFacts ==
    ASSUME CleanInv
    PROVE  /\ HeightInv /\ FreezeInv /\ LedgerOK /\ DOMAIN cmd = CmdFields /\ CmdOK(cmd, ledger)
           /\ Sequence \in Nat /\ Len(ledger) = Sequence /\ DOMAIN ledger = 1..Sequence
           /\ store \in [Chains -> Store] /\ store["src"] \in Store /\ store["dst"] \in Store
           /\ StoresAgree /\ ClocksAgree /\ KindOK(cmd)
           /\ Running => (cmd.kind = "create" <=> client = None)
<1>1. /\ HeightInv /\ FreezeInv /\ StoresAgree /\ ClocksAgree /\ KindOK(cmd)
      /\ Running => (cmd.kind = "create" <=> client = None)
  BY DEF CleanInv, FreezeInv
<1>2. LedgerOK /\ CmdOK(cmd, ledger) /\ store \in [Chains -> Store]
  BY <1>1 DEF HeightInv, StoreOK
<1> QED
  BY <1>1, <1>2 DEF LedgerOK, Sequence, CmdOK, Chains

\* Somebody interferes: a command that runs is not calm any more.
LEMMA CleanDisturbed ==
    ASSUME CleanInv, FreezeInv', Disturb, ClocksAgree',
           \A c \in Chains : store'[c].refunded = store[c].refunded,
           store'["src"].acked \subseteq store'["dst"].recv,
           store["dst"].recv \subseteq store'["dst"].recv
    PROVE  CleanInv'
<1>1. /\ cmd'.pc = cmd.pc /\ cmd'.kind = cmd.kind /\ cmd'.list = cmd.list /\ cmd'.snap = cmd.snap
      /\ cmd'.calm = (cmd.pc = "idle")
  BY CleanFacts DEF Disturb, CmdFields
<1>2. StoresAgree'
  BY <1>1, CleanFacts DEF StoresAgree
<1>3. (cmd.calm => CalmOK)' /\ CleanWithoutInterference'
  BY <1>1 DEF CalmOK, CleanWithoutInterference, Running, Before, After, Listed
<1> QED
  BY <1>2, <1>3 DEF CleanInv

\* The client after an update whose sequence is on the ledger.
LEMMA UpdatedSequence ==
    ASSUME CleanInv, NEW m, m # None, Committed(m, ledger), UpdateClient(m), client # None
    PROVE  client'.sequence.value \in 1..Sequence
<1>1. client'.sequence = IF m.sequence = None THEN client.sequence ELSE m.sequence
  BY DEF UpdateClient, UpdateState
<1> QED
  BY <1>1, CleanFacts DEF Committed, ClocksAgree

\* The environment's steps.
LEMMA CleanEnvironment ==
    ASSUME CleanInv, FreezeInv',
           \/ (\E c \in Chains : SendPacket(c))
           \/ Expire \/ RivalAdvance \/ RivalUpdate \/ RivalToFabric
           \/ (\E o \in Movers : Rotate(o) \/ Repolicy(o) \/ Expel(o) \/ Join(o))
           \/ Upgrade \/ Deliver
    PROVE  CleanInv'
<1>0. /\ StoresAgree /\ ClocksAgree /\ Sequence \in Nat /\ Len(ledger) = Sequence
      /\ DOMAIN ledger = 1..Sequence /\ LedgerOK /\ store \in [Chains -> Store]
      /\ "src" \in Chains /\ "dst" \in Chains /\ DOMAIN cmd = CmdFields
      /\ late \in SUBSET Seqs
  BY CleanFacts DEF Chains, HeightInv
<1>s. \A who : Stamp(who).late = late
  BY DEF Stamp
<1>2. CASE \E c \in Chains : SendPacket(c)
  <2>1. PICK c \in Chains : SendPacket(c)
    BY <1>2
  <2>2. /\ UNCHANGED <<net, late, ledger, client, cmd>>
        /\ store' = [store EXCEPT ![c].sent = @ \cup {Cardinality(@) + 1}]
    BY <2>1 DEF SendPacket
  <2>3. \A d \in Chains : /\ store'[d].recv = store[d].recv /\ store'[d].acked = store[d].acked
                          /\ store'[d].refunded = store[d].refunded
                          /\ store[d].sent \subseteq store'[d].sent
    BY <1>0, <2>2 DEF Store
  <2>4. StoresAgree' /\ ClocksAgree'
    BY <1>0, <2>2, <2>3 DEF StoresAgree, ClocksAgree, Sequence
  <2>5. /\ Commitments(store["dst"]) \subseteq Commitments(store'["dst"])
        /\ SrcListed \subseteq SrcListed' /\ DstListed \subseteq DstListed'
        /\ RawListed \subseteq RawListed'
    BY <1>0, <2>2, <2>3 DEF Commitments, SrcListed, DstListed, RawListed
  <2>6. CalmOK => CalmOK'
    <3>1. (ListedOK => ListedOK') /\ (ListingOK => ListingOK')
      BY <2>2, <2>5 DEF ListedOK, ListingOK, Sequence
    <3>2. (HeaderOK => HeaderOK') /\ \A p : ProvedOK(p) => ProvedOK(p)'
      BY <2>2 DEF HeaderOK, ProvedOK, Sequence, Endorse, Signers
    <3> QED
      BY <2>2, <3>1, <3>2 DEF CalmOK, Running, Sequence
  <2>7. (Follows' <=> Follows) /\ (Outdated => Outdated')
    <3>1. Signers' = Signers
      BY <2>2 DEF Signers
    <3>2. Follows' <=> Follows
      BY <2>2, <3>1 DEF Follows
    <3>3. Outdated => Outdated'
      BY <1>0, <2>2, <2>3, <2>5 DEF Outdated
    <3> QED
      BY <3>2, <3>3
  <2> QED
    BY <2>2, <2>4, <2>6, <2>7 DEF CleanInv, CleanWithoutInterference
<1>3. CASE Expire
  <2>1. UNCHANGED <<ledger, store, client>> /\ Disturb /\ late \subseteq late'
    BY <1>3 DEF Expire
  <2>2. cmd'.pc = cmd.pc /\ cmd'.hdr = cmd.hdr
    BY <2>1, CleanFacts, DisturbHeader
  <2>3. ClocksAgree'
    BY <1>0, <2>1, <2>2 DEF ClocksAgree, Sequence
  <2> QED
    BY <1>0, <2>1, <2>3, CleanDisturbed DEF StoresAgree
<1>4. CASE RivalAdvance
  <2>1. UNCHANGED <<late, store, client>> /\ Disturb /\ ledger' = Append(ledger, Stamp("rival"))
    BY <1>4 DEF RivalAdvance
  <2>2. cmd'.pc = cmd.pc /\ cmd'.hdr = cmd.hdr
    BY <2>1, CleanFacts, DisturbHeader
  <2>3. Stamp("rival") \in Stamps
    BY <1>0, NextHeaderOK
  <2>4. /\ Len(ledger') = Sequence + 1 /\ DOMAIN ledger' = 1..(Sequence + 1)
        /\ \A i \in DOMAIN ledger' : ledger'[i].late \subseteq late
    BY <1>0, <1>s, <2>1, <2>3, LedgerGrows DEF ClocksAgree
  <2>5. ClocksAgree'
    BY <1>0, <2>1, <2>2, <2>4 DEF ClocksAgree, Sequence
  <2> QED
    BY <1>0, <2>1, <2>5, CleanDisturbed DEF StoresAgree
<1>5. CASE RivalUpdate
  <2>1. UNCHANGED <<late, ledger>> /\ Disturb /\ rival # None /\ UpdateClient(rival)
    BY <1>5 DEF RivalUpdate
  <2>2. cmd'.pc = cmd.pc /\ cmd'.hdr = cmd.hdr
    BY <2>1, CleanFacts, DisturbHeader
  <2>3. Committed(rival, ledger) /\ client # None
    BY <1>5, CleanFacts DEF RivalUpdate, HeightInv
  <2>4. ClocksAgree'
    BY <1>0, <2>1, <2>2, <2>3, UpdatedSequence DEF ClocksAgree, Sequence
  <2>5. /\ \A c \in Chains : store'[c].refunded = store[c].refunded
        /\ store'["src"].acked = store["src"].acked /\ store["dst"].recv \subseteq store'["dst"].recv
    BY <1>0, <1>5 DEF RivalUpdate, Store, Chains
  <2> QED
    BY <1>0, <2>1, <2>4, <2>5, CleanDisturbed DEF StoresAgree
<1>6. CASE RivalToFabric
  <2>1. UNCHANGED <<late, ledger, client>> /\ Disturb
    BY <1>6 DEF RivalToFabric
  <2>2. cmd'.pc = cmd.pc /\ cmd'.hdr = cmd.hdr
    BY <2>1, CleanFacts, DisturbHeader
  <2>3. ClocksAgree'
    BY <1>0, <2>1, <2>2 DEF ClocksAgree, Sequence
  <2>4. /\ \A c \in Chains : store'[c].refunded = store[c].refunded
        /\ store'["dst"] = store["dst"]
        /\ store'["src"].acked \subseteq store["src"].acked \cup store["dst"].recv
    BY <1>0, <1>6 DEF RivalToFabric, Store, Chains
  <2> QED
    BY <1>0, <2>1, <2>3, <2>4, CleanDisturbed DEF StoresAgree
<1>7. CASE (\E o \in Movers : Rotate(o) \/ Repolicy(o) \/ Expel(o) \/ Join(o)) \/ Upgrade
  <2>1. UNCHANGED <<late, ledger, store, client>> /\ Disturb
    BY <1>7 DEF Rotate, Repolicy, Expel, Join, Upgrade, Publish
  <2>2. cmd'.pc = cmd.pc /\ cmd'.hdr = cmd.hdr
    BY <2>1, CleanFacts, DisturbHeader
  <2>3. ClocksAgree'
    BY <1>0, <2>1, <2>2 DEF ClocksAgree, Sequence
  <2> QED
    BY <1>0, <2>1, <2>3, CleanDisturbed DEF StoresAgree
<1>8. CASE Deliver
  <2>1. UNCHANGED <<late, ledger, store, signed, rival>> /\ Disturb
    BY <1>8 DEF Deliver, envVars
  <2>2. cmd'.pc = cmd.pc /\ cmd'.hdr = cmd.hdr
    BY <2>1, CleanFacts, DisturbHeader
  <2>3. client'.sequence = client.sequence
    BY <1>8 DEF Deliver, UpdateClient, UpdateState
  <2>4. client # None
    BY <1>8 DEF Deliver
  <2>5. ClocksAgree'
    BY <1>0, <2>1, <2>2, <2>3, <2>4 DEF ClocksAgree, Sequence
  <2> QED
    BY <1>0, <2>1, <2>5, CleanDisturbed DEF StoresAgree
<1> QED
  BY <1>2, <1>3, <1>4, <1>5, <1>6, <1>7, <1>8

\* A step of the command that leaves the ledger, the stores and the client alone.
LEMMA CleanThinks ==
    ASSUME CleanInv, FreezeInv', UNCHANGED <<net, late, ledger, store, client>>,
           cmd'.pc = "lists" => cmd'.snap.recv \subseteq store["dst"].recv,
           cmd'.kind # "relay" => cmd'.list["dst"] \subseteq store["dst"].recv,
           cmd'.pc = "commit" => cmd'.hdr.sequence.stamp.late \subseteq late,
           cmd'.calm => CalmOK',
           cmd'.calm /\ cmd'.pc = "failed" => client # None /\ (Outdated \/ ~Follows)
    PROVE  CleanInv'
<1>1. StoresAgree' /\ ClocksAgree'
  BY CleanFacts DEF StoresAgree, ClocksAgree, Sequence
<1>2. Signers' = Signers
  BY DEF Signers
<1>3. (Follows' <=> Follows) /\ (Outdated' <=> Outdated)
  BY <1>2 DEF Follows, Outdated
<1> QED
  BY <1>1, <1>3 DEF CleanInv, CleanWithoutInterference

\* A command that is over has no more to keep.
LEMMA CalmEnded ==
    ASSUME cmd'.pc \in {"idle", "failed"}
    PROVE  CalmOK'
  BY DEF CalmOK, Running, Before, After, Listed

\* What Failed changes.
LEMMA FailedFields ==
    ASSUME CleanInv
    PROVE  /\ Failed.pc = "failed" /\ Failed.kind = cmd.kind /\ Failed.list = cmd.list
           /\ Failed.calm = cmd.calm /\ DOMAIN Failed = CmdFields
  BY CleanFacts DEF Failed, CmdFields

\* The commands begin.
LEMMA CleanBegin ==
    ASSUME CleanInv, FreezeInv', NEW kind \in {"relay", "acks"}, NEW pick, Begin(kind, pick)
    PROVE  CleanInv'
<1>1. /\ UNCHANGED <<net, late, ledger, store, client>>
      /\ cmd' = [Idle EXCEPT !.kind = kind, !.pc = "headers", !.pick = pick, !.seq = Sequence,
                             !.calm = pick = {}]
  BY DEF Begin
<1>2. /\ cmd'.kind = kind /\ cmd'.pc = "headers" /\ cmd'.pick = pick /\ cmd'.seq = Sequence
      /\ cmd'.calm = (pick = {}) /\ cmd'.list = NoLists /\ cmd'.timeouts = {} /\ cmd'.proofs = {}
  BY <1>1 DEF Idle
<1>3. NoLists["dst"] = {}
  BY DEF NoLists, Chains
<1>4. cmd'.calm => CalmOK'
  BY <1>1, <1>2 DEF CalmOK, Running, Before, After, Listed, Sequence
<1> QED
  BY <1>1, <1>2, <1>3, <1>4, CleanThinks

\* The client is going to be created: the sequence is still zero, or is taken as it is.
LEMMA CleanBeginCreate ==
    ASSUME CleanInv, FreezeInv', BeginCreate
    PROVE  CleanInv'
<1>1. /\ UNCHANGED <<net, late, ledger, store, client>>
      /\ cmd' = [Idle EXCEPT !.kind = "create", !.seq = Sequence,
                             !.pc = IF Sequence = 0 THEN "first" ELSE "install"]
  BY DEF BeginCreate, envVars
<1>2. /\ cmd'.kind = "create" /\ cmd'.pc \in {"first", "install"} /\ cmd'.pick = {}
      /\ cmd'.seq = Sequence /\ cmd'.list = NoLists /\ cmd'.proofs = {}
  BY <1>1 DEF Idle
<1>3. NoLists["dst"] = {}
  BY DEF NoLists, Chains
<1>4. CalmOK'
  BY <1>1, <1>2 DEF CalmOK, Running, Before, After, Listed, Sequence
<1> QED
  BY <1>1, <1>2, <1>3, <1>4, CleanThinks

\* The first sequence is endorsed, and asked for once it is committed.
LEMMA CleanFirst ==
    ASSUME CleanInv, FreezeInv', EndorseFirst \/ QueryFirst
    PROVE  CleanInv'
<1>0. /\ UNCHANGED <<net, late, ledger, store, client>> /\ DOMAIN cmd = CmdFields /\ StoresAgree
      /\ cmd.kind = "create" /\ cmd.pc \in {"first", "second"}
  BY CleanFacts DEF EndorseFirst, QueryFirst, envVars, KindOK
<1>1. CASE EndorseFirst
  <2> DEFINE h == NextHeader("us")
  <2>1. h.sequence.value = Sequence + 1 /\ h.sequence.stamp.late = late
    BY DEF NextHeader, Stamp
  <2> HIDE DEF h
  <2>2. /\ cmd.pc = "first" /\ cmd'.pc = "commit" /\ cmd'.kind = cmd.kind /\ cmd'.pick = cmd.pick
        /\ cmd'.list = cmd.list /\ cmd'.proofs = cmd.proofs /\ cmd'.calm = cmd.calm /\ cmd'.hdr = h
    BY <1>0, <1>1 DEF EndorseFirst, CmdFields, h
  <2>3. cmd'.calm => CalmOK'
    BY <1>0, <2>1, <2>2 DEF CleanInv, CalmOK, Running, Before, After, Listed, Sequence
  <2> QED
    BY <1>0, <2>1, <2>2, <2>3, CleanThinks DEF StoresAgree
<1>2. CASE QueryFirst
  <2>1. /\ cmd.pc = "second" /\ cmd'.pc = "install" /\ cmd'.kind = cmd.kind /\ cmd'.pick = cmd.pick
        /\ cmd'.list = cmd.list /\ cmd'.calm = cmd.calm
    BY <1>0, <1>2 DEF QueryFirst, CmdFields
  <2>2. cmd'.calm => CalmOK'
    BY <1>0, <2>1 DEF CleanInv, CalmOK, Running, Before, After, Listed
  <2> QED
    BY <1>0, <2>1, <2>2, CleanThinks DEF StoresAgree
<1> QED
  BY <1>1, <1>2

\* The client starts at a sequence of the ledger.
LEMMA CleanCreate ==
    ASSUME CleanInv, FreezeInv', CreateClient
    PROVE  CleanInv'
<1>1. /\ UNCHANGED <<late, store, ledger>> /\ cmd' = Idle /\ cmd.seq \in 1..Sequence
      /\ StoresAgree /\ ClocksAgree /\ client'.sequence.value = cmd.seq
  BY CleanFacts DEF CreateClient, envVars, NewClientState, CmdOK
<1>2. cmd'.pc = "idle" /\ cmd'.kind = "none" /\ cmd'.list["dst"] = {}
  BY <1>1 DEF Idle, NoLists, Chains
<1>3. StoresAgree' /\ ClocksAgree' /\ CleanWithoutInterference'
  BY <1>1, <1>2 DEF StoresAgree, ClocksAgree, CleanWithoutInterference, Sequence
<1> QED
  BY <1>2, <1>3, CalmEnded DEF CleanInv

\* The header of "dst" is the latest.
LEMMA CleanHeader ==
    ASSUME CleanInv, FreezeInv', GetLatestFinalizedHeader
    PROVE  CleanInv'
<1>0. /\ UNCHANGED <<net, late, ledger, store, client>> /\ DOMAIN cmd = CmdFields /\ StoresAgree
      /\ cmd.pc = "headers"
  BY CleanFacts DEF GetLatestFinalizedHeader, envVars
<1>1. /\ cmd'.pc = "lists" /\ cmd'.kind = cmd.kind /\ cmd'.pick = cmd.pick /\ cmd'.seq = cmd.seq
      /\ cmd'.snap = store["dst"] /\ cmd'.todo = Chains /\ cmd'.list = cmd.list
      /\ cmd'.timeouts = cmd.timeouts /\ cmd'.proofs = cmd.proofs /\ cmd'.calm = cmd.calm
  BY <1>0 DEF GetLatestFinalizedHeader, CmdFields
<1>2. NoLists["src"] = {} /\ NoLists["dst"] = {} /\ "src" \in Chains
  BY DEF NoLists, Chains
<1>3. cmd'.calm => CalmOK'
  <2> SUFFICES ASSUME cmd'.calm PROVE CalmOK'
    OBVIOUS
  <2>1. /\ cmd.pick = {} /\ cmd.seq = Sequence /\ cmd.proofs = {} /\ cmd.timeouts = {}
        /\ cmd.list = NoLists
    BY <1>0, <1>1 DEF CleanInv, CalmOK, Running, Before
  <2>2. ListingOK'
    BY <1>0, <1>1, <1>2, <2>1 DEF ListingOK
  <2> QED
    BY <1>0, <1>1, <2>1, <2>2 DEF CalmOK, Running, Before, After, Listed, Sequence
<1> QED
  BY <1>0, <1>1, <1>3, CleanThinks DEF StoresAgree

\* What the Fabric network lists is what it has now.
LEMMA CleanListSrc ==
    ASSUME CleanInv, FreezeInv', NEW lost, ListSrc(lost)
    PROVE  CleanInv'
<1> DEFINE S == IF cmd.kind = "relay" THEN QueryUnfinalizedRelayPackets(store["src"], lost)
                ELSE QueryUnfinalizedRelayAcknowledgements(store["src"], lost)
           T == (cmd.todo \ {"src"}) \cup {"ask"}
           b == cmd.calm /\ lost = {}
<1>0. /\ UNCHANGED <<net, late, ledger, store, client>> /\ DOMAIN cmd = CmdFields /\ StoresAgree
      /\ cmd.pc = "lists" /\ cmd.list \in [Chains -> SUBSET Seqs]
  BY CleanFacts DEF ListSrc, MayLose, Fault, envVars, CmdOK
<1>1. cmd' = Listing("src", S, T, Sequence, b)
  BY DEF ListSrc, Listing
<1>2. S \subseteq RawListed /\ "ask" \in T /\ (b => cmd.calm)
  BY DEF RawListed, QueryUnfinalizedRelayPackets, QueryUnfinalizedRelayAcknowledgements
<1> HIDE DEF S, T, b
<1>3. /\ cmd'.pc = "lists" /\ cmd'.kind = cmd.kind /\ cmd'.pick = cmd.pick /\ cmd'.seq = cmd.seq
      /\ cmd'.snap = cmd.snap /\ cmd'.todo = T /\ cmd'.listSeq = Sequence
      /\ cmd'.timeouts = cmd.timeouts /\ cmd'.proofs = cmd.proofs /\ cmd'.calm = b
      /\ cmd'.list = [cmd.list EXCEPT !["src"] = S]
  BY <1>0, <1>1 DEF Listing, CmdFields
<1>4. cmd'.list["src"] = S /\ cmd'.list["dst"] = cmd.list["dst"]
  BY <1>0, <1>3 DEF Chains
<1>5. RawListed' = RawListed /\ DstListed' = DstListed
  BY <1>0, <1>3 DEF RawListed, DstListed
<1>6. cmd'.calm => CalmOK'
  <2> SUFFICES ASSUME cmd'.calm PROVE CalmOK'
    OBVIOUS
  <2>1. cmd.pick = {} /\ cmd.seq = Sequence /\ cmd.proofs = {} /\ ListingOK
    BY <1>0, <1>2, <1>3 DEF CleanInv, CalmOK, Running, Before
  <2>2. ListingOK'
    BY <1>0, <1>2, <1>3, <1>4, <1>5, <2>1 DEF ListingOK, Sequence
  <2> QED
    BY <1>0, <1>3, <2>1, <2>2 DEF CalmOK, Running, Before, After, Listed, Sequence
<1> QED
  BY <1>0, <1>3, <1>4, <1>6, CleanThinks DEF StoresAgree

\* A chain has answered; the lists are complete when it was the last.
LEMMA CleanWait ==
    ASSUME CleanInv, FreezeInv', UNCHANGED <<net, late, ledger, store, client>>, cmd.pc = "lists",
           NEW next, DOMAIN next = CmdFields, next.pc = cmd.pc, next.kind = cmd.kind,
           next.pick = cmd.pick, next.seq = cmd.seq, next.snap = cmd.snap,
           next.timeouts = cmd.timeouts, next.proofs = cmd.proofs, next.listSeq = cmd.listSeq,
           next.calm => cmd.calm, "src" \notin next.todo => "src" \notin cmd.todo,
           next.kind # "relay" => next.list["dst"] \subseteq store["dst"].recv,
           next.calm => /\ next.list["src"] \subseteq RawListed
                        /\ next.todo \cap {"src", "ask"} = {} => next.list["src"] \subseteq SrcListed
                        /\ next.kind = "relay" => next.list["dst"] \subseteq DstListed,
           Wait(next)
    PROVE  CleanInv'
<1>1. /\ cmd'.kind = next.kind /\ cmd'.pick = next.pick /\ cmd'.seq = next.seq
      /\ cmd'.snap = next.snap /\ cmd'.timeouts = next.timeouts /\ cmd'.proofs = next.proofs
      /\ cmd'.listSeq = next.listSeq /\ cmd'.calm = next.calm /\ cmd'.list = next.list
      /\ \/ cmd'.pc = "lists" /\ cmd'.todo = next.todo
         \/ next.todo = {} /\ cmd'.pc = IF next.kind = "relay" THEN "metrics" ELSE "filter"
  BY DEF Wait, CmdFields
<1>2. RawListed' = RawListed /\ SrcListed' = SrcListed /\ DstListed' = DstListed
  BY <1>1 DEF RawListed, SrcListed, DstListed
<1>3. cmd'.calm => CalmOK'
  <2> SUFFICES ASSUME cmd'.calm PROVE CalmOK'
    OBVIOUS
  <2>1. cmd.pick = {} /\ cmd.seq = Sequence /\ cmd.proofs = {} /\ ListingOK
    BY <1>1 DEF CleanInv, CalmOK, Running, Before
  <2>2. cmd.timeouts = {} /\ Commitments(cmd.snap) \subseteq Commitments(store["dst"])
    BY <2>1 DEF ListingOK
  <2>3. CASE cmd'.pc = "lists" /\ cmd'.todo = next.todo
    <3>1. ListingOK'
      BY <1>1, <1>2, <2>1, <2>3 DEF ListingOK, Sequence
    <3> QED
      BY <1>1, <2>1, <2>3, <3>1 DEF CalmOK, Running, Before, After, Listed, Sequence
  <2>4. CASE next.todo = {} /\ cmd'.pc = IF next.kind = "relay" THEN "metrics" ELSE "filter"
    <3>1. ListedOK'
      BY <1>1, <1>2, <2>2, <2>4 DEF ListedOK
    <3>2. cmd.listSeq = Sequence
      BY <2>1, <2>4 DEF ListingOK
    <3> QED
      BY <1>1, <2>1, <2>4, <3>1, <3>2 DEF CalmOK, Running, Before, After, Listed, Sequence
  <2> QED
    BY <1>1, <2>3, <2>4
<1>4. cmd'.pc = "lists" => cmd'.snap.recv \subseteq store["dst"].recv
  BY <1>1, CleanFacts DEF StoresAgree
<1>5. cmd'.pc \notin {"commit", "failed"}
  BY <1>1
<1> QED
  BY <1>1, <1>3, <1>4, <1>5, CleanThinks

\* "dst" answers what of it is missing.
LEMMA CleanAskDst ==
    ASSUME CleanInv, FreezeInv', AskDst
    PROVE  CleanInv'
<1> DEFINE S == IF cmd.kind = "relay" THEN UnreceivedPackets(store["dst"], cmd.list["src"])
                ELSE UnreceivedAcks(store["dst"], cmd.list["src"])
           T == cmd.todo \ {"ask"}
           next == [cmd EXCEPT !.todo = @ \ {"ask"},
                        !.list["src"] = IF cmd.kind = "relay"
                                        THEN UnreceivedPackets(store["dst"], @)
                                        ELSE UnreceivedAcks(store["dst"], @)]
<1>0. /\ UNCHANGED <<net, late, ledger, store, client>> /\ DOMAIN cmd = CmdFields /\ StoresAgree
      /\ cmd.pc = "lists" /\ cmd.list \in [Chains -> SUBSET Seqs] /\ Wait(next)
  BY CleanFacts DEF AskDst, envVars, CmdOK
<1>1. /\ next.pc = cmd.pc /\ next.kind = cmd.kind
      /\ next.pick = cmd.pick /\ next.seq = cmd.seq /\ next.snap = cmd.snap
      /\ next.timeouts = cmd.timeouts /\ next.proofs = cmd.proofs /\ next.listSeq = cmd.listSeq
      /\ next.calm = cmd.calm /\ next.todo = T /\ DOMAIN next = CmdFields
      /\ next.list = [cmd.list EXCEPT !["src"] = S]
  BY <1>0 DEF CmdFields
<1> HIDE DEF next
<1>2. next.list["src"] = S /\ next.list["dst"] = cmd.list["dst"]
  <2> HIDE DEF S
  <2> QED
    BY <1>0, <1>1 DEF Chains
<1>3. next.kind # "relay" => next.list["dst"] \subseteq store["dst"].recv
  BY <1>0, <1>1, <1>2 DEF StoresAgree
<1>4. next.calm => /\ next.list["src"] \subseteq RawListed
                   /\ next.list["src"] \subseteq SrcListed
                   /\ next.kind = "relay" => next.list["dst"] \subseteq DstListed
  <2> SUFFICES ASSUME next.calm
               PROVE  /\ S \subseteq RawListed /\ S \subseteq SrcListed
                      /\ cmd.kind = "relay" => cmd.list["dst"] \subseteq DstListed
    BY <1>1, <1>2
  <2>1. ListingOK
    BY <1>0, <1>1 DEF CleanInv, CalmOK
  <2> QED
    BY <2>1 DEF ListingOK, RawListed, SrcListed, UnreceivedPackets, UnreceivedAcks
<1> HIDE DEF S
<1>5. "src" \notin next.todo => "src" \notin cmd.todo
  BY <1>1
<1> QED
  BY <1>0, <1>1, <1>3, <1>4, <1>5, CleanWait

\* "dst" is listed at its header; what it had then it still has.
LEMMA CleanListDst ==
    ASSUME CleanInv, FreezeInv', NEW lost, ListDst(lost)
    PROVE  CleanInv'
<1> DEFINE S == IF cmd.kind = "relay" THEN UnreceivedPackets(store["src"], Commitments(cmd.snap))
                ELSE QueryUnreceivedAcknowledgements(store["src"], cmd.snap.recv, lost)
           T == cmd.todo \ {"dst"}
           b == cmd.calm /\ lost = {}
           next == [cmd EXCEPT !.todo = @ \ {"dst"}, !.calm = @ /\ lost = {},
                        !.list["dst"] = IF cmd.kind = "relay"
                           THEN UnreceivedPackets(store["src"], Commitments(cmd.snap))
                           ELSE QueryUnreceivedAcknowledgements(store["src"], cmd.snap.recv, lost)]
<1>0. /\ UNCHANGED <<net, late, ledger, store, client>> /\ DOMAIN cmd = CmdFields /\ StoresAgree
      /\ cmd.pc = "lists" /\ cmd.list \in [Chains -> SUBSET Seqs] /\ Wait(next)
  BY CleanFacts DEF ListDst, MayLose, Fault, envVars, CmdOK
<1>1. next = Listing("dst", S, T, cmd.listSeq, b)
  BY <1>0 DEF Listing, CmdFields
<1>b. b => cmd.calm
  OBVIOUS
<1> HIDE DEF next, b
<1>2. /\ next.pc = cmd.pc /\ next.kind = cmd.kind
      /\ next.pick = cmd.pick /\ next.seq = cmd.seq /\ next.snap = cmd.snap
      /\ next.timeouts = cmd.timeouts /\ next.proofs = cmd.proofs /\ next.listSeq = cmd.listSeq
      /\ next.calm = b /\ next.todo = T /\ DOMAIN next = CmdFields
      /\ next.list = [cmd.list EXCEPT !["dst"] = S]
  <2> HIDE DEF S, T
  <2> QED
    BY <1>0, <1>1 DEF CmdFields, Listing
<1>3. next.list["dst"] = S /\ next.list["src"] = cmd.list["src"]
  <2> HIDE DEF S
  <2> QED
    BY <1>0, <1>2 DEF Chains
<1>4. next.kind # "relay" => next.list["dst"] \subseteq store["dst"].recv
  BY <1>0, <1>2, <1>3 DEF StoresAgree, QueryUnreceivedAcknowledgements
<1>5. next.calm => /\ next.list["src"] \subseteq RawListed
                   /\ next.todo \cap {"src", "ask"} = {} => next.list["src"] \subseteq SrcListed
                   /\ next.kind = "relay" => next.list["dst"] \subseteq DstListed
  <2> SUFFICES ASSUME next.calm
               PROVE  /\ cmd.list["src"] \subseteq RawListed
                      /\ cmd.todo \cap {"src", "ask"} = {} => cmd.list["src"] \subseteq SrcListed
                      /\ cmd.kind = "relay" => S \subseteq DstListed
    BY <1>2, <1>3
  <2>1. ListingOK
    BY <1>0, <1>2, <1>b DEF CleanInv, CalmOK
  <2> QED
    BY <2>1 DEF ListingOK, DstListed, UnreceivedPackets
<1> HIDE DEF S
<1>6. ("src" \notin next.todo => "src" \notin cmd.todo) /\ (next.calm => cmd.calm)
  BY <1>2, <1>b
<1> QED
  BY <1>0, <1>2, <1>4, <1>5, <1>6, CleanWait

\* The timestamp for the metrics is that of the sequence the list was made at.
LEMMA CleanMetrics ==
    ASSUME CleanInv, FreezeInv', updateBacklogMetrics
    PROVE  CleanInv'
<1>0. /\ UNCHANGED <<net, late, ledger, store, client>> /\ DOMAIN cmd = CmdFields /\ StoresAgree
      /\ cmd.pc = "metrics"
  BY CleanFacts DEF updateBacklogMetrics, envVars
<1>1. CASE cmd' = Failed /\ ~HasTimestamp(cmd.listSeq)
  <2>1. cmd'.pc = "failed" /\ cmd'.kind = cmd.kind /\ cmd'.list = cmd.list /\ ~cmd'.calm
    BY <1>0, <1>1, FailedFields DEF HasTimestamp, CleanInv, CalmOK
  <2> QED
    BY <1>0, <2>1, CleanThinks DEF StoresAgree
<1>2. CASE cmd' = [cmd EXCEPT !.pc = "filter"]
  <2>1. /\ cmd'.pc = "filter" /\ cmd'.kind = cmd.kind /\ cmd'.pick = cmd.pick /\ cmd'.seq = cmd.seq
        /\ cmd'.timeouts = cmd.timeouts /\ cmd'.proofs = cmd.proofs /\ cmd'.calm = cmd.calm
        /\ cmd'.list = cmd.list
    BY <1>0, <1>2 DEF CmdFields
  <2>2. ListedOK => ListedOK'
    BY <1>0, <2>1 DEF ListedOK, SrcListed, DstListed
  <2>3. cmd'.calm => CalmOK'
    BY <1>0, <2>1, <2>2 DEF CleanInv, CalmOK, Running, Before, After, Listed, Sequence
  <2> QED
    BY <1>0, <2>1, <2>3, CleanThinks DEF StoresAgree
<1> QED
  BY <1>1, <1>2 DEF updateBacklogMetrics

\* tryFilterRelayPackets finds everything on the list when nothing was picked.
LEMMA TryFilterFields ==
    ASSUME NEW next, DOMAIN next = CmdFields, next.list \in [Chains -> SUBSET Seqs],
           TryFilterRelayPackets(next)
    PROVE  /\ cmd'.pc \in {"advance", "failed"} /\ (cmd.pick = {} => cmd'.pc = "advance")
           /\ cmd'.kind = next.kind /\ cmd'.pick = next.pick /\ cmd'.seq = next.seq
           /\ cmd'.timeouts = next.timeouts /\ cmd'.proofs = next.proofs /\ cmd'.calm = next.calm
           /\ cmd'.list["src"] \subseteq next.list["src"] /\ cmd'.list["dst"] = next.list["dst"]
<1>1. CASE cmd.pick \subseteq next.list["src"]
  BY <1>1 DEF TryFilterRelayPackets, Picked, CmdFields, Chains
<1>2. CASE ~(cmd.pick \subseteq next.list["src"])
  BY <1>2 DEF TryFilterRelayPackets, CmdFields
<1> QED
  BY <1>1, <1>2

\* A calm command whose lists are complete.
LEMMA CalmAdvance ==
    ASSUME UNCHANGED ledger, cmd'.pc = "advance", cmd'.pick = {}, cmd'.seq = Sequence, cmd'.proofs = {},
           cmd'.list["src"] \subseteq SrcListed',
           cmd'.kind = "relay" => cmd'.list["dst"] \subseteq DstListed',
           cmd'.timeouts \subseteq late' \cap DstListed'
    PROVE  CalmOK'
  BY DEF CalmOK, Running, Before, After, Listed, ListedOK, Sequence

\* The filters at the latest heights leave out, and add nothing.
LEMMA CleanFiltered ==
    ASSUME CleanInv, FreezeInv', UNCHANGED <<net, late, ledger, store, client>>, cmd.pc = "filter",
           NEW next, DOMAIN next = CmdFields, next.pc = cmd.pc, next.kind = cmd.kind,
           next.pick = cmd.pick, next.seq = cmd.seq, next.timeouts = cmd.timeouts,
           next.proofs = cmd.proofs, next.calm => cmd.calm,
           next.list \in [Chains -> SUBSET Seqs], next.list["src"] \subseteq cmd.list["src"],
           next.list["dst"] \subseteq cmd.list["dst"], Filtered(next)
    PROVE  CleanInv'
<1>0. cmd.kind # "create" /\ StoresAgree
  BY CleanFacts DEF KindOK
<1>1. next.calm => cmd.pick = {} /\ cmd.seq = Sequence /\ cmd.proofs = {} /\ ListedOK
  BY <1>0 DEF CleanInv, CalmOK, Running, Before, Listed
<1>2. next.kind # "relay" => next.list["dst"] \subseteq store["dst"].recv
  BY <1>0 DEF StoresAgree
<1>3. CASE cmd' = next \/ (next.kind = "relay" /\ cmd' = [next EXCEPT !.pc = "timeouts"])
  <2>1. /\ cmd'.kind = next.kind /\ cmd'.pick = next.pick /\ cmd'.seq = next.seq
        /\ cmd'.timeouts = next.timeouts /\ cmd'.proofs = next.proofs /\ cmd'.calm = next.calm
        /\ cmd'.list = next.list
        /\ cmd'.pc = "filter" \/ (cmd'.pc = "timeouts" /\ cmd'.kind = "relay")
    BY <1>3 DEF CmdFields
  <2>2. ListedOK => ListedOK'
    BY <2>1 DEF ListedOK, SrcListed, DstListed
  <2>3. cmd'.calm => CalmOK'
    BY <1>1, <2>1, <2>2 DEF CalmOK, Running, Before, After, Listed, Sequence
  <2>4. cmd'.pc \notin {"lists", "commit", "failed"}
    BY <2>1
  <2> QED
    BY <1>2, <2>1, <2>3, <2>4, CleanThinks
<1>4. CASE TryFilterRelayPackets(next)
  <2>1. /\ cmd'.pc \in {"advance", "failed"} /\ (cmd.pick = {} => cmd'.pc = "advance")
        /\ cmd'.kind = next.kind /\ cmd'.pick = next.pick /\ cmd'.seq = next.seq
        /\ cmd'.timeouts = next.timeouts /\ cmd'.proofs = next.proofs /\ cmd'.calm = next.calm
        /\ cmd'.list["src"] \subseteq next.list["src"] /\ cmd'.list["dst"] = next.list["dst"]
    BY <1>4, TryFilterFields
  <2>2. SrcListed' = SrcListed /\ DstListed' = DstListed
    BY <2>1 DEF SrcListed, DstListed
  <2>3. cmd'.calm => cmd'.pc = "advance" /\ CalmOK'
    BY <1>1, <2>1, <2>2, CalmAdvance DEF ListedOK
  <2> QED
    BY <1>2, <2>1, <2>3, CleanThinks
<1> QED
  BY <1>3, <1>4 DEF Filtered

\* "dst" is asked again.
LEMMA CleanFilterSrc ==
    ASSUME CleanInv, FreezeInv', FilterSrc
    PROVE  CleanInv'
<1> DEFINE S == IF cmd.kind = "relay" THEN UnreceivedPackets(store["dst"], cmd.list["src"])
                ELSE UnreceivedAcks(store["dst"], cmd.list["src"])
           next == [cmd EXCEPT !.todo = @ \ {"src"},
                            !.list["src"] = IF cmd.kind = "relay"
                                            THEN UnreceivedPackets(store["dst"], @)
                                            ELSE UnreceivedAcks(store["dst"], @)]
<1>0. /\ UNCHANGED <<net, late, ledger, store, client>> /\ DOMAIN cmd = CmdFields
      /\ cmd.pc = "filter" /\ cmd.list \in [Chains -> SUBSET Seqs] /\ Filtered(next)
  BY CleanFacts DEF FilterSrc, envVars, CmdOK
<1>1. /\ next.pc = cmd.pc /\ next.kind = cmd.kind /\ next.pick = cmd.pick /\ next.seq = cmd.seq
      /\ next.timeouts = cmd.timeouts /\ next.proofs = cmd.proofs /\ next.calm = cmd.calm
      /\ DOMAIN next = CmdFields /\ next.list = [cmd.list EXCEPT !["src"] = S]
  BY <1>0 DEF CmdFields
<1>2. S \subseteq cmd.list["src"]
  BY DEF UnreceivedPackets, UnreceivedAcks
<1> HIDE DEF next, S
<1>3. /\ next.list \in [Chains -> SUBSET Seqs] /\ next.list["src"] \subseteq cmd.list["src"]
      /\ next.list["dst"] \subseteq cmd.list["dst"]
  BY <1>0, <1>1, <1>2 DEF Chains
<1> QED
  BY <1>0, <1>1, <1>3, CleanFiltered

\* The Fabric network is asked again.
LEMMA CleanFilterDst ==
    ASSUME CleanInv, FreezeInv', NEW lost, FilterDst(lost)
    PROVE  CleanInv'
<1> DEFINE S == IF cmd.kind = "relay" THEN UnreceivedPackets(store["src"], cmd.list["dst"])
                ELSE QueryUnreceivedAcknowledgements(store["src"], cmd.list["dst"], lost)
           T == cmd.todo \ {"dst"}
           b == cmd.calm /\ lost = {}
           next == [cmd EXCEPT !.todo = @ \ {"dst"}, !.calm = @ /\ lost = {},
                            !.list["dst"] = IF cmd.kind = "relay"
                               THEN UnreceivedPackets(store["src"], @)
                               ELSE QueryUnreceivedAcknowledgements(store["src"], @, lost)]
<1>0. /\ UNCHANGED <<net, late, ledger, store, client>> /\ DOMAIN cmd = CmdFields
      /\ cmd.pc = "filter" /\ cmd.list \in [Chains -> SUBSET Seqs] /\ Filtered(next)
  BY CleanFacts DEF FilterDst, MayLose, Fault, envVars, CmdOK
<1>1. next = Listing("dst", S, T, cmd.listSeq, b)
  BY <1>0 DEF Listing, CmdFields
<1>2. S \subseteq cmd.list["dst"] /\ (b => cmd.calm)
  BY DEF UnreceivedPackets, QueryUnreceivedAcknowledgements
<1> HIDE DEF next, S, T, b
<1>3. /\ next.pc = cmd.pc /\ next.kind = cmd.kind /\ next.pick = cmd.pick /\ next.seq = cmd.seq
      /\ next.timeouts = cmd.timeouts /\ next.proofs = cmd.proofs /\ next.calm = b
      /\ DOMAIN next = CmdFields /\ next.list = [cmd.list EXCEPT !["dst"] = S]
  BY <1>0, <1>1 DEF CmdFields, Listing
<1>4. /\ next.list \in [Chains -> SUBSET Seqs] /\ next.list["src"] \subseteq cmd.list["src"]
      /\ next.list["dst"] \subseteq cmd.list["dst"]
  BY <1>0, <1>2, <1>3 DEF Chains
<1> QED
  BY <1>0, <1>2, <1>3, <1>4, CleanFiltered

\* What is timed out by the last sequence's timestamp is late.
LEMMA CleanTimeouts ==
    ASSUME CleanInv, FreezeInv', ProcessTimeoutPackets
    PROVE  CleanInv'
<1>0. /\ cmd.pc = "timeouts" /\ UNCHANGED <<net, late, ledger, store, client>>
      /\ cmd.kind # "create" /\ client # None
      /\ DOMAIN cmd = CmdFields /\ StoresAgree /\ ClocksAgree /\ cmd.list \in [Chains -> SUBSET Seqs]
      /\ Sequence \in Nat /\ DOMAIN ledger = 1..Sequence
  BY CleanFacts DEF ProcessTimeoutPackets, envVars, CmdOK, KindOK, Running
<1>1. cmd.calm => /\ cmd.pick = {} /\ cmd.seq = Sequence /\ cmd.proofs = {} /\ cmd.kind = "relay"
                  /\ cmd.list["src"] \subseteq SrcListed
                  /\ cmd.list["dst"] \subseteq DstListed
  BY <1>0 DEF CleanInv, CalmOK, Running, Before, Listed, ListedOK
<1>2. CASE cmd' = Failed /\ ~HasTimestamp(cmd.seq)
  <2>1. cmd'.pc = "failed" /\ cmd'.kind = cmd.kind /\ cmd'.list = cmd.list /\ ~cmd'.calm
    BY <1>1, <1>2, FailedFields DEF HasTimestamp
  <2> QED
    BY <1>0, <2>1, CleanThinks DEF StoresAgree
<1>3. CASE ~(cmd' = Failed /\ ~HasTimestamp(cmd.seq))
  <2> DEFINE late0 == Last(ledger).late
             L == [cmd.list EXCEPT !["dst"] = @ \ late0]
             next == [cmd EXCEPT !.timeouts = cmd.list["dst"] \cap late0, !.list["dst"] = @ \ late0]
  <2>1. late0 \subseteq late
    <3>1. Sequence \in DOMAIN ledger
      BY <1>0 DEF ClocksAgree
    <3>2. Last(ledger) = ledger[Sequence]
      BY DEF Last, Sequence
    <3> QED
      BY <1>0, <3>1, <3>2 DEF ClocksAgree
  <2>2. TryFilterRelayPackets(next)
    BY <1>3 DEF ProcessTimeoutPackets
  <2> HIDE DEF late0
  <2>3. /\ L \in [Chains -> SUBSET Seqs]
        /\ L["src"] = cmd.list["src"] /\ L["dst"] = cmd.list["dst"] \ late0
    BY <1>0 DEF Chains
  <2>4. next = [cmd EXCEPT !.timeouts = cmd.list["dst"] \cap late0, !.list = L]
    BY <1>0 DEF CmdFields
  <2>5. /\ DOMAIN next = CmdFields /\ next.list = L
        /\ next.kind = cmd.kind /\ next.pick = cmd.pick /\ next.seq = cmd.seq
        /\ next.timeouts = cmd.list["dst"] \cap late0 /\ next.proofs = cmd.proofs /\ next.calm = cmd.calm
    <3> HIDE DEF L, next
    <3> QED
      BY <1>0, <2>4 DEF CmdFields
  <2> HIDE DEF L, next
  <2>6. /\ cmd'.pc \in {"advance", "failed"} /\ (cmd.pick = {} => cmd'.pc = "advance")
        /\ cmd'.kind = cmd.kind /\ cmd'.pick = cmd.pick /\ cmd'.seq = cmd.seq
        /\ cmd'.timeouts = cmd.list["dst"] \cap late0 /\ cmd'.proofs = cmd.proofs /\ cmd'.calm = cmd.calm
        /\ cmd'.list["src"] \subseteq cmd.list["src"] /\ cmd'.list["dst"] = cmd.list["dst"] \ late0
    BY <2>2, <2>3, <2>5, TryFilterFields
  <2>7. SrcListed' = SrcListed /\ DstListed' = DstListed
    BY <1>0, <2>6 DEF SrcListed, DstListed
  <2>8. cmd'.calm => cmd'.pc = "advance" /\ CalmOK'
    BY <1>0, <1>1, <2>1, <2>6, <2>7, CalmAdvance
  <2>9. cmd'.kind # "relay" => cmd'.list["dst"] \subseteq store["dst"].recv
    BY <1>0, <2>6 DEF StoresAgree
  <2> QED
    BY <1>0, <2>6, <2>8, <2>9, CleanThinks
<1> QED
  BY <1>2, <1>3

\* The header that is endorsed is for the sequence after the last.
LEMMA CleanSetupHeaders ==
    ASSUME CleanInv, FreezeInv', SetupHeadersForUpdate
    PROVE  CleanInv'
<1>0. /\ cmd.pc = "advance" /\ UNCHANGED <<net, late, ledger, store, client>>
      /\ DOMAIN cmd = CmdFields /\ StoresAgree /\ ClocksAgree /\ cmd.hdr = None
      /\ Sequence \in Nat /\ LedgerOK /\ late \in SUBSET Seqs /\ client # None
      /\ cmd.kind # "create"
  BY CleanFacts DEF SetupHeadersForUpdate, envVars, CmdOK, Before, HeightInv, KindOK, Running
<1>1. cmd.calm => /\ cmd.pick = {} /\ cmd.proofs = {}
                  /\ cmd.list["src"] \subseteq SrcListed
                  /\ cmd.kind = "relay" => cmd.list["dst"] \subseteq DstListed
                  /\ cmd.timeouts \subseteq late \cap DstListed
  BY <1>0 DEF CleanInv, CalmOK, Running, Before, Listed, ListedOK
<1>2. CASE cmd' = [cmd EXCEPT !.pc = "commit", !.hdr = NextHeader("us")]
  <2> DEFINE h == NextHeader("us")
  <2>1. /\ h.sequence.value = Sequence + 1 /\ h.sequence.stamp.late = late
        /\ h # None /\ h.sequence # None /\ h.info = None /\ h.msps = None
        /\ h.proof = Endorse(SequenceCommitmentKey, h.sequence)
    BY DEF NextHeader, Stamp, None
  <2>2. /\ cmd'.pc = "commit" /\ cmd'.hdr = h
        /\ cmd'.kind = cmd.kind /\ cmd'.pick = cmd.pick /\ cmd'.list = cmd.list
        /\ cmd'.timeouts = cmd.timeouts /\ cmd'.proofs = cmd.proofs /\ cmd'.calm = cmd.calm
    <3> HIDE DEF h
    <3> QED
      BY <1>0, <1>2 DEF CmdFields, h
  <2> HIDE DEF h
  <2>3. SrcListed' = SrcListed /\ DstListed' = DstListed
    BY <1>0, <2>2 DEF SrcListed, DstListed
  <2>4. HeaderOK'
    <3>1. Signers' = Signers
      BY <1>0 DEF Signers
    <3> QED
      BY <1>0, <2>1, <2>2, <3>1 DEF HeaderOK, ClocksAgree, Endorse
  <2>5. cmd'.calm => CalmOK'
    BY <1>0, <1>1, <2>1, <2>2, <2>3, <2>4 DEF CalmOK, Running, Before, After, Listed, ListedOK, Sequence
  <2> QED
    BY <1>0, <2>1, <2>2, <2>5, CleanThinks DEF StoresAgree
<1>3. CASE cmd' = [cmd EXCEPT !.pc = "sendSrc"]
  <2>1. /\ cmd'.pc = "sendSrc" /\ cmd'.kind = cmd.kind /\ cmd'.list = cmd.list
        /\ cmd'.pick = cmd.pick /\ cmd'.hdr = cmd.hdr /\ cmd'.calm = cmd.calm
    BY <1>0, <1>3 DEF CmdFields
  <2>2. cmd'.calm => CalmOK'
    BY <1>0, <1>1, <2>1 DEF CalmOK, Running, Before, After, Listed, ListedOK
  <2> QED
    BY <1>0, <2>1, <2>2, CleanThinks DEF StoresAgree
<1> QED
  BY <1>2, <1>3 DEF SetupHeadersForUpdate

\* The ledger after the command's own sequence.
LEMMA OwnCommitted ==
    ASSUME CleanInv, cmd.pc = "commit", ledger' = Append(ledger, cmd.hdr.sequence.stamp)
    PROVE  /\ Sequence' = Sequence + 1 /\ DOMAIN ledger' = 1..(Sequence + 1)
           /\ \A i \in DOMAIN ledger' : ledger'[i].late \subseteq late
<1>1. /\ cmd.hdr.sequence.stamp \in Stamps /\ LedgerOK /\ ClocksAgree
      /\ Len(ledger) = Sequence /\ Sequence \in Nat
  BY CleanFacts DEF CmdOK
<1> QED
  BY <1>1, LedgerGrows DEF Sequence, ClocksAgree

\* The sequence moves when nobody else has moved it since the endorsement.
LEMMA CleanCommit ==
    ASSUME CleanInv, FreezeInv', CommitSequence
    PROVE  CleanInv'
<1>0. /\ cmd.pc = "commit" /\ UNCHANGED <<net, late, store, client>>
      /\ DOMAIN cmd = CmdFields /\ StoresAgree /\ ClocksAgree
      /\ Sequence \in Nat
  BY CleanFacts DEF CommitSequence, envVars
<1>1. cmd.calm => /\ cmd.pick = {} /\ cmd.proofs = {} /\ cmd.hdr.sequence.value = Sequence + 1
                  /\ cmd.kind # "create" => HeaderOK /\ ListedOK
  BY <1>0 DEF CleanInv, CalmOK, Running, Before, Listed, ListedOK
<1>2. CASE Sequence + 1 = cmd.hdr.sequence.value
  <2>1. /\ ledger' = Append(ledger, cmd.hdr.sequence.stamp)
        /\ cmd' = [cmd EXCEPT !.pc = IF cmd.kind = "create" THEN "second" ELSE "prove"]
    BY <1>2 DEF CommitSequence
  <2>2. /\ cmd'.pc = (IF cmd.kind = "create" THEN "second" ELSE "prove") /\ cmd'.kind = cmd.kind /\ cmd'.list = cmd.list /\ cmd'.pick = cmd.pick
        /\ cmd'.hdr = cmd.hdr /\ cmd'.calm = cmd.calm /\ cmd'.timeouts = cmd.timeouts
        /\ cmd'.proofs = cmd.proofs
    BY <1>0, <2>1 DEF CmdFields
  <2>3. /\ Sequence' = Sequence + 1 /\ DOMAIN ledger' = 1..(Sequence + 1)
        /\ \A i \in DOMAIN ledger' : ledger'[i].late \subseteq late
    BY <1>0, <2>1, OwnCommitted
  <2>4. StoresAgree' /\ ClocksAgree' /\ CleanWithoutInterference'
    BY <1>0, <2>2, <2>3 DEF StoresAgree, ClocksAgree, CleanWithoutInterference
  <2>5. SrcListed' = SrcListed /\ DstListed' = DstListed /\ Signers' = Signers
    BY <1>0, <2>2 DEF SrcListed, DstListed, Signers
  <2>6. (HeaderOK => HeaderOK') /\ (ListedOK => ListedOK')
    BY <1>0, <2>2, <2>5 DEF HeaderOK, Endorse, ListedOK
  <2>7. cmd'.calm => CalmOK'
    <3>1. CASE cmd.kind = "create"
      BY <1>1, <2>2, <3>1 DEF CalmOK, Running, Before, After, Listed
    <3>2. CASE cmd.kind # "create"
      BY <1>1, <2>2, <2>3, <2>6, <3>2 DEF CalmOK, Running, Before, After, Listed
    <3> QED
      BY <3>1, <3>2
  <2> QED
    BY <2>4, <2>7 DEF CleanInv
<1>3. CASE Sequence + 1 # cmd.hdr.sequence.value
  <2>1. cmd' = Failed /\ UNCHANGED ledger
    BY <1>3 DEF CommitSequence
  <2>2. cmd'.pc = "failed" /\ cmd'.kind = cmd.kind /\ cmd'.list = cmd.list /\ ~cmd'.calm
    BY <1>1, <1>3, <2>1, FailedFields
  <2> QED
    BY <1>0, <2>1, <2>2, CleanThinks DEF StoresAgree
<1> QED
  BY <1>2, <1>3

\* A fault ends the command, which is not calm then.
LEMMA CleanLost ==
    ASSUME CleanInv, FreezeInv', CommitLost \/ Abort
    PROVE  CleanInv'
<1>0. /\ UNCHANGED <<net, late, store, client>> /\ cmd' = [Failed EXCEPT !.calm = FALSE]
      /\ StoresAgree /\ ClocksAgree /\ Sequence \in Nat
  BY CleanFacts DEF CommitLost, Abort, Fault
<1>1. cmd'.pc = "failed" /\ cmd'.kind = cmd.kind /\ cmd'.list = cmd.list /\ ~cmd'.calm
  BY <1>0, FailedFields DEF CmdFields
<1>2. \/ UNCHANGED ledger
      \/ cmd.pc = "commit" /\ ledger' = Append(ledger, cmd.hdr.sequence.stamp)
  BY DEF CommitLost, Abort
<1>3. ClocksAgree'
  <2>1. CASE UNCHANGED ledger
    BY <1>0, <1>1, <2>1 DEF ClocksAgree, Sequence
  <2>2. CASE cmd.pc = "commit" /\ ledger' = Append(ledger, cmd.hdr.sequence.stamp)
    BY <1>0, <1>1, <2>2, OwnCommitted DEF ClocksAgree
  <2> QED
    BY <1>2, <2>1, <2>2
<1>4. StoresAgree' /\ CleanWithoutInterference'
  BY <1>0, <1>1 DEF StoresAgree, CleanWithoutInterference
<1> QED
  BY <1>1, <1>3, <1>4 DEF CleanInv

\* While nothing interferes everything on the list can be proved; a timeout cannot.
LEMMA CleanProve ==
    ASSUME CleanInv, FreezeInv', ProveCommitment
    PROVE  CleanInv'
<1>0. /\ cmd.pc = "prove" /\ UNCHANGED <<net, late, ledger, store, client>>
      /\ cmd.kind # "create" /\ client # None
      /\ DOMAIN cmd = CmdFields /\ StoresAgree /\ Sequence \in Nat
      /\ cmd.list["src"] \in SUBSET Nat
  BY CleanFacts, StoreFacts DEF ProveCommitment, envVars, CmdOK, Chains, KindOK, Running
<1>1. cmd.calm => /\ cmd.pick = {}
                  /\ cmd.list["src"] \subseteq SrcListed
                  /\ cmd.kind = "relay" => cmd.list["dst"] \subseteq DstListed
                  /\ cmd.timeouts \subseteq late \cap DstListed
                  /\ cmd.hdr # None => /\ HeaderOK /\ cmd.hdr.sequence.value = Sequence
                                       /\ \A p \in cmd.proofs : ProvedOK(p)
  BY <1>0 DEF CleanInv, CalmOK, Running, After, Listed, ListedOK
<1>s. Signers' = Signers
  BY <1>0 DEF Signers
<1>2. CASE Unproved = {} /\ cmd.timeouts = {}
  <2>1. cmd' = [cmd EXCEPT !.pc = "sendSrc"]
    BY <1>2 DEF ProveCommitment
  <2>2. /\ cmd'.pc = "sendSrc" /\ cmd'.kind = cmd.kind /\ cmd'.list = cmd.list /\ cmd'.pick = cmd.pick
        /\ cmd'.hdr = cmd.hdr /\ cmd'.calm = cmd.calm /\ cmd'.proofs = cmd.proofs
    BY <1>0, <2>1 DEF CmdFields
  <2>3. (HeaderOK => HeaderOK') /\ \A p : ProvedOK(p) => ProvedOK(p)'
    BY <1>0, <1>s, <2>2 DEF HeaderOK, ProvedOK, Endorse, Sequence
  <2>4. cmd'.calm => CalmOK'
    BY <1>0, <1>1, <2>2, <2>3 DEF CalmOK, Running, Before, After, Listed, ListedOK, Sequence
  <2> QED
    BY <1>0, <2>2, <2>4, CleanThinks DEF StoresAgree
<1>3. CASE Unproved = {} /\ cmd.timeouts # {}
  <2>1. cmd' = Failed
    BY <1>3 DEF ProveCommitment
  <2>2. cmd'.pc = "failed" /\ cmd'.kind = cmd.kind /\ cmd'.list = cmd.list /\ cmd'.calm = cmd.calm
    BY <2>1, FailedFields
  <2>3. cmd.calm => Outdated
    BY <1>1, <1>3 DEF Outdated, DstListed
  <2> QED
    BY <1>0, <2>2, <2>3, CleanThinks, CalmEnded DEF StoresAgree
<1>4. CASE Unproved # {} /\ Provable(Min(Unproved))
  <2> DEFINE n == Min(Unproved)
             new == [n |-> n, height |-> 0, proof |-> Endorse(fabricLedgerKey(PathOf(cmd.kind, n)), n)]
  <2>1. cmd' = [cmd EXCEPT !.pc = "height", !.proofs = @ \cup {new}]
    BY <1>4 DEF ProveCommitment
  <2>2. new.height = 0 /\ new.proof = Endorse(fabricLedgerKey(PathOf(cmd.kind, new.n)), new.n)
    OBVIOUS
  <2> HIDE DEF n, new
  <2>3. /\ cmd'.pc = "height" /\ cmd'.kind = cmd.kind /\ cmd'.list = cmd.list /\ cmd'.pick = cmd.pick
        /\ cmd'.hdr = cmd.hdr /\ cmd'.calm = cmd.calm /\ cmd'.timeouts = cmd.timeouts
        /\ cmd'.proofs = cmd.proofs \cup {new}
    BY <1>0, <2>1 DEF CmdFields
  <2>4. (HeaderOK => HeaderOK') /\ \A p : ProvedOK(p) => ProvedOK(p)'
    BY <1>0, <1>s, <2>3 DEF HeaderOK, ProvedOK, Endorse, Sequence
  <2>5. ProvedOK(new)
    BY <1>0, <2>2 DEF ProvedOK
  <2>6. SrcListed' = SrcListed /\ DstListed' = DstListed
    BY <1>0, <2>3 DEF SrcListed, DstListed
  <2>7. cmd'.calm => CalmOK'
    BY <1>0, <1>1, <2>3, <2>4, <2>5, <2>6 DEF CalmOK, Running, Before, After, Listed, ListedOK, Sequence
  <2> QED
    BY <1>0, <2>3, <2>7, CleanThinks DEF StoresAgree
<1>5. CASE Unproved # {} /\ ~Provable(Min(Unproved))
  <2> DEFINE n == Min(Unproved)
  <2>1. cmd' = Failed
    BY <1>5 DEF ProveCommitment
  <2>2. n \in cmd.list["src"]
    BY <1>0, <1>5, MinOf DEF Unproved
  <2> HIDE DEF n
  <2>3. cmd.calm => Provable(n)
    BY <1>0, <1>1, <2>2 DEF Provable, SrcListed, Commitments, StoresAgree, Chains
  <2>4. cmd'.pc = "failed" /\ cmd'.kind = cmd.kind /\ cmd'.list = cmd.list /\ ~cmd'.calm
    BY <1>5, <2>1, <2>3, FailedFields DEF n
  <2> QED
    BY <1>0, <2>4, CleanThinks DEF StoresAgree
<1> QED
  BY <1>2, <1>3, <1>4, <1>5

\* The height of the proof is the sequence that the command has committed.
LEMMA CleanProofHeight ==
    ASSUME CleanInv, FreezeInv', QueryProofHeight
    PROVE  CleanInv'
<1>0. /\ cmd.pc = "height" /\ UNCHANGED <<net, late, ledger, store, client>>
      /\ cmd.kind # "create" /\ client # None
      /\ DOMAIN cmd = CmdFields /\ StoresAgree /\ Sequence \in Nat
      /\ \A p \in cmd.proofs : ProofOK(p)
  BY CleanFacts DEF QueryProofHeight, envVars, CmdOK, KindOK, Running
<1>1. cmd.calm => /\ cmd.pick = {}
                  /\ cmd.list["src"] \subseteq SrcListed
                  /\ cmd.kind = "relay" => cmd.list["dst"] \subseteq DstListed
                  /\ cmd.timeouts \subseteq late \cap DstListed
                  /\ cmd.hdr # None => /\ HeaderOK /\ cmd.hdr.sequence.value = Sequence
                                       /\ \A p \in cmd.proofs : ProvedOK(p)
  BY <1>0 DEF CleanInv, CalmOK, Running, After, Listed, ListedOK
<1> DEFINE Dated(p) == IF p.height = 0 THEN [p EXCEPT !.height = Sequence] ELSE p
<1>2. cmd' = [cmd EXCEPT !.pc = "prove", !.proofs = {Dated(p) : p \in @}]
  BY DEF QueryProofHeight
<1>3. /\ cmd'.pc = "prove" /\ cmd'.kind = cmd.kind /\ cmd'.list = cmd.list /\ cmd'.pick = cmd.pick
      /\ cmd'.hdr = cmd.hdr /\ cmd'.calm = cmd.calm /\ cmd'.timeouts = cmd.timeouts
      /\ cmd'.proofs = {Dated(p) : p \in cmd.proofs}
  <2> HIDE DEF Dated
  <2> QED
    BY <1>0, <1>2 DEF CmdFields
<1>4. Signers' = Signers /\ SrcListed' = SrcListed /\ DstListed' = DstListed
  BY <1>0, <1>3 DEF Signers, SrcListed, DstListed
<1>5. (HeaderOK => HeaderOK') /\ \A p : ProvedOK(p) => ProvedOK(p)'
  BY <1>0, <1>3, <1>4 DEF HeaderOK, ProvedOK, Endorse, Sequence
<1>6. \A p \in cmd.proofs : ProvedOK(p) => ProvedOK(Dated(p))
  BY <1>0 DEF ProvedOK, ProofOK
<1> HIDE DEF Dated
<1>7. cmd'.calm => CalmOK'
  BY <1>0, <1>1, <1>3, <1>4, <1>5, <1>6 DEF CalmOK, Running, Before, After, Listed, ListedOK, Sequence
<1> QED
  BY <1>0, <1>3, <1>7, CleanThinks DEF StoresAgree

\* Sending to the Fabric network, whether or not the answer comes: what is acknowledged
\* there was received, and the proofs that are already made are none of its concern.
LEMMA CleanSendSrc ==
    ASSUME CleanInv, FreezeInv', SendToSrc \/ SendToSrcLost
    PROVE  CleanInv'
<1>0. /\ cmd.pc = "sendSrc" /\ UNCHANGED <<net, late, ledger, client>>
      /\ DOMAIN cmd = CmdFields /\ StoresAgree /\ ClocksAgree /\ Sequence \in Nat
      /\ store \in [Chains -> Store] /\ "src" \in Chains /\ "dst" \in Chains
      /\ cmd.list \in [Chains -> SUBSET Seqs] /\ cmd.list["dst"] \in SUBSET Nat
  BY CleanFacts, StoreFacts DEF SendToSrc, SendToSrcLost, envVars, Fault, CmdOK, Chains
<1> DEFINE n == Min(cmd.list["dst"])
<1>1. cmd.list["dst"] # {} => n \in cmd.list["dst"]
  BY <1>0, MinOf
<1>2. \/ UNCHANGED store
      \/ /\ cmd.list["dst"] # {} /\ cmd.kind = "relay"
         /\ store' = [store EXCEPT !["src"].recv = @ \cup {n}]
      \/ /\ cmd.list["dst"] # {} /\ cmd.kind # "relay"
         /\ store' = [store EXCEPT !["src"].acked = @ \cup ({n} \cap Commitments(store["src"]))]
      \/ /\ cmd.list["dst"] # {} /\ cmd.kind = "acks"
         /\ store' = [store EXCEPT !["src"].acked = @ \cup {n}]
  BY DEF SendToSrc, SendToSrcLost
<1>3. \/ cmd' = [cmd EXCEPT !.pc = "sendDst"]
      \/ cmd' = [cmd EXCEPT !.pc = "sendDst", !.calm = FALSE]
      \/ cmd' = [cmd EXCEPT !.list["dst"] = @ \ {n}]
  BY DEF SendToSrc, SendToSrcLost
<1> HIDE DEF n
<1>4. /\ cmd'.pc \in {"sendSrc", "sendDst"} /\ cmd'.kind = cmd.kind /\ cmd'.pick = cmd.pick
      /\ cmd'.hdr = cmd.hdr /\ (cmd'.calm => cmd.calm) /\ cmd'.proofs = cmd.proofs
      /\ cmd'.list["dst"] \subseteq cmd.list["dst"]
  <2>1. CASE cmd' = [cmd EXCEPT !.pc = "sendDst"] \/ cmd' = [cmd EXCEPT !.pc = "sendDst", !.calm = FALSE]
    BY <1>0, <2>1 DEF CmdFields
  <2>2. CASE cmd' = [cmd EXCEPT !.list["dst"] = @ \ {n}]
    <3> DEFINE L == [cmd.list EXCEPT !["dst"] = @ \ {n}]
    <3>1. L["dst"] \subseteq cmd.list["dst"]
      BY <1>0
    <3>2. cmd' = [cmd EXCEPT !.list = L]
      BY <1>0, <2>2 DEF CmdFields
    <3> HIDE DEF L
    <3> QED
      BY <1>0, <3>1, <3>2 DEF CmdFields
  <2> QED
    BY <1>3, <2>1, <2>2
<1>5. /\ \A c \in Chains : store'[c].refunded = store[c].refunded
      /\ store'["dst"] = store["dst"]
      /\ store'["src"].acked \subseteq store["src"].acked \cup store["dst"].recv
  BY <1>0, <1>1, <1>2 DEF StoresAgree, Store, Chains
<1>6. StoresAgree' /\ ClocksAgree' /\ CleanWithoutInterference'
  BY <1>0, <1>4, <1>5 DEF StoresAgree, ClocksAgree, CleanWithoutInterference, Sequence
<1>7. cmd'.calm => CalmOK'
  <2>1. cmd.calm => /\ cmd.pick = {}
                    /\ cmd.hdr # None => /\ HeaderOK /\ cmd.hdr.sequence.value = Sequence
                                         /\ \A p \in cmd.proofs : ProvedOK(p)
    BY <1>0 DEF CleanInv, CalmOK, Running, After
  <2>2. Signers' = Signers
    BY <1>0 DEF Signers
  <2>3. (HeaderOK => HeaderOK') /\ \A p : ProvedOK(p) => ProvedOK(p)'
    BY <1>0, <1>4, <2>2 DEF HeaderOK, ProvedOK, Endorse, Sequence
  <2> QED
    BY <1>0, <1>4, <2>1, <2>3 DEF CalmOK, Running, Before, After, Listed, ListedOK, Sequence
<1> QED
  BY <1>6, <1>7 DEF CleanInv

\* A client that follows the network accepts the header and the proofs of a calm command.
LEMMA CalmAccepted ==
    ASSUME CleanInv, cmd.pc = "sendDst", cmd.hdr # None, cmd.calm, Follows
    PROVE  /\ VerifyClientMessage(client, cmd.hdr)
           /\ \A p \in cmd.proofs : Verified(UpdateState(client, cmd.hdr), p)
<1>1. HeaderOK /\ cmd.hdr.sequence.value = Sequence /\ \A p \in cmd.proofs : ProvedOK(p)
  BY DEF CleanInv, CalmOK, After
<1>2. ASSUME NEW key, NEW value, NEW cs, cs.info = client.info, cs.infos = client.infos
      PROVE  VerifyEndorsedCommitment(cs, Endorse(key, value), key, value)
  BY <1>2 DEF Follows, VerifyEndorsedCommitment, Endorse
<1>3. VerifyClientMessage(client, cmd.hdr)
  <2>1. verifyChaincodeHeader(client, cmd.hdr.sequence, cmd.hdr.proof)
    BY <1>1, <1>2 DEF HeaderOK, verifyChaincodeHeader
  <2> QED
    BY <1>1, <2>1 DEF HeaderOK, VerifyClientMessage, ValidateBasic
<1> DEFINE cs == UpdateState(client, cmd.hdr)
<1>4. cs.sequence = cmd.hdr.sequence /\ cs.info = client.info /\ cs.infos = client.infos
  BY <1>1 DEF UpdateState, HeaderOK
<1> HIDE DEF cs
<1>5. ASSUME NEW p \in cmd.proofs
      PROVE  Verified(cs, p)
  <2>1. p.height <= cs.sequence.value
    BY <1>1, <1>4 DEF ProvedOK
  <2>2. VerifyEndorsedCommitment(cs, p.proof, fabricLedgerKey(PathOf(cmd.kind, p.n)), p.n)
    BY <1>1, <1>2, <1>4 DEF ProvedOK
  <2> QED
    BY <2>1, <2>2 DEF Verified, VerifyMembership
<1> QED
  BY <1>3, <1>5 DEF cs

\* The transaction to "dst" is refused only if something interfered.
LEMMA CleanSendDst ==
    ASSUME CleanInv, FreezeInv', SendToDst
    PROVE  CleanInv'
<1>0. /\ cmd.pc = "sendDst" /\ UNCHANGED <<net, late, ledger>>
      /\ StoresAgree /\ ClocksAgree /\ Sequence \in Nat /\ client # None
      /\ store \in [Chains -> Store] /\ Committed(cmd.hdr, ledger)
  BY CleanFacts DEF SendToDst, envVars, CmdOK, After, KindOK, Running
<1>i. Idle.pc = "idle" /\ Idle.kind = "none" /\ Idle.list["dst"] = {}
  BY DEF Idle, NoLists, Chains
<1>1. CASE cmd.hdr = None
  <2>1. cmd' = Idle /\ UNCHANGED <<store, client, cons>>
    BY <1>1 DEF SendToDst
  <2> QED
    BY <1>0, <1>i, <2>1, CalmEnded, CleanThinks
<1>2. CASE cmd.hdr # None /\ UpdateClient(cmd.hdr) /\ cmd' = Idle
  <2> DEFINE S == {p.n : p \in cmd.proofs}
  <2>1. CASE UNCHANGED store
    <3>1. StoresAgree'
      BY <1>0, <1>i, <1>2, <2>1 DEF StoresAgree
    <3>2. ClocksAgree' /\ CleanWithoutInterference'
      BY <1>0, <1>i, <1>2, UpdatedSequence DEF ClocksAgree, CleanWithoutInterference, Sequence
    <3> QED
      BY <1>i, <1>2, <3>1, <3>2, CalmEnded DEF CleanInv
  <2>2. CASE \/ store' = [store EXCEPT !["dst"].recv = @ \cup S]
             \/ store' = [store EXCEPT !["dst"].acked = @ \cup (S \cap Commitments(store["dst"]))]
    <3> HIDE DEF S
    <3>1. /\ \A c \in Chains : store'[c].refunded = store[c].refunded
          /\ store'["src"] = store["src"] /\ store["dst"].recv \subseteq store'["dst"].recv
      BY <1>0, <2>2 DEF Store, Chains
    <3>2. StoresAgree'
      BY <1>0, <1>i, <1>2, <3>1 DEF StoresAgree
    <3>3. ClocksAgree' /\ CleanWithoutInterference'
      BY <1>0, <1>i, <1>2, UpdatedSequence DEF ClocksAgree, CleanWithoutInterference, Sequence
    <3> QED
      BY <1>i, <1>2, <3>2, <3>3, CalmEnded DEF CleanInv
  <2>3. \/ UNCHANGED store
        \/ store' = [store EXCEPT !["dst"].recv = @ \cup S]
        \/ store' = [store EXCEPT !["dst"].acked = @ \cup (S \cap Commitments(store["dst"]))]
    BY <1>2 DEF SendToDst
  <2> QED
    BY <2>1, <2>2, <2>3
<1>3. CASE /\ cmd.hdr # None /\ cmd' = Failed /\ UNCHANGED <<store, client, cons>>
           /\ ~(/\ VerifyClientMessage(client, cmd.hdr)
                /\ \A p \in cmd.proofs : Verified(UpdateState(client, cmd.hdr), p))
  <2>1. cmd'.pc = "failed" /\ cmd'.kind = cmd.kind /\ cmd'.list = cmd.list /\ cmd'.calm = cmd.calm
    BY <1>3, FailedFields
  <2>2. cmd.calm => ~Follows
    BY <1>0, <1>3, CalmAccepted
  <2> QED
    BY <1>0, <1>3, <2>1, <2>2, CalmEnded, CleanThinks DEF StoresAgree
<1> QED
  BY <1>1, <1>2, <1>3 DEF SendToDst

\* The steps together.
LEMMA CleanNext == CleanInv /\ [Next]_vars => CleanInv'
<1> SUFFICES ASSUME CleanInv, [Next]_vars PROVE CleanInv'
  OBVIOUS
<1>0. FreezeInv'
  BY FreezeNext DEF CleanInv, FreezeStep
<1>1. CASE UNCHANGED vars
  <2>1. UNCHANGED <<net, late, ledger, store, client, cmd>>
    BY <1>1 DEF vars, envVars
  <2>2. StoresAgree' /\ ClocksAgree'
    BY <2>1 DEF CleanInv, StoresAgree, ClocksAgree, Sequence
  <2>3. Signers' = Signers
    BY <2>1 DEF Signers
  <2>4. CleanWithoutInterference'
    BY <2>1, <2>3 DEF CleanInv, CleanWithoutInterference, Outdated, Follows
  <2>5. CalmOK => CalmOK'
    <3>1. (ListedOK => ListedOK') /\ (ListingOK => ListingOK')
      BY <2>1 DEF ListedOK, ListingOK, Sequence, RawListed, SrcListed, DstListed
    <3>2. (HeaderOK => HeaderOK') /\ \A p : ProvedOK(p) => ProvedOK(p)'
      BY <2>1, <2>3 DEF HeaderOK, ProvedOK, Sequence, Endorse
    <3> QED
      BY <2>1, <3>1, <3>2 DEF CalmOK, Running, Sequence
  <2> QED
    BY <1>0, <2>1, <2>2, <2>4, <2>5 DEF CleanInv
<1>2. CASE \/ (\E c \in Chains : SendPacket(c))
           \/ Expire \/ RivalAdvance \/ RivalUpdate \/ RivalToFabric
           \/ (\E o \in Movers : Rotate(o) \/ Repolicy(o) \/ Expel(o) \/ Join(o))
           \/ Upgrade \/ Deliver
  BY <1>0, <1>2, CleanEnvironment
<1>3. CASE \/ BeginCreate
           \/ \E kind \in {"relay", "acks"}, pick \in {{}} \cup {{n} : n \in Seqs} : Begin(kind, pick)
  BY <1>0, <1>3, CleanBegin, CleanBeginCreate
<1>4. CASE CommandStep
  BY <1>0, <1>4, CleanFirst, CleanCreate, CleanHeader, CleanListSrc, CleanAskDst, CleanListDst,
     CleanMetrics, CleanFilterSrc, CleanFilterDst, CleanTimeouts, CleanSetupHeaders, CleanCommit, CleanProve,
     CleanProofHeight, CleanSendSrc, CleanSendDst DEF CommandStep
<1>5. CASE CommitLost \/ SendToSrcLost \/ Abort
  BY <1>0, <1>5, CleanLost, CleanSendSrc
<1>6. CASE Exhausted
  BY <1>1, <1>6 DEF Exhausted
<1> QED
  BY <1>1, <1>2, <1>3, <1>4, <1>5, <1>6 DEF Next

(***************************************************************************)
(* tx relay and tx relay-acknowledgements succeed when nothing interferes: *)
(* a command for everything that fails, or whose transaction the           *)
(* counterparty refuses, met the rival, a fault or governance, or has a    *)
(* timed-out packet on its list, or the client does not follow the         *)
(* network's membership.  What it proves is then on the chaincode, at a    *)
(* height that is not after the header's, and the header is the next one.  *)
(* tx clients does not fail alone (chains/fabric/prover.go,                *)
(* CreateInitialLightClientState).                                         *)
(***************************************************************************)
THEOREM CleanCorrect == Spec => []CleanWithoutInterference
<1>1. CleanInv => CleanWithoutInterference
  BY DEF CleanInv
<1> QED
  BY <1>1, CleanInit, CleanNext, PTL DEF Spec
=============================================================================
