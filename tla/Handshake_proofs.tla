-------------------------- MODULE Handshake_proofs --------------------------
(***************************************************************************)
(* Proofs about Handshake, for every finality delay, every number of ends, *)
(* of retries and of faults: its state is well typed, a command that       *)
(* reports success leaves an open pair, every fault leaves at most one end *)
(* behind, and without faults the command never fails.                     *)
(***************************************************************************)
EXTENDS Handshake, FiniteSetTheorems, TLAPS

-----------------------------------------------------------------------------
(* Types *)

\* Facts about the constants, with the definitions hidden behind them.
LEMMA ConstantTypes ==
    /\ Delay \in Nat /\ Delay >= 1 /\ 0 \in 0..Delay /\ 1 \in 0..Delay /\ Delay \in 0..Delay
    /\ NoId \notin Ids /\ 1 \in Ids /\ Ids \subseteq Nat
    /\ NoEnd \in End /\ EmptyStore \in Store /\ NoMsg \in Msg /\ NoTx \in Tx
    /\ NoEnds \in [Chains -> End] /\ NoHeaders \in [Chains -> Header]
    /\ MaxFailed \in Nat /\ MaxFaults \in Nat
<1>1. /\ Delay \in Nat /\ Delay >= 1 /\ 0 \in 0..Delay /\ 1 \in 0..Delay /\ Delay \in 0..Delay
      /\ NoId \notin Ids /\ 1 \in Ids /\ Ids \subseteq Nat
      /\ MaxFailed \in Nat /\ MaxFaults \in Nat
  BY HandshakeAssumption DEF Ids, NoId
<1>2. NoEnd \in End
  BY DEF NoEnd, End, States
<1>3. EmptyStore \in Store
  BY <1>2 DEF EmptyStore, Store
<1>4. NoMsg \in Msg /\ NoEnds \in [Chains -> End]
  BY <1>2 DEF NoMsg, Msg, Chains, NoEnds
<1>5. NoTx \in Tx /\ NoHeaders \in [Chains -> Header]
  BY <1>3, <1>4 DEF NoTx, Tx, NoHeaders, Header
<1> QED
  BY <1>1, <1>2, <1>3, <1>4, <1>5

\* A query returns an end.
LEMMA EndOfType ==
    ASSUME NEW store \in Store, NEW id \in Ids \cup {NoId}
    PROVE  EndOf(store, id) \in End
  BY ConstantTypes DEF EndOf, Store

\* What a message makes of a store is a store again.
LEMMA ResultType ==
    ASSUME NEW store \in Store, NEW m \in Msg, Generates(m) => NextId(store) \in Ids
    PROVE  Result(store, m) \in Store
<1>1. [state |-> "INIT", cp |-> NoId] \in End /\ [state |-> "TRYOPEN", cp |-> m.cp] \in End
      /\ [state |-> "OPEN", cp |-> m.cp] \in End
  BY DEF Msg, End, States
<1>2. ASSUME NEW i \in Ids PROVE [store[i] EXCEPT !.state = "OPEN"] \in End
  BY DEF Store, End, States
<1> QED
  BY <1>1, <1>2 DEF Result, Store, Generates

\* A new block keeps the types.
LEMMA BlockType ==
    ASSUME TypeOK, NEW c \in Chains, NEW store \in Store, AddBlock(c, store)
    PROVE  hist' \in [Chains -> [0..Delay -> Store]]
<1>1. \A i \in 0..Delay : i # 0 => i - 1 \in 0..Delay
  BY ConstantTypes
<1>2. [i \in 0..Delay |-> IF i = 0 THEN store ELSE hist[c][i - 1]] \in [0..Delay -> Store]
  BY <1>1 DEF TypeOK
<1> QED
  BY <1>2 DEF TypeOK, AddBlock

\* The steps of both switches.
LEMMA StepTable ==
    ASSUME NEW s \in Steps
    PROVE  \/ s = Step("UNINITIALIZED", "UNINITIALIZED", "src", "init", TRUE, FALSE)
           \/ s = Step("UNINITIALIZED", "UNINITIALIZED", "src", "init", FALSE, FALSE)
           \/ s = Step("UNINITIALIZED", "INIT", "src", "try", TRUE, FALSE)
           \/ s = Step("INIT", "UNINITIALIZED", "dst", "try", TRUE, FALSE)
           \/ s = Step("TRYOPEN", "INIT", "dst", "ack", TRUE, FALSE)
           \/ s = Step("INIT", "TRYOPEN", "src", "ack", TRUE, FALSE)
           \/ s = Step("TRYOPEN", "OPEN", "src", "confirm", TRUE, TRUE)
           \/ s = Step("OPEN", "TRYOPEN", "dst", "confirm", TRUE, TRUE)
  BY DEF Steps, ConnectionSteps, ChannelSteps

\* The steps of both switches, field by field.
LEMMA StepFields ==
    ASSUME NEW s \in Steps
    PROVE  /\ s.to \in Chains /\ s.update \in BOOLEAN /\ s.last \in BOOLEAN
           /\ s.msg \in {"init", "try", "ack", "confirm"}
           /\ s.last = TRUE <=> s.msg = "confirm"
           /\ s.msg # "init" => s.update = TRUE
           /\ s.msg \in {"init", "try"} =>
                 (IF s.to = "src" THEN s.src ELSE s.dst) = "UNINITIALIZED"
           /\ s.msg \in {"ack", "confirm"} =>
                 s.src # "UNINITIALIZED" /\ s.dst # "UNINITIALIZED"
<1>1. CASE s = Step("UNINITIALIZED", "UNINITIALIZED", "src", "init", TRUE, FALSE)
  BY <1>1 DEF Step, Chains
<1>2. CASE s = Step("UNINITIALIZED", "UNINITIALIZED", "src", "init", FALSE, FALSE)
  BY <1>2 DEF Step, Chains
<1>3. CASE s = Step("UNINITIALIZED", "INIT", "src", "try", TRUE, FALSE)
  BY <1>3 DEF Step, Chains
<1>4. CASE s = Step("INIT", "UNINITIALIZED", "dst", "try", TRUE, FALSE)
  BY <1>4 DEF Step, Chains
<1>5. CASE s = Step("TRYOPEN", "INIT", "dst", "ack", TRUE, FALSE)
  BY <1>5 DEF Step, Chains
<1>6. CASE s = Step("INIT", "TRYOPEN", "src", "ack", TRUE, FALSE)
  BY <1>6 DEF Step, Chains
<1>7. CASE s = Step("TRYOPEN", "OPEN", "src", "confirm", TRUE, TRUE)
  BY <1>7 DEF Step, Chains
<1>8. CASE s = Step("OPEN", "TRYOPEN", "dst", "confirm", TRUE, TRUE)
  BY <1>8 DEF Step, Chains
<1> QED
  BY StepTable, <1>1, <1>2, <1>3, <1>4, <1>5, <1>6, <1>7, <1>8

\* The command's reads keep the types.
LEMMA HeaderType ==
    ASSUME TypeOK, NEW c \in Chains
    PROVE  FinalizedHeader(c) \in Header /\ Latest(c) \in Store
  BY ConstantTypes DEF TypeOK, FinalizedHeader, Header, Latest

\* Every variable keeps its type along every step.
LEMMA TypeStep == TypeOK /\ [Next]_vars => TypeOK'
<1> SUFFICES ASSUME TypeOK, [Next]_vars PROVE TypeOK'
  OBVIOUS
<1> USE ConstantTypes
<1>1. ASSUME NEW c \in Chains, NewBlock(c) PROVE TypeOK'
  <2>1. hist' \in [Chains -> [0..Delay -> Store]]
    BY <1>1, HeaderType, BlockType DEF NewBlock
  <2>2. mempool' \in [Chains -> Tx]
    BY <1>1 DEF NewBlock, TypeOK, Tx
  <2> QED
    BY <1>1, <2>1, <2>2 DEF NewBlock, TypeOK
<1>2. ASSUME NEW c \in Chains, ExecTx(c) PROVE TypeOK'
  <2> DEFINE m == mempool[c].msg
             ok == Accepted(Latest(c), m) /\ (Generates(m) => NextId(Latest(c)) \in Ids)
             store == IF ok THEN Result(Latest(c), m) ELSE Latest(c)
  <2>1. m \in Msg
    BY DEF TypeOK, Tx
  <2>2. store \in Store
    BY <2>1, HeaderType, ResultType
  <2>3. ok \in BOOLEAN
    BY DEF Accepted
  <2> HIDE DEF store
  <2>4. AddBlock(c, store)
    BY <1>2 DEF ExecTx, store
  <2>5. hist' \in [Chains -> [0..Delay -> Store]]
    BY <2>2, <2>4, BlockType
  <2>6. [status |-> "committed", msg |-> NoMsg, ok |-> ok,
         id |-> IF ok /\ Generates(m) THEN NextId(Latest(c)) ELSE NoId] \in Tx
    BY <2>3 DEF Tx
  <2>7. mempool' \in [Chains -> Tx]
    BY <1>2, <2>6 DEF ExecTx, TypeOK
  <2> QED
    BY <1>2, <2>5, <2>7 DEF ExecTx, TypeOK
<1>3. ASSUME NEW c \in Chains, DropTx(c) PROVE TypeOK'
  BY <1>3 DEF DropTx, Fault, TypeOK
<1>4. CASE ReadySrc \/ LatestSrc \/ LatestDst
  <2>1. \A c \in Chains : EndOf(Latest(c), conf[c]) \in End
    BY HeaderType, EndOfType DEF TypeOK
  <2> QED
    BY <1>4, <2>1 DEF ReadySrc, LatestSrc, LatestDst, TypeOK, chainVars, Chains, Phases, Reading
<1>5. CASE ReadyDst
  BY <1>5 DEF ReadyDst, TypeOK, chainVars, Phases, Reading, Ended
<1>6. CASE HeadersSrc \/ HeadersDst
  BY <1>6, HeaderType DEF HeadersSrc, HeadersDst, TypeOK, chainVars, Chains, Phases, Reading
<1>7. CASE WaitForSettlement \/ Panic \/ BuildError
  BY <1>7 DEF WaitForSettlement, Panic, BuildError, TypeOK, chainVars, Phases, Reading, Ended
<1>8. CASE BuildMsg
  <2>1. \A c \in Chains : FinalizedEnd(c) \in End /\ Other(c) \in Chains
    BY EndOfType DEF TypeOK, FinalizedEnd, Header, Other, Chains
  <2>2. PICK s \in Steps :
          sending' = [msg |-> s.msg, to |-> s.to, update |-> s.update, last |-> s.last,
                      own |-> conf[s.to], cp |-> conf[Other(s.to)],
                      proven |-> FinalizedEnd(Other(s.to))]
    BY <1>8 DEF BuildMsg, Matching
  <2>3. s.to \in Chains /\ s.update \in BOOLEAN /\ s.last \in BOOLEAN
        /\ s.msg \in {"init", "try", "ack", "confirm"}
    BY StepFields
  <2>4. sending' \in Msg
    BY <2>1, <2>2, <2>3 DEF Msg, TypeOK
  <2> QED
    BY <1>8, <2>4 DEF BuildMsg, TypeOK, chainVars, Phases
<1>9. CASE Broadcast
  <2>1. [status |-> "pending", msg |-> sending, ok |-> FALSE, id |-> NoId] \in Tx
    BY DEF TypeOK, Tx
  <2> QED
    BY <1>9, <2>1 DEF Broadcast, TypeOK, Phases
<1>10. ASSUME SendFails PROVE pc' \in Phases /\ failed' \in 0..MaxFailed /\ sending' \in Msg
  BY <1>10 DEF SendFails, TypeOK, Phases, Reading, Ended
<1>11. CASE SendRejected
  BY <1>10, <1>11 DEF SendRejected, Fault, TypeOK, chainVars
<1>12. CASE WaitForCommit
  BY <1>10, <1>12 DEF WaitForCommit, TypeOK, chainVars, Phases
<1>13. CASE GiveUpWaiting
  BY <1>10, <1>13 DEF GiveUpWaiting, Fault, TypeOK, chainVars
<1>14. CASE Sync
  <2>1. Target \in Chains /\ mempool[Target].id \in Ids \cup {NoId}
    BY DEF TypeOK, Target, Msg, Tx
  <2> QED
    BY <1>14, <2>1 DEF Sync, TypeOK, chainVars, Phases, Reading, Ended
<1>15. CASE RPCError
  BY <1>15 DEF RPCError, Fault, TypeOK, chainVars, Phases, Ended
<1>16. CASE Crash \/ Rerun
  BY <1>16 DEF Crash, Rerun, Restart, Fault, TypeOK, chainVars, Phases, Reading
<1>17. CASE UNCHANGED vars
  BY <1>17 DEF vars, chainVars, TypeOK
<1> QED
  BY <1>1, <1>2, <1>3, <1>4, <1>5, <1>6, <1>7, <1>8, <1>9, <1>11, <1>12, <1>13, <1>14, <1>15,
     <1>16, <1>17 DEF Next, CommandStep

\* The initial states are well typed.
LEMMA TypeInit == Init => TypeOK
<1> SUFFICES ASSUME Init PROVE TypeOK
  OBVIOUS
<1>1. OneInit \in Store
  BY ConstantTypes DEF OneInit, Store, End, States
<1> QED
  BY <1>1, ConstantTypes DEF Init, TypeOK, Phases, Reading

\* Every variable keeps its type: a phase names a point of the code, an identifier is one
\* the chain generated or the empty one, and failures in a row stay within MaxFailed.
THEOREM TypeCorrect == Spec => []TypeOK
<1> QED
  BY TypeInit, TypeStep, PTL DEF Spec

-----------------------------------------------------------------------------
(* A reported success leaves an open pair *)

\* The configured end of chain c is open.
ConfOpen(c) == conf[c] # NoId /\ Latest(c)[conf[c]].state = "OPEN"

\* Identifiers are given out without gaps, so that a new one is unused.
Contiguous == \A c \in Chains : \E n \in 0..MaxEnds : Used(Latest(c)) = 1..n

\* An open end stays open: what an older block or a header shows still holds.
OpenStays ==
    \A c \in Chains, i \in Ids :
        /\ \A k \in 0..Delay : hist[c][k][i].state = "OPEN" => Latest(c)[i].state = "OPEN"
        /\ sh[c].at[i].state = "OPEN" => Latest(c)[i].state = "OPEN"

\* Only configured ends are ever opened, with the configured counterparty.
OpenIsConfigured ==
    \A c \in Chains, i \in Ids :
        Latest(c)[i].state = "OPEN" =>
            /\ conf[c] = i
            /\ conf[Other(c)] # NoId
            /\ Latest(c)[i].cp = conf[Other(c)]

\* What the configuration names exists on the chain.
ConfiguredExists ==
    \A c \in Chains : conf[c] # NoId => Latest(c)[conf[c]].state # "UNINITIALIZED"

\* Whether the end of chain c has been read in this round.
HasRead(c) == pc = "choose" \/ (c = "src" /\ pc \in {"readyDst", "latestDst"})

\* An end that was read as open is open, and one that was not found is not configured.
SeenHolds ==
    \A c \in Chains :
        /\ seen[c].state = "OPEN" => ConfOpen(c)
        /\ HasRead(c) /\ seen[c].state = "UNINITIALIZED" => conf[c] = NoId

(***************************************************************************)
(* A message that generates an identifier is for a chain that has none; a  *)
(* later one names the configured pair, and the end it shows to be open is *)
(* open.                                                                   *)
(***************************************************************************)
MsgFits(m) ==
    /\ Generates(m) => conf[m.to] = NoId
    /\ m.msg \in {"ack", "confirm"} =>
          /\ conf[m.to] # NoId /\ m.own = conf[m.to]
          /\ conf[Other(m.to)] # NoId /\ m.cp = conf[Other(m.to)]
    /\ m.proven.state = "OPEN" => ConfOpen(Other(m.to))
    /\ m.last = TRUE <=> m.msg = "confirm"

MsgsFit ==
    /\ MsgFits(sending)
    /\ \A c \in Chains :
          /\ MsgFits(mempool[c].msg)
          /\ mempool[c].status = "pending" => mempool[c].msg.to = c
          /\ mempool[c].status # "pending" => mempool[c].msg = NoMsg

\* What the outcome of the transaction that is waited for says about the chain.
OutcomeHolds(t) ==
    /\ t.id # NoId <=> Generates(sending)
    /\ t.id # NoId => Latest(Target)[t.id].state # "UNINITIALIZED"
    /\ sending.msg = "confirm" => \A c \in Chains : ConfOpen(c)

\* The transaction that is waited for is the one that was sent.
TxKnown ==
    pc \in {"wait", "sync"} =>
        /\ mempool[Target].status = "pending" => mempool[Target].msg = sending
        /\ mempool[Target].status \in {"committed", "followed"} /\ mempool[Target].ok = TRUE
              => OutcomeHolds(mempool[Target])
        /\ pc = "sync" => mempool[Target].status = "followed" /\ mempool[Target].ok = TRUE

\* The inductive invariant of CreatedIsOpen.
CreatedInv ==
    /\ TypeOK
    /\ Contiguous
    /\ OpenStays
    /\ OpenIsConfigured
    /\ ConfiguredExists
    /\ SeenHolds
    /\ MsgsFit
    /\ TxKnown
    /\ pc = "created" => \A c \in Chains : ConfOpen(c)

\* A gapless store: the next identifier is the first one that is not used.
LEMMA NextIsUnused ==
    ASSUME NEW store, NEW n \in 0..MaxEnds, Used(store) = 1..n
    PROVE  NextId(store) = n + 1 /\ NextId(store) \notin Used(store)
<1>1. MaxEnds \in Nat /\ n \in Nat
  BY HandshakeAssumption
<1>2. Cardinality(1..n) = n
  BY <1>1, FS_Interval
<1> QED
  BY <1>1, <1>2 DEF NextId

\* A block of chain c with this store shifts its history and leaves the other chain alone.
LEMMA BlockEffect ==
    ASSUME TypeOK, NEW c \in Chains, NEW store, AddBlock(c, store)
    PROVE  /\ Latest(c)' = store
           /\ \A d \in Chains : d # c => hist'[d] = hist[d] /\ Latest(d)' = Latest(d)
           /\ hist'[c][1] = Latest(c)
           /\ \A k \in 0..Delay : hist'[c][k] = store \/ \E j \in 0..Delay : hist'[c][k] = hist[c][j]
<1> DEFINE new == [i \in 0..Delay |-> IF i = 0 THEN store ELSE hist[c][i - 1]]
<1>1. hist' = [hist EXCEPT ![c] = new]
  BY DEF AddBlock
<1>2. hist'[c] = new /\ \A d \in Chains : d # c => hist'[d] = hist[d]
  BY <1>1 DEF TypeOK
<1>3. new[0] = store /\ new[1] = hist[c][0]
  BY ConstantTypes
<1>4. ASSUME NEW k \in 0..Delay PROVE new[k] = store \/ \E j \in 0..Delay : new[k] = hist[c][j]
  BY ConstantTypes
<1> QED
  BY <1>2, <1>3, <1>4 DEF Latest

\* What executing m may do to the store of chain c: nothing, ...
Refused(c, t) == t.ok = FALSE /\ t.id = NoId /\ Latest(c)' = Latest(c)

\* ... a new end under an unused identifier, ...
Generated(c, m, t) ==
    /\ t.ok = TRUE
    /\ Generates(m) /\ conf[c] = NoId
    /\ t.id \in Ids /\ t.id \notin Used(Latest(c))
    /\ (\E n \in 0..MaxEnds : Used(Latest(c)) = 1..n) =>
          \E n \in 0..MaxEnds : Used(Latest(c)) \cup {t.id} = 1..n
    /\ Latest(c)' = [Latest(c) EXCEPT ![t.id] =
                       IF m.msg = "init" THEN [state |-> "INIT", cp |-> NoId]
                                         ELSE [state |-> "TRYOPEN", cp |-> m.cp]]

\* ... or the configured end is opened.
Opened(c, m, t) ==
    /\ t.ok = TRUE /\ t.id = NoId
    /\ m.msg \in {"ack", "confirm"}
    /\ conf[c] \in Ids /\ conf[Other(c)] \in Ids
    /\ Latest(c)[conf[c]].state = IF m.msg = "ack" THEN "INIT" ELSE "TRYOPEN"
    /\ Latest(c)' = [Latest(c) EXCEPT ![conf[c]] = [state |-> "OPEN", cp |-> conf[Other(c)]]]
    /\ m.proven.state = IF m.msg = "ack" THEN "TRYOPEN" ELSE "OPEN"

\* The outcome of a transaction, from the chain's checks and the fit of its message.
LEMMA ExecEffect ==
    ASSUME TypeOK, Contiguous, MsgsFit, NEW c \in Chains, ExecTx(c)
    PROVE  LET m == mempool[c].msg
               t == mempool'[c]
           IN /\ t.status = "committed" /\ t.msg = NoMsg
              /\ \A d \in Chains : d # c => mempool'[d] = mempool[d]
              /\ Refused(c, t) \/ Generated(c, m, t) \/ Opened(c, m, t)
<1> DEFINE m == mempool[c].msg
           S == Latest(c)
           ok == Accepted(S, m) /\ (Generates(m) => NextId(S) \in Ids)
           id == IF ok /\ Generates(m) THEN NextId(S) ELSE NoId
           t == [status |-> "committed", msg |-> NoMsg, ok |-> ok, id |-> id]
<1>1. m \in Msg /\ S \in Store /\ m.to = c /\ MsgFits(m)
  BY HeaderType DEF TypeOK, Tx, MsgsFit, ExecTx
<1>2. mempool' = [mempool EXCEPT ![c] = t]
  BY DEF ExecTx
<1>3. mempool'[c] = t /\ \A d \in Chains : d # c => mempool'[d] = mempool[d]
  BY <1>2 DEF TypeOK
<1>4. AddBlock(c, IF ok THEN Result(S, m) ELSE S)
  BY DEF ExecTx
<1>5. Latest(c)' = IF ok THEN Result(S, m) ELSE S
  BY <1>4, BlockEffect, Zenon
<1>6. t.status = "committed" /\ t.msg = NoMsg
  OBVIOUS
<1>7. CASE ~ok
  <2>1. t.ok = FALSE /\ t.id = NoId
    BY <1>7
  <2> QED
    BY <1>3, <1>5, <1>6, <1>7, <2>1 DEF Refused
<1>8. CASE ok /\ Generates(m)
  <2>1. t.ok = TRUE /\ t.id = NextId(S) /\ NextId(S) \in Ids
    BY <1>8
  <2>2. PICK n \in 0..MaxEnds : Used(S) = 1..n
    BY DEF Contiguous
  <2>3. NextId(S) = n + 1 /\ NextId(S) \notin Used(S)
    BY <2>2, NextIsUnused
  <2>4. Used(S) \cup {NextId(S)} = 1..(n + 1) /\ n + 1 \in 0..MaxEnds
    BY <2>1, <2>2, <2>3, HandshakeAssumption DEF Ids
  <2>5. conf[c] = NoId
    BY <1>1, <1>8 DEF MsgFits
  <2>6. Result(S, m) = [S EXCEPT ![NextId(S)] =
                          IF m.msg = "init" THEN [state |-> "INIT", cp |-> NoId]
                                            ELSE [state |-> "TRYOPEN", cp |-> m.cp]]
    BY <1>8 DEF Result, Generates
  <2>7. Generated(c, m, t)
    BY <1>5, <1>8, <2>1, <2>3, <2>4, <2>5, <2>6 DEF Generated
  <2> QED
    BY <1>3, <1>6, <2>7
<1>9. CASE ok /\ ~Generates(m)
  <2>1. t.ok = TRUE /\ t.id = NoId
    BY <1>9
  <2>2. Accepted(S, m)
    BY <1>9
  <2>3. m.msg \in {"ack", "confirm"}
    BY <1>1, <1>9, <2>2 DEF Accepted, Generates, Msg
  <2>4. /\ conf[c] \in Ids /\ m.own = conf[c]
        /\ conf[Other(c)] \in Ids /\ m.cp = conf[Other(c)]
    BY <1>1, <2>3 DEF MsgFits, TypeOK, Other, Chains
  <2>5. EndOf(S, m.own) = S[conf[c]]
    BY <2>4, ConstantTypes DEF EndOf
  <2>6. CASE m.msg = "ack"
    <3>1. S[conf[c]].state = "INIT" /\ m.proven.state = "TRYOPEN"
      BY <2>2, <2>5, <2>6 DEF Accepted
    <3>2. Result(S, m) = [S EXCEPT ![conf[c]] = [state |-> "OPEN", cp |-> conf[Other(c)]]]
      BY <2>4, <2>6 DEF Result
    <3>3. Opened(c, m, t)
      BY <1>5, <1>9, <2>1, <2>4, <2>6, <3>1, <3>2 DEF Opened
    <3> QED
      BY <1>3, <1>6, <3>3
  <2>7. CASE m.msg = "confirm"
    <3>1. S[conf[c]].state = "TRYOPEN" /\ S[conf[c]].cp = m.cp /\ m.proven.state = "OPEN"
      BY <2>2, <2>5, <2>7 DEF Accepted
    <3>2. Result(S, m) = [S EXCEPT ![conf[c]].state = "OPEN"]
      BY <2>4, <2>7 DEF Result
    <3>3. [S[conf[c]] EXCEPT !.state = "OPEN"] = [state |-> "OPEN", cp |-> conf[Other(c)]]
      BY <1>1, <2>4, <3>1 DEF Store, End
    <3>4. Result(S, m) = [S EXCEPT ![conf[c]] = [state |-> "OPEN", cp |-> conf[Other(c)]]]
      BY <1>1, <2>4, <3>2, <3>3
    <3>5. Opened(c, m, t)
      BY <1>5, <1>9, <2>1, <2>4, <2>7, <3>1, <3>4 DEF Opened
    <3> QED
      BY <1>3, <1>6, <3>5
  <2> QED
    BY <2>3, <2>6, <2>7
<1> QED
  BY <1>7, <1>8, <1>9

\* Which identifiers are used after a transaction.
LEMMA UsedAfter ==
    ASSUME TypeOK, Contiguous, MsgsFit, NEW c \in Chains, ExecTx(c)
    PROVE  LET t == mempool'[c]
           IN Used(Latest(c)') = Used(Latest(c)) \cup (IF t.id = NoId THEN {} ELSE {t.id})
<1> DEFINE m == mempool[c].msg
           t == mempool'[c]
           S == Latest(c)
<1>1. S \in Store
  BY HeaderType
<1>2. Refused(c, t) \/ Generated(c, m, t) \/ Opened(c, m, t)
  BY ExecEffect
<1>3. CASE Refused(c, t)
  BY <1>3 DEF Refused
<1>4. CASE Generated(c, m, t)
  <2>1. t.id # NoId /\ t.id \in Ids
    BY <1>4, ConstantTypes DEF Generated
  <2>2. Latest(c)'[t.id] # NoEnd
    BY <1>1, <1>4 DEF Generated, NoEnd, Store
  <2>3. \A i \in Ids : i # t.id => Latest(c)'[i] = S[i]
    BY <1>1, <1>4 DEF Generated, Store
  <2> QED
    BY <2>1, <2>2, <2>3 DEF Used
<1>5. CASE Opened(c, m, t)
  <2>1. t.id = NoId /\ conf[c] \in Ids
    BY <1>5 DEF Opened
  <2>2. Latest(c)'[conf[c]] # NoEnd /\ S[conf[c]] # NoEnd
    BY <1>1, <1>5 DEF Opened, NoEnd, Store
  <2>3. \A i \in Ids : i # conf[c] => Latest(c)'[i] = S[i]
    BY <1>1, <1>5 DEF Opened, Store
  <2> QED
    BY <2>1, <2>2, <2>3 DEF Used
<1> QED
  BY <1>2, <1>3, <1>4, <1>5

\* Ends are never taken back, and open ones never change.
Grows ==
    \A d \in Chains, i \in Ids :
        /\ Latest(d)[i].state = "OPEN" => Latest(d)'[i] = Latest(d)[i]
        /\ Latest(d)[i].state # "UNINITIALIZED" => Latest(d)'[i].state # "UNINITIALIZED"

\* Executing a transaction never takes an end back and leaves open ones alone.
LEMMA ExecGrows ==
    ASSUME TypeOK, Contiguous, MsgsFit, NEW c \in Chains, ExecTx(c)
    PROVE  Grows
<1> DEFINE m == mempool[c].msg
           t == mempool'[c]
           S == Latest(c)
<1>1. S \in Store
  BY HeaderType
<1>2. Refused(c, t) \/ Generated(c, m, t) \/ Opened(c, m, t)
  BY ExecEffect
<1>3. \A d \in Chains : d # c => Latest(d)' = Latest(d)
  BY BlockEffect DEF ExecTx
<1>4. ASSUME NEW i \in Ids
      PROVE  /\ S[i].state = "OPEN" => Latest(c)'[i] = S[i]
             /\ S[i].state # "UNINITIALIZED" => Latest(c)'[i].state # "UNINITIALIZED"
  <2>1. CASE Refused(c, t)
    BY <2>1 DEF Refused
  <2>2. CASE Generated(c, m, t)
    <3>1. S[t.id] = NoEnd /\ t.id \in Ids
      BY <2>2 DEF Generated, Used
    <3>2. i # t.id => Latest(c)'[i] = S[i]
      BY <1>1, <2>2 DEF Generated, Store
    <3>3. Latest(c)'[t.id].state # "UNINITIALIZED"
      BY <1>1, <2>2 DEF Generated, Store
    <3> QED
      BY <3>1, <3>2, <3>3 DEF NoEnd
  <2>3. CASE Opened(c, m, t)
    <3>1. i # conf[c] => Latest(c)'[i] = S[i]
      BY <1>1, <2>3 DEF Opened, Store
    <3>2. Latest(c)'[conf[c]].state = "OPEN" /\ S[conf[c]].state # "OPEN"
      BY <1>1, <2>3 DEF Opened, Store
    <3> QED
      BY <3>1, <3>2
  <2> QED
    BY <1>2, <2>1, <2>2, <2>3
<1> QED
  BY <1>3, <1>4 DEF Grows

\* A block that takes no end back keeps what is known of older blocks and of headers.
LEMMA BlockKeepsOpen ==
    ASSUME TypeOK, OpenStays, Grows, NEW c \in Chains, NEW store, AddBlock(c, store), sh' = sh
    PROVE  OpenStays'
<1> SUFFICES ASSUME NEW d \in Chains, NEW i \in Ids
             PROVE  /\ \A k \in 0..Delay : hist'[d][k][i].state = "OPEN" => Latest(d)'[i].state = "OPEN"
                    /\ sh[d].at[i].state = "OPEN" => Latest(d)'[i].state = "OPEN"
  BY DEF OpenStays, Latest
<1>1. Latest(d)[i].state = "OPEN" => Latest(d)'[i].state = "OPEN"
  BY DEF Grows
<1>2. ASSUME NEW k \in 0..Delay, hist'[d][k][i].state = "OPEN" PROVE Latest(d)'[i].state = "OPEN"
  <2>1. CASE d # c
    BY <1>1, <1>2, <2>1, BlockEffect DEF OpenStays
  <2>2. CASE d = c
    <3>1. Latest(c)' = store
      BY BlockEffect
    <3>2. hist'[c][k] = store \/ \E j \in 0..Delay : hist'[c][k] = hist[c][j]
      BY BlockEffect
    <3> QED
      BY <1>1, <1>2, <2>2, <3>1, <3>2 DEF OpenStays
  <2> QED
    BY <2>1, <2>2
<1> QED
  BY <1>1, <1>2 DEF OpenStays

\* Growing chains keep everything that only says that an end is there or open.
LEMMA GrowthKeeps ==
    ASSUME CreatedInv, Grows, UNCHANGED <<conf, pc, seen>>
    PROVE  /\ \A c \in Chains : ConfOpen(c) => ConfOpen(c)'
           /\ ConfiguredExists'
           /\ SeenHolds'
           /\ (pc = "created" => \A c \in Chains : ConfOpen(c))'
           /\ \A m \in Msg : MsgFits(m) => MsgFits(m)'
<1> USE DEF CreatedInv
<1>1. ASSUME NEW c \in Chains, ConfOpen(c) PROVE ConfOpen(c)'
  <2>1. conf[c] \in Ids /\ Latest(c)[conf[c]].state = "OPEN"
    BY <1>1 DEF ConfOpen, TypeOK
  <2>2. Latest(c)'[conf[c]] = Latest(c)[conf[c]]
    BY <2>1 DEF Grows
  <2> QED
    BY <2>1, <2>2, ConstantTypes DEF ConfOpen
<1>2. ConfiguredExists'
  BY DEF ConfiguredExists, Grows, TypeOK
<1>3. SeenHolds'
  BY <1>1 DEF SeenHolds, HasRead
<1>4. ASSUME NEW m \in Msg, MsgFits(m) PROVE MsgFits(m)'
  <2>1. Other(m.to) \in Chains
    BY DEF Msg, Other, Chains
  <2> QED
    BY <1>1, <1>4, <2>1 DEF MsgFits
<1> QED
  BY <1>1, <1>2, <1>3, <1>4

\* NoMsg claims nothing.
LEMMA NoMsgFits == MsgFits(NoMsg) /\ MsgFits(NoMsg)'
  BY DEF MsgFits, NoMsg, NoEnd, Generates

\* A block without a transaction keeps the invariant.
LEMMA NewBlockKeeps ==
    ASSUME CreatedInv, NEW c \in Chains, NewBlock(c)
    PROVE  CreatedInv'
<1> USE DEF CreatedInv
<1>1. TypeOK'
  BY TypeStep DEF Next
<1>2. AddBlock(c, Latest(c)) /\ UNCHANGED <<path, conf, pc, sh, seen, sending>>
  BY DEF NewBlock
<1>3. \A d \in Chains : Latest(d)' = Latest(d)
  BY <1>2, BlockEffect
<1>4. Grows
  BY <1>3 DEF Grows
<1>5. Contiguous' /\ OpenIsConfigured'
  BY <1>2, <1>3 DEF Contiguous, OpenIsConfigured, Other, Chains
<1>6. OpenStays'
  BY <1>2, <1>4, BlockKeepsOpen
<1>7. \A d \in Chains : /\ mempool'[d].msg = mempool[d].msg
                        /\ mempool'[d].ok = mempool[d].ok
                        /\ mempool'[d].id = mempool[d].id
                        /\ mempool'[d].status = "pending" <=> mempool[d].status = "pending"
                        /\ mempool'[d].status \in {"committed", "followed"}
                              <=> mempool[d].status \in {"committed", "followed"}
                        /\ mempool[d].status = "followed" => mempool'[d].status = "followed"
  BY DEF NewBlock, TypeOK, Tx
<1>8. \A d \in Chains : mempool[d].msg \in Msg
  BY DEF TypeOK, Tx
<1>9. MsgsFit'
  BY <1>2, <1>4, <1>7, <1>8, GrowthKeeps DEF MsgsFit, TypeOK
<1>10. Target \in Chains
  BY DEF Target, TypeOK, Msg
<1>11. TxKnown'
  <2>1. OutcomeHolds(mempool[Target]) => OutcomeHolds(mempool[Target])'
    BY <1>2, <1>3, <1>4, <1>7, <1>10, GrowthKeeps DEF OutcomeHolds, Target
  <2> QED
    BY <1>2, <1>7, <1>10, <2>1 DEF TxKnown, Target
<1> QED
  BY <1>1, <1>2, <1>4, <1>5, <1>6, <1>9, <1>11, GrowthKeeps

\* A transaction that is executed keeps the invariant.
LEMMA ExecKeeps ==
    ASSUME CreatedInv, NEW c \in Chains, ExecTx(c)
    PROVE  CreatedInv'
<1> USE DEF CreatedInv
<1> DEFINE m == mempool[c].msg
           t == mempool'[c]
<1>1. TypeOK'
  BY TypeStep DEF Next
<1>2. UNCHANGED <<path, conf, pc, sh, seen, sending>> /\ mempool[c].status = "pending"
  BY DEF ExecTx
<1>3. PICK store : AddBlock(c, store)
  BY DEF ExecTx
<1>4. \A d \in Chains : d # c => Latest(d)' = Latest(d)
  BY <1>3, BlockEffect
<1>5. /\ t.status = "committed" /\ t.msg = NoMsg
      /\ \A d \in Chains : d # c => mempool'[d] = mempool[d]
      /\ Refused(c, t) \/ Generated(c, m, t) \/ Opened(c, m, t)
  BY ExecEffect
<1>6. Grows
  BY ExecGrows
<1>7. Contiguous'
  <2>1. Used(Latest(c)') = Used(Latest(c)) \cup (IF t.id = NoId THEN {} ELSE {t.id})
    BY UsedAfter
  <2>2. \E n \in 0..MaxEnds : Used(Latest(c)') = 1..n
    BY <1>5, <2>1 DEF Contiguous, Refused, Generated, Opened
  <2> QED
    BY <1>4, <2>2 DEF Contiguous, Used
<1>8. OpenStays'
  BY <1>2, <1>3, <1>6, BlockKeepsOpen
<1>9. OpenIsConfigured'
  <2> SUFFICES ASSUME NEW d \in Chains, NEW i \in Ids, Latest(d)'[i].state = "OPEN"
               PROVE  /\ conf[d] = i /\ conf[Other(d)] # NoId
                      /\ Latest(d)'[i].cp = conf[Other(d)]
    BY <1>2 DEF OpenIsConfigured
  <2>1. CASE Latest(d)'[i] = Latest(d)[i]
    BY <2>1 DEF OpenIsConfigured
  <2>2. CASE Latest(d)'[i] # Latest(d)[i]
    <3>1. d = c /\ Latest(c) \in Store
      BY <1>4, <2>2, HeaderType
    <3>2. ~Refused(c, t)
      BY <2>2, <3>1 DEF Refused
    <3>3. ~Generated(c, m, t)
      BY <2>2, <3>1 DEF Generated, Store
    <3>4. Opened(c, m, t)
      BY <1>5, <3>2, <3>3
    <3> QED
      BY <2>2, <3>1, <3>4, ConstantTypes DEF Opened, Store
  <2> QED
    BY <2>1, <2>2
<1>10. MsgsFit'
  <2>1. \A d \in Chains : mempool[d].msg \in Msg
    BY DEF TypeOK, Tx
  <2> QED
    BY <1>2, <1>5, <1>6, <2>1, NoMsgFits, GrowthKeeps DEF MsgsFit, TypeOK
<1>11. TxKnown'
  <2>1. Target \in Chains /\ Target' = Target
    BY <1>2 DEF Target, TypeOK, Msg
  <2>2. CASE pc \in {"wait", "sync"} /\ Target = c
    <3>1. pc = "wait" /\ m = sending /\ sending.to = c
      BY <1>2, <2>2 DEF TxKnown, Target
    <3>2. ASSUME t.ok = TRUE PROVE OutcomeHolds(mempool[c])'
      <4>1. CASE Generated(c, m, t)
        <5>1. t.id # NoId /\ Generates(sending)
          BY <3>1, <4>1, ConstantTypes DEF Generated
        <5>2. Latest(c)'[t.id].state # "UNINITIALIZED"
          BY <4>1, HeaderType DEF Generated, Store
        <5>3. sending.msg # "confirm"
          BY <5>1 DEF Generates
        <5> QED
          BY <1>2, <2>1, <2>2, <5>1, <5>2, <5>3 DEF OutcomeHolds
      <4>2. CASE Opened(c, m, t)
        <5>1. t.id = NoId /\ ~Generates(sending)
          BY <3>1, <4>2 DEF Opened, Generates
        <5>2. ConfOpen(c)'
          BY <1>2, <4>2, HeaderType, ConstantTypes DEF Opened, Store, ConfOpen
        <5>3. m.msg = "confirm" => ConfOpen(Other(c))
          BY <3>1, <4>2 DEF Opened, MsgsFit, MsgFits
        <5>4. m.msg = "confirm" => ConfOpen(Other(c))'
          BY <1>2, <1>6, <5>3, GrowthKeeps DEF Other, Chains
        <5>5. m.msg = "confirm" => \A d \in Chains : ConfOpen(d)'
          BY <5>2, <5>4 DEF Other, Chains
        <5> QED
          BY <1>2, <3>1, <5>1, <5>5 DEF OutcomeHolds
      <4>3. CASE Refused(c, t)
        BY <3>2, <4>3 DEF Refused
      <4> QED
        BY <1>5, <4>1, <4>2, <4>3
    <3> QED
      BY <1>2, <1>5, <2>1, <2>2, <3>1, <3>2 DEF TxKnown
  <2>3. CASE pc \in {"wait", "sync"} /\ Target # c
    <3>1. mempool'[Target] = mempool[Target] /\ Latest(Target)' = Latest(Target)
      BY <1>4, <1>5, <2>1, <2>3
    <3>2. OutcomeHolds(mempool[Target]) => OutcomeHolds(mempool[Target])'
      BY <1>2, <1>6, <2>1, <3>1, GrowthKeeps DEF OutcomeHolds
    <3> QED
      BY <1>2, <2>1, <2>3, <3>1, <3>2 DEF TxKnown
  <2> QED
    BY <1>2, <2>2, <2>3 DEF TxKnown
<1> QED
  BY <1>1, <1>2, <1>6, <1>7, <1>8, <1>9, <1>10, <1>11, GrowthKeeps

\* A transaction that is dropped keeps the invariant.
LEMMA DropKeeps ==
    ASSUME CreatedInv, NEW c \in Chains, DropTx(c)
    PROVE  CreatedInv'
<1> USE DEF CreatedInv
<1>1. TypeOK'
  BY TypeStep DEF Next
<1>2. /\ UNCHANGED <<hist, path, conf, pc, sh, seen, sending>> /\ mempool[c].status = "pending"
      /\ mempool'[c] = NoTx /\ \A d \in Chains : d # c => mempool'[d] = mempool[d]
  BY DEF DropTx, TypeOK
<1>3. \A d \in Chains : Latest(d)' = Latest(d)
  BY <1>2 DEF Latest
<1>4. Grows
  BY <1>3 DEF Grows
<1>5. Contiguous' /\ OpenIsConfigured' /\ OpenStays'
  BY <1>2, <1>3 DEF Contiguous, OpenIsConfigured, OpenStays, Other, Chains
<1>6. NoTx.status = "none" /\ NoTx.msg = NoMsg
  BY DEF NoTx
<1>7. MsgsFit'
  <2>1. \A d \in Chains : mempool[d].msg \in Msg
    BY DEF TypeOK, Tx
  <2> QED
    BY <1>2, <1>4, <1>6, <2>1, NoMsgFits, GrowthKeeps DEF MsgsFit, TypeOK
<1>8. TxKnown'
  <2>1. Target \in Chains /\ Target' = Target
    BY <1>2 DEF Target, TypeOK, Msg
  <2>2. CASE Target = c
    BY <1>2, <1>6, <2>1, <2>2 DEF TxKnown
  <2>3. CASE Target # c
    <3>1. mempool'[Target] = mempool[Target] /\ Latest(Target)' = Latest(Target)
      BY <1>2, <1>3, <2>1, <2>3
    <3>2. OutcomeHolds(mempool[Target]) => OutcomeHolds(mempool[Target])'
      BY <1>2, <1>4, <2>1, <3>1, GrowthKeeps DEF OutcomeHolds
    <3> QED
      BY <1>2, <2>1, <2>3, <3>1, <3>2 DEF TxKnown
  <2> QED
    BY <2>2, <2>3
<1> QED
  BY <1>1, <1>2, <1>4, <1>5, <1>7, <1>8, GrowthKeeps

\* A step of the command that only looks and decides: what remains to be shown of it.
LEMMA CommandKeeps ==
    ASSUME CreatedInv, TypeOK', UNCHANGED <<hist, mempool, conf>>,
           sh' = sh \/ sh' = NoHeaders \/ OpenStays',
           SeenHolds', MsgFits(sending)', TxKnown',
           (pc = "created" => \A c \in Chains : ConfOpen(c))'
    PROVE  CreatedInv'
<1> USE DEF CreatedInv
<1>1. \A c \in Chains : Latest(c)' = Latest(c) /\ Other(c) \in Chains
  BY DEF Latest, Other, Chains
<1>2. Contiguous' /\ OpenIsConfigured' /\ ConfiguredExists'
  BY <1>1 DEF Contiguous, OpenIsConfigured, ConfiguredExists
<1>3. OpenStays'
  <2>1. CASE sh' = sh
    BY <1>1, <2>1 DEF OpenStays
  <2>2. CASE sh' = NoHeaders
    <3>1. \A c \in Chains, i \in Ids : NoHeaders[c].at[i].state # "OPEN"
      BY DEF NoHeaders, EmptyStore, NoEnd
    <3> QED
      BY <1>1, <2>2, <3>1 DEF OpenStays
  <2> QED
    BY <2>1, <2>2
<1>4. MsgsFit'
  <2>1. \A c \in Chains : mempool[c].msg \in Msg /\ Other(mempool[c].msg.to) \in Chains
    BY <1>1 DEF TypeOK, Tx, Msg
  <2>2. \A c \in Chains : MsgFits(mempool[c].msg)'
    BY <1>1, <2>1 DEF MsgsFit, MsgFits, ConfOpen
  <2> QED
    BY <2>2 DEF MsgsFit
<1> QED
  BY <1>2, <1>3, <1>4

\* What the configured end was read as is what it is.
LEMMA ReadIsTrue ==
    ASSUME CreatedInv, NEW c \in Chains
    PROVE  LET e == EndOf(Latest(c), conf[c])
           IN /\ e.state = "OPEN" <=> ConfOpen(c)
              /\ e.state = "UNINITIALIZED" <=> conf[c] = NoId
  BY ConstantTypes DEF CreatedInv, EndOf, ConfOpen, ConfiguredExists, NoEnd, TypeOK

\* NoEnds claims nothing where nothing has been read.
LEMMA NothingSeen ==
    ASSUME seen' = NoEnds, \A c \in Chains : ~HasRead(c)'
    PROVE  SeenHolds'
  BY DEF SeenHolds, NoEnds, NoEnd

\* Reading the ends keeps the invariant.
LEMMA ReadingKeeps ==
    ASSUME CreatedInv, ReadySrc \/ ReadyDst \/ LatestSrc \/ LatestDst
    PROVE  CreatedInv'
<1> USE DEF CreatedInv
<1>1. TypeOK' /\ UNCHANGED <<hist, mempool, path, conf, sh, sending>>
  BY TypeStep DEF Next, CommandStep, ReadySrc, ReadyDst, LatestSrc, LatestDst, chainVars
<1>2. \A c \in Chains : Latest(c)' = Latest(c) /\ (ConfOpen(c) <=> ConfOpen(c)')
  BY <1>1 DEF Latest, ConfOpen
<1>3. MsgFits(sending)'
  <2>1. Other(sending.to) \in Chains
    BY DEF TypeOK, Msg, Other, Chains
  <2> QED
    BY <1>1, <1>2, <2>1 DEF MsgsFit, MsgFits
<1>4. TxKnown'
  BY DEF TxKnown, ReadySrc, ReadyDst, LatestSrc, LatestDst
<1>5. CASE ReadySrc \/ LatestSrc
  <2>1. seen' = [seen EXCEPT !["src"] = EndOf(Latest("src"), conf["src"])]
        /\ pc' \in {"readyDst", "latestDst"}
    BY <1>5 DEF ReadySrc, LatestSrc
  <2>2. seen'["src"] = EndOf(Latest("src"), conf["src"]) /\ seen'["dst"] = seen["dst"]
    BY <2>1 DEF TypeOK, Chains
  <2>3. SeenHolds'
    BY <1>1, <1>2, <2>1, <2>2, ReadIsTrue DEF SeenHolds, HasRead, Chains
  <2> QED
    BY <1>1, <1>3, <1>4, <2>1, <2>3, CommandKeeps
<1>6. CASE LatestDst
  <2>1. seen' = [seen EXCEPT !["dst"] = EndOf(Latest("dst"), conf["dst"])]
        /\ pc = "latestDst" /\ pc' = "choose"
    BY <1>6 DEF LatestDst
  <2>2. seen'["dst"] = EndOf(Latest("dst"), conf["dst"]) /\ seen'["src"] = seen["src"]
    BY <2>1 DEF TypeOK, Chains
  <2>3. SeenHolds'
    BY <1>1, <1>2, <2>1, <2>2, ReadIsTrue DEF SeenHolds, HasRead, Chains
  <2> QED
    BY <1>1, <1>3, <1>4, <2>1, <2>3, CommandKeeps
<1>7. CASE ReadyDst
  <2> DEFINE ends == [seen EXCEPT !["dst"] = EndOf(Latest("dst"), conf["dst"])]
  <2>1. pc' \in {"failed", "created", "headersSrc"} /\ seen' = NoEnds
    BY <1>7 DEF ReadyDst
  <2>2. SeenHolds'
    BY <2>1, NothingSeen DEF HasRead
  <2>3. ASSUME pc' = "created" PROVE \A c \in Chains : ConfOpen(c)'
    <3>1. \A c \in Chains : ends[c].state = "OPEN"
      BY <1>7, <2>3 DEF ReadyDst
    <3>2. ends["src"] = seen["src"] /\ ends["dst"] = EndOf(Latest("dst"), conf["dst"])
      BY DEF TypeOK, Chains
    <3> QED
      BY <1>2, <3>1, <3>2, ReadIsTrue DEF SeenHolds, Chains
  <2> QED
    BY <1>1, <1>3, <1>4, <2>2, <2>3, CommandKeeps
<1> QED
  BY <1>5, <1>6, <1>7

\* NewSyncHeaders keeps the invariant: a header is that of a block.
LEMMA HeadersKeep ==
    ASSUME CreatedInv, HeadersSrc \/ HeadersDst
    PROVE  CreatedInv'
<1> USE DEF CreatedInv
<1>1. TypeOK' /\ UNCHANGED <<hist, mempool, path, conf, seen, sending>>
      /\ pc' \in {"headersDst", "latestSrc"}
  BY TypeStep DEF Next, CommandStep, HeadersSrc, HeadersDst, chainVars
<1>2. \A c \in Chains : Latest(c)' = Latest(c) /\ (ConfOpen(c) <=> ConfOpen(c)')
  BY <1>1 DEF Latest, ConfOpen
<1>3. MsgFits(sending)'
  <2>1. Other(sending.to) \in Chains
    BY DEF TypeOK, Msg, Other, Chains
  <2> QED
    BY <1>1, <1>2, <2>1 DEF MsgsFit, MsgFits
<1>4. TxKnown' /\ SeenHolds'
  BY <1>1, <1>2 DEF TxKnown, SeenHolds, HasRead
<1>5. OpenStays'
  <2> SUFFICES ASSUME NEW c \in Chains, NEW i \in Ids, sh'[c].at[i].state = "OPEN"
               PROVE  Latest(c)[i].state = "OPEN"
    BY <1>1, <1>2 DEF OpenStays
  <2>1. FinalizedHeader(c).at = hist[c][Delay] \/ FinalizedHeader(c).at = hist[c][0]
    BY DEF FinalizedHeader
  <2>2. FinalizedHeader(c).at[i].state = "OPEN" => Latest(c)[i].state = "OPEN"
    BY <2>1, ConstantTypes DEF OpenStays
  <2>3. NoHeaders[c].at[i].state # "OPEN"
    BY DEF NoHeaders, EmptyStore, NoEnd
  <2>4. sh'[c] \in {sh[c], NoHeaders[c], FinalizedHeader(c)}
    BY ConstantTypes DEF HeadersSrc, HeadersDst, TypeOK, Chains
  <2> QED
    BY <2>2, <2>3, <2>4 DEF OpenStays
<1> QED
  BY <1>1, <1>3, <1>4, <1>5, CommandKeeps

\* A step to a phase where nothing is read or sent keeps the invariant: the command
\* fails, panics, starts again or goes for another round.
LEMMA BackOffKeeps ==
    ASSUME CreatedInv, TypeOK', UNCHANGED <<hist, mempool, conf>>,
           sh' = sh \/ sh' = NoHeaders,
           seen' = seen \/ seen' = NoEnds,
           sending' = sending \/ sending' = NoMsg,
           pc' \in {"readySrc", "headersSrc", "failed", "panicked"}
    PROVE  CreatedInv'
<1> USE DEF CreatedInv
<1>1. \A c \in Chains : Latest(c)' = Latest(c) /\ (ConfOpen(c) <=> ConfOpen(c)')
  BY DEF Latest, ConfOpen
<1>2. MsgFits(sending)'
  <2>1. Other(sending.to) \in Chains
    BY DEF TypeOK, Msg, Other, Chains
  <2> QED
    BY <1>1, <2>1, NoMsgFits DEF MsgsFit, MsgFits
<1>3. SeenHolds'
  BY <1>1, NothingSeen DEF SeenHolds, HasRead
<1>4. TxKnown'
  BY DEF TxKnown
<1> QED
  BY <1>2, <1>3, <1>4, CommandKeeps

\* A failed Send keeps the invariant.
LEMMA SendFailsKeeps ==
    ASSUME CreatedInv, TypeOK', UNCHANGED <<hist, mempool, conf, sh, seen>>, SendFails
    PROVE  CreatedInv'
<1>1. pc' \in {"headersSrc", "failed"} /\ sending' = NoMsg
  BY DEF SendFails
<1> QED
  BY <1>1, BackOffKeeps

\* The message a round builds, from the settled states of both ends.
LEMMA Built ==
    ASSUME CreatedInv, BuildMsg
    PROVE  /\ Target' \in Chains
           /\ sending'.msg \in {"init", "try", "ack", "confirm"}
           /\ sending'.own = conf[Target'] /\ sending'.cp = conf[Other(Target')]
           /\ sending'.proven = seen[Other(Target')]
           /\ sending'.last = TRUE <=> sending'.msg = "confirm"
           /\ sending'.msg # "init" => sending'.update = TRUE
           /\ Generates(sending') => conf[Target'] = NoId
           /\ ~Generates(sending') => \A c \in Chains : conf[c] # NoId
           /\ \E s \in Steps : /\ s.src = seen["src"].state /\ s.dst = seen["dst"].state
                               /\ s.msg = sending'.msg /\ s.to = Target'
<1> USE DEF CreatedInv
<1>1. PICK s \in Matching :
        sending' = [msg |-> s.msg, to |-> s.to, update |-> s.update, last |-> s.last,
                    own |-> conf[s.to], cp |-> conf[Other(s.to)],
                    proven |-> FinalizedEnd(Other(s.to))]
  BY DEF BuildMsg
<1>2. \A c \in Chains : FinalizedEnd(c) = seen[c]
  BY DEF BuildMsg, Settled
<1>3. s \in Steps /\ s.src = seen["src"].state /\ s.dst = seen["dst"].state
  BY <1>2 DEF Matching, Chains
<1>4. /\ s.to \in Chains
      /\ s.msg \in {"init", "try", "ack", "confirm"}
      /\ s.last = TRUE <=> s.msg = "confirm"
      /\ s.msg # "init" => s.update = TRUE
      /\ s.msg \in {"init", "try"} =>
            (IF s.to = "src" THEN s.src ELSE s.dst) = "UNINITIALIZED"
      /\ s.msg \in {"ack", "confirm"} =>
            s.src # "UNINITIALIZED" /\ s.dst # "UNINITIALIZED"
  BY <1>3, StepFields
<1>5. \A c \in Chains : seen[c].state = "UNINITIALIZED" => conf[c] = NoId
  BY DEF BuildMsg, SeenHolds, HasRead
<1>6. \A c \in Chains : seen[c].state # "UNINITIALIZED" => conf[c] # NoId
  BY <1>2 DEF FinalizedEnd, EndOf, NoEnd
<1>7. Target' = s.to /\ sending'.msg = s.msg /\ sending'.last = s.last /\ sending'.update = s.update
      /\ sending'.own = conf[s.to] /\ sending'.cp = conf[Other(s.to)]
      /\ sending'.proven = FinalizedEnd(Other(s.to)) /\ Other(s.to) \in Chains
  BY <1>1, <1>4 DEF Target, Other, Chains
<1>8. Generates(sending') => conf[Target'] = NoId
  BY <1>3, <1>4, <1>5, <1>7 DEF Generates, Chains
<1>9. ~Generates(sending') => \A c \in Chains : conf[c] # NoId
  BY <1>3, <1>4, <1>6, <1>7 DEF Generates, Chains
<1> QED
  BY <1>2, <1>3, <1>4, <1>7, <1>8, <1>9

\* Building a message keeps the invariant.
LEMMA BuildKeeps ==
    ASSUME CreatedInv, BuildMsg
    PROVE  CreatedInv'
<1> USE DEF CreatedInv
<1>1. TypeOK' /\ UNCHANGED <<hist, mempool, path, conf>> /\ sh' = NoHeaders
      /\ pc' = "send" /\ seen' = NoEnds
  BY TypeStep DEF Next, CommandStep, BuildMsg, chainVars
<1>2. \A c \in Chains : Latest(c)' = Latest(c) /\ (ConfOpen(c) <=> ConfOpen(c)')
  BY <1>1 DEF Latest, ConfOpen
<1>3. /\ sending'.to \in Chains
      /\ sending'.msg \in {"init", "try", "ack", "confirm"}
      /\ sending'.own = conf[sending'.to] /\ sending'.cp = conf[Other(sending'.to)]
      /\ sending'.proven = seen[Other(sending'.to)]
      /\ sending'.last = TRUE <=> sending'.msg = "confirm"
      /\ Generates(sending') => conf[sending'.to] = NoId
      /\ ~Generates(sending') => \A c \in Chains : conf[c] # NoId
  BY Built DEF Target
<1>4. Other(sending'.to) \in Chains
  BY <1>3 DEF Other, Chains
<1>5. seen[Other(sending'.to)].state = "OPEN" => ConfOpen(Other(sending'.to))
  BY <1>4 DEF SeenHolds
<1>6. MsgFits(sending)'
  BY <1>1, <1>2, <1>3, <1>4, <1>5 DEF MsgFits, Generates
<1>7. SeenHolds' /\ TxKnown'
  BY <1>1, NothingSeen DEF HasRead, TxKnown
<1> QED
  BY <1>1, <1>6, <1>7, CommandKeeps

\* Broadcasting keeps the invariant.
LEMMA BroadcastKeeps ==
    ASSUME CreatedInv, Broadcast
    PROVE  CreatedInv'
<1> USE DEF CreatedInv
<1>1. TypeOK' /\ UNCHANGED <<hist, path, conf, sh, seen, sending>> /\ pc' = "wait" /\ pc = "send"
  BY TypeStep DEF Next, CommandStep, Broadcast
<1>2. \A c \in Chains : Latest(c)' = Latest(c) /\ (ConfOpen(c) <=> ConfOpen(c)')
                        /\ Other(c) \in Chains
  BY <1>1 DEF Latest, ConfOpen, Other, Chains
<1>3. Target \in Chains /\ Target' = Target
  BY <1>1 DEF Target, TypeOK, Msg
<1>4. /\ mempool'[Target] = [status |-> "pending", msg |-> sending, ok |-> FALSE, id |-> NoId]
      /\ \A d \in Chains : d # Target => mempool'[d] = mempool[d]
  BY <1>3 DEF Broadcast, TypeOK
<1>5. Contiguous' /\ OpenIsConfigured' /\ ConfiguredExists' /\ OpenStays'
  BY <1>1, <1>2 DEF Contiguous, OpenIsConfigured, ConfiguredExists, OpenStays
<1>6. SeenHolds'
  BY <1>1, <1>2 DEF SeenHolds, HasRead
<1>7. \A m \in Msg : MsgFits(m) => MsgFits(m)'
  <2>1. \A m \in Msg : Other(m.to) \in Chains
    BY <1>2 DEF Msg
  <2> QED
    BY <1>1, <1>2, <2>1 DEF MsgFits
<1>8. MsgsFit'
  <2>1. MsgFits(sending)'
    BY <1>1, <1>7 DEF MsgsFit, TypeOK
  <2>2. ASSUME NEW c \in Chains
        PROVE  /\ MsgFits(mempool[c].msg)'
               /\ mempool'[c].status = "pending" => mempool'[c].msg.to = c
               /\ mempool'[c].status # "pending" => mempool'[c].msg = NoMsg
    <3>1. CASE c = Target
      BY <1>1, <1>4, <2>1, <3>1 DEF MsgFits, Target
    <3>2. CASE c # Target
      <4>1. mempool'[c] = mempool[c] /\ mempool[c].msg \in Msg
        BY <1>4, <3>2 DEF TypeOK, Tx
      <4> QED
        BY <1>7, <4>1 DEF MsgsFit
    <3> QED
      BY <3>1, <3>2
  <2> QED
    BY <2>1, <2>2 DEF MsgsFit
<1>9. TxKnown'
  BY <1>1, <1>3, <1>4 DEF TxKnown
<1> QED
  BY <1>1, <1>5, <1>6, <1>8, <1>9

\* The end of waitForCommit keeps the invariant.
LEMMA CommitKeeps ==
    ASSUME CreatedInv, WaitForCommit
    PROVE  CreatedInv'
<1> USE DEF CreatedInv
<1>1. TypeOK' /\ UNCHANGED <<hist, mempool, path, conf, sh, seen>>
  BY TypeStep DEF Next, CommandStep, WaitForCommit, chainVars
<1>2. CASE mempool[Target].ok = TRUE
  <2>1. /\ pc = "wait" /\ pc' = "sync" /\ sending' = sending
        /\ mempool[Target].status = "followed"
    BY <1>2 DEF WaitForCommit
  <2>2. \A c \in Chains : Latest(c)' = Latest(c) /\ (ConfOpen(c) <=> ConfOpen(c)')
    BY <1>1 DEF Latest, ConfOpen
  <2>3. Target \in Chains /\ Target' = Target /\ Other(Target) \in Chains
    BY <2>1 DEF Target, TypeOK, Msg, Other, Chains
  <2>4. MsgFits(sending)' /\ SeenHolds'
    BY <1>1, <2>1, <2>2, <2>3 DEF MsgsFit, MsgFits, SeenHolds, HasRead, Target
  <2>5. OutcomeHolds(mempool[Target])
    BY <1>2, <2>1 DEF TxKnown
  <2>6. TxKnown'
    BY <1>1, <1>2, <2>1, <2>2, <2>3, <2>5 DEF TxKnown, OutcomeHolds
  <2> QED
    BY <1>1, <2>1, <2>4, <2>6, CommandKeeps
<1>3. CASE mempool[Target].ok # TRUE
  <2>1. SendFails
    BY <1>3 DEF WaitForCommit, TypeOK, Tx, Target, Msg
  <2> QED
    BY <1>1, <2>1, SendFailsKeeps
<1> QED
  BY <1>2, <1>3

\* Saving an identifier keeps the invariant: it is saved where there was none.
LEMMA SyncKeeps ==
    ASSUME CreatedInv, Sync
    PROVE  CreatedInv'
<1> USE DEF CreatedInv
<1> DEFINE id == mempool[Target].id
<1>1. TypeOK' /\ UNCHANGED <<hist, mempool, path, sh, seen>> /\ pc = "sync"
      /\ pc' = (IF sending.last THEN "created" ELSE "headersSrc") /\ sending' = NoMsg
  BY TypeStep DEF Next, CommandStep, Sync, chainVars
<1>2. Target \in Chains /\ id \in Ids \cup {NoId}
  BY DEF Target, TypeOK, Msg, Tx
<1>3. mempool[Target].status = "followed" /\ OutcomeHolds(mempool[Target])
  BY <1>1 DEF TxKnown
<1>4. /\ id # NoId => conf[Target] = NoId /\ conf'[Target] = id
      /\ id = NoId => conf' = conf
      /\ \A c \in Chains : c # Target => conf'[c] = conf[c]
  <2>1. id # NoId => conf[Target] = NoId
    BY <1>3 DEF OutcomeHolds, MsgsFit, MsgFits, Target
  <2> QED
    BY <1>2, <2>1 DEF Sync, TypeOK
<1>5. \A c \in Chains : /\ Latest(c)' = Latest(c) /\ Other(c) \in Chains
                        /\ conf[c] # NoId => conf'[c] = conf[c]
                        /\ ConfOpen(c) => ConfOpen(c)'
  <2>1. \A c \in Chains : conf[c] # NoId => conf'[c] = conf[c]
    BY <1>4
  <2> QED
    BY <1>1, <2>1 DEF Latest, ConfOpen, Other, Chains
<1>6. Contiguous' /\ OpenStays'
  BY <1>1, <1>5 DEF Contiguous, OpenStays
<1>7. OpenIsConfigured'
  <2>1. \A i \in Ids : i # NoId
    BY ConstantTypes
  <2> QED
    BY <1>5, <2>1 DEF OpenIsConfigured
<1>8. ConfiguredExists'
  <2> SUFFICES ASSUME NEW c \in Chains, conf'[c] # NoId
               PROVE  Latest(c)[conf'[c]].state # "UNINITIALIZED"
    BY <1>5 DEF ConfiguredExists
  <2> QED
    BY <1>3, <1>4 DEF ConfiguredExists, OutcomeHolds
<1>9. SeenHolds'
  BY <1>1, <1>5 DEF SeenHolds, HasRead
<1>10. MsgsFit'
  <2> SUFFICES ASSUME NEW c \in Chains PROVE MsgFits(mempool[c].msg)'
    BY <1>1, NoMsgFits DEF MsgsFit
  <2>1. CASE mempool[c].status = "pending"
    <3>1. MsgFits(mempool[c].msg) /\ mempool[c].msg.to = c /\ c # Target
      BY <1>3, <2>1 DEF MsgsFit
    <3>2. conf'[c] = conf[c]
      BY <1>4, <3>1
    <3> QED
      BY <1>1, <1>5, <3>1, <3>2 DEF MsgFits
  <2>2. CASE mempool[c].status # "pending"
    BY <1>1, <2>2, NoMsgFits DEF MsgsFit
  <2> QED
    BY <2>1, <2>2
<1>11. TxKnown'
  BY <1>1 DEF TxKnown
<1>12. ASSUME pc' = "created" PROVE \A c \in Chains : ConfOpen(c)'
  <2>1. sending.last = TRUE
    BY <1>1, <1>12 DEF TypeOK, Msg
  <2>2. sending.msg = "confirm"
    BY <2>1 DEF MsgsFit, MsgFits
  <2> QED
    BY <1>3, <1>5, <2>2 DEF OutcomeHolds
<1> QED
  BY <1>1, <1>6, <1>7, <1>8, <1>9, <1>10, <1>11, <1>12

\* Every step keeps the invariant.
LEMMA CreatedStep == CreatedInv /\ [Next]_vars => CreatedInv'
<1> SUFFICES ASSUME CreatedInv, [Next]_vars PROVE CreatedInv'
  OBVIOUS
<1>0. TypeOK'
  BY TypeStep DEF CreatedInv
<1>1. ASSUME NEW c \in Chains, NewBlock(c) \/ ExecTx(c) \/ DropTx(c) PROVE CreatedInv'
  BY <1>1, NewBlockKeeps, ExecKeeps, DropKeeps
<1>2. CASE ReadySrc \/ ReadyDst \/ LatestSrc \/ LatestDst \/ HeadersSrc \/ HeadersDst
  BY <1>2, ReadingKeeps, HeadersKeep
<1>3. CASE WaitForSettlement \/ Panic \/ BuildError \/ RPCError
  BY <1>0, <1>3, BackOffKeeps DEF WaitForSettlement, Panic, BuildError, RPCError, chainVars
<1>4. CASE BuildMsg \/ Broadcast \/ WaitForCommit \/ Sync
  BY <1>4, BuildKeeps, BroadcastKeeps, CommitKeeps, SyncKeeps
<1>5. CASE SendRejected \/ GiveUpWaiting
  BY <1>0, <1>5, SendFailsKeeps DEF SendRejected, GiveUpWaiting, chainVars
<1>6. CASE Crash \/ Rerun
  BY <1>0, <1>6, BackOffKeeps DEF Crash, Rerun, Restart, chainVars
<1>7. CASE UNCHANGED vars
  <2>1. \A c \in Chains : Latest(c)' = Latest(c) /\ (ConfOpen(c) <=> ConfOpen(c)')
                          /\ Other(c) \in Chains
    BY <1>7 DEF Latest, ConfOpen, vars, chainVars, Other, Chains
  <2>2. Target \in Chains /\ Target' = Target /\ Other(sending.to) \in Chains
    BY <1>7, <2>1 DEF Target, CreatedInv, TypeOK, Msg, vars
  <2>3. SeenHolds' /\ MsgFits(sending)' /\ TxKnown'
    BY <1>7, <2>1, <2>2 DEF CreatedInv, SeenHolds, HasRead, MsgsFit, MsgFits, TxKnown, OutcomeHolds,
                            vars, chainVars
  <2> QED
    BY <1>0, <1>7, <2>1, <2>3, CommandKeeps DEF CreatedInv, vars, chainVars
<1> QED
  BY <1>1, <1>2, <1>3, <1>4, <1>5, <1>6, <1>7 DEF Next, CommandStep

\* A fresh path, or one begun with the chains exchanged, satisfies it.
LEMMA CreatedInit == Init => CreatedInv
<1> SUFFICES ASSUME Init PROVE CreatedInv
  OBVIOUS
<1>1. TypeOK
  BY TypeInit
<1>2. \A c \in Chains, k \in 0..Delay :
        \/ hist[c][k] = EmptyStore /\ conf[c] = NoId
        \/ hist[c][k] = OneInit /\ conf[c] = 1
  BY DEF Init
<1>3. /\ Used(EmptyStore) = 1..0 /\ Used(OneInit) = 1..1
      /\ \A i \in Ids : EmptyStore[i].state # "OPEN" /\ OneInit[i].state # "OPEN"
      /\ OneInit[1].state = "INIT"
  <2>1. \A i \in Ids : EmptyStore[i] = NoEnd
                       /\ OneInit[i] = IF i = 1 THEN [state |-> "INIT", cp |-> NoId] ELSE NoEnd
    BY DEF EmptyStore, OneInit
  <2>2. [state |-> "INIT", cp |-> NoId] # NoEnd /\ 1 \in Ids
    BY ConstantTypes DEF NoEnd
  <2>3. Used(EmptyStore) = {} /\ Used(OneInit) = {1}
    BY <2>1, <2>2 DEF Used
  <2>4. 1..0 = {} /\ 1..1 = {1}
    OBVIOUS
  <2>5. \A i \in Ids : EmptyStore[i].state # "OPEN" /\ OneInit[i].state # "OPEN"
    BY <2>1 DEF NoEnd
  <2> QED
    BY <2>1, <2>2, <2>3, <2>4, <2>5
<1>4. Contiguous
  <2>1. 0 \in 0..MaxEnds /\ 1 \in 0..MaxEnds
    BY HandshakeAssumption
  <2>2. \A c \in Chains : Latest(c) \in {EmptyStore, OneInit}
    BY <1>2, ConstantTypes DEF Latest
  <2> QED
    BY <1>3, <2>1, <2>2 DEF Contiguous
<1>5. OpenStays /\ OpenIsConfigured /\ ConfiguredExists
  <2>1. \A c \in Chains, i \in Ids : sh[c].at[i].state # "OPEN"
    BY DEF Init, NoHeaders, EmptyStore, NoEnd
  <2> QED
    BY <1>2, <1>3, <2>1, ConstantTypes DEF OpenStays, OpenIsConfigured, ConfiguredExists, Latest
<1>6. SeenHolds
  BY DEF Init, SeenHolds, HasRead, NoEnds, NoEnd
<1>7. MsgsFit /\ TxKnown
  BY NoMsgFits DEF Init, MsgsFit, TxKnown, NoTx
<1> QED
  BY <1>1, <1>4, <1>5, <1>6, <1>7 DEF CreatedInv, Init

\* When CreateConnection or CreateChannel reports success, the configuration names an open
\* pair of each other's counterparties, whatever was lost, retried or executed unseen.
THEOREM CreatedCorrect == Spec => []CreatedIsOpen
<1>1. CreatedInv => CreatedIsOpen
  <2> SUFFICES ASSUME CreatedInv, pc = "created", NEW c \in Chains
               PROVE  conf[c] # NoId /\ Latest(c)[conf[c]] = [state |-> "OPEN", cp |-> conf[Other(c)]]
    BY DEF CreatedIsOpen, PairOpen
  <2>1. conf[c] \in Ids /\ Latest(c)[conf[c]].state = "OPEN"
    BY DEF CreatedInv, ConfOpen, TypeOK
  <2>2. Latest(c)[conf[c]].cp = conf[Other(c)]
    BY <2>1 DEF CreatedInv, OpenIsConfigured
  <2>3. Latest(c)[conf[c]] \in End
    BY <2>1, HeaderType DEF CreatedInv, Store
  <2> QED
    BY <2>1, <2>2, <2>3, ConstantTypes DEF End
<1> QED
  BY <1>1, CreatedInit, CreatedStep, PTL DEF Spec

-----------------------------------------------------------------------------
(* Every fault leaves at most one end behind *)

\* A pending transaction that may still generate an end on chain c.
Looming(c) == IF mempool[c].status = "pending" /\ Generates(mempool[c].msg) THEN 1 ELSE 0

\* The command still knows of the transaction that generates an end.
Accounted ==
    IF /\ pc \in {"wait", "sync"}
       /\ Generates(sending)
       /\ \/ mempool[Target].status = "pending"
          \/ mempool[Target].status \in {"committed", "followed"} /\ mempool[Target].ok = TRUE
    THEN 1 ELSE 0

(***************************************************************************)
(* The ends nobody knows of, together with those that may still come, are  *)
(* at most the faults, but for the one the command is waiting for.         *)
(***************************************************************************)
OrphanInv == Cardinality(Unknown) + Looming("src") + Looming("dst") <= faults + Accounted

\* Unknown, element by element; it is finite.
LEMMA UnknownIs ==
    /\ Unknown = {x \in Chains \X Ids : x[2] \in Used(Latest(x[1])) /\ x[2] # conf[x[1]]}
    /\ IsFiniteSet(Unknown)
    /\ Cardinality(Unknown) \in Nat
<1>1. Unknown = {x \in Chains \X Ids : x[2] \in Used(Latest(x[1])) /\ x[2] # conf[x[1]]}
  BY DEF Unknown, Used
<1>2. IsFiniteSet(Chains) /\ IsFiniteSet(Ids)
  <2>1. IsFiniteSet({"src"})
    BY FS_Singleton
  <2>2. Chains = {"src"} \cup {"dst"}
    BY DEF Chains
  <2>3. IsFiniteSet(Ids)
    BY FS_Interval, HandshakeAssumption DEF Ids
  <2> QED
    BY <2>1, <2>2, <2>3, FS_AddElement
<1>3. IsFiniteSet(Chains \X Ids)
  BY <1>2, FS_Product
<1>4. IsFiniteSet(Unknown)
  BY <1>1, <1>3, FS_Subset
<1> QED
  BY <1>1, <1>4, FS_CardinalityType

\* The counters are numbers.
LEMMA OrphanTypes ==
    ASSUME TypeOK
    PROVE  /\ \A c \in Chains : Looming(c) \in {0, 1}
           /\ Accounted \in {0, 1}
           /\ faults \in Nat
           /\ Cardinality(Unknown) \in Nat
  BY UnknownIs DEF Looming, Accounted, TypeOK

\* A step that leaves chains, transactions and configuration alone may only forget its
\* transaction at the cost of a fault.
LEMMA OrphansStay ==
    ASSUME TypeOK, TypeOK', OrphanInv, UNCHANGED <<hist, mempool, conf>>,
           (faults' = faults /\ Accounted = 0) \/ faults' = faults + 1
    PROVE  OrphanInv'
<1>1. Unknown' = Unknown
  BY DEF Unknown, Latest
<1>2. \A c \in Chains : Looming(c)' = Looming(c)
  BY DEF Looming
<1>3. Looming("src") \in {0, 1} /\ Looming("dst") \in {0, 1} /\ Accounted \in {0, 1}
      /\ Accounted' \in {0, 1} /\ faults \in Nat /\ Cardinality(Unknown) \in Nat
  BY OrphanTypes DEF Chains, Accounted
<1>4. Looming("src")' = Looming("src") /\ Looming("dst")' = Looming("dst")
  BY <1>2 DEF Chains
<1> QED
  BY <1>1, <1>3, <1>4 DEF OrphanInv

\* A block without a transaction changes nothing of this.
LEMMA NewBlockOrphans ==
    ASSUME CreatedInv, OrphanInv, NEW c \in Chains, NewBlock(c)
    PROVE  OrphanInv'
<1> USE DEF CreatedInv
<1>1. AddBlock(c, Latest(c)) /\ UNCHANGED <<conf, pc, sending, faults>>
  BY DEF NewBlock
<1>2. \A d \in Chains : Latest(d)' = Latest(d)
  BY <1>1, BlockEffect
<1>3. Unknown' = Unknown
  BY <1>1, <1>2 DEF Unknown
<1>4. \A d \in Chains : /\ mempool'[d].msg = mempool[d].msg
                        /\ mempool'[d].ok = mempool[d].ok
                        /\ mempool'[d].status = "pending" <=> mempool[d].status = "pending"
                        /\ mempool'[d].status \in {"committed", "followed"}
                              <=> mempool[d].status \in {"committed", "followed"}
  BY DEF NewBlock, TypeOK, Tx
<1>5. Looming("src")' = Looming("src") /\ Looming("dst")' = Looming("dst")
  BY <1>4 DEF Looming, Chains
<1>6. Accounted' = Accounted
  <2>1. Target \in Chains /\ Target' = Target
    BY <1>1 DEF Target, TypeOK, Msg
  <2> QED
    BY <1>1, <1>4, <2>1 DEF Accounted
<1> QED
  BY <1>1, <1>3, <1>5, <1>6 DEF OrphanInv

\* A transaction turns the end that loomed into one that is there.
LEMMA ExecOrphans ==
    ASSUME CreatedInv, OrphanInv, NEW c \in Chains, ExecTx(c)
    PROVE  OrphanInv'
<1> USE DEF CreatedInv
<1> DEFINE m == mempool[c].msg
           t == mempool'[c]
<1>1. UNCHANGED <<conf, pc, sending, faults>> /\ mempool[c].status = "pending"
  BY DEF ExecTx
<1>2. \A d \in Chains : d # c => Latest(d)' = Latest(d)
  BY BlockEffect DEF ExecTx
<1>3. /\ t.status = "committed"
      /\ \A d \in Chains : d # c => mempool'[d] = mempool[d]
      /\ Refused(c, t) \/ Generated(c, m, t) \/ Opened(c, m, t)
  BY ExecEffect
<1>4. Used(Latest(c)') = Used(Latest(c)) \cup (IF t.id = NoId THEN {} ELSE {t.id})
  BY UsedAfter
<1>5. Looming(c)' = 0 /\ \A d \in Chains : d # c => Looming(d)' = Looming(d)
  BY <1>3 DEF Looming
<1>6. Target \in Chains /\ Target' = Target /\ Other(c) \in Chains /\ Other(c) # c
  BY <1>1 DEF Target, TypeOK, Msg, Other, Chains
<1>7. Target # c => Accounted' = Accounted
  BY <1>1, <1>3, <1>6 DEF Accounted
<1>8. Target = c /\ pc \in {"wait", "sync"} => pc = "wait" /\ m = sending
  BY <1>1 DEF TxKnown
<1>9. Looming("src") + Looming("dst") = Looming(c) + Looming(Other(c))
      /\ Looming("src")' + Looming("dst")' = Looming(c)' + Looming(Other(c))'
      /\ Looming(Other(c))' = Looming(Other(c))
  <2>1. Looming("src") \in {0, 1} /\ Looming("dst") \in {0, 1}
        /\ Looming("src")' \in {0, 1} /\ Looming("dst")' \in {0, 1}
    BY DEF Looming
  <2>2. Looming(Other(c))' = Looming(Other(c))
    BY <1>5, <1>6
  <2>3. CASE c = "src"
    BY <2>1, <2>2, <2>3 DEF Other
  <2>4. CASE c = "dst"
    BY <2>1, <2>2, <2>4 DEF Other
  <2> QED
    BY <2>3, <2>4 DEF Chains
<1>10. Looming(c) = (IF Generates(m) THEN 1 ELSE 0) /\ Looming(Other(c)) \in {0, 1}
       /\ Accounted \in {0, 1} /\ Accounted' \in {0, 1}
       /\ faults \in Nat /\ Cardinality(Unknown) \in Nat
       /\ Looming(c) \in {0, 1} /\ Looming(c)' \in {0, 1}
       /\ Looming("src") \in {0, 1} /\ Looming("dst") \in {0, 1}
       /\ Looming("src")' \in {0, 1} /\ Looming("dst")' \in {0, 1}
  BY <1>1, OrphanTypes DEF Looming, Accounted
<1>11. CASE Generated(c, m, t)
  <2>1. t.id \in Ids /\ t.id # NoId /\ t.id \notin Used(Latest(c)) /\ conf[c] = NoId
        /\ Generates(m) /\ t.ok = TRUE
    BY <1>11, ConstantTypes DEF Generated
  <2>2. Unknown' = Unknown \cup {<<c, t.id>>} /\ <<c, t.id>> \notin Unknown
    BY <1>1, <1>2, <1>4, <2>1 DEF Unknown
  <2>3. Cardinality(Unknown') = Cardinality(Unknown) + 1
    <3>1. IsFiniteSet(Unknown)
      BY UnknownIs
    <3> QED
      BY <2>2, <3>1, FS_AddElement
  <2>4. Accounted' = Accounted
    <3>1. CASE Target = c
      BY <1>1, <1>3, <1>6, <1>8, <2>1, <3>1 DEF Accounted
    <3> QED
      BY <1>7, <3>1
  <2>5. Looming("src")' + Looming("dst")' = Looming("src") + Looming("dst") - 1
    BY <1>5, <1>9, <1>10, <2>1
  <2>6. Cardinality(Unknown) + Looming("src") + Looming("dst") <= faults + Accounted
    BY DEF OrphanInv
  <2>7. Cardinality(Unknown)' + Looming("src")' + Looming("dst")' <= faults' + Accounted'
    <3>1. /\ Cardinality(Unknown) \in Nat /\ faults \in Nat /\ Accounted \in {0, 1}
          /\ Looming("src") \in {0, 1} /\ Looming("dst") \in {0, 1}
          /\ Looming("src")' \in {0, 1} /\ Looming("dst")' \in {0, 1}
      BY <1>10
    <3>2. Cardinality(Unknown) + 1 + Looming("src")' + Looming("dst")' <= faults + Accounted
      BY <2>5, <2>6, <3>1
    <3> QED
      BY <1>1, <2>3, <2>4, <3>2
  <2> QED
    BY <2>7 DEF OrphanInv
<1>12. CASE ~Generated(c, m, t)
  <2>1. t.id = NoId
    BY <1>3, <1>12 DEF Refused, Opened
  <2>2. Unknown' = Unknown
    BY <1>1, <1>2, <1>4, <2>1 DEF Unknown
  <2>3. Accounted <= Accounted' + Looming(c)
    <3>1. CASE Target = c /\ pc \in {"wait", "sync"}
      BY <1>1, <1>8, <1>10, <3>1 DEF Accounted
    <3>2. CASE Target = c /\ pc \notin {"wait", "sync"}
      BY <1>10, <3>2 DEF Accounted
    <3>3. CASE Target # c
      <4>1. Accounted' = Accounted
        BY <1>7, <3>3
      <4> QED
        BY <1>10, <4>1
    <3> QED
      BY <3>1, <3>2, <3>3
  <2>4. Looming("src")' + Looming("dst")' = Looming("src") + Looming("dst") - Looming(c)
    BY <1>5, <1>9, <1>10
  <2>5. Cardinality(Unknown)' = Cardinality(Unknown) /\ faults' = faults
    BY <1>1, <2>2
  <2>6. Cardinality(Unknown) + Looming("src") + Looming("dst") <= faults + Accounted
    BY DEF OrphanInv
  <2>7. Cardinality(Unknown)' + Looming("src")' + Looming("dst")' <= faults' + Accounted'
    <3>1. /\ Cardinality(Unknown) \in Nat /\ faults \in Nat /\ Looming(c) \in {0, 1}
          /\ Accounted \in {0, 1} /\ Accounted' \in {0, 1}
          /\ Looming("src") \in {0, 1} /\ Looming("dst") \in {0, 1}
          /\ Looming("src")' \in {0, 1} /\ Looming("dst")' \in {0, 1}
      BY <1>10
    <3>2. Cardinality(Unknown) + Looming("src")' + Looming("dst")' <= faults + Accounted'
      BY <2>3, <2>4, <2>6, <3>1
    <3> QED
      BY <2>5, <3>2
  <2> QED
    BY <2>7 DEF OrphanInv
<1> QED
  BY <1>11, <1>12

\* A dropped transaction is a fault.
LEMMA DropOrphans ==
    ASSUME CreatedInv, OrphanInv, NEW c \in Chains, DropTx(c)
    PROVE  OrphanInv'
<1> USE DEF CreatedInv
<1>1. /\ UNCHANGED <<hist, conf, pc, sending>> /\ faults' = faults + 1
      /\ mempool'[c] = NoTx /\ \A d \in Chains : d # c => mempool'[d] = mempool[d]
  BY DEF DropTx, Fault, TypeOK
<1>2. Unknown' = Unknown
  BY <1>1 DEF Unknown, Latest
<1>3. ASSUME NEW d \in Chains PROVE Looming(d)' <= Looming(d) /\ Looming(d) \in {0, 1} /\ Looming(d)' \in {0, 1}
  <2>1. d = c => Looming(d)' = 0
    BY <1>1 DEF Looming, NoTx
  <2>2. d # c => Looming(d)' = Looming(d)
    BY <1>1 DEF Looming
  <2> QED
    BY <2>1, <2>2 DEF Looming
<1>4. /\ Looming("src")' <= Looming("src") /\ Looming("src") \in {0, 1} /\ Looming("src")' \in {0, 1}
      /\ Looming("dst")' <= Looming("dst") /\ Looming("dst") \in {0, 1} /\ Looming("dst")' \in {0, 1}
  BY <1>3 DEF Chains
<1>5. Accounted \in {0, 1} /\ Accounted' \in {0, 1} /\ faults \in Nat /\ Cardinality(Unknown) \in Nat
  BY OrphanTypes DEF Accounted
<1> QED
  BY <1>1, <1>2, <1>4, <1>5 DEF OrphanInv

\* A broadcast makes an end loom, and the command accounts for it.
LEMMA BroadcastOrphans ==
    ASSUME CreatedInv, OrphanInv, Broadcast
    PROVE  OrphanInv'
<1> USE DEF CreatedInv
<1>1. UNCHANGED <<hist, conf, sending, faults>> /\ pc' = "wait" /\ pc = "send"
      /\ mempool[Target].status # "pending"
  BY DEF Broadcast
<1>2. Target \in Chains /\ Target' = Target
  BY <1>1 DEF Target, TypeOK, Msg
<1>3. /\ mempool'[Target] = [status |-> "pending", msg |-> sending, ok |-> FALSE, id |-> NoId]
      /\ \A d \in Chains : d # Target => mempool'[d] = mempool[d]
  BY <1>2 DEF Broadcast, TypeOK
<1>4. Unknown' = Unknown
  BY <1>1 DEF Unknown, Latest
<1>5. Accounted = 0 /\ Accounted' = IF Generates(sending) THEN 1 ELSE 0
  BY <1>1, <1>2, <1>3 DEF Accounted
<1>6. Looming(Target) = 0 /\ Looming(Target)' = Accounted'
  BY <1>1, <1>2, <1>3, <1>5 DEF Looming
<1>7. \A d \in Chains : d # Target => Looming(d)' = Looming(d)
  BY <1>3 DEF Looming
<1>8. /\ Looming("src") \in {0, 1} /\ Looming("dst") \in {0, 1}
      /\ Accounted' \in {0, 1} /\ faults \in Nat /\ Cardinality(Unknown) \in Nat
  BY OrphanTypes DEF Accounted, Chains
<1>9. CASE Target = "src"
  <2>1. Looming("src") = 0 /\ Looming("src")' = Accounted' /\ Looming("dst")' = Looming("dst")
    BY <1>2, <1>6, <1>7, <1>9 DEF Chains
  <2> QED
    BY <1>1, <1>4, <1>5, <1>8, <2>1 DEF OrphanInv
<1>10. CASE Target = "dst"
  <2>1. Looming("dst") = 0 /\ Looming("dst")' = Accounted' /\ Looming("src")' = Looming("src")
    BY <1>2, <1>6, <1>7, <1>10 DEF Chains
  <2> QED
    BY <1>1, <1>4, <1>5, <1>8, <2>1 DEF OrphanInv
<1> QED
  BY <1>2, <1>9, <1>10 DEF Chains

\* Saving its identifier makes the accounted end a known one.
LEMMA SyncOrphans ==
    ASSUME CreatedInv, OrphanInv, Sync
    PROVE  OrphanInv'
<1> USE DEF CreatedInv
<1> DEFINE id == mempool[Target].id
<1>1. UNCHANGED <<hist, mempool, faults>> /\ pc = "sync" /\ pc' \in {"created", "headersSrc"}
  BY DEF Sync, chainVars
<1>2. Target \in Chains /\ id \in Ids \cup {NoId}
  BY DEF Target, TypeOK, Msg, Tx
<1>3. mempool[Target].status = "followed" /\ mempool[Target].ok = TRUE
      /\ OutcomeHolds(mempool[Target])
  BY <1>1 DEF TxKnown
<1>4. Accounted = (IF id # NoId THEN 1 ELSE 0) /\ Accounted' = 0
  BY <1>1, <1>3 DEF Accounted, OutcomeHolds
<1>5. Looming("src")' = Looming("src") /\ Looming("dst")' = Looming("dst")
  BY <1>1 DEF Looming
<1>6. Looming("src") \in {0, 1} /\ Looming("dst") \in {0, 1} /\ faults \in Nat
      /\ Cardinality(Unknown) \in Nat
  BY OrphanTypes DEF Chains
<1>7. CASE id = NoId
  <2>1. Unknown' = Unknown
    BY <1>1, <1>7 DEF Sync, Unknown, Latest
  <2> QED
    BY <1>1, <1>4, <1>5, <1>6, <1>7, <2>1 DEF OrphanInv
<1>8. CASE id # NoId
  <2>1. conf[Target] = NoId
    BY <1>3, <1>8 DEF OutcomeHolds, MsgsFit, MsgFits, Target
  <2>2. conf'[Target] = id /\ \A c \in Chains : c # Target => conf'[c] = conf[c]
    BY <1>2, <1>8 DEF Sync, TypeOK
  <2>3. id \in Used(Latest(Target)) /\ id \in Ids
    BY <1>2, <1>3, <1>8 DEF OutcomeHolds, Used, NoEnd
  <2>4. \A c \in Chains : Latest(c)' = Latest(c)
    BY <1>1 DEF Latest
  <2>5. <<Target, id>> \in Unknown
    BY <1>2, <1>8, <2>1, <2>3 DEF Unknown
  <2>6. NoId \notin Ids
    BY ConstantTypes
  <2>7. Unknown' = Unknown \ {<<Target, id>>}
    <3>1. \A c \in Chains : Used(Latest(c))' = Used(Latest(c)) /\ Used(Latest(c)) \subseteq Ids
      BY <2>4 DEF Used
    <3>2. \A c \in Chains, i \in Ids : <<c, i>> \in Unknown' <=> i \in Used(Latest(c)) /\ i # conf'[c]
      BY <3>1 DEF Unknown
    <3>3. \A c \in Chains, i \in Ids : <<c, i>> \in Unknown <=> i \in Used(Latest(c)) /\ i # conf[c]
      BY DEF Unknown
    <3>4. \A c \in Chains, i \in Ids :
            <<c, i>> \in Unknown' <=> <<c, i>> \in Unknown /\ <<c, i>> # <<Target, id>>
      BY <2>1, <2>2, <2>6, <3>2, <3>3
    <3>5. Unknown \subseteq Chains \X Ids
      BY UnknownIs
    <3>6. Unknown' \subseteq Chains \X Ids
      BY <3>1 DEF Unknown
    <3> QED
      BY <3>4, <3>5, <3>6
  <2>8. Cardinality(Unknown') = Cardinality(Unknown) - 1
    <3>1. IsFiniteSet(Unknown)
      BY UnknownIs
    <3> QED
      BY <2>5, <2>7, <3>1, FS_RemoveElement
  <2> QED
    BY <1>1, <1>4, <1>5, <1>6, <1>8, <2>8 DEF OrphanInv
<1> QED
  BY <1>7, <1>8

\* Every step keeps the count.
LEMMA OrphanStep == CreatedInv /\ OrphanInv /\ [Next]_vars => OrphanInv'
<1> SUFFICES ASSUME CreatedInv, OrphanInv, [Next]_vars PROVE OrphanInv'
  OBVIOUS
<1>0. TypeOK /\ TypeOK'
  BY TypeStep DEF CreatedInv
<1>10. ASSUME UNCHANGED <<hist, mempool, conf>>
       PROVE  Unknown' = Unknown /\ Looming("src")' = Looming("src") /\ Looming("dst")' = Looming("dst")
  BY <1>10 DEF Unknown, Latest, Looming
<1>1. ASSUME NEW c \in Chains, NewBlock(c) \/ ExecTx(c) \/ DropTx(c) PROVE OrphanInv'
  BY <1>1, NewBlockOrphans, ExecOrphans, DropOrphans
<1>2. CASE Broadcast \/ Sync
  BY <1>2, BroadcastOrphans, SyncOrphans
<1>3. CASE ReadySrc \/ ReadyDst \/ LatestSrc \/ LatestDst \/ HeadersSrc \/ HeadersDst
           \/ WaitForSettlement \/ Panic \/ BuildMsg \/ BuildError
  <2>1. pc \notin {"wait", "sync"} /\ UNCHANGED <<hist, mempool, conf, faults>>
    BY <1>3 DEF ReadySrc, ReadyDst, LatestSrc, LatestDst, HeadersSrc, HeadersDst,
                WaitForSettlement, Panic, BuildMsg, BuildError, chainVars
  <2>2. Accounted = 0
    BY <2>1 DEF Accounted
  <2> QED
    BY <1>0, <2>1, <2>2, OrphansStay
<1>4. CASE SendRejected
  <2>1. pc = "send" /\ UNCHANGED <<hist, mempool, conf>> /\ (faults' = faults \/ faults' = faults + 1)
    BY <1>4 DEF SendRejected, Fault, chainVars
  <2>2. Accounted = 0
    BY <2>1 DEF Accounted
  <2> QED
    BY <1>0, <2>1, <2>2, OrphansStay
<1>5. CASE WaitForCommit
  <2>1. pc = "wait" /\ UNCHANGED <<hist, mempool, conf, faults>> /\ mempool[Target].status = "followed"
    BY <1>5 DEF WaitForCommit, chainVars
  <2>2. CASE mempool[Target].ok = TRUE
    <3>1. pc' = "sync" /\ sending' = sending
      BY <1>5, <2>2 DEF WaitForCommit
    <3>2. Accounted' = Accounted
      BY <2>1, <3>1 DEF Accounted, Target
    <3> QED
      BY <1>10, <2>1, <3>2 DEF OrphanInv
  <2>3. CASE mempool[Target].ok # TRUE
    <3>1. Accounted = 0
      BY <2>1, <2>3 DEF Accounted
    <3> QED
      BY <1>0, <2>1, <3>1, OrphansStay
  <2> QED
    BY <2>2, <2>3
<1>6. CASE GiveUpWaiting
  <2>1. UNCHANGED <<hist, mempool, conf>>
        /\ ((faults' = faults /\ mempool[Target].status = "none") \/ faults' = faults + 1)
    BY <1>6 DEF GiveUpWaiting, Fault, chainVars
  <2>2. mempool[Target].status = "none" => Accounted = 0
    BY DEF Accounted
  <2> QED
    BY <1>0, <2>1, <2>2, OrphansStay
<1>7. CASE RPCError \/ Crash
  <2>1. UNCHANGED <<hist, mempool, conf>> /\ faults' = faults + 1
    BY <1>7 DEF RPCError, Crash, Restart, Fault, chainVars
  <2> QED
    BY <1>0, <2>1, OrphansStay
<1>8. CASE Rerun
  <2>1. UNCHANGED <<hist, mempool, conf, faults>> /\ pc \in Ended
    BY <1>8 DEF Rerun, Restart, chainVars
  <2>2. Accounted = 0
    BY <2>1 DEF Accounted, Ended
  <2> QED
    BY <1>0, <2>1, <2>2, OrphansStay
<1>9. CASE UNCHANGED vars
  <2>1. UNCHANGED <<hist, mempool, conf, faults, pc, sending>>
    BY <1>9 DEF vars, chainVars
  <2>2. Accounted' = Accounted
    BY <2>1 DEF Accounted, Target
  <2> QED
    BY <1>10, <2>1, <2>2 DEF OrphanInv
<1> QED
  BY <1>1, <1>2, <1>3, <1>4, <1>5, <1>6, <1>7, <1>8, <1>9 DEF Next, CommandStep

\* At first every end is a known one.
LEMMA OrphanInit == Init => OrphanInv
<1> SUFFICES ASSUME Init PROVE OrphanInv
  OBVIOUS
<1>1. \A c \in Chains : \/ Latest(c) = EmptyStore
                        \/ Latest(c) = OneInit /\ conf[c] = 1
  BY ConstantTypes DEF Init, Latest
<1>2. Used(EmptyStore) = {} /\ Used(OneInit) \subseteq {1}
  BY DEF Used, EmptyStore, OneInit
<1>3. Unknown = {}
  BY <1>1, <1>2 DEF Unknown
<1>4. Cardinality(Unknown) = 0
  BY <1>3, FS_EmptySet
<1>5. Looming("src") = 0 /\ Looming("dst") = 0 /\ Accounted = 0 /\ faults = 0
  BY DEF Init, Looming, Accounted, NoTx, Chains
<1> QED
  BY <1>4, <1>5 DEF OrphanInv

\* Whatever is lost or retried, the ends that the configuration does not know of are at
\* most as many as the faults (and the one that is just being created).
THEOREM OrphansCorrect == Spec => []OrphansAreFaults
<1>1. CreatedInv /\ OrphanInv => OrphansAreFaults
  <2> SUFFICES ASSUME CreatedInv, OrphanInv PROVE OrphansAreFaults
    OBVIOUS
  <2>1. /\ Looming("src") \in {0, 1} /\ Looming("dst") \in {0, 1} /\ Accounted \in {0, 1}
        /\ faults \in Nat /\ Cardinality(Unknown) \in Nat
    BY OrphanTypes DEF CreatedInv, Chains
  <2>2. pc \notin {"wait", "sync"} => Accounted = 0
    BY DEF Accounted
  <2> QED
    BY <2>1, <2>2 DEF OrphanInv, OrphansAreFaults
<1>2. Init => CreatedInv /\ OrphanInv
  BY CreatedInit, OrphanInit
<1>3. CreatedInv /\ OrphanInv /\ [Next]_vars => (CreatedInv /\ OrphanInv)'
  BY CreatedStep, OrphanStep
<1> QED
  BY <1>1, <1>2, <1>3, PTL DEF Spec

-----------------------------------------------------------------------------
(* Without faults nothing fails *)

\* The configured end of chain c, as a query at its latest height finds it.
Current(c) == EndOf(Latest(c), conf[c])

InitEnd == [state |-> "INIT", cp |-> NoId]
TryEnd(c) == [state |-> "TRYOPEN", cp |-> conf[Other(c)]]
OpenEnd(c) == [state |-> "OPEN", cp |-> conf[Other(c)]]

\* The pairs of ends a handshake goes through, c being ahead of its counterparty.
PairAt(c) ==
    LET a == Current(c)
        b == Current(Other(c))
    IN  \/ a = NoEnd /\ b = NoEnd
        \/ a = InitEnd /\ b = NoEnd
        \/ a = TryEnd(c) /\ b = InitEnd
        \/ a = OpenEnd(c) /\ b = TryEnd(Other(c))
        \/ a = OpenEnd(c) /\ b = OpenEnd(Other(c))

BothOpen == \A c \in Chains : Current(c).state = "OPEN"

\* The message is the one the pair of ends calls for.
CalledFor(m) ==
    LET a == Current(m.to)
        b == Current(Other(m.to))
    IN  /\ m.own = conf[m.to] /\ m.cp = conf[Other(m.to)] /\ m.proven = b
        /\ m.msg # "init" => m.update = TRUE
        /\ \/ m.msg = "init" /\ a = NoEnd /\ b = NoEnd
           \/ m.msg = "try" /\ a = NoEnd /\ b = InitEnd
           \/ m.msg = "ack" /\ a = InitEnd /\ b = TryEnd(Other(m.to))
           \/ m.msg = "confirm" /\ a = TryEnd(m.to) /\ b = OpenEnd(Other(m.to))

\* The message has been chosen and has not changed the configured pair.
InHand ==
    \/ pc = "send"
    \/ pc = "wait" /\ mempool[Target].status = "pending"
    \/ pc \in {"wait", "sync"} /\ Generates(sending)

\* The end that the transaction of the command has generated.
NewEnd(m) == IF m.msg = "init" THEN InitEnd ELSE [state |-> "TRYOPEN", cp |-> m.cp]

\* A transaction is on its way only while the command waits for it; it succeeds.
NoStrayTx ==
    /\ \A c \in Chains :
          /\ mempool[c].status \in {"pending", "committed"} => pc = "wait" /\ Target = c
          /\ mempool[c].status # "committed" => hist[c][0] = hist[c][1]
    /\ pc \in {"wait", "sync"} =>
          /\ mempool[Target].status \in {"pending", "committed", "followed"}
          /\ mempool[Target].status # "pending" =>
                /\ mempool[Target].ok = TRUE
                /\ Generates(sending) => Latest(Target)[mempool[Target].id] = NewEnd(sending)

\* What the command has read is current, and what it has a header of can be proved.
ReadsAreCurrent ==
    \A c \in Chains :
        /\ HasRead(c) => seen[c] = Current(c)
        /\ sh[c].at = sh[c].proves

\* The command has not yet sent, and does not wait for, the last message.
GoesOn ==
    \/ pc \in {"headersSrc", "headersDst", "latestSrc", "latestDst", "choose"}
    \/ pc \in {"wait", "sync"} /\ sending.msg # "confirm"

\* The handshake is at one of its steps, and not over while the command goes on.
HandshakeGoesOn ==
    /\ \E c \in Chains : PairAt(c)
    /\ GoesOn => ~BothOpen
    /\ InHand => CalledFor(sending)

\* What holds as long as there was no fault, ...
CleanParts ==
    /\ failed = 0 /\ pc \notin {"failed", "panicked"}
    /\ NoStrayTx
    /\ ReadsAreCurrent
    /\ HandshakeGoesOn

\* ... together with what holds anyway.
CleanNow == CreatedInv /\ OrphanInv /\ CleanParts

\* The invariant of a command without faults.
CleanInv == faults = 0 => CleanParts

\* While chains and configuration stay, so does the pair.
LEMMA PairKept ==
    ASSUME TypeOK, \A c \in Chains : Latest(c)' = Latest(c), conf' = conf
    PROVE  /\ \A c \in Chains : Current(c)' = Current(c) /\ PairAt(c)' = PairAt(c)
           /\ BothOpen' <=> BothOpen
           /\ \A m \in Msg : CalledFor(m)' <=> CalledFor(m)
<1>1. \A c \in Chains : /\ Current(c)' = Current(c) /\ Other(c) \in Chains
                        /\ TryEnd(c)' = TryEnd(c) /\ OpenEnd(c)' = OpenEnd(c)
  BY DEF Current, Other, Chains, TryEnd, OpenEnd
<1>2. \A c \in Chains : PairAt(c)' = PairAt(c)
  BY <1>1 DEF PairAt
<1>3. BothOpen' <=> BothOpen
  BY <1>1 DEF BothOpen
<1>4. \A m \in Msg : m.to \in Chains /\ Other(m.to) \in Chains
  BY <1>1 DEF Msg
<1>5. \A m \in Msg : CalledFor(m)' <=> CalledFor(m)
  BY <1>1, <1>4 DEF CalledFor
<1> QED
  BY <1>1, <1>2, <1>3, <1>5

\* The chain accepts the message the pair calls for.
LEMMA CalledIsAccepted ==
    ASSUME NEW m \in Msg, CalledFor(m)
    PROVE  Accepted(Latest(m.to), m)
<1>1. m.to \in Chains /\ Other(Other(m.to)) = m.to
  BY DEF Msg, Other, Chains
<1>2. EndOf(Latest(m.to), m.own) = Current(m.to)
  BY DEF CalledFor, Current
<1>3. m.msg # "init" => m.update
  BY DEF CalledFor
<1>4. CASE m.msg = "init"
  BY <1>4 DEF Accepted
<1>5. CASE m.msg = "try"
  BY <1>3, <1>5 DEF Accepted, CalledFor, InitEnd
<1>6. CASE m.msg = "ack"
  BY <1>1, <1>2, <1>3, <1>6 DEF Accepted, CalledFor, InitEnd, TryEnd
<1>7. CASE m.msg = "confirm"
  <2>1. Current(m.to) = TryEnd(m.to) /\ m.proven = OpenEnd(Other(m.to))
        /\ m.own = conf[m.to] /\ m.cp = conf[Other(m.to)]
    BY <1>7 DEF CalledFor
  <2> QED
    BY <1>1, <1>2, <1>3, <1>7, <2>1 DEF Accepted, TryEnd, OpenEnd
<1> QED
  BY <1>4, <1>5, <1>6, <1>7 DEF CalledFor

\* The pair that the command has read, with the state of each end.
LEMMA PairStates ==
    ASSUME NEW c \in Chains, PairAt(c), ~BothOpen
    PROVE  LET a == Current(c).state
               b == Current(Other(c)).state
           IN \/ a = "UNINITIALIZED" /\ b = "UNINITIALIZED" /\ Current(c) = NoEnd /\ Current(Other(c)) = NoEnd
              \/ a = "INIT" /\ b = "UNINITIALIZED" /\ Current(c) = InitEnd /\ Current(Other(c)) = NoEnd
              \/ a = "TRYOPEN" /\ b = "INIT" /\ Current(c) = TryEnd(c) /\ Current(Other(c)) = InitEnd
              \/ a = "OPEN" /\ b = "TRYOPEN" /\ Current(c) = OpenEnd(c) /\ Current(Other(c)) = TryEnd(Other(c))
<1>1. NoEnd.state = "UNINITIALIZED" /\ InitEnd.state = "INIT"
      /\ \A d : TryEnd(d).state = "TRYOPEN" /\ OpenEnd(d).state = "OPEN"
  BY DEF NoEnd, InitEnd, TryEnd, OpenEnd
<1>2. ~(Current(c).state = "OPEN" /\ Current(Other(c)).state = "OPEN")
  BY DEF BothOpen, Other, Chains
<1> QED
  BY <1>1, <1>2 DEF PairAt

\* Every such pair is a case of the switch, so that the command does not panic.
LEMMA SomeStepMatches ==
    ASSUME NEW c \in Chains, PairAt(c), ~BothOpen
    PROVE  \E s \in Steps : s.src = Current("src").state /\ s.dst = Current("dst").state
<1>1. /\ \E s \in Steps : s.src = "UNINITIALIZED" /\ s.dst = "UNINITIALIZED"
      /\ \E s \in Steps : s.src = "UNINITIALIZED" /\ s.dst = "INIT"
      /\ \E s \in Steps : s.src = "INIT" /\ s.dst = "UNINITIALIZED"
      /\ \E s \in Steps : s.src = "TRYOPEN" /\ s.dst = "INIT"
      /\ \E s \in Steps : s.src = "INIT" /\ s.dst = "TRYOPEN"
      /\ \E s \in Steps : s.src = "TRYOPEN" /\ s.dst = "OPEN"
      /\ \E s \in Steps : s.src = "OPEN" /\ s.dst = "TRYOPEN"
  BY DEF Steps, ConnectionSteps, ChannelSteps, Step
<1>2. CASE c = "src"
  <2>1. Other(c) = "dst"
    BY <1>2 DEF Other
  <2> QED
    BY <1>1, <1>2, <2>1, PairStates
<1>3. CASE c = "dst"
  <2>1. Other(c) = "src"
    BY <1>3 DEF Other
  <2> QED
    BY <1>1, <1>3, <2>1, PairStates
<1> QED
  BY <1>2, <1>3 DEF Chains

\* The message that a settled round builds is the one the pair calls for.
LEMMA BuiltIsCalledFor ==
    ASSUME CreatedInv, BuildMsg, ReadsAreCurrent, ~BothOpen, NEW c \in Chains, PairAt(c)
    PROVE  CalledFor(sending')
<1>1. pc = "choose" /\ \A d \in Chains : seen[d] = Current(d)
  BY DEF BuildMsg, ReadsAreCurrent, HasRead
<1>2. /\ sending'.to \in Chains
      /\ sending'.own = conf[sending'.to] /\ sending'.cp = conf[Other(sending'.to)]
      /\ sending'.proven = Current(Other(sending'.to))
      /\ sending'.msg # "init" => sending'.update = TRUE
  BY <1>1, Built DEF Target, Other, Chains
<1>3. PICK s \in Steps : /\ s.src = Current("src").state /\ s.dst = Current("dst").state
                         /\ s.msg = sending'.msg /\ s.to = sending'.to
  BY <1>1, Built DEF Target, Chains
<1>4. \/ s.src = "UNINITIALIZED" /\ s.dst = "UNINITIALIZED" /\ s.to = "src" /\ s.msg = "init"
      \/ s.src = "UNINITIALIZED" /\ s.dst = "INIT" /\ s.to = "src" /\ s.msg = "try"
      \/ s.src = "INIT" /\ s.dst = "UNINITIALIZED" /\ s.to = "dst" /\ s.msg = "try"
      \/ s.src = "TRYOPEN" /\ s.dst = "INIT" /\ s.to = "dst" /\ s.msg = "ack"
      \/ s.src = "INIT" /\ s.dst = "TRYOPEN" /\ s.to = "src" /\ s.msg = "ack"
      \/ s.src = "TRYOPEN" /\ s.dst = "OPEN" /\ s.to = "src" /\ s.msg = "confirm"
      \/ s.src = "OPEN" /\ s.dst = "TRYOPEN" /\ s.to = "dst" /\ s.msg = "confirm"
  <2>1. s \in Steps
    BY <1>3
  <2> QED
    BY <2>1, StepTable DEF Step
<1> DEFINE a == Current(sending'.to)
           b == Current(Other(sending'.to))
           Right == \/ s.msg = "init" /\ a = NoEnd /\ b = NoEnd
                    \/ s.msg = "try" /\ a = NoEnd /\ b = InitEnd
                    \/ s.msg = "ack" /\ a = InitEnd /\ b = TryEnd(Other(sending'.to))
                    \/ s.msg = "confirm" /\ a = TryEnd(sending'.to) /\ b = OpenEnd(Other(sending'.to))
<1>5. Right
  <2>1. Other("src") = "dst" /\ Other("dst") = "src"
    BY DEF Other
  <2>2. CASE c = "src"
    <3>1. PairAt("src") /\ "src" \in Chains
      BY <2>2
    <3>2. \/ Current("src").state = "UNINITIALIZED" /\ Current("dst").state = "UNINITIALIZED"
             /\ Current("src") = NoEnd /\ Current("dst") = NoEnd
          \/ Current("src").state = "INIT" /\ Current("dst").state = "UNINITIALIZED"
             /\ Current("src") = InitEnd /\ Current("dst") = NoEnd
          \/ Current("src").state = "TRYOPEN" /\ Current("dst").state = "INIT"
             /\ Current("src") = TryEnd("src") /\ Current("dst") = InitEnd
          \/ Current("src").state = "OPEN" /\ Current("dst").state = "TRYOPEN"
             /\ Current("src") = OpenEnd("src") /\ Current("dst") = TryEnd("dst")
      BY <2>1, <3>1, PairStates
    <3> QED
      BY <1>3, <1>4, <2>1, <3>2
  <2>3. CASE c = "dst"
    <3>1. PairAt("dst") /\ "dst" \in Chains
      BY <2>3
    <3>2. \/ Current("dst").state = "UNINITIALIZED" /\ Current("src").state = "UNINITIALIZED"
             /\ Current("dst") = NoEnd /\ Current("src") = NoEnd
          \/ Current("dst").state = "INIT" /\ Current("src").state = "UNINITIALIZED"
             /\ Current("dst") = InitEnd /\ Current("src") = NoEnd
          \/ Current("dst").state = "TRYOPEN" /\ Current("src").state = "INIT"
             /\ Current("dst") = TryEnd("dst") /\ Current("src") = InitEnd
          \/ Current("dst").state = "OPEN" /\ Current("src").state = "TRYOPEN"
             /\ Current("dst") = OpenEnd("dst") /\ Current("src") = TryEnd("src")
      BY <2>1, <3>1, PairStates
    <3> QED
      BY <1>3, <1>4, <2>1, <3>2
  <2> QED
    BY <2>2, <2>3 DEF Chains
<1> QED
  BY <1>2, <1>3, <1>5 DEF CalledFor

\* A step of the command away from transactions and the configuration file.
LEMMA CleanCommand ==
    ASSUME CleanNow, TypeOK', UNCHANGED <<hist, mempool, conf, failed>>,
           pc \notin {"wait", "sync"}, pc' \notin {"wait", "sync", "failed", "panicked"},
           ReadsAreCurrent', GoesOn' => ~BothOpen, pc' = "send" => CalledFor(sending')
    PROVE  CleanParts'
<1> USE DEF CleanNow, CleanParts
<1>1. \A c \in Chains : Latest(c)' = Latest(c)
  BY DEF Latest
<1>2. TypeOK
  BY DEF CreatedInv
<1>3. NoStrayTx'
  BY DEF NoStrayTx
<1>4. (\E c \in Chains : PairAt(c))' /\ (GoesOn => ~BothOpen)'
  BY <1>1, <1>2, PairKept DEF HandshakeGoesOn
<1>5. InHand' => pc' = "send"
  BY DEF InHand
<1>6. ASSUME pc' = "send" PROVE CalledFor(sending)'
  <2>1. sending' \in Msg /\ CalledFor(sending')
    BY <1>6 DEF TypeOK
  <2>2. sending'.to \in Chains /\ Other(sending'.to) \in Chains
    BY <2>1 DEF Msg, Other, Chains
  <2>3. \A d \in Chains : Current(d)' = Current(d) /\ TryEnd(d)' = TryEnd(d) /\ OpenEnd(d)' = OpenEnd(d)
    BY <1>1 DEF Current, TryEnd, OpenEnd
  <2> QED
    BY <2>1, <2>2, <2>3 DEF CalledFor
<1>7. HandshakeGoesOn'
  BY <1>4, <1>5, <1>6 DEF HandshakeGoesOn
<1> QED
  BY <1>3, <1>7

\* Reading the two ends, when nothing can change them, reads the current pair.
LEMMA CleanReading ==
    ASSUME CleanNow, ReadySrc \/ ReadyDst \/ LatestSrc \/ LatestDst
    PROVE  CleanParts'
<1> USE DEF CleanNow, CleanParts
<1>1. TypeOK /\ TypeOK' /\ UNCHANGED <<hist, mempool, path, conf, sh, sending, failed>>
  BY TypeStep DEF CreatedInv, Next, CommandStep, ReadySrc, ReadyDst, LatestSrc, LatestDst, chainVars
<1>2. \A c \in Chains : Current(c)' = Current(c) /\ Current(c) = EndOf(Latest(c), conf[c])
  BY <1>1 DEF Latest, Current
<1>3. CASE ReadySrc \/ LatestSrc
  <2>1. seen' = [seen EXCEPT !["src"] = Current("src")] /\ pc \notin {"wait", "sync"}
        /\ ((pc = "readySrc" /\ pc' = "readyDst") \/ (pc = "latestSrc" /\ pc' = "latestDst"))
    BY <1>3 DEF ReadySrc, LatestSrc, Current
  <2>2. seen'["src"] = Current("src")
    BY <1>1, <2>1 DEF TypeOK, Chains
  <2>3. ReadsAreCurrent'
    BY <1>1, <1>2, <2>1, <2>2 DEF ReadsAreCurrent, HasRead
  <2>4. GoesOn' => ~BothOpen
    BY <2>1 DEF GoesOn, HandshakeGoesOn
  <2> QED
    BY <1>1, <2>1, <2>3, <2>4, CleanCommand
<1>4. CASE LatestDst
  <2>1. seen' = [seen EXCEPT !["dst"] = Current("dst")] /\ pc = "latestDst" /\ pc' = "choose"
    BY <1>4 DEF LatestDst, Current
  <2>2. seen'["dst"] = Current("dst") /\ seen'["src"] = Current("src")
    BY <1>1, <2>1 DEF TypeOK, Chains, ReadsAreCurrent, HasRead
  <2>3. ReadsAreCurrent'
    BY <1>1, <1>2, <2>1, <2>2 DEF ReadsAreCurrent, HasRead, Chains
  <2>4. GoesOn' => ~BothOpen
    BY <2>1 DEF GoesOn, HandshakeGoesOn
  <2> QED
    BY <1>1, <2>1, <2>3, <2>4, CleanCommand
<1>5. CASE ReadyDst
  <2> DEFINE ends == [seen EXCEPT !["dst"] = EndOf(Latest("dst"), conf["dst"])]
  <2>1. pc = "readyDst" /\ pc' \in {"failed", "created", "headersSrc"} /\ seen' = NoEnds
    BY <1>5 DEF ReadyDst
  <2>2. \A c \in Chains : ends[c] = Current(c)
    BY <1>1, <1>2, <2>1 DEF TypeOK, Chains, ReadsAreCurrent, HasRead
  <2>3. \A c \in Chains : conf[c] # NoId => ends[c].state # "UNINITIALIZED"
    BY <1>2, <2>2, ReadIsTrue
  <2>4. pc' = IF \A c \in Chains : ends[c].state = "OPEN" THEN "created" ELSE "headersSrc"
    BY <1>5, <2>3 DEF ReadyDst
  <2>5. pc' = "headersSrc" => ~BothOpen
    BY <2>2, <2>4 DEF BothOpen
  <2>6. ReadsAreCurrent'
    BY <1>1, <2>1 DEF ReadsAreCurrent, HasRead
  <2>7. pc' \notin {"wait", "sync", "failed", "panicked", "send"}
    BY <2>4
  <2>8. GoesOn' => ~BothOpen
    BY <2>1, <2>5 DEF GoesOn
  <2> QED
    BY <1>1, <2>1, <2>6, <2>7, <2>8, CleanCommand
<1> QED
  BY <1>3, <1>4, <1>5

\* Headers of quiet chains prove what they show.
LEMMA CleanHeaders ==
    ASSUME CleanNow, HeadersSrc \/ HeadersDst \/ WaitForSettlement
    PROVE  CleanParts'
<1> USE DEF CleanNow, CleanParts
<1>1. TypeOK /\ TypeOK' /\ UNCHANGED <<hist, mempool, path, conf, sending, failed>>
      /\ pc \in {"headersSrc", "headersDst", "choose"} /\ pc' \in {"headersDst", "latestSrc", "headersSrc"}
  BY TypeStep DEF CreatedInv, Next, CommandStep, HeadersSrc, HeadersDst, WaitForSettlement, chainVars
<1>2. \A c \in Chains : FinalizedHeader(c).at = FinalizedHeader(c).proves
  BY <1>1 DEF FinalizedHeader, NoStrayTx
<1>3. \A c \in Chains : NoHeaders[c].at = NoHeaders[c].proves
  BY DEF NoHeaders
<1>4. \A c \in Chains : sh'[c] \in {sh[c], NoHeaders[c], FinalizedHeader(c)}
  BY <1>1, ConstantTypes DEF HeadersSrc, HeadersDst, WaitForSettlement, TypeOK, Chains
<1>5. ReadsAreCurrent'
  BY <1>1, <1>2, <1>3, <1>4 DEF ReadsAreCurrent, HasRead
<1>6. ~BothOpen
  BY <1>1 DEF HandshakeGoesOn, GoesOn
<1> QED
  BY <1>1, <1>5, <1>6, CleanCommand

\* A settled round builds the message the pair calls for; it neither panics nor fails.
LEMMA CleanBuild ==
    ASSUME CleanNow, BuildMsg \/ Panic \/ BuildError
    PROVE  CleanParts'
<1> USE DEF CleanNow, CleanParts
<1>1. TypeOK /\ pc = "choose" /\ Settled
  BY DEF CreatedInv, BuildMsg, Panic, BuildError
<1>2. ~BothOpen /\ \E c \in Chains : PairAt(c)
  BY <1>1 DEF HandshakeGoesOn, GoesOn
<1>3. PICK c \in Chains : PairAt(c)
  BY <1>2
<1>4. \A d \in Chains : seen[d] = Current(d) /\ FinalizedEnd(d) = seen[d]
  BY <1>1 DEF ReadsAreCurrent, HasRead, Settled
<1>5. ~Panic
  <2>1. PICK s \in Steps : s.src = Current("src").state /\ s.dst = Current("dst").state
    BY <1>2, <1>3, SomeStepMatches
  <2>2. s \in Matching
    BY <1>4, <2>1 DEF Matching, Chains
  <2> QED
    BY <2>2 DEF Panic
<1>6. ~BuildError
  <2>1. \A d \in Chains : Other(d) \in Chains /\ Provable(d)
    BY DEF Provable, FinalizedEnd, ReadsAreCurrent, Other, Chains
  <2>2. \A s \in Matching : s.to \in Chains
    BY StepFields DEF Matching
  <2> QED
    BY <2>1, <2>2 DEF BuildError
<1>7. BuildMsg
  BY <1>5, <1>6
<1>8. TypeOK' /\ UNCHANGED <<hist, mempool, path, conf, failed>> /\ sh' = NoHeaders
      /\ pc' = "send" /\ seen' = NoEnds
  BY <1>1, <1>7, TypeStep DEF Next, CommandStep, BuildMsg, chainVars
<1>9. CalledFor(sending')
  BY <1>2, <1>3, <1>7, BuiltIsCalledFor
<1>10. ReadsAreCurrent'
  BY <1>8 DEF ReadsAreCurrent, HasRead, NoHeaders
<1>11. GoesOn' => ~BothOpen
  BY <1>2
<1> QED
  BY <1>1, <1>8, <1>9, <1>10, <1>11, CleanCommand

\* The message is accepted for broadcast, and the command waits for it.
LEMMA CleanBroadcast ==
    ASSUME CleanNow, Broadcast
    PROVE  CleanParts'
<1> USE DEF CleanNow, CleanParts
<1>1. TypeOK /\ TypeOK' /\ UNCHANGED <<hist, path, conf, sh, seen, sending, failed>>
      /\ pc' = "wait" /\ pc = "send"
  BY TypeStep DEF CreatedInv, Next, CommandStep, Broadcast
<1>2. Target \in Chains /\ Target' = Target /\ sending \in Msg
  BY <1>1 DEF Target, TypeOK, Msg
<1>3. /\ mempool'[Target] = [status |-> "pending", msg |-> sending, ok |-> FALSE, id |-> NoId]
      /\ \A d \in Chains : d # Target => mempool'[d] = mempool[d]
  BY <1>1, <1>2 DEF Broadcast, TypeOK
<1>4. \A d \in Chains : mempool[d].status \notin {"pending", "committed"} /\ hist[d][0] = hist[d][1]
  BY <1>1 DEF NoStrayTx
<1>5. NoStrayTx'
  BY <1>1, <1>2, <1>3, <1>4 DEF NoStrayTx
<1>6. \A c \in Chains : Latest(c)' = Latest(c)
  BY <1>1 DEF Latest
<1>7. ReadsAreCurrent'
  BY <1>1 DEF ReadsAreCurrent, HasRead
<1>8. CalledFor(sending)
  BY <1>1 DEF HandshakeGoesOn, InHand
<1>9. sending.msg # "confirm" => ~BothOpen
  <2>1. sending.to \in Chains
    BY <1>2 DEF Msg
  <2>2. sending.msg # "confirm" => Current(sending.to) \in {NoEnd, InitEnd}
    BY <1>8 DEF CalledFor
  <2> QED
    BY <2>1, <2>2 DEF BothOpen, NoEnd, InitEnd
<1>10. (\E c \in Chains : PairAt(c))' /\ (CalledFor(sending))' /\ (BothOpen' <=> BothOpen)
  BY <1>1, <1>2, <1>6, <1>8, PairKept DEF HandshakeGoesOn
<1>11. HandshakeGoesOn'
  BY <1>1, <1>9, <1>10 DEF HandshakeGoesOn, GoesOn
<1> QED
  BY <1>1, <1>5, <1>7, <1>11

\* Nothing is rejected and nothing given up, but by a fault.
LEMMA CleanSend ==
    ASSUME CleanNow, SendRejected \/ GiveUpWaiting, faults' = 0, faults = 0
    PROVE  FALSE
<1> USE DEF CleanNow, CleanParts
<1>1. TypeOK
  BY DEF CreatedInv
<1>2. ~Fault
  BY DEF Fault
<1>3. CASE SendRejected
  <2>1. pc = "send" /\ (mempool[Target].status = "pending" \/ ~Accepted(Latest(Target), sending))
    BY <1>2, <1>3 DEF SendRejected
  <2>2. sending \in Msg /\ Target \in Chains /\ CalledFor(sending)
    BY <1>1, <2>1 DEF TypeOK, Target, Msg, HandshakeGoesOn, InHand
  <2>3. mempool[Target].status # "pending"
    BY <2>1, <2>2 DEF NoStrayTx
  <2>4. Accepted(Latest(Target), sending)
    BY <2>2, CalledIsAccepted DEF Target
  <2> QED
    BY <2>1, <2>3, <2>4
<1>4. CASE GiveUpWaiting
  BY <1>2, <1>4 DEF GiveUpWaiting, NoStrayTx
<1> QED
  BY <1>3, <1>4

\* The transaction that was waited for is successful.
LEMMA CleanCommit ==
    ASSUME CleanNow, WaitForCommit
    PROVE  CleanParts'
<1> USE DEF CleanNow, CleanParts
<1>1. TypeOK /\ TypeOK' /\ UNCHANGED <<hist, mempool, path, conf, sh, seen>>
      /\ pc = "wait" /\ mempool[Target].status = "followed"
  BY TypeStep DEF CreatedInv, Next, CommandStep, WaitForCommit, chainVars
<1>2. mempool[Target].ok = TRUE
  BY <1>1 DEF NoStrayTx
<1>3. pc' = "sync" /\ sending' = sending /\ failed' = failed
  BY <1>1, <1>2 DEF WaitForCommit
<1>4. Target \in Chains /\ Target' = Target /\ sending \in Msg
  BY <1>1, <1>3 DEF Target, TypeOK, Msg
<1>5. \A c \in Chains : Latest(c)' = Latest(c)
  BY <1>1 DEF Latest
<1>6. \A d \in Chains : mempool[d].status \notin {"pending", "committed"}
  BY <1>1, <1>4 DEF NoStrayTx
<1>7. NoStrayTx'
  BY <1>1, <1>3, <1>4, <1>5, <1>6 DEF NoStrayTx, NewEnd
<1>8. ReadsAreCurrent'
  BY <1>1, <1>3 DEF ReadsAreCurrent, HasRead
<1>9. /\ (\E c \in Chains : PairAt(c))' /\ (BothOpen' <=> BothOpen)
      /\ (CalledFor(sending)' <=> CalledFor(sending))
  BY <1>1, <1>3, <1>4, <1>5, PairKept DEF HandshakeGoesOn
<1>10. (GoesOn' => GoesOn) /\ (InHand' => InHand)
  BY <1>1, <1>3 DEF GoesOn, InHand
<1>11. HandshakeGoesOn'
  BY <1>9, <1>10 DEF HandshakeGoesOn
<1> QED
  BY <1>1, <1>3, <1>7, <1>8, <1>11

\* A block without a transaction settles the one before it.
LEMMA CleanNewBlock ==
    ASSUME CleanNow, NEW c \in Chains, NewBlock(c)
    PROVE  CleanParts'
<1> USE DEF CleanNow, CleanParts
<1>1. TypeOK /\ TypeOK' /\ UNCHANGED <<path, conf, pc, sh, seen, sending, failed>>
      /\ AddBlock(c, Latest(c))
  BY TypeStep DEF CreatedInv, Next, NewBlock
<1>2. \A d \in Chains : Latest(d)' = Latest(d)
  BY <1>1, BlockEffect
<1>3. Target \in Chains /\ Target' = Target /\ sending \in Msg
  BY <1>1 DEF Target, TypeOK, Msg
<1>4. \A d \in Chains : /\ mempool'[d].ok = mempool[d].ok /\ mempool'[d].id = mempool[d].id
                        /\ mempool'[d].status \in
                              {mempool[d].status, IF mempool[d].status = "committed" THEN "followed"
                                                  ELSE mempool[d].status}
  BY <1>1 DEF NewBlock, TypeOK, Tx
<1>5. ASSUME NEW d \in Chains, mempool'[d].status # "committed" PROVE hist'[d][0] = hist'[d][1]
  <2>1. CASE d = c
    BY <1>1, <1>2, <2>1, BlockEffect DEF Latest
  <2>2. CASE d # c
    <3>1. hist'[d] = hist[d]
      BY <1>1, <2>2, BlockEffect
    <3>2. mempool'[d] = mempool[d]
      BY <1>1, <2>2 DEF NewBlock, TypeOK
    <3> QED
      BY <1>5, <3>1, <3>2 DEF NoStrayTx
  <2> QED
    BY <2>1, <2>2
<1>6. NoStrayTx'
  BY <1>1, <1>2, <1>3, <1>4, <1>5 DEF NoStrayTx, NewEnd
<1>7. /\ \A d \in Chains : Current(d)' = Current(d)
      /\ (\E d \in Chains : PairAt(d))' /\ (BothOpen' <=> BothOpen)
      /\ (CalledFor(sending)' <=> CalledFor(sending))
  BY <1>1, <1>2, <1>3, PairKept DEF HandshakeGoesOn
<1>8. ReadsAreCurrent'
  BY <1>1, <1>7 DEF ReadsAreCurrent, HasRead
<1>9. (GoesOn' => GoesOn) /\ (InHand' => InHand)
  BY <1>1, <1>3, <1>4 DEF GoesOn, InHand
<1>10. HandshakeGoesOn'
  BY <1>7, <1>9 DEF HandshakeGoesOn
<1> QED
  BY <1>1, <1>6, <1>8, <1>10

\* The transaction that is waited for is executed, with the effect it was built for.
LEMMA CleanExec ==
    ASSUME CleanNow, faults = 0, NEW c \in Chains, ExecTx(c)
    PROVE  CleanParts'
<1> USE DEF CleanNow, CleanParts
<1> DEFINE m == mempool[c].msg
           t == mempool'[c]
<1>1. TypeOK /\ TypeOK' /\ UNCHANGED <<path, conf, pc, sh, seen, sending, failed>>
      /\ mempool[c].status = "pending"
  BY TypeStep DEF CreatedInv, Next, ExecTx
<1>2. pc = "wait" /\ Target = c /\ Target' = c /\ sending.to = c /\ sending \in Msg
  BY <1>1 DEF NoStrayTx, Target, TypeOK
<1>3. m = sending
  BY <1>1, <1>2 DEF CreatedInv, TxKnown
<1>4. CalledFor(sending) /\ Accepted(Latest(c), m)
  <2>1. CalledFor(sending)
    BY <1>1, <1>2 DEF HandshakeGoesOn, InHand
  <2> QED
    BY <1>2, <1>3, <2>1, CalledIsAccepted
<1>5. Generates(m) => NextId(Latest(c)) \in Ids
  <2> SUFFICES ASSUME Generates(m) PROVE NextId(Latest(c)) \in Ids
    OBVIOUS
  <2>1. Looming(c) = 1 /\ Accounted = 1
    BY <1>1, <1>2, <1>3 DEF Looming, Accounted
  <2>2. Looming("src") \in {0, 1} /\ Looming("dst") \in {0, 1} /\ Cardinality(Unknown) \in Nat
    BY <1>1, OrphanTypes DEF Chains
  <2>3. Looming("src") = 1 \/ Looming("dst") = 1
    BY <2>1 DEF Chains
  <2>4. Cardinality(Unknown) = 0
    BY <2>1, <2>2, <2>3 DEF OrphanInv
  <2>5. Unknown = {}
    BY <2>4, UnknownIs, FS_EmptySet
  <2>6. conf[c] = NoId
    BY <1>2, <1>3 DEF CreatedInv, MsgsFit, MsgFits
  <2>7. Used(Latest(c)) = {}
    <3>1. \A i \in Used(Latest(c)) : i \in Ids /\ i # conf[c]
      BY <2>6, ConstantTypes DEF Used
    <3>2. \A i \in Used(Latest(c)) : <<c, i>> \in Unknown
      BY <3>1 DEF Unknown
    <3> QED
      BY <2>5, <3>2
  <2>8. NextId(Latest(c)) = 1
    BY <2>7, FS_EmptySet DEF NextId
  <2> QED
    BY <2>8, ConstantTypes
<1>6. t.ok = TRUE
  BY <1>1, <1>4, <1>5 DEF ExecTx, TypeOK
<1>7. /\ t.status = "committed"
      /\ \A d \in Chains : d # c => mempool'[d] = mempool[d]
      /\ Generated(c, m, t) \/ Opened(c, m, t)
  BY <1>6, ExecEffect DEF CreatedInv, Refused
<1>8. \A d \in Chains : d # c => hist'[d] = hist[d] /\ Latest(d)' = Latest(d)
  BY <1>1, BlockEffect DEF ExecTx
<1>9. Other(c) \in Chains /\ Other(c) # c /\ Other(Other(c)) = c
  BY DEF Other, Chains
<1>10. Current(Other(c))' = Current(Other(c))
  BY <1>1, <1>8, <1>9 DEF Current
<1>11. Latest(c) \in Store
  BY <1>1, HeaderType
<1>12. Generates(sending) => Latest(c)'[t.id] = NewEnd(sending)
  <2>1. Generated(c, m, t) => Latest(c)'[t.id] = NewEnd(m)
    BY <1>11 DEF Generated, NewEnd, Store, InitEnd
  <2>2. Opened(c, m, t) => ~Generates(m)
    BY DEF Opened, Generates
  <2> QED
    BY <1>3, <1>7, <2>1, <2>2
<1>13. NoStrayTx'
  <2>1. Latest(Target)'[mempool'[Target'].id] = Latest(c)'[t.id] /\ NewEnd(sending)' = NewEnd(sending)
    BY <1>1, <1>2 DEF NewEnd, Latest
  <2>2. \A d \in Chains : d # c => mempool'[d].status \notin {"pending", "committed"}
                                   /\ hist'[d][0] = hist'[d][1]
    BY <1>2, <1>7, <1>8 DEF NoStrayTx
  <2> QED
    BY <1>1, <1>2, <1>6, <1>7, <1>12, <2>1, <2>2 DEF NoStrayTx
<1>14. ReadsAreCurrent'
  BY <1>1, <1>2 DEF ReadsAreCurrent, HasRead
<1>15. \A d \in Chains : TryEnd(d)' = TryEnd(d) /\ OpenEnd(d)' = OpenEnd(d)
  BY <1>1 DEF TryEnd, OpenEnd
<1>16. CASE Generated(c, m, t)
  <2>1. Current(c)' = Current(c)
    BY <1>1, <1>16 DEF Generated, Current, EndOf
  <2>2. \A d \in Chains : Current(d)' = Current(d)
    BY <1>9, <1>10, <2>1 DEF Chains
  <2>3. (\E d \in Chains : PairAt(d))'
    <3>1. PICK d \in Chains : PairAt(d)
      BY DEF HandshakeGoesOn
    <3>2. Other(d) \in Chains
      BY DEF Other, Chains
    <3>3. PairAt(d)'
      BY <1>15, <2>2, <3>1, <3>2 DEF PairAt
    <3> QED
      BY <3>3
  <2>4. sending.msg # "confirm" /\ ~BothOpen'
    <3>1. sending.msg # "confirm"
      BY <1>3, <1>16 DEF Generated, Generates
    <3>2. ~BothOpen
      BY <1>2, <3>1 DEF HandshakeGoesOn, GoesOn
    <3> QED
      BY <2>2, <3>1, <3>2 DEF BothOpen
  <2>5. CalledFor(sending)'
    BY <1>1, <1>2, <1>4, <1>9, <1>15, <2>2 DEF CalledFor
  <2>6. HandshakeGoesOn'
    BY <2>3, <2>4, <2>5 DEF HandshakeGoesOn
  <2> QED
    BY <1>1, <1>13, <1>14, <2>6
<1>17. CASE Opened(c, m, t)
  <2>1. conf[c] \in Ids /\ conf[c] # NoId /\ m.msg \in {"ack", "confirm"}
    BY <1>17, ConstantTypes DEF Opened
  <2>2. Current(c)' = OpenEnd(c)'
    BY <1>1, <1>11, <1>17, <2>1 DEF Opened, Current, EndOf, OpenEnd, Store
  <2>3. CASE m.msg = "ack"
    <3>1. Current(Other(c)) = TryEnd(Other(c))
      BY <1>2, <1>3, <1>4, <2>3 DEF CalledFor
    <3>2. PairAt(c)'
      BY <1>9, <1>10, <1>15, <2>2, <3>1 DEF PairAt
    <3>3. ~BothOpen'
      BY <1>9, <1>10, <3>1 DEF BothOpen, TryEnd
    <3>4. ~InHand'
      BY <1>1, <1>2, <1>3, <1>7, <2>3 DEF InHand, Generates
    <3>5. HandshakeGoesOn'
      BY <3>2, <3>3, <3>4 DEF HandshakeGoesOn
    <3> QED
      BY <1>1, <1>13, <1>14, <3>5
  <2>4. CASE m.msg = "confirm"
    <3>1. Current(Other(c)) = OpenEnd(Other(c))
      BY <1>2, <1>3, <1>4, <2>4 DEF CalledFor
    <3>2. PairAt(c)'
      BY <1>9, <1>10, <1>15, <2>2, <3>1 DEF PairAt
    <3>3. ~GoesOn' /\ ~InHand'
      BY <1>1, <1>2, <1>3, <1>7, <2>4 DEF GoesOn, InHand, Generates
    <3>4. HandshakeGoesOn'
      BY <3>2, <3>3 DEF HandshakeGoesOn
    <3> QED
      BY <1>1, <1>13, <1>14, <3>4
  <2> QED
    BY <2>1, <2>3, <2>4
<1> QED
  BY <1>7, <1>16, <1>17

\* The generated end becomes the configured one, and the next step of the handshake is due.
LEMMA CleanSync ==
    ASSUME CleanNow, Sync
    PROVE  CleanParts'
<1> USE DEF CleanNow, CleanParts
<1> DEFINE id == mempool[Target].id
<1>1. TypeOK /\ TypeOK' /\ UNCHANGED <<hist, mempool, path, sh, seen, faults>> /\ pc = "sync"
      /\ pc' = (IF sending.last THEN "created" ELSE "headersSrc") /\ sending' = NoMsg /\ failed' = 0
  BY TypeStep DEF CreatedInv, Next, CommandStep, Sync, chainVars
<1>2. Target \in Chains /\ Target = sending.to /\ id \in Ids \cup {NoId} /\ sending \in Msg
      /\ Other(Target) \in Chains /\ Other(Target) # Target /\ Other(Other(Target)) = Target
  BY <1>1 DEF Target, TypeOK, Msg, Tx, Other, Chains
<1>3. mempool[Target].status = "followed" /\ OutcomeHolds(mempool[Target])
  BY <1>1 DEF CreatedInv, TxKnown
<1>4. \A c \in Chains : mempool[c].status \notin {"pending", "committed"} /\ hist[c][0] = hist[c][1]
  BY <1>1 DEF NoStrayTx
<1>5. pc' = IF sending.msg = "confirm" THEN "created" ELSE "headersSrc"
  <2>1. sending.last = TRUE <=> sending.msg = "confirm"
    BY DEF CreatedInv, MsgsFit, MsgFits
  <2>2. sending.last \in BOOLEAN
    BY <1>2 DEF Msg
  <2> QED
    BY <1>1, <2>1, <2>2
<1>6. NoStrayTx' /\ ReadsAreCurrent' /\ ~InHand'
  BY <1>1, <1>4, <1>5 DEF NoStrayTx, ReadsAreCurrent, HasRead, InHand
<1>7. \A c \in Chains : Latest(c)' = Latest(c)
  BY <1>1 DEF Latest
<1>8. CASE id = NoId
  <2>1. conf' = conf
    BY <1>8 DEF Sync
  <2>2. (\E c \in Chains : PairAt(c))' /\ (BothOpen' <=> BothOpen)
    BY <1>1, <1>7, <2>1, PairKept DEF HandshakeGoesOn
  <2>3. GoesOn' => ~BothOpen
    BY <1>1, <1>5 DEF GoesOn, HandshakeGoesOn
  <2>4. HandshakeGoesOn'
    BY <1>6, <2>2, <2>3 DEF HandshakeGoesOn
  <2> QED
    BY <1>1, <1>5, <1>6, <2>4
<1>9. CASE id # NoId
  <2>1. Generates(sending) /\ CalledFor(sending)
    BY <1>1, <1>3, <1>9 DEF OutcomeHolds, HandshakeGoesOn, InHand
  <2>2. Latest(Target)[id] = NewEnd(sending)
    BY <1>1, <1>3, <2>1 DEF NoStrayTx
  <2>3. conf'[Target] = id /\ \A c \in Chains : c # Target => conf'[c] = conf[c]
    BY <1>1, <1>2, <1>9 DEF Sync, TypeOK
  <2>4. \A c \in Chains : Current(c)' = EndOf(Latest(c), conf'[c])
    BY <1>7 DEF Current
  <2>5. EndOf(Latest(Target), id) = NewEnd(sending)
    BY <1>9, <2>2 DEF EndOf
  <2>6. ASSUME NEW c \in Chains, c = Target PROVE PairAt(c)' /\ ~BothOpen'
    <3>1. Current(c)' = NewEnd(sending) /\ Current(Other(c))' = Current(Other(c))
      BY <1>2, <2>3, <2>4, <2>5, <2>6 DEF Current
    <3>2. sending.cp = conf[Other(c)] /\ conf'[Other(c)] = conf[Other(c)]
      BY <1>2, <2>1, <2>3, <2>6 DEF CalledFor
    <3>3. CASE sending.msg = "init"
      <4>1. Current(c)' = InitEnd /\ Current(Other(c)) = NoEnd
        BY <1>2, <2>1, <2>6, <3>1, <3>3 DEF NewEnd, CalledFor
      <4> QED
        BY <3>1, <4>1 DEF PairAt, BothOpen, InitEnd
    <3>4. CASE sending.msg = "try"
      <4>1. Current(c)' = TryEnd(c)' /\ Current(Other(c)) = InitEnd
        BY <1>2, <2>1, <2>6, <3>1, <3>2, <3>4 DEF NewEnd, CalledFor, TryEnd
      <4> QED
        BY <3>1, <4>1 DEF PairAt, BothOpen, TryEnd
    <3> QED
      BY <2>1, <3>3, <3>4 DEF Generates
  <2>7. HandshakeGoesOn'
    BY <1>2, <1>6, <2>6 DEF HandshakeGoesOn
  <2> QED
    BY <1>1, <1>5, <1>6, <2>7
<1> QED
  BY <1>8, <1>9

\* Every step keeps the invariant.
LEMMA CleanStep == CreatedInv /\ OrphanInv /\ CleanInv /\ [Next]_vars => CleanInv'
<1> SUFFICES ASSUME CreatedInv, OrphanInv, CleanInv, [Next]_vars, faults' = 0 PROVE CleanParts'
  BY DEF CleanInv
<1>1. TypeOK /\ TypeOK' /\ faults \in Nat
  BY TypeStep DEF CreatedInv, TypeOK
<1>2. ~Fault
  BY <1>1 DEF Fault
<1>3. faults = 0
  <2>1. CASE UNCHANGED vars
    BY <2>1 DEF vars
  <2>2. CASE Next
    BY <1>2, <2>2 DEF Next, CommandStep, NewBlock, ExecTx, DropTx, ReadySrc, ReadyDst, HeadersSrc,
         HeadersDst, LatestSrc, LatestDst, WaitForSettlement, Panic, BuildMsg, BuildError, Broadcast,
         SendRejected, WaitForCommit, GiveUpWaiting, Sync, RPCError, Crash, Rerun
  <2> QED
    BY <2>1, <2>2
<1>4. CleanNow
  BY <1>3 DEF CleanNow, CleanInv
<1>5. ASSUME NEW c \in Chains, NewBlock(c) \/ ExecTx(c) \/ DropTx(c) PROVE CleanParts'
  BY <1>2, <1>3, <1>4, <1>5, CleanNewBlock, CleanExec DEF DropTx
<1>6. CASE ReadySrc \/ ReadyDst \/ LatestSrc \/ LatestDst
  BY <1>4, <1>6, CleanReading
<1>7. CASE HeadersSrc \/ HeadersDst \/ WaitForSettlement
  BY <1>4, <1>7, CleanHeaders
<1>8. CASE BuildMsg \/ Panic \/ BuildError
  BY <1>4, <1>8, CleanBuild
<1>9. CASE Broadcast \/ WaitForCommit \/ Sync
  BY <1>4, <1>9, CleanBroadcast, CleanCommit, CleanSync
<1>10. CASE SendRejected \/ GiveUpWaiting
  BY <1>3, <1>4, <1>10, CleanSend
<1>11. CASE RPCError \/ Crash
  BY <1>2, <1>11 DEF RPCError, Crash
<1>12. CASE Rerun
  <2>1. UNCHANGED <<hist, mempool, conf>> /\ failed' = 0 /\ failed = 0 /\ sh' = NoHeaders
        /\ pc \in Ended /\ pc' = "readySrc"
    BY <1>4, <1>12 DEF Rerun, Restart, chainVars, CleanNow, CleanParts
  <2>2. ReadsAreCurrent'
    BY <2>1 DEF ReadsAreCurrent, HasRead, NoHeaders
  <2>3. pc \notin {"wait", "sync"} /\ ~GoesOn'
    BY <2>1 DEF Ended, GoesOn
  <2> QED
    BY <1>1, <1>4, <2>1, <2>2, <2>3, CleanCommand
<1>13. CASE UNCHANGED vars
  <2> USE DEF CleanNow, CleanParts
  <2>1. UNCHANGED <<hist, mempool, path, conf, pc, sh, seen, sending, failed>>
    BY <1>13 DEF vars, chainVars
  <2>2. \A c \in Chains : Latest(c)' = Latest(c)
    BY <2>1 DEF Latest
  <2>3. Target \in Chains /\ Target' = Target /\ sending \in Msg
    BY <1>1, <2>1 DEF Target, TypeOK, Msg
  <2>4. /\ \A d \in Chains : Current(d)' = Current(d)
        /\ (\E d \in Chains : PairAt(d))' /\ (BothOpen' <=> BothOpen)
        /\ (CalledFor(sending)' <=> CalledFor(sending))
    BY <1>1, <1>4, <2>1, <2>2, <2>3, PairKept DEF HandshakeGoesOn
  <2>5. NoStrayTx' /\ ReadsAreCurrent' /\ HandshakeGoesOn'
    BY <1>4, <2>1, <2>2, <2>3, <2>4
       DEF NoStrayTx, ReadsAreCurrent, HasRead, HandshakeGoesOn, GoesOn, InHand, NewEnd
  <2> QED
    BY <1>4, <2>1, <2>5
<1> QED
  BY <1>5, <1>6, <1>7, <1>8, <1>9, <1>10, <1>11, <1>12, <1>13 DEF Next, CommandStep

\* The initial pair is one of the handshake's.
LEMMA CleanInit == Init => CleanInv
<1> SUFFICES ASSUME Init PROVE CleanParts
  BY DEF CleanInv
<1>1. NoStrayTx
  BY ConstantTypes DEF Init, NoStrayTx, NoTx
<1>2. ReadsAreCurrent /\ ~GoesOn /\ ~InHand
  BY DEF Init, ReadsAreCurrent, HasRead, NoHeaders, GoesOn, InHand
<1>3. \A c \in Chains : \/ Latest(c) = EmptyStore /\ conf[c] = NoId
                        \/ c = "dst" /\ Latest(c) = OneInit /\ conf[c] = 1
  <2>1. PICK begun \in SUBSET {"dst"} :
          /\ hist = [c \in Chains |-> [i \in 0..Delay |-> IF c \in begun THEN OneInit ELSE EmptyStore]]
          /\ conf = [c \in Chains |-> IF c \in begun THEN 1 ELSE NoId]
    BY DEF Init
  <2> QED
    BY <2>1, ConstantTypes DEF Latest
<1>4. OneInit[1] = InitEnd /\ NoId # 1
  BY ConstantTypes DEF OneInit, InitEnd, NoId
<1>5. Current("src") = NoEnd /\ Current("dst") \in {NoEnd, InitEnd}
  BY <1>3, <1>4 DEF Current, EndOf, Chains
<1>6. PairAt("dst")
  BY <1>5 DEF PairAt, Other
<1> QED
  BY <1>1, <1>2, <1>6 DEF CleanParts, HandshakeGoesOn, Init, Chains

\* As long as no query fails, no transaction is lost, nobody loses patience and nothing
\* crashes, CreateConnection and CreateChannel neither fail nor panic, for every prover,
\* finality delay and number of retries.
THEOREM CleanCorrect == Spec => []CleanWithoutFaults
<1>1. Init => CreatedInv /\ OrphanInv /\ CleanInv
  BY CreatedInit, OrphanInit, CleanInit
<1>2. CreatedInv /\ OrphanInv /\ CleanInv /\ [Next]_vars => (CreatedInv /\ OrphanInv /\ CleanInv)'
  BY CreatedStep, OrphanStep, CleanStep
<1>3. CreatedInv /\ OrphanInv /\ CleanInv => CleanWithoutFaults
  BY DEF CleanInv, CleanParts, CleanWithoutFaults
<1> QED
  BY <1>1, <1>2, <1>3, PTL DEF Spec
=============================================================================
