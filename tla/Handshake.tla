----------------------------- MODULE Handshake -----------------------------
(***************************************************************************)
(* CreateConnection (core/connection.go) and CreateChannel                 *)
(* (core/channel.go): the same loop in both files, over connection ends    *)
(* and over channel ends.  Every round reads both ends, sends the one      *)
(* message the pair of states calls for, and writes the identifier the     *)
(* chain generated to the path configuration, the only state that survives *)
(* the process.  A transaction may be executed after the relayer has given *)
(* it up, so that chains may hold ends the configuration does not know.    *)
(***************************************************************************)
EXTENDS Naturals, FiniteSets

CONSTANTS
    Delay,      \* finality delay of chains with the mock prover
    MaxEnds,    \* bound on the ends of a chain, never reached with MaxFaults < MaxEnds
    MaxFailed,  \* failures in a row after which the command gives up (2 in the code)
    MaxFaults   \* bound on RPC errors, lost transactions, impatience and crashes

ASSUME HandshakeAssumption ==
    /\ Delay \in Nat \ {0}
    /\ MaxEnds \in Nat \ {0}
    /\ MaxFailed \in Nat
    /\ MaxFaults \in Nat

Chains == {"src", "dst"}

Paths == [kind : {"connection", "channel"}, prover : {"mock", "tendermint"}]

Other(c) == IF c = "src" THEN "dst" ELSE "src"

Ids == 1..MaxEnds

NoId == 0   \* the empty identifier of a fresh path configuration

States == {"UNINITIALIZED", "INIT", "TRYOPEN", "OPEN"}

End == [state : States, cp : Ids \cup {NoId}]

NoEnd == [state |-> "UNINITIALIZED", cp |-> NoId]

Store == [Ids -> End]

\* QueryConnection and QueryChannel with the configured identifier.
EndOf(store, id) == IF id = NoId THEN NoEnd ELSE store[id]

-----------------------------------------------------------------------------
(* The switches over the two states *)

\* Variant with a fault: the acknowledgement is taken for the last step.
Step_AckIsLast(src, dst, to, msg, update, last) ==
    [src |-> src, dst |-> dst, to |-> to, msg |-> msg, update |-> update,
     last |-> msg \in {"ack", "confirm"}]

\* In states src and dst, message msg goes to chain to.
Step(src, dst, to, msg, update, last) ==
    [src |-> src, dst |-> dst, to |-> to, msg |-> msg, update |-> update, last |-> last]

ConnectionSteps ==
    {Step("UNINITIALIZED", "UNINITIALIZED", "src", "init", TRUE, FALSE),
     Step("UNINITIALIZED", "INIT", "src", "try", TRUE, FALSE),
     Step("INIT", "UNINITIALIZED", "dst", "try", TRUE, FALSE),
     Step("TRYOPEN", "INIT", "dst", "ack", TRUE, FALSE),
     Step("INIT", "TRYOPEN", "src", "ack", TRUE, FALSE),
     Step("TRYOPEN", "OPEN", "src", "confirm", TRUE, TRUE),
     Step("OPEN", "TRYOPEN", "dst", "confirm", TRUE, TRUE)}

\* chanOpenInit comes without an update of the client.
ChannelSteps ==
    {Step("UNINITIALIZED", "UNINITIALIZED", "src", "init", FALSE, FALSE),
     Step("UNINITIALIZED", "INIT", "src", "try", TRUE, FALSE),
     Step("INIT", "UNINITIALIZED", "dst", "try", TRUE, FALSE),
     Step("TRYOPEN", "INIT", "dst", "ack", TRUE, FALSE),
     Step("INIT", "TRYOPEN", "src", "ack", TRUE, FALSE),
     Step("TRYOPEN", "OPEN", "src", "confirm", TRUE, TRUE),
     Step("OPEN", "TRYOPEN", "dst", "confirm", TRUE, TRUE)}

(***************************************************************************)
(* A message: the identifiers of the receiving end (own) and of the        *)
(* counterparty (cp) as configured, and the counterparty's end whose proof *)
(* it carries.                                                             *)
(***************************************************************************)
Msg == [msg : {"none", "init", "try", "ack", "confirm"}, to : Chains, update : BOOLEAN,
        last : BOOLEAN, own : Ids \cup {NoId}, cp : Ids \cup {NoId}, proven : End]

NoMsg == [msg |-> "none", to |-> "src", update |-> FALSE, last |-> FALSE,
          own |-> NoId, cp |-> NoId, proven |-> NoEnd]

\* What a chain with this store requires of a message.
Accepted(store, m) ==
    /\ m.msg # "init" => m.update
    /\ CASE m.msg = "init" -> TRUE
         [] m.msg = "try" -> m.proven = [state |-> "INIT", cp |-> NoId]
         [] m.msg = "ack" -> /\ EndOf(store, m.own).state = "INIT"
                             /\ m.proven = [state |-> "TRYOPEN", cp |-> m.own]
         [] m.msg = "confirm" -> /\ EndOf(store, m.own).state = "TRYOPEN"
                                 /\ EndOf(store, m.own).cp = m.cp
                                 /\ m.proven = [state |-> "OPEN", cp |-> m.own]
         [] OTHER -> FALSE

Used(store) == {i \in Ids : store[i] # NoEnd}

\* The identifier that init and try generate.
NextId(store) == Cardinality(Used(store)) + 1

Generates(m) == m.msg \in {"init", "try"}

Result(store, m) ==
    CASE m.msg = "init" -> [store EXCEPT ![NextId(store)] = [state |-> "INIT", cp |-> NoId]]
      [] m.msg = "try" -> [store EXCEPT ![NextId(store)] = [state |-> "TRYOPEN", cp |-> m.cp]]
      [] m.msg = "ack" -> [store EXCEPT ![m.own] = [state |-> "OPEN", cp |-> m.cp]]
      [] OTHER -> [store EXCEPT ![m.own].state = "OPEN"]

-----------------------------------------------------------------------------
VARIABLES
    hist,       \* hist[c][i]: the ends of chain c, i blocks before its latest block
    mempool,    \* mempool[c]: the relayer's last transaction on chain c and its result
    path,       \* what the command creates, and the provers of the chains
    conf,       \* conf[c]: the identifier in the path configuration file
    pc,         \* what the command does next
    sh,         \* the SyncHeaders of this round
    seen,       \* the ends read at the latest heights
    sending,    \* the message of this round
    failed,     \* failures in a row
    faults      \* faults so far

chainVars == <<hist, mempool>>
vars == <<chainVars, path, conf, pc, sh, seen, sending, failed, faults>>

Latest(c) == hist[c][0]

Header == [at : Store, proves : Store]

\* A tendermint header is the latest one and proves the store of the block before it.
FinalizedHeader(c) ==
    IF path.prover = "mock" THEN [at |-> hist[c][Delay], proves |-> hist[c][Delay]]
    ELSE [at |-> hist[c][0], proves |-> hist[c][1]]

EmptyStore == [i \in Ids |-> NoEnd]
NoHeaders == [c \in Chains |-> [at |-> EmptyStore, proves |-> EmptyStore]]
NoEnds == [c \in Chains |-> NoEnd]

\* A transaction is pending, in the latest block, or followed by another block.
Tx == [status : {"none", "pending", "committed", "followed"}, msg : Msg, ok : BOOLEAN,
       id : Ids \cup {NoId}]

NoTx == [status |-> "none", msg |-> NoMsg, ok |-> FALSE, id |-> NoId]

Ended == {"created", "failed", "panicked"}

Reading == {"readySrc", "readyDst", "headersSrc", "headersDst", "latestSrc", "latestDst"}

Phases == Reading \cup {"choose", "send", "wait", "sync"} \cup Ended

TypeOK ==
    /\ hist \in [Chains -> [0..Delay -> Store]]
    /\ mempool \in [Chains -> Tx]
    /\ path \in Paths
    /\ conf \in [Chains -> Ids \cup {NoId}]
    /\ pc \in Phases
    /\ sh \in [Chains -> Header]
    /\ seen \in [Chains -> End]
    /\ sending \in Msg
    /\ failed \in 0..MaxFailed
    /\ faults \in 0..MaxFaults

\* The path is fresh, or the command was begun with the chains exchanged.
OneInit == [i \in Ids |-> IF i = 1 THEN [state |-> "INIT", cp |-> NoId] ELSE NoEnd]

Init ==
    /\ path \in Paths
    /\ \E begun \in SUBSET {"dst"} :
        /\ hist = [c \in Chains |-> [i \in 0..Delay |-> IF c \in begun THEN OneInit ELSE EmptyStore]]
        /\ conf = [c \in Chains |-> IF c \in begun THEN 1 ELSE NoId]
    /\ mempool = [c \in Chains |-> NoTx]
    /\ pc = "readySrc"
    /\ sh = NoHeaders
    /\ seen = NoEnds
    /\ sending = NoMsg
    /\ failed = 0
    /\ faults = 0

-----------------------------------------------------------------------------
(* The chains *)

AddBlock(c, store) ==
    hist' = [hist EXCEPT ![c] = [i \in 0..Delay |-> IF i = 0 THEN store ELSE hist[c][i - 1]]]

NewBlock(c) ==
    /\ AddBlock(c, Latest(c))
    /\ mempool' = [mempool EXCEPT ![c].status = IF @ = "committed" THEN "followed" ELSE @]
    /\ UNCHANGED <<path, conf, pc, sh, seen, sending, failed, faults>>

ExecTx(c) ==
    /\ mempool[c].status = "pending"
    /\ LET m == mempool[c].msg
           ok == Accepted(Latest(c), m) /\ (Generates(m) => NextId(Latest(c)) \in Ids)
       IN /\ AddBlock(c, IF ok THEN Result(Latest(c), m) ELSE Latest(c))
          /\ mempool' = [mempool EXCEPT ![c] =
                           [status |-> "committed", msg |-> NoMsg, ok |-> ok,
                            id |-> IF ok /\ Generates(m) THEN NextId(Latest(c)) ELSE NoId]]
    /\ UNCHANGED <<path, conf, pc, sh, seen, sending, failed, faults>>

Fault == faults < MaxFaults /\ faults' = faults + 1

\* The node drops the transaction.
DropTx(c) ==
    /\ Fault
    /\ mempool[c].status = "pending"
    /\ mempool' = [mempool EXCEPT ![c] = NoTx]
    /\ UNCHANGED <<hist, path, conf, pc, sh, seen, sending, failed>>

-----------------------------------------------------------------------------
(* The command *)

\* checkConnectionCreateReady and checkChannelCreateReady read src, then dst.
ReadySrc ==
    /\ pc = "readySrc"
    /\ seen' = [seen EXCEPT !["src"] = EndOf(Latest("src"), conf["src"])]
    /\ pc' = "readyDst"
    /\ UNCHANGED <<chainVars, path, conf, sh, sending, failed, faults>>

\* Variant with a fault: one open end is taken for an open pair.
ReadyDst_Either ==
    /\ pc = "readyDst"
    /\ LET ends == [seen EXCEPT !["dst"] = EndOf(Latest("dst"), conf["dst"])]
       IN pc' = IF \E c \in Chains : ends[c].state = "OPEN" THEN "created" ELSE "headersSrc"
    /\ seen' = NoEnds
    /\ UNCHANGED <<chainVars, path, conf, sh, sending, failed, faults>>

ReadyDst ==
    /\ pc = "readyDst"
    /\ LET ends == [seen EXCEPT !["dst"] = EndOf(Latest("dst"), conf["dst"])]
           dangling == \E c \in Chains : conf[c] # NoId /\ ends[c].state = "UNINITIALIZED"
       IN pc' = IF dangling THEN "failed"
                ELSE IF \A c \in Chains : ends[c].state = "OPEN" THEN "created"
                ELSE "headersSrc"
    /\ seen' = NoEnds
    /\ UNCHANGED <<chainVars, path, conf, sh, sending, failed, faults>>

\* NewSyncHeaders of a round: src's header first.
HeadersSrc ==
    /\ pc = "headersSrc"
    /\ sh' = [NoHeaders EXCEPT !["src"] = FinalizedHeader("src")]
    /\ pc' = "headersDst"
    /\ UNCHANGED <<chainVars, path, conf, seen, sending, failed, faults>>

HeadersDst ==
    /\ pc = "headersDst"
    /\ sh' = [sh EXCEPT !["dst"] = FinalizedHeader("dst")]
    /\ pc' = "latestSrc"
    /\ UNCHANGED <<chainVars, path, conf, seen, sending, failed, faults>>

\* querySettled...Pair: the ends at the latest heights, src's height first.
LatestSrc ==
    /\ pc = "latestSrc"
    /\ seen' = [seen EXCEPT !["src"] = EndOf(Latest("src"), conf["src"])]
    /\ pc' = "latestDst"
    /\ UNCHANGED <<chainVars, path, conf, sh, sending, failed, faults>>

LatestDst ==
    /\ pc = "latestDst"
    /\ seen' = [seen EXCEPT !["dst"] = EndOf(Latest("dst"), conf["dst"])]
    /\ pc' = "choose"
    /\ UNCHANGED <<chainVars, path, conf, sh, sending, failed, faults>>

\* The end at the finalized height, which the messages are built from.
FinalizedEnd(c) == EndOf(sh[c].at, conf[c])

\* Variant with a fault: the latest heights are not looked at.
Settled_Always == TRUE

Settled == \A c \in Chains : FinalizedEnd(c) = seen[c]

\* An end is in transition: another round.
WaitForSettlement ==
    /\ pc = "choose"
    /\ ~Settled
    /\ pc' = "headersSrc"
    /\ sh' = NoHeaders
    /\ seen' = NoEnds
    /\ UNCHANGED <<chainVars, path, conf, sending, failed, faults>>

Steps == IF path.kind = "connection" THEN ConnectionSteps ELSE ChannelSteps

Matching == {s \in Steps : s.src = FinalizedEnd("src").state /\ s.dst = FinalizedEnd("dst").state}

\* The pair of states is not in the switch.
Panic ==
    /\ pc = "choose"
    /\ Settled
    /\ Matching = {}
    /\ pc' = "panicked"
    /\ UNCHANGED <<chainVars, path, conf, sh, seen, sending, failed, faults>>

\* ProveState for the counterparty's end of a message to chain c.
Provable(c) == FinalizedEnd(Other(c)) = EndOf(sh[Other(c)].proves, conf[Other(c)])

\* The proofs are asked for; an init needs none of the (missing) end.
BuildMsg ==
    /\ pc = "choose"
    /\ Settled
    /\ \E s \in Matching :
        /\ FinalizedEnd(Other(s.to)) = NoEnd \/ Provable(s.to)
        /\ sending' = [msg |-> s.msg, to |-> s.to, update |-> s.update, last |-> s.last,
                       own |-> conf[s.to], cp |-> conf[Other(s.to)],
                       proven |-> FinalizedEnd(Other(s.to))]
    /\ pc' = "send"
    /\ sh' = NoHeaders
    /\ seen' = NoEnds
    /\ UNCHANGED <<chainVars, path, conf, failed, faults>>

\* ProveState finds another end than the one at the finalized height; its retries ask the same.
BuildError ==
    /\ pc = "choose"
    /\ Settled
    /\ \E s \in Matching : FinalizedEnd(Other(s.to)) # NoEnd /\ ~Provable(s.to)
    /\ pc' = "failed"
    /\ UNCHANGED <<chainVars, path, conf, sh, seen, sending, failed, faults>>

Target == sending.to

Broadcast ==
    /\ pc = "send"
    /\ mempool[Target].status # "pending"
    /\ Accepted(Latest(Target), sending)
    /\ mempool' = [mempool EXCEPT ![Target] =
                     [status |-> "pending", msg |-> sending, ok |-> FALSE, id |-> NoId]]
    /\ pc' = "wait"
    /\ UNCHANGED <<hist, path, conf, sh, seen, sending, failed, faults>>

\* Variant with a fault: the failures are counted but do not end the command.
SendFails_Unlimited ==
    /\ pc' = "headersSrc"
    /\ failed' = failed + 1
    /\ sending' = NoMsg

\* Send was not successful: the command retries unless this was the third failure.
SendFails ==
    /\ pc' = IF failed + 1 > MaxFailed THEN "failed" ELSE "headersSrc"
    /\ failed' = IF failed + 1 > MaxFailed THEN 0 ELSE failed + 1
    /\ sending' = NoMsg

\* The account sequence or the simulation does not fit, or the node does not answer.
SendRejected ==
    /\ pc = "send"
    /\ \/ /\ mempool[Target].status = "pending" \/ ~Accepted(Latest(Target), sending)
          /\ UNCHANGED faults
       \/ Fault
    /\ SendFails
    /\ UNCHANGED <<chainVars, path, conf, sh, seen>>

\* Variant with a fault: no further block is waited for.
WaitForCommit_Included ==
    /\ pc = "wait"
    /\ mempool[Target].status \in {"committed", "followed"}
    /\ IF mempool[Target].ok
       THEN pc' = "sync" /\ UNCHANGED <<sending, failed>>
       ELSE SendFails
    /\ UNCHANGED <<chainVars, path, conf, sh, seen, faults>>

\* waitForCommit returns; sendMsgs looks at the result.
WaitForCommit ==
    /\ pc = "wait"
    /\ mempool[Target].status = "followed"
    /\ IF mempool[Target].ok
       THEN pc' = "sync" /\ UNCHANGED <<sending, failed>>
       ELSE SendFails
    /\ UNCHANGED <<chainVars, path, conf, sh, seen, faults>>

\* waitForCommit runs out of retries.
GiveUpWaiting ==
    /\ pc = "wait"
    /\ \/ mempool[Target].status = "none" /\ UNCHANGED faults
       \/ mempool[Target].status # "none" /\ Fault
    /\ SendFails
    /\ UNCHANGED <<chainVars, path, conf, sh, seen>>

\* SyncChainConfigsFromEvents saves the generated identifier.
Sync ==
    /\ pc = "sync"
    /\ LET id == mempool[Target].id
       IN conf' = IF id = NoId THEN conf ELSE [conf EXCEPT ![Target] = id]
    /\ pc' = IF sending.last THEN "created" ELSE "headersSrc"
    /\ failed' = 0
    /\ sending' = NoMsg
    /\ UNCHANGED <<chainVars, path, sh, seen, faults>>

\* A query fails: the command returns the error.
RPCError ==
    /\ pc \in Reading \cup {"choose", "sync"}
    /\ Fault
    /\ pc' = "failed"
    /\ failed' = 0
    /\ sending' = NoMsg
    /\ UNCHANGED <<chainVars, path, conf, sh, seen>>

Restart ==
    /\ pc' = "readySrc"
    /\ sh' = NoHeaders
    /\ seen' = NoEnds
    /\ sending' = NoMsg
    /\ failed' = 0
    /\ UNCHANGED <<chainVars, path, conf>>

Crash == pc \notin Ended /\ Fault /\ Restart

\* The operator runs the command again.
Rerun == pc \in Ended /\ Restart /\ UNCHANGED faults

-----------------------------------------------------------------------------
CommandStep ==
    \/ ReadySrc \/ ReadyDst \/ HeadersSrc \/ HeadersDst \/ LatestSrc \/ LatestDst
    \/ WaitForSettlement \/ Panic \/ BuildMsg \/ BuildError
    \/ Broadcast \/ SendRejected \/ WaitForCommit \/ GiveUpWaiting \/ Sync

Next ==
    \/ \E c \in Chains : NewBlock(c) \/ ExecTx(c) \/ DropTx(c)
    \/ CommandStep \/ RPCError \/ Crash \/ Rerun

Spec == Init /\ [][Next]_vars

(***************************************************************************)
(* Fairness: blocks come and include pending transactions, the command     *)
(* goes on, and the operator runs it again when it fails.                  *)
(***************************************************************************)
FairSpec ==
    /\ Spec
    /\ WF_vars(CommandStep) /\ WF_vars(Rerun)
    /\ \A c \in Chains : WF_vars(NewBlock(c)) /\ WF_vars(ExecTx(c))

-----------------------------------------------------------------------------
(* Properties *)

\* The configured ends are open and each other's counterparties.
PairOpen ==
    \A c \in Chains : /\ conf[c] # NoId
                      /\ Latest(c)[conf[c]] = [state |-> "OPEN", cp |-> conf[Other(c)]]

\* When the command reports success the configuration names an open pair, even if ends
\* were created that it does not know of.
CreatedIsOpen == pc = "created" => PairOpen

\* Every fault leaves at most one end behind that the configuration does not know: a retry
\* never multiplies what an earlier one lost.
Unknown == UNION {{<<c, i>> : i \in Used(Latest(c)) \ {conf[c]}} : c \in Chains}

OrphansAreFaults ==
    Cardinality(Unknown) <= faults + (IF pc \in {"wait", "sync"} THEN 1 ELSE 0)

\* Without faults the command neither fails nor panics: what it has just sent can be
\* proved, and the pair of states is always one of the switch.
CleanWithoutFaults == faults = 0 => pc \notin {"failed", "panicked"}

\* However often the command fails, crashes or gives up, running it again ends in an open pair.
EventuallyOpen == <>[]PairOpen

\* core/connection.go says that CreateConnection sends messages "until a connection is
\* created": then it ends in success or with an error, never in a panic.
NeverPanics == pc # "panicked"
=============================================================================
