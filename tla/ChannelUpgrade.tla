--------------------------- MODULE ChannelUpgrade ---------------------------
(***************************************************************************)
(* The commands of core/channel-upgrade.go.  InitChannelUpgrade proposes   *)
(* an upgrade on one chain, ExecuteChannelUpgrade carries the handshake    *)
(* out (or cleans an aborted one up) from the states of both ends, and     *)
(* CancelChannelUpgrade gives an upgrade up.  An operator may run init     *)
(* while the other commands run; a transaction may be executed after the   *)
(* relayer has given it up.                                                *)
(***************************************************************************)
EXTENDS Naturals, FiniteSets

CONSTANTS
    Versions,       \* what upgrades may propose; the channel begins with version 1
    Authority,      \* the relayer's account may cancel without an error receipt
    PermitUnsafe,   \* init although an end is flushing
    Targets,        \* the pairs of target states that execute is run with
    Timeouts,       \* timeouts of upgrades may elapse
    Delay,          \* finality delay of the chains
    ProofLag,       \* 1 iff a header proves the store of the block before it
    MaxSeq,         \* bound on the sequences that init reaches
    MaxCancels,     \* bound on the runs of the cancel command
    MaxFailures,    \* failures in a row after which execute gives up (2 in the code)
    MaxFaults       \* bound on RPC errors, lost transactions, impatience and crashes

Chains == {"src", "dst"}

Other(c) == IF c = "src" THEN "dst" ELSE "src"

UpgradeStates == {"UNINIT", "INIT", "FLUSHING", "FLUSHCOMPLETE"}

ASSUME UpgradeAssumption ==
    /\ Versions \subseteq Nat \ {0} /\ 1 \in Versions
    /\ {Authority, PermitUnsafe, Timeouts} \subseteq BOOLEAN
    /\ Targets \subseteq [Chains -> UpgradeStates] /\ Targets # {}
    /\ Delay \in Nat
    /\ ProofLag \in {0, 1}
    /\ {MaxSeq, MaxCancels, MaxFailures, MaxFaults} \subseteq Nat

None == 0

Seqs == 1..MaxSeq

(***************************************************************************)
(* One chain's end: the channel (state, seq, ver), its upgrade (upg, the   *)
(* proposed version), the sequence of the last error receipt, the          *)
(* counterparty's upgrades whose timeouts have elapsed here, whether       *)
(* packets are in flight and whether the counterparty's upgrade is stored. *)
(***************************************************************************)
End == [state : {"OPEN", "FLUSHING", "FLUSHCOMPLETE"}, seq : 0..MaxSeq, ver : Versions,
        upg : Versions \cup {None}, receipt : 0..MaxSeq, late : SUBSET Seqs,
        busy : BOOLEAN, cp : BOOLEAN]

NewUpgradeState(e) ==
    CASE e.state = "OPEN" /\ e.upg = None -> "UNINIT"
      [] e.state = "OPEN" /\ e.upg # None -> "INIT"
      [] OTHER -> e.state

Actions == {"NONE", "TRY", "ACK", "CONFIRM", "OPEN", "CANCEL", "CANCEL_FLUSHCOMPLETE", "TIMEOUT"}

\* An action message, the counterparty's end it proves, and how often it is in the transaction.
Msg == [act : Actions, proven : End, copies : 0..2]

-----------------------------------------------------------------------------
(* The chains *)

Larger(m, n) == IF m > n THEN m ELSE n

\* The upgrade is given up with an error receipt of sequence r.
Aborted(e, r) ==
    [e EXCEPT !.state = "OPEN", !.upg = None, !.cp = FALSE, !.seq = r, !.receipt = r]

Upgraded(e) ==
    [e EXCEPT !.state = "OPEN", !.ver = e.upg, !.upg = None, !.cp = FALSE]

Flushed(e) == [e EXCEPT !.state = IF e.busy THEN "FLUSHING" ELSE "FLUSHCOMPLETE", !.cp = TRUE]

\* p is an end that has completed the upgrade e proposes.
Completed(p, e) == p.state = "OPEN" /\ p.ver = e.upg /\ p.seq >= e.seq

CancelAllowed(e, p) ==
    \/ Authority /\ e.state # "FLUSHCOMPLETE"
    \/ /\ p.receipt # None
       /\ IF e.state = "FLUSHCOMPLETE" THEN p.receipt = e.seq ELSE p.receipt >= e.seq

\* What end e requires of a message with a proof of the counterparty's end p.
Accepted(e, act, p) ==
    CASE act = "TRY" ->
           e.state = "OPEN" /\ p.state = "OPEN" /\ p.upg # None
      [] act = "ACK" ->
           /\ e.state \in {"OPEN", "FLUSHING"} /\ e.upg # None
           /\ p.state = "FLUSHING" /\ p.seq = e.seq
      [] act = "CONFIRM" ->
           /\ e.state = "FLUSHING"
           /\ p.state \in {"FLUSHING", "FLUSHCOMPLETE"} /\ p.seq = e.seq
      [] act = "OPEN" ->
           /\ e.state = "FLUSHCOMPLETE"
           /\ (p.state = "FLUSHCOMPLETE" /\ p.seq = e.seq) \/ Completed(p, e)
      [] act \in {"CANCEL", "CANCEL_FLUSHCOMPLETE"} ->
           e.upg # None /\ CancelAllowed(e, p)
      [] act = "TIMEOUT" ->
           /\ e.state # "OPEN" /\ e.seq \in p.late
           /\ p.state # "FLUSHCOMPLETE" /\ ~Completed(p, e)
      [] OTHER -> FALSE

Result(e, act, p) ==
    CASE act = "TRY" ->
           LET seq == Larger(e.seq, p.seq)
           IN IF p.seq < e.seq \/ (p.seq = e.seq /\ e.upg = None)
              THEN [e EXCEPT !.receipt = Larger(@, e.seq - 1)]
              ELSE IF e.upg \notin {None, p.upg} THEN Aborted(e, seq)
              ELSE [e EXCEPT !.state = "FLUSHING", !.upg = p.upg, !.seq = seq]
      [] act = "ACK" ->
           IF p.upg # e.upg \/ p.seq \in e.late THEN Aborted(e, e.seq) ELSE Flushed(e)
      [] act = "CONFIRM" ->
           IF p.seq \in e.late THEN Aborted(e, e.seq)
           ELSE IF ~e.busy /\ p.state = "FLUSHCOMPLETE" THEN Upgraded(e)
           ELSE Flushed(e)
      [] act = "OPEN" -> Upgraded(e)
      [] act = "TIMEOUT" -> Aborted(e, e.seq)
      [] OTHER ->
           Aborted(e, IF Authority /\ e.state # "FLUSHCOMPLETE" THEN e.seq ELSE p.receipt)

\* A transaction holds the message copies times and succeeds as a whole.
TxAccepted(e, m) ==
    /\ Accepted(e, m.act, m.proven)
    /\ m.copies = 2 => Accepted(Result(e, m.act, m.proven), m.act, m.proven)

TxResult(e, m) ==
    LET once == Result(e, m.act, m.proven)
    IN IF m.copies = 2 THEN Result(once, m.act, m.proven) ELSE once

-----------------------------------------------------------------------------
VARIABLES
    hist,       \* hist[c][i]: the end of chain c, i blocks before its latest block
    pool,       \* pool[c]: the relayer's last transaction on chain c and its result
    checked,    \* checked[c]: an init command on c is past its check
    conf,       \* conf[c]: the version in the path configuration file
    cmd,        \* the running command
    target,     \* the target states it was given
    pc,         \* <<phase, chain>> of the command
    firstCall,  \* no step of this command has ended without error yet
    sh,         \* the SyncHeaders of this round
    idle,       \* the answers of queryCanTransitionToFlushComplete
    out,        \* out[c]: the RelayMsgs of this round
    succeeded,  \* RelayMsgs.Succeeded
    failures,   \* failures in a row
    cancels,    \* runs of cancel so far
    faults      \* faults so far

chainVars == <<hist, pool>>
operatorVars == <<checked, cancels, target>>
roundVars == <<sh, idle, out, succeeded>>
vars == <<chainVars, operatorVars, conf, cmd, pc, firstCall, roundVars, failures, faults>>

Depth == Delay + ProofLag

Latest(c) == hist[c][0]

Fresh(busy) == [state |-> "OPEN", seq |-> 0, ver |-> 1, upg |-> None, receipt |-> None,
                late |-> {}, busy |-> busy, cp |-> FALSE]

NoMsg == [act |-> "NONE", proven |-> Fresh(FALSE), copies |-> 0]
NoMsgs == [c \in Chains |-> NoMsg]
NoHeaders == [c \in Chains |-> [at |-> Fresh(FALSE), proves |-> Fresh(FALSE)]]
NoAnswers == [c \in Chains |-> FALSE]

Tx == [status : {"none", "pending", "committed", "followed"}, msg : Msg, ok : BOOLEAN,
       event : Versions \cup {None}]   \* the version of an EventUpgradeChannel

NoTx == [status |-> "none", msg |-> NoMsg, ok |-> FALSE, event |-> None]

\* Execute, or cancel on a chain.
Commands == {"execute"} \cup Chains

Reading == {"header", "channel", "upgrade", "idle"}
Ended == {"done", "failed"}
Phases == Reading \cup {"choose", "send", "wait", "result", "sync"} \cup Ended

TypeOK ==
    /\ hist \in [Chains -> [0..Depth -> End]]
    /\ pool \in [Chains -> Tx]
    /\ checked \in [Chains -> BOOLEAN]
    /\ conf \in [Chains -> Versions]
    /\ cmd \in Commands
    /\ target \in Targets
    /\ pc \in Phases \X Chains
    /\ firstCall \in BOOLEAN
    /\ sh \in [Chains -> [at : End, proves : End]]
    /\ idle \in [Chains -> BOOLEAN]
    /\ out \in [Chains -> Msg]
    /\ succeeded \in BOOLEAN
    /\ failures \in 0..MaxFailures
    /\ cancels \in 0..MaxCancels
    /\ faults \in 0..MaxFaults

Init ==
    /\ \E busy \in [Chains -> BOOLEAN] :
         hist = [c \in Chains |-> [i \in 0..Depth |-> Fresh(busy[c])]]
    /\ pool = [c \in Chains |-> NoTx]
    /\ checked = [c \in Chains |-> FALSE]
    /\ conf = [c \in Chains |-> 1]
    /\ cmd = "execute"
    /\ target \in Targets
    /\ pc = <<"failed", "src">>
    /\ firstCall = TRUE
    /\ sh = NoHeaders
    /\ idle = NoAnswers
    /\ out = NoMsgs
    /\ succeeded = TRUE
    /\ failures = 0
    /\ cancels = 0
    /\ faults = 0

AddBlock(c, e) ==
    hist' = [hist EXCEPT ![c] = [i \in 0..Depth |-> IF i = 0 THEN e ELSE hist[c][i - 1]]]

relayerVars == <<conf, cmd, pc, firstCall, roundVars, failures>>

\* A block of chain c that leaves its end as it is.
NewBlock(c) ==
    /\ AddBlock(c, Latest(c))
    /\ pool' = [pool EXCEPT ![c].status = IF @ = "committed" THEN "followed" ELSE @]
    /\ UNCHANGED <<operatorVars, relayerVars, faults>>

\* The last packet in flight is acknowledged, or times out.
FlushPackets(c) ==
    /\ Latest(c).busy
    /\ LET e == [Latest(c) EXCEPT !.busy = FALSE]
       IN AddBlock(c, IF ~e.cp THEN e
                      ELSE IF e.seq \in e.late THEN Aborted(e, e.seq)
                      ELSE Flushed(e))
    /\ UNCHANGED <<pool, operatorVars, relayerVars, faults>>

\* The time of chain c reaches the timeout of the counterparty's upgrade.
Elapse(c) ==
    /\ Timeouts
    /\ Latest(Other(c)).state # "OPEN"
    /\ Latest(Other(c)).seq \notin Latest(c).late
    /\ AddBlock(c, [Latest(c) EXCEPT !.late = @ \cup {Latest(Other(c)).seq}])
    /\ UNCHANGED <<pool, operatorVars, relayerVars, faults>>

ExecTx(c) ==
    /\ pool[c].status = "pending"
    /\ LET e == Latest(c)
           m == pool[c].msg
           ok == TxAccepted(e, m)
           opens == ok /\ TxResult(e, m).ver # e.ver
       IN /\ AddBlock(c, IF ok THEN TxResult(e, m) ELSE e)
          /\ pool' = [pool EXCEPT ![c] =
                        [status |-> "committed", msg |-> NoMsg, ok |-> ok,
                         event |-> IF opens THEN TxResult(e, m).ver ELSE None]]
    /\ UNCHANGED <<operatorVars, relayerVars, faults>>

Fault == faults < MaxFaults /\ faults' = faults + 1

\* The node drops the transaction.
DropTx(c) ==
    /\ Fault
    /\ pool[c].status = "pending"
    /\ pool' = [pool EXCEPT ![c] = NoTx]
    /\ UNCHANGED <<hist, operatorVars, relayerVars>>

-----------------------------------------------------------------------------
(* InitChannelUpgrade *)

\* Both channels are open at the latest heights.
InitCheck(c) ==
    /\ ~checked[c]
    /\ Latest(c).seq < MaxSeq
    /\ PermitUnsafe \/ \A d \in Chains : Latest(d).state = "OPEN"
    /\ checked' = [checked EXCEPT ![c] = TRUE]
    /\ UNCHANGED <<chainVars, cancels, target, relayerVars, faults>>

\* A proposal replaces an earlier one, whose error receipt is left.
Proposed(e, v) ==
    [e EXCEPT !.seq = @ + 1, !.upg = v, !.receipt = IF e.upg = None THEN @ ELSE e.seq]

\* What the flags of `init' may ask for: a chain refuses the fields it has already.
UpgradeFields(e) == Versions \ {e.ver}

InitSend(c) ==
    /\ checked[c]
    /\ LET e == Latest(c)
       IN IF e.state = "OPEN" /\ e.seq < MaxSeq
          THEN \E v \in UpgradeFields(e) : AddBlock(c, Proposed(e, v))
          ELSE UNCHANGED hist
    /\ checked' = [checked EXCEPT ![c] = FALSE]
    /\ UNCHANGED <<pool, cancels, target, relayerVars, faults>>

-----------------------------------------------------------------------------
(* The rounds of execute and cancel *)

\* Cancel reads its own chain first.
First == IF cmd = "execute" THEN "src" ELSE cmd

\* The phase goes on with the other chain, or is followed by another one.
Then(c, phase) == IF c = First THEN <<pc[1], Other(First)>> ELSE <<phase, First>>

NewRound ==
    /\ pc' = <<"header", First>>
    /\ firstCall' = FALSE
    /\ sh' = NoHeaders
    /\ idle' = NoAnswers
    /\ out' = NoMsgs
    /\ succeeded' = TRUE

Fail ==
    /\ pc' = <<"failed", "src">>
    /\ sh' = NoHeaders
    /\ idle' = NoAnswers
    /\ out' = NoMsgs
    /\ succeeded' = TRUE
    /\ UNCHANGED firstCall

\* NewSyncHeaders.
ReadHeader(c) ==
    /\ pc = <<"header", c>>
    /\ sh' = [sh EXCEPT ![c] = [at |-> hist[c][Delay], proves |-> hist[c][Depth]]]
    /\ pc' = Then(c, "channel")
    /\ UNCHANGED <<chainVars, operatorVars, conf, cmd, firstCall, idle, out, succeeded,
                   failures, faults>>

Channel(e) == <<e.state, e.seq, e.ver>>

\* The upgrade holds a timeout once the end is flushing.
Upgrade(e) == <<e.upg, e.state # "OPEN">>

\* querySettledChannelPair and querySettledChannelUpgradePair: what is in transition is waited for.
SettledChannel(c) ==
    /\ pc = <<"channel", c>>
    /\ IF Channel(Latest(c)) = Channel(sh[c].at)
       THEN pc' = Then(c, "upgrade") /\ UNCHANGED <<firstCall, roundVars>>
       ELSE NewRound
    /\ UNCHANGED <<chainVars, operatorVars, conf, cmd, failures, faults>>

SettledUpgrade(c) ==
    /\ pc = <<"upgrade", c>>
    /\ IF Upgrade(Latest(c)) = Upgrade(sh[c].at)
       THEN /\ pc' = Then(c, IF cmd = "execute" THEN "idle" ELSE "choose")
            /\ UNCHANGED <<firstCall, roundVars>>
       ELSE NewRound
    /\ UNCHANGED <<chainVars, operatorVars, conf, cmd, failures, faults>>

\* queryCanTransitionToFlushComplete at the latest height.
QueryIdle(c) ==
    /\ pc = <<"idle", c>>
    /\ idle' = [idle EXCEPT ![c] = ~Latest(c).busy]
    /\ pc' = Then(c, "choose")
    /\ UNCHANGED <<chainVars, operatorVars, conf, cmd, firstCall, sh, out, succeeded,
                   failures, faults>>

-----------------------------------------------------------------------------
(* upgradeChannelStep *)

UState(c) == NewUpgradeState(sh[c].at)

UpgradeAlreadyComplete(c, e) == sh[c].at.ver = e.upg

\* The timeout of the counterparty's upgrade has elapsed at the finalized height of chain c.
UpgradeAlreadyTimedOut(c) == sh[Other(c)].at.seq \in sh[c].at.late

\* Variant with a fault: a complete upgrade is not told from an aborted one.
FlushCompleteAction_NoCheck(c) ==
    IF UpgradeAlreadyTimedOut(Other(c)) THEN "TIMEOUT" ELSE "CANCEL_FLUSHCOMPLETE"

\* The counterparty of the FLUSHCOMPLETE end c has left the upgrade.
FlushCompleteAction(c) ==
    IF UpgradeAlreadyComplete(Other(c), sh[c].at) THEN "OPEN"
    ELSE IF UpgradeAlreadyTimedOut(Other(c)) THEN "TIMEOUT"
    ELSE "CANCEL_FLUSHCOMPLETE"

\* Variant with a fault: nobody tries when the sequences are equal.
CrossingHellosAction_Strict(seq, cpSeq) == IF cpSeq > seq THEN "TRY" ELSE "NONE"

\* Both ends are in INIT: both try when the sequences are equal.
CrossingHellosAction(seq, cpSeq) == IF cpSeq >= seq THEN "TRY" ELSE "NONE"

\* The action for chain c in state self while the counterparty is in state cp.
NextAction(c) ==
    LET self == UState(c)
        cp == UState(Other(c))
        seq == sh[c].at.seq
        cpSeq == sh[Other(c)].at.seq
    IN CASE self = "UNINIT" /\ cp = "INIT" -> IF cpSeq > seq THEN "TRY" ELSE "NONE"
         [] self = "INIT" /\ cp = "UNINIT" -> IF cpSeq >= seq THEN "CANCEL" ELSE "NONE"
         [] self = "INIT" /\ cp = "INIT" -> CrossingHellosAction(seq, cpSeq)
         [] self = "INIT" /\ cp = "FLUSHING" -> IF cpSeq = seq THEN "ACK" ELSE "NONE"
         [] self = "FLUSHING" /\ cp = "UNINIT" -> "CANCEL"
         [] self = "FLUSHING" /\ cp = "INIT" -> IF cpSeq # seq THEN "CANCEL" ELSE "NONE"
         [] self = "FLUSHING" /\ cp = "FLUSHING" ->
              IF UpgradeAlreadyTimedOut(Other(c)) THEN "TIMEOUT"
              ELSE IF ~UpgradeAlreadyTimedOut(c) /\ idle[c] THEN "CONFIRM"
              ELSE "NONE"
         [] self = "FLUSHING" /\ cp = "FLUSHCOMPLETE" ->
              IF ~UpgradeAlreadyTimedOut(c) /\ idle[c] THEN "CONFIRM" ELSE "NONE"
         [] self = "FLUSHCOMPLETE" /\ cp \in {"UNINIT", "INIT"} -> FlushCompleteAction(c)
         [] self = "FLUSHCOMPLETE" /\ cp = "FLUSHING" ->
              IF UpgradeAlreadyTimedOut(Other(c)) THEN "TIMEOUT" ELSE "NONE"
         [] self = "FLUSHCOMPLETE" /\ cp = "FLUSHCOMPLETE" -> "OPEN"
         [] OTHER -> "NONE"

BothUninit == \A c \in Chains : UState(c) = "UNINIT"

\* Variant with a fault: one end without an upgrade is enough.
TargetReached_OneEnd ==
    \/ ~firstCall /\ \E c \in Chains : UState(c) = "UNINIT"
    \/ \A c \in Chains : UState(c) # "UNINIT" /\ UState(c) = target[c]

TargetReached ==
    \/ ~firstCall /\ BothUninit
    \/ \A c \in Chains : UState(c) # "UNINIT" /\ UState(c) = target[c]

Executing == pc[1] = "choose" /\ cmd = "execute"

Finish ==
    /\ Executing
    /\ TargetReached
    /\ pc' = <<"done", "src">>
    /\ sh' = NoHeaders
    /\ idle' = NoAnswers
    /\ UNCHANGED <<chainVars, operatorVars, conf, cmd, firstCall, out, succeeded, failures, faults>>

NotInitialized ==
    /\ Executing
    /\ ~TargetReached
    /\ BothUninit
    /\ Fail
    /\ UNCHANGED <<chainVars, operatorVars, conf, cmd, failures, faults>>

\* buildActionMsg: what the action needs of the counterparty's end d can be proved.
Provable(c, act) ==
    LET d == sh[Other(c)]
        receipt == d.at.receipt = d.proves.receipt
    IN CASE act \in {"TRY", "ACK", "CONFIRM"} ->
              Channel(d.at) = Channel(d.proves) /\ Upgrade(d.at) = Upgrade(d.proves)
         [] act \in {"OPEN", "TIMEOUT"} -> Channel(d.at) = Channel(d.proves)
         [] act = "CANCEL" -> d.at.receipt = None \/ receipt
         [] act = "CANCEL_FLUSHCOMPLETE" -> d.at.receipt = sh[c].at.seq /\ receipt
         [] OTHER -> TRUE

ActionMsg(c, act, copies) ==
    IF act = "NONE" THEN NoMsg ELSE [act |-> act, proven |-> sh[Other(c)].at, copies |-> copies]

(***************************************************************************)
(* The messages of both chains are built concurrently.  When one of them   *)
(* fails the retry builds both again and appends the other one twice.      *)
(***************************************************************************)
BuildMsgs ==
    /\ Executing
    /\ ~TargetReached /\ ~BothUninit
    /\ \A c \in Chains : Provable(c, NextAction(c))
    /\ \E again \in SUBSET Chains :
         /\ \/ again = {} /\ UNCHANGED faults
            \/ Cardinality(again) = 1 /\ Fault /\ \A c \in Chains : NextAction(c) # "NONE"
         /\ out' = [c \in Chains |-> ActionMsg(c, NextAction(c), IF c \in again THEN 2 ELSE 1)]
    /\ pc' = IF \A c \in Chains : NextAction(c) = "NONE" THEN <<"header", "src">> ELSE <<"send", "src">>
    /\ firstCall' = FALSE
    /\ sh' = NoHeaders
    /\ idle' = NoAnswers
    /\ UNCHANGED <<chainVars, operatorVars, conf, cmd, succeeded, failures>>

BuildError ==
    /\ Executing
    /\ ~TargetReached /\ ~BothUninit
    /\ \E c \in Chains : ~Provable(c, NextAction(c))
    /\ Fail
    /\ UNCHANGED <<chainVars, operatorVars, conf, cmd, failures, faults>>

(***************************************************************************)
(* CancelChannelUpgrade: an error receipt is needed of a FLUSHCOMPLETE     *)
(* end, and proved if there is one.  The code sends the client update and  *)
(* the message in a transaction each; the first changes no end, the blocks *)
(* it takes may come before Broadcast, and its failure, which ends the     *)
(* command, is the fault of SendRejected.                                  *)
(***************************************************************************)
CancelAction == IF sh[cmd].at.state = "FLUSHCOMPLETE" THEN "CANCEL_FLUSHCOMPLETE" ELSE "CANCEL"

BuildCancel ==
    /\ pc[1] = "choose" /\ cmd # "execute"
    /\ IF Provable(cmd, CancelAction)
       THEN /\ out' = [NoMsgs EXCEPT ![cmd] = ActionMsg(cmd, CancelAction, 1)]
            /\ pc' = <<"send", cmd>>
            /\ sh' = NoHeaders
            /\ UNCHANGED <<firstCall, idle, succeeded>>
       ELSE Fail
    /\ UNCHANGED <<chainVars, operatorVars, conf, cmd, failures, faults>>

-----------------------------------------------------------------------------
(* RelayMsgs.Send: src, then dst *)

SendNothing(c) ==
    /\ pc = <<"send", c>>
    /\ out[c] = NoMsg
    /\ pc' = Then(c, "result")
    /\ UNCHANGED <<chainVars, operatorVars, conf, cmd, firstCall, roundVars, failures, faults>>

Broadcast(c) ==
    /\ pc = <<"send", c>>
    /\ out[c] # NoMsg
    /\ pool[c].status # "pending"
    /\ TxAccepted(Latest(c), out[c])
    /\ pool' = [pool EXCEPT ![c] = [NoTx EXCEPT !.status = "pending", !.msg = out[c]]]
    /\ pc' = <<"wait", c>>
    /\ UNCHANGED <<hist, operatorVars, conf, cmd, firstCall, roundVars, failures, faults>>

\* The result of one chain's transaction; cancel has only one.
Sent(c, ok) ==
    /\ succeeded' = (succeeded /\ ok)
    /\ pc' = IF cmd # "execute" THEN <<"result", cmd>>
             ELSE IF c = "src" THEN <<"send", "dst">> ELSE <<"result", "src">>
    /\ UNCHANGED <<conf, cmd, firstCall, sh, idle, out, failures>>

SendRejected(c) ==
    /\ pc = <<"send", c>>
    /\ out[c] # NoMsg
    /\ \/ /\ pool[c].status = "pending" \/ ~TxAccepted(Latest(c), out[c])
          /\ UNCHANGED faults
       \/ Fault
    /\ Sent(c, FALSE)
    /\ UNCHANGED <<chainVars, operatorVars>>

\* Variant with a fault: the transaction is not waited for.
WaitForCommit_Broadcast(c) ==
    /\ pc = <<"wait", c>>
    /\ pool[c].status # "none"
    /\ Sent(c, TRUE)
    /\ UNCHANGED <<chainVars, operatorVars, faults>>

WaitForCommit(c) ==
    /\ pc = <<"wait", c>>
    /\ pool[c].status = "followed"
    /\ Sent(c, pool[c].ok)
    /\ UNCHANGED <<chainVars, operatorVars, faults>>

GiveUpWaiting(c) ==
    /\ pc = <<"wait", c>>
    /\ \/ pool[c].status = "none" /\ UNCHANGED faults
       \/ pool[c].status # "none" /\ Fault
    /\ Sent(c, FALSE)
    /\ UNCHANGED <<chainVars, operatorVars>>

\* Variant with a fault: failures are counted but do not end the command.
TooManyFailures_Never == FALSE

TooManyFailures == failures + 1 > MaxFailures

\* What execute and cancel make of the outcome.
SendResult ==
    /\ pc[1] = "result"
    /\ \/ /\ cmd # "execute" /\ succeeded
          /\ pc' = <<"done", "src">>
          /\ out' = NoMsgs
          /\ UNCHANGED <<firstCall, sh, idle, succeeded, failures>>
       \/ cmd # "execute" /\ ~succeeded /\ Fail /\ UNCHANGED failures
       \/ /\ cmd = "execute" /\ succeeded
          /\ pc' = <<"sync", "src">>
          /\ UNCHANGED <<firstCall, roundVars, failures>>
       \/ /\ cmd = "execute" /\ ~succeeded /\ TooManyFailures
          /\ Fail
          /\ failures' = 0
       \/ /\ cmd = "execute" /\ ~succeeded /\ ~TooManyFailures
          /\ NewRound
          /\ failures' = failures + 1
    /\ UNCHANGED <<chainVars, operatorVars, conf, cmd, faults>>

\* Variant with a fault: only an OPEN message is taken for the end of an upgrade.
Sync_OpenOnly(c) ==
    /\ pc = <<"sync", c>>
    /\ conf' = IF out[c].act # "OPEN" \/ pool[c].event = None THEN conf
               ELSE [conf EXCEPT ![c] = pool[c].event]
    /\ IF c = "src"
       THEN pc' = <<"sync", "dst">> /\ UNCHANGED <<firstCall, roundVars, failures>>
       ELSE NewRound /\ failures' = 0
    /\ UNCHANGED <<chainVars, operatorVars, cmd, faults>>

\* SyncChainConfigFromEvents: an EventUpgradeChannel updates the path configuration.
Sync(c) ==
    /\ pc = <<"sync", c>>
    /\ conf' = IF out[c] = NoMsg \/ pool[c].event = None THEN conf
               ELSE [conf EXCEPT ![c] = pool[c].event]
    /\ IF c = "src"
       THEN pc' = <<"sync", "dst">> /\ UNCHANGED <<firstCall, roundVars, failures>>
       ELSE NewRound /\ failures' = 0
    /\ UNCHANGED <<chainVars, operatorVars, cmd, faults>>

\* A query fails, or the process is killed.
Interrupt ==
    /\ pc[1] \notin Ended
    /\ Fault
    /\ Fail
    /\ UNCHANGED <<chainVars, operatorVars, conf, cmd, failures>>

Start(command) ==
    /\ pc[1] \in Ended
    /\ cmd' = command
    /\ target' \in Targets
    /\ cancels' = IF command = "execute" THEN cancels ELSE cancels + 1
    /\ cancels' <= MaxCancels
    /\ pc' = <<"header", IF command = "execute" THEN "src" ELSE command>>
    /\ firstCall' = TRUE
    /\ failures' = 0
    /\ UNCHANGED <<chainVars, checked, conf, roundVars, faults>>

\* Execute with the default targets.
ExecuteToTheEnd == Start("execute") /\ \A c \in Chains : target'[c] = "UNINIT"

-----------------------------------------------------------------------------
RelayerStep ==
    \/ \E c \in Chains :
         \/ ReadHeader(c) \/ SettledChannel(c) \/ SettledUpgrade(c) \/ QueryIdle(c)
         \/ SendNothing(c) \/ Broadcast(c) \/ SendRejected(c) \/ WaitForCommit(c)
         \/ GiveUpWaiting(c) \/ Sync(c)
    \/ Finish \/ NotInitialized \/ BuildMsgs \/ BuildError \/ BuildCancel \/ SendResult

Next ==
    \/ \E c \in Chains :
         \/ NewBlock(c) \/ FlushPackets(c) \/ Elapse(c) \/ ExecTx(c) \/ DropTx(c)
         \/ InitCheck(c) \/ InitSend(c)
    \/ RelayerStep \/ Interrupt
    \/ \E command \in Commands : Start(command)

Spec == Init /\ [][Next]_vars

(***************************************************************************)
(* Fairness: blocks come and include pending transactions, packets are     *)
(* relayed, timeouts elapse, the command goes on, and the operator runs    *)
(* execute again when it has failed.                                       *)
(***************************************************************************)
FairSpec ==
    /\ Spec
    /\ WF_vars(RelayerStep) /\ SF_vars(ExecuteToTheEnd)
    /\ \A c \in Chains : /\ WF_vars(NewBlock(c)) /\ WF_vars(ExecTx(c))
                         /\ WF_vars(FlushPackets(c)) /\ WF_vars(Elapse(c))

-----------------------------------------------------------------------------
(* Properties *)

\* When execute reports the end of the upgrade the ends agree on a version, although it
\* looked at blocks of the past and a transaction it gave up may have been executed since.
DoneIsAgreed ==
    pc[1] = "done" /\ cmd = "execute" /\ (\A c \in Chains : target[c] = "UNINIT")
        => Latest("src").ver = Latest("dst").ver

\* Without faults, timeouts or replaced proposals a chain accepts every message, since execute
\* waits for its transactions and acts on settled ends only; just a confirm may find that the
\* last acknowledgement has completed the flush before it.
StepsAreAccepted ==
    faults = 0 => \A c \in Chains :
        pc = <<"send", c>> /\ out[c] # NoMsg
            => \/ TxAccepted(Latest(c), out[c])
               \/ out[c].act = "CONFIRM" /\ Latest(c).state = "FLUSHCOMPLETE"

\* Without faults the path configuration has followed the channel when execute succeeds.
ConfigFollows ==
    pc[1] = "done" /\ faults = 0 => \A c \in Chains : conf[c] = Latest(c).ver

\* Whatever is proposed, cancelled, lost or timed out, running execute brings both ends back
\* to the same version without an upgrade.
Uniform ==
    /\ \A c \in Chains : Latest(c).state = "OPEN" /\ Latest(c).upg = None
    /\ Latest("src").ver = Latest("dst").ver

EventuallyUniform == <>[]Uniform

\* A proposal that is neither cancelled nor replaced and does not time out is carried out,
\* whatever transactions are lost or late and wherever the command is interrupted.
ProposalsComplete ==
    (\E c \in Chains : Latest(c).upg = 2) ~> [](\A c \in Chains : Latest(c).ver = 2)
=============================================================================
