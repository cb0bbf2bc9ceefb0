------------------------ MODULE ChannelUpgrade_proofs ------------------------
(***************************************************************************)
(* Type correctness of ChannelUpgrade for all constants, and, for one      *)
(* proposal per end without timeouts and cancels, that execute ends in     *)
(* agreement whatever faults there are, and that without faults chains     *)
(* accept what they are sent and the configuration follows.  Ends of both  *)
(* chains, and copies of them, are in headers, messages and transactions;  *)
(* the proofs follow what is true of every one of them: its shape (Sound)  *)
(* and how far it has come (Stage).                                        *)
(***************************************************************************)
EXTENDS ChannelUpgrade, TLAPS

-----------------------------------------------------------------------------
(* Ends *)

\* An end that flushes, or has stored the counterparty's upgrade, has an upgrade of
\* its own, and an upgrade has a sequence.
Sound(e) ==
    /\ e \in End
    /\ e.state # "OPEN" \/ e.cp => e.upg # None
    /\ e.upg # None => e.seq >= 1

SoundMsg(m) == m \in Msg /\ Sound(m.proven)

SoundTx(t) == t \in Tx /\ SoundMsg(t.msg)

SoundHeader(h) == h \in [at : End, proves : End] /\ Sound(h.at) /\ Sound(h.proves)

\* The types of the constants.
LEMMA ConstantTypes ==
    /\ Versions \subseteq Nat /\ None \notin Versions /\ 1 \in Versions
    /\ MaxSeq \in Nat /\ MaxCancels \in Nat /\ MaxFailures \in Nat /\ MaxFaults \in Nat
    /\ Depth \in Nat /\ Delay \in 0..Depth /\ 0 \in 0..Depth
    /\ Targets \subseteq [Chains -> UpgradeStates]
    /\ Authority \in BOOLEAN
  BY UpgradeAssumption DEF None, Depth

\* The fields of an end.
LEMMA EndFields ==
    ASSUME NEW e \in End
    PROVE  /\ e.state \in {"OPEN", "FLUSHING", "FLUSHCOMPLETE"} /\ e.seq \in 0..MaxSeq
           /\ e.ver \in Versions /\ e.upg \in Versions \cup {None} /\ e.receipt \in 0..MaxSeq
           /\ e.late \in SUBSET Seqs /\ e.busy \in BOOLEAN /\ e.cp \in BOOLEAN
  BY DEF End

\* A channel that has just been opened.
LEMMA FreshSound == \A busy \in BOOLEAN : Sound(Fresh(busy))
<1>1. 0 \in 0..MaxSeq /\ 1 \in Versions /\ {} \in SUBSET Seqs
  BY ConstantTypes
<1> QED
  BY <1>1 DEF Sound, End, Fresh, None

\* An upgrade that is given up.
LEMMA AbortedSound ==
    ASSUME NEW e, Sound(e), NEW r \in 0..MaxSeq
    PROVE  Sound(Aborted(e, r))
  BY DEF Sound, End, Aborted, None

\* An upgrade that is carried out.
LEMMA UpgradedSound ==
    ASSUME NEW e, Sound(e), e.upg # None
    PROVE  Sound(Upgraded(e))
<1>1. e.upg \in Versions
  BY EndFields DEF Sound
<1> QED
  BY <1>1 DEF Sound, End, Upgraded, None

\* An end that has stored the counterparty's upgrade.
LEMMA FlushedSound ==
    ASSUME NEW e, Sound(e), e.upg # None
    PROVE  Sound(Flushed(e))
<1>1. (IF e.busy THEN "FLUSHING" ELSE "FLUSHCOMPLETE") \in {"OPEN", "FLUSHING", "FLUSHCOMPLETE"}
  OBVIOUS
<1> QED
  BY <1>1 DEF Sound, End, Flushed

\* What a message leaves of the end that accepts it.
LEMMA ResultSound ==
    ASSUME NEW e, Sound(e), NEW act \in Actions, NEW p, Sound(p), Accepted(e, act, p)
    PROVE  Sound(Result(e, act, p))
<1>0. /\ e \in End /\ p \in End
      /\ e.seq \in 0..MaxSeq /\ p.seq \in 0..MaxSeq /\ e.receipt \in 0..MaxSeq /\ p.receipt \in 0..MaxSeq
      /\ e.upg \in Versions \cup {None} /\ p.upg \in Versions \cup {None} /\ MaxSeq \in Nat
  BY EndFields, ConstantTypes DEF Sound
<1>1. CASE act = "TRY"
  <2>1. e.state = "OPEN" /\ p.state = "OPEN" /\ p.upg # None /\ p.seq >= 1
    BY <1>1 DEF Accepted, Sound
  <2> DEFINE seq == Larger(e.seq, p.seq)
  <2>2. seq \in 1..MaxSeq
    BY <1>0, <2>1 DEF Larger
  <2>3. CASE p.seq < e.seq \/ (p.seq = e.seq /\ e.upg = None)
    <3>1. Larger(e.receipt, e.seq - 1) \in 0..MaxSeq
      BY <1>0, <2>1, <2>3 DEF Larger
    <3>2. Sound([e EXCEPT !.receipt = Larger(@, e.seq - 1)])
      BY <3>1 DEF Sound, End
    <3> QED
      BY <1>1, <2>3, <3>2 DEF Result
  <2>4. CASE ~(p.seq < e.seq \/ (p.seq = e.seq /\ e.upg = None)) /\ e.upg \notin {None, p.upg}
    <3>1. Result(e, act, p) = Aborted(e, seq)
      BY <1>1, <2>4 DEF Result
    <3> QED
      BY <2>2, <3>1, AbortedSound
  <2>5. CASE ~(p.seq < e.seq \/ (p.seq = e.seq /\ e.upg = None)) /\ e.upg \in {None, p.upg}
    <3>1. Result(e, act, p) = [e EXCEPT !.state = "FLUSHING", !.upg = p.upg, !.seq = seq]
      BY <1>1, <2>5 DEF Result
    <3>2. seq \in 0..MaxSeq /\ seq >= 1
      BY <1>0, <2>2
    <3> HIDE DEF seq
    <3>3. [e EXCEPT !.state = "FLUSHING", !.upg = p.upg, !.seq = seq] \in End
      BY <1>0, <3>2 DEF End
    <3>4. Sound([e EXCEPT !.state = "FLUSHING", !.upg = p.upg, !.seq = seq])
      BY <1>0, <2>1, <3>2, <3>3 DEF Sound, End
    <3> QED
      BY <3>1, <3>4
  <2> QED
    BY <2>3, <2>4, <2>5
<1>2. CASE act = "ACK"
  <2>1. e.upg # None
    BY <1>2 DEF Accepted
  <2>2. Result(e, act, p) \in {Aborted(e, e.seq), Flushed(e)}
    BY <1>2 DEF Result
  <2> QED
    BY <1>0, <2>1, <2>2, AbortedSound, FlushedSound
<1>3. CASE act = "CONFIRM"
  <2>1. e.upg # None
    BY <1>3 DEF Accepted, Sound
  <2>2. Result(e, act, p) \in {Aborted(e, e.seq), Flushed(e), Upgraded(e)}
    BY <1>3 DEF Result
  <2> QED
    BY <1>0, <2>1, <2>2, AbortedSound, FlushedSound, UpgradedSound
<1>4. CASE act = "OPEN"
  <2>1. e.upg # None
    BY <1>4 DEF Accepted, Sound
  <2>2. Result(e, act, p) = Upgraded(e)
    BY <1>4 DEF Result
  <2> QED
    BY <2>1, <2>2, UpgradedSound
<1>5. CASE act = "TIMEOUT"
  <2>1. Result(e, act, p) = Aborted(e, e.seq)
    BY <1>5 DEF Result
  <2> QED
    BY <1>0, <2>1, AbortedSound
<1>6. CASE act \notin {"TRY", "ACK", "CONFIRM", "OPEN", "TIMEOUT"}
  <2>1. Result(e, act, p) \in {Aborted(e, e.seq), Aborted(e, p.receipt)}
    BY <1>6 DEF Result
  <2> QED
    BY <1>0, <2>1, AbortedSound
<1> QED
  BY <1>1, <1>2, <1>3, <1>4, <1>5, <1>6

\* A transaction that succeeds.
LEMMA TxResultSound ==
    ASSUME NEW e, Sound(e), NEW m, SoundMsg(m), TxAccepted(e, m)
    PROVE  Sound(TxResult(e, m))
<1>1. m.act \in Actions /\ Sound(m.proven)
  BY DEF SoundMsg, Msg
<1> DEFINE once == Result(e, m.act, m.proven)
<1>2. Sound(once)
  BY <1>1, ResultSound DEF TxAccepted
<1>3. m.copies = 2 => Sound(Result(once, m.act, m.proven))
  BY <1>1, <1>2, ResultSound DEF TxAccepted
<1> QED
  BY <1>2, <1>3 DEF TxResult

-----------------------------------------------------------------------------
(* The invariant *)

TypeInv ==
    /\ TypeOK
    /\ \A c \in Chains : /\ \A i \in 0..Depth : Sound(hist[c][i])
                         /\ SoundTx(pool[c]) /\ SoundMsg(out[c]) /\ SoundHeader(sh[c])

\* No message, no header, no transaction.
LEMMA NothingSound ==
    /\ SoundMsg(NoMsg) /\ SoundTx(NoTx)
    /\ \A c \in Chains : SoundMsg(NoMsgs[c]) /\ SoundHeader(NoHeaders[c])
    /\ NoMsgs \in [Chains -> Msg] /\ NoHeaders \in [Chains -> [at : End, proves : End]]
    /\ NoAnswers \in [Chains -> BOOLEAN]
<1>1. Sound(Fresh(FALSE))
  BY FreshSound
<1>2. SoundMsg(NoMsg)
  <2>1. Fresh(FALSE) \in End
    BY <1>1, Zenon DEF Sound
  <2>2. \A f \in End : [act |-> "NONE", proven |-> f, copies |-> 0] \in Msg
    BY DEF Msg, Actions
  <2>3. NoMsg \in Msg
    BY <2>1, <2>2, Zenon DEF NoMsg
  <2> QED
    BY <1>1, <2>3, Zenon DEF SoundMsg, NoMsg
<1>3. SoundTx(NoTx)
  BY <1>2 DEF SoundTx, SoundMsg, NoTx, Tx
<1>4. \A c \in Chains : SoundMsg(NoMsgs[c]) /\ SoundHeader(NoHeaders[c])
  BY <1>1, <1>2 DEF NoMsgs, NoHeaders, SoundHeader, Sound
<1> QED
  BY <1>1, <1>2, <1>3, <1>4 DEF NoMsgs, NoHeaders, NoAnswers, SoundMsg, Sound

\* The invariant holds at the start.
LEMMA TypeInit == Init => TypeInv
<1> SUFFICES ASSUME Init PROVE TypeInv
  OBVIOUS
<1>1. PICK busy \in [Chains -> BOOLEAN] : hist = [c \in Chains |-> [i \in 0..Depth |-> Fresh(busy[c])]]
  BY DEF Init
<1>2. \A c \in Chains, i \in 0..Depth : Sound(hist[c][i]) /\ hist[c][i] = Fresh(busy[c])
  BY <1>1, FreshSound
<1>3. hist \in [Chains -> [0..Depth -> End]]
  <2>1. \A c \in Chains : Fresh(busy[c]) \in End
    BY FreshSound DEF Sound
  <2> QED
    BY <1>1, <2>1
<1>4. /\ \A c \in Chains : SoundTx(pool[c]) /\ SoundMsg(out[c]) /\ SoundHeader(sh[c])
      /\ pool \in [Chains -> Tx] /\ out \in [Chains -> Msg]
      /\ sh \in [Chains -> [at : End, proves : End]] /\ idle \in [Chains -> BOOLEAN]
  BY NothingSound DEF Init, SoundTx
<1>5. /\ checked \in [Chains -> BOOLEAN] /\ conf \in [Chains -> Versions] /\ cmd \in Commands
      /\ target \in Targets /\ pc \in Phases \X Chains /\ firstCall \in BOOLEAN
      /\ succeeded \in BOOLEAN
      /\ failures \in 0..MaxFailures /\ cancels \in 0..MaxCancels /\ faults \in 0..MaxFaults
  BY ConstantTypes DEF Init, Commands, Phases, Ended, Chains
<1> QED
  BY <1>2, <1>3, <1>4, <1>5 DEF TypeInv, TypeOK

\* A block with a sound end keeps the window of the chain sound.
LEMMA BlockSound ==
    ASSUME TypeInv, NEW c \in Chains, NEW e, Sound(e), AddBlock(c, e)
    PROVE  /\ hist' \in [Chains -> [0..Depth -> End]]
           /\ \A d \in Chains, i \in 0..Depth : Sound(hist'[d][i])
<1>1. \A i \in 0..Depth : i # 0 => i - 1 \in 0..Depth
  BY ConstantTypes
<1>2. hist \in [Chains -> [0..Depth -> End]] /\ e \in End
      /\ \A d \in Chains, i \in 0..Depth : Sound(hist[d][i])
  BY DEF TypeInv, TypeOK, Sound
<1>3. [i \in 0..Depth |-> IF i = 0 THEN e ELSE hist[c][i - 1]] \in [0..Depth -> End]
  BY <1>1, <1>2
<1>4. hist' \in [Chains -> [0..Depth -> End]]
  BY <1>2, <1>3 DEF AddBlock
<1>5. ASSUME NEW d \in Chains, NEW i \in 0..Depth PROVE Sound(hist'[d][i])
  <2>1. CASE d # c
    BY <1>2, <2>1 DEF AddBlock
  <2>2. CASE d = c
    <3>1. hist'[d][i] = IF i = 0 THEN e ELSE hist[c][i - 1]
      BY <1>2, <2>2 DEF AddBlock
    <3> QED
      BY <1>1, <1>2, <3>1
  <2> QED
    BY <2>1, <2>2
<1> QED
  BY <1>4, <1>5

\* The latest end of a chain.
LEMMA LatestSound ==
    ASSUME TypeInv, NEW c \in Chains
    PROVE  Sound(Latest(c)) /\ Latest(c) \in End
  BY ConstantTypes DEF TypeInv, Latest, Sound

\* Steps of the chains and of init leave the relayer alone.
LEMMA ChainSide ==
    ASSUME TypeInv, UNCHANGED relayerVars, target' = target, cancels' = cancels,
           checked' \in [Chains -> BOOLEAN], faults' \in 0..MaxFaults,
           hist' \in [Chains -> [0..Depth -> End]], \A d \in Chains, i \in 0..Depth : Sound(hist'[d][i]),
           pool' \in [Chains -> Tx], \A d \in Chains : SoundTx(pool'[d])
    PROVE  TypeInv'
  BY DEF TypeInv, TypeOK, relayerVars, roundVars, SoundTx, SoundMsg, SoundHeader, Sound

\* The number of faults stays within its bound.
LEMMA FaultBound ==
    ASSUME TypeInv, Fault
    PROVE  faults' \in 0..MaxFaults
  BY ConstantTypes DEF TypeInv, TypeOK, Fault

\* Every step of a chain or of an init command keeps the types.
LEMMA ChainStepKeepsTypes ==
    ASSUME TypeInv, NEW c \in Chains,
           NewBlock(c) \/ FlushPackets(c) \/ Elapse(c) \/ ExecTx(c) \/ DropTx(c)
             \/ InitCheck(c) \/ InitSend(c)
    PROVE  TypeInv'
<1>0. /\ Sound(Latest(c)) /\ Latest(c) \in End /\ pool \in [Chains -> Tx] /\ SoundTx(pool[c])
      /\ \A d \in Chains : SoundTx(pool[d])
      /\ hist \in [Chains -> [0..Depth -> End]] /\ \A d \in Chains, i \in 0..Depth : Sound(hist[d][i])
      /\ checked \in [Chains -> BOOLEAN] /\ faults \in 0..MaxFaults
  BY LatestSound DEF TypeInv, TypeOK
<1>1. CASE NewBlock(c)
  <2>1. /\ hist' \in [Chains -> [0..Depth -> End]]
        /\ \A d \in Chains, i \in 0..Depth : Sound(hist'[d][i])
    BY <1>0, <1>1, BlockSound DEF NewBlock
  <2>2. [pool[c] EXCEPT !.status = IF @ = "committed" THEN "followed" ELSE @] \in Tx
    BY <1>0 DEF Tx
  <2>3. pool' \in [Chains -> Tx] /\ \A d \in Chains : pool'[d].msg = pool[d].msg
    BY <1>0, <1>1, <2>2 DEF NewBlock, Tx
  <2>4. \A d \in Chains : SoundTx(pool'[d])
    BY <1>0, <2>3 DEF SoundTx
  <2> QED
    BY <1>0, <1>1, <2>1, <2>3, <2>4, ChainSide DEF NewBlock, operatorVars
<1>2. CASE FlushPackets(c)
  <2> DEFINE e == [Latest(c) EXCEPT !.busy = FALSE]
             new == IF ~e.cp THEN e
                    ELSE IF e.seq \in e.late THEN Aborted(e, e.seq)
                    ELSE Flushed(e)
  <2>1. Sound(e) /\ (e.cp => e.upg # None) /\ e.seq \in 0..MaxSeq
    BY <1>0 DEF Sound, End
  <2>2. Sound(new)
    <3> HIDE DEF e
    <3> QED
      BY <2>1, AbortedSound, FlushedSound
  <2>3. AddBlock(c, new)
    BY <1>2 DEF FlushPackets
  <2>4. /\ hist' \in [Chains -> [0..Depth -> End]]
        /\ \A d \in Chains, i \in 0..Depth : Sound(hist'[d][i])
    <3> HIDE DEF new
    <3> QED
      BY <2>2, <2>3, BlockSound
  <2> QED
    BY <1>0, <1>2, <2>4, ChainSide DEF FlushPackets, operatorVars
<1>3. CASE Elapse(c)
  <2> DEFINE o == Latest(Other(c))
             new == [Latest(c) EXCEPT !.late = @ \cup {o.seq}]
  <2>1. Sound(o) /\ o \in End /\ o.state # "OPEN"
    BY <1>3, LatestSound DEF Elapse, Other, Chains
  <2>2. o.seq \in Seqs
    <3> HIDE DEF o
    <3>1. o.seq \in 0..MaxSeq /\ o.seq >= 1 /\ MaxSeq \in Nat
      BY <2>1, EndFields, ConstantTypes DEF Sound
    <3> QED
      BY <3>1 DEF Seqs
  <2>3. Sound(new)
    <3> HIDE DEF o
    <3> QED
      BY <1>0, <2>2 DEF Sound, End
  <2>4. AddBlock(c, new)
    BY <1>3 DEF Elapse
  <2>5. /\ hist' \in [Chains -> [0..Depth -> End]]
        /\ \A d \in Chains, i \in 0..Depth : Sound(hist'[d][i])
    <3> HIDE DEF new
    <3> QED
      BY <2>3, <2>4, BlockSound
  <2> QED
    BY <1>0, <1>3, <2>5, ChainSide DEF Elapse, operatorVars
<1>4. CASE ExecTx(c)
  <2> DEFINE e == Latest(c)
             m == pool[c].msg
             ok == TxAccepted(e, m)
             opens == ok /\ TxResult(e, m).ver # e.ver
             new == IF ok THEN TxResult(e, m) ELSE e
             tx == [status |-> "committed", msg |-> NoMsg, ok |-> ok,
                    event |-> IF opens THEN TxResult(e, m).ver ELSE None]
  <2>1. AddBlock(c, new) /\ pool' = [pool EXCEPT ![c] = tx]
    BY <1>4 DEF ExecTx
  <2>2. Sound(e) /\ SoundMsg(m)
    BY <1>0 DEF SoundTx
  <2>3. Sound(new) /\ (ok => TxResult(e, m).ver \in Versions)
    <3> HIDE DEF e, m
    <3>1. ok => Sound(TxResult(e, m))
      BY <2>2, TxResultSound
    <3> QED
      BY <2>2, <3>1 DEF Sound, End
  <2>4. ok \in BOOLEAN
    BY DEF TxAccepted
  <2>5. SoundTx(tx)
    <3> HIDE DEF e, m, ok
    <3>1. (IF opens THEN TxResult(e, m).ver ELSE None) \in Versions \cup {None}
      BY <2>3
    <3>2. tx \in Tx
      BY <2>4, <3>1, NothingSound DEF Tx, SoundMsg
    <3> QED
      BY <3>2, NothingSound DEF SoundTx
  <2>6. /\ hist' \in [Chains -> [0..Depth -> End]]
        /\ \A d \in Chains, i \in 0..Depth : Sound(hist'[d][i])
    <3> HIDE DEF new
    <3> QED
      BY <2>1, <2>3, BlockSound
  <2>7. pool' \in [Chains -> Tx] /\ \A d \in Chains : SoundTx(pool'[d])
    <3> HIDE DEF tx
    <3> QED
      BY <1>0, <2>1, <2>5 DEF SoundTx
  <2> QED
    BY <1>0, <1>4, <2>6, <2>7, ChainSide DEF ExecTx, operatorVars
<1>5. CASE DropTx(c)
  <2>1. pool' \in [Chains -> Tx] /\ \A d \in Chains : SoundTx(pool'[d])
    BY <1>0, <1>5, NothingSound DEF DropTx, SoundTx
  <2> QED
    BY <1>0, <1>5, <2>1, FaultBound, ChainSide DEF DropTx, operatorVars
<1>6. CASE InitCheck(c)
  BY <1>0, <1>6, ChainSide DEF InitCheck, chainVars
<1>7. CASE InitSend(c)
  <2>1. /\ hist' \in [Chains -> [0..Depth -> End]]
        /\ \A d \in Chains, i \in 0..Depth : Sound(hist'[d][i])
    <3>1. CASE Latest(c).state = "OPEN" /\ Latest(c).seq < MaxSeq
      <4>1. PICK v \in UpgradeFields(Latest(c)) : AddBlock(c, Proposed(Latest(c), v))
        BY <1>7, <3>1 DEF InitSend
      <4>2. Latest(c).seq + 1 \in 0..MaxSeq /\ Latest(c).seq + 1 >= 1 /\ v \in Versions
        BY <1>0, <3>1, EndFields, ConstantTypes DEF UpgradeFields
      <4>3. Sound(Proposed(Latest(c), v))
        BY <1>0, <4>2, ConstantTypes DEF Sound, End, Proposed
      <4> QED
        BY <4>1, <4>3, BlockSound
    <3>2. CASE ~(Latest(c).state = "OPEN" /\ Latest(c).seq < MaxSeq)
      BY <1>0, <1>7, <3>2 DEF InitSend
    <3> QED
      BY <3>1, <3>2
  <2> QED
    BY <1>0, <1>7, <2>1, ChainSide DEF InitSend
<1> QED
  BY <1>1, <1>2, <1>3, <1>4, <1>5, <1>6, <1>7

-----------------------------------------------------------------------------
(* The relayer *)

\* What a step of the relayer leaves alone, and what it has to keep.
LEMMA RelayerSide ==
    ASSUME TypeInv, UNCHANGED <<hist, checked>>,
           pool' \in [Chains -> Tx], \A d \in Chains : SoundTx(pool'[d]),
           conf' \in [Chains -> Versions], cmd' \in Commands, target' \in Targets,
           pc' \in Phases \X Chains, firstCall' \in BOOLEAN,
           sh' \in [Chains -> [at : End, proves : End]], \A d \in Chains : SoundHeader(sh'[d]),
           idle' \in [Chains -> BOOLEAN],
           out' \in [Chains -> Msg], \A d \in Chains : SoundMsg(out'[d]),
           succeeded' \in BOOLEAN, failures' \in 0..MaxFailures,
           cancels' \in 0..MaxCancels, faults' \in 0..MaxFaults
    PROVE  TypeInv'
  BY DEF TypeInv, TypeOK, SoundTx, SoundMsg, SoundHeader, Sound

\* The parts of the invariant.
LEMMA Types ==
    ASSUME TypeInv
    PROVE  /\ pool \in [Chains -> Tx] /\ (\A d \in Chains : SoundTx(pool[d]))
           /\ conf \in [Chains -> Versions] /\ cmd \in Commands /\ target \in Targets
           /\ pc \in Phases \X Chains /\ firstCall \in BOOLEAN
           /\ sh \in [Chains -> [at : End, proves : End]] /\ (\A d \in Chains : SoundHeader(sh[d]))
           /\ idle \in [Chains -> BOOLEAN]
           /\ out \in [Chains -> Msg] /\ (\A d \in Chains : SoundMsg(out[d]))
           /\ succeeded \in BOOLEAN /\ failures \in 0..MaxFailures
           /\ cancels \in 0..MaxCancels /\ faults \in 0..MaxFaults
  BY DEF TypeInv, TypeOK

\* Where a phase goes on.
LEMMA ThenType ==
    ASSUME TypeInv, NEW c \in Chains, NEW phase \in Phases
    PROVE  Then(c, phase) \in Phases \X Chains /\ First \in Chains
<1>1. First \in Chains
  BY Types DEF First, Commands, Chains
<1>2. pc[1] \in Phases /\ Other(First) \in Chains
  BY Types DEF Other, Chains
<1> QED
  BY <1>1, <1>2 DEF Then

\* A new round, or the end of the command, begins with nothing.
LEMMA Reset ==
    ASSUME TypeInv, NewRound \/ Fail
    PROVE  /\ pc' \in Phases \X Chains /\ firstCall' \in BOOLEAN
           /\ sh' \in [Chains -> [at : End, proves : End]] /\ (\A d \in Chains : SoundHeader(sh'[d]))
           /\ idle' \in [Chains -> BOOLEAN]
           /\ out' \in [Chains -> Msg] /\ (\A d \in Chains : SoundMsg(out'[d]))
           /\ succeeded' \in BOOLEAN
<1>1. First \in Chains
  BY Types DEF First, Commands, Chains
<1>2. pc' \in Phases \X Chains
  BY <1>1 DEF NewRound, Fail, Phases, Reading, Ended, Chains
<1> QED
  BY <1>2, Types, NothingSound DEF NewRound, Fail

\* A message that is built from the headers of the round.
LEMMA ActionMsgSound ==
    ASSUME TypeInv, NEW c \in Chains, NEW act \in Actions, NEW copies \in 1..2
    PROVE  SoundMsg(ActionMsg(c, act, copies))
<1>1. SoundHeader(sh[Other(c)])
  BY Types DEF Other, Chains
<1> DEFINE e == sh[Other(c)].at
<1>2. Sound(e) /\ e \in End
  BY <1>1 DEF SoundHeader, Sound
<1>3. [act |-> act, proven |-> e, copies |-> copies] \in Msg
  <2> HIDE DEF e
  <2> QED
    BY <1>2 DEF Msg
<1> QED
  BY <1>2, <1>3, NothingSound DEF ActionMsg, SoundMsg

\* The switch of upgradeChannelStep knows the actions only.
LEMMA NextActionType == \A c : NextAction(c) \in Actions
<1> TAKE c
<1>1. \A seq, cpSeq : CrossingHellosAction(seq, cpSeq) \in Actions
  BY DEF CrossingHellosAction, Actions
<1>2. FlushCompleteAction(c) \in Actions
  BY DEF FlushCompleteAction, Actions
<1> QED
  BY <1>1, <1>2 DEF NextAction, Actions

\* The queries of a round keep the types.
LEMMA ReadingKeepsTypes ==
    ASSUME TypeInv, NEW c \in Chains,
           ReadHeader(c) \/ SettledChannel(c) \/ SettledUpgrade(c) \/ QueryIdle(c)
    PROVE  TypeInv'
<1>0. {"channel", "upgrade", "idle", "choose"} \subseteq Phases
  BY DEF Phases, Reading
<1>1. CASE ReadHeader(c)
  <2>1. Delay \in 0..Depth /\ Depth \in 0..Depth
    BY ConstantTypes
  <2>2. hist[c][Delay] \in End /\ hist[c][Depth] \in End /\ Sound(hist[c][Delay]) /\ Sound(hist[c][Depth])
    BY <2>1 DEF TypeInv, Sound
  <2>3. SoundHeader([at |-> hist[c][Delay], proves |-> hist[c][Depth]])
    BY <2>2 DEF SoundHeader
  <2>4. sh' \in [Chains -> [at : End, proves : End]] /\ \A d \in Chains : SoundHeader(sh'[d])
    BY <1>1, <2>3, Types DEF ReadHeader, SoundHeader
  <2>5. pc' \in Phases \X Chains
    BY <1>0, <1>1, ThenType DEF ReadHeader
  <2> QED
    BY <1>1, <2>4, <2>5, Types, RelayerSide DEF ReadHeader, chainVars, operatorVars
<1>2. CASE SettledChannel(c)
  <2>1. UNCHANGED <<hist, pool, checked, cancels, target, conf, cmd, failures, faults>>
    BY <1>2 DEF SettledChannel, chainVars, operatorVars
  <2>2. CASE pc' = Then(c, "upgrade") /\ UNCHANGED <<firstCall, roundVars>>
    BY <1>0, <2>1, <2>2, ThenType, Types, RelayerSide DEF roundVars
  <2>3. CASE NewRound
    BY <2>1, <2>3, Reset, Types, RelayerSide
  <2> QED
    BY <1>2, <2>2, <2>3 DEF SettledChannel
<1>3. CASE SettledUpgrade(c)
  <2>1. UNCHANGED <<hist, pool, checked, cancels, target, conf, cmd, failures, faults>>
    BY <1>3 DEF SettledUpgrade, chainVars, operatorVars
  <2>2. CASE pc' \in {Then(c, "idle"), Then(c, "choose")} /\ UNCHANGED <<firstCall, roundVars>>
    BY <1>0, <2>1, <2>2, ThenType, Types, RelayerSide DEF roundVars
  <2>3. CASE NewRound
    BY <2>1, <2>3, Reset, Types, RelayerSide
  <2> QED
    BY <1>3, <2>2, <2>3 DEF SettledUpgrade
<1>4. CASE QueryIdle(c)
  <2>1. (~Latest(c).busy) \in BOOLEAN
    OBVIOUS
  <2>2. idle' \in [Chains -> BOOLEAN]
    BY <1>4, Types DEF QueryIdle
  <2>3. pc' \in Phases \X Chains
    BY <1>0, <1>4, ThenType DEF QueryIdle
  <2> QED
    BY <1>4, <2>2, <2>3, Types, RelayerSide DEF QueryIdle, chainVars, operatorVars
<1> QED
  BY <1>1, <1>2, <1>3, <1>4

\* Choosing the messages of a round keeps the types.
LEMMA ChoosingKeepsTypes ==
    ASSUME TypeInv, Finish \/ NotInitialized \/ BuildMsgs \/ BuildError \/ BuildCancel
    PROVE  TypeInv'
<1>1. CASE Finish
  <2>1. pc' \in Phases \X Chains
    BY <1>1 DEF Finish, Phases, Ended, Chains
  <2> QED
    BY <1>1, <2>1, Types, NothingSound, RelayerSide DEF Finish, chainVars, operatorVars
<1>2. CASE NotInitialized \/ BuildError
  BY <1>2, Reset, Types, RelayerSide DEF NotInitialized, BuildError, chainVars, operatorVars
<1>3. CASE BuildMsgs
  <2>1. PICK again \in SUBSET Chains :
          /\ \/ again = {} /\ UNCHANGED faults
             \/ Cardinality(again) = 1 /\ Fault /\ \A c \in Chains : NextAction(c) # "NONE"
          /\ out' = [c \in Chains |-> ActionMsg(c, NextAction(c), IF c \in again THEN 2 ELSE 1)]
    BY <1>3 DEF BuildMsgs
  <2>2. \A c \in Chains : SoundMsg(ActionMsg(c, NextAction(c), IF c \in again THEN 2 ELSE 1))
    <3>1. \A c \in Chains : (IF c \in again THEN 2 ELSE 1) \in 1..2
      OBVIOUS
    <3> QED
      BY <3>1, NextActionType, ActionMsgSound
  <2>3. \A c \in Chains : SoundMsg(out'[c])
    BY <2>1, <2>2
  <2>4. out' \in [Chains -> Msg]
    BY <2>1, <2>2 DEF SoundMsg
  <2>5. pc' \in Phases \X Chains
    BY <1>3 DEF BuildMsgs, Phases, Reading, Chains
  <2>6. faults' \in 0..MaxFaults
    BY <2>1, FaultBound, Types
  <2> QED
    BY <1>3, <2>3, <2>4, <2>5, <2>6, Types, NothingSound, RelayerSide DEF BuildMsgs, chainVars, operatorVars
<1>4. CASE BuildCancel
  <2>0. UNCHANGED <<hist, pool, checked, cancels, target, conf, cmd, failures, faults>>
        /\ cmd \in Chains
    BY <1>4, Types DEF BuildCancel, chainVars, operatorVars, Commands
  <2>1. CASE Fail
    BY <2>0, <2>1, Reset, Types, RelayerSide
  <2>2. CASE /\ out' = [NoMsgs EXCEPT ![cmd] = ActionMsg(cmd, CancelAction, 1)]
             /\ pc' = <<"send", cmd>>
             /\ sh' = NoHeaders
             /\ UNCHANGED <<firstCall, idle, succeeded>>
    <3>1. CancelAction \in Actions
      BY DEF CancelAction, Actions
    <3>2. SoundMsg(ActionMsg(cmd, CancelAction, 1))
      BY <2>0, <3>1, ActionMsgSound
    <3>3. out' \in [Chains -> Msg] /\ \A d \in Chains : SoundMsg(out'[d])
      BY <2>0, <2>2, <3>2, NothingSound DEF SoundMsg
    <3>4. pc' \in Phases \X Chains
      BY <2>0, <2>2 DEF Phases
    <3> QED
      BY <2>0, <2>2, <3>3, <3>4, Types, NothingSound, RelayerSide
  <2> QED
    BY <1>4, <2>1, <2>2 DEF BuildCancel
<1> QED
  BY <1>1, <1>2, <1>3, <1>4

\* Sending, and what is made of the outcome, keeps the types.
LEMMA SendingKeepsTypes ==
    ASSUME TypeInv, NEW c \in Chains,
           SendNothing(c) \/ Broadcast(c) \/ SendRejected(c) \/ WaitForCommit(c)
             \/ GiveUpWaiting(c) \/ SendResult \/ Sync(c)
    PROVE  TypeInv'
<1>0. {"send", "wait", "result", "sync", "done"} \subseteq Phases
  BY DEF Phases, Ended
<1>a. ASSUME NEW ok \in BOOLEAN, Sent(c, ok), UNCHANGED <<hist, pool, checked, cancels, target>>,
             faults' \in 0..MaxFaults
      PROVE  TypeInv'
  <2>1. cmd # "execute" => cmd \in Chains
    BY Types DEF Commands
  <2>2. pc' \in Phases \X Chains
    BY <1>0, <1>a, <2>1 DEF Sent, Chains
  <2>3. succeeded' \in BOOLEAN
    BY <1>a DEF Sent
  <2> QED
    BY <1>a, <2>2, <2>3, Types, RelayerSide DEF Sent
<1>1. CASE SendNothing(c)
  BY <1>0, <1>1, ThenType, Types, RelayerSide DEF SendNothing, chainVars, operatorVars, roundVars
<1>2. CASE Broadcast(c)
  <2> DEFINE tx == [NoTx EXCEPT !.status = "pending", !.msg = out[c]]
  <2>1. SoundMsg(out[c]) /\ NoTx \in Tx
    BY Types, NothingSound DEF SoundTx
  <2>2. SoundTx(tx)
    BY <2>1 DEF SoundTx, Tx, SoundMsg
  <2>3. pool' \in [Chains -> Tx] /\ \A d \in Chains : SoundTx(pool'[d])
    <3>1. pool' = [pool EXCEPT ![c] = tx]
      BY <1>2 DEF Broadcast
    <3> HIDE DEF tx
    <3> QED
      BY <2>2, <3>1, Types DEF SoundTx
  <2>4. pc' \in Phases \X Chains
    BY <1>0, <1>2 DEF Broadcast
  <2> QED
    BY <1>2, <2>3, <2>4, Types, RelayerSide DEF Broadcast, operatorVars, roundVars
<1>3. CASE SendRejected(c)
  BY <1>3, <1>a, FaultBound, Types DEF SendRejected, chainVars, operatorVars
<1>4. CASE WaitForCommit(c)
  <2>1. pool[c].ok \in BOOLEAN
    BY Types DEF Tx
  <2> QED
    BY <1>4, <1>a, <2>1, Types DEF WaitForCommit, chainVars, operatorVars
<1>5. CASE GiveUpWaiting(c)
  BY <1>5, <1>a, FaultBound, Types DEF GiveUpWaiting, chainVars, operatorVars
<1>6. CASE SendResult
  <2>0. UNCHANGED <<hist, pool, checked, cancels, target, conf, cmd, faults>>
    BY <1>6 DEF SendResult, chainVars, operatorVars
  <2>1. CASE pc' = <<"done", "src">> /\ out' = NoMsgs /\ UNCHANGED <<firstCall, sh, idle, succeeded, failures>>
    <3>1. pc' \in Phases \X Chains
      BY <1>0, <2>1 DEF Chains
    <3> QED
      BY <2>0, <2>1, <3>1, Types, NothingSound, RelayerSide
  <2>2. CASE Fail /\ UNCHANGED failures
    BY <2>0, <2>2, Reset, Types, RelayerSide
  <2>3. CASE pc' = <<"sync", "src">> /\ UNCHANGED <<firstCall, roundVars, failures>>
    <3>1. pc' \in Phases \X Chains
      BY <1>0, <2>3 DEF Chains
    <3> QED
      BY <2>0, <2>3, <3>1, Types, RelayerSide DEF roundVars
  <2>4. CASE Fail /\ failures' = 0
    <3>1. failures' \in 0..MaxFailures
      BY <2>4, ConstantTypes
    <3> QED
      BY <2>0, <2>4, <3>1, Reset, Types, RelayerSide
  <2>5. CASE ~TooManyFailures /\ NewRound /\ failures' = failures + 1
    <3>1. failures' \in 0..MaxFailures
      BY <2>5, Types, ConstantTypes DEF TooManyFailures
    <3> QED
      BY <2>0, <2>5, <3>1, Reset, Types, RelayerSide
  <2> QED
    BY <1>6, <2>1, <2>2, <2>3, <2>4, <2>5 DEF SendResult
<1>7. CASE Sync(c)
  <2>0. UNCHANGED <<hist, pool, checked, cancels, target, cmd, faults>>
    BY <1>7 DEF Sync, chainVars, operatorVars
  <2>1. pool[c].event \in Versions \cup {None}
    BY Types DEF Tx
  <2>2. conf' \in [Chains -> Versions]
    BY <1>7, <2>1, Types DEF Sync
  <2>3. CASE pc' = <<"sync", "dst">> /\ UNCHANGED <<firstCall, roundVars, failures>>
    <3>1. pc' \in Phases \X Chains
      BY <1>0, <2>3 DEF Chains
    <3> QED
      BY <2>0, <2>2, <2>3, <3>1, Types, RelayerSide DEF roundVars
  <2>4. CASE NewRound /\ failures' = 0
    <3>1. failures' \in 0..MaxFailures
      BY <2>4, ConstantTypes
    <3> QED
      BY <2>0, <2>2, <2>4, <3>1, Reset, Types, RelayerSide
  <2> QED
    BY <1>7, <2>3, <2>4 DEF Sync
<1> QED
  BY <1>1, <1>2, <1>3, <1>4, <1>5, <1>6, <1>7

\* Every step keeps the invariant.
LEMMA TypeNext == TypeInv /\ [Next]_vars => TypeInv'
<1> SUFFICES ASSUME TypeInv, [Next]_vars PROVE TypeInv'
  OBVIOUS
<1>1. CASE \E c \in Chains : \/ NewBlock(c) \/ FlushPackets(c) \/ Elapse(c) \/ ExecTx(c) \/ DropTx(c)
                             \/ InitCheck(c) \/ InitSend(c)
  BY <1>1, ChainStepKeepsTypes
<1>2. CASE RelayerStep
  <2>1. "src" \in Chains
    BY DEF Chains
  <2> QED
    BY <1>2, <2>1, ReadingKeepsTypes, ChoosingKeepsTypes, SendingKeepsTypes DEF RelayerStep
<1>3. CASE Interrupt
  BY <1>3, Reset, FaultBound, Types, RelayerSide DEF Interrupt, chainVars, operatorVars
<1>4. CASE \E command \in Commands : Start(command)
  <2>1. PICK command \in Commands : Start(command)
    BY <1>4
  <2>2. pc' \in Phases \X Chains
    BY <2>1 DEF Start, Commands, Phases, Reading, Chains
  <2>3. cancels' \in 0..MaxCancels /\ failures' \in 0..MaxFailures
    BY <2>1, Types, ConstantTypes DEF Start
  <2> QED
    BY <2>1, <2>2, <2>3, Types, RelayerSide DEF Start, chainVars, roundVars
<1>5. CASE UNCHANGED vars
  <2>1. UNCHANGED <<hist, pool, checked, cancels, target, conf, cmd, pc, firstCall, sh, idle, out,
                    succeeded, failures, faults>>
    BY <1>5 DEF vars, chainVars, operatorVars, roundVars
  <2> QED
    BY <2>1, Types, RelayerSide
<1> QED
  BY <1>1, <1>2, <1>3, <1>4, <1>5 DEF Next

\* Every variable keeps its type: an end that opens has an upgrade to take its version
\* from, sequences, receipts and elapsed timeouts stay within the sequences that init
\* reached, and failures in a row within the limit of ExecuteChannelUpgrade.
THEOREM TypeCorrect == Spec => []TypeOK
<1>1. TypeInv => TypeOK
  BY DEF TypeInv
<1> QED
  BY <1>1, TypeInit, TypeNext, PTL DEF Spec

-----------------------------------------------------------------------------
(* One proposal per end, no cancel and no timeout: the ends *)

\* The setting of the theorems below.
Undisturbed == MaxSeq = 1 /\ ~Timeouts /\ MaxCancels = 0

\* How far an end has come: no proposal yet, proposed, flushing, flushed, upgraded.
Stage(e) ==
    IF e.upg = None THEN IF e.ver = 1 THEN 0 ELSE 4
    ELSE IF e.state = "OPEN" THEN 1 ELSE IF e.state = "FLUSHING" THEN 2 ELSE 3

\* An end on its way from version 1 to version v.
On(e, v) ==
    /\ e.late = {} /\ e.receipt = None
    /\ e.seq = IF Stage(e) = 0 THEN 0 ELSE 1
    /\ e.upg \in {None, v} /\ e.ver \in {1, v}
    /\ e.upg # None => e.ver = 1
    /\ e.upg = None => e.state = "OPEN"
    /\ e.cp => e.state # "OPEN"

\* What a message of execute proves about the stage of the counterparty.
Shows(act, n) ==
    \/ act = "TRY" /\ n = 1
    \/ act = "ACK" /\ n = 2
    \/ act = "CONFIRM" /\ n \in {2, 3}
    \/ act = "OPEN" /\ n \in {3, 4}

\* The stages are numbers.
LEMMA StageType == \A e : Stage(e) \in 0..4
  BY DEF Stage

\* What a stage says of the end.
LEMMA StageFields ==
    ASSUME NEW v \in Nat \ {None, 1}, NEW e, Sound(e), On(e, v)
    PROVE  /\ e.state \in {"OPEN", "FLUSHING", "FLUSHCOMPLETE"} /\ e.cp \in BOOLEAN
           /\ Stage(e) = 0 <=> e.upg = None /\ e.ver = 1
           /\ Stage(e) = 0 => e.state = "OPEN" /\ e.seq = 0 /\ ~e.cp
           /\ Stage(e) = 1 <=> e.upg = v /\ e.state = "OPEN"
           /\ Stage(e) = 1 => e.ver = 1 /\ e.seq = 1 /\ ~e.cp
           /\ Stage(e) = 2 <=> e.state = "FLUSHING"
           /\ Stage(e) = 2 => e.upg = v /\ e.ver = 1 /\ e.seq = 1
           /\ Stage(e) = 3 <=> e.state = "FLUSHCOMPLETE"
           /\ Stage(e) = 3 => e.upg = v /\ e.ver = 1 /\ e.seq = 1
           /\ Stage(e) = 4 <=> e.ver = v
           /\ Stage(e) = 4 => e.state = "OPEN" /\ e.upg = None /\ e.seq = 1 /\ ~e.cp
<1>1. v # None /\ v # 1
  BY ConstantTypes
<1>2. e.state \in {"OPEN", "FLUSHING", "FLUSHCOMPLETE"} /\ e.cp \in BOOLEAN
  BY EndFields DEF Sound
<1> QED
  BY <1>1, <1>2 DEF Stage, On, None

\* The channel of an end tells its stage.
LEMMA ChannelTellsStage ==
    ASSUME NEW v \in Nat \ {None, 1}, NEW e, Sound(e), On(e, v), NEW f, Sound(f), On(f, v),
           Channel(e) = Channel(f)
    PROVE  Stage(e) = Stage(f)
<1>1. e.state = f.state /\ e.seq = f.seq /\ e.ver = f.ver
  BY DEF Channel
<1>2. Stage(e) \in 0..4 /\ Stage(f) \in 0..4
  BY StageType
<1> QED
  BY <1>1, <1>2, StageFields

\* The packets in flight do not tell the stage.
LEMMA StageOfFields ==
    ASSUME NEW v, NEW e, On(e, v), NEW f,
           f.upg = e.upg, f.ver = e.ver, f.state = e.state, f.seq = e.seq, f.late = e.late,
           f.receipt = e.receipt, f.cp = e.cp
    PROVE  On(f, v) /\ Stage(f) = Stage(e)
  BY DEF On, Stage

\* An end without a proposal is on its way to any version.
LEMMA FreshStage ==
    ASSUME NEW v, NEW e, On(e, v), Stage(e) = 0, NEW w
    PROVE  On(e, w)
  BY DEF On, Stage

\* A message brings an end on its way at most one stage beyond the counterparty it proves.
LEMMA ResultOn ==
    ASSUME Undisturbed, NEW v \in Nat \ {None, 1}, NEW e, Sound(e), On(e, v), NEW p, Sound(p), On(p, v),
           NEW act, Shows(act, Stage(p)), Accepted(e, act, p)
    PROVE  /\ On(Result(e, act, p), v)
           /\ Stage(Result(e, act, p)) >= Stage(e)
           /\ Stage(Result(e, act, p)) <= Stage(e) \/ Stage(Result(e, act, p)) <= Stage(p) + 1
           /\ Result(e, act, p).cp => e.cp \/ Stage(p) >= 2
<1> DEFINE r == Result(e, act, p)
<1>0. /\ e \in End /\ Stage(e) \in 0..4 /\ Stage(p) \in 0..4 /\ v # None /\ v # 1
      /\ e.late = {} /\ e.receipt = None /\ e.busy \in BOOLEAN
  BY StageType, ConstantTypes, EndFields DEF Sound, On
<1>1. CASE act = "TRY"
  <2>1. Stage(p) = 1 /\ p.upg = v /\ p.seq = 1 /\ e.state = "OPEN"
    BY <1>1, StageFields DEF Shows, Accepted
  <2>2. Stage(e) \in {0, 1, 4}
    BY <1>0, <2>1, StageFields
  <2>3. CASE Stage(e) = 4
    <3>1. e.seq = 1 /\ e.upg = None
      BY <2>3, StageFields
    <3>2. r = [e EXCEPT !.receipt = Larger(@, e.seq - 1)]
      BY <1>1, <2>1, <3>1 DEF Result
    <3>3. Larger(e.receipt, e.seq - 1) = e.receipt
      BY <1>0, <3>1 DEF Larger, None
    <3>4. r = e
      BY <1>0, <3>2, <3>3 DEF End
    <3> QED
      BY <1>0, <3>4
  <2>4. CASE Stage(e) \in {0, 1}
    <3>1. /\ e.seq \in {0, 1} /\ e.upg \in {None, v} /\ e.ver = 1 /\ ~e.cp
          /\ ~(p.seq < e.seq \/ (p.seq = e.seq /\ e.upg = None))
      BY <1>0, <2>1, <2>4, StageFields
    <3>2. Larger(e.seq, p.seq) = 1
      BY <2>1, <3>1 DEF Larger
    <3>3. r = [e EXCEPT !.state = "FLUSHING", !.upg = v, !.seq = 1]
      BY <1>1, <2>1, <3>1, <3>2 DEF Result
    <3>4. /\ r.state = "FLUSHING" /\ r.upg = v /\ r.seq = 1 /\ r.ver = 1 /\ r.cp = e.cp
          /\ r.late = {} /\ r.receipt = None
      BY <1>0, <3>1, <3>3 DEF End
    <3> HIDE DEF r
    <3>5. On(r, v) /\ Stage(r) = 2
      BY <1>0, <3>4 DEF On, Stage
    <3> QED
      BY <2>1, <2>4, <3>1, <3>4, <3>5 DEF r
  <2> QED
    BY <2>2, <2>3, <2>4
<1>2. ASSUME r = Flushed(e), e.upg # None, Stage(e) \in 1..3, Stage(p) >= 2,
             Stage(e) = 3 => ~e.busy
      PROVE  /\ On(r, v) /\ Stage(r) >= Stage(e) /\ Stage(r) <= Stage(p) + 1
  <2>1. /\ r.state = (IF e.busy THEN "FLUSHING" ELSE "FLUSHCOMPLETE") /\ r.upg = e.upg
        /\ r.seq = e.seq /\ r.ver = e.ver /\ r.cp = TRUE /\ r.late = {} /\ r.receipt = None
    BY <1>0, <1>2 DEF End, Flushed
  <2>2. e.upg = v /\ e.seq = 1 /\ e.ver = 1
    BY <1>2, StageFields
  <2> HIDE DEF r
  <2>3. On(r, v) /\ Stage(r) = IF e.busy THEN 2 ELSE 3
    BY <1>0, <2>1, <2>2 DEF On, Stage
  <2> QED
    BY <1>0, <1>2, <2>3
<1>3. ASSUME r = Upgraded(e), e.upg # None, Stage(p) >= 3
      PROVE  On(r, v) /\ Stage(r) >= Stage(e) /\ Stage(r) <= Stage(p) + 1 /\ ~r.cp
  <2>1. e.upg = v /\ e.seq = 1
    BY <1>0, <1>3, StageFields DEF On
  <2>2. /\ r.state = "OPEN" /\ r.upg = None /\ r.seq = 1 /\ r.ver = v /\ r.cp = FALSE
        /\ r.late = {} /\ r.receipt = None
    BY <1>0, <1>3, <2>1 DEF End, Upgraded
  <2> HIDE DEF r
  <2>3. On(r, v) /\ Stage(r) = 4
    BY <1>0, <2>2 DEF On, Stage
  <2> QED
    BY <1>0, <1>3, <2>2, <2>3
<1>4. CASE act = "ACK"
  <2>1. Stage(p) = 2 /\ p.upg = v /\ e.upg # None /\ e.state \in {"OPEN", "FLUSHING"}
    BY <1>4, StageFields DEF Shows, Accepted
  <2>2. Stage(e) \in {1, 2} /\ e.upg = v
    BY <1>0, <2>1, StageFields DEF On
  <2>3. r = Flushed(e)
    BY <1>0, <1>4, <2>1, <2>2 DEF Result
  <2> QED
    BY <1>0, <1>2, <2>1, <2>2, <2>3
<1>5. CASE act = "CONFIRM"
  <2>1. Stage(p) \in {2, 3} /\ e.state = "FLUSHING"
    BY <1>5 DEF Shows, Accepted
  <2>2. Stage(e) = 2 /\ e.upg # None
    BY <1>0, <2>1, StageFields
  <2>3. r = Flushed(e) \/ (r = Upgraded(e) /\ p.state = "FLUSHCOMPLETE")
    BY <1>0, <1>5 DEF Result
  <2>4. p.state = "FLUSHCOMPLETE" => Stage(p) = 3
    BY StageFields
  <2> QED
    BY <1>0, <1>2, <1>3, <2>1, <2>2, <2>3, <2>4
<1>6. CASE act = "OPEN"
  <2>1. Stage(p) \in {3, 4} /\ e.upg # None /\ r = Upgraded(e)
    BY <1>0, <1>6, StageFields DEF Shows, Accepted, Result
  <2> QED
    BY <1>0, <1>3, <2>1
<1> QED
  BY <1>1, <1>4, <1>5, <1>6 DEF Shows

\* So does a transaction that holds the message once or twice.
LEMMA TxResultOn ==
    ASSUME Undisturbed, NEW v \in Nat \ {None, 1}, NEW e, Sound(e), On(e, v),
           NEW m, SoundMsg(m), On(m.proven, v), Shows(m.act, Stage(m.proven)), TxAccepted(e, m)
    PROVE  /\ On(TxResult(e, m), v)
           /\ Stage(TxResult(e, m)) >= Stage(e)
           /\ Stage(TxResult(e, m)) <= Stage(e) \/ Stage(TxResult(e, m)) <= Stage(m.proven) + 1
           /\ TxResult(e, m).cp => e.cp \/ Stage(m.proven) >= 2
<1> DEFINE once == Result(e, m.act, m.proven)
           twice == Result(once, m.act, m.proven)
<1>1. Sound(m.proven) /\ m.act \in Actions /\ Accepted(e, m.act, m.proven)
      /\ (m.copies = 2 => Accepted(once, m.act, m.proven))
  BY DEF SoundMsg, Msg, TxAccepted
<1>2. /\ On(once, v) /\ Stage(once) >= Stage(e)
      /\ Stage(once) <= Stage(e) \/ Stage(once) <= Stage(m.proven) + 1
      /\ once.cp => e.cp \/ Stage(m.proven) >= 2
  BY <1>1, ResultOn
<1>3. Sound(once)
  BY <1>1, ResultSound
<1> HIDE DEF once
<1>4. m.copies = 2 => /\ On(twice, v) /\ Stage(twice) >= Stage(once)
                      /\ Stage(twice) <= Stage(once) \/ Stage(twice) <= Stage(m.proven) + 1
                      /\ twice.cp => once.cp \/ Stage(m.proven) >= 2
  BY <1>1, <1>2, <1>3, ResultOn
<1>5. TxResult(e, m) = IF m.copies = 2 THEN twice ELSE once
  BY DEF TxResult, once
<1>6. {Stage(e), Stage(once), Stage(twice), Stage(m.proven)} \subseteq 0..4
  BY StageType
<1> HIDE DEF twice
<1> QED
  BY <1>2, <1>4, <1>5, <1>6

\* The end after the last packet in flight.
FlushedEnd(e) ==
    IF ~e.cp THEN e ELSE IF e.seq \in e.late THEN Aborted(e, e.seq) ELSE Flushed(e)

\* An end that has stored the counterparty's upgrade is flushed with its last packet.
LEMMA FlushOn ==
    ASSUME NEW v \in Nat \ {None, 1}, NEW e, Sound(e), On(e, v)
    PROVE  LET f == FlushedEnd([e EXCEPT !.busy = FALSE])
           IN /\ On(f, v) /\ Stage(f) >= Stage(e) /\ (f.cp <=> e.cp)
              /\ Stage(f) = Stage(e) \/ (e.cp /\ Stage(f) = 3 /\ Stage(e) \in {2, 3})
              /\ f.ver = e.ver /\ f.upg = e.upg
<1> DEFINE b == [e EXCEPT !.busy = FALSE]
           f == FlushedEnd(b)
<1>0. e \in End /\ Stage(e) \in 0..4 /\ e.cp \in BOOLEAN /\ v # None
  BY StageType, EndFields, ConstantTypes DEF Sound
<1>1. /\ b \in End /\ b.upg = e.upg /\ b.ver = e.ver /\ b.state = e.state /\ b.seq = e.seq
      /\ b.late = e.late /\ b.receipt = e.receipt /\ b.cp = e.cp /\ ~b.busy
  BY <1>0 DEF End
<1> HIDE DEF b
<1>2. On(b, v) /\ Stage(b) = Stage(e)
  BY <1>1, StageOfFields
<1> DEFINE Goal == /\ On(f, v) /\ Stage(f) >= Stage(e) /\ (f.cp <=> e.cp)
                   /\ Stage(f) = Stage(e) \/ (e.cp /\ Stage(f) = 3 /\ Stage(e) \in {2, 3})
                   /\ f.ver = e.ver /\ f.upg = e.upg
<1>3. ASSUME ~e.cp PROVE Goal
  BY <1>0, <1>1, <1>2, <1>3 DEF FlushedEnd
<1>4. ASSUME e.cp PROVE Goal
  <2>1. f = Flushed(b)
    BY <1>1, <1>2, <1>4 DEF FlushedEnd, On
  <2>2. /\ f.state = "FLUSHCOMPLETE" /\ f.upg = b.upg /\ f.ver = b.ver /\ f.seq = b.seq
        /\ f.late = b.late /\ f.receipt = b.receipt /\ f.cp = TRUE
    BY <1>1, <2>1 DEF Flushed, End
  <2>3. Stage(e) \in {2, 3} /\ b.upg = v /\ b.ver = 1 /\ b.seq = 1
    BY <1>0, <1>1, <1>4, StageFields
  <2> HIDE DEF f
  <2>4. On(f, v) /\ Stage(f) = 3
    BY <1>0, <1>2, <2>2, <2>3 DEF On, Stage
  <2> QED
    BY <1>1, <1>4, <2>2, <2>3, <2>4
<1> QED
  BY <1>3, <1>4 DEF b

\* A proposal of version v.
LEMMA ProposedOn ==
    ASSUME NEW v \in Nat \ {None, 1}, NEW e, Sound(e), On(e, v), Stage(e) = 0
    PROVE  On(Proposed(e, v), v) /\ Stage(Proposed(e, v)) = 1 /\ ~Proposed(e, v).cp
<1>0. e \in End /\ v # None
  BY ConstantTypes DEF Sound
<1>1. e.state = "OPEN" /\ e.seq = 0 /\ ~e.cp /\ e.upg = None /\ e.ver = 1
      /\ e.late = {} /\ e.receipt = None
  BY StageFields DEF On
<1> DEFINE f == Proposed(e, v)
<1>2. /\ f.state = "OPEN" /\ f.seq = 1 /\ f.cp = e.cp /\ f.upg = v /\ f.ver = 1
      /\ f.late = {} /\ f.receipt = None
  BY <1>0, <1>1 DEF Proposed, End
<1> HIDE DEF f
<1>3. On(f, v) /\ Stage(f) = 1 /\ ~f.cp
  BY <1>0, <1>1, <1>2 DEF On, Stage
<1> QED
  BY <1>3 DEF f

-----------------------------------------------------------------------------
(* Both ends are on their way to the same version *)

\* An end that chain c has, or has had.
Past(e, c, v) == On(e, v) /\ Stage(e) <= Stage(Latest(c))

\* A message for chain c, or none.
Fits(m, c, v) ==
    m = NoMsg \/ (Past(m.proven, Other(c), v) /\ Shows(m.act, Stage(m.proven)))

\* The channel of chain c has been found settled in this round.
ChannelSeen(c) ==
    pc[1] \in {"upgrade", "idle", "choose"} \/ (c = "src" /\ pc = <<"channel", "dst">>)

\* No end is flushing and no transaction on its way.
Quiet == \A c \in Chains : Stage(Latest(c)) <= 1 /\ pool[c].status # "pending"

\* The ends are at most one stage apart, and no end goes back.
Ends(v) ==
    \A c \in Chains :
      /\ \A i \in 0..Depth : Past(hist[c][i], c, v)
      /\ Stage(Latest(c)) <= Stage(Latest(Other(c))) + 1
      /\ Latest(c).cp => Stage(Latest(Other(c))) >= 2

\* Headers and messages hold ends of the past.
Carried(v) ==
    \A c \in Chains : Past(sh[c].at, c, v) /\ Fits(out[c], c, v) /\ Fits(pool[c].msg, c, v)

\* Headers found settled are at most one stage apart as well, although they are of different
\* times; and the counterparty of a chain without a proposal has no message to execute.
Compared ==
    \A c \in Chains :
      ChannelSeen(c) => /\ Stage(sh[Other(c)].at) <= Stage(sh[c].at) + 1
                        /\ Stage(sh[c].at) = 0 => pool[Other(c)].status # "pending"

\* When both headers are without a proposal, or execute has found no upgrade, none is going on.
Rested ==
    /\ pc[1] \in {"upgrade", "idle", "choose"} /\ (\A c \in Chains : Stage(sh[c].at) = 0) => Quiet
    /\ pc[1] = "done" /\ (\A c \in Chains : target[c] = "UNINIT")
         => Quiet \/ \A c \in Chains : Stage(Latest(c)) = 4

Agreed(v) == v \in Nat \ {None, 1} /\ Ends(v) /\ Carried(v) /\ Compared /\ Rested

\* The relayer's command and the transactions of the chains.
Orderly ==
    cmd = "execute" /\ \A c \in Chains : pool[c].status = "pending" <=> pool[c].msg # NoMsg

\* The other chain.
LEMMA OtherChain == \A c \in Chains : Other(c) \in Chains /\ Other(c) # c /\ Other(Other(c)) = c
  BY DEF Chains, Other

\* The two chains.
LEMMA TwoChains == \A c \in Chains, d \in Chains : d = c \/ d = Other(c)
  BY DEF Chains, Other

\* What a block with end e changes.
LEMMA NewWindow ==
    ASSUME TypeInv, NEW c \in Chains, NEW e, AddBlock(c, e)
    PROVE  /\ Latest(c)' = e /\ Latest(Other(c))' = Latest(Other(c))
           /\ \A d \in Chains : d # c => hist'[d] = hist[d]
           /\ \A i \in 0..Depth : hist'[c][i] = e \/ \E j \in 0..Depth : hist'[c][i] = hist[c][j]
<1>1. hist \in [Chains -> [0..Depth -> End]] /\ 0 \in 0..Depth /\ Depth \in Nat
  BY ConstantTypes DEF TypeInv, TypeOK
<1>2. hist'[c] = [i \in 0..Depth |-> IF i = 0 THEN e ELSE hist[c][i - 1]]
  BY <1>1 DEF AddBlock
<1>3. \A d \in Chains : d # c => hist'[d] = hist[d]
  BY <1>1 DEF AddBlock
<1>4. \A i \in 0..Depth : i = 0 \/ i - 1 \in 0..Depth
  BY <1>1
<1>5. hist'[c][0] = e
  BY <1>1, <1>2
<1> QED
  BY <1>2, <1>3, <1>4, <1>5, OtherChain DEF Latest

\* A block whose end is neither behind the latest one nor too far ahead of the other chain.
LEMMA AgreedBlock ==
    ASSUME TypeInv, NEW v, Agreed(v), NEW c \in Chains, NEW e, AddBlock(c, e),
           On(e, v), Stage(Latest(c)) <= Stage(e), Stage(e) <= Stage(Latest(Other(c))) + 1,
           e.cp => Stage(Latest(Other(c))) >= 2, Quiet => Stage(e) <= 1,
           UNCHANGED relayerVars, target' = target,
           \A d \in Chains : pool'[d].msg \in {pool[d].msg, NoMsg}
                             /\ (pool'[d].status = "pending" => pool[d].status = "pending")
    PROVE  Agreed(v)'
<1> DEFINE o == Other(c)
<1>0. /\ o \in Chains /\ o # c /\ Other(o) = c /\ \A d \in Chains : d = c \/ d = o
  BY OtherChain, TwoChains
<1>1. /\ Latest(c)' = e /\ Latest(o)' = Latest(o)
      /\ \A i \in 0..Depth : hist'[o][i] = hist[o][i]
      /\ \A i \in 0..Depth : hist'[c][i] = e \/ \E j \in 0..Depth : hist'[c][i] = hist[c][j]
  BY <1>0, NewWindow
<1>2. Stage(e) \in 0..4 /\ Stage(Latest(c)) \in 0..4 /\ Stage(Latest(o)) \in 0..4
      /\ \A x : Stage(x) \in 0..4
  BY StageType
<1>3. \A d \in Chains : Stage(Latest(d)) <= Stage(Latest(d)')
  BY <1>0, <1>1, <1>2
<1> HIDE DEF o
<1>a. /\ v \in Nat \ {None, 1} /\ Ends(v) /\ Carried(v) /\ Compared /\ Rested
      /\ UNCHANGED <<pc, sh, out>>
  BY DEF Agreed, relayerVars, roundVars
<1>4. \A x : \A d \in Chains : Past(x, d, v) => On(x, v) /\ Stage(x) <= Stage(Latest(d)')
  BY <1>2, <1>3 DEF Past
<1>5. Ends(v)'
  <2>1. ASSUME NEW d \in Chains, NEW i \in 0..Depth
        PROVE  On(hist'[d][i], v) /\ Stage(hist'[d][i]) <= Stage(Latest(d)')
    <3>1. CASE hist'[d][i] = e /\ d = c
      BY <1>1, <1>2, <3>1
    <3>2. CASE \E j \in 0..Depth : hist'[d][i] = hist[d][j]
      BY <1>4, <1>a, <3>2 DEF Ends
    <3> QED
      BY <1>0, <1>1, <3>1, <3>2
  <2>2. ASSUME NEW d \in Chains
        PROVE  /\ Stage(Latest(d)') <= Stage(Latest(Other(d))') + 1
               /\ Latest(d)'.cp => Stage(Latest(Other(d))') >= 2
    <3>1. CASE d = c
      BY <1>1, <3>1 DEF o
    <3>2. CASE d = o
      <4>1. Stage(Latest(o)) <= Stage(Latest(c)) + 1 /\ (Latest(o).cp => Stage(Latest(c)) >= 2)
        BY <1>0, <1>a DEF Ends
      <4> QED
        BY <1>0, <1>1, <1>2, <3>2, <4>1
    <3> QED
      BY <1>0, <3>1, <3>2
  <2> QED
    BY <2>1, <2>2 DEF Ends, Past
<1>6. Carried(v)'
  <2>1. ASSUME NEW m, NEW d \in Chains, Fits(m, d, v)
        PROVE  m = NoMsg \/ (/\ On(m.proven, v) /\ Stage(m.proven) <= Stage(Latest(Other(d))')
                             /\ Shows(m.act, Stage(m.proven)))
    BY <1>4, <2>1, OtherChain DEF Fits
  <2>2. \A d \in Chains : Fits(pool'[d].msg, d, v) /\ Fits(out[d], d, v) /\ Past(sh[d].at, d, v)
    BY <1>a DEF Carried, Fits
  <2> QED
    BY <1>4, <1>a, <2>1, <2>2 DEF Carried, Fits, Past
<1>7. Compared'
  BY <1>a, OtherChain DEF Compared, ChannelSeen
<1>8. Rested'
  <2>1. Quiet => Quiet'
    BY <1>0, <1>1 DEF Quiet
  <2>2. (\A d \in Chains : Stage(Latest(d)) = 4) => \A d \in Chains : Stage(Latest(d)') = 4
    BY <1>2, <1>3
  <2> QED
    BY <1>a, <2>1, <2>2 DEF Rested
<1> QED
  BY <1>5, <1>6, <1>7, <1>8, <1>a DEF Agreed

\* A step that adds no block.
LEMMA AgreedSame ==
    ASSUME NEW v, Agreed(v), hist' = hist, Compared', Rested',
           \A d \in Chains : Past(sh'[d].at, d, v) /\ Fits(out'[d], d, v) /\ Fits(pool'[d].msg, d, v)
    PROVE  Agreed(v)'
<1>1. \A d \in Chains : Latest(d)' = Latest(d)
  BY DEF Latest
<1>2. Ends(v)'
  BY <1>1, OtherChain DEF Agreed, Ends, Past
<1>3. Carried(v)'
  BY <1>1, OtherChain DEF Carried, Fits, Past
<1> QED
  BY <1>2, <1>3 DEF Agreed

\* The steps of a chain, but for a proposal, keep both ends on their way.
LEMMA AgreedChainStep ==
    ASSUME Undisturbed, TypeInv, Orderly, NEW v, Agreed(v), NEW c \in Chains,
           NewBlock(c) \/ FlushPackets(c) \/ Elapse(c) \/ ExecTx(c) \/ DropTx(c) \/ InitCheck(c)
    PROVE  Agreed(v)'
<1> DEFINE o == Other(c)
<1>0. /\ v \in Nat \ {None, 1} /\ Ends(v) /\ Carried(v) /\ Compared /\ Rested
      /\ o \in Chains /\ Sound(Latest(c)) /\ Sound(Latest(o)) /\ 0 \in 0..Depth
      /\ \A x : Stage(x) \in 0..4
  BY LatestSound, OtherChain, StageType, ConstantTypes DEF Agreed
<1>1. /\ On(Latest(c), v) /\ On(Latest(o), v) /\ Stage(Latest(c)) <= Stage(Latest(o)) + 1
      /\ Latest(c).cp => Stage(Latest(o)) >= 2
  BY <1>0 DEF Ends, Past, Latest
<1>2. CASE NewBlock(c)
  <2>1. /\ AddBlock(c, Latest(c)) /\ UNCHANGED relayerVars /\ target' = target
        /\ pool' = [pool EXCEPT ![c].status = IF @ = "committed" THEN "followed" ELSE @]
    BY <1>2 DEF NewBlock, operatorVars
  <2>2. \A d \in Chains : pool'[d].msg \in {pool[d].msg, NoMsg}
                          /\ (pool'[d].status = "pending" => pool[d].status = "pending")
    BY <2>1, Types DEF Tx
  <2>3. Quiet => Stage(Latest(c)) <= 1
    BY DEF Quiet
  <2> QED
    BY <1>0, <1>1, <2>1, <2>2, <2>3, AgreedBlock
<1>3. CASE FlushPackets(c)
  <2> DEFINE f == FlushedEnd([Latest(c) EXCEPT !.busy = FALSE])
  <2>1. AddBlock(c, f) /\ UNCHANGED relayerVars /\ target' = target /\ pool' = pool
    BY <1>3 DEF FlushPackets, FlushedEnd, operatorVars
  <2>2. /\ On(f, v) /\ Stage(f) >= Stage(Latest(c)) /\ (f.cp <=> Latest(c).cp)
        /\ Stage(f) = Stage(Latest(c)) \/ (Latest(c).cp /\ Stage(f) = 3 /\ Stage(Latest(c)) \in {2, 3})
    BY <1>0, <1>1, FlushOn
  <2> HIDE DEF f
  <2>3. Quiet => Stage(f) <= 1
    BY <1>0, <2>2 DEF Quiet
  <2>4. Stage(f) <= Stage(Latest(o)) + 1 /\ Stage(Latest(c)) <= Stage(f)
    BY <1>0, <1>1, <2>2
  <2>5. f.cp => Stage(Latest(o)) >= 2
    BY <1>1, <2>2
  <2>6. \A d \in Chains : pool'[d].msg \in {pool[d].msg, NoMsg}
                          /\ (pool'[d].status = "pending" => pool[d].status = "pending")
    BY <2>1
  <2> QED
    BY <2>1, <2>2, <2>3, <2>4, <2>5, <2>6, AgreedBlock
<1>4. CASE Elapse(c)
  BY <1>4 DEF Elapse, Undisturbed
<1>5. CASE ExecTx(c)
  <2> DEFINE e == Latest(c)
             m == pool[c].msg
             f == IF TxAccepted(e, m) THEN TxResult(e, m) ELSE e
  <2>1. /\ AddBlock(c, f) /\ UNCHANGED relayerVars /\ target' = target
        /\ pool[c].status = "pending"
        /\ \E ok, event : pool' = [pool EXCEPT ![c] = [status |-> "committed", msg |-> NoMsg, ok |-> ok,
                                                       event |-> event]]
    BY <1>5 DEF ExecTx, operatorVars
  <2>2. \A d \in Chains : pool'[d].msg \in {pool[d].msg, NoMsg}
                          /\ (pool'[d].status = "pending" => pool[d].status = "pending")
    BY <2>1, Types DEF Tx
  <2>3. SoundMsg(m) /\ m # NoMsg /\ Fits(m, c, v)
    BY <1>0, <2>1, Types DEF SoundTx, Orderly, Carried
  <2>4. On(m.proven, v) /\ Stage(m.proven) <= Stage(Latest(o)) /\ Shows(m.act, Stage(m.proven))
    BY <2>3 DEF Fits, Past
  <2>5. /\ On(f, v) /\ Stage(e) <= Stage(f)
        /\ Stage(f) <= Stage(e) \/ Stage(f) <= Stage(m.proven) + 1
        /\ f.cp => e.cp \/ Stage(m.proven) >= 2
    <3> HIDE DEF m, e
    <3>1. Sound(e) /\ On(e, v)
      BY <1>0, <1>1 DEF e
    <3>2. CASE TxAccepted(e, m)
      BY <1>0, <2>3, <2>4, <3>1, <3>2, TxResultOn
    <3>3. CASE ~TxAccepted(e, m)
      BY <1>0, <3>1, <3>3
    <3> QED
      BY <3>2, <3>3
  <2> HIDE DEF f, m
  <2>6. Stage(f) <= Stage(Latest(o)) + 1 /\ (f.cp => Stage(Latest(o)) >= 2)
    BY <1>0, <1>1, <2>4, <2>5
  <2>7. Quiet => Stage(f) <= 1
    BY <2>1 DEF Quiet
  <2> QED
    BY <2>1, <2>2, <2>5, <2>6, <2>7, AgreedBlock
<1>6. CASE DropTx(c)
  <2>1. /\ hist' = hist /\ UNCHANGED <<pc, sh, out, target>> /\ pool' = [pool EXCEPT ![c] = NoTx]
    BY <1>6 DEF DropTx, relayerVars, roundVars, operatorVars
  <2>2. \A d \in Chains : pool'[d].msg \in {pool[d].msg, NoMsg}
                          /\ (pool'[d].status = "pending" => pool[d].status = "pending")
    BY <2>1, Types DEF NoTx
  <2>3. \A d \in Chains : Past(sh'[d].at, d, v) /\ Fits(out'[d], d, v) /\ Fits(pool'[d].msg, d, v)
    BY <1>0, <2>1, <2>2 DEF Carried, Fits
  <2>4. Compared' /\ Rested'
    BY <1>0, <2>1, <2>2, OtherChain DEF Compared, Rested, ChannelSeen, Quiet, Latest
  <2> QED
    BY <2>1, <2>3, <2>4, AgreedSame
<1>7. CASE InitCheck(c)
  <2>1. hist' = hist /\ UNCHANGED <<pc, sh, out, target, pool>>
    BY <1>7 DEF InitCheck, relayerVars, roundVars, chainVars
  <2>2. \A d \in Chains : Past(sh'[d].at, d, v) /\ Fits(out'[d], d, v) /\ Fits(pool'[d].msg, d, v)
    BY <1>0, <2>1 DEF Carried
  <2>3. Compared' /\ Rested'
    BY <1>0, <2>1 DEF Compared, Rested, ChannelSeen, Quiet, Latest
  <2> QED
    BY <2>1, <2>2, <2>3, AgreedSame
<1> QED
  BY <1>2, <1>3, <1>4, <1>5, <1>6, <1>7

-----------------------------------------------------------------------------
(* The ends propose different versions *)

\* An end that proposes version v, before, during and after its proposal.
Rival(e, v) ==
    /\ e.late = {} /\ e.state = "OPEN" /\ e.ver = 1 /\ ~e.cp
    /\ \/ e.seq = 0 /\ e.upg = None /\ e.receipt = None
       \/ e.seq = 1 /\ e.upg = v /\ e.receipt = None
       \/ e.seq = 1 /\ e.upg = None /\ e.receipt = 1

\* A message to a chain whose counterparty proposes version v, or none.
RivalMsg(m, v) ==
    m = NoMsg \/ (/\ Rival(m.proven, v)
                  /\ \/ m.act = "TRY" /\ m.proven.upg = v
                     \/ m.act = "CANCEL" /\ m.proven.receipt = 1)

Conflict(w) ==
    /\ w \in [Chains -> Nat \ {None, 1}] /\ \A c \in Chains : w[c] # w[Other(c)]
    /\ \A c \in Chains :
         /\ \A i \in 0..Depth : Rival(hist[c][i], w[c])
         /\ Latest(c).seq = 1
         /\ Rival(sh[c].at, w[c])
         /\ RivalMsg(out[c], w[Other(c)]) /\ RivalMsg(pool[c].msg, w[Other(c)])

\* An end without an upgrade, or with a proposal, has a rival.
LEMMA StageOfRival ==
    ASSUME NEW v \in Nat \ {None, 1}, NEW e, Sound(e), On(e, v), Stage(e) \in {0, 1}
    PROVE  Rival(e, v) /\ (Stage(e) = 0 => \A w : Rival(e, w))
  BY StageFields DEF Rival, On

\* A proposal of another version.
LEMMA ProposedRival ==
    ASSUME NEW v, NEW w \in Nat \ {None, 1}, NEW e, Sound(e), On(e, v), Stage(e) = 0
    PROVE  Rival(Proposed(e, w), w) /\ Proposed(e, w).seq = 1
<1>1. On(e, w)
  BY FreshStage
<1>2. e \in End /\ e.state = "OPEN" /\ e.seq = 0 /\ ~e.cp /\ e.upg = None /\ e.ver = 1
      /\ e.late = {} /\ e.receipt = None
  BY <1>1, StageFields DEF Sound, On
<1> DEFINE f == Proposed(e, w)
<1>3. /\ f.state = "OPEN" /\ f.seq = 1 /\ f.cp = e.cp /\ f.upg = w /\ f.ver = 1
      /\ f.late = {} /\ f.receipt = None
  BY <1>2 DEF Proposed, End
<1> HIDE DEF f
<1>4. Rival(f, w) /\ f.seq = 1
  BY <1>2, <1>3 DEF Rival
<1> QED
  BY <1>4 DEF f

\* Without any proposal the version is still open.
LEMMA AgreedRename ==
    ASSUME NEW v, Agreed(v), \A c \in Chains : Stage(Latest(c)) = 0, NEW w \in Nat \ {None, 1}
    PROVE  Agreed(w)
<1>1. \A x : \A c \in Chains : Past(x, c, v) => Past(x, c, w)
  <2> SUFFICES ASSUME NEW x, NEW c \in Chains, Past(x, c, v) PROVE Past(x, c, w)
    OBVIOUS
  <2>1. On(x, v) /\ Stage(x) = 0 /\ Stage(x) <= Stage(Latest(c))
    BY StageType DEF Past
  <2> QED
    BY <2>1, FreshStage DEF Past
<1>2. Ends(w) /\ Carried(w)
  BY <1>1, OtherChain DEF Agreed, Ends, Carried, Fits
<1> QED
  BY <1>2 DEF Agreed

\* An end that is proposed to while the other one proposes something else.
LEMMA AgreedToConflict ==
    ASSUME TypeInv, TypeInv', NEW v, Agreed(v), NEW c \in Chains, NEW w \in Nat \ {None, 1}, w # v,
           Stage(Latest(c)) = 0, Stage(Latest(Other(c))) = 1,
           AddBlock(c, Proposed(Latest(c), w)), UNCHANGED <<relayerVars, pool>>
    PROVE  \E x : Conflict(x)'
<1> DEFINE o == Other(c)
           x == [d \in Chains |-> IF d = c THEN w ELSE v]
<1>0. /\ o \in Chains /\ o # c /\ Other(o) = c /\ \A d \in Chains : d = c \/ d = o
      /\ v \in Nat \ {None, 1} /\ Ends(v) /\ Carried(v) /\ \A y : Stage(y) \in 0..4
      /\ UNCHANGED <<sh, out, pool>> /\ 0 \in 0..Depth
      /\ \A d \in Chains, i \in 0..Depth : Sound(hist[d][i])
      /\ \A d \in Chains : SoundMsg(out[d]) /\ SoundMsg(pool[d].msg) /\ Sound(sh[d].at)
  BY OtherChain, TwoChains, StageType, ConstantTypes, Types
     DEF Agreed, relayerVars, roundVars, TypeInv, SoundTx, SoundHeader
<1>1. x \in [Chains -> Nat \ {None, 1}] /\ x[c] = w /\ x[o] = v
  BY <1>0
<1>2. \A d \in Chains : x[d] # x[Other(d)]
  BY <1>0, <1>1
<1> HIDE DEF o, x
<1>3. \A y : Sound(y) /\ Past(y, c, v) => Rival(y, w) /\ Stage(y) = 0
  BY <1>0, StageOfRival DEF Past
<1>4. \A y : Sound(y) /\ Past(y, o, v) => Rival(y, v) /\ (Stage(y) = 1 => y.upg = v)
  <2> SUFFICES ASSUME NEW y, Sound(y), Past(y, o, v) PROVE Rival(y, v) /\ (Stage(y) = 1 => y.upg = v)
    OBVIOUS
  <2>1. On(y, v) /\ Stage(y) \in {0, 1}
    BY <1>0 DEF Past, o
  <2> QED
    BY <1>0, <2>1, StageOfRival, StageFields
<1>5. ASSUME NEW d \in Chains PROVE \A y : Sound(y) /\ Past(y, d, v) => Rival(y, x[d])
  BY <1>0, <1>1, <1>3, <1>4
<1>6. Rival(Proposed(Latest(c), w), w) /\ Proposed(Latest(c), w).seq = 1
  BY <1>0, ProposedRival DEF Ends, Past, Latest
<1>7. /\ Latest(c)' = Proposed(Latest(c), w) /\ Latest(o)' = Latest(o)
      /\ \A i \in 0..Depth : hist'[o][i] = hist[o][i]
      /\ \A i \in 0..Depth : hist'[c][i] = Proposed(Latest(c), w) \/ \E j \in 0..Depth : hist'[c][i] = hist[c][j]
  BY <1>0, NewWindow DEF o
<1>8. \A d \in Chains, i \in 0..Depth : Rival(hist'[d][i], x[d])
  <2>1. \A d \in Chains, i \in 0..Depth : Rival(hist[d][i], x[d])
    BY <1>0, <1>5 DEF Ends
  <2> QED
    BY <1>0, <1>1, <1>6, <1>7, <2>1
<1>9. \A d \in Chains : Latest(d)'.seq = 1
  <2>1. On(Latest(o), v) /\ Sound(Latest(o)) /\ Stage(Latest(o)) = 1
    BY <1>0 DEF Ends, Past, Latest, o
  <2>2. Latest(o).seq = 1
    BY <1>0, <2>1, StageFields
  <2> QED
    BY <1>0, <1>6, <1>7, <2>2
<1>10. ASSUME NEW d \in Chains, NEW m, SoundMsg(m), Fits(m, d, v) PROVE RivalMsg(m, x[Other(d)])
  <2>1. CASE m = NoMsg
    BY <2>1 DEF RivalMsg
  <2>2. CASE m # NoMsg
    <3>1. Past(m.proven, Other(d), v) /\ Shows(m.act, Stage(m.proven)) /\ Sound(m.proven)
      BY <1>10, <2>2 DEF Fits, SoundMsg
    <3>2. CASE d = o
      <4>1. Past(m.proven, c, v)
        BY <1>0, <3>1, <3>2
      <4>2. Stage(m.proven) = 0
        BY <1>3, <3>1, <4>1
      <4> QED
        BY <3>1, <4>2 DEF Shows
    <3>3. CASE d = c
      <4>1. Rival(m.proven, v) /\ (Stage(m.proven) = 1 => m.proven.upg = v)
        BY <1>4, <3>1, <3>3 DEF o
      <4>2. Stage(m.proven) \in {0, 1}
        BY <1>0, <3>1, <3>3 DEF Past
      <4>3. m.act = "TRY" /\ m.proven.upg = v
        BY <3>1, <4>1, <4>2 DEF Shows
      <4> QED
        BY <1>1, <3>3, <4>1, <4>3 DEF RivalMsg, o
    <3> QED
      BY <1>0, <3>2, <3>3
  <2> QED
    BY <2>1, <2>2
<1>11. Conflict(x)'
  <2>1. \A d \in Chains : /\ Rival(sh[d].at, x[d])
                          /\ RivalMsg(out[d], x[Other(d)]) /\ RivalMsg(pool[d].msg, x[Other(d)])
    BY <1>0, <1>5, <1>10 DEF Carried
  <2> QED
    BY <1>0, <1>1, <1>2, <1>8, <1>9, <2>1 DEF Conflict
<1> QED
  BY <1>11

\* A proposal keeps the ends on their way, or makes them rivals.
LEMMA AgreedInitSend ==
    ASSUME Undisturbed, TypeInv, TypeInv', NEW v, Agreed(v), NEW c \in Chains, InitSend(c)
    PROVE  (\E w : Agreed(w)') \/ (\E w : Conflict(w)')
<1> DEFINE o == Other(c)
<1>0. /\ v \in Nat \ {None, 1} /\ Ends(v) /\ Carried(v) /\ Compared /\ Rested
      /\ o \in Chains /\ Sound(Latest(c)) /\ 0 \in 0..Depth /\ \A x : Stage(x) \in 0..4
      /\ \A d \in Chains : d = c \/ d = o
  BY LatestSound, OtherChain, TwoChains, StageType, ConstantTypes DEF Agreed
<1>1. /\ On(Latest(c), v) /\ Stage(Latest(o)) <= Stage(Latest(c)) + 1
  BY <1>0, OtherChain DEF Ends, Past, Latest
<1>2. UNCHANGED <<pool, relayerVars>> /\ target' = target
  BY <1>0 DEF InitSend
<1>3. CASE ~(Latest(c).state = "OPEN" /\ Latest(c).seq < MaxSeq)
  <2>1. hist' = hist /\ UNCHANGED <<pc, sh, out, target, pool>>
    BY <1>2, <1>3 DEF InitSend, relayerVars, roundVars
  <2>2. \A d \in Chains : Past(sh'[d].at, d, v) /\ Fits(out'[d], d, v) /\ Fits(pool'[d].msg, d, v)
    BY <1>0, <2>1 DEF Carried
  <2>3. Compared' /\ Rested'
    BY <1>0, <2>1 DEF Compared, Rested, ChannelSeen, Quiet, Latest
  <2>4. Agreed(v)'
    BY <2>1, <2>2, <2>3, AgreedSame
  <2> QED
    BY <2>4
<1>4. CASE Latest(c).state = "OPEN" /\ Latest(c).seq < MaxSeq
  <2>1. PICK w \in UpgradeFields(Latest(c)) : AddBlock(c, Proposed(Latest(c), w))
    BY <1>4 DEF InitSend
  <2>2. Stage(Latest(c)) = 0
    <3>1. Latest(c).seq = 0
      BY <1>0, <1>4, EndFields DEF Sound, Undisturbed
    <3> QED
      BY <1>1, <3>1 DEF On
  <2>3. w \in Nat \ {None, 1}
    <3>1. Latest(c).ver = 1
      BY <1>0, <1>1, <2>2, StageFields
    <3> QED
      BY <3>1, ConstantTypes DEF UpgradeFields
  <2>4. ASSUME Agreed(w) PROVE Agreed(w)'
    <3> DEFINE f == Proposed(Latest(c), w)
    <3>1. On(Latest(c), w)
      BY <1>1, <2>2, FreshStage
    <3>2. On(f, w) /\ Stage(f) = 1 /\ ~f.cp
      BY <1>0, <2>2, <2>3, <3>1, ProposedOn
    <3>3. AddBlock(c, f)
      BY <2>1
    <3> HIDE DEF f
    <3>4. \A d \in Chains : pool'[d].msg \in {pool[d].msg, NoMsg}
                            /\ (pool'[d].status = "pending" => pool[d].status = "pending")
      BY <1>2
    <3>5. Stage(Latest(c)) <= Stage(f) /\ Stage(f) <= Stage(Latest(o)) + 1
      BY <1>0, <2>2, <3>2
    <3> QED
      BY <1>2, <2>4, <3>2, <3>3, <3>4, <3>5, AgreedBlock
  <2>5. CASE w = v
    BY <2>4, <2>5
  <2>6. CASE Stage(Latest(o)) = 0
    <3>1. Agreed(w)
      BY <1>0, <2>2, <2>3, <2>6, AgreedRename
    <3> QED
      BY <2>4, <3>1
  <2>7. CASE w # v /\ Stage(Latest(o)) # 0
    <3>1. Stage(Latest(o)) = 1
      BY <1>0, <1>1, <2>2, <2>7
    <3> QED
      BY <1>2, <2>1, <2>2, <2>3, <2>7, <3>1, AgreedToConflict
  <2> QED
    BY <2>5, <2>6, <2>7
<1> QED
  BY <1>3, <1>4

\* Rivals: a message leaves an end as it is or gives its upgrade up.
LEMMA RivalResult ==
    ASSUME Undisturbed, NEW v \in Nat \ {None, 1}, NEW u \in Nat \ {None, 1}, u # v,
           NEW e, Sound(e), Rival(e, v), e.seq = 1,
           NEW m, m # NoMsg, SoundMsg(m), RivalMsg(m, u), Accepted(e, m.act, m.proven)
    PROVE  LET r == Result(e, m.act, m.proven) IN Rival(r, v) /\ r.seq = 1 /\ Sound(r)
<1> DEFINE r == Result(e, m.act, m.proven)
           p == m.proven
<1>0. /\ e \in End /\ Rival(p, u) /\ Sound(p) /\ m.act \in Actions
      /\ \/ m.act = "TRY" /\ p.upg = u
         \/ m.act = "CANCEL" /\ p.receipt = 1
      /\ u # None /\ v # None
  BY ConstantTypes DEF Sound, RivalMsg, SoundMsg, Msg
<1>1. Sound(r)
  BY <1>0, ResultSound
<1>2. /\ e.late = {} /\ e.state = "OPEN" /\ e.ver = 1 /\ ~e.cp
      /\ \/ e.upg = v /\ e.receipt = None
         \/ e.upg = None /\ e.receipt = 1
  BY DEF Rival
<1> HIDE DEF p
<1>3. ASSUME r = Aborted(e, 1) PROVE Rival(r, v) /\ r.seq = 1
  <2>1. /\ r.state = "OPEN" /\ r.upg = None /\ r.cp = FALSE /\ r.seq = 1 /\ r.receipt = 1
        /\ r.ver = e.ver /\ r.late = e.late
    BY <1>0, <1>3 DEF Aborted, End
  <2> HIDE DEF r
  <2> QED
    BY <1>2, <2>1 DEF Rival
<1>4. CASE m.act = "TRY"
  <2>1. p.seq = 1 /\ p.upg = u
    BY <1>0, <1>4 DEF Rival
  <2>2. CASE e.upg = None
    <3>1. r = [e EXCEPT !.receipt = Larger(@, e.seq - 1)]
      BY <1>4, <2>1, <2>2 DEF Result, p
    <3>2. Larger(e.receipt, e.seq - 1) = e.receipt
      BY <1>2 DEF Larger, None
    <3>3. r = e
      BY <1>0, <3>1, <3>2 DEF End
    <3> QED
      BY <1>1, <3>3
  <2>3. CASE e.upg # None
    <3>1. Larger(e.seq, p.seq) = 1
      BY <2>1 DEF Larger
    <3>2. e.upg = v
      BY <1>2, <2>3
    <3>3. r = Aborted(e, 1)
      BY <1>0, <1>4, <2>1, <2>3, <3>1, <3>2 DEF Result, p
    <3> QED
      BY <1>1, <1>3, <3>3
  <2> QED
    BY <2>2, <2>3
<1>5. CASE m.act = "CANCEL" /\ p.receipt = 1
  <2>1. r = Aborted(e, 1)
    BY <1>0, <1>2, <1>5 DEF Result, p
  <2> QED
    BY <1>1, <1>3, <2>1
<1> QED
  BY <1>0, <1>4, <1>5

\* A transaction of a rival.
LEMMA RivalTxResult ==
    ASSUME Undisturbed, NEW v \in Nat \ {None, 1}, NEW u \in Nat \ {None, 1}, u # v,
           NEW e, Sound(e), Rival(e, v), e.seq = 1,
           NEW m, m # NoMsg, SoundMsg(m), RivalMsg(m, u), TxAccepted(e, m)
    PROVE  Rival(TxResult(e, m), v) /\ TxResult(e, m).seq = 1
<1> DEFINE once == Result(e, m.act, m.proven)
           twice == Result(once, m.act, m.proven)
<1>1. Rival(once, v) /\ once.seq = 1 /\ Sound(once)
  BY RivalResult DEF TxAccepted
<1>2. m.copies = 2 => Accepted(once, m.act, m.proven)
  BY DEF TxAccepted
<1> HIDE DEF once
<1>3. m.copies = 2 => Rival(twice, v) /\ twice.seq = 1
  BY <1>1, <1>2, RivalResult
<1>4. TxResult(e, m) = IF m.copies = 2 THEN twice ELSE once
  BY DEF TxResult, once
<1> QED
  BY <1>1, <1>3, <1>4

\* A block of a rival.
LEMMA ConflictBlock ==
    ASSUME TypeInv, NEW w, Conflict(w), NEW c \in Chains, NEW e, AddBlock(c, e),
           Rival(e, w[c]), e.seq = 1, UNCHANGED relayerVars,
           \A d \in Chains : pool'[d].msg \in {pool[d].msg, NoMsg}
    PROVE  Conflict(w)'
<1>1. /\ Latest(c)' = e /\ Latest(Other(c))' = Latest(Other(c))
      /\ \A d \in Chains : d # c => hist'[d] = hist[d]
      /\ \A i \in 0..Depth : hist'[c][i] = e \/ \E j \in 0..Depth : hist'[c][i] = hist[c][j]
  BY NewWindow
<1>2. \A d \in Chains : d = c \/ d = Other(c)
  BY TwoChains
<1>3. UNCHANGED <<sh, out>>
  BY DEF relayerVars, roundVars
<1>4. \A d \in Chains, i \in 0..Depth : Rival(hist'[d][i], w[d])
  BY <1>1 DEF Conflict
<1>5. \A d \in Chains : Latest(d)'.seq = 1
  BY <1>1, <1>2, OtherChain DEF Conflict
<1>6. \A d \in Chains : RivalMsg(pool'[d].msg, w[Other(d)])
  BY DEF Conflict, RivalMsg
<1> QED
  BY <1>3, <1>4, <1>5, <1>6 DEF Conflict

\* A step of rivals that adds no block.
LEMMA ConflictSame ==
    ASSUME NEW w, Conflict(w), hist' = hist,
           \A d \in Chains : /\ Rival(sh'[d].at, w[d])
                             /\ RivalMsg(out'[d], w[Other(d)]) /\ RivalMsg(pool'[d].msg, w[Other(d)])
    PROVE  Conflict(w)'
  BY DEF Conflict, Latest

\* The steps of a chain keep the rivals.
LEMMA ConflictChainStep ==
    ASSUME Undisturbed, TypeInv, Orderly, NEW w, Conflict(w), NEW c \in Chains,
           NewBlock(c) \/ FlushPackets(c) \/ Elapse(c) \/ ExecTx(c) \/ DropTx(c)
             \/ InitCheck(c) \/ InitSend(c)
    PROVE  Conflict(w)'
<1>0. /\ Sound(Latest(c)) /\ Latest(c) \in End /\ Rival(Latest(c), w[c]) /\ Latest(c).seq = 1
      /\ \A d \in Chains : /\ Rival(sh[d].at, w[d])
                           /\ RivalMsg(out[d], w[Other(d)]) /\ RivalMsg(pool[d].msg, w[Other(d)])
      /\ w[c] \in Nat \ {None, 1} /\ w[Other(c)] \in Nat \ {None, 1} /\ w[Other(c)] # w[c]
  BY LatestSound, ConstantTypes, OtherChain DEF Conflict, Latest
<1>1. CASE NewBlock(c)
  <2>1. /\ AddBlock(c, Latest(c)) /\ UNCHANGED relayerVars
        /\ pool' = [pool EXCEPT ![c].status = IF @ = "committed" THEN "followed" ELSE @]
    BY <1>1 DEF NewBlock
  <2>2. \A d \in Chains : pool'[d].msg \in {pool[d].msg, NoMsg}
    BY <2>1, Types DEF Tx
  <2> QED
    BY <1>0, <2>1, <2>2, ConflictBlock
<1>2. CASE FlushPackets(c)
  <2> DEFINE f == [Latest(c) EXCEPT !.busy = FALSE]
  <2>1. /\ f.upg = Latest(c).upg /\ f.ver = Latest(c).ver /\ f.state = Latest(c).state
        /\ f.seq = Latest(c).seq /\ f.late = Latest(c).late /\ f.receipt = Latest(c).receipt
        /\ f.cp = Latest(c).cp
    BY <1>0 DEF End
  <2>2. ~Latest(c).cp
    BY <1>0 DEF Rival
  <2>3. AddBlock(c, f) /\ UNCHANGED relayerVars /\ pool' = pool
    BY <1>2, <2>1, <2>2 DEF FlushPackets
  <2> HIDE DEF f
  <2>4. Rival(f, w[c]) /\ f.seq = 1
    BY <1>0, <2>1 DEF Rival
  <2> QED
    BY <2>3, <2>4, ConflictBlock
<1>3. CASE Elapse(c)
  BY <1>3 DEF Elapse, Undisturbed
<1>4. CASE ExecTx(c)
  <2> DEFINE e == Latest(c)
             m == pool[c].msg
             f == IF TxAccepted(e, m) THEN TxResult(e, m) ELSE e
  <2>1. /\ AddBlock(c, f) /\ UNCHANGED relayerVars /\ pool[c].status = "pending"
        /\ \E ok, event : pool' = [pool EXCEPT ![c] = [status |-> "committed", msg |-> NoMsg, ok |-> ok,
                                                       event |-> event]]
    BY <1>4 DEF ExecTx
  <2>2. \A d \in Chains : pool'[d].msg \in {pool[d].msg, NoMsg}
    BY <2>1, Types DEF Tx
  <2>3. SoundMsg(m) /\ m # NoMsg /\ RivalMsg(m, w[Other(c)])
    BY <1>0, <2>1, Types DEF SoundTx, Orderly
  <2>4. Rival(f, w[c]) /\ f.seq = 1
    <3> HIDE DEF m
    <3> QED
      BY <1>0, <2>3, RivalTxResult
  <2> HIDE DEF f
  <2> QED
    BY <2>1, <2>2, <2>4, ConflictBlock
<1>5. CASE DropTx(c)
  <2>1. hist' = hist /\ UNCHANGED <<sh, out>> /\ pool' = [pool EXCEPT ![c] = NoTx]
    BY <1>5 DEF DropTx, relayerVars, roundVars
  <2>2. \A d \in Chains : pool'[d].msg \in {pool[d].msg, NoMsg}
    BY <2>1, Types DEF NoTx
  <2>3. \A d \in Chains : RivalMsg(pool'[d].msg, w[Other(d)])
    BY <1>0, <2>2 DEF RivalMsg
  <2> QED
    BY <1>0, <2>1, <2>3, ConflictSame
<1>6. CASE InitCheck(c)
  BY <1>0, <1>6, ConflictSame DEF InitCheck, relayerVars, roundVars, chainVars
<1>7. CASE InitSend(c)
  <2>1. hist' = hist
    BY <1>0, <1>7 DEF InitSend, Undisturbed
  <2> QED
    BY <1>0, <1>7, <2>1, ConflictSame DEF InitSend, relayerVars, roundVars
<1> QED
  BY <1>1, <1>2, <1>3, <1>4, <1>5, <1>6, <1>7

-----------------------------------------------------------------------------
(* The choice of upgradeChannelStep *)

\* The state that NewUpgradeState reads off an end on its way.
LEMMA StateOfStage ==
    ASSUME NEW v \in Nat \ {None, 1}, NEW e, Sound(e), On(e, v)
    PROVE  /\ Stage(e) \in {0, 4} => NewUpgradeState(e) = "UNINIT"
           /\ Stage(e) = 1 => NewUpgradeState(e) = "INIT"
           /\ Stage(e) = 2 => NewUpgradeState(e) = "FLUSHING"
           /\ Stage(e) = 3 => NewUpgradeState(e) = "FLUSHCOMPLETE"
<1>1. v # None
  BY ConstantTypes
<1>2. Stage(e) \in {0, 4} => e.state = "OPEN" /\ e.upg = None
  BY StageFields
<1>3. Stage(e) = 1 => e.state = "OPEN" /\ e.upg # None
  BY <1>1, StageFields
<1>4. Stage(e) = 2 => e.state = "FLUSHING"
  BY StageFields
<1>5. Stage(e) = 3 => e.state = "FLUSHCOMPLETE"
  BY StageFields
<1> QED
  BY <1>2, <1>3, <1>4, <1>5 DEF NewUpgradeState

\* Between headers that are at most one stage apart no upgrade is given up.
LEMMA AgreedAction ==
    ASSUME TypeInv, NEW v, Agreed(v), pc[1] = "choose", NEW c \in Chains
    PROVE  NextAction(c) = "NONE" \/ Shows(NextAction(c), Stage(sh[Other(c)].at))
<1> DEFINE o == Other(c)
           a == sh[c].at
           b == sh[o].at
<1>0. /\ v \in Nat \ {None, 1} /\ o \in Chains /\ Other(o) = c
      /\ Sound(a) /\ Sound(b) /\ On(a, v) /\ On(b, v)
      /\ Stage(a) \in 0..4 /\ Stage(b) \in 0..4
  BY OtherChain, Types, StageType DEF Agreed, Carried, Past, SoundHeader
<1>1. Stage(b) <= Stage(a) + 1 /\ Stage(a) <= Stage(b) + 1
  BY <1>0 DEF Agreed, Compared, ChannelSeen
<1>2. UState(c) = NewUpgradeState(a) /\ UState(o) = NewUpgradeState(b)
  BY DEF UState
<1>3. ~UpgradeAlreadyTimedOut(o) /\ ~UpgradeAlreadyTimedOut(c)
  BY <1>0 DEF UpgradeAlreadyTimedOut, On
<1>4. CASE Stage(a) = 0
  <2>1. UState(c) = "UNINIT" /\ UState(o) \in {"UNINIT", "INIT"}
    BY <1>0, <1>1, <1>2, <1>4, StateOfStage
  <2>2. NextAction(c) \in {"NONE", "TRY"} /\ (NextAction(c) # "NONE" => UState(o) = "INIT")
    BY <2>1 DEF NextAction
  <2>3. UState(o) = "INIT" => Stage(b) = 1
    <3>1. Stage(b) \in {0, 1}
      BY <1>0, <1>1, <1>4
    <3>2. Stage(b) = 0 => NewUpgradeState(b) = "UNINIT"
      BY <1>0, StateOfStage
    <3> QED
      BY <1>2, <3>1, <3>2
  <2> QED
    BY <2>2, <2>3 DEF Shows
<1>5. CASE Stage(a) = 1
  <2>1. UState(c) = "INIT" /\ a.seq = 1
    BY <1>0, <1>2, <1>5, StateOfStage, StageFields
  <2>2. CASE Stage(b) = 0
    <3>1. UState(o) = "UNINIT" /\ b.seq = 0
      BY <1>0, <1>2, <2>2, StateOfStage, StageFields
    <3> QED
      BY <2>1, <3>1 DEF NextAction
  <2>3. CASE Stage(b) = 1
    <3>1. UState(o) = "INIT"
      BY <1>0, <1>2, <2>3, StateOfStage
    <3> QED
      BY <2>1, <2>3, <3>1 DEF NextAction, CrossingHellosAction, Shows
  <2>4. CASE Stage(b) = 2
    <3>1. UState(o) = "FLUSHING"
      BY <1>0, <1>2, <2>4, StateOfStage
    <3> QED
      BY <2>1, <2>4, <3>1 DEF NextAction, Shows
  <2> QED
    BY <1>0, <1>1, <1>5, <2>2, <2>3, <2>4
<1>6. CASE Stage(a) = 2
  <2>1. UState(c) = "FLUSHING" /\ a.seq = 1
    BY <1>0, <1>2, <1>6, StateOfStage, StageFields
  <2>2. CASE Stage(b) = 1
    <3>1. UState(o) = "INIT" /\ b.seq = 1
      BY <1>0, <1>2, <2>2, StateOfStage, StageFields
    <3> QED
      BY <2>1, <3>1 DEF NextAction
  <2>3. CASE Stage(b) \in {2, 3}
    <3>1. UState(o) \in {"FLUSHING", "FLUSHCOMPLETE"}
      BY <1>0, <1>2, <2>3, StateOfStage
    <3> QED
      BY <1>3, <2>1, <2>3, <3>1 DEF NextAction, Shows
  <2> QED
    BY <1>0, <1>1, <1>6, <2>2, <2>3
<1>7. CASE Stage(a) = 3
  <2>1. UState(c) = "FLUSHCOMPLETE" /\ a.upg = v
    BY <1>0, <1>2, <1>7, StateOfStage, StageFields
  <2>2. CASE Stage(b) = 2
    <3>1. UState(o) = "FLUSHING"
      BY <1>0, <1>2, <2>2, StateOfStage
    <3> QED
      BY <1>3, <2>1, <3>1 DEF NextAction
  <2>3. CASE Stage(b) = 3
    <3>1. UState(o) = "FLUSHCOMPLETE"
      BY <1>0, <1>2, <2>3, StateOfStage
    <3> QED
      BY <2>1, <2>3, <3>1 DEF NextAction, Shows
  <2>4. CASE Stage(b) = 4
    <3>1. UState(o) = "UNINIT" /\ b.ver = v
      BY <1>0, <1>2, <2>4, StateOfStage, StageFields
    <3>2. FlushCompleteAction(c) = "OPEN"
      BY <2>1, <3>1 DEF FlushCompleteAction, UpgradeAlreadyComplete
    <3> QED
      BY <2>1, <2>4, <3>1, <3>2 DEF NextAction, Shows
  <2> QED
    BY <1>0, <1>1, <1>7, <2>2, <2>3, <2>4
<1>8. CASE Stage(a) = 4
  <2>1. UState(c) = "UNINIT" /\ UState(o) \in {"UNINIT", "FLUSHCOMPLETE"}
    BY <1>0, <1>1, <1>2, <1>8, StateOfStage
  <2> QED
    BY <2>1 DEF NextAction
<1> QED
  BY <1>0, <1>4, <1>5, <1>6, <1>7, <1>8

\* Between rivals the choice is to try, which gives the upgrade up, or to cancel.
LEMMA ConflictAction ==
    ASSUME TypeInv, NEW w, Conflict(w), NEW c \in Chains
    PROVE  \/ NextAction(c) = "NONE"
           \/ NextAction(c) = "TRY" /\ sh[Other(c)].at.upg = w[Other(c)]
           \/ NextAction(c) = "CANCEL" /\ sh[Other(c)].at.receipt = 1 /\ sh[c].at.upg # None
<1> DEFINE a == sh[c].at
           b == sh[Other(c)].at
<1>0. /\ Rival(a, w[c]) /\ Rival(b, w[Other(c)]) /\ w[c] # None /\ w[Other(c)] # None
  BY OtherChain, ConstantTypes DEF Conflict
<1>1. /\ UState(c) = IF a.upg = None THEN "UNINIT" ELSE "INIT"
      /\ UState(Other(c)) = IF b.upg = None THEN "UNINIT" ELSE "INIT"
  BY <1>0 DEF UState, NewUpgradeState, Rival
<1>2. CASE b.upg = None
  <2>1. NextAction(c) \in {"NONE", "CANCEL"}
        /\ (NextAction(c) = "CANCEL" => a.upg # None /\ b.seq >= a.seq)
    BY <1>1, <1>2 DEF NextAction
  <2>2. a.upg # None /\ b.seq >= a.seq => b.receipt = 1
    BY <1>0, <1>2 DEF Rival
  <2> QED
    BY <2>1, <2>2
<1>3. CASE b.upg # None
  <2>1. b.upg = w[Other(c)]
    BY <1>0, <1>3 DEF Rival
  <2>2. NextAction(c) \in {"NONE", "TRY"}
    BY <1>1, <1>3 DEF NextAction, CrossingHellosAction
  <2> QED
    BY <2>1, <2>2
<1> QED
  BY <1>2, <1>3

-----------------------------------------------------------------------------
(* The steps of execute *)

\* Headers, messages and transactions are taken over, dropped, or read from the chains.
Keeps ==
    /\ hist' = hist
    /\ \A d \in Chains :
         /\ sh'[d].at \in {sh[d].at, Fresh(FALSE)} \/ \E i \in 0..Depth : sh'[d].at = hist[d][i]
         /\ out'[d] \in {out[d], NoMsg}
         /\ pool'[d].msg \in {pool[d].msg, out[d], NoMsg}

\* Every step of the relayer but the one that builds the messages.
OtherStep(c) ==
    \/ ReadHeader(c) \/ SettledChannel(c) \/ SettledUpgrade(c) \/ QueryIdle(c)
    \/ SendNothing(c) \/ Broadcast(c) \/ SendRejected(c) \/ WaitForCommit(c)
    \/ GiveUpWaiting(c) \/ Sync(c)
    \/ Finish \/ NotInitialized \/ BuildError \/ BuildCancel \/ SendResult
    \/ Interrupt \/ \E command \in Commands : Start(command)

\* An end that the relayer has not read.
LEMMA FreshOn == \A v : On(Fresh(FALSE), v) /\ Stage(Fresh(FALSE)) = 0 /\ Rival(Fresh(FALSE), v)
  BY DEF On, Stage, Rival, Fresh, None

\* Nothing is kept at the end of a round.
LEMMA ClearedKeeps ==
    ASSUME NEW d \in Chains
    PROVE  NoHeaders[d].at = Fresh(FALSE) /\ NoMsgs[d] = NoMsg
  BY DEF NoHeaders, NoMsgs

\* What is taken over by a round, by its end, and by its phases.
LEMMA RoundKeeps ==
    ASSUME hist' = hist, pool' = pool,
           \/ NewRound \/ Fail \/ UNCHANGED <<sh, out>> \/ (sh' = NoHeaders /\ out' = out)
           \/ (sh' = sh /\ out' = NoMsgs)
    PROVE  Keeps
  BY ClearedKeeps DEF Keeps, NewRound, Fail

\* The other steps take over, drop or read.
LEMMA OtherStepKeeps ==
    ASSUME TypeInv, cmd = "execute", NEW c \in Chains, OtherStep(c)
    PROVE  Keeps
<1>1. CASE ReadHeader(c)
  <2>1. UNCHANGED <<hist, pool, out>> /\ sh' = [sh EXCEPT ![c] = [at |-> hist[c][Delay], proves |-> hist[c][Depth]]]
    BY <1>1 DEF ReadHeader, chainVars
  <2>2. \A d \in Chains : sh'[d].at = sh[d].at \/ sh'[d].at = hist[d][Delay]
    BY <2>1, Types
  <2> QED
    BY <2>1, <2>2, ConstantTypes DEF Keeps
<1>2. CASE SettledChannel(c) \/ SettledUpgrade(c) \/ QueryIdle(c)
  BY <1>2, RoundKeeps DEF SettledChannel, SettledUpgrade, QueryIdle, chainVars, roundVars
<1>3. CASE SendNothing(c) \/ SendRejected(c) \/ WaitForCommit(c) \/ GiveUpWaiting(c) \/ Sync(c)
  BY <1>3, RoundKeeps DEF SendNothing, SendRejected, WaitForCommit, GiveUpWaiting, Sync, Sent,
                          chainVars, roundVars
<1>4. CASE Broadcast(c)
  <2>1. UNCHANGED <<hist, sh, out>> /\ pool' = [pool EXCEPT ![c] = [NoTx EXCEPT !.status = "pending", !.msg = out[c]]]
    BY <1>4 DEF Broadcast, roundVars
  <2>2. \A d \in Chains : pool'[d].msg \in {pool[d].msg, out[d]}
    BY <2>1, Types DEF NoTx
  <2> QED
    BY <2>1, <2>2 DEF Keeps
<1>5. CASE Finish \/ NotInitialized \/ BuildError \/ BuildCancel
  BY <1>5, RoundKeeps DEF Finish, NotInitialized, BuildError, BuildCancel, chainVars
<1>6. CASE SendResult
  BY <1>6, RoundKeeps DEF SendResult, chainVars, roundVars
<1>7. CASE Interrupt
  BY <1>7, RoundKeeps DEF Interrupt, chainVars
<1>8. CASE \E command \in Commands : Start(command)
  BY <1>8, RoundKeeps DEF Start, chainVars, roundVars
<1> QED
  BY <1>1, <1>2, <1>3, <1>4, <1>5, <1>6, <1>7, <1>8 DEF OtherStep

\* What is taken over still is of the past.
LEMMA KeptIsPast ==
    ASSUME NEW v, Agreed(v), Keeps
    PROVE  \A d \in Chains : Past(sh'[d].at, d, v) /\ Fits(out'[d], d, v) /\ Fits(pool'[d].msg, d, v)
<1> SUFFICES ASSUME NEW d \in Chains
             PROVE  Past(sh'[d].at, d, v) /\ Fits(out'[d], d, v) /\ Fits(pool'[d].msg, d, v)
  OBVIOUS
<1>1. /\ \A i \in 0..Depth : Past(hist[d][i], d, v)
      /\ Past(sh[d].at, d, v) /\ Fits(out[d], d, v) /\ Fits(pool[d].msg, d, v)
  BY DEF Agreed, Ends, Carried
<1>2. Past(Fresh(FALSE), d, v) /\ Fits(NoMsg, d, v)
  <2>1. On(Fresh(FALSE), v) /\ Stage(Fresh(FALSE)) = 0 /\ Stage(Latest(d)) \in 0..4
    BY FreshOn, StageType
  <2>2. \A x : Stage(x) = 0 => Stage(x) <= Stage(Latest(d))
    BY <2>1
  <2> QED
    BY <2>1, <2>2, Zenon DEF Past, Fits
<1>3. Past(sh'[d].at, d, v)
  BY <1>1, <1>2 DEF Keeps
<1>4. out'[d] \in {out[d], NoMsg} /\ pool'[d].msg \in {pool[d].msg, out[d], NoMsg}
  BY DEF Keeps
<1> QED
  BY <1>1, <1>2, <1>3, <1>4

\* Rivals stay rivals.
LEMMA ConflictKept ==
    ASSUME NEW w, Conflict(w), Keeps
    PROVE  Conflict(w)'
<1>1. \A d \in Chains : RivalMsg(NoMsg, w[Other(d)]) /\ Rival(Fresh(FALSE), w[d])
  BY FreshOn DEF RivalMsg
<1>2. ASSUME NEW d \in Chains
      PROVE  /\ Rival(sh'[d].at, w[d])
             /\ RivalMsg(out'[d], w[Other(d)]) /\ RivalMsg(pool'[d].msg, w[Other(d)])
  <2>1. /\ \A i \in 0..Depth : Rival(hist[d][i], w[d])
        /\ Rival(sh[d].at, w[d])
        /\ RivalMsg(out[d], w[Other(d)]) /\ RivalMsg(pool[d].msg, w[Other(d)])
    BY DEF Conflict
  <2>2. out'[d] \in {out[d], NoMsg} /\ pool'[d].msg \in {pool[d].msg, out[d], NoMsg}
    BY DEF Keeps
  <2>3. Rival(sh'[d].at, w[d])
    BY <1>1, <2>1 DEF Keeps
  <2> QED
    BY <1>1, <2>1, <2>2, <2>3
<1>3. hist' = hist
  BY DEF Keeps
<1> QED
  BY <1>2, <1>3, ConflictSame

\* Phases in which nothing is claimed of the headers.
Plain(p) == p = <<"channel", "src">> \/ p[1] \in {"header", "send", "wait", "result", "sync", "failed"}

\* Nothing has been compared in them.
LEMMA PlainPhases ==
    ASSUME Plain(pc')
    PROVE  Compared' /\ Rested'
  BY DEF Plain, Compared, Rested, ChannelSeen

\* Execute reads src first.
LEMMA ThenExecute ==
    ASSUME cmd = "execute", NEW c \in Chains, NEW phase
    PROVE  First = "src" /\ Then(c, phase) = IF c = "src" THEN <<pc[1], "dst">> ELSE <<phase, "src">>
  BY DEF First, Then, Other, Chains

\* A chain that is found settled is where its header is.
LEMMA SettledCompared ==
    ASSUME TypeInv, Orderly, NEW v, Agreed(v), NEW c \in Chains, SettledChannel(c)
    PROVE  Compared' /\ Rested'
<1> DEFINE o == Other(c)
<1>0. /\ v \in Nat \ {None, 1} /\ Ends(v) /\ Carried(v) /\ Compared
      /\ o \in Chains /\ Other(o) = c /\ o # c /\ \A d \in Chains : d = c \/ d = o
      /\ \A x : Stage(x) \in 0..4
      /\ pc = <<"channel", c>> /\ cmd = "execute"
      /\ Sound(Latest(c)) /\ Sound(sh[c].at) /\ 0 \in 0..Depth
  BY LatestSound, OtherChain, TwoChains, StageType, Types, ConstantTypes
     DEF Agreed, SettledChannel, Orderly, SoundHeader
<1>1. CASE NewRound
  <2>1. pc' = <<"header", "src">>
    BY <1>0, <1>1, ThenExecute DEF NewRound
  <2> QED
    BY <2>1, PlainPhases DEF Plain
<1>2. CASE /\ Channel(Latest(c)) = Channel(sh[c].at)
           /\ pc' = Then(c, "upgrade") /\ UNCHANGED <<firstCall, roundVars>>
  <2>0. UNCHANGED <<hist, pool, sh>> /\ \A d \in Chains : Latest(d)' = Latest(d)
    BY <1>2 DEF SettledChannel, chainVars, roundVars, Latest
  <2>1. pc' = IF c = "src" THEN <<"channel", "dst">> ELSE <<"upgrade", "src">>
    BY <1>0, <1>2, ThenExecute
  <2>2. Stage(Latest(c)) = Stage(sh[c].at)
    BY <1>0, <1>2, ChannelTellsStage DEF Ends, Carried, Past, Latest
  <2>3. Stage(sh[o].at) <= Stage(Latest(o)) /\ Stage(Latest(o)) <= Stage(Latest(c)) + 1
    BY <1>0 DEF Carried, Past, Ends
  <2>4. Stage(sh[o].at) <= Stage(sh[c].at) + 1
    BY <1>0, <2>2, <2>3
  <2>5. ASSUME NEW d \in Chains, Stage(Latest(d)) = 0 PROVE pool[Other(d)].status # "pending"
    <3> DEFINE m == pool[Other(d)].msg
    <3>1. Fits(m, Other(d), v) /\ Other(Other(d)) = d
      BY <1>0, OtherChain DEF Carried
    <3>2. m # NoMsg => Stage(m.proven) <= Stage(Latest(d)) /\ Shows(m.act, Stage(m.proven))
      BY <3>1 DEF Fits, Past
    <3>3. m = NoMsg
      BY <1>0, <2>5, <3>2 DEF Shows
    <3> QED
      BY <3>3, OtherChain DEF Orderly
  <2>6. Compared'
    <3>1. CASE c = "src"
      BY <1>0, <2>0, <2>1, <2>2, <2>4, <2>5, <3>1 DEF Compared, ChannelSeen
    <3>2. CASE c = "dst"
      <4>1. o = "src"
        BY <3>2 DEF Other
      <4>2. ChannelSeen(o)
        BY <1>0, <3>2, <4>1 DEF ChannelSeen
      <4>3. /\ Stage(sh[c].at) <= Stage(sh[o].at) + 1
            /\ Stage(sh[o].at) = 0 => pool[c].status # "pending"
        BY <1>0, <4>2 DEF Compared
      <4> QED
        BY <1>0, <2>0, <2>1, <2>2, <2>4, <2>5, <4>3 DEF Compared
    <3> QED
      BY <3>1, <3>2 DEF Chains
  <2>7. Rested'
    <3>1. CASE c = "src"
      BY <2>1, <3>1 DEF Rested
    <3>2. CASE c = "dst"
      <4>0. o = "src" /\ ChannelSeen(o)
        BY <1>0, <3>2 DEF Other, ChannelSeen
      <4>1. ASSUME \A d \in Chains : Stage(sh[d].at) = 0 PROVE Quiet
        <5>1. Stage(Latest(c)) = 0 /\ Stage(Latest(o)) <= 1
          BY <1>0, <2>2, <2>3, <4>1
        <5>2. pool[o].status # "pending"
          BY <2>5, <5>1
        <5>3. pool[c].status # "pending"
          BY <1>0, <4>0, <4>1 DEF Compared
        <5> QED
          BY <1>0, <5>1, <5>2, <5>3 DEF Quiet
      <4>2. Quiet' <=> Quiet
        BY <2>0 DEF Quiet
      <4> QED
        BY <2>0, <2>1, <3>2, <4>1, <4>2 DEF Rested
    <3> QED
      BY <3>1, <3>2 DEF Chains
  <2> QED
    BY <2>6, <2>7
<1> QED
  BY <1>1, <1>2 DEF SettledChannel

\* Execute ends when no end has an upgrade: both are upgraded, or none has begun.
LEMMA FinishRested ==
    ASSUME TypeInv, NEW v, Agreed(v), Finish
    PROVE  Compared' /\ Rested'
<1>0. /\ v \in Nat \ {None, 1} /\ Carried(v) /\ Compared /\ Rested
      /\ \A x : Stage(x) \in 0..4 /\ pc[1] = "choose" /\ pc' = <<"done", "src">>
      /\ UNCHANGED <<hist, pool, target>>
      /\ \A d \in Chains : Sound(sh[d].at) /\ On(sh[d].at, v) /\ Other(d) \in Chains
  BY StageType, Types, OtherChain
     DEF Agreed, Finish, Executing, chainVars, operatorVars, SoundHeader, Carried, Past
<1>1. Compared'
  BY <1>0 DEF Compared, ChannelSeen
<1>2. ASSUME \A d \in Chains : target[d] = "UNINIT"
      PROVE  Quiet \/ \A d \in Chains : Stage(Latest(d)) = 4
  <2>1. \A d \in Chains : UState(d) = "UNINIT"
    BY <1>2 DEF Finish, TargetReached, BothUninit, Chains
  <2>2. \A d \in Chains : Stage(sh[d].at) \in {0, 4}
    <3> SUFFICES ASSUME NEW d \in Chains PROVE Stage(sh[d].at) \in {0, 4}
      OBVIOUS
    <3>1. NewUpgradeState(sh[d].at) = "UNINIT"
      BY <2>1 DEF UState
    <3> QED
      BY <1>0, <3>1, StateOfStage
  <2>3. \A d \in Chains : Stage(sh[Other(d)].at) <= Stage(sh[d].at) + 1
    BY <1>0 DEF Compared, ChannelSeen
  <2>4. (\A d \in Chains : Stage(sh[d].at) = 0) \/ (\A d \in Chains : Stage(sh[d].at) = 4)
    <3>1. /\ Stage(sh["src"].at) \in {0, 4} /\ Stage(sh["dst"].at) \in {0, 4}
          /\ Stage(sh["dst"].at) <= Stage(sh["src"].at) + 1
          /\ Stage(sh["src"].at) <= Stage(sh["dst"].at) + 1
      BY <2>2, <2>3 DEF Chains, Other
    <3> QED
      BY <3>1 DEF Chains
  <2>5. \A d \in Chains : Stage(sh[d].at) <= Stage(Latest(d))
    BY <1>0 DEF Carried, Past
  <2> QED
    BY <1>0, <2>4, <2>5 DEF Rested
<1>3. Quiet' <=> Quiet
  BY <1>0 DEF Quiet, Latest
<1>4. Rested'
  BY <1>0, <1>2, <1>3 DEF Rested, Latest
<1> QED
  BY <1>1, <1>4

\* Every step of the relayer but the one that builds the messages.
LEMMA AgreedOtherStep ==
    ASSUME TypeInv, Orderly, NEW v, Agreed(v), NEW c \in Chains, OtherStep(c)
    PROVE  Agreed(v)'
<1>0. cmd = "execute" /\ Keeps /\ hist' = hist
  BY OtherStepKeeps DEF Orderly, Keeps
<1>1. \A d \in Chains : Past(sh'[d].at, d, v) /\ Fits(out'[d], d, v) /\ Fits(pool'[d].msg, d, v)
  BY <1>0, KeptIsPast
<1>2. CASE Plain(pc')
  BY <1>0, <1>1, <1>2, PlainPhases, AgreedSame
<1>3. CASE NewRound \/ Fail
  <2>1. pc'[1] \in {"header", "failed"}
    BY <1>3 DEF NewRound, Fail
  <2> QED
    BY <1>2, <2>1 DEF Plain
<1>4. CASE ReadHeader(c)
  <2>1. pc' \in {<<"header", "dst">>, <<"channel", "src">>}
    BY <1>0, <1>4, ThenExecute DEF ReadHeader
  <2> QED
    BY <1>2, <2>1 DEF Plain
<1>5. CASE SettledChannel(c)
  BY <1>0, <1>1, <1>5, SettledCompared, AgreedSame
<1>6. CASE SettledUpgrade(c) \/ QueryIdle(c)
  <2>1. CASE NewRound
    BY <1>3, <2>1
  <2>2. CASE /\ pc = <<"upgrade", c>> /\ pc' = Then(c, IF cmd = "execute" THEN "idle" ELSE "choose")
             /\ UNCHANGED <<hist, pool, sh>>
    <3>1. pc[1] \in {"upgrade", "idle"} /\ pc'[1] \in {"upgrade", "idle", "choose"}
      BY <1>0, <2>2, ThenExecute
    <3>2. Compared' /\ Rested'
      BY <2>2, <3>1 DEF Agreed, Compared, Rested, ChannelSeen, Quiet, Latest
    <3> QED
      BY <1>0, <1>1, <3>2, AgreedSame
  <2>3. CASE /\ pc = <<"idle", c>> /\ pc' = Then(c, "choose")
             /\ UNCHANGED <<hist, pool, sh>>
    <3>1. pc[1] \in {"upgrade", "idle"} /\ pc'[1] \in {"upgrade", "idle", "choose"}
      BY <1>0, <2>3, ThenExecute
    <3>2. Compared' /\ Rested'
      BY <2>3, <3>1 DEF Agreed, Compared, Rested, ChannelSeen, Quiet, Latest
    <3> QED
      BY <1>0, <1>1, <3>2, AgreedSame
  <2> QED
    BY <1>6, <2>1, <2>2, <2>3 DEF SettledUpgrade, QueryIdle, chainVars, roundVars
<1>7. CASE Finish
  BY <1>0, <1>1, <1>7, FinishRested, AgreedSame
<1>8. CASE NotInitialized \/ BuildError \/ BuildCancel \/ Interrupt
  BY <1>0, <1>3, <1>8 DEF NotInitialized, BuildError, BuildCancel, Interrupt
<1>9. CASE SendNothing(c)
  <2>1. pc'[1] \in {"send", "result"}
    BY <1>0, <1>9, ThenExecute DEF SendNothing
  <2> QED
    BY <1>2, <2>1 DEF Plain
<1>10. CASE Broadcast(c) \/ SendRejected(c) \/ WaitForCommit(c) \/ GiveUpWaiting(c)
  <2>1. pc'[1] \in {"wait", "send", "result"}
    BY <1>0, <1>10 DEF Broadcast, SendRejected, WaitForCommit, GiveUpWaiting, Sent
  <2> QED
    BY <1>2, <2>1 DEF Plain
<1>11. CASE Sync(c) \/ SendResult
  <2>1. NewRound \/ Fail \/ pc'[1] = "sync"
    BY <1>0, <1>11 DEF Sync, SendResult
  <2> QED
    BY <1>2, <1>3, <2>1 DEF Plain
<1>12. CASE \E command \in Commands : Start(command)
  <2>1. pc'[1] = "header"
    BY <1>12 DEF Start
  <2> QED
    BY <1>2, <2>1 DEF Plain
<1> QED
  BY <1>4, <1>5, <1>6, <1>7, <1>8, <1>9, <1>10, <1>11, <1>12 DEF OtherStep

\* What building the messages changes.
LEMMA BuiltMsgs ==
    ASSUME TypeInv, BuildMsgs
    PROVE  /\ pc[1] = "choose" /\ hist' = hist /\ pool' = pool /\ sh' = NoHeaders
           /\ pc'[1] \in {"header", "send"}
           /\ \A d \in Chains : \E n \in {1, 2} : /\ out'[d] = ActionMsg(d, NextAction(d), n)
                                                  /\ n = 2 => faults' = faults + 1
<1>1. PICK again \in SUBSET Chains :
        /\ \/ again = {} /\ UNCHANGED faults
           \/ Cardinality(again) = 1 /\ Fault /\ \A d \in Chains : NextAction(d) # "NONE"
        /\ out' = [d \in Chains |-> ActionMsg(d, NextAction(d), IF d \in again THEN 2 ELSE 1)]
  BY DEF BuildMsgs
<1>2. ASSUME NEW d \in Chains
      PROVE  \E n \in {1, 2} : /\ out'[d] = ActionMsg(d, NextAction(d), n)
                               /\ n = 2 => faults' = faults + 1
  <2>1. CASE d \in again
    BY <1>1, <2>1 DEF Fault
  <2>2. CASE d \notin again
    BY <1>1, <2>2
  <2> QED
    BY <2>1, <2>2
<1> QED
  BY <1>2 DEF BuildMsgs, Executing, chainVars

\* A message that is built proves the header of the other chain.
LEMMA ActionMsgFields ==
    ASSUME NEW d, NEW act, NEW n
    PROVE  /\ act = "NONE" => ActionMsg(d, act, n) = NoMsg
           /\ act # "NONE" => /\ ActionMsg(d, act, n).act = act /\ ActionMsg(d, act, n) # NoMsg
                              /\ ActionMsg(d, act, n).proven = sh[Other(d)].at
                              /\ ActionMsg(d, act, n).copies = n
<1> DEFINE p == sh[Other(d)].at
<1> HIDE DEF p
<1>1. ActionMsg(d, act, n) = IF act = "NONE" THEN NoMsg ELSE [act |-> act, proven |-> p, copies |-> n]
  BY DEF ActionMsg, p
<1>2. NoMsg.act = "NONE"
  BY DEF NoMsg
<1>3. act # "NONE" => [act |-> act, proven |-> p, copies |-> n] # NoMsg
  BY <1>2
<1> QED
  BY <1>1, <1>3 DEF p

\* The messages that are built keep both ends on their way.
LEMMA AgreedBuild ==
    ASSUME TypeInv, NEW v, Agreed(v), BuildMsgs
    PROVE  Agreed(v)'
<1>0. /\ pc[1] = "choose" /\ hist' = hist /\ pool' = pool /\ sh' = NoHeaders
      /\ pc'[1] \in {"header", "send"}
  BY BuiltMsgs
<1>1. ASSUME NEW d \in Chains PROVE Fits(out'[d], d, v)
  <2>1. PICK n \in {1, 2} : out'[d] = ActionMsg(d, NextAction(d), n)
    BY BuiltMsgs
  <2>2. CASE NextAction(d) = "NONE"
    BY <2>1, <2>2, ActionMsgFields DEF Fits
  <2>3. CASE NextAction(d) # "NONE"
    <3>1. Shows(NextAction(d), Stage(sh[Other(d)].at)) /\ Past(sh[Other(d)].at, Other(d), v)
      BY <1>0, <2>3, AgreedAction, OtherChain DEF Agreed, Carried
    <3>2. out'[d].act = NextAction(d) /\ out'[d].proven = sh[Other(d)].at
      BY <2>1, <2>3, ActionMsgFields
    <3> QED
      BY <3>1, <3>2 DEF Fits
  <2> QED
    BY <2>2, <2>3
<1>2. \A d \in Chains : Past(sh[d].at, d, v) /\ Fits(pool[d].msg, d, v) /\ Fits(NoMsg, d, v)
  BY DEF Agreed, Carried, Fits
<1>3. \A d \in Chains : Past(sh'[d].at, d, v)
  <2> SUFFICES ASSUME NEW d \in Chains PROVE Past(sh'[d].at, d, v)
    OBVIOUS
  <2>1. sh'[d].at = Fresh(FALSE)
    BY <1>0, ClearedKeeps
  <2>2. On(Fresh(FALSE), v) /\ Stage(Fresh(FALSE)) = 0 /\ Stage(Latest(d)) \in 0..4
    BY FreshOn, StageType
  <2>3. \A x : Stage(x) = 0 => Stage(x) <= Stage(Latest(d))
    BY <2>2
  <2> QED
    BY <2>1, <2>2, <2>3, Zenon DEF Past
<1>4. Compared' /\ Rested'
  BY <1>0, PlainPhases DEF Plain
<1> QED
  BY <1>0, <1>1, <1>2, <1>3, <1>4, AgreedSame

\* The messages that are built for rivals.
LEMMA ConflictBuild ==
    ASSUME TypeInv, NEW w, Conflict(w), BuildMsgs
    PROVE  Conflict(w)'
<1>0. /\ hist' = hist /\ pool' = pool /\ sh' = NoHeaders
  BY BuiltMsgs
<1>1. ASSUME NEW d \in Chains PROVE RivalMsg(out'[d], w[Other(d)])
  <2>1. PICK n \in {1, 2} : out'[d] = ActionMsg(d, NextAction(d), n)
    BY BuiltMsgs
  <2>2. CASE NextAction(d) = "NONE"
    BY <2>1, <2>2, ActionMsgFields DEF RivalMsg
  <2>3. CASE NextAction(d) # "NONE"
    <3>1. out'[d].act = NextAction(d) /\ out'[d].proven = sh[Other(d)].at
      BY <2>1, <2>3, ActionMsgFields
    <3>2. Rival(sh[Other(d)].at, w[Other(d)])
      BY OtherChain DEF Conflict
    <3> QED
      BY <2>3, <3>1, <3>2, ConflictAction DEF RivalMsg
  <2> QED
    BY <2>2, <2>3
<1>2. \A d \in Chains : Rival(sh'[d].at, w[d])
  <2> SUFFICES ASSUME NEW d \in Chains PROVE Rival(sh'[d].at, w[d])
    OBVIOUS
  <2>1. sh'[d].at = Fresh(FALSE)
    BY <1>0, ClearedKeeps
  <2>2. Rival(Fresh(FALSE), w[d])
    BY FreshOn
  <2> QED
    BY <2>1, <2>2, Zenon
<1>3. \A d \in Chains : RivalMsg(pool'[d].msg, w[Other(d)])
  BY <1>0 DEF Conflict
<1> QED
  BY <1>0, <1>1, <1>2, <1>3, ConflictSame

-----------------------------------------------------------------------------
(* The invariant of both cases *)

World == Orderly /\ ((\E v : Agreed(v)) \/ (\E w : Conflict(w)))

\* The running command stays execute, and a transaction on its way has a message.
LEMMA OrderlyNext ==
    ASSUME Undisturbed, TypeInv, Orderly, Next
    PROVE  Orderly'
<1>0. /\ cmd = "execute" /\ pool \in [Chains -> Tx] /\ cancels \in 0..0
      /\ \A d \in Chains : pool[d].status = "pending" <=> pool[d].msg # NoMsg
  BY Types DEF Orderly, Undisturbed
<1>a. NoTx.status = "none" /\ NoTx.msg = NoMsg
  BY DEF NoTx
<1>1. ASSUME NEW c \in Chains,
             NewBlock(c) \/ FlushPackets(c) \/ Elapse(c) \/ InitCheck(c) \/ InitSend(c)
      PROVE  Orderly'
  <2>1. cmd' = cmd /\ (pool' = pool \/ pool' = [pool EXCEPT ![c].status = IF @ = "committed" THEN "followed" ELSE @])
    BY <1>1 DEF NewBlock, FlushPackets, Elapse, InitCheck, InitSend, relayerVars, chainVars
  <2>2. \A d \in Chains : /\ pool'[d].status = "pending" <=> pool[d].status = "pending"
                          /\ pool'[d].msg = pool[d].msg
    BY <1>0, <2>1 DEF Tx
  <2> QED
    BY <1>0, <2>1, <2>2 DEF Orderly
<1>2. ASSUME NEW c \in Chains, ExecTx(c) \/ DropTx(c) PROVE Orderly'
  <2>1. cmd' = cmd
    BY <1>2 DEF ExecTx, DropTx, relayerVars
  <2>2. \/ \E ok, event : pool' = [pool EXCEPT ![c] = [status |-> "committed", msg |-> NoMsg, ok |-> ok,
                                                       event |-> event]]
        \/ pool' = [pool EXCEPT ![c] = NoTx]
    BY <1>2 DEF ExecTx, DropTx
  <2>3. \A d \in Chains : \/ pool'[d] = pool[d]
                          \/ pool'[d].status # "pending" /\ pool'[d].msg = NoMsg
    BY <1>0, <1>a, <2>2
  <2> QED
    BY <1>0, <2>1, <2>3 DEF Orderly
<1>3. ASSUME NEW c \in Chains, Broadcast(c) PROVE Orderly'
  <2>1. /\ cmd' = cmd /\ out[c] # NoMsg
        /\ pool' = [pool EXCEPT ![c] = [NoTx EXCEPT !.status = "pending", !.msg = out[c]]]
    BY <1>3 DEF Broadcast
  <2>2. pool'[c].status = "pending" /\ pool'[c].msg = out[c]
    BY <1>0, <2>1 DEF NoTx
  <2>3. \A d \in Chains : d # c => pool'[d] = pool[d]
    BY <1>0, <2>1
  <2> QED
    BY <1>0, <2>1, <2>2, <2>3 DEF Orderly
<1>4. ASSUME \E command \in Commands : Start(command) PROVE Orderly'
  <2>1. PICK command \in Commands : Start(command)
    BY <1>4
  <2>2. command = "execute"
    BY <1>0, <2>1 DEF Start, Undisturbed
  <2> QED
    BY <1>0, <2>1, <2>2 DEF Start, Orderly, chainVars
<1>5. ASSUME cmd' = cmd, pool' = pool PROVE Orderly'
  BY <1>0, <1>5 DEF Orderly
<1>6. CASE RelayerStep \/ Interrupt
  <2>1. CASE \E c \in Chains : Broadcast(c)
    BY <1>3, <2>1
  <2>2. CASE Finish \/ NotInitialized \/ BuildMsgs \/ BuildError \/ BuildCancel \/ SendResult \/ Interrupt
    BY <1>5, <2>2 DEF Finish, NotInitialized, BuildMsgs, BuildError, BuildCancel, SendResult, Interrupt, chainVars
  <2>3. CASE \E c \in Chains : \/ ReadHeader(c) \/ SettledChannel(c) \/ SettledUpgrade(c) \/ QueryIdle(c)
                               \/ SendNothing(c) \/ SendRejected(c) \/ WaitForCommit(c)
                               \/ GiveUpWaiting(c) \/ Sync(c)
    BY <1>5, <2>3 DEF ReadHeader, SettledChannel, SettledUpgrade, QueryIdle, SendNothing, SendRejected,
                      WaitForCommit, GiveUpWaiting, Sync, Sent, chainVars
  <2> QED
    BY <1>6, <2>1, <2>2, <2>3 DEF RelayerStep
<1> QED
  BY <1>1, <1>2, <1>4, <1>6 DEF Next

\* The steps of a chain and of init, and those of the relayer.
LEMMA NextCases ==
    ASSUME Next
    PROVE  \/ \E c \in Chains : \/ NewBlock(c) \/ FlushPackets(c) \/ Elapse(c) \/ ExecTx(c) \/ DropTx(c)
                                \/ InitCheck(c) \/ InitSend(c)
           \/ \E c \in Chains : OtherStep(c)
           \/ BuildMsgs
<1>1. "src" \in Chains
  BY DEF Chains
<1> QED
  BY <1>1 DEF Next, RelayerStep, OtherStep

\* Every step keeps the invariant.
LEMMA WorldNext ==
    ASSUME Undisturbed, TypeInv, TypeInv', World, [Next]_vars
    PROVE  World'
<1>0. Orderly
  BY DEF World
<1>1. CASE UNCHANGED vars
  <2>1. UNCHANGED <<hist, pool, sh, out, pc, target, cmd>>
    BY <1>1 DEF vars, chainVars, operatorVars, roundVars
  <2>2. Orderly'
    BY <1>0, <2>1 DEF Orderly
  <2>3. ASSUME NEW v, Agreed(v) PROVE Agreed(v)'
    <3>1. \A d \in Chains : Past(sh'[d].at, d, v) /\ Fits(out'[d], d, v) /\ Fits(pool'[d].msg, d, v)
      BY <2>1, <2>3 DEF Agreed, Carried
    <3>2. Compared' /\ Rested'
      BY <2>1, <2>3 DEF Agreed, Compared, Rested, ChannelSeen, Quiet, Latest
    <3> QED
      BY <2>1, <2>3, <3>1, <3>2, AgreedSame
  <2>4. ASSUME NEW w, Conflict(w) PROVE Conflict(w)'
    BY <2>1, <2>4 DEF Conflict, Latest
  <2> QED
    BY <2>2, <2>3, <2>4 DEF World
<1>2. CASE Next
  <2>1. Orderly'
    BY <1>0, <1>2, OrderlyNext
  <2>2. ASSUME NEW v, Agreed(v) PROVE (\E x : Agreed(x)') \/ (\E x : Conflict(x)')
    BY <1>0, <1>2, <2>2, NextCases, AgreedChainStep, AgreedInitSend, AgreedOtherStep, AgreedBuild
  <2>3. ASSUME NEW w, Conflict(w) PROVE Conflict(w)'
    BY <1>0, <1>2, <2>3, NextCases, ConflictChainStep, OtherStepKeeps, ConflictKept, ConflictBuild DEF Orderly
  <2> QED
    BY <2>1, <2>2, <2>3 DEF World
<1> QED
  BY <1>1, <1>2

\* No end has a proposal at the start.
LEMMA WorldInit == Init => World
<1> SUFFICES ASSUME Init PROVE World
  OBVIOUS
<1>1. PICK busy \in [Chains -> BOOLEAN] : hist = [c \in Chains |-> [i \in 0..Depth |-> Fresh(busy[c])]]
  BY DEF Init
<1>2. \A c \in Chains, i \in 0..Depth : hist[c][i] = Fresh(busy[c])
  BY <1>1
<1>3. \A b \in BOOLEAN : On(Fresh(b), 2) /\ Stage(Fresh(b)) = 0 /\ ~Fresh(b).cp
  BY DEF On, Stage, Fresh, None
<1>4. \A c \in Chains, i \in 0..Depth : On(hist[c][i], 2) /\ Stage(hist[c][i]) = 0 /\ ~hist[c][i].cp
  BY <1>2, <1>3
<1>5. \A c \in Chains : Stage(Latest(c)) = 0 /\ ~Latest(c).cp
  BY <1>4, ConstantTypes DEF Latest
<1>6. Ends(2)
  BY <1>4, <1>5, OtherChain DEF Ends, Past
<1>7. Carried(2)
  <2>1. \A c \in Chains : sh[c].at = Fresh(FALSE) /\ out[c] = NoMsg /\ pool[c].msg = NoMsg
    BY ClearedKeeps DEF Init, NoTx
  <2>2. On(Fresh(FALSE), 2) /\ Stage(Fresh(FALSE)) = 0
    BY FreshOn
  <2>3. \A x : \A c \in Chains : Stage(x) = 0 => Stage(x) <= Stage(Latest(c))
    BY <1>5
  <2> QED
    BY <2>1, <2>2, <2>3, Zenon DEF Carried, Past, Fits
<1>8. Compared /\ Rested
  BY DEF Init, Compared, Rested, ChannelSeen
<1>9. Agreed(2)
  BY <1>6, <1>7, <1>8 DEF Agreed, None
<1>10. Orderly
  BY DEF Init, Orderly, NoTx
<1> QED
  BY <1>9, <1>10 DEF World

\* What the invariant says when execute has ended.
LEMMA WorldAgrees ==
    ASSUME TypeInv, World
    PROVE  DoneIsAgreed
<1> SUFFICES ASSUME pc[1] = "done", \A c \in Chains : target[c] = "UNINIT"
             PROVE  Latest("src").ver = Latest("dst").ver
  BY DEF DoneIsAgreed
<1>0. 0 \in 0..Depth /\ {"src", "dst"} = Chains /\ \A c \in Chains : Sound(Latest(c))
  BY ConstantTypes, LatestSound DEF Chains
<1>1. CASE \E v : Agreed(v)
  <2>1. PICK v : Agreed(v)
    BY <1>1
  <2>2. \A c \in Chains : On(Latest(c), v) /\ v \in Nat \ {None, 1}
    BY <1>0, <2>1 DEF Agreed, Ends, Past, Latest
  <2>3. CASE Quiet
    <3>1. \A c \in Chains : Stage(Latest(c)) \in {0, 1}
      BY <2>3, StageType DEF Quiet
    <3>2. \A c \in Chains : Latest(c).ver = 1
      BY <1>0, <2>2, <3>1, StageFields
    <3> QED
      BY <1>0, <3>2
  <2>4. CASE \A c \in Chains : Stage(Latest(c)) = 4
    <3>1. \A c \in Chains : Latest(c).ver = v
      BY <1>0, <2>2, <2>4, StageFields
    <3> QED
      BY <1>0, <3>1
  <2> QED
    BY <2>1, <2>3, <2>4 DEF Agreed, Rested
<1>2. CASE \E w : Conflict(w)
  <2>1. \A c \in Chains : Latest(c).ver = 1
    BY <1>0, <1>2 DEF Conflict, Rival, Latest
  <2> QED
    BY <1>0, <2>1
<1> QED
  BY <1>1, <1>2 DEF World

\* When ends are proposed to once, and nothing is cancelled and no timeout elapses, execute
\* reports the end of an upgrade only when the versions agree: whichever transactions are
\* lost, late or given up, wherever the command was interrupted, with any finality delay,
\* and although the proposals may be different.
THEOREM DoneCorrect ==
    ASSUME Undisturbed
    PROVE  Spec => []DoneIsAgreed
<1>1. Init => TypeInv /\ World
  BY TypeInit, WorldInit
<1>2. TypeInv /\ World /\ [Next]_vars => TypeInv' /\ World'
  BY TypeNext, WorldNext
<1>3. TypeInv /\ World => DoneIsAgreed
  BY WorldAgrees
<1> QED
  BY <1>1, <1>2, <1>3, PTL DEF Spec

-----------------------------------------------------------------------------
(* Without faults *)

\* The upgrade of chain c has been found settled in this round.
UpgradeSeen(c) == pc[1] \in {"idle", "choose"} \/ (c = "src" /\ pc = <<"upgrade", "dst">>)

\* Chain c has still to be sent its message.
Unsent(c) == pc = <<"send", "src">> \/ (c = "dst" /\ pc \in {<<"wait", "src">>, <<"send", "dst">>})

\* Chain c has been sent its message, and the result is not known.
SentTo(c) == pc[1] = "result" \/ (c = "src" /\ pc \in {<<"send", "dst">>, <<"wait", "dst">>})

\* The events of chain c have still to be looked at.
Unsynced(c) ==
    \/ pc = <<"wait", c>> \/ SentTo(c) \/ pc = <<"sync", "src">>
    \/ c = "dst" /\ pc = <<"sync", "dst">>

\* End e has come from end a without a message: a proposal or the last packet in flight.
Follows(a, e) ==
    /\ a.state = "OPEN" => e.state = "OPEN"
    /\ a.upg # None => e.upg # None
    /\ a.state = "FLUSHING" => e.state \in {"FLUSHING", "FLUSHCOMPLETE"}
    /\ a.state = "FLUSHCOMPLETE" => e.state = "FLUSHCOMPLETE"

\* End e is in a state for the message.
Ready(act, e) ==
    /\ act \in {"TRY", "ACK"} => e.state = "OPEN"
    /\ act \in {"ACK", "CANCEL"} => e.upg # None
    /\ act = "CONFIRM" => e.state \in {"FLUSHING", "FLUSHCOMPLETE"}
    /\ act = "OPEN" => e.state = "FLUSHCOMPLETE"

\* A message that may complete the upgrade.
Opener(m) == m.act = "OPEN" \/ (m.act = "CONFIRM" /\ m.proven.state = "FLUSHCOMPLETE")

\* The last acknowledgement was before the confirm.
Missed(c) == out[c].act = "CONFIRM" /\ Latest(c).state = "FLUSHCOMPLETE"

\* A round that may complete the upgrade of one end has no confirm for the other one, and an
\* event tells the version of the channel.
Events ==
    \A c \in Chains :
      /\ Opener(out[c]) => out[Other(c)].act # "CONFIRM"
      /\ pool[c].event # None => pool[c].event = Latest(c).ver
      /\ pool[c].status = "pending" => pool[c].event = None

\* Every transaction is waited for.
Awaited(c) ==
    /\ pool[c].status = "pending" => pc = <<"wait", c>> /\ pool[c].msg = out[c]
    /\ pc = <<"wait", c>> => pool[c].status # "none" /\ out[c] # NoMsg
    /\ pc = <<"wait", c>> /\ pool[c].status # "pending" /\ ~pool[c].ok => Missed(c)
    /\ out[c].copies <= 1

\* What is settled, or is to be sent a message, has moved on its own only.
Prepared(c) ==
    /\ UpgradeSeen(c) => Follows(sh[c].at, Latest(c))
    /\ Unsent(c) \/ pool[c].status = "pending" => Ready(out[c].act, Latest(c))

\* The configuration is that of the channel, or an event tells what it has to become.
Synced(c) ==
    \/ conf[c] = Latest(c).ver
    \/ /\ pool[c].event = Latest(c).ver /\ Latest(c).state = "OPEN"
       /\ Opener(out[c]) /\ Unsynced(c)

Steady ==
    faults = 0 =>
      /\ \A c \in Chains : Awaited(c) /\ Prepared(c) /\ Synced(c)
      /\ ~succeeded => \E c \in Chains : Missed(c) /\ SentTo(c)

\* A chain accepts the message of a round that it is in a state for, unless it is a late confirm.
LEMMA ReadyAccepted ==
    ASSUME Undisturbed, TypeInv, World, NEW c \in Chains, out[c] # NoMsg, out[c].copies <= 1,
           Ready(out[c].act, Latest(c))
    PROVE  TxAccepted(Latest(c), out[c]) \/ Missed(c)
<1> DEFINE e == Latest(c)
           m == out[c]
           p == out[c].proven
<1>0. /\ Sound(e) /\ SoundMsg(m) /\ Sound(p) /\ 0 \in 0..Depth /\ Other(c) \in Chains
      /\ \A x : Stage(x) \in 0..4
  BY LatestSound, Types, ConstantTypes, OtherChain, StageType DEF SoundMsg
<1>1. m.copies # 2
  OBVIOUS
<1>2. SUFFICES Accepted(e, m.act, p) \/ Missed(c)
  BY <1>1 DEF TxAccepted
<1>3. CASE \E v : Agreed(v)
  <2>1. PICK v : Agreed(v)
    BY <1>3
  <2>2. v \in Nat \ {None, 1} /\ On(e, v) /\ On(p, v) /\ Shows(m.act, Stage(p))
    BY <1>0, <2>1 DEF Agreed, Ends, Carried, Fits, Past, Latest
  <2> HIDE DEF e, m, p
  <2>3. CASE m.act = "TRY"
    <3>1. e.state = "OPEN"
      BY <2>3 DEF Ready, e, m
    <3>2. Stage(p) = 1
      BY <2>2, <2>3 DEF Shows
    <3>3. p.state = "OPEN" /\ p.upg # None
      BY <1>0, <2>2, <3>2, StageFields
    <3> QED
      BY <2>3, <3>1, <3>3 DEF Accepted
  <2>4. CASE m.act = "ACK"
    <3>1. e.state = "OPEN" /\ e.upg # None
      BY <2>4 DEF Ready, e, m
    <3>2. Stage(p) = 2
      BY <2>2, <2>4 DEF Shows
    <3>3. p.state = "FLUSHING" /\ p.seq = 1
      BY <1>0, <2>2, <3>2, StageFields
    <3>4. Stage(e) = 1
      BY <2>2, <3>1 DEF Stage
    <3>5. e.seq = 1
      BY <1>0, <2>2, <3>4, StageFields
    <3> QED
      BY <2>4, <3>1, <3>3, <3>5 DEF Accepted
  <2>5. CASE m.act = "CONFIRM"
    <3>1. e.state \in {"FLUSHING", "FLUSHCOMPLETE"}
      BY <2>5 DEF Ready, e, m
    <3>2. CASE e.state = "FLUSHCOMPLETE"
      BY <2>5, <3>2 DEF Missed, e, m
    <3>3. CASE e.state = "FLUSHING"
      <4>1. Stage(p) \in {2, 3}
        BY <2>2, <2>5 DEF Shows
      <4>2. p.state \in {"FLUSHING", "FLUSHCOMPLETE"} /\ p.seq = 1
        BY <1>0, <2>2, <4>1, StageFields
      <4>3. e.seq = 1
        BY <1>0, <2>2, <3>3, StageFields
      <4> QED
        BY <2>5, <3>3, <4>2, <4>3 DEF Accepted
    <3> QED
      BY <3>1, <3>2, <3>3
  <2>6. CASE m.act = "OPEN"
    <3>1. e.state = "FLUSHCOMPLETE"
      BY <2>6 DEF Ready, e, m
    <3>2. e.seq = 1 /\ e.upg = v
      BY <1>0, <2>2, <3>1, StageFields
    <3>3. Stage(p) \in {3, 4}
      BY <2>2, <2>6 DEF Shows
    <3>4. CASE Stage(p) = 3
      <4>1. p.state = "FLUSHCOMPLETE" /\ p.seq = 1
        BY <1>0, <2>2, <3>4, StageFields
      <4> QED
        BY <2>6, <3>1, <3>2, <4>1 DEF Accepted
    <3>5. CASE Stage(p) = 4
      <4>1. p.state = "OPEN" /\ p.ver = v /\ p.seq = 1
        BY <1>0, <2>2, <3>5, StageFields
      <4> QED
        BY <2>6, <3>1, <3>2, <4>1 DEF Accepted, Completed
    <3> QED
      BY <3>3, <3>4, <3>5
  <2> QED
    BY <2>2, <2>3, <2>4, <2>5, <2>6 DEF Shows
<1>4. CASE \E w : Conflict(w)
  <2>1. PICK w : Conflict(w)
    BY <1>4
  <2>2. /\ Rival(e, w[c]) /\ e.seq = 1 /\ Rival(p, w[Other(c)]) /\ w[Other(c)] # None
        /\ \/ m.act = "TRY" /\ p.upg = w[Other(c)]
           \/ m.act = "CANCEL" /\ p.receipt = 1
    BY <1>0, <2>1 DEF Conflict, RivalMsg, Latest
  <2>3. Ready(m.act, e)
    OBVIOUS
  <2> HIDE DEF e, m, p
  <2>4. CASE m.act = "TRY"
    BY <2>2, <2>4 DEF Accepted, Rival
  <2>5. CASE m.act = "CANCEL" /\ p.receipt = 1
    <3>1. e.state = "OPEN" /\ e.upg # None
      BY <2>2, <2>3, <2>5 DEF Rival, Ready
    <3>2. CancelAllowed(e, p)
      BY <2>2, <2>5, <3>1 DEF CancelAllowed, None
    <3> QED
      BY <2>5, <3>1, <3>2 DEF Accepted
  <2> QED
    BY <2>2, <2>4, <2>5
<1> QED
  BY <1>3, <1>4 DEF World

\* Only a message that proves a flushed or upgraded counterparty completes the upgrade.
LEMMA OpenerOpens ==
    ASSUME NEW e, Sound(e), NEW m, SoundMsg(m), m.copies <= 1, TxAccepted(e, m),
           TxResult(e, m).ver # e.ver
    PROVE  Opener(m) /\ TxResult(e, m).state = "OPEN"
<1> DEFINE p == m.proven
           r == Result(e, m.act, p)
<1>0. e \in End /\ Accepted(e, m.act, p) /\ TxResult(e, m) = r
  BY DEF Sound, TxAccepted, TxResult
<1> HIDE DEF p, r
<1>1. \A n : Aborted(e, n).ver = e.ver
  BY <1>0 DEF Aborted, End
<1>2. Flushed(e).ver = e.ver /\ Upgraded(e).state = "OPEN"
  BY <1>0 DEF Flushed, Upgraded, End
<1>3. \A n, s, u : /\ [e EXCEPT !.receipt = n].ver = e.ver
                   /\ [e EXCEPT !.state = s, !.upg = u, !.seq = n].ver = e.ver
  BY <1>0 DEF End
<1>4. CASE m.act = "TRY"
  <2>1. \/ \E n : r = [e EXCEPT !.receipt = n]
        \/ \E n : r = Aborted(e, n)
        \/ \E s, u, n : r = [e EXCEPT !.state = s, !.upg = u, !.seq = n]
    BY <1>4 DEF Result, r
  <2>2. r.ver = e.ver
    <3>1. CASE \E n : r = [e EXCEPT !.receipt = n]
      BY <1>3, <3>1
    <3>2. CASE \E n : r = Aborted(e, n)
      BY <1>1, <3>2
    <3>3. CASE \E s, u, n : r = [e EXCEPT !.state = s, !.upg = u, !.seq = n]
      BY <1>3, <3>3
    <3> QED
      BY <2>1, <3>1, <3>2, <3>3
  <2> QED
    BY <1>0, <2>2
<1>5. CASE m.act = "ACK"
  <2>1. r = Aborted(e, e.seq) \/ r = Flushed(e)
    BY <1>5 DEF Result, r
  <2> QED
    BY <1>0, <1>1, <1>2, <2>1
<1>6. CASE m.act = "CONFIRM"
  <2>1. r = Aborted(e, e.seq) \/ r = Flushed(e) \/ (r = Upgraded(e) /\ p.state = "FLUSHCOMPLETE")
    BY <1>6 DEF Result, r
  <2> QED
    BY <1>0, <1>1, <1>2, <1>6, <2>1 DEF Opener, p
<1>7. CASE m.act = "OPEN"
  <2>1. r = Upgraded(e)
    BY <1>7 DEF Result, r
  <2> QED
    BY <1>0, <1>2, <1>7, <2>1 DEF Opener
<1>8. CASE m.act \notin {"TRY", "ACK", "CONFIRM", "OPEN"}
  <2>1. \E n : r = Aborted(e, n)
    BY <1>8 DEF Result, r
  <2> QED
    BY <1>0, <1>1, <2>1
<1> QED
  BY <1>4, <1>5, <1>6, <1>7, <1>8

\* What end a becomes without a message.
Drifts(a, e) ==
    /\ e.ver = a.ver
    /\ a.upg # None => e.upg # None
    /\ e.state = a.state \/ (a.state = "FLUSHING" /\ e.state = "FLUSHCOMPLETE")

\* The last packet in flight and a proposal are all that changes an end besides messages.
LEMMA ChainDrifts ==
    ASSUME Undisturbed, TypeInv, World, NEW c \in Chains,
           NewBlock(c) \/ FlushPackets(c) \/ Elapse(c) \/ DropTx(c) \/ InitCheck(c) \/ InitSend(c),
           NEW d \in Chains
    PROVE  Drifts(Latest(d), Latest(d)')
<1>0. Sound(Latest(c)) /\ Latest(c) \in End /\ 0 \in 0..Depth /\ d \in {c, Other(c)}
  BY LatestSound, TwoChains, ConstantTypes
<1>1. ASSUME Latest(d)' = Latest(d) PROVE Drifts(Latest(d), Latest(d)')
  BY <1>1 DEF Drifts
<1>2. ASSUME NEW e, AddBlock(c, e), Drifts(Latest(c), e) PROVE Drifts(Latest(d), Latest(d)')
  <2>1. Latest(c)' = e /\ Latest(Other(c))' = Latest(Other(c))
    BY <1>2, NewWindow
  <2> QED
    BY <1>0, <1>1, <1>2, <2>1
<1>3. CASE NewBlock(c)
  <2>1. AddBlock(c, Latest(c)) /\ Drifts(Latest(c), Latest(c))
    BY <1>3 DEF NewBlock, Drifts
  <2> QED
    BY <1>2, <2>1
<1>4. CASE FlushPackets(c)
  <2> DEFINE e == Latest(c)
             f == FlushedEnd([e EXCEPT !.busy = FALSE])
  <2>1. AddBlock(c, f)
    BY <1>4 DEF FlushPackets, FlushedEnd
  <2>2. Drifts(e, f)
    <3>1. CASE \E v : Agreed(v)
      <4>1. PICK v : Agreed(v)
        BY <3>1
      <4>2. v \in Nat \ {None, 1} /\ On(e, v) /\ Sound(e) /\ Stage(e) \in 0..4
        BY <1>0, <4>1, StageType DEF Agreed, Ends, Past, Latest
      <4>3. /\ On(f, v) /\ f.ver = e.ver /\ f.upg = e.upg
            /\ Stage(f) = Stage(e) \/ (Stage(f) = 3 /\ Stage(e) \in {2, 3})
        BY <4>2, FlushOn
      <4>4. Sound(f)
        <5> DEFINE b == [e EXCEPT !.busy = FALSE]
        <5>1. Sound(b) /\ (b.cp => b.upg # None) /\ b.seq \in 0..MaxSeq
          BY <1>0 DEF Sound, End
        <5> HIDE DEF b
        <5>2. Sound(FlushedEnd(b))
          BY <5>1, AbortedSound, FlushedSound DEF FlushedEnd
        <5> QED
          BY <5>2 DEF b
      <4> HIDE DEF e, f
      <4>5. Stage(f) = Stage(e) => f.state = e.state
        BY <4>2, <4>3, <4>4, StageFields
      <4>6. Stage(f) = 3 => f.state = "FLUSHCOMPLETE"
        BY <4>2, <4>3, <4>4, StageFields
      <4>7. Stage(e) \in {2, 3} => e.state \in {"FLUSHING", "FLUSHCOMPLETE"}
        BY <4>2, StageFields
      <4> QED
        BY <4>3, <4>5, <4>6, <4>7 DEF Drifts
    <3>2. CASE \E w : Conflict(w)
      <4>1. ~e.cp
        BY <1>0, <3>2 DEF Conflict, Rival, Latest
      <4> DEFINE b == [e EXCEPT !.busy = FALSE]
      <4>2. b.ver = e.ver /\ b.upg = e.upg /\ b.state = e.state /\ b.cp = e.cp
        BY <1>0 DEF End
      <4>3. f = b
        BY <4>1, <4>2 DEF FlushedEnd
      <4> QED
        BY <4>2, <4>3 DEF Drifts
    <3> QED
      BY <3>1, <3>2 DEF World
  <2> HIDE DEF f
  <2> QED
    BY <1>2, <2>1, <2>2
<1>5. CASE Elapse(c)
  BY <1>5 DEF Elapse, Undisturbed
<1>6. CASE DropTx(c) \/ InitCheck(c)
  BY <1>1, <1>6 DEF DropTx, InitCheck, chainVars, Latest
<1>7. CASE InitSend(c)
  <2>1. CASE hist' = hist
    BY <1>1, <2>1 DEF Latest
  <2>2. CASE \E v \in UpgradeFields(Latest(c)) : AddBlock(c, Proposed(Latest(c), v))
    <3>1. PICK v \in UpgradeFields(Latest(c)) : AddBlock(c, Proposed(Latest(c), v))
      BY <2>2
    <3>2. v # None
      BY ConstantTypes DEF UpgradeFields
    <3> DEFINE f == Proposed(Latest(c), v)
    <3>3. f.ver = Latest(c).ver /\ f.upg = v /\ f.state = Latest(c).state
      BY <1>0 DEF Proposed, End
    <3>4. AddBlock(c, f)
      BY <3>1
    <3> HIDE DEF f
    <3> QED
      BY <1>2, <3>2, <3>3, <3>4 DEF Drifts
  <2> QED
    BY <1>7, <2>1, <2>2 DEF InitSend
<1> QED
  BY <1>3, <1>4, <1>5, <1>6, <1>7

\* The end that an action is chosen for is in a state for it.
LEMMA ActionReady ==
    ASSUME TypeInv, NEW c \in Chains
    PROVE  Ready(NextAction(c), sh[c].at) /\ (NextAction(c) = "CONFIRM" => sh[c].at.state = "FLUSHING")
<1> DEFINE a == sh[c].at
<1>0. Sound(a) /\ a.state \in {"OPEN", "FLUSHING", "FLUSHCOMPLETE"}
  BY Types, EndFields DEF SoundHeader, Sound
<1>1. /\ UState(c) \in {"UNINIT", "INIT"} => a.state = "OPEN"
      /\ UState(c) = "INIT" => a.upg # None
      /\ UState(c) = "FLUSHING" => a.state = "FLUSHING"
      /\ UState(c) = "FLUSHCOMPLETE" => a.state = "FLUSHCOMPLETE"
      /\ UState(c) \in UpgradeStates
  BY <1>0 DEF UState, NewUpgradeState, UpgradeStates
<1>2. a.state # "OPEN" => a.upg # None
  BY <1>0 DEF Sound
<1> DEFINE n == NextAction(c)
<1>3. UState(c) = "UNINIT" => n \in {"NONE", "TRY"}
  BY DEF NextAction
<1>4. UState(c) = "INIT" => n \in {"NONE", "CANCEL", "TRY", "ACK"}
  BY DEF NextAction, CrossingHellosAction
<1>5. UState(c) = "FLUSHING" => n \in {"NONE", "CANCEL", "TIMEOUT", "CONFIRM"}
  BY DEF NextAction
<1>6. UState(c) = "FLUSHCOMPLETE" => n \in {"NONE", "OPEN", "TIMEOUT", "CANCEL_FLUSHCOMPLETE"}
  <2>1. FlushCompleteAction(c) \in {"OPEN", "TIMEOUT", "CANCEL_FLUSHCOMPLETE"}
    BY DEF FlushCompleteAction
  <2> QED
    BY <2>1 DEF NextAction
<1> HIDE DEF n, a
<1>7. Ready(n, a) /\ (n = "CONFIRM" => a.state = "FLUSHING")
  BY <1>1, <1>2, <1>3, <1>4, <1>5, <1>6 DEF Ready, UpgradeStates
<1> QED
  BY <1>7 DEF n, a

\* An end that may open has a counterparty that need not confirm.
LEMMA OpenerAlone ==
    ASSUME TypeInv, NEW c \in Chains, NextAction(c) = "OPEN" \/ NextAction(c) = "CONFIRM",
           NextAction(c) = "CONFIRM" => sh[Other(c)].at.state = "FLUSHCOMPLETE"
    PROVE  NextAction(Other(c)) # "CONFIRM"
<1> DEFINE b == sh[Other(c)].at
<1>0. Sound(b) /\ b.state \in {"OPEN", "FLUSHING", "FLUSHCOMPLETE"} /\ Other(c) \in Chains
  BY OtherChain, Types, EndFields DEF SoundHeader, Sound
<1>1. NextAction(Other(c)) = "CONFIRM" => b.state = "FLUSHING"
  BY <1>0, ActionReady
<1>2. b.state = "FLUSHING" => UState(Other(c)) = "FLUSHING"
  BY <1>0 DEF UState, NewUpgradeState
<1>3. CASE NextAction(c) = "CONFIRM"
  BY <1>1, <1>3
<1>4. CASE NextAction(c) = "OPEN"
  <2>1. UState(Other(c)) # "FLUSHING"
    BY <1>4 DEF NextAction, CrossingHellosAction
  <2> QED
    BY <1>1, <1>2, <2>1
<1> QED
  BY <1>3, <1>4

\* NoMsg has nothing to do.
LEMMA NoMsgFields == NoMsg.act = "NONE" /\ NoMsg.copies = 0 /\ ~Opener(NoMsg)
  BY DEF NoMsg, Opener

\* The messages of a round and the events of the chains.
LEMMA EventsNext ==
    ASSUME Undisturbed, TypeInv, World, Events, Next
    PROVE  Events'
<1>0. /\ pool \in [Chains -> Tx] /\ cmd = "execute" /\ hist \in [Chains -> [0..Depth -> End]]
      /\ \A d \in Chains : Other(d) \in Chains
  BY Types, OtherChain DEF World, Orderly, TypeInv, TypeOK
<1>1. ASSUME UNCHANGED out,
             \A d \in Chains : /\ pool'[d].event # None => pool'[d].event = Latest(d)'.ver
                               /\ pool'[d].status = "pending" => pool'[d].event = None
      PROVE  Events'
  BY <1>1 DEF Events, Opener
<1>2. ASSUME NEW c \in Chains,
             NewBlock(c) \/ FlushPackets(c) \/ Elapse(c) \/ InitCheck(c) \/ InitSend(c)
      PROVE  Events'
  <2>1. out' = out /\ (pool' = pool \/ pool' = [pool EXCEPT ![c].status = IF @ = "committed" THEN "followed" ELSE @])
    BY <1>2 DEF NewBlock, FlushPackets, Elapse, InitCheck, InitSend, relayerVars, roundVars, chainVars
  <2>2. \A d \in Chains : /\ pool'[d].status = "pending" <=> pool[d].status = "pending"
                          /\ pool'[d].event = pool[d].event
    BY <1>0, <2>1 DEF Tx
  <2>3. \A d \in Chains : Latest(d)'.ver = Latest(d).ver
    BY <1>2, ChainDrifts DEF Drifts
  <2> QED
    BY <1>1, <2>1, <2>2, <2>3 DEF Events
<1>3. ASSUME NEW c \in Chains, ExecTx(c) PROVE Events'
  <2> DEFINE e == Latest(c)
             m == pool[c].msg
             ok == TxAccepted(e, m)
             opens == ok /\ TxResult(e, m).ver # e.ver
             f == IF ok THEN TxResult(e, m) ELSE e
             event == IF opens THEN TxResult(e, m).ver ELSE None
  <2>1. /\ AddBlock(c, f) /\ out' = out
        /\ pool' = [pool EXCEPT ![c] = [status |-> "committed", msg |-> NoMsg, ok |-> ok, event |-> event]]
    BY <1>3 DEF ExecTx, relayerVars, roundVars
  <2>2. event # None => event = f.ver
    OBVIOUS
  <2> HIDE DEF f, event, ok
  <2>3. pool'[c].event = event /\ pool'[c].status = "committed" /\ \A d \in Chains : d # c => pool'[d] = pool[d]
    BY <1>0, <2>1
  <2>4. Latest(c)' = f /\ Latest(Other(c))' = Latest(Other(c))
    BY <2>1, NewWindow
  <2>5. ASSUME NEW d \in Chains
        PROVE  /\ pool'[d].event # None => pool'[d].event = Latest(d)'.ver
               /\ pool'[d].status = "pending" => pool'[d].event = None
    <3>1. CASE d = c
      BY <2>2, <2>3, <2>4, <3>1
    <3>2. CASE d = Other(c) /\ d # c
      BY <2>3, <2>4, <3>2 DEF Events
    <3> QED
      BY <3>1, <3>2, TwoChains
  <2> QED
    BY <1>1, <2>1, <2>5
<1>4. ASSUME NEW c \in Chains, DropTx(c) PROVE Events'
  <2>1. out' = out /\ pool' = [pool EXCEPT ![c] = NoTx] /\ hist' = hist
    BY <1>4 DEF DropTx, relayerVars, roundVars
  <2>2. \A d \in Chains : pool'[d] = pool[d] \/ pool'[d].event = None
    BY <1>0, <2>1 DEF NoTx
  <2> QED
    BY <1>1, <2>1, <2>2 DEF Events, Latest
<1>5. ASSUME NEW c \in Chains, OtherStep(c) PROVE Events'
  <2>1. Keeps
    BY <1>0, <1>5, OtherStepKeeps
  <2>2. \A d \in Chains : pool'[d] = pool[d] \/ pool'[d].event = None
    <3>1. CASE Broadcast(c)
      BY <1>0, <3>1 DEF Broadcast, NoTx
    <3>2. CASE ~Broadcast(c)
      <4>1. pool' = pool
        BY <1>5, <3>2 DEF OtherStep, ReadHeader, SettledChannel, SettledUpgrade, QueryIdle, SendNothing,
              SendRejected, WaitForCommit, GiveUpWaiting, Sync, Finish, NotInitialized, BuildError,
              BuildCancel, SendResult, Interrupt, Start, chainVars
      <4> QED
        BY <4>1
    <3> QED
      BY <3>1, <3>2
  <2>3. \A d \in Chains : Opener(out'[d]) => out'[Other(d)].act # "CONFIRM"
    <3> SUFFICES ASSUME NEW d \in Chains, Opener(out'[d]) PROVE out'[Other(d)].act # "CONFIRM"
      OBVIOUS
    <3>1. out'[d] = out[d] /\ out'[Other(d)] \in {out[Other(d)], NoMsg}
      BY <1>0, <2>1, NoMsgFields DEF Keeps
    <3>2. out[Other(d)].act # "CONFIRM"
      BY <3>1 DEF Events
    <3> QED
      BY <3>1, <3>2, NoMsgFields
  <2>4. \A d \in Chains : Latest(d)' = Latest(d)
    BY <2>1 DEF Keeps, Latest
  <2> QED
    BY <2>2, <2>3, <2>4 DEF Events, Opener
<1>6. ASSUME BuildMsgs PROVE Events'
  <2>1. hist' = hist /\ pool' = pool
    BY <1>6, BuiltMsgs
  <2>2. ASSUME NEW d \in Chains, Opener(out'[d]) PROVE out'[Other(d)].act # "CONFIRM"
    <3>1. PICK n \in {1, 2} : out'[d] = ActionMsg(d, NextAction(d), n)
      BY <1>6, BuiltMsgs
    <3>2. PICK k \in {1, 2} : out'[Other(d)] = ActionMsg(Other(d), NextAction(Other(d)), k)
      BY <1>0, <1>6, BuiltMsgs
    <3>3. NextAction(d) # "NONE"
      BY <2>2, <3>1, ActionMsgFields, NoMsgFields
    <3>4. out'[d].act = NextAction(d) /\ out'[d].proven = sh[Other(d)].at
      BY <3>1, <3>3, ActionMsgFields
    <3>5. NextAction(Other(d)) # "CONFIRM"
      BY <2>2, <3>4, OpenerAlone DEF Opener
    <3> QED
      BY <3>2, <3>5, ActionMsgFields, NoMsgFields
  <2> QED
    BY <2>1, <2>2 DEF Events, Opener, Latest
<1> QED
  BY <1>2, <1>3, <1>4, <1>5, <1>6, NextCases

\* What drifts stays ready, settled and missed.
LEMMA DriftKeeps ==
    ASSUME NEW e, NEW f, Drifts(e, f)
    PROVE  /\ \A act : Ready(act, e) => Ready(act, f)
           /\ \A a : Follows(a, e) => Follows(a, f)
           /\ e.state = "FLUSHCOMPLETE" => f.state = "FLUSHCOMPLETE"
           /\ e.state = "OPEN" => f.state = "OPEN"
           /\ f.ver = e.ver
  BY DEF Drifts, Ready, Follows

\* The steps of the chains without a transaction.
LEMMA SteadyDrift ==
    ASSUME Undisturbed, TypeInv, World, Steady, NEW c \in Chains,
           NewBlock(c) \/ FlushPackets(c) \/ Elapse(c) \/ DropTx(c) \/ InitCheck(c) \/ InitSend(c)
    PROVE  Steady'
<1> SUFFICES ASSUME faults' = 0 PROVE Steady'
  BY DEF Steady
<1>0. faults \in Nat /\ pool \in [Chains -> Tx]
  BY Types, ConstantTypes
<1>1. ~DropTx(c)
  BY <1>0 DEF DropTx, Fault
<1>2. /\ faults = 0 /\ UNCHANGED <<pc, sh, out, conf, succeeded>>
      /\ pool' = pool \/ pool' = [pool EXCEPT ![c].status = IF @ = "committed" THEN "followed" ELSE @]
  BY <1>1 DEF NewBlock, FlushPackets, Elapse, InitCheck, InitSend, relayerVars, roundVars, chainVars
<1>3. \A d \in Chains : /\ pool'[d].status = "pending" <=> pool[d].status = "pending"
                        /\ pool'[d].status = "none" <=> pool[d].status = "none"
                        /\ pool'[d].msg = pool[d].msg /\ pool'[d].ok = pool[d].ok
                        /\ pool'[d].event = pool[d].event
  BY <1>0, <1>2 DEF Tx
<1>4. \A d \in Chains : Drifts(Latest(d), Latest(d)')
  BY ChainDrifts
<1>5. \A d \in Chains : Missed(d) => Missed(d)'
  BY <1>2, <1>4, DriftKeeps DEF Missed
<1>6. ASSUME NEW d \in Chains PROVE Awaited(d)' /\ Prepared(d)' /\ Synced(d)'
  <2>0. Awaited(d) /\ Prepared(d) /\ Synced(d)
    BY <1>2 DEF Steady
  <2>1. Awaited(d)'
    BY <1>2, <1>3, <1>5, <2>0 DEF Awaited
  <2>2. Prepared(d)'
    BY <1>2, <1>3, <1>4, <2>0, DriftKeeps DEF Prepared, UpgradeSeen, Unsent
  <2>3. Synced(d)'
    <3>1. (Unsynced(d) <=> Unsynced(d)') /\ (Opener(out[d]) <=> Opener(out'[d]))
      BY <1>2 DEF Unsynced, SentTo
    <3>2. Latest(d)'.ver = Latest(d).ver /\ (Latest(d).state = "OPEN" => Latest(d)'.state = "OPEN")
      BY <1>4, DriftKeeps
    <3> QED
      BY <1>2, <1>3, <2>0, <3>1, <3>2 DEF Synced, Opener
  <2> QED
    BY <2>1, <2>2, <2>3
<1>7. \A d \in Chains : SentTo(d) => SentTo(d)'
  BY <1>2 DEF SentTo
<1> QED
  BY <1>2, <1>5, <1>6, <1>7 DEF Steady

\* A transaction that is waited for is executed as it was checked.
LEMMA SteadyExec ==
    ASSUME Undisturbed, TypeInv, World, Events, Steady, NEW c \in Chains, ExecTx(c)
    PROVE  Steady'
<1> SUFFICES ASSUME faults' = 0 PROVE Steady'
  BY DEF Steady
<1> DEFINE e == Latest(c)
           m == pool[c].msg
           ok == TxAccepted(e, m)
           opens == ok /\ TxResult(e, m).ver # e.ver
           f == IF ok THEN TxResult(e, m) ELSE e
           event == IF opens THEN TxResult(e, m).ver ELSE None
           o == Other(c)
<1>0. /\ faults = 0 /\ pool \in [Chains -> Tx] /\ pool[c].status = "pending"
      /\ UNCHANGED <<pc, sh, out, conf, succeeded>>
      /\ AddBlock(c, f)
      /\ pool' = [pool EXCEPT ![c] = [status |-> "committed", msg |-> NoMsg, ok |-> ok, event |-> event]]
      /\ o \in Chains /\ o # c /\ \A d \in Chains : d = c \/ d = o
  BY Types, OtherChain, TwoChains DEF ExecTx, relayerVars, roundVars
<1>1. /\ Awaited(c) /\ Prepared(c) /\ Synced(c) /\ Awaited(o) /\ Prepared(o) /\ Synced(o)
      /\ ~succeeded => \E d \in Chains : Missed(d) /\ SentTo(d)
  BY <1>0 DEF Steady
<1>2. pc = <<"wait", c>> /\ m = out[c] /\ out[c] # NoMsg /\ out[c].copies <= 1 /\ Ready(out[c].act, e)
  BY <1>0, <1>1 DEF Awaited, Prepared
<1>3. ok \/ Missed(c)
  BY <1>2, ReadyAccepted
<1>4. Sound(e) /\ SoundMsg(m)
  BY LatestSound, Types DEF SoundTx
<1>5. opens => Opener(out[c]) /\ f.state = "OPEN" /\ event = f.ver
  <2> HIDE DEF e, m
  <2> QED
    BY <1>2, <1>4, OpenerOpens
<1>6. ~opens => f.ver = e.ver
  OBVIOUS
<1>7. ~ok => f = e
  OBVIOUS
<1> HIDE DEF f, event, opens, ok, o
<1>8. /\ pool'[c].status = "committed" /\ pool'[c].ok = ok /\ pool'[c].event = event
      /\ pool'[o] = pool[o]
  BY <1>0
<1>9. Latest(c)' = f /\ Latest(o)' = Latest(o)
  BY <1>0, NewWindow DEF o
<1>10. Awaited(c)'
  <2>1. ~ok => Missed(c)'
    BY <1>0, <1>3, <1>7, <1>9 DEF Missed
  <2> QED
    BY <1>0, <1>2, <1>8, <2>1 DEF Awaited
<1>11. Prepared(c)'
  <2>1. ~UpgradeSeen(c)' /\ ~Unsent(c)'
    BY <1>0, <1>2 DEF UpgradeSeen, Unsent
  <2> QED
    BY <1>8, <2>1 DEF Prepared
<1>12. Synced(c)'
  <2>1. conf[c] = e.ver
    <3>1. pool[c].event = None
      BY <1>0 DEF Events
    <3>2. e.ver # None
      BY <1>4, EndFields, ConstantTypes DEF Sound
    <3> QED
      BY <1>1, <3>1, <3>2 DEF Synced
  <2>2. CASE opens
    <3>1. Unsynced(c)'
      BY <1>0, <1>2 DEF Unsynced
    <3>2. Opener(out[c])'
      BY <1>0, <1>5, <2>2 DEF Opener
    <3> QED
      BY <1>0, <1>5, <1>8, <1>9, <2>2, <3>1, <3>2 DEF Synced
  <2>3. CASE ~opens
    BY <1>0, <1>6, <1>9, <2>1, <2>3 DEF Synced
  <2> QED
    BY <2>2, <2>3
<1>13. Awaited(o)' /\ Prepared(o)' /\ Synced(o)'
  BY <1>0, <1>1, <1>8, <1>9 DEF Awaited, Prepared, Synced, UpgradeSeen, Unsent, Unsynced, SentTo, Missed, Opener
<1>14. ~succeeded' => \E d \in Chains : (Missed(d) /\ SentTo(d))'
  <2>1. ~SentTo(c)
    BY <1>2 DEF SentTo
  <2>2. Missed(o) /\ SentTo(o) => (Missed(o) /\ SentTo(o))'
    BY <1>0, <1>9 DEF Missed, SentTo
  <2> QED
    BY <1>0, <1>1, <2>1, <2>2
<1> QED
  BY <1>0, <1>10, <1>11, <1>12, <1>13, <1>14 DEF Steady

\* Phases in which nothing is sent.
Calm(p) == p[1] \in Reading \cup {"choose"} \cup Ended

\* Nothing is on its way in them.
LEMMA CalmState ==
    ASSUME Steady, faults = 0, Calm(pc)
    PROVE  succeeded /\ \A c \in Chains : /\ conf[c] = Latest(c).ver /\ pool[c].status # "pending"
                                          /\ out[c].copies <= 1
<1>1. \A c \in Chains : ~SentTo(c) /\ ~Unsynced(c) /\ pc # <<"wait", c>>
  BY DEF Calm, SentTo, Unsynced, Reading, Ended
<1> QED
  BY <1>1 DEF Steady, Awaited, Synced

\* A step into a phase in which nothing is sent.
LEMMA SteadyCalm ==
    ASSUME Calm(pc'), succeeded',
           \A d \in Chains : /\ conf'[d] = Latest(d)'.ver /\ pool'[d].status # "pending"
                             /\ out'[d].copies <= 1
                             /\ UpgradeSeen(d)' => Follows(sh'[d].at, Latest(d)')
    PROVE  Steady'
<1>1. \A c \in Chains : ~(Unsent(c)') /\ pc' # <<"wait", c>>
  BY DEF Calm, Unsent, Reading, Ended
<1>2. \A c \in Chains : Awaited(c)'
  BY <1>1 DEF Awaited
<1>3. \A c \in Chains : Prepared(c)'
  BY <1>1 DEF Prepared
<1>4. \A c \in Chains : Synced(c)'
  BY DEF Synced
<1> QED
  BY <1>2, <1>3, <1>4 DEF Steady

\* The messages that are dropped at the end of a round.
LEMMA ClearedCopies ==
    ASSUME NEW d \in Chains
    PROVE  NoMsgs[d].copies <= 1
<1>1. NoMsgs[d] = NoMsg
  BY DEF NoMsgs
<1>2. NoMsg.copies = 0
  BY NoMsgFields, Zenon
<1> QED
  BY <1>1, <1>2

\* Chain c has been dealt with: dst is next, or the result.
LEMMA SteadyPassed ==
    ASSUME Steady, faults = 0, NEW c \in Chains, pc \in {<<"send", c>>, <<"wait", c>>},
           pool[c].status # "pending", UNCHANGED <<hist, pool, sh, out, conf>>,
           pc' = IF c = "src" THEN <<"send", "dst">> ELSE <<"result", "src">>,
           ~succeeded' => ~succeeded \/ Missed(c)
    PROVE  Steady'
<1>0. \A d \in Chains : /\ Awaited(d) /\ Prepared(d) /\ Synced(d) /\ Latest(d)' = Latest(d)
                        /\ (Missed(d)' <=> Missed(d))
  BY DEF Steady, Latest, Missed
<1>1. ASSUME NEW d \in Chains PROVE pool[d].status # "pending"
  BY <1>0 DEF Awaited
<1>2. ASSUME NEW d \in Chains PROVE Awaited(d)'
  BY <1>0, <1>1 DEF Awaited
<1>3. ASSUME NEW d \in Chains PROVE Prepared(d)'
  <2>1. ~UpgradeSeen(d)' /\ (Unsent(d)' => Unsent(d))
    BY DEF UpgradeSeen, Unsent, Chains
  <2> QED
    BY <1>0, <1>1, <2>1 DEF Prepared
<1>4. ASSUME NEW d \in Chains PROVE Synced(d)'
  <2>1. Unsynced(d) => Unsynced(d)'
    BY DEF Unsynced, SentTo, Chains
  <2> QED
    BY <1>0, <2>1 DEF Synced, Opener
<1>5. ASSUME ~succeeded' PROVE \E d \in Chains : (Missed(d) /\ SentTo(d))'
  <2>1. SentTo(c)' /\ \A d \in Chains : SentTo(d) => SentTo(d)'
    BY DEF SentTo, Chains
  <2>2. CASE Missed(c)
    BY <1>0, <2>1, <2>2
  <2>3. CASE ~succeeded
    BY <1>0, <2>1, <2>3 DEF Steady
  <2> QED
    BY <1>5, <2>2, <2>3
<1> QED
  BY <1>2, <1>3, <1>4, <1>5 DEF Steady

\* An end whose upgrade is that of its header.
LEMMA SettledFollows ==
    ASSUME TypeInv, World, NEW c \in Chains, Upgrade(Latest(c)) = Upgrade(sh[c].at)
    PROVE  Follows(sh[c].at, Latest(c))
<1> DEFINE a == sh[c].at
           e == Latest(c)
<1>0. /\ Sound(a) /\ Sound(e) /\ 0 \in 0..Depth
      /\ a.state \in {"OPEN", "FLUSHING", "FLUSHCOMPLETE"} /\ e.state \in {"OPEN", "FLUSHING", "FLUSHCOMPLETE"}
  BY LatestSound, Types, ConstantTypes, EndFields DEF SoundHeader, Sound
<1>1. e.upg = a.upg /\ (e.state # "OPEN" <=> a.state # "OPEN")
  BY DEF Upgrade
<1>2. a.state = "FLUSHCOMPLETE" => e.state = "FLUSHCOMPLETE"
  <2>1. CASE \E v : Agreed(v)
    <3>1. PICK v : Agreed(v)
      BY <2>1
    <3>2. v \in Nat \ {None, 1} /\ On(a, v) /\ On(e, v) /\ Stage(a) <= Stage(e)
      BY <1>0, <3>1 DEF Agreed, Ends, Carried, Past, Latest
    <3>3. Stage(a) \in 0..4 /\ Stage(e) \in 0..4
      BY StageType
    <3> HIDE DEF a, e
    <3>4. /\ Stage(a) = 3 <=> a.state = "FLUSHCOMPLETE"
          /\ Stage(e) = 3 <=> e.state = "FLUSHCOMPLETE"
          /\ Stage(e) = 4 => e.state = "OPEN"
      BY <1>0, <3>2, StageFields
    <3> QED
      BY <1>1, <3>2, <3>3, <3>4
  <2>2. CASE \E w : Conflict(w)
    <3>1. a.state = "OPEN"
      BY <2>2 DEF Conflict, Rival
    <3> QED
      BY <3>1
  <2> QED
    BY <2>1, <2>2 DEF World
<1> HIDE DEF a, e
<1>3. Follows(a, e)
  BY <1>0, <1>1, <1>2 DEF Follows
<1> QED
  BY <1>3 DEF a, e

\* The reading phases, and the ends of the command.
LEMMA SteadyReading ==
    ASSUME TypeInv, World, Steady, NEW c \in Chains,
           \/ ReadHeader(c) \/ SettledChannel(c) \/ SettledUpgrade(c) \/ QueryIdle(c)
           \/ Finish \/ NotInitialized \/ BuildError \/ Interrupt
           \/ \E command \in Commands : Start(command)
    PROVE  Steady'
<1> SUFFICES ASSUME faults' = 0 PROVE Steady'
  BY DEF Steady
<1>0. faults \in Nat /\ cmd = "execute"
  BY Types, ConstantTypes DEF World, Orderly
<1>1. ~Interrupt
  BY <1>0 DEF Interrupt, Fault
<1>2. faults = 0 /\ UNCHANGED <<hist, pool, conf>> /\ Calm(pc)
  BY <1>1 DEF ReadHeader, SettledChannel, SettledUpgrade, QueryIdle, Finish, NotInitialized, BuildError,
              Executing, Start, chainVars, Calm, Reading, Ended
<1>3. /\ succeeded
      /\ \A d \in Chains : /\ conf[d] = Latest(d).ver /\ pool[d].status # "pending" /\ out[d].copies <= 1
                           /\ Latest(d)' = Latest(d)
                           /\ UpgradeSeen(d) => Follows(sh[d].at, Latest(d))
  BY <1>2, CalmState DEF Latest, Steady, Prepared
<1>4. ASSUME Calm(pc'), succeeded', \A d \in Chains : out'[d] = out[d] \/ out'[d] = NoMsgs[d],
             \A d \in Chains : UpgradeSeen(d)' => Follows(sh'[d].at, Latest(d))
      PROVE  Steady'
  <2>1. \A d \in Chains : out'[d].copies <= 1
    BY <1>3, <1>4, ClearedCopies
  <2> QED
    BY <1>2, <1>3, <1>4, <2>1, SteadyCalm
<1>5. CASE NewRound \/ Fail
  <2>1. Calm(pc') /\ \A d \in Chains : ~UpgradeSeen(d)'
    BY <1>5 DEF NewRound, Fail, Calm, Reading, Ended, UpgradeSeen
  <2> QED
    BY <1>4, <1>5, <2>1 DEF NewRound, Fail
<1>6. CASE ReadHeader(c)
  <2>1. pc' \in {<<"header", "dst">>, <<"channel", "src">>} /\ UNCHANGED <<out, succeeded>>
    BY <1>0, <1>6, ThenExecute DEF ReadHeader
  <2>2. Calm(pc') /\ \A d \in Chains : ~UpgradeSeen(d)'
    BY <2>1 DEF Calm, Reading, UpgradeSeen
  <2> QED
    BY <1>3, <1>4, <2>1, <2>2
<1>7. CASE SettledChannel(c)
  <2>1. CASE pc' = Then(c, "upgrade") /\ UNCHANGED roundVars
    <3>1. pc' \in {<<"channel", "dst">>, <<"upgrade", "src">>} /\ UNCHANGED <<out, succeeded>>
      BY <1>0, <1>7, <2>1, ThenExecute DEF SettledChannel, roundVars
    <3>2. Calm(pc') /\ \A d \in Chains : ~UpgradeSeen(d)'
      BY <3>1 DEF Calm, Reading, UpgradeSeen
    <3> QED
      BY <1>3, <1>4, <3>1, <3>2
  <2> QED
    BY <1>5, <1>7, <2>1 DEF SettledChannel
<1>8. CASE SettledUpgrade(c)
  <2>1. CASE /\ Upgrade(Latest(c)) = Upgrade(sh[c].at)
             /\ pc' = Then(c, IF cmd = "execute" THEN "idle" ELSE "choose") /\ UNCHANGED roundVars
    <3>1. /\ pc = <<"upgrade", c>> /\ UNCHANGED <<sh, out, succeeded>>
          /\ pc' = IF c = "src" THEN <<"upgrade", "dst">> ELSE <<"idle", "src">>
      BY <1>0, <1>8, <2>1, ThenExecute DEF SettledUpgrade, roundVars
    <3>2. Calm(pc')
      BY <3>1 DEF Calm, Reading
    <3>3. Follows(sh[c].at, Latest(c))
      BY <2>1, SettledFollows
    <3>4. \A d \in Chains : UpgradeSeen(d)' => UpgradeSeen(d) \/ d = c
      BY <3>1 DEF UpgradeSeen, Chains
    <3> QED
      BY <1>3, <1>4, <3>1, <3>2, <3>3, <3>4
  <2> QED
    BY <1>5, <1>8, <2>1 DEF SettledUpgrade
<1>9. CASE QueryIdle(c)
  <2>1. /\ pc = <<"idle", c>> /\ UNCHANGED <<sh, out, succeeded>>
        /\ pc' \in {<<"idle", "dst">>, <<"choose", "src">>}
    BY <1>0, <1>9, ThenExecute DEF QueryIdle
  <2>2. Calm(pc') /\ \A d \in Chains : UpgradeSeen(d)
    BY <2>1 DEF Calm, Reading, UpgradeSeen
  <2> QED
    BY <1>3, <1>4, <2>1, <2>2
<1>10. CASE Finish
  <2>1. pc' = <<"done", "src">> /\ UNCHANGED <<out, succeeded>>
    BY <1>10 DEF Finish
  <2>2. Calm(pc') /\ \A d \in Chains : ~UpgradeSeen(d)'
    BY <2>1 DEF Calm, Ended, UpgradeSeen
  <2> QED
    BY <1>3, <1>4, <2>1, <2>2
<1>11. CASE NotInitialized \/ BuildError
  BY <1>5, <1>11 DEF NotInitialized, BuildError
<1>12. CASE \E command \in Commands : Start(command)
  <2>1. pc'[1] = "header" /\ UNCHANGED <<out, succeeded>>
    BY <1>12 DEF Start, roundVars
  <2>2. Calm(pc') /\ \A d \in Chains : ~UpgradeSeen(d)'
    BY <2>1 DEF Calm, Reading, UpgradeSeen
  <2> QED
    BY <1>3, <1>4, <2>1, <2>2
<1> QED
  BY <1>1, <1>6, <1>7, <1>8, <1>9, <1>10, <1>11, <1>12

\* The messages that are built are for ends in a state for them.
LEMMA SteadyBuild ==
    ASSUME TypeInv, World, Steady, BuildMsgs
    PROVE  Steady'
<1> SUFFICES ASSUME faults' = 0 PROVE Steady'
  BY DEF Steady
<1>a. faults \in Nat
  BY Types, ConstantTypes
<1>b. pc[1] = "choose" /\ UNCHANGED <<hist, pool, conf, succeeded>>
  BY DEF BuildMsgs, Executing, chainVars
<1>c. pc' \in {<<"header", "src">>, <<"send", "src">>}
  BY DEF BuildMsgs
<1>0. /\ faults \in Nat /\ pc[1] = "choose" /\ UNCHANGED <<hist, pool, conf, succeeded>>
      /\ pc' \in {<<"header", "src">>, <<"send", "src">>}
  BY <1>a, <1>b, <1>c
<1>1. faults = 0
  <2>1. ~Fault
    BY <1>0 DEF Fault
  <2> QED
    BY <2>1 DEF BuildMsgs
<1>2. Calm(pc) /\ \A d \in Chains : UpgradeSeen(d)
  BY <1>0 DEF Calm, UpgradeSeen
<1>3. /\ succeeded
      /\ \A d \in Chains : /\ conf[d] = Latest(d).ver /\ pool[d].status # "pending"
                           /\ Latest(d)' = Latest(d) /\ Follows(sh[d].at, Latest(d))
  BY <1>0, <1>1, <1>2, CalmState DEF Latest, Steady, Prepared
<1>4. ASSUME NEW d \in Chains PROVE out'[d].copies <= 1 /\ Ready(out'[d].act, Latest(d))
  <2>1. PICK n \in {1, 2} : out'[d] = ActionMsg(d, NextAction(d), n) /\ (n = 2 => faults' = faults + 1)
    BY BuiltMsgs
  <2>2. n = 1
    BY <1>0, <2>1
  <2>3. CASE NextAction(d) = "NONE"
    <3>1. out'[d] = NoMsg
      BY <2>1, <2>3, ActionMsgFields
    <3>2. NoMsg.act = "NONE" /\ NoMsg.copies = 0
      BY NoMsgFields, Zenon
    <3>3. out'[d].act = "NONE" /\ out'[d].copies = 0
      BY <3>1, <3>2, Zenon
    <3> QED
      BY <3>3 DEF Ready
  <2>4. CASE NextAction(d) # "NONE"
    <3>1. out'[d].act = NextAction(d) /\ out'[d].copies = 1
      BY <2>1, <2>2, <2>4, ActionMsgFields
    <3>2. Ready(NextAction(d), sh[d].at) /\ (NextAction(d) = "CONFIRM" => sh[d].at.state = "FLUSHING")
      BY ActionReady
    <3> QED
      BY <1>3, <3>1, <3>2 DEF Ready, Follows
  <2> QED
    BY <2>3, <2>4
<1>5. \A d \in Chains : Awaited(d)'
  BY <1>0, <1>3, <1>4 DEF Awaited
<1>6. \A d \in Chains : Prepared(d)'
  <2>1. \A d \in Chains : ~UpgradeSeen(d)'
    BY <1>0 DEF UpgradeSeen
  <2> QED
    BY <1>0, <1>3, <1>4, <2>1 DEF Prepared
<1>7. \A d \in Chains : Synced(d)'
  BY <1>0, <1>3 DEF Synced
<1> QED
  BY <1>0, <1>3, <1>5, <1>6, <1>7 DEF Steady

\* Sending, waiting, and the result of the round.
LEMMA SteadySending ==
    ASSUME Undisturbed, TypeInv, World, Events, Steady, NEW c \in Chains,
           \/ SendNothing(c) \/ Broadcast(c) \/ SendRejected(c) \/ WaitForCommit(c) \/ GiveUpWaiting(c)
    PROVE  Steady'
<1> SUFFICES ASSUME faults' = 0 PROVE Steady'
  BY DEF Steady
<1>0. faults \in Nat /\ cmd = "execute" /\ succeeded \in BOOLEAN /\ pool \in [Chains -> Tx]
  BY Types, ConstantTypes DEF World, Orderly
<1>1. faults = 0
  <2>1. ~Fault
    BY <1>0 DEF Fault
  <2> QED
    BY <2>1 DEF SendNothing, Broadcast, SendRejected, WaitForCommit, GiveUpWaiting
<1>2. \A d \in Chains : Awaited(d) /\ Prepared(d) /\ Synced(d)
  BY <1>1 DEF Steady
<1>3. \A d \in Chains : pool[d].status = "pending" => pc = <<"wait", d>>
  BY <1>2 DEF Awaited
<1>4. ASSUME pc = <<"send", c>>, out[c] # NoMsg, ~TxAccepted(Latest(c), out[c]) PROVE Missed(c)
  <2>1. Unsent(c)
    BY <1>4 DEF Unsent, Chains
  <2>2. Ready(out[c].act, Latest(c)) /\ out[c].copies <= 1
    BY <1>2, <2>1 DEF Prepared, Awaited
  <2> QED
    BY <1>4, <2>2, ReadyAccepted
<1>5. CASE SendNothing(c)
  <2>1. /\ pc = <<"send", c>> /\ UNCHANGED <<hist, pool, sh, out, conf, succeeded>>
        /\ pc' = IF c = "src" THEN <<"send", "dst">> ELSE <<"result", "src">>
    BY <1>0, <1>5, ThenExecute DEF SendNothing, chainVars, roundVars
  <2>2. pool[c].status # "pending"
    BY <1>3, <2>1
  <2> QED
    BY <1>1, <2>1, <2>2, SteadyPassed
<1>6. CASE SendRejected(c)
  <2>1. /\ pc = <<"send", c>> /\ out[c] # NoMsg /\ UNCHANGED <<hist, pool, sh, out, conf>>
        /\ pc' = IF c = "src" THEN <<"send", "dst">> ELSE <<"result", "src">>
        /\ pool[c].status = "pending" \/ ~TxAccepted(Latest(c), out[c])
    BY <1>0, <1>1, <1>6 DEF SendRejected, Sent, chainVars, Fault
  <2>2. pool[c].status # "pending"
    BY <1>3, <2>1
  <2>3. Missed(c)
    BY <1>4, <2>1, <2>2
  <2> QED
    BY <1>1, <2>1, <2>2, <2>3, SteadyPassed
<1>7. CASE WaitForCommit(c)
  <2>1. /\ pc = <<"wait", c>> /\ UNCHANGED <<hist, pool, sh, out, conf>>
        /\ pc' = IF c = "src" THEN <<"send", "dst">> ELSE <<"result", "src">>
        /\ pool[c].status = "followed" /\ succeeded' = (succeeded /\ pool[c].ok)
    BY <1>0, <1>7 DEF WaitForCommit, Sent, chainVars
  <2>2. ~pool[c].ok => Missed(c)
    BY <1>2, <2>1 DEF Awaited
  <2> QED
    BY <1>1, <2>1, <2>2, SteadyPassed
<1>8. CASE GiveUpWaiting(c)
  <2>1. pc = <<"wait", c>> /\ pool[c].status = "none"
    BY <1>0, <1>1, <1>8 DEF GiveUpWaiting, Fault
  <2> QED
    BY <1>2, <2>1 DEF Awaited
<1>9. CASE Broadcast(c)
  <2>1. /\ pc = <<"send", c>> /\ out[c] # NoMsg /\ UNCHANGED <<hist, sh, out, conf, succeeded>>
        /\ pool' = [pool EXCEPT ![c] = [NoTx EXCEPT !.status = "pending", !.msg = out[c]]]
        /\ pc' = <<"wait", c>>
    BY <1>9 DEF Broadcast, roundVars
  <2>2. /\ pool'[c].status = "pending" /\ pool'[c].msg = out[c]
        /\ \A d \in Chains : d # c => pool'[d] = pool[d]
    BY <1>0, <2>1 DEF NoTx
  <2>3. \A d \in Chains : Latest(d)' = Latest(d) /\ pool[d].status # "pending"
    BY <1>3, <2>1 DEF Latest
  <2>4. ASSUME NEW d \in Chains PROVE Awaited(d)'
    <3>1. Awaited(d)
      BY <1>2
    <3>2. CASE d = c
      BY <2>1, <2>2, <3>1, <3>2 DEF Awaited
    <3>3. CASE d # c
      BY <2>1, <2>2, <2>3, <3>1, <3>3 DEF Awaited
    <3> QED
      BY <3>2, <3>3
  <2>5. ASSUME NEW d \in Chains PROVE Prepared(d)'
    <3>1. ~UpgradeSeen(d)' /\ (Unsent(d)' => Unsent(d)) /\ Unsent(c)
      BY <2>1 DEF UpgradeSeen, Unsent, Chains
    <3>2. pool'[d].status = "pending" => d = c
      BY <2>2, <2>3
    <3> QED
      BY <1>2, <2>1, <2>3, <3>1, <3>2 DEF Prepared
  <2>6. ASSUME NEW d \in Chains PROVE Synced(d)'
    <3>1. ~Unsynced(c) /\ (Unsynced(d) => Unsynced(d)')
      BY <2>1 DEF Unsynced, SentTo, Chains
    <3>2. CASE d = c
      BY <1>2, <2>1, <2>3, <3>1, <3>2 DEF Synced
    <3>3. CASE d # c
      BY <1>2, <2>1, <2>2, <2>3, <3>1, <3>3 DEF Synced, Opener
    <3> QED
      BY <3>2, <3>3
  <2>7. ASSUME ~succeeded PROVE \E d \in Chains : (Missed(d) /\ SentTo(d))'
    <3>1. \A d \in Chains : SentTo(d) => SentTo(d)'
      BY <2>1 DEF SentTo, Chains
    <3> QED
      BY <1>1, <2>1, <2>3, <2>7, <3>1 DEF Steady, Missed
  <2> QED
    BY <2>1, <2>4, <2>5, <2>6, <2>7 DEF Steady
<1> QED
  BY <1>5, <1>6, <1>7, <1>8, <1>9

\* A round that ends calms down.
LEMMA SteadyEnd ==
    ASSUME NewRound \/ Fail,
           \A d \in Chains : conf'[d] = Latest(d)'.ver /\ pool'[d].status # "pending"
    PROVE  Steady'
<1>1. Calm(pc') /\ succeeded' /\ out' = NoMsgs /\ \A d \in Chains : ~UpgradeSeen(d)'
  BY DEF NewRound, Fail, Calm, Reading, Ended, UpgradeSeen
<1>2. \A d \in Chains : out'[d].copies <= 1
  BY <1>1, ClearedCopies
<1> QED
  BY <1>1, <1>2, SteadyCalm

\* The result of a round: a round with a late confirm has no end that has been upgraded.
LEMMA SteadyResult ==
    ASSUME TypeInv, World, Events, Steady, SendResult
    PROVE  Steady'
<1> SUFFICES ASSUME faults' = 0 PROVE Steady'
  BY DEF Steady
<1>0. /\ faults = 0 /\ cmd = "execute" /\ pc[1] = "result" /\ UNCHANGED <<hist, pool, conf>>
      /\ succeeded \in BOOLEAN
  BY Types DEF World, Orderly, SendResult, chainVars
<1>1. \A d \in Chains : /\ Awaited(d) /\ Prepared(d) /\ Synced(d) /\ Latest(d)' = Latest(d)
                        /\ pool[d].status # "pending"
  BY <1>0 DEF Steady, Awaited, Latest
<1>2. CASE succeeded
  <2>1. pc' = <<"sync", "src">> /\ UNCHANGED <<sh, out, succeeded>>
    BY <1>0, <1>2 DEF SendResult, roundVars
  <2>2. ASSUME NEW d \in Chains PROVE ~UpgradeSeen(d)' /\ ~Unsent(d)' /\ Unsynced(d)'
    BY <2>1 DEF UpgradeSeen, Unsent, Unsynced
  <2>3. \A d \in Chains : Awaited(d)'
    BY <1>0, <1>1, <2>1 DEF Awaited
  <2>4. \A d \in Chains : Prepared(d)'
    BY <1>0, <1>1, <2>2 DEF Prepared
  <2>5. \A d \in Chains : Synced(d)'
    BY <1>0, <1>1, <2>1, <2>2 DEF Synced, Opener
  <2> QED
    BY <1>2, <2>1, <2>3, <2>4, <2>5 DEF Steady
<1>3. CASE ~succeeded
  <2>1. PICK c \in Chains : Missed(c)
    BY <1>0, <1>3 DEF Steady
  <2>2. /\ out[c].act = "CONFIRM" /\ Latest(c).state = "FLUSHCOMPLETE"
        /\ Other(c) \in Chains /\ Other(Other(c)) = c /\ \A d \in Chains : d = c \/ d = Other(c)
    BY <2>1, OtherChain, TwoChains DEF Missed, Other, Chains
  <2>3. conf[c] = Latest(c).ver
    BY <1>1, <2>2 DEF Synced
  <2>4. ~Opener(out[Other(c)])
    BY <2>2 DEF Events
  <2>5. conf[Other(c)] = Latest(Other(c)).ver
    BY <1>1, <2>2, <2>4 DEF Synced
  <2>6. NewRound \/ Fail
    BY <1>0, <1>3 DEF SendResult
  <2>7. \A d \in Chains : conf'[d] = Latest(d)'.ver /\ pool'[d].status # "pending"
    BY <1>0, <1>1, <2>2, <2>3, <2>5
  <2> QED
    BY <2>6, <2>7, SteadyEnd
<1> QED
  BY <1>0, <1>2, <1>3

\* The events of the round bring the configuration up to date.
LEMMA SteadySync ==
    ASSUME TypeInv, World, Events, Steady, NEW c \in Chains, Sync(c)
    PROVE  Steady'
<1> SUFFICES ASSUME faults' = 0 PROVE Steady'
  BY DEF Steady
<1>0. /\ faults = 0 /\ pc = <<"sync", c>> /\ UNCHANGED <<hist, pool>>
      /\ conf \in [Chains -> Versions]
      /\ conf' = IF out[c] = NoMsg \/ pool[c].event = None THEN conf
                 ELSE [conf EXCEPT ![c] = pool[c].event]
  BY Types DEF Sync, chainVars
<1>1. \A d \in Chains : /\ Awaited(d) /\ Prepared(d) /\ Synced(d) /\ Latest(d)' = Latest(d)
                        /\ pool[d].status # "pending" /\ ~SentTo(d)
  BY <1>0 DEF Steady, Awaited, Latest, SentTo
<1>2. succeeded
  BY <1>0, <1>1 DEF Steady
<1>3. \A d \in Chains : d # c => conf'[d] = conf[d]
  BY <1>0
<1>4. conf'[c] = Latest(c).ver
  <2>1. CASE conf[c] = Latest(c).ver
    BY <1>0, <2>1 DEF Events
  <2>2. CASE conf[c] # Latest(c).ver
    <3>1. pool[c].event = Latest(c).ver /\ Opener(out[c])
      BY <1>1, <2>2 DEF Synced
    <3>2. out[c] # NoMsg
      BY <3>1, NoMsgFields, Zenon
    <3>3. Latest(c).ver # None
      BY LatestSound, EndFields, ConstantTypes DEF Sound
    <3> QED
      BY <1>0, <3>1, <3>2, <3>3
  <2> QED
    BY <2>1, <2>2
<1>5. CASE c = "src"
  <2>1. pc' = <<"sync", "dst">> /\ UNCHANGED <<sh, out, succeeded>>
    BY <1>5 DEF Sync, roundVars
  <2>2. ASSUME NEW d \in Chains PROVE ~UpgradeSeen(d)' /\ ~Unsent(d)' /\ (d # c => Unsynced(d)')
    BY <1>5, <2>1 DEF UpgradeSeen, Unsent, Unsynced, Chains
  <2>3. \A d \in Chains : Awaited(d)'
    BY <1>0, <1>1, <2>1 DEF Awaited
  <2>4. \A d \in Chains : Prepared(d)'
    BY <1>0, <1>1, <2>2 DEF Prepared
  <2>5. ASSUME NEW d \in Chains PROVE Synced(d)'
    <3>1. CASE d = c
      BY <1>1, <1>4, <3>1 DEF Synced
    <3>2. CASE d # c
      BY <1>0, <1>1, <1>3, <2>1, <2>2, <3>2 DEF Synced, Opener
    <3> QED
      BY <3>1, <3>2
  <2> QED
    BY <1>2, <2>1, <2>3, <2>4, <2>5 DEF Steady
<1>6. CASE c # "src"
  <2>1. NewRound /\ \A d \in Chains : d # c => ~Unsynced(d)
    BY <1>0, <1>6 DEF Sync, Unsynced, SentTo, Chains
  <2>2. \A d \in Chains : conf'[d] = Latest(d)'.ver /\ pool'[d].status # "pending"
    BY <1>0, <1>1, <1>3, <1>4, <2>1 DEF Synced
  <2> QED
    BY <2>1, <2>2, SteadyEnd
<1> QED
  BY <1>5, <1>6

\* Every step keeps what holds without faults.
LEMMA SteadyNext ==
    ASSUME Undisturbed, TypeInv, World, Events, Steady, [Next]_vars
    PROVE  Events' /\ Steady'
<1>1. CASE UNCHANGED vars
  <2>1. UNCHANGED <<hist, pool, conf, pc, sh, out, succeeded, faults>>
    BY <1>1 DEF vars, chainVars, operatorVars, roundVars
  <2>2. \A d \in Chains : Latest(d)' = Latest(d)
    BY <2>1 DEF Latest
  <2>3. Events'
    BY <2>1, <2>2 DEF Events, Opener
  <2>4. ASSUME NEW d \in Chains
        PROVE  /\ Awaited(d) => Awaited(d)'
               /\ Prepared(d) => Prepared(d)'
               /\ Synced(d) => Synced(d)'
               /\ Missed(d) /\ SentTo(d) => (Missed(d) /\ SentTo(d))'
    BY <2>1, <2>2 DEF Awaited, Prepared, Synced, Missed, SentTo, Unsynced, Unsent, UpgradeSeen, Opener
  <2>5. Steady'
    BY <2>1, <2>4 DEF Steady
  <2> QED
    BY <2>3, <2>5
<1>2. CASE Next
  <2>1. Events'
    BY <1>2, EventsNext
  <2>2. ASSUME NEW c \in Chains,
               \/ NewBlock(c) \/ FlushPackets(c) \/ Elapse(c) \/ ExecTx(c) \/ DropTx(c)
               \/ InitCheck(c) \/ InitSend(c)
        PROVE  Steady'
    BY <2>2, SteadyDrift, SteadyExec
  <2>3. ~BuildCancel
    BY DEF World, Orderly, BuildCancel
  <2>4. ASSUME NEW c \in Chains, OtherStep(c)
        PROVE  Steady'
    BY <2>3, <2>4, SteadyReading, SteadySending, SteadyResult, SteadySync DEF OtherStep
  <2>5. BuildMsgs => Steady'
    BY SteadyBuild
  <2> QED
    BY <1>2, <2>1, <2>2, <2>4, <2>5, NextCases
<1> QED
  BY <1>1, <1>2

\* The initial states satisfy it.
LEMMA SteadyInit ==
    ASSUME Init
    PROVE  Events /\ Steady
<1>1. /\ pc = <<"failed", "src">> /\ succeeded
      /\ \A d \in Chains : /\ pool[d] = NoTx /\ out[d] = NoMsgs[d] /\ out[d] = NoMsg
                           /\ conf[d] = 1 /\ Latest(d).ver = 1 /\ Other(d) \in Chains
  <2>1. PICK busy \in [Chains -> BOOLEAN] :
          hist = [d \in Chains |-> [i \in 0..Depth |-> Fresh(busy[d])]]
    BY DEF Init
  <2>2. 0 \in 0..Depth
    BY ConstantTypes
  <2>3. \A d \in Chains : Latest(d).ver = 1
    BY <2>1, <2>2 DEF Latest, Fresh
  <2> QED
    BY <2>3, OtherChain DEF Init, NoMsgs
<1>2. NoMsg.act = "NONE" /\ ~Opener(NoMsg)
  BY NoMsgFields
<1>3. NoTx.status = "none" /\ NoTx.event = None
  BY DEF NoTx
<1>4. Events
  BY <1>1, <1>2, <1>3 DEF Events
<1>5. \A d \in Chains : out[d].copies <= 1
  BY <1>1, ClearedCopies
<1>6. \A d \in Chains : ~UpgradeSeen(d) /\ ~Unsent(d) /\ pc # <<"wait", d>>
  BY <1>1 DEF UpgradeSeen, Unsent
<1>7. \A d \in Chains : Awaited(d) /\ Prepared(d) /\ Synced(d)
  BY <1>1, <1>3, <1>5, <1>6 DEF Awaited, Prepared, Synced
<1> QED
  BY <1>1, <1>4, <1>7 DEF Steady

\* All that holds of an upgrade that nothing disturbs.
Course == TypeInv /\ World /\ Events /\ Steady

\* It is an invariant.
LEMMA CourseInvariant ==
    ASSUME Undisturbed
    PROVE  (Init => Course) /\ (Course /\ [Next]_vars => Course')
<1>1. Init => Course
  BY TypeInit, WorldInit, SteadyInit DEF Course
<1>2. ASSUME TypeInv, World, Events, Steady, [Next]_vars
      PROVE  TypeInv' /\ World' /\ Events' /\ Steady'
  BY <1>2, TypeNext, WorldNext, SteadyNext
<1> QED
  BY <1>1, <1>2 DEF Course

\* Without faults, timeouts, cancels and replaced proposals a chain accepts every message that
\* execute sends it, with any finality delay and whatever is proposed on either chain between
\* the reading of the ends and the sending: the ends it reads are settled and it waits for every
\* transaction.  Only a confirm may come after the last acknowledgement, which has done its work.
THEOREM StepsCorrect ==
    ASSUME Undisturbed
    PROVE  Spec => []StepsAreAccepted
<1>1. Course => StepsAreAccepted
  <2> SUFFICES ASSUME Course, faults = 0, NEW c \in Chains, pc = <<"send", c>>, out[c] # NoMsg
               PROVE  TxAccepted(Latest(c), out[c]) \/ Missed(c)
    BY DEF StepsAreAccepted, Missed
  <2>1. TypeInv /\ World /\ Awaited(c) /\ Prepared(c)
    BY DEF Course, Steady
  <2>2. Unsent(c)
    BY DEF Unsent, Chains
  <2>3. out[c].copies <= 1 /\ Ready(out[c].act, Latest(c))
    BY <2>1, <2>2 DEF Awaited, Prepared
  <2> QED
    BY <2>1, <2>3, ReadyAccepted
<1> QED
  BY <1>1, CourseInvariant, PTL DEF Spec

\* Without faults, timeouts, cancels and replaced proposals the path configuration of both ends
\* holds the versions of the channel whenever execute succeeds: an event is never overlooked, and
\* a round that is repeated because of a late confirm has not upgraded an end.
THEOREM ConfigCorrect ==
    ASSUME Undisturbed
    PROVE  Spec => []ConfigFollows
<1>1. Course => ConfigFollows
  <2> SUFFICES ASSUME Course, pc[1] = "done", faults = 0, NEW c \in Chains
               PROVE  conf[c] = Latest(c).ver
    BY DEF ConfigFollows
  <2>1. Calm(pc) /\ Steady
    BY DEF Course, Calm, Ended
  <2> QED
    BY <2>1, CalmState
<1> QED
  BY <1>1, CourseInvariant, PTL DEF Spec
=============================================================================
