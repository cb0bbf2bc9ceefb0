---------------------------- MODULE FabricClient ----------------------------
(***************************************************************************)
(* The fabric-msp light client (lightclients/fabric-msp) as operators on   *)
(* its client state.  It has no state root: whatever a proof claims is     *)
(* believed when members of enough organisations have signed it, under the *)
(* configurations and policies the client has learnt so far.               *)
(*                                                                         *)
(* An identity and an MSP configuration are [org, gen]: configuration gen  *)
(* of organisation org validates exactly the identities issued under it.   *)
(* A policy is the set of sets of organisations that satisfy it; the empty *)
(* set stands for bytes that hold no signature policy.  A signature counts *)
(* for what its proof was made over, so that a proof is its signers and    *)
(* that.                                                                   *)
(***************************************************************************)
EXTENDS Naturals, Sequences, SequencesExt

None == [none |-> TRUE]

SequenceCommitmentKey == [store |-> "fabric-msp", path |-> <<"sequence">>]

\* Where the chaincode's store keeps an ICS-24 path; the relayer proves, and the
\* counterparty verifies, the bare path.
fabricLedgerKey(path) == [store |-> "ibc", path |-> path]

-----------------------------------------------------------------------------
(* MSP infos: [id, config, policy, frozen] *)

IndexOf(infos, id) ==
    LET found == {i \in DOMAIN infos : infos[i].id = id}
    IN IF found = {} THEN 0 ELSE CHOOSE i \in found : \A j \in found : i <= j

HasMSPID(infos, id) == IndexOf(infos, id) # 0

LiveInfos(infos) == {i \in DOMAIN infos : ~infos[i].frozen}

\* GetMSPPBConfigs returns no error.
HasConfigs(infos) == \A i \in LiveInfos(infos) : infos[i].config # None

\* The MSP manager keeps the last configuration it is given for an organisation.
TrustedConfigs(infos) ==
    {infos[i].config : i \in {j \in LiveInfos(infos) :
        \A k \in LiveInfos(infos) : infos[k].config.org = infos[j].config.org => k <= j}}

EvaluateSignedData(policy, signers, infos) ==
    /\ HasConfigs(infos)
    /\ \E quorum \in policy :
           \A o \in quorum : \E s \in signers \cap TrustedConfigs(infos) : s.org = o

VerifyEndorsedMessage(policy, proof, value, infos) ==
    /\ proof # None
    /\ proof.over = value
    /\ EvaluateSignedData(policy, proof.signers, infos)

(***************************************************************************)
(* A client state: [sequence, info, infos] with info the ChaincodeInfo     *)
(* [version, endorsement, ibc, proof] and sequence [value, stamp].  The    *)
(* proof of a commitment is made over a write of the chaincode.            *)
(***************************************************************************)
VerifyEndorsedCommitment(cs, proof, key, value) ==
    /\ EvaluateSignedData(cs.info.endorsement, proof.signers, cs.infos)
    /\ proof.over.version = cs.info.version
    /\ proof.over.key = key
    /\ proof.over.value = value

NewClientState(sequence, info, infos) ==
    [sequence |-> sequence, info |-> info, infos |-> infos]

Validate(cs) == cs.sequence.value > 0

\* The consensus states of a new client.
Initialize(cs) == [h \in {cs.sequence.value} |-> cs.sequence.stamp]

-----------------------------------------------------------------------------
(* Client messages: [sequence, proof, info, msps]; sequence, info and msps may be None. *)
(* The MSP headers are [headers], a sequence that may be empty and repeat itself.        *)

verifyChaincodeHeader(cs, sequence, proof) ==
    /\ cs.sequence.value < sequence.value
    /\ VerifyEndorsedCommitment(cs, proof, SequenceCommitmentKey, sequence)

\* chaincodeInfoSignBytes and mspHeaderSignBytes: the message without its proof.
SignBytes(m) == [m EXCEPT !.proof = None]

verifyChaincodeInfo(cs, info) ==
    VerifyEndorsedMessage(cs.info.ibc, info.proof, SignBytes(info), cs.infos)

verifyMSPCreate(cs, mh) ==
    /\ ~HasMSPID(cs.infos, mh.id)
    /\ VerifyEndorsedMessage(cs.info.ibc, mh.proof, SignBytes(mh), cs.infos)

verifyMSPUpdatePolicy(cs, mh) ==
    /\ HasMSPID(cs.infos, mh.id)
    /\ ~cs.infos[IndexOf(cs.infos, mh.id)].frozen
    /\ VerifyEndorsedMessage(cs.info.ibc, mh.proof, SignBytes(mh), cs.infos)

\* A new configuration is accepted by the policy of its own organisation.
verifyMSPUpdateConfig(cs, mh) ==
    /\ HasMSPID(cs.infos, mh.id)
    /\ ~cs.infos[IndexOf(cs.infos, mh.id)].frozen
    /\ VerifyEndorsedMessage(cs.infos[IndexOf(cs.infos, mh.id)].policy, mh.proof,
                             SignBytes(mh), cs.infos)

verifyMSPFreeze(cs, mh) ==
    /\ HasMSPID(cs.infos, mh.id)
    /\ ~cs.infos[IndexOf(cs.infos, mh.id)].frozen
    /\ VerifyEndorsedMessage(cs.info.ibc, mh.proof, SignBytes(mh), cs.infos)

\* Variant with a fault: a frozen organisation may be created again.
verifyMSPHeader_Recreate(cs, mh) ==
    \/ /\ mh.type = "CREATE"
       /\ VerifyEndorsedMessage(cs.info.ibc, mh.proof, SignBytes(mh), cs.infos)
    \/ mh.type = "UPDATE_POLICY" /\ verifyMSPUpdatePolicy(cs, mh)
    \/ mh.type = "UPDATE_CONFIG" /\ verifyMSPUpdateConfig(cs, mh)
    \/ mh.type = "FREEZE" /\ verifyMSPFreeze(cs, mh)

verifyMSPHeader(cs, mh) ==
    \/ mh.type = "CREATE" /\ verifyMSPCreate(cs, mh)
    \/ mh.type = "UPDATE_POLICY" /\ verifyMSPUpdatePolicy(cs, mh)
    \/ mh.type = "UPDATE_CONFIG" /\ verifyMSPUpdateConfig(cs, mh)
    \/ mh.type = "FREEZE" /\ verifyMSPFreeze(cs, mh)

ValidateBasic(msg) == msg.sequence # None \/ msg.info # None \/ msg.msps # None

\* Every part is verified with the client state from before the message.
VerifyClientMessage(cs, msg) ==
    /\ ValidateBasic(msg)
    /\ msg.sequence # None => verifyChaincodeHeader(cs, msg.sequence, msg.proof)
    /\ msg.info # None => verifyChaincodeInfo(cs, msg.info)
    /\ msg.msps # None =>
         \A i \in DOMAIN msg.msps.headers : verifyMSPHeader(cs, msg.msps.headers[i])

applyMSPHeader(infos, mh) ==
    LET i == IndexOf(infos, mh.id)
    IN CASE mh.type = "CREATE" ->
              Append(infos, [id |-> mh.id, config |-> mh.config,
                             policy |-> mh.policy, frozen |-> FALSE])
         [] mh.type = "UPDATE_POLICY" /\ i # 0 -> [infos EXCEPT ![i].policy = mh.policy]
         [] mh.type = "UPDATE_CONFIG" /\ i # 0 -> [infos EXCEPT ![i].config = mh.config]
         [] mh.type = "FREEZE" /\ i # 0 -> [infos EXCEPT ![i].frozen = TRUE]
         [] OTHER -> infos

applyMSPHeaders(infos, headers) == FoldLeft(applyMSPHeader, infos, headers)

\* The client state after a verified message.
UpdateState(cs, msg) ==
    [sequence |-> IF msg.sequence = None THEN cs.sequence ELSE msg.sequence,
     info     |-> IF msg.info = None THEN cs.info ELSE msg.info,
     infos    |-> IF msg.msps = None THEN cs.infos
                  ELSE applyMSPHeaders(cs.infos, msg.msps.headers)]

\* The consensus states: a timestamp for each height the client was updated to.
UpdateConsensusStates(cons, msg) ==
    IF msg.sequence = None THEN cons
    ELSE [h \in DOMAIN cons \cup {msg.sequence.value} |->
             IF h = msg.sequence.value THEN msg.sequence.stamp ELSE cons[h]]

\* The height of the proof is compared with the client's, and with nothing else.
VerifyMembership(cs, height, proof, path, value) ==
    /\ height <= cs.sequence.value
    /\ VerifyEndorsedCommitment(cs, proof, fabricLedgerKey(path), value)
=============================================================================
