# Verification of yui-relayer

TLA+ models of the IBC relayer in this repository, checked with TLC on small
instances, and theorems about all of them proved with TLAPS for all values of the
constants. Every definition is translated from the source; `PROJECT.json` maps each
one to its file and lines.

## 1. The system

`yrly` connects two chains, `src` and `dst`, by a path: a client, a connection and
a channel on each chain, named by the identifiers in `config.json`. The chains do not
talk to each other. The relayer reads events and state of one chain and sends messages
with proofs to the other.

| Component | State it keeps | Operations | Hard behaviour |
|---|---|---|---|
| relay service (`core/service.go`) | retry counter, optimize settings | `Start`, `Serve`, `shouldExecuteRelay` | runs while both chains go on; crash between broadcast and commit |
| naive strategy (`core/naive-strategy.go`) | lists of one Serve, backlog of the metrics | `UnrelayedPackets`, `ProcessTimeoutPackets`, `UnrelayedAcknowledgements`, `Relay*`, `UpdateClients`, `Send` | every list is stale when used; goroutines of an errgroup; retries with callbacks |
| sync headers (`core/headers.go`) | latest finalized header of each chain | `Updates`, `SetupHeadersForUpdate` | concurrent `Updates` from `OnRetry` |
| handshakes (`core/connection.go`, `core/channel.go`) | identifiers in the configuration file | `CreateConnection`, `CreateChannel` | transactions that are executed after they were given up; crash before the identifier is saved |
| channel upgrades (`core/channel-upgrade.go`) | targets, failures in a row; version, order and connection in the file | `InitChannelUpgrade`, `ExecuteChannelUpgrade`, `CancelChannelUpgrade` | crossing proposals, timeouts, packets in flight, error receipts of other sequences |
| client commands (`core/client.go`) | client identifiers in the file | `CreateClients`, `UpdateClients` | one of two sends fails; a client is created and its identifier lost |
| message batching (`core/relayMsgs.go`) | `Succeeded`, message identifiers | `Send`, `Merge` | one transaction holds all; batches that fail in the middle |
| tendermint chain (`chains/tendermint`) | keys, light client database | queries, `sendMsgs`, `waitForCommit` | simulation, account sequence, late inclusion, pages of stores |
| tendermint prover (`chains/tendermint/prover.go`) | light client database | headers, `ProveState`, `CheckRefreshRequired` | a header proves the block before it |
| mock prover (`provers/mock`) | finality delay | headers, proofs that are hashes | the finalized block is behind the latest one |
| fabric chain and prover (`chains/fabric`) | message results; the sequence on the ledger | `SendMsgs`, `SetupHeadersForUpdate`, `proveAndQuery`, packet queries | endorsement and commit are two steps; proof and height are two queries |
| fabric-msp light client (`lightclients/fabric-msp`) | last sequence, chaincode info, MSP infos, consensus states | `VerifyClientMessage`, `UpdateState`, `VerifyMembership` | governance messages in any order, repeated, several at once |
| configuration (`config`, `core/config.go`) | `config.json`, the copy of each process | `CreateConfig`, `OverWriteConfig`, `AddChain`, `UpdatePathConfig` | whole copies are written, in two steps, by overlapping commands |
| light client database (`chains/tendermint/light.go`) | trusted headers, the lock on the files | `NewLightDB`, `UpdateLightClient`, `DeleteLightDB` | one process at a time; expiry; deletion under an open database |
| command line, orchestrator (`cmd`, `modules/*.py`) | none | run the operations above in sequence | kills between two steps |
| debug wrappers, telemetry, logging | none | input and output | |

The components interact by calls only. What is shared between processes is outside the
relayer: the chains, the configuration file, the keyrings and the light client databases.
`StartService` runs `Serve` in a loop;
`Serve` calls the strategy, which calls the chains (queries at the finalized and at the
latest height), the provers (headers and proofs) and `RelayMsgs.Send`. The handshake and
upgrade commands are loops of the same kind: headers, settled ends, one step, `Send`,
`SyncChainConfigsFromEvents`.

What makes each of them correct:

- *relaying*: no packet is both received and refunded, none is acknowledged that was
  not received, and each one is eventually acknowledged or refunded, whatever is lost,
  late or done twice;
- *headers and lists*: what is listed can be proved with the header that is sent;
- *handshakes*: success means an open pair, an identifier is never replaced, and
  repeating the command always ends in an open pair;
- *setting up a path*: identifiers in the file name clients of the right chain, a client
  is created only where one is missing, nothing recorded gets lost, and repeating the
  orchestrator's commands ends with a configured path;
- *batches*: every message is sent once, in order, and its identifier is its own;
- *the fabric-msp client*: it knows only committed sequences, an organisation has one info,
  and who is expelled from the network stays expelled;
- *upgrades*: both ends agree on a version at the end, whoever proposes, cancels or
  times out, and the configuration follows.

`PROJECT.json` lists the hazards of the code, each at its line, with the properties
that would catch it.

## 2. Modules

| Module | Models | Composes |
|---|---|---|
| `IBCChain` | packet store of a channel end, queries on it, what a chain checks of messages (external: ibc-go) | |
| `NaiveStrategy` | the strategy's decisions as operators on the stores it has read | extends `IBCChain` |
| `RelayService` | service, strategy, headers, sends and both chains as a state machine | extends `NaiveStrategy`, instantiates `PacketLifecycle` |
| `PacketLifecycle` | abstract specification: what becomes of a packet | |
| `RelayService_proofs` | types, views of the chains, outcome of packets | extends `RelayService` |
| `RelayLists_proofs` | what is listed, counted and built | extends `RelayService_proofs` |
| `RelayLifecycle_proofs` | refinement of `PacketLifecycle`, closing of ordered channels | extends `RelayLists_proofs` |
| `Handshake` | `CreateConnection` and `CreateChannel` with two chains | |
| `Handshake_proofs` | theorems | extends `Handshake` |
| `ChannelUpgrade` | init, execute and cancel of channel upgrades with two chains | |
| `ChannelUpgrade_proofs` | theorems | extends `ChannelUpgrade` |
| `RelayMsgs` | `RelayMsgs.Send` with its limits, failing batches and identifiers | |
| `RelayMsgs_proofs` | theorems | extends `RelayMsgs` |
| `FabricClient` | the fabric-msp light client as operators on its client state | |
| `FabricRelay` | `tx relay` and `tx relay-acknowledgements` between a Fabric network and a chain that follows it with that client | extends `IBCChain`, `FabricClient` |
| `FabricRelay_proofs` | theorems | extends `FabricRelay` |
| `PathSetup` | the commands that write the configuration file, create and update clients, and use keyrings and light client databases | |
| `PathSetup_proofs` | theorems | extends `PathSetup` |
| `MC...` | values of the constants | extend the module of their name |

### How state and actions correspond to the code

**Chains.** In each module `hist[c][i]` is what chain `c` stored `i` blocks ago, in a
window as deep as the relayer can look. *Latest* is `hist[c][0]`. The finalized block is
`Delay` behind (mock prover: `FinalityDelay`; tendermint: 0). A query at a header's height
reads `at`, a proof for it shows `proves`, which is one block older on tendermint
(`ProofLag = 1`). A transaction is `pending` in the mempool until a block includes it.
`waitForCommit` returns only when a further block follows, so the models keep it for one
block more. The relayer may stop waiting while the transaction is pending, and the node may
drop it. What the chains check and do is ibc-go's, modelled from how the messages are
built here, and marked external.

**RelayService.** `pc` is the phase of `StartService` and `Serve`, `todo` the goroutines
of the phase's errgroup that are not done. Each time a goroutine turns to a chain is a step;
several queries of one chain at one height in a row are one. `packets`,
`timeouts` and `acks` are `pseqs` and `aseqs`, `sh` the `SyncHeaders`, `ackCtx` the query
heights captured before the goroutines run. `got`, `fetching` and `fetched` are the `Updates`
calls of `OnRetry`: `src`'s header, `dst`'s header and the store of both are three steps.
`batch` is the `RelayMsgs`. Heights and timestamps are abstracted: the store of a
block has the set of packets that are too late for it (`expired`). Lists are sets of
sequences; their order, which matters on ordered channels only, is `StorePos`, the order of
the keys of the store. `Verifies` tells tendermint clients, which check proofs, from mock
clients, for which a proof is a hash of what the relayer claims. `SendRejected` is always
possible: simulations also fail for reasons outside of the model (a client that has the
header already, gas, fees).

**Handshake.** One module for both commands: `connection.go` and `channel.go` are the
same loop over two switches (`ConnectionSteps`, `ChannelSteps`). A chain is a numbered set
of ends, so that an end the configuration does not know (an orphan) stays visible. The
initial states are a fresh path, and one whose `dst` end was initiated before. Client and
consensus state proofs are abstracted to the proof of the end they come with.

**ChannelUpgrade.** An end has its channel state, upgrade sequence, version (standing for
version, order and connection), proposal, last error receipt, packets in flight, and the
counterparty's upgrades whose timeout has elapsed on it. `NextAction` is the switch of
`upgradeChannelStep`, seen from one chain. The mock prover hashes height, path and value,
and a chain compares the proven end with the one it expects, so both kinds of clients behave
alike here and there is no `Verifies`. `copies` records that the retry around the two
goroutines appends a message twice when only the other goroutine failed. `cancel` sends the
client update and the cancellation in a transaction each; they are one step, since the first
changes nothing but the client, and a cancel whose second transaction is lost is one that was
not sent.

**RelayMsgs.** The variables are those of `Send`; a message is its encoded size, a batch
the positions of its messages, `txs` a history of the calls of `SendMsgs`. Each turn of the
loops is a step, the two sides are one loop with `side`. The other modules send one
transaction per chain and round: no caller sets `MaxTxSize` or `MaxMsgLength`.

**FabricClient.** An identity and an MSP configuration are an organisation and a
generation; configuration `gen` validates what was issued under it. A policy is the set of
sets of organisations that satisfy it. A signature is good for exactly what it was made
over. Verification reads the client state from before the message, for all parts of the
message, as `VerifyClientMessage` does, and `applyMSPHeaders` applies them in turn.

**FabricRelay.** `ledger` has the timestamps of the committed sequences, `Sequence` is its
length. A command is `cmd`, with `pc` for its phase. `tx clients` reads the sequence,
has the first `AdvanceSequence` endorsed and committed if it is zero, reads it again and installs
the client. The relay commands go through the headers of both chains, the lists
(`ListSrc` and `AskDst` for what the Fabric network has and the other chain lacks, `ListDst` for
the other direction), the metrics, the filters of both chains, timeouts, endorsement
of `AdvanceSequence`, its commit, proof and height of each message, and the sends. Each turn to a
chain is a step, since the sequence may move between any two, and each goroutine of an errgroup
goes on by itself. `lost` is a packet whose query fails, which the code skips without an error.
The client is created with the `Founders`; others join by `CREATE`. A client message has
up to `MaxHeaders` MSP headers, also the same one twice. The chaincode
`cc_ibc` is not in this repository and is modelled from its use. `dst` has instant finality.
Things to know about the code: packets that the chaincode sends carry no timeout, absence
cannot be proved, and a proof is not tied to a height (`VerifyMembership` compares the
height with the client's and nothing else). Connections have no delay period, so the
consensus metadata play no role; `Initialize` does not store them.

**PathSetup.** A command is a process: the list of steps it has still to take, and its copy
of the configuration. Reading the file, truncating it and writing it are separate steps, as
`os.WriteFile` does them, and so are the `os.Stat` of `config init` and the `os.Create` after
it, which truncates what was written in between; `lock` is the file lock of the light client database. Two
terminals run commands: the orchestrator, whose next command is `Wanted`, and an operator
who may type any command. `blame` is a history variable: what may excuse a client that is
not recorded. The clock is the height of both chains; a database is the set of heights in
it. What the light client of CometBFT accepts is `Verifiable` and `NewClient` (external).
The probe of the orchestrator (`light header`) is taken as "the database is not empty". The
same height is taken for `--src-height` and `--dst-height`. The connection and channel
commands of `configure_path` are in `Handshake`.

## 3. Runs

Faults are RPC errors, dropped transactions, impatience in `waitForCommit` and crashes;
`MaxFaults` bounds them, so that all placements of that many faults are explored.

| Run | Instance | Shows |
|---|---|---|
| `mock_rivals` | mock clients, finality delay 2, one packet with a timeout, a second relayer, optimize interval and count, 2 faults, fairness | `ExclusiveOutcome`, `ViewsStayValid` (inductive invariant), `ListsCoveredByHeaders`, `CountedAreSettled`, `ImplementsLifecycle` (refinement), `EventuallySettled` |
| `tendermint` | verifying clients, proof lag, a packet each way, optimize interval and count, refreshes, 1 fault | `TypeOK`, `AcksProvable`, `OnlyNewPacketsUnprovable` |
| `ordered` | ordered channel, two packets with timeouts, mock clients with the finality delay 3 of `tests/cases/tmmock2tmmock`, no fault, fairness | `CloseStrandsNoAck`, `NoRedundantMsgs`, `EventuallySettled` |
| `handshake` | connections and channels, mock prover with delay 2 and tendermint prover, 3 faults, fairness | `TypeOK`, `CreatedIsOpen`, `OrphansAreFaults`, `CleanWithoutFaults`, `EventuallyOpen` |
| `upgrade_completes` | proposals on one or both ends, packets in flight, full and partial targets, proof lag, 1 fault, fairness | `TypeOK`, `StepsAreAccepted`, `DoneIsAgreed`, `ConfigFollows`, `ProposalsComplete` |
| `upgrade_ends` | two proposals per end also while flushing, one cancellation, timeouts, fairness | `EventuallyUniform` |
| `batches` | all rounds of up to 3 and 2 messages of 3 sizes, size limit off or 3, length limit off, 1 or 2, any calls failing | `TypeOK`, `IdsNameTheirMsgs`, `SentInOrder`, `AllSubmitted`, `BatchesAreGreedy` |
| `fabric` | 4 organisations, 3 of them founders; a founder and the fourth subject to governance; eight budgets, each with its own mix of packets both ways, a timeout, a rival, a fault, governance messages (one with traffic, two without) and picked sequences; fairness | `TypeOK`, `HeightsCommitted`, `CleanWithoutInterference`, `FrozenForever`, `EventuallyAcked` |
| `setup` | trusting period 1, clock up to 3; the orchestrator next to any one command by hand, or with 2 failures or kills; fairness | `TypeOK`, `IdsAreOurs`, `CleanWhenUndisturbed`, `OnlyMissingClients`, `NothingForgotten`, `WipedUntilInit`, `EventuallyConfigured` |
| `ack_page`, `late_confirm`, `fabric_twice` | smallest instances | the findings of section 6 (expected violations) |

**Why the bounds are enough.** The relayer treats packets of one direction alike, and the
two directions interact only through headers and the transaction that carries both: one
packet each way shows the interactions, two packets in one direction the order on ordered
channels and page limits. Between finalized and latest the runs have two or three blocks
(`finality_delay` is 3 in the repository's mock configuration). Two faults suffice to lose a transaction and be impatient in the
same Serve. With three faults a handshake may lose three of its four messages; `MaxEnds`
exceeds them and is never reached. Upgrades need two proposals per end for a replaced
proposal and a receipt of an older sequence. `RtyAttNum` is 2 or 3 instead of 5, so that
few failures in a row stop the service. The runs check `EventuallySettled` with mock clients,
whose finality lags; it also holds in the setting of `tendermint` with one packet and
fairness. Three messages on a side are what it
takes for a batch that failed between two others; the theorems cover the rest. In `fabric`
three founders give majorities that survive one change and not two, a fourth organisation can be
created, frozen and created again, and `MaxHeaders`, two headers in a message, suffices for a
repeated one and for one that depends on another; `MaxHeight` is not
reached by commands that can succeed, `RetryHeight` ends those that cannot. In `setup` one
command by hand suffices for an overlap at every pair of steps, two faults to fail and then
be killed while repairing; five clients per chain are never used up, and a clock of three
lets a database expire between any two commands.

**Fairness.**

- `RelayService`: the process goes on (`WF` of its steps), blocks come and include what is
  pending (`WF`). `SF` of `Decide` with aged lists: packets that stay listed grow older
  than the optimize interval. `SF` of `BroadcastPackets`: a batch that
  carries packets is not rejected for ever since the next header is newer. There is no fairness of faults, rivals, traffic or timeouts.
- `Handshake`: as above, and the operator runs a failed command again (`WF` of `Rerun`);
  the repository's scripts do (`retry 5 $RLY tx connection`).
- `ChannelUpgrade`: as above; packets in flight are relayed or time out, time passes, and
  an operator who stopped halfway or met a failure runs execute to the end at last (`SF`,
  since runs with other targets may come between).

- `FabricRelay`: the client is created (`WF` of `BeginCreate`), a command that runs goes on
  (`WF`), and the operator runs both commands
  again and again (`SF`, since a command cannot start while one runs).
- `PathSetup`: a process that runs goes on, and the orchestrator is run until it finds
  nothing missing (`WF`); it is written to be repeated, each step being skipped when done.

Deadlock is checked in all runs: blocks always come. `RelayMsgs` has a step for the return of
`Send`, and `FabricRelay` and `PathSetup` one for the end at their bounds.

Each property has a mutant: a variant of a mapped definition with a plausible fault (names
such as `WaitForCommit_Included`), under which TLC finds the property violated.

## 4. What is proved

Every theorem has the form `Spec => []Inv` or `Spec => Property`, for all constants that
satisfy the named assumptions of the modules, which are types and ranges. Seven have further
hypotheses, given in their statements and explained here. A property is usually not
inductive; the invariant that is, and why it takes that, is the content of each proof.

### The relay service

`RelayService_proofs` proves for any number of packets, finality delay, fault bound, rivals,
optimize settings, mock or verifying clients, ordered or not:

- `TypeCorrect`: `Spec => []TypeOK`, with `AttemptsLeft` (attempts are below the
  limit unless the service has stopped) to make it inductive;
- `ViewsCorrect`: `Spec => []ViewsStayValid`, the inductive invariant;
- `TimeoutsCorrect`: `Spec => []TimeoutsAreFinal`;
- `OutcomeCorrect`: `Spec => []ExclusiveOutcome`.

The assumptions are `ChainAssumption`, `StrategyAssumption` and `ServiceAssumption`: types
of the constants, and that no two sequences share a key of the store.

`ExclusiveOutcome` is not inductive: nothing in it speaks of the messages on their way.
`ViewsStayValid` adds (1) `KnowsThePast`: every header, query height and fetched header the
relayer holds is a store of an earlier block; (2) `AcksInFlight`: every acknowledgement in a
list, batch or mempool is of a packet that was received; (3) `TimeoutsAreFinal`: every timeout
in a list, batch or mempool is of a packet that is expired and not received at the latest
block; (4) `FilteredStayLive`: between the filter at the latest height and
`ProcessTimeoutPackets`, what the header in `sh` shows as expired has not been received;
(5) `SettledRightly`: what is settled on the chains is so rightly. Blocks preserve it because
stores only grow and a chain receives nothing that is expired. The service preserves it
because a timeout is concluded from a finalized header *and* an unreceived filter that is
read later than that header: expired then and unreceived later means never received. The
proof does not use `Verifies`: with mock clients the relayer's own checks are enough.

The proof of `ViewsCorrect` has one lemma per part: what a block may do (`BlockKeepsViews`),
which blocks there are (`ChainStepKeepsViews`), which conjunct depends on which variable, and one step per
action of the service.

`RelayLists_proofs` goes on from there, with a lemma that says what any step of the service
may do to headers, lists and messages (`Effects`):

- `ListsCorrect`: `Spec => []ListsCoveredByHeaders`. The invariant `FinalViews` bounds headers
  and captured query heights by the finalized block. `ListsInv` adds that the heights captured
  before the goroutines of the acknowledgement queries are not after any header that a
  retry may store (`QueryHeightsHold`), so that late callbacks do no harm.
- `CountedCorrect`: `Spec => []CountedAreSettled` if `MaxSeq <= PageLimit`. The backlog is
  of packets that the next header still shows (`BacklogInv`), and every acknowledgement on its
  way is of a finalized receipt (`AcksAreFinal`). Without the hypothesis it is false: see
  section 6.
- `AcksProvableCorrect`: `Spec => []AcksProvable` if `Delay = 0 \/ ProofLag = 0`, which is so for
  both provers of the repository (tendermint and mock). The invariant is that a lone relayer
  leaves no transaction behind and waits for one more block, so that the last two blocks agree
  (`Calm`). With `Delay = 1` and
  `ProofLag = 1` TLC refutes it.
- `BuildsCorrect`: `Spec => []OnlyNewPacketsUnprovable` if `Delay = 0 \/ ProofLag = 0`, which is
  so for both provers, for a lone relayer that has met no fault. Lists are of commitments of the
  header itself (`ListsProvable`), and block and proof of the header agree except for packets
  sent in that block (`Calm`, `HeadersAgree`, as in `AcksProvableCorrect`).
- `NoRedundantCorrect`: `Spec => []NoRedundantMsgs`, for every finality delay: what the filters
  at the latest height have let pass stays unreceived and unacknowledged until the relayer's
  own transaction, by when the batch has been handed over (`NothingStale`, with `Calm`). Timeouts
  are of packets that the header still shows.

`RelayLifecycle_proofs`:

- `LifecycleCorrect`: `Spec => ImplementsLifecycle`, the refinement of `PacketLifecycle`. The
  initial states map to initial states, and the sending of a packet and a
  block with a transaction map to steps of it (`Send`, `Execute`), all other steps to
  stutters. Beyond `ViewsStayValid` it needs that only
  packets whose sending is finalized are carried (`MsgsSent`), which no mock client checks.
- `CloseCorrect`: `Spec => []CloseStrandsNoAck` if one page holds all packets and
  acknowledgements are not held back (`AcksAtOnce`: no `NoAck`, no optimize count). A batch
  that times out a packet acknowledges all earlier ones first (`AckedFirst`), since the lists
  of acknowledgements are complete for the header that shows the timeout (`AcksReady`).

### Message batching

`RelayMsgs_proofs` proves for every round, every limit and every pattern of failures:

- `SendTypeCorrect`: `Spec => []TypeOK`;
- `IdsCorrect`: `Spec => []IdsNameTheirMsgs`;
- `OrderCorrect`: `Spec => []SentInOrder`;
- `SubmissionCorrect`: `Spec => []AllSubmitted`.

The only assumption is `RoundsAssumption`, the type of a round. The argument is one inductive
invariant: on the current side the calls so far hold exactly the messages before the batch, in
order and once (`maxTxCount` of them), the batch holds the consecutive ones from there to
`next`, and identifiers beyond `maxTxCount` are unset. So the offset `i + maxTxCount` is the
position of the message, and what is appended is greater than all that was sent.

### Handshakes

`Handshake_proofs` proves for every delay, prover, number of faults, retries and ends:

- `TypeCorrect`: `Spec => []TypeOK`;
- `CreatedCorrect`: `Spec => []CreatedIsOpen`. `CreatedInv` says that an open end is the
  configured one and names the configured counterparty (`OpenIsConfigured`), that messages on
  their way are about configured ends (`MsgsFit`), that open ends stay open in every block and
  header (`OpenStays`), and what the relayer may conclude from a transaction it has seen
  included (`TxKnown`).
- `OrphansCorrect`: `Spec => []OrphansAreFaults`. The count is inductive once the messages in
  the mempools that will generate an end, and the one the relayer is waiting for, are in it.
- `CleanCorrect`: `Spec => []CleanWithoutFaults`. Without faults the pair of ends goes through
  five states, in either direction (`PairAt`), no transaction is stray, every read is current,
  and the message in hand is the one that the pair calls for.

### Setting up a path

`PathSetup_proofs` proves for every trusting period, number of clients, commands by hand and
faults:

- `TypeCorrect` and `IdsCorrect`: `TypeOK` and `IdsAreOurs`, with the shape of a list of steps
  (`WellFormed`: which step may come before which), identifiers in hand (`GotOurs`) and fresh
  processes (`NewProcs`);
- `WipedCorrect`: `Spec => WipedUntilInit`, with `LockInv`: the holder of the database's lock is
  about to use it and has read all of it;
- `CleanCorrect`: `Spec => []CleanWhenUndisturbed`,
  `OnlyMissingCorrect`: `Spec => OnlyMissingClients`, and
  `NothingForgottenCorrect`: `Spec => NothingForgotten`. `PathInv` relates the file, the copies
  in the processes and the clients on the chains: unless commands have overlapped there is one
  writer whose copy agrees with the file where it matters (`CopyOK`), and that creates the file
  only if it is still missing; and every client is
  recorded in the file or known to a process that will still write it (`Recorded`).

### Relaying with Fabric

`FabricRelay_proofs` proves for every set of organisations, number of packets, budget and bound:

- `TypeCorrect` and `HeightsCorrect`: `TypeOK` and `HeightsCommitted`. `HeightInv` follows a
  header from its endorsement to the client: once a command is past the commit, and whenever
  the rival holds one, its sequence is on the ledger with its own timestamp (`Committed`).
- `FrozenCorrect`: `Spec => FrozenForever`. `FreezeInv` gives the types of infos and of signed
  messages (`InfosOK`, `MSPMsgOK`) and says that the headers of relayers carry no MSP headers
  (`Plain`) and that the client exists exactly for the commands that relay (`KindOK`). The fold over the headers of a message is unfolded for the up to two headers a message
  of the model has; each keeps frozen infos frozen and appends infos only of organisations that
  the client did not have before the message (`Extends`). That an organisation has one info
  (`CreatedOnce`) is false, see section 6, so the theorem says for organisations with one info only
  that their signatures never count again.
- `CleanCorrect`: `Spec => []CleanWithoutInterference`. `CleanInv` says of a command that
  nothing has disturbed that the sequence is the one it has read, then the one it has advanced
  to (`CalmOK`); that its lists are of what the chaincode holds while they are being read
  (`ListingOK`) and afterwards (`ListedOK`, `SrcListed`); that its header and its proofs are
  endorsed by the members as they are (`HeaderOK`, `ProvedOK`); and, of all states, that
  acknowledged packets were received (`StoresAgree`) and that timestamps are not ahead of the
  clock (`ClocksAgree`).

### Channel upgrades

`ChannelUpgrade_proofs` proves for all constants

- `TypeCorrect`: `Spec => []TypeOK`. What makes it inductive is a property of every end,
  wherever a copy of it is held (blocks, headers, messages, transactions): one that flushes has
  an upgrade, and an upgrade has a sequence (`Sound`).

and, if each end is proposed to at most once, no timeout elapses and nothing is cancelled
(`Undisturbed`: `MaxSeq = 1`, `~Timeouts`, `MaxCancels = 0`, the setting of
`upgrade_completes`), for every set of versions, finality delay, prover, set of targets and
bound on faults

- `DoneCorrect`: `Spec => []DoneIsAgreed`, with any number of faults. The invariant `World`
  knows two courses. In `Agreed(v)` all proposals are of version `v`: every end, past or
  present, held anywhere, is at one of five stages (`Stage`: nothing, proposed, flushing,
  flushed, upgraded), stages only grow and the latest ends are at most one apart (`Ends`), and
  a message on its way proves a past end at a stage that its action stands for (`Carried`). What
  execute concludes from stale headers is right because an end is found settled only after the
  headers of both chains were read, so that these are at most one stage apart although they are
  of different times (`Compared`); it reports the end of the upgrade only where both ends are at
  the last stage, or where neither flushes and nothing is pending (`Rested`). In `Conflict(w)`
  the ends have proposed different versions: a try aborts, no end ever flushes and both keep the
  first version.
- `StepsCorrect`: `Spec => []StepsAreAccepted`. Without faults (`Steady`) every transaction is waited
  for (`Awaited`), and an end that was settled moves on its own only, by a proposal or by its last
  packet in flight, to one that is still in a state for the message (`Prepared`, `Follows`,
  `Ready`). The exception in the property is real: the last acknowledgement may come before the
  confirm.
- `ConfigCorrect`: `Spec => []ConfigFollows`. Configuration and channel differ only while an
  `EventUpgradeChannel` of this round is still to be looked at (`Synced`). Since events are
  looked at only if both sends succeeded (the finding on `core/channel-upgrade.go:170` in
  section 6), the proof has to show that a round with a late confirm upgrades no end: a round with
  a message that may open one end has no confirm for the other (`Events`).

`StepsAreAccepted` needs each of the three hypotheses: TLC refutes it when one of them is dropped.
For the other two properties they are what the stages need, and TLC finds no violation without
them (three versions, one fault, and either timeouts, a cancellation or two proposals per end).
TLC has checked `World`, `Events` and `Steady` as invariants before they were proved.

### Checked by TLC only

- liveness under fairness (`EventuallySettled`, `EventuallyOpen`, `ProposalsComplete`,
  `EventuallyUniform`, `EventuallyAcked`, `EventuallyConfigured`), which is out of reach of the
  prover;
- `BatchesAreGreedy`, which sums the sizes of a batch by a fold: what a recursive definition
  computes for every input is out of reach as well.

## 5. What is not modelled, and why

- Fabric: the handshake messages, and the message results that are kept in memory for them;
  the connection to the gateway and its certificates.
- Tendermint: balances and denominations, validator sets, the lock around the global address
  configuration of the SDK, and when exactly a refresh is due (`RelayService` chooses freely).
- Debug chain and prover: they inject delays and errors, which are the faults of the models.
- Commands that only read (`query`, `show`, `list`), telemetry, logging, and the parts of the
  orchestrator that render files and call docker: input and output without protocol state.
- Vendored fabric msp code and generated protobuf code.

## 6. Findings

With a run that shows them:

- `ack_page` (`chains/tendermint/query.go:270`): only the first 1000 acknowledgements
  of the store are read, and chains keep them; later ones are never relayed.
- `late_confirm` (`core/connection.go:363`, `core/channel.go:284`): a confirm executed
  after the relayer gave it up makes the next round panic, since the switch has no case for
  two open ends.
- `fabric_twice` (`lightclients/fabric-msp/update.go:32`): every MSP header is verified against
  the state from before the message, so a `CREATE` that is in one message twice gives its
  organisation two infos, although `header_verify.go:75` refuses one that is "already created".
  A later `FREEZE` then marks only the first of them, and a further one is refused.

Met while modelling, without a run of their own:

- `core/naive-strategy.go:667,741`: `strategies.go:52` says of `SrcNoack` that
  acknowledgePacket is skipped on the src chain. With it set, acknowledgements are
  executed on neither chain.
- `chains/tendermint/query.go:227`: `types.go:18` says that lists are in the order of the
  events, but they keep the order of keys (10 before 9), which an ordered channel refuses.
- `core/channel-upgrade.go:170`: the configuration is synchronized only when both sends
  succeeded; after a partial success execute still reports the end of the upgrade while the
  file has the old version, which `tests/cases/tm2tm/scripts/test-channel-upgrade:65` would
  refuse.
- The metric `receive_packets_finalized` also counts packets that timed out, since a
  refunded packet leaves the backlog like a received one (`CountedAreSettled` is what holds).
  It also counts a packet that leaves the first page of commitments, which has 1000 entries in
  key order (`chains/tendermint/query.go`), because others were sent that sort before it:
  `CountedCorrect` needs `MaxSeq <= PageLimit`, and TLC refutes the property with a page of one
  entry and keys in reverse order.
- Timeouts are not filtered at the latest height: with a finality delay of two blocks or more one
  relayer without faults may send a `MsgTimeout` again until the first is finalized. It is a
  no-op on the chain, and `NoRedundantMsgs` allows it.
- `core/service.go:89`: with tendermint headers a packet sent in the header's own block is listed
  and cannot be proved, so that `Serve` fails. Nothing else does this to a lone relayer
  (`OnlyNewPacketsUnprovable`), but a packet in every block may stop the service.
- `tx relay` towards Fabric: one packet from the other chain that has timed out makes the
  command fail in both directions, since its timeout needs a proof of absence.
- MSP messages have neither sequence nor expiry: an old `UPDATE_CONFIG` or `UPDATE_POLICY`
  can be delivered again later and undoes a newer one. What cannot be undone is a freeze of
  an organisation that has one info (`FrozenForever`).
- `paths add` checks only the first chain of the path, although its error message speaks of
  both.
- A configuration file that was truncated and not written stops every command, `config init`
  too; a light client database that has expired stops the orchestrator, whose probe takes it
  for initialized. `EventuallyConfigured` excepts both.

## 7. Plan

Done, in this order: `IBCChain`, `NaiveStrategy`, `RelayService` with its abstract
specification and theorems; `Handshake`; `ChannelUpgrade`; `RelayMsgs` with its theorems;
`FabricClient` and `FabricRelay`; `PathSetup`; theorems for all of them.

Next theorems: `DoneIsAgreed` and `ConfigFollows` of `ChannelUpgrade` with replaced proposals,
timeouts and cancellations. Stages then begin again with each sequence, and the invariant needs in
addition how far an end can move while a message about it is pending.

Next models: clients that expire unless `CheckRefreshRequired` asks for an update in time
(trusting period, refresh threshold, service interval), and the handshake over a Fabric
network, whose message results live in memory only.
