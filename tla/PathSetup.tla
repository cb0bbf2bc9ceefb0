----------------------------- MODULE PathSetup -----------------------------
(***************************************************************************)
(* How a path comes into being: the commands of yrly that write the        *)
(* configuration file (config init, chains add-dir, paths add and edit),   *)
(* `tx clients' and `tx update-clients', and the `keys' and `light'        *)
(* commands over the keyrings and the local light client databases of      *)
(* tendermint chains.                                                      *)
(*                                                                         *)
(* Every command is a process of its own: it reads the whole file at its   *)
(* start, works on that copy, and whenever it has something to record it   *)
(* truncates the file and writes the whole copy.  Two terminals run        *)
(* commands: orch follows the orchestrator (modules/relayer.py), which     *)
(* looks at the file and runs the command that is missing, and hand runs   *)
(* any command at any time.  A command may be killed between any two of    *)
(* its steps, a transaction may fail or be executed unseen, a query may    *)
(* fail.                                                                   *)
(*                                                                         *)
(* A process is the list of steps its command still has to take; an error  *)
(* empties the list.  Blocks come with the clock: block h of both chains   *)
(* has time h, and the latest block is now.                                *)
(***************************************************************************)
EXTENDS Naturals, Sequences, FiniteSets, FiniteSetsExt

CONSTANTS
    Period,      \* trusting period of the light clients
    MaxTime,     \* bound on the clock
    MaxClients,  \* bound on the clients of a chain
    Budgets      \* of commands run by hand, of faults, and of databases found busy

ASSUME SetupAssumption ==
    /\ Period \in Nat
    /\ MaxTime \in Nat \ {0}
    /\ MaxClients \in Nat \ {0}
    /\ Budgets \subseteq [hand : Nat, faults : Nat, busy : Nat]

VARIABLES
    file,     \* config/config.json
    keys,     \* the chains in whose keyring the configured key is
    light,    \* the heights in the light client database of a chain
    lock,     \* the process that has a database open
    now,      \* the clock, and the height of both chains
    clients,  \* on a chain: the latest height of each client
    ours,     \* on a chain: the clients created by `tx clients'
    proc,     \* the process of each terminal
    left,     \* the budgets that are left
    blame     \* history: what may excuse a client that is not recorded

vars == <<file, keys, light, lock, now, clients, ours, proc, left, blame>>

Chains == {"src", "dst"}
Other(c) == IF c = "src" THEN "dst" ELSE "src"

Procs == {"orch", "hand"}
Nobody == "nobody"

Heights == 0..MaxTime
Ids == 1..MaxClients
NoId == 0

\* What an operator may type: the validation of a path looks at the form of an
\* identifier, so that one that no chain ever generates is as good as another.
Typo == MaxClients + 1

\* The identifiers of a path that has none yet, and of one mistyped.
NewPath == [c \in Chains |-> NoId]
MistypedPath == [c \in Chains |-> Typo]

\* chains and paths of config.Config, with one path; known: it is in Paths.
defaultConfig == [chains |-> {}, known |-> FALSE, path |-> NewPath]

Configs == [chains : SUBSET Chains, known : BOOLEAN,
            path : [Chains -> 0..Typo]]

\* A file that was truncated and not yet written keeps the old contents as
\* history only: whoever reads it fails.
Files == [state : {"missing", "torn", "whole"}, config : Configs]

-----------------------------------------------------------------------------
(* Commands, as lists of steps *)

StepKinds == {"load", "stat", "create", "addChain", "addPath", "edit", "truncate", "write",
              "addKey", "useChain", "usePath", "check", "open", "peek", "trust", "update",
              "delete", "send", "success", "sync", "refresh"}

Steps == [do : StepKinds, at : Chains, arg : Nat]

At(do, c) == [do |-> do, at |-> c, arg |-> 0]
With(do, c, arg) == [do |-> do, at |-> c, arg |-> arg]
Plain(do) == At(do, "src")

Rewrite == <<Plain("truncate"), Plain("write")>>   \* OverWriteConfig

configInitCmd == <<Plain("load"), Plain("stat"), Plain("create"), Plain("write")>>

\* A chain file: of a valid configuration, or of one that Init refuses.
ValidFile == 0
InvalidFile == 1

\* The chain files of a directory, and the write.
chainsAddDirCmd(dir, last) ==
    <<Plain("load")>>
    \o (IF "src" \in dir THEN <<At("addChain", "src")>> ELSE <<>>)
    \o (IF "dst" \in dir THEN <<With("addChain", "dst", last)>> ELSE <<>>)
    \o Rewrite

\* From a file without identifiers, or with what the operator types.
pathsAddCmd == <<Plain("load"), Plain("addPath")>> \o Rewrite

userInputPathAdd == <<Plain("load"), With("addPath", "src", Typo)>> \o Rewrite

pathsEditCmd(c, id) == <<Plain("load"), With("edit", c, id)>> \o Rewrite

\* keys add and keys restore.
keysAddCmd(c) == <<Plain("load"), At("useChain", c), At("addKey", c)>>

\* height 0 stands for --force, which trusts the latest block.
initLightCmd(c, height) ==
    <<Plain("load"), At("useChain", c), At("open", c), With("trust", c, height)>>

updateLightCmd(c) ==
    <<Plain("load"), At("useChain", c), At("open", c), At("peek", c),
      At("open", c), At("update", c)>>

lightHeaderCmd(c) ==
    <<Plain("load"), At("useChain", c), At("open", c), At("peek", c),
      At("open", c), At("peek", c)>>

deleteLightCmd(c) == <<Plain("load"), At("useChain", c), At("delete", c)>>

\* height is the value of --src-height and --dst-height, 0 when not given.
createClientsCmd(height) ==
    <<Plain("load"), Plain("usePath"), With("check", "src", height)>>

updateClientsCmd ==
    <<Plain("load"), Plain("usePath"),
      At("open", "src"), At("update", "src"), At("open", "dst"), At("update", "dst"),
      At("refresh", "src"), At("refresh", "dst"), Plain("success")>>

SyncChainConfigsFromEvents(c) == <<At("sync", c)>> \o Rewrite

CreateInitialLightClientState(c, height) ==
    <<At("open", c), With("update", c, height)>>

\* For the ends that have no client: the header of the other chain, the
\* messages, and the identifiers of the events.
CreateClients(missing, height) ==
    LET For(c, steps) == IF c \in missing THEN steps ELSE <<>>
    IN  For("src", CreateInitialLightClientState("dst", height))
        \o For("dst", CreateInitialLightClientState("src", height))
        \o For("src", <<At("send", "src")>>) \o For("dst", <<At("send", "dst")>>)
        \o <<Plain("success")>>
        \o For("src", SyncChainConfigsFromEvents("src"))
        \o For("dst", SyncChainConfigsFromEvents("dst"))

-----------------------------------------------------------------------------
(* Processes *)

Idle == [todo |-> <<>>, mem |-> defaultConfig, db |-> {}, failed |-> FALSE,
         header |-> [c \in Chains |-> 0], got |-> [c \in Chains |-> NoId]]

Init ==
    /\ file = [state |-> "missing", config |-> defaultConfig]
    /\ keys = {}
    /\ light = [c \in Chains |-> {}]
    /\ lock = [c \in Chains |-> Nobody]
    /\ now = 1
    \* dst already has a client of somebody else
    /\ clients = [c \in Chains |-> [i \in Ids |-> IF c = "dst" /\ i = 1 THEN 1 ELSE 0]]
    /\ ours = [c \in Chains |-> {}]
    /\ proc = [p \in Procs |-> Idle]
    /\ left \in Budgets
    /\ blame = {}

Running(p) == proc[p].todo # <<>>

IsNext(p, do) == Running(p) /\ Head(proc[p].todo).do = do

Arg(p) == Head(proc[p].todo).arg
Place(p) == Head(proc[p].todo).at

Exists(c, id) == id \in Ids /\ clients[c][id] > 0

\* The process takes the step and keeps the rest of its list, or ends.
Advance(p, new) == proc' = [proc EXCEPT ![p] = [new EXCEPT !.todo = Tail(proc[p].todo)]]
Abort(p) == proc' = [proc EXCEPT ![p] = Idle]

Continue(p, new) ==
    IF Len(proc[p].todo) = 1 THEN Abort(p) ELSE Advance(p, new)

\* The process closes the database it has open, if it has one.
Release(p) == lock' = [c \in Chains |-> IF lock[c] = p THEN Nobody ELSE lock[c]]

\* A command that will write the file.
Writes(todo) == \E i \in DOMAIN todo : todo[i].do \in {"create", "truncate", "write", "check"}

-----------------------------------------------------------------------------
(* Starting a command *)

Start(p, todo) ==
    /\ ~Running(p)
    /\ proc' = [proc EXCEPT ![p].todo = todo]
    /\ blame' = IF Writes(todo) /\ \E q \in Procs \ {p} : Writes(proc[q].todo)
                THEN blame \cup {"overlap"} ELSE blame
    /\ UNCHANGED <<file, keys, light, lock, now, clients, ours>>

\* command_init and command_path of the orchestrator: what `config show' and
\* the probe `light header' find missing, in that order.
Wanted ==
    LET config == file.config
        dark == {c \in Chains : light[c] = {}}
    IN  IF file.state = "missing" THEN {configInitCmd}
        ELSE IF file.state = "torn" THEN {}
        ELSE IF config.chains # Chains
             THEN {chainsAddDirCmd(Chains \ config.chains, ValidFile)}
        ELSE IF keys # Chains THEN {keysAddCmd(c) : c \in Chains \ keys}
        ELSE IF dark # {} THEN {initLightCmd(c, 0) : c \in dark}
        ELSE IF ~config.known THEN {pathsAddCmd}
        ELSE IF \E c \in Chains : config.path[c] = NoId THEN {createClientsCmd(0)}
        ELSE {}

Orchestrate == \E todo \in Wanted : Start("orch", todo) /\ UNCHANGED left

\* What an operator may type.
Typed ==
    {configInitCmd, pathsAddCmd, userInputPathAdd, updateClientsCmd}
    \cup {chainsAddDirCmd({"src"}, ValidFile), chainsAddDirCmd(Chains, ValidFile),
          chainsAddDirCmd(Chains, InvalidFile)}
    \cup {keysAddCmd(c) : c \in Chains}
    \cup {pathsEditCmd(c, id) : c \in Chains, id \in {NoId, Typo}}
    \cup (UNION {{pathsEditCmd(c, id) : id \in ours[c]} : c \in Chains})
    \cup {createClientsCmd(h) : h \in 0..now}
    \cup {initLightCmd(c, h) : c \in Chains, h \in 0..now}
    \cup (UNION {{updateLightCmd(c), lightHeaderCmd(c), deleteLightCmd(c)} : c \in Chains})

Operate ==
    /\ left.hand > 0
    /\ \E todo \in Typed : Start("hand", todo)
    /\ left' = [left EXCEPT !.hand = @ - 1]

Tick ==
    /\ now < MaxTime
    /\ now' = now + 1
    /\ UNCHANGED <<file, keys, light, lock, clients, ours, proc, left, blame>>

-----------------------------------------------------------------------------
(* The configuration file *)

\* Whatever is in a file that can be parsed; nothing is an empty configuration.
UnmarshalConfig == IF file.state = "missing" THEN defaultConfig ELSE file.config

\* PersistentPreRunE.
Load(p) ==
    /\ IsNext(p, "load")
    /\ IF file.state = "torn" THEN Abort(p)
       ELSE Continue(p, [proc[p] EXCEPT !.mem = UnmarshalConfig])
    /\ UNCHANGED <<file, keys, light, lock, now, clients, ours, left, blame>>

\* Variant with a fault: an existing file is replaced.
Stat_Ignored(p) ==
    /\ IsNext(p, "stat")
    /\ Continue(p, proc[p])
    /\ UNCHANGED <<file, keys, light, lock, now, clients, ours, left, blame>>

\* CreateConfig: os.Stat, and nothing more if there is a file ...
Stat(p) ==
    /\ IsNext(p, "stat")
    /\ IF file.state = "missing" THEN Continue(p, proc[p]) ELSE Abort(p)
    /\ UNCHANGED <<file, keys, light, lock, now, clients, ours, left, blame>>

\* ... then os.Create, which truncates what somebody else has created since.
CreateConfig(p) ==
    /\ IsNext(p, "create")
    /\ file' = [file EXCEPT !.state = "torn"]
    /\ Continue(p, [proc[p] EXCEPT !.mem = defaultConfig])
    /\ UNCHANGED <<keys, light, lock, now, clients, ours, left, blame>>

\* filesAdd, one file: nothing is written when a later file is refused.
AddChain(p) ==
    /\ IsNext(p, "addChain")
    /\ IF Arg(p) = InvalidFile \/ Place(p) \in proc[p].mem.chains THEN Abort(p)
       ELSE Continue(p, [proc[p] EXCEPT !.mem.chains = @ \cup {Place(p)}])
    /\ UNCHANGED <<file, keys, light, lock, now, clients, ours, left, blame>>

\* Only the first chain of the path has to be configured.
AddPath(p) ==
    /\ IsNext(p, "addPath")
    /\ IF "src" \notin proc[p].mem.chains \/ proc[p].mem.known THEN Abort(p)
       ELSE Continue(p, [proc[p] EXCEPT !.mem.known = TRUE,
                                     !.mem.path = IF Arg(p) = Typo THEN MistypedPath ELSE NewPath])
    /\ UNCHANGED <<file, keys, light, lock, now, clients, ours, left, blame>>

\* The operator replaces an identifier: what it named is forgotten.
Edit(p) ==
    /\ IsNext(p, "edit")
    /\ IF ~proc[p].mem.known THEN Abort(p) /\ UNCHANGED blame
       ELSE /\ Continue(p, [proc[p] EXCEPT !.mem.path[Place(p)] = Arg(p)])
            /\ blame' = blame \cup {"edit"}
    /\ UNCHANGED <<file, keys, light, lock, now, clients, ours, left>>

\* OverWriteConfig: os.WriteFile opens the file with O_TRUNC, and fails in a
\* directory that does not exist ...
Truncate(p) ==
    /\ IsNext(p, "truncate")
    /\ IF file.state = "missing" THEN Abort(p) /\ UNCHANGED file
       ELSE Continue(p, proc[p]) /\ file' = [file EXCEPT !.state = "torn"]
    /\ UNCHANGED <<keys, light, lock, now, clients, ours, left, blame>>

\* ... and writes the copy.  If somebody else has written since, a shorter
\* copy leaves the end of the longer one behind it.
Write(p) ==
    /\ IsNext(p, "write")
    /\ \E state \in {"whole", "torn"} :
          /\ state = "torn" => file.state = "whole" /\ file.config # proc[p].mem
          /\ file' = [state |-> state, config |-> proc[p].mem]
    /\ Continue(p, proc[p])
    /\ UNCHANGED <<keys, light, lock, now, clients, ours, left, blame>>

-----------------------------------------------------------------------------
(* Keyrings and light client databases *)

\* GetChain.
UseChain(p) ==
    /\ IsNext(p, "useChain")
    /\ IF Place(p) \notin proc[p].mem.chains THEN Abort(p) ELSE Continue(p, proc[p])
    /\ UNCHANGED <<file, keys, light, lock, now, clients, ours, left, blame>>

AddKey(p) ==
    /\ IsNext(p, "addKey")
    /\ Continue(p, proc[p])
    /\ keys' = keys \cup {Place(p)}   \* an existing key is kept
    /\ UNCHANGED <<file, light, lock, now, clients, ours, left, blame>>

\* NewLightDB: one process at a time has a database open, and who finds it
\* locked tries again, five times.
NewLightDB(p) ==
    /\ IsNext(p, "open")
    /\ IF lock[Place(p)] = Nobody
       THEN /\ lock' = [lock EXCEPT ![Place(p)] = p]
            /\ Continue(p, [proc[p] EXCEPT !.db = light[Place(p)]])
            /\ UNCHANGED left
       ELSE /\ left.busy > 0
            /\ left' = [left EXCEPT !.busy = @ - 1]
            /\ Abort(p) /\ UNCHANGED lock
    /\ UNCHANGED <<file, keys, light, now, clients, ours, blame>>

\* Variant with a fault: what the process has in memory is stored by name.
Close_ByName(p, db) ==
    light' = [light EXCEPT ![Place(p)] = db] /\ Release(p)

\* The headers of db are stored and the database is closed.  A database that
\* was deleted meanwhile is not under its name any more.
Close(p, db) ==
    /\ light' = IF lock[Place(p)] = p THEN [light EXCEPT ![Place(p)] = db] ELSE light
    /\ Release(p)

Expired(h) == now - h > Period

\* client.Update and client.VerifyLightBlockAtHeight: whether the header can
\* be verified from the trusted ones.
Verifiable(db, h) ==
    /\ db # {}
    /\ \/ h \in db
       \/ h < Min(db)
       \/ ~Expired(Max({x \in db : x < h}))

\* UpdateLightClient, for the latest header or for a given height.
UpdateLightClient(p) ==
    LET h == IF Arg(p) = 0 THEN now ELSE Arg(p)
        db == proc[p].db
    IN  /\ IsNext(p, "update")
        /\ IF Verifiable(db, h)
           THEN /\ Close(p, db \cup {h})
                /\ Continue(p, [proc[p] EXCEPT !.header[Place(p)] = h, !.db = {}])
           ELSE Close(p, db) /\ Abort(p)
        /\ UNCHANGED <<file, keys, now, clients, ours, left, blame>>

\* GetLightSignedHeaderAtHeight and GetLatestLightHeight.
Peek(p) ==
    /\ IsNext(p, "peek")
    /\ Close(p, proc[p].db)
    /\ IF proc[p].db = {} THEN Abort(p) ELSE Continue(p, [proc[p] EXCEPT !.db = {}])
    /\ UNCHANGED <<file, keys, now, clients, ours, left, blame>>

\* Variant with a fault: the block after the given one is trusted.
NewClient_Next(db, h) == db \cup {h + 1}

\* light.NewClient: a height below the latest trusted one rolls the database
\* back to it.
NewClient(db, h) ==
    IF db # {} /\ h < Max(db)
    THEN IF h \in db THEN {x \in db : x <= h} ELSE {h}
    ELSE db \cup {h}

\* LightClientWithoutTrust takes the latest block, LightClientWithTrust the
\* given one.
LightClientWithTrust(p) ==
    /\ IsNext(p, "trust")
    /\ Close(p, NewClient(proc[p].db, IF Arg(p) = 0 THEN now ELSE Arg(p)))
    /\ Continue(p, [proc[p] EXCEPT !.db = {}])
    /\ UNCHANGED <<file, keys, now, clients, ours, left, blame>>

\* DeleteLightDB removes the files, those of an open database too.
DeleteLightDB(p) ==
    /\ IsNext(p, "delete")
    /\ light' = [light EXCEPT ![Place(p)] = {}]
    /\ lock' = [lock EXCEPT ![Place(p)] = Nobody]
    /\ Continue(p, proc[p])
    /\ UNCHANGED <<file, keys, now, clients, ours, left, blame>>

-----------------------------------------------------------------------------
(* Clients *)

\* ChainsFromPath, and GetAddress of both chains.
ChainsFromPath(p) ==
    /\ IsNext(p, "usePath")
    /\ IF proc[p].mem.known /\ proc[p].mem.chains = Chains /\ keys = Chains
       THEN Continue(p, proc[p]) ELSE Abort(p)
    /\ UNCHANGED <<file, keys, light, lock, now, clients, ours, left, blame>>

MissingEnds(path) == {c \in Chains : path[c] = NoId}

\* Variants with a fault: clients that exist are not noticed; one missing
\* client makes the command create both; one client is taken for both.
checkCreateClientsReady_Always(path) == Chains
checkCreateClientsReady_Both(path) == IF MissingEnds(path) = {} THEN {} ELSE Chains
checkCreateClientsReady_Either(path) == IF MissingEnds(path) = Chains THEN Chains ELSE {}

\* The ends that get a client.
checkCreateClientsReady(path) == MissingEnds(path)

CheckCreateClients(p) ==
    LET path == proc[p].mem.path
        todo == checkCreateClientsReady(path)
    IN  /\ IsNext(p, "check")
        /\ IF todo = {} \/ \E c \in Chains : path[c] # NoId /\ ~Exists(c, path[c])
           THEN Abort(p)
           ELSE proc' = [proc EXCEPT ![p].todo = CreateClients(todo, Arg(p))]
        /\ UNCHANGED <<file, keys, light, lock, now, clients, ours, left, blame>>

\* MsgCreateClient is executed: the chain generates the next identifier.
NextId(c) == Min({i \in Ids : clients[c][i] = 0})

Execute(p) ==
    LET c == Place(p)
    IN  /\ clients' = [clients EXCEPT ![c][NextId(c)] = proc[p].header[Other(c)]]
        /\ ours' = [ours EXCEPT ![c] = @ \cup {NextId(c)}]

Send(p) ==
    /\ IsNext(p, "send")
    /\ \E i \in Ids : clients[Place(p)][i] = 0
    /\ Execute(p)
    /\ Continue(p, [proc[p] EXCEPT !.got[Place(p)] = NextId(Place(p))])
    /\ UNCHANGED <<file, keys, light, lock, now, left, blame>>

\* The transaction fails, or is executed after waitForCommit has given up.
\* The message for the other chain is sent all the same.
SendFails(p) ==
    /\ IsNext(p, "send")
    /\ left.faults > 0
    /\ left' = [left EXCEPT !.faults = @ - 1]
    /\ \E i \in Ids : clients[Place(p)][i] = 0
    /\ Execute(p) \/ UNCHANGED <<clients, ours>>
    /\ Continue(p, [proc[p] EXCEPT !.failed = TRUE])
    /\ blame' = blame \cup {"send"}
    /\ UNCHANGED <<file, keys, light, lock, now>>

Success(p) ==
    /\ IsNext(p, "success")
    /\ IF proc[p].failed THEN Abort(p) ELSE Continue(p, proc[p])
    /\ UNCHANGED <<file, keys, light, lock, now, clients, ours, left, blame>>

\* Variant with a fault: the identifier goes to the other end.
UpdatePathConfig_OtherEnd(path, c, id) == [path EXCEPT ![Other(c)] = id]

UpdatePathConfig(path, c, id) == [path EXCEPT ![c] = id]

\* The client identifier among the events of the message, by GetMsgResult.
EventGenerateClientIdentifier(p) == proc[p].got[Place(p)]

\* SyncChainConfigFromEvents, up to the write.
Sync(p) ==
    /\ IsNext(p, "sync")
    /\ Continue(p, [proc[p] EXCEPT !.mem.path =
                       UpdatePathConfig(@, Place(p), EventGenerateClientIdentifier(p))])
    /\ UNCHANGED <<file, keys, light, lock, now, clients, ours, left, blame>>

\* GetMsgResult fails, and the identifiers of both messages stay unknown.
SyncFails(p) ==
    /\ IsNext(p, "sync")
    /\ left.faults > 0
    /\ left' = [left EXCEPT !.faults = @ - 1]
    /\ Abort(p)
    /\ blame' = blame \cup {"result"}
    /\ UNCHANGED <<file, keys, light, lock, now, clients, ours>>

\* The header for the client on chain c, to be trusted from the client's height.
SetupHeadersForUpdate(p, c) == proc[p].header[Other(c)]

\* Both clients are queried before any message is sent.
SetupBothHeadersForUpdate(p) == \A c \in Chains : Exists(c, proc[p].mem.path[c])

\* MsgUpdateClient on a chain, with the header of the other one.
Refresh(p) ==
    LET c == Place(p)
        id == proc[p].mem.path[c]
        header == SetupHeadersForUpdate(p, c)
        accepted == ~Expired(clients[c][id]) /\ header > clients[c][id]
    IN  /\ IsNext(p, "refresh")
        /\ IF ~SetupBothHeadersForUpdate(p)
           THEN Abort(p) /\ UNCHANGED clients
           ELSE /\ clients' = IF accepted THEN [clients EXCEPT ![c][id] = header] ELSE clients
                /\ Continue(p, [proc[p] EXCEPT !.failed = @ \/ ~accepted])
        /\ UNCHANGED <<file, keys, light, lock, now, ours, left, blame>>

\* The process dies, or the user interrupts it.
Kill(p) ==
    /\ Running(p)
    /\ left.faults > 0
    /\ left' = [left EXCEPT !.faults = @ - 1]
    /\ Abort(p)
    /\ Release(p)
    /\ blame' = blame \cup {"kill"}
    /\ UNCHANGED <<file, keys, light, now, clients, ours>>

-----------------------------------------------------------------------------

Take(p) ==
    \/ Load(p)
    \/ Stat(p)
    \/ CreateConfig(p)
    \/ AddChain(p)
    \/ AddPath(p)
    \/ Edit(p)
    \/ Truncate(p)
    \/ Write(p)
    \/ UseChain(p)
    \/ AddKey(p)
    \/ NewLightDB(p)
    \/ UpdateLightClient(p)
    \/ Peek(p)
    \/ LightClientWithTrust(p)
    \/ DeleteLightDB(p)
    \/ ChainsFromPath(p)
    \/ CheckCreateClients(p)
    \/ Send(p)
    \/ SendFails(p)
    \/ Success(p)
    \/ Sync(p)
    \/ SyncFails(p)
    \/ Refresh(p)

\* The clock stands at its bound and nobody has anything to do.
Exhausted ==
    /\ now = MaxTime /\ left.hand = 0
    /\ Wanted = {} /\ \A p \in Procs : ~Running(p)
    /\ UNCHANGED vars

Next ==
    \/ Orchestrate
    \/ Operate
    \/ Tick
    \/ \E p \in Procs : Take(p) \/ Kill(p)
    \/ Exhausted

\* A process that runs goes on, and the orchestrator is run until it finds
\* nothing missing.
Fairness ==
    /\ \A p \in Procs : WF_vars(Take(p))
    /\ WF_vars(Orchestrate)

Spec == Init /\ [][Next]_vars /\ Fairness

-----------------------------------------------------------------------------
(* Properties *)

\* The state of the file, the databases, the chains and the processes.
TypeOK ==
    /\ file \in Files
    /\ keys \subseteq Chains
    /\ light \in [Chains -> SUBSET Heights]
    /\ lock \in [Chains -> Procs \cup {Nobody}]
    /\ now \in 1..MaxTime
    /\ clients \in [Chains -> [Ids -> Heights]]
    /\ ours \in [Chains -> SUBSET Ids]
    /\ proc \in [Procs -> [todo : Seq(Steps), mem : Configs, db : SUBSET Heights,
                           failed : BOOLEAN, header : [Chains -> Heights],
                           got : [Chains -> 0..MaxClients]]]
    /\ left \in [hand : Nat, faults : Nat, busy : Nat]
    /\ blame \subseteq {"overlap", "edit", "send", "result", "kill"}

\* The configurations that exist: the file, and the copy of each process.
Copies == {file.config} \cup {proc[p].mem : p \in Procs}

\* Whatever overlapped, failed or was killed: an identifier that the file or
\* a process has for an end of the path was generated by that end's chain for
\* a client that a `tx clients' created there, or was typed in by an operator
\* (config/core.go UpdatePathConfig and its callers).
IdsAreOurs ==
    \A config \in Copies, c \in Chains :
        config.path[c] \in {NoId, Typo} \cup ours[c]

\* A client that neither the file nor a running process knows.
Orphans(c) ==
    {id \in ours[c] :
        /\ file.config.path[c] # id
        /\ \A p \in Procs : Running(p) => id \notin {proc[p].got[c], proc[p].mem.path[c]}}

\* When no two writing commands overlapped, none was killed, no transaction
\* or query failed and nobody edited identifiers, no client is created that
\* is not recorded, and the file can be read whenever nobody is writing it
\* (core/client.go CreateClients, config/config.go OverWriteConfig).
CleanWhenUndisturbed ==
    blame = {} =>
        /\ \A c \in Chains : Orphans(c) = {}
        /\ file.state = "torn" => \E p \in Procs : IsNext(p, "write")

\* An end of a path that has a client gets no second one, also when the
\* command before failed half-way: a repeated `tx clients' creates only what
\* is missing (core/client.go checkCreateClientsReady).
OnlyMissingClients ==
    [][ \A c \in Chains :
          ours'[c] # ours[c] /\ "overlap" \notin blame
            => file.config.path[c] = NoId ]_vars

\* An identifier leaves the file only because an operator edits it or because
\* two writing commands overlapped: no command writes a configuration that
\* lacks what it read (config/config.go UnmarshalConfig, CreateConfig,
\* OverWriteConfig).
NothingForgotten ==
    [][ \A c \in Chains :
          file.config.path[c] # NoId /\ file'.config.path[c] # file.config.path[c]
            => blame \cap {"edit", "overlap"} # {} ]_vars

\* "wipe the light client database, forcing re-initialization on the next
\* run" (chains/tendermint/cmd/light.go): once it is wiped, only light init
\* fills it, also when another process had it open (DeleteLightDB,
\* UpdateLightClient).
WipedUntilInit ==
    [][ \A c \in Chains :
          light[c] = {} /\ light'[c] # {}
            => \E p \in Procs : IsNext(p, "trust") /\ Place(p) = c ]_vars

Configured ==
    /\ file.state = "whole"
    /\ file.config.known
    /\ \A c \in Chains : Exists(c, file.config.path[c])

\* The ways in which the orchestrator gets stuck: a file that cannot be read,
\* a database whose headers have all expired, which its probe takes for
\* initialized, and an identifier that names nothing.
Stuck ==
    \/ file.state = "torn"
    \/ \E c \in Chains : light[c] # {} /\ Expired(Max(light[c]))
    \/ \E c \in Chains : file.config.path[c] = Typo

\* Repeating the orchestrator's commands ends with a configured path, after
\* any finite number of failures, kills and commands of others, unless it is
\* stuck (core/client.go CreateClients with modules/relayer.py
\* configure_path).
EventuallyConfigured == <>[](Configured \/ Stuck)

=============================================================================
