------------------------------- MODULE Nodes -------------------------------
(***************************************************************************)
(* The containers of infra/postgres/compose.yaml over their volumes: the   *)
(* entrypoints of the primary and of the replicas, the scripts of init/,   *)
(* the health check that lets replicas start, and runners of migrate.sql,  *)
(* one of which is part of the primary's initialisation.  A container may  *)
(* stop or be killed at every step and is started again on its volume.     *)
(*                                                                         *)
(* A volume is the set of those of its files that the entrypoints look at; *)
(* "rest" is all there is besides.                                         *)
(***************************************************************************)
EXTENDS Migration, Sequences

CONSTANTS
    Replica,       \* the replicas
    InitRunner,    \* the run of migrate.sql in init/15-board.sql
    MaxStops       \* bound: containers that stop or are killed

ASSUME NodesAssumption ==
    /\ InitRunner \in Runner
    /\ "primary" \notin Replica
    /\ MaxStops \in Nat

Node == {"primary"} \cup Replica
File == {"PG_VERSION", "pg_control", "rest", "standby.signal", "primary-ready", "replica-ready"}

VARIABLES
    vol,          \* vol[n]: the files in PGDATA
    proc,         \* proc[n]: what the container is doing
    lab, slots,   \* the primary's database: lab.posts, and the replication slots
    stops,        \* containers stopped so far
    origin,       \* how the primary's volume was found first
    interrupted   \* nodes whose latest initialisation was cut short

nodeVars == <<vol, proc, lab, slots, stops, origin, interrupted>>
environmentVars == <<migrationVars, nodeVars>>

ClusterFiles == {"PG_VERSION", "pg_control", "rest"}    \* what initdb writes
BackupFiles  == ClusterFiles \cup {"standby.signal", "primary-ready"}

\* The primary's volume is new, or holds a database of before the board, or
\* one with a board of somebody else, or is the volume of a standby, or no
\* database at all.
NodesInit ==
    /\ MigrationInit
    /\ origin \in {"new", "old", "standby", "stray"}
    /\ catalog = Foreign => origin = "old"
    /\ vol = [n \in Node |->
            IF n # "primary" \/ origin = "new" THEN {}
            ELSE IF origin = "old" THEN ClusterFiles \cup {"primary-ready"}
            ELSE IF origin = "standby" THEN BackupFiles \cup {"replica-ready"} ELSE {"rest"}]
    /\ lab = (origin \in {"old", "standby"})
    /\ slots = (IF lab THEN Replica ELSE {})
    /\ proc = [n \in Node |-> "down"]
    /\ stops = 0 /\ interrupted = {}

Become(n, what) == proc' = [proc EXCEPT ![n] = what]

Add(n, file) == vol' = [vol EXCEPT ![n] = @ \cup {file}]

-----------------------------------------------------------------------------
(* Start.                                                                  *)

\* primary-entrypoint.sh: the volume is served, initialised or refused.
PrimaryVerdict(files) ==
    IF "PG_VERSION" \in files
    THEN IF {"primary-ready", "pg_control"} \subseteq files /\ "standby.signal" \notin files
         THEN "serving" ELSE "refused"
    ELSE IF files = {} THEN "initdb" ELSE "refused"

\* Faulty variant: the marker that the backup has brought along will do.
MarkerOfPrimary == "primary-ready"

\* The marker of a replica is one that no backup contains.
ReplicaMarker == "replica-ready"

\* replica-entrypoint.sh.
ReplicaVerdict(files) ==
    IF "PG_VERSION" \in files
    THEN IF {ReplicaMarker, "standby.signal", "pg_control"} \subseteq files
         THEN "serving" ELSE "refused"
    ELSE IF files = {} THEN "backup" ELSE "refused"

StartPrimary ==
    /\ proc["primary"] = "down"
    /\ Become("primary", PrimaryVerdict(vol["primary"]))
    /\ UNCHANGED <<migrationVars, vol, lab, slots, stops, origin, interrupted>>

\* healthcheck.sh: lab.posts is found over TCP, which the server that runs the
\* scripts does not listen to.
PrimaryHealthy == proc["primary"] = "serving" /\ lab

\* depends_on with service_healthy.
StartReplica(n) ==
    /\ proc[n] = "down" /\ PrimaryHealthy
    /\ Become(n, ReplicaVerdict(vol[n]))
    /\ UNCHANGED <<migrationVars, vol, lab, slots, stops, origin, interrupted>>

-----------------------------------------------------------------------------
(* The primary's first start: initdb, then init/ in order.                 *)

\* Faulty variant: the marker is set before the rest is done.
InitScriptsReadyFirst == <<"initdb", "mark", "lab", "slots", "board", "serving">>

InitScripts == <<"initdb", "lab", "slots", "board", "mark", "serving">>

Initialising == {"initdb", "lab", "slots", "board", "mark"}

\* The script is done; after the last one the real server starts.
NextScript ==
    \E i \in 1..(Len(InitScripts) - 1) :
        /\ proc["primary"] = InitScripts[i]
        /\ Become("primary", InitScripts[i + 1])

Initdb ==
    /\ proc["primary"] = "initdb"
    /\ \E file \in ClusterFiles : file \notin vol["primary"] /\ Add("primary", file)
    /\ IF ClusterFiles \subseteq vol'["primary"] THEN NextScript ELSE UNCHANGED proc
    /\ UNCHANGED <<migrationVars, lab, slots, stops, origin, interrupted>>

\* 10-lab.sql: its statements are transactions of their own.
CreateLab ==
    /\ proc["primary"] = "lab"
    /\ lab' = TRUE
    /\ NextScript
    /\ UNCHANGED <<migrationVars, vol, slots, stops, origin, interrupted>>

CreateSlot ==
    /\ proc["primary"] = "slots"
    /\ \E n \in Replica \ slots : slots' = slots \cup {n}
    /\ IF Replica = slots' THEN NextScript ELSE UNCHANGED proc
    /\ UNCHANGED <<migrationVars, vol, lab, stops, origin, interrupted>>

\* 15-board.sql, over the socket.
RunBoardScript ==
    /\ proc["primary"] = "board"
    /\ \/ Begin(InitRunner) /\ UNCHANGED proc
       \/ RunnerStep(InitRunner) /\ UNCHANGED proc
       \/ step[InitRunner] = "done" /\ NextScript /\ UNCHANGED migrationVars
    /\ UNCHANGED <<vol, lab, slots, stops, origin, interrupted>>

\* 20-ready.sql.
MarkPrimary ==
    /\ proc["primary"] = "mark"
    /\ Add("primary", "primary-ready")
    /\ NextScript
    /\ interrupted' = interrupted \ {"primary"}
    /\ UNCHANGED <<migrationVars, lab, slots, stops, origin>>

PrimaryStep == Initdb \/ CreateLab \/ CreateSlot \/ RunBoardScript \/ MarkPrimary

-----------------------------------------------------------------------------
(* A replica's first start: pg_basebackup, then the marker.                *)

CopyFile(n) ==
    /\ proc[n] = "backup" /\ proc["primary"] = "serving" /\ n \in slots
    /\ \E file \in BackupFiles : file \notin vol[n] /\ Add(n, file)
    /\ UNCHANGED <<migrationVars, proc, lab, slots, stops, origin, interrupted>>

\* pg_basebackup returns, and the files are found.
BackupDone(n) ==
    /\ proc[n] = "backup" /\ BackupFiles \subseteq vol[n]
    /\ Become(n, "mark")
    /\ UNCHANGED <<migrationVars, vol, lab, slots, stops, origin, interrupted>>

\* Faulty variant: no timeout around the backup.
BackupFailsNever(n) ==
    /\ FALSE
    /\ Become(n, "down")
    /\ UNCHANGED <<migrationVars, vol, lab, slots, stops, origin, interrupted>>

\* pg_basebackup fails or runs into its timeout; what it has written stays.
BackupFails(n) ==
    /\ proc[n] = "backup"
    /\ Become(n, "down")
    /\ interrupted' = interrupted \cup {n}
    /\ UNCHANGED <<migrationVars, vol, lab, slots, stops, origin>>

\* Faulty variant: the marker is forgotten.
MarkReplicaForgotten(n) ==
    /\ proc[n] = "mark"
    /\ Become(n, "serving")
    /\ interrupted' = interrupted \ {n}
    /\ UNCHANGED <<migrationVars, vol, lab, slots, stops, origin>>

MarkReplica(n) ==
    /\ proc[n] = "mark"
    /\ Add(n, ReplicaMarker)
    /\ Become(n, "serving")
    /\ interrupted' = interrupted \ {n}
    /\ UNCHANGED <<migrationVars, lab, slots, stops, origin>>

ReplicaStep(n) == BackupDone(n) \/ BackupFails(n) \/ MarkReplica(n)

-----------------------------------------------------------------------------
(* Stops, and migrations of a database that serves.                        *)

\* db-down, a kill, a failing script: the container is gone at whatever step
\* it is in, with the sessions it serves.
StopNode(n) ==
    /\ proc[n] \notin {"down", "refused"} /\ stops < MaxStops
    /\ stops' = stops + 1
    /\ Become(n, "down")
    /\ interrupted' = IF proc[n] = "serving" THEN interrupted ELSE interrupted \cup {n}
    /\ IF n = "primary" THEN AbortRunners ELSE UNCHANGED migrationVars
    /\ UNCHANGED <<vol, lab, slots, origin>>

\* migrate.sql fails in the scripts: the container exits.
BoardScriptFails ==
    /\ proc["primary"] = "board"
    /\ \/ RunnerFails(InitRunner) /\ UNCHANGED <<proc, interrupted>>
       \/ /\ step[InitRunner] = "failed"
          /\ Become("primary", "down")
          /\ interrupted' = interrupted \cup {"primary"}
          /\ UNCHANGED migrationVars
    /\ UNCHANGED <<vol, lab, slots, stops, origin>>

\* Faulty variant: the runner does not care whom it talks to.
MigrateAnywhere(r) == r # InitRunner /\ Begin(r) /\ UNCHANGED nodeVars

\* db.sh migrate, over TCP.
Migrate(r) ==
    /\ r # InitRunner /\ proc["primary"] = "serving"
    /\ Begin(r)
    /\ UNCHANGED nodeVars

Runners(r) ==
    /\ r # InitRunner
    /\ RunnerStep(r) \/ RunnerFails(r)
    /\ UNCHANGED nodeVars

EnvironmentNext ==
    \/ StartPrimary \/ PrimaryStep \/ BoardScriptFails
    \/ \E n \in Replica : StartReplica(n) \/ CopyFile(n) \/ ReplicaStep(n)
    \/ \E n \in Node : StopNode(n)
    \/ \E r \in Runner : Migrate(r) \/ Runners(r)

\* Scripts run and deadlines pass.  A backup may stall, and so may a runner
\* that has the lock; one that waits for it does so until its timeout.
EnvironmentSpec ==
    /\ NodesInit
    /\ [][EnvironmentNext]_environmentVars
    /\ WF_environmentVars(PrimaryStep \/ BoardScriptFails)
    /\ \A n \in Replica : WF_environmentVars(ReplicaStep(n))
    /\ \A r \in Runner \ {InitRunner} :
        WF_environmentVars((Lock(r) \/ LockTimeout(r)) /\ UNCHANGED nodeVars)

-----------------------------------------------------------------------------
EnvironmentTypeOK ==
    /\ catalog \in [ledger : BOOLEAN, applied : BOOLEAN, board : {"none", "ours", "foreign"}]
    /\ step \in [Runner -> Ends \cup Connected]
    /\ \A r \in Runner : own[r] \subseteq {"ledger", "board", "applied"}
    /\ vol \in [Node -> SUBSET File]
    /\ proc["primary"] \in Initialising \cup {"down", "serving", "refused"}
    /\ \A n \in Replica : proc[n] \in {"down", "backup", "mark", "serving", "refused"}
    /\ \A r \in Runner : step[r] \in Connected =>
            proc["primary"] = (IF r = InitRunner THEN "board" ELSE "serving")

\* Whatever was interrupted and started again: a primary that serves has the
\* lab, a slot for every replica and, if its volume was new, the board, and is
\* no standby; a replica that serves has its whole backup.
ServesOnlyWhole ==
    /\ proc["primary"] = "serving" =>
        /\ ClusterFiles \subseteq vol["primary"] /\ "standby.signal" \notin vol["primary"]
        /\ lab /\ slots = Replica
        /\ origin = "new" => catalog.applied
    /\ \A n \in Replica : proc[n] = "serving" => BackupFiles \subseteq vol[n]

\* A node is refused only when its initialisation was cut short, or for a
\* volume that never was its own: once initialised, it starts whenever it was
\* stopped or killed.
RefusalIsExplained ==
    \A n \in Node : proc[n] = "refused" =>
        n \in interrupted \/ (n = "primary" /\ origin \in {"standby", "stray"})

\* A start comes to an end, and a migration does not wait for ever for one
\* that is stuck.
StartsEnd ==
    /\ \A n \in Node : proc[n] \in Initialising \cup {"backup"} ~>
                       proc[n] \in {"down", "refused", "serving"}
    /\ \A r \in Runner : step[r] = "lock" ~> step[r] # "lock"
=============================================================================
