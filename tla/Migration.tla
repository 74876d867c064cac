----------------------------- MODULE Migration -----------------------------
(***************************************************************************)
(* Runners of infra/postgres/migrate.sql on one database: one transaction  *)
(* under an advisory lock that looks up whether 001_board is applied and   *)
(* otherwise creates the board and records the version.  A runner may fail *)
(* or lose its connection at every statement.                              *)
(***************************************************************************)
EXTENDS Integers

CONSTANT Runner    \* the runs of migrate.sql

VARIABLES
    catalog,   \* what is committed: the ledger's table, its version, the board
    step,      \* step[r]: the statement the runner sends next, or its end
    own,       \* own[r]: what its open transaction has created
    problem    \* problem[r]: why it failed

migrationVars == <<catalog, step, own, problem>>

Ends      == {"idle", "done", "failed"}
InLock    == {"ledger", "look up", "board", "record", "commit"}
Connected == {"lock"} \cup InLock

\* A database without the board, and one whose board nobody recorded.
Blank   == [ledger |-> FALSE, applied |-> FALSE, board |-> "none"]
Foreign == [ledger |-> FALSE, applied |-> FALSE, board |-> "foreign"]

MigrationInit ==
    /\ catalog \in {Blank, Foreign}
    /\ step = [r \in Runner |-> "idle"]
    /\ own = [r \in Runner |-> {}]
    /\ problem = [r \in Runner |-> "none"]

Go(r, next) == step' = [step EXCEPT ![r] = next] /\ UNCHANGED <<catalog, problem>>

\* The transaction is rolled back, by ON_ERROR_STOP or by the server.
Fail(r, reason) ==
    /\ step' = [step EXCEPT ![r] = "failed"]
    /\ own' = [own EXCEPT ![r] = {}]
    /\ problem' = [problem EXCEPT ![r] = reason]

\* psql connects; BEGIN.
Begin(r) == step[r] = "idle" /\ Go(r, "lock") /\ UNCHANGED own

\* Faulty variant: no advisory lock.
LockFreeAlways(r) == TRUE

LockFree(r) == \A other \in Runner \ {r} : step[other] \notin InLock

Lock(r) == step[r] = "lock" /\ LockFree(r) /\ Go(r, "ledger") /\ UNCHANGED own

\* Faulty variant: the lock is awaited for ever.
LockTimeoutNever(r) == FALSE /\ Fail(r, "timeout") /\ UNCHANGED catalog

\* lock_timeout of 5 s.
LockTimeout(r) ==
    /\ step[r] = "lock" /\ ~LockFree(r)
    /\ Fail(r, "timeout") /\ UNCHANGED catalog

\* Another open transaction has created the same.
Contended(r, what) == \E other \in Runner \ {r} : what \in own[other]

\* CREATE ... IF NOT EXISTS tolerates what is committed; of two transactions
\* that create the same at once, PostgreSQL refuses the second.
CreateLedger(r) ==
    /\ step[r] = "ledger"
    /\ IF Contended(r, "ledger")
       THEN Fail(r, "exists") /\ UNCHANGED catalog
       ELSE /\ Go(r, "look up")
            /\ own' = [own EXCEPT ![r] = IF catalog.ledger THEN @ ELSE @ \cup {"ledger"}]

\* SELECT EXISTS and \if.
LookUp(r) ==
    /\ step[r] = "look up"
    /\ Go(r, IF catalog.applied THEN "commit" ELSE "board")
    /\ UNCHANGED own

\* 001_board.sql, whose CREATE SCHEMA tolerates no board.
CreateBoard(r) ==
    /\ step[r] = "board"
    /\ IF catalog.board = "none" /\ ~Contended(r, "board")
       THEN Go(r, "record") /\ own' = [own EXCEPT ![r] = @ \cup {"board"}]
       ELSE Fail(r, "exists") /\ UNCHANGED catalog

RecordVersion(r) ==
    /\ step[r] = "record"
    /\ Go(r, "commit")
    /\ own' = [own EXCEPT ![r] = @ \cup {"applied"}]

\* What the database holds once the transaction is committed.
CommitOf(r) ==
    [ledger  |-> catalog.ledger \/ "ledger" \in own[r],
     applied |-> catalog.applied \/ "applied" \in own[r],
     board   |-> IF "board" \in own[r] THEN "ours" ELSE catalog.board]

CommitAll(r) ==
    /\ step[r] = "commit"
    /\ catalog' = CommitOf(r)
    /\ step' = [step EXCEPT ![r] = "done"]
    /\ own' = [own EXCEPT ![r] = {}]
    /\ UNCHANGED problem

\* An error, a timeout or a lost connection; the COMMIT may have got through.
RunnerFails(r) ==
    /\ step[r] \in Connected
    /\ Fail(r, "error")
    /\ \/ UNCHANGED catalog
       \/ step[r] = "commit" /\ catalog' = CommitOf(r)

\* The server goes down under its runners.
AbortRunners ==
    /\ step' = [r \in Runner |-> IF step[r] \in Connected THEN "failed" ELSE step[r]]
    /\ own' = [r \in Runner |-> {}]
    /\ problem' = [r \in Runner |-> IF step[r] \in Connected THEN "error" ELSE problem[r]]
    /\ UNCHANGED catalog

RunnerStep(r) ==
    \/ Lock(r) \/ LockTimeout(r)
    \/ CreateLedger(r) \/ LookUp(r) \/ CreateBoard(r) \/ RecordVersion(r) \/ CommitAll(r)

-----------------------------------------------------------------------------
\* The ledger and the board tell the same story whoever runs, waits or dies:
\* 001_board is recorded exactly when its tables are there, a run that
\* succeeds has applied it, and a run is refused for an existing board only if
\* that board is not ours (infra README).
MigratedOnce ==
    /\ catalog.applied <=> catalog.board = "ours"
    /\ catalog.applied => catalog.ledger
    /\ \A r \in Runner :
        /\ step[r] = "done" => catalog.applied
        /\ problem[r] = "exists" => catalog.board = "foreign"
=============================================================================
