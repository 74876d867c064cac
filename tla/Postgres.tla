------------------------------ MODULE Postgres ------------------------------
(***************************************************************************)
(* The database under the board, as app/ and postgres/ use it: a primary,  *)
(* node 0, and physical replicas that replay its log.  External code: only *)
(* what a statement of the repository can observe is here.                 *)
(*                                                                         *)
(* An INSERT takes an id, writes its row to the log and commits later, so  *)
(* that neither ids nor the log's rows are in the order of commits.  A     *)
(* position in the log (LSN) is a number of entries.  A replica shows the  *)
(* rows whose commit it has replayed; replay may stand still, and after a  *)
(* crash restart a replica may answer from an earlier position.            *)
(***************************************************************************)
EXTENDS Integers, Sequences

CONSTANTS
    Replicas,      \* number of replicas the router knows
    MaxRestarts    \* bound: crash restarts of replicas

ASSUME PostgresAssumption ==
    /\ Replicas \in Nat
    /\ MaxRestarts \in Nat

Node  == 0..Replicas
Table == {"users", "threads", "posts"}

\* A row; request is the call that inserted it, for the properties only.
Row == [table : Table, id : Nat \ {0}, author : Nat, thread : Nat, request : Nat]

VARIABLES
    wal,        \* the log of the primary
    open,       \* rows inserted and not yet committed
    last,       \* last id taken from each table's identity sequence
    replayed,   \* replayed[n]: pg_last_wal_replay_lsn of replica n
    restarts    \* crash restarts so far

postgresVars == <<wal, open, last, replayed, restarts>>

\* A board with one user, one thread and one post, on every node.
InitialRows ==
    << [table |-> "users", id |-> 1, author |-> 0, thread |-> 0, request |-> 0],
       [table |-> "threads", id |-> 1, author |-> 1, thread |-> 0, request |-> 0],
       [table |-> "posts", id |-> 1, author |-> 1, thread |-> 1, request |-> 0] >>

PostgresInit ==
    /\ wal = [i \in 1..3 |-> [kind |-> "commit", row |-> InitialRows[i]]]
    /\ open = {}
    /\ last = [table \in Table |-> 1]
    /\ replayed = [n \in Node \ {0} |-> Len(wal)]
    /\ restarts = 0

CommittedBy(lsn) ==
    {wal[i].row : i \in {j \in 1..lsn : wal[j].kind = "commit"}}

\* What a SELECT on a node sees.
Visible(node) == CommittedBy(IF node = 0 THEN Len(wal) ELSE replayed[node])

Exists(node, table, id) == \E row \in Visible(node) : row.table = table /\ row.id = id

\* An INSERT that passes its constraints.
InsertRow(row) ==
    /\ last' = [last EXCEPT ![row.table] = row.id]
    /\ wal' = Append(wal, [kind |-> "insert", row |-> row])
    /\ open' = open \cup {row}
    /\ UNCHANGED <<replayed, restarts>>

\* An INSERT that violates a foreign key: only the id is gone.
RefuseRow(table) ==
    /\ last' = [last EXCEPT ![table] = @ + 1]
    /\ UNCHANGED <<wal, open, replayed, restarts>>

Commit(row) ==
    /\ row \in open
    /\ wal' = Append(wal, [kind |-> "commit", row |-> row])
    /\ open' = open \ {row}
    /\ UNCHANGED <<last, replayed, restarts>>

\* The connection or the server fails before the commit.
Abort(row) ==
    /\ row \in open
    /\ open' = open \ {row}
    /\ UNCHANGED <<wal, last, replayed, restarts>>

Replay(n) ==
    /\ replayed[n] < Len(wal)
    /\ replayed' = [replayed EXCEPT ![n] = @ + 1]
    /\ UNCHANGED <<wal, open, last, restarts>>

\* A replica crashes and answers again before it has replayed what it had.
Restart(n) ==
    /\ restarts < MaxRestarts
    /\ restarts' = restarts + 1
    /\ \E lsn \in Len(InitialRows)..(replayed[n] - 1) : replayed' = [replayed EXCEPT ![n] = lsn]
    /\ UNCHANGED <<wal, open, last>>
=============================================================================
