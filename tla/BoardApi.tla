------------------------------ MODULE BoardApi ------------------------------
(***************************************************************************)
(* The HTTP board: the handlers of app/httpapi with the services and       *)
(* repositories they call and the read routing of postgres/router.go, over *)
(* the database of Postgres.tla.  net/http runs every request in its own   *)
(* goroutine; a step here is one statement sent to the database, so that   *)
(* requests, commits, replay and failures interleave between statements.   *)
(*                                                                         *)
(* A client has one request at a time.  It gets the position of a write in *)
(* X-Write-Position and, when it wants to see its writes, sends the one of *)
(* its last write as X-Required-Position, or no header if that answer had  *)
(* none.                                                                   *)
(***************************************************************************)
EXTENDS Postgres

CONSTANTS
    Client,
    MaxID,         \* bound: ids that clients name
    MaxRequests    \* bound: requests of all clients

ASSUME BoardApiAssumption ==
    /\ MaxID \in Nat
    /\ MaxRequests \in Nat

VARIABLES
    call,      \* call[c]: the request in progress
    history,   \* history[c]: the answers the client has got
    sent       \* requests sent so far

boardVars == <<wal, open, last, replayed, restarts, call, history, sent>>

\* The ids a client may name, stored or not.
ID == 1..MaxID

NewThread  == "POST /threads"
NewPost    == "POST /threads/{thread_id}/posts"
NewUser    == "POST /users"
ViewThread == "GET /threads/{thread_id}"

TableOf(op) ==
    CASE op = NewUser -> "users" [] op = NewThread -> "threads" [] op = NewPost -> "posts"

Idle == [step |-> "idle", op |-> ViewThread, author |-> 0, thread |-> 0, required |-> 0,
         number |-> 0, row |-> {}, node |-> 0, disturbed |-> FALSE]

BoardInit ==
    /\ PostgresInit
    /\ call = [c \in Client |-> Idle]
    /\ history = [c \in Client |-> <<>>]
    /\ sent = 0

\* The handler writes its answer and is done.
Answer(c, request, status, position, seen) ==
    /\ history' = [history EXCEPT ![c] = Append(@,
            [op |-> request.op, thread |-> request.thread, status |-> status,
             position |-> position, seen |-> seen, row |-> request.row,
             number |-> request.number, disturbed |-> request.disturbed])]
    /\ call' = [call EXCEPT ![c] = Idle]

Continue(c, request) == call' = [call EXCEPT ![c] = request] /\ UNCHANGED history

-----------------------------------------------------------------------------
(* The router.                                                             *)

\* Faulty variant: a request without the header may read anywhere.
PolicyEventual(required) ==
    IF required = 0 THEN "Eventual" ELSE "ReadYourWrites"

\* readPolicyFromRequest; Eventual is a policy no handler chooses.
Policy(required) ==
    IF required = 0 THEN "PrimaryOnly" ELSE "ReadYourWrites"

\* ReadPool: the node a read goes to, and whether it is to be checked first.
ReadPool(policy) ==
    IF Replicas = 0 \/ policy = "PrimaryOnly"
    THEN [node |-> 0, step |-> "thread"]
    ELSE [node |-> 1, step |-> IF policy = "Eventual" THEN "thread" ELSE "check"]

\* Faulty variant: a replica one entry short of the position will do.
CaughtUpAlmost(n, position) == replayed[n] + 1 >= position

\* The comparison of pg_last_wal_replay_lsn with the required position.
CaughtUp(n, position) == replayed[n] >= position

\* Faulty variant: the loop looks past the last replica.
NextCandidateTooFar(n) == [node |-> n + 1, step |-> "check"]

\* Faulty variant: a replica that lags is asked again.
NextCandidateAgain(n) == [node |-> n, step |-> "check"]

\* After a replica that lags: the next one, or the primary.
NextCandidate(n) ==
    IF n < Replicas THEN [node |-> n + 1, step |-> "check"]
    ELSE [node |-> 0, step |-> "thread"]

\* replicaCaughtUp: one query to the candidate.
CheckReplica(c) ==
    LET request == call[c]
        next    == NextCandidate(request.node)
    IN  /\ request.step = "check"
        /\ IF CaughtUp(request.node, request.required)
           THEN Continue(c, [request EXCEPT !.step = "thread"])
           ELSE Continue(c, [request EXCEPT !.step = next.step, !.node = next.node])
        /\ UNCHANGED <<wal, open, last, replayed, restarts, sent>>

-----------------------------------------------------------------------------
(* A request arrives.                                                      *)

\* A body that does not decode or an id that is no positive number: the
\* handler answers before any statement.
BadRequest(c) ==
    /\ call[c] = Idle
    /\ sent < MaxRequests
    /\ sent' = sent + 1
    /\ Answer(c, [Idle EXCEPT !.number = sent + 1], 400, 0, {})
    /\ UNCHANGED postgresVars

Receive(c, op, author, thread, required) ==
    LET pool    == IF op = ViewThread THEN ReadPool(Policy(required))
                   ELSE [node |-> 0, step |-> "insert"]
        request == [step |-> pool.step, op |-> op, author |-> author, thread |-> thread,
                    required |-> required, number |-> sent + 1, row |-> {},
                    node |-> pool.node, disturbed |-> FALSE]
    IN  /\ call[c] = Idle
        /\ sent < MaxRequests
        /\ sent' = sent + 1
        /\ Continue(c, request)
        /\ UNCHANGED postgresVars

\* The position in the answer to the client's last write; 0: none.
Token(c) ==
    LET writes == {i \in 1..Len(history[c]) :
                      history[c][i].status = 201 /\ history[c][i].op \in {NewThread, NewPost}}
    IN  IF writes = {} THEN 0
        ELSE history[c][CHOOSE i \in writes : \A k \in writes : k <= i].position

CreateUser(c) == Receive(c, NewUser, 0, 0, 0)

CreateThread(c) == \E author \in ID : Receive(c, NewThread, author, 0, 0)

CreatePost(c) == \E thread, author \in ID : Receive(c, NewPost, author, thread, 0)

GetThread(c) ==
    \E thread \in ID, required \in {0, Token(c)} :
        Receive(c, ViewThread, 0, thread, required)

-----------------------------------------------------------------------------
(* Writing: INSERT ... RETURNING, then the position.                       *)

\* The foreign keys of board.threads and board.posts.
Violates(row) ==
    \/ row.table # "users" /\ ~Exists(0, "users", row.author)
    \/ row.table = "posts" /\ ~Exists(0, "threads", row.thread)

Insert(c) ==
    LET request == call[c]
        table   == TableOf(request.op)
        row     == [table |-> table, id |-> last[table] + 1, author |-> request.author,
                    thread |-> request.thread, request |-> request.number]
    IN  /\ request.step = "insert"
        /\ IF Violates(row)
           THEN RefuseRow(table) /\ Answer(c, request, 404, 0, {})
           ELSE /\ InsertRow(row)
                /\ Continue(c, [request EXCEPT !.step = "commit", !.row = {row}])
        /\ UNCHANGED sent

\* The row has come back: it is committed.
InsertReturns(c) ==
    LET request == call[c]
    IN  /\ request.step = "commit"
        /\ request.row \subseteq Visible(0)
        /\ IF request.op = NewUser THEN Answer(c, request, 201, 0, {})
           ELSE Continue(c, [request EXCEPT !.step = "position"])
        /\ UNCHANGED <<wal, open, last, replayed, restarts, sent>>

\* Faulty variant: the position of the INSERT itself, before its commit.
PositionOfInsert(c) ==
    CHOOSE i \in 1..Len(wal) : wal[i].kind = "insert" /\ {wal[i].row} = call[c].row

\* pg_current_wal_insert_lsn: the end of all that has been written by now.
CurrentPosition(c) == Len(wal)

\* A position that cannot be had is left out; the answer is 201 all the same.
LookUpPosition(c) ==
    /\ call[c].step = "position"
    /\ \E position \in {CurrentPosition(c), 0} : Answer(c, call[c], 201, position, {})
    /\ UNCHANGED <<wal, open, last, replayed, restarts, sent>>

-----------------------------------------------------------------------------
(* Reading: two statements on one pool, without a common snapshot.         *)

FetchThread(c) ==
    LET request == call[c]
    IN  /\ request.step = "thread"
        /\ IF Exists(request.node, "threads", request.thread)
           THEN Continue(c, [request EXCEPT !.step = "posts"])
           ELSE Answer(c, request, 404, 0, {})
        /\ UNCHANGED <<wal, open, last, replayed, restarts, sent>>

\* Faulty variant: the posts of all threads.
PostsOfAll(node, thread) == {row \in Visible(node) : row.table = "posts"}

PostsOf(node, thread) ==
    {row \in Visible(node) : row.table = "posts" /\ row.thread = thread}

FetchPosts(c) ==
    LET request == call[c]
    IN  /\ request.step = "posts"
        /\ Answer(c, request, 200, 0, PostsOf(request.node, request.thread))
        /\ UNCHANGED <<wal, open, last, replayed, restarts, sent>>

-----------------------------------------------------------------------------
(* Failures.                                                               *)

\* Faulty variant: a failed INSERT is taken for a missing thread or author.
ErrorStatusNotFound(step) == IF step = "commit" THEN 404 ELSE 500

\* An error of the driver that is no foreign key violation.
ErrorStatus(step) == 500

\* A statement fails (connection lost, replica unreachable, header that is no
\* position), or the client gives up, which cancels the statement: 500, or no
\* answer at all.  An INSERT may have committed, or may still commit.
CallFails(c) ==
    /\ call[c] # Idle
    /\ Answer(c, call[c], ErrorStatus(call[c].step), 0, {})
    /\ UNCHANGED <<wal, open, last, replayed, restarts, sent>>

\* The INSERT was aborted, and the handler is told.
InsertAborted(c) ==
    /\ call[c].step = "commit"
    /\ call[c].row \cap (open \cup Visible(0)) = {}
    /\ Answer(c, call[c], ErrorStatus("commit"), 0, {})
    /\ UNCHANGED <<wal, open, last, replayed, restarts, sent>>

\* A replica restarts under the reads that were routed to it.
ReplicaRestarts(n) ==
    /\ Restart(n)
    /\ call' = [c \in Client |->
            IF call[c].node = n /\ call[c].step \in {"thread", "posts"}
            THEN [call[c] EXCEPT !.disturbed = TRUE] ELSE call[c]]
    /\ UNCHANGED <<history, sent>>

Database ==
    /\ \/ \E row \in open : Commit(row) \/ Abort(row)
       \/ \E n \in Node \ {0} : Replay(n)
    /\ UNCHANGED <<call, history, sent>>

\* What a client may send.
Request(c) ==
    CreateUser(c) \/ CreateThread(c) \/ CreatePost(c) \/ GetThread(c) \/ BadRequest(c)

Serve(c) ==
    \/ Insert(c) \/ InsertReturns(c) \/ LookUpPosition(c) \/ InsertAborted(c)
    \/ CheckReplica(c) \/ FetchThread(c) \/ FetchPosts(c)

BoardNext ==
    \/ \E c \in Client : Request(c) \/ Serve(c) \/ CallFails(c)
    \/ Database
    \/ \E n \in Node \ {0} : ReplicaRestarts(n)

\* The database ends what the handler has begun, one way or the other.
Resolve(c) ==
    /\ \E row \in call[c].row : Commit(row) \/ Abort(row)
    /\ UNCHANGED <<call, history, sent>>

\* Goroutines run and statements end; replay may stand still.
BoardSpec ==
    /\ BoardInit
    /\ [][BoardNext]_boardVars
    /\ \A c \in Client : WF_boardVars(Serve(c)) /\ WF_boardVars(Resolve(c))

-----------------------------------------------------------------------------
BoardTypeOK ==
    /\ \A i \in 1..Len(wal) : wal[i].kind \in {"insert", "commit"} /\ wal[i].row \in Row
    /\ open \subseteq Row
    /\ last \in [Table -> Nat]
    /\ \A n \in Node \ {0} : replayed[n] \in 0..Len(wal)
    /\ \A c \in Client : call[c].node \in Node /\ call[c].required \in 0..Len(wal)
    /\ \A c \in Client : \A i \in 1..Len(history[c]) :
            /\ history[c][i].status \in {200, 201, 400, 404, 500}
            /\ history[c][i].row \cup history[c][i].seen \subseteq Row

Answers(c) == 1..Len(history[c])
Created(c) == {i \in Answers(c) : history[c][i].status = 201}

\* A position in an answer covers every write the client has been told of so
\* far, its own in between the writes of others (position.go: it is a
\* position of that commit or a later one), and lies within the log, so that
\* a replica can reach it.
PositionCoversWrites ==
    \A c \in Client : \A i, k \in Created(c) :
        (i <= k /\ history[c][k].position # 0) =>
            /\ history[c][k].position <= Len(wal)
            /\ history[c][i].row \subseteq CommittedBy(history[c][k].position)

\* A client that sends the position of its last write, or none when it has
\* none, sees each of its threads and posts, whichever node serves it, unless
\* the replica crashed after it was checked.
ReadYourWrites ==
    \A c \in Client : \A i \in Created(c), k \in Answers(c) :
        (i < k /\ history[c][k].op = ViewThread /\ ~history[c][k].disturbed) =>
            \A row \in history[c][i].row :
                /\ (row.table = "threads" /\ row.id = history[c][k].thread)
                        => history[c][k].status # 404
                /\ (row.table = "posts" /\ row.thread = history[c][k].thread)
                        => /\ history[c][k].status # 404
                           /\ history[c][k].status = 200 => row \in history[c][k].seen

\* An answer tells what became of the write: after 201 the row is committed
\* for good, after 400 and 404 nothing of the request is or ever gets stored.
\* After 500, or when the answer is lost, either may be the case.
AnswersTellTheTruth ==
    \A c \in Client : \A i \in Answers(c) :
        /\ history[c][i].status = 201 =>
              history[c][i].row # {} /\ history[c][i].row \subseteq Visible(0)
        /\ history[c][i].status \in {400, 404} =>
              \A row \in open \cup CommittedBy(Len(wal)) : row.request # history[c][i].number

\* The two statements of a read have no snapshot in common; nevertheless the
\* answer is the thread as it was at one position of the log.
ViewIsOneMoment ==
    \A c \in Client : \A i \in Answers(c) :
        history[c][i].status = 200 =>
            \E lsn \in 1..Len(wal) :
                /\ \E row \in CommittedBy(lsn) :
                      row.table = "threads" /\ row.id = history[c][i].thread
                /\ history[c][i].seen =
                      {row \in CommittedBy(lsn) :
                          row.table = "posts" /\ row.thread = history[c][i].thread}

\* Every request is answered even when no replica replays anything.
RequestsEnd == \A c \in Client : call[c] # Idle ~> call[c] = Idle
=============================================================================
