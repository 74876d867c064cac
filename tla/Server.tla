------------------------------- MODULE Server -------------------------------
(***************************************************************************)
(* The process around the board: run and serve of cmd/server/main.go with  *)
(* postgres/connection.go.  It opens one pool per node, primary first,     *)
(* listens, and stops on a signal or when the listener fails.  Deferred    *)
(* calls close what was opened in reverse order, while requests may still  *)
(* be in progress.  The process can be killed at any moment and started    *)
(* again on the same database.                                             *)
(*                                                                         *)
(* main.go opens one replica; here they are as many as postgres/router.go  *)
(* is given.                                                               *)
(***************************************************************************)
EXTENDS BoardApi

CONSTANT
    MaxStarts    \* bound: starts of the process

ASSUME ServerAssumption == MaxStarts \in Nat

VARIABLES
    phase,      \* "down", "opening", "serving", "draining" or "closing"
    http,       \* the listener: "none", "open", "failed" or "shut"
    pool,       \* pool[n]: "none", "open" or "closing"
    signalled,  \* ctx is done: INT or TERM has arrived
    status,     \* the exit status that a process on its way out will report
    starts,     \* starts so far
    busy        \* clients with a statement in progress, each on a connection

processVars == <<phase, http, pool, signalled, status, starts>>
allVars == <<boardVars, processVars, busy>>

ServerInit ==
    /\ BoardInit
    /\ phase = "down" /\ http = "none"
    /\ pool = [n \in Node |-> "none"]
    /\ signalled = FALSE /\ status = 0 /\ starts = 0
    /\ busy = {}

AllIdle == \A c \in Client : call[c] = Idle

\* The connections are closed: requests in progress are cancelled with their
\* statements, and what their handlers still answer reaches nobody.
CutRequests ==
    /\ history' = [c \in Client |->
            IF call[c] = Idle THEN history[c]
            ELSE Append(history[c],
                 [op |-> call[c].op, thread |-> call[c].thread, status |-> 500,
                  position |-> 0, seen |-> {}, row |-> call[c].row,
                  number |-> call[c].number, disturbed |-> call[c].disturbed])]
    /\ call' = [c \in Client |-> Idle]
    /\ busy' = {}
    /\ UNCHANGED <<postgresVars, sent>>

\* The process is gone, and all it had.
Gone ==
    /\ phase' = "down" /\ http' = "none"
    /\ pool' = [n \in Node |-> "none"]
    /\ signalled' = FALSE /\ status' = 0
    /\ CutRequests
    /\ UNCHANGED starts

-----------------------------------------------------------------------------
(* Starting.                                                               *)

StartProcess ==
    /\ phase = "down" /\ starts < MaxStarts
    /\ starts' = starts + 1
    /\ phase' = "opening"
    /\ UNCHANGED <<http, pool, signalled, status, busy, boardVars>>

\* OpenPrimary, then OpenReplica: connected, and in the expected role.  Their
\* deadline is derived from ctx, so that a signal ends the attempt.
OpenPool(n) ==
    /\ phase = "opening" /\ ~signalled
    /\ pool[n] = "none" /\ \A k \in 0..(n - 1) : pool[k] = "open"
    /\ pool' = [pool EXCEPT ![n] = "open"]
    /\ UNCHANGED <<phase, http, signalled, status, starts, busy, boardVars>>

\* Faulty variant: the server listens before it has its replica.
ListenEarly ==
    /\ phase = "opening" /\ ~signalled
    /\ pool[0] = "open"
    /\ phase' = "serving" /\ http' = "open"
    /\ UNCHANGED <<pool, signalled, status, starts, busy, boardVars>>

\* ctx.Err, then net.Listen.
Listen ==
    /\ phase = "opening" /\ ~signalled
    /\ \A n \in Node : pool[n] = "open"
    /\ phase' = "serving" /\ http' = "open"
    /\ UNCHANGED <<pool, signalled, status, starts, busy, boardVars>>

\* A setting is missing, a node cannot be reached in time or has the wrong
\* role, a signal has arrived, the address is in use.
StartFails ==
    /\ phase = "opening"
    /\ phase' = "closing" /\ status' = 1
    /\ UNCHANGED <<http, pool, signalled, starts, busy, boardVars>>

-----------------------------------------------------------------------------
(* Serving and stopping.                                                   *)

\* Accept fails: server.Serve returns, the connections it has stay open.
AcceptFails ==
    /\ phase = "serving" /\ http = "open"
    /\ http' = "failed"
    /\ UNCHANGED <<phase, pool, signalled, status, starts, busy, boardVars>>

\* The select takes done: serve returns without a shutdown.
NoticeFailure ==
    /\ phase = "serving" /\ http = "failed"
    /\ phase' = "closing" /\ status' = 1
    /\ UNCHANGED <<http, pool, signalled, starts, busy, boardVars>>

\* The select takes ctx.Done: Shutdown begins.  An error of Serve is still in
\* done and is returned after it.
NoticeSignal ==
    /\ phase = "serving" /\ signalled
    /\ phase' = "draining" /\ http' = "shut"
    /\ status' = (IF http = "failed" THEN 1 ELSE 0)
    /\ UNCHANGED <<pool, signalled, starts, busy, boardVars>>

\* Faulty variant: Shutdown is not awaited.
DrainedAtOnce ==
    /\ phase = "draining"
    /\ phase' = "closing"
    /\ UNCHANGED <<http, pool, signalled, status, starts, busy, boardVars>>

\* Shutdown returns nil: no connection has a request.
Drained ==
    /\ phase = "draining" /\ AllIdle
    /\ phase' = "closing"
    /\ UNCHANGED <<http, pool, signalled, status, starts, busy, boardVars>>

\* Faulty variant: Shutdown waits for its requests as long as they take.
DrainExpiresNever == FALSE /\ Gone

\* Five seconds are over: server.Close.
DrainExpires ==
    /\ phase = "draining" /\ ~AllIdle
    /\ phase' = "closing" /\ status' = 1
    /\ CutRequests
    /\ UNCHANGED <<http, pool, signalled, starts>>

\* A statement holds its connection until it returns.
InUse(n) == \E c \in busy : call[c].node = n

\* pool.Close, the last opened first: from now on no connection is handed out,
\* and it blocks until those in use have come back.
ClosePool(n) ==
    /\ phase = "closing"
    /\ pool[n] = "open" /\ \A k \in (n + 1)..Replicas : pool[k] = "none"
    /\ pool' = [pool EXCEPT ![n] = IF InUse(n) THEN "closing" ELSE "none"]
    /\ UNCHANGED <<phase, http, signalled, status, starts, busy, boardVars>>

PoolClosed(n) ==
    /\ pool[n] = "closing" /\ ~InUse(n)
    /\ pool' = [pool EXCEPT ![n] = "none"]
    /\ UNCHANGED <<phase, http, signalled, status, starts, busy, boardVars>>

\* run has returned, and the process with it.
Exit ==
    /\ phase = "closing" /\ \A n \in Node : pool[n] = "none"
    /\ Gone

\* INT or TERM, caught as long as main runs: once the process is on its way
\* out nothing looks at ctx.
Signal ==
    /\ phase # "down" /\ ~signalled
    /\ signalled' = TRUE
    /\ UNCHANGED <<phase, http, pool, status, starts, busy, boardVars>>

\* SIGKILL, or the host fails.
Crash == phase # "down" /\ Gone

-----------------------------------------------------------------------------
(* Requests, as far as the process lets them.                              *)

\* A new connection is accepted only while the listener is open; one that is
\* there may bring a request until the server is shut, and one that has been
\* accepted without a request yet, during Shutdown.
Accepting == phase = "draining" \/ http \in {"open", "failed"}

\* The next statement of a request gets a connection of its pool and is sent.
SendStatement(c) ==
    /\ call[c] # Idle /\ c \notin busy
    /\ pool[call[c].node] = "open"
    /\ busy' = busy \cup {c}
    /\ UNCHANGED <<boardVars, processVars>>

\* The statement has returned and its connection goes back; an INSERT has not
\* returned before it is committed.
ReleaseConnection(c) ==
    busy' = IF call'[c].step = "commit" THEN busy ELSE busy \ {c}

\* A statement in progress returns, and its handler goes on.
Served(c) ==
    /\ c \in busy
    /\ Serve(c)
    /\ ReleaseConnection(c)
    /\ UNCHANGED processVars

\* Faulty variant: writes are taken for done.
PoolErrorStatusDone(step) == IF step \in {"insert", "position"} THEN 201 ELSE 500

\* What an error of the pool is answered with; a write is done without its
\* position.
PoolErrorStatus(step) == IF step = "position" THEN 201 ELSE 500

\* The pool of the next statement hands out no connection.
PoolGone(c) ==
    /\ call[c] # Idle /\ c \notin busy
    /\ pool[call[c].node] # "open"
    /\ Answer(c, call[c], PoolErrorStatus(call[c].step), 0, {})
    /\ UNCHANGED <<postgresVars, sent, processVars, busy>>

Handler(c) == Served(c) \/ PoolGone(c)

\* What the process does by itself.
Process ==
    \/ \E n \in Node : OpenPool(n) \/ ClosePool(n) \/ PoolClosed(n)
    \/ Listen \/ StartFails \/ NoticeFailure \/ NoticeSignal
    \/ Drained \/ DrainExpires \/ Exit

\* What happens to the board beside its handlers.
BesideHandlers ==
    \/ \E c \in Client : Accepting /\ Request(c)
    \/ Database
    \/ \E n \in Node \ {0} : ReplicaRestarts(n)

ServerNext ==
    \/ StartProcess \/ Process \/ AcceptFails \/ Signal \/ Crash
    \/ \E c \in Client :
        \/ SendStatement(c) \/ Handler(c)
        \/ CallFails(c) /\ ReleaseConnection(c) /\ UNCHANGED processVars
    \/ BesideHandlers /\ UNCHANGED <<processVars, busy>>

\* The process runs and its deadlines pass.  A handler takes as long as it
\* likes: nothing limits how slowly a client sends its body or a statement
\* answers.
ServerSpec ==
    /\ ServerInit
    /\ [][ServerNext]_allVars
    /\ WF_allVars(Process)

-----------------------------------------------------------------------------
ServerTypeOK ==
    /\ BoardTypeOK
    /\ phase \in {"down", "opening", "serving", "draining", "closing"}
    /\ http \in {"none", "open", "failed", "shut"}
    /\ pool \in [Node -> {"none", "open", "closing"}]
    /\ signalled \in BOOLEAN /\ status \in {0, 1} /\ starts \in 0..MaxStarts
    /\ http = "open" => \A n \in Node : pool[n] = "open"
    /\ phase = "down" => (\A n \in Node : pool[n] = "none") /\ AllIdle
    /\ busy \subseteq Client
    /\ \A c \in busy : call[c] # Idle /\ pool[call[c].node] # "none"
    /\ \A c \in Client : call[c].step = "commit" => c \in busy

\* A process that is going to report success takes no pool away under a
\* request: whoever is served at a graceful stop has its connections to the end.
PoolsOutliveRequests ==
    \A c \in Client : (call[c] # Idle /\ pool[call[c].node] # "open") => status = 1

\* The listener has failed and serve has returned without a shutdown, which
\* alone would cancel requests: a deferred Close waits for a statement.
HeldByStatement ==
    /\ phase = "closing" /\ http = "failed"
    /\ \E n \in Node : pool[n] = "closing" /\ InUse(n)

\* After a signal the process ends, however long its requests and statements
\* take, and whatever the signal meets: the startup, a drain, a failing
\* listener.  Only where the listener failed first, and not the signal ended
\* serve, may one statement that never returns keep it for ever.
StopsAfterSignal == signalled ~> (phase = "down" \/ []HeldByStatement)
=============================================================================
