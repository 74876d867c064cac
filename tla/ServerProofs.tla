---------------------------- MODULE ServerProofs ----------------------------
(***************************************************************************)
(* The server process for any number of clients, requests, replicas,       *)
(* starts and crashes: what the board promises its clients survives the    *)
(* death of the process, and a graceful stop takes no pool away from a     *)
(* request.                                                                *)
(*                                                                         *)
(* Three kinds of steps: the process moves and the board stands still; the *)
(* process ends and cuts its requests; the board moves and the process     *)
(* stands still.                                                           *)
(***************************************************************************)
EXTENDS Server, BoardApiProofs

\* The phases of run and serve, and what each has opened.  On the way out a
\* status of 0 stands for a shutdown that waited for the last request.
ProcessInv ==
    /\ phase \in {"down", "opening", "serving", "draining", "closing"}
    /\ http \in {"none", "open", "failed", "shut"}
    /\ pool \in [Node -> {"none", "open", "closing"}]
    /\ signalled \in BOOLEAN /\ status \in {0, 1} /\ starts \in 0..MaxStarts
    /\ phase = "down" =>
          /\ http = "none" /\ status = 0 /\ signalled = FALSE
          /\ (\A n \in Node : pool[n] = "none") /\ AllIdle
    /\ phase = "opening" =>
          http = "none" /\ status = 0 /\ (\A n \in Node : pool[n] # "closing") /\ AllIdle
    /\ phase = "serving" =>
          http \in {"open", "failed"} /\ status = 0 /\ \A n \in Node : pool[n] = "open"
    /\ phase = "draining" => http = "shut" /\ \A n \in Node : pool[n] = "open"
    /\ phase = "closing" => http # "open" /\ (status = 0 => http = "shut" /\ AllIdle)

\* Who has a connection has a statement to send or in progress, of a pool that
\* is still there, and an INSERT keeps its connection to its commit.
ConnectionInv ==
    /\ busy \subseteq Client
    /\ \A c \in busy : call[c] # Idle /\ pool[call[c].node] # "none"
    /\ \A c \in Client : call[c].step = "commit" => c \in busy

ServerInv == BoardInv /\ ProcessInv /\ ConnectionInv

-----------------------------------------------------------------------------
(* The board under the process.                                            *)

\* Requests are cut all at once; what each of them did stays done, and its
\* answer of 500 claims nothing.
LEMMA CutRequestsPreserves ==
  ASSUME BoardInv, CutRequests
  PROVE  BoardInv' /\ AllIdle'
  <1> DEFINE a(c) == AnswerOf(call[c], 500, 0, {})
  <1>1. /\ wal \in Seq(Entry) /\ sent \in Nat /\ Len(wal) \in Nat
        /\ call \in [Client -> Called] /\ history \in [Client -> Seq(Told)]
    BY DEF BoardInv, BoardTypes
  <1>2. /\ UNCHANGED <<wal, open, last, replayed, restarts, sent>>
        /\ call' = [c \in Client |-> Idle]
        /\ history' = [c \in Client |->
              IF call[c] = Idle THEN history[c] ELSE Append(history[c], a(c))]
    BY DEF CutRequests, postgresVars, AnswerOf
  <1>3. \A c \in Client : call'[c] = Idle
    BY <1>2
  <1>4. ASSUME NEW c \in Client
        PROVE  a(c) \in Told /\ AnswersCall(a(c), call[c])
               /\ a(c).status = 500 /\ a(c).position = 0
    <2>1. call[c] \in Called
      BY <1>1
    <2> DEFINE b == AnswerOf(call[c], 500, 0, {})
    <2>2. b \in Told /\ AnswersCall(b, call[c]) /\ b.status = 500 /\ b.position = 0
      BY <2>1, AnswerIsTold DEF Status
    <2>3. a(c) = b
      OBVIOUS
    <2> HIDE DEF a, b
    <2>4. QED
      BY <2>2, <2>3
  <1> HIDE DEF a
  <1>5. ASSUME NEW c \in Client
        PROVE  history'[c] \in Seq(Told) /\ GoodHistory(wal, open, sent, history'[c])
    <2>1. GoodHistory(wal, open, sent, history[c]) /\ history[c] \in Seq(Told)
      BY <1>1 DEF BoardInv
    <2>2. CASE call[c] = Idle
      BY <1>2, <2>1, <2>2
    <2>3. CASE call[c] # Idle
      <3>1. history'[c] = Append(history[c], a(c))
        BY <1>2, <2>3
      <3>2. call[c].number \in 1..sent
        BY <2>3 DEF BoardInv, GoodCall
      <3>3. TrueAnswer(wal, open, sent, a(c))
        BY <1>1, <1>4, <3>2 DEF TrueAnswer, AnswersCall
      <3>4. ShowsAll(history[c], a(c))
        BY <1>4 DEF Shows, ShowsAll
      <3>5. GoodHistory(wal, open, sent, Append(history[c], a(c)))
        BY <1>1, <1>4, <2>1, <3>3, <3>4, HistoryGrows
      <3>6. Append(history[c], a(c)) \in Seq(Told)
        BY <1>4, <2>1
      <3>7. QED
        BY <3>1, <3>5, <3>6
    <2>4. QED
      BY <2>2, <2>3
  <1>6. BoardTypes'
    <2>1. Idle \in Called /\ Idle.required = 0
      BY IdleFacts DEF Idle
    <2>2. call' \in [Client -> Called] /\ \A c \in Client : call'[c].required <= Len(wal)
      BY <1>1, <1>2, <1>3, <2>1
    <2>3. history' \in [Client -> Seq(Told)]
      BY <1>2, <1>5
    <2>4. QED
      BY <1>2, <2>2, <2>3 DEF BoardInv, BoardTypes
  <1>7. \A c \in Client : GoodCall(wal, open, sent, replayed, history'[c], call'[c])
    BY <1>3, IdleFacts DEF GoodCall, GoodWrite, GoodRead, Reading
  <1>8. OneNumberEach(call', history')
    BY <1>3, IdleFacts DEF OneNumberEach
  <1>9. AllIdle'
    BY <1>3 DEF AllIdle
  <1>10. QED
    BY <1>2, <1>5, <1>6, <1>7, <1>8, <1>9 DEF BoardInv

\* No connection is handed out: the answer is that of an error, and a write
\* that is done is confirmed without its position.
LEMMA PoolGonePreserves ==
  ASSUME BoardInv, NEW c \in Client, PoolGone(c)
  PROVE  BoardInv'
  <1>1. UNCHANGED <<wal, open, last, replayed, restarts, sent>>
    BY DEF PoolGone, postgresVars
  <1>2. call[c].step # "idle"
    BY DEF PoolGone, BoardInv, GoodCall
  <1>3. call[c] \in Called /\ last' \in [Table -> Nat]
    BY <1>1 DEF BoardInv, BoardTypes
  <1>4. CASE call[c].step = "position"
    <2> DEFINE a == AnswerOf(call[c], 201, 0, {})
    <2>1. Replies(c, a)
      BY <1>4 DEF PoolGone, PoolErrorStatus, Answer, AnswerOf, Replies
    <2>2. a \in Told /\ AnswersCall(a, call[c]) /\ a.position = 0 /\ a.status = 201
      BY <1>3, AnswerIsTold DEF Status
    <2> HIDE DEF a
    <2>3. /\ call[c].op \in Write /\ call[c].op # ViewThread
          /\ call[c].row # {} /\ \A row \in call[c].row : row.table = TableOf(call[c].op)
          /\ call[c].row \subseteq Committed(wal, Len(wal))
      BY <1>4, ConfirmedRow
    <2>4. /\ a.op \in Write /\ a.op # ViewThread /\ a.row # {}
          /\ a.row \subseteq Committed(wal, Len(wal))
          /\ \A row \in a.row : row.table = TableOf(a.op)
      BY <2>2, <2>3 DEF AnswersCall
    <2>5. QED
      BY <1>1, <1>2, <1>3, <2>1, <2>2, <2>4, PlainAnswer
  <1>5. CASE call[c].step # "position"
    <2> DEFINE a == AnswerOf(call[c], 500, 0, {})
    <2>1. Replies(c, a)
      BY <1>5 DEF PoolGone, PoolErrorStatus, Answer, AnswerOf, Replies
    <2>2. a \in Told /\ AnswersCall(a, call[c]) /\ a.position = 0 /\ a.status = 500
      BY <1>3, AnswerIsTold DEF Status
    <2> HIDE DEF a
    <2>3. ShowsAll(history[c], a)
      BY <2>2 DEF Shows, ShowsAll
    <2>4. QED
      BY <1>1, <1>2, <1>3, <2>1, <2>2, <2>3, PlainAnswer
  <1>6. QED
    BY <1>4, <1>5

\* A request in progress is not idle, and an idle one is not in progress.
LEMMA IdleDoesNothing ==
  ASSUME NEW c \in Client, call[c] = Idle
  PROVE  ~Serve(c) /\ ~CallFails(c) /\ ~PoolGone(c)
  <1>1. call[c].step = "idle"
    BY DEF Idle
  <1>2. ~CallFails(c) /\ ~PoolGone(c)
    BY DEF CallFails, PoolGone
  <1>3. ~Insert(c) /\ ~InsertReturns(c) /\ ~LookUpPosition(c) /\ ~InsertAborted(c)
    BY <1>1 DEF Insert, InsertReturns, LookUpPosition, InsertAborted
  <1>4. ~CheckReplica(c) /\ ~FetchThread(c) /\ ~FetchPosts(c)
    BY <1>1 DEF CheckReplica, FetchThread, FetchPosts
  <1>5. QED
    BY <1>2, <1>3, <1>4 DEF Serve

-----------------------------------------------------------------------------
(* The process.                                                            *)

\* The process moves and the board stands still.
ProcessMoves ==
    \/ StartProcess \/ AcceptFails \/ Signal
    \/ \E c \in Client : SendStatement(c)
    \/ \E n \in Node : OpenPool(n) \/ ClosePool(n) \/ PoolClosed(n)
    \/ Listen \/ StartFails \/ NoticeFailure \/ NoticeSignal \/ Drained

LEMMA SameCalls ==
  ASSUME UNCHANGED boardVars
  PROVE  AllIdle' <=> AllIdle
  BY DEF boardVars, AllIdle

LEMMA ProcessMovesPreserves ==
  ASSUME ProcessInv, ProcessMoves
  PROVE  ProcessInv' /\ UNCHANGED boardVars
  <1> USE DEF ProcessInv
  <1>1. CASE StartProcess
    <2>1. starts' \in 0..MaxStarts
      BY <1>1, ServerAssumption DEF StartProcess
    <2>2. QED
      BY <1>1, <2>1, SameCalls DEF StartProcess
  <1>2. CASE AcceptFails
    BY <1>2, SameCalls DEF AcceptFails
  <1>3. CASE Signal
    BY <1>3, SameCalls DEF Signal
  <1>4. ASSUME NEW n \in Node, OpenPool(n) PROVE ProcessInv' /\ UNCHANGED boardVars
    BY <1>4, SameCalls DEF OpenPool
  <1>5. ASSUME NEW n \in Node, ClosePool(n) PROVE ProcessInv' /\ UNCHANGED boardVars
    BY <1>5, SameCalls DEF ClosePool
  <1>6. ASSUME NEW n \in Node, PoolClosed(n) PROVE ProcessInv' /\ UNCHANGED boardVars
    BY <1>6, SameCalls DEF PoolClosed
  <1>7. CASE Listen
    BY <1>7, SameCalls DEF Listen
  <1>8. CASE StartFails
    BY <1>8, SameCalls DEF StartFails
  <1>9. CASE NoticeFailure
    BY <1>9, SameCalls DEF NoticeFailure
  <1>10. CASE NoticeSignal
    BY <1>10, SameCalls DEF NoticeSignal
  <1>11. CASE Drained
    BY <1>11, SameCalls DEF Drained
  <1>12. ASSUME NEW c \in Client, SendStatement(c) PROVE ProcessInv' /\ UNCHANGED boardVars
    BY <1>12, SameCalls DEF SendStatement, processVars
  <1>13. QED
    BY <1>1, <1>2, <1>3, <1>4, <1>5, <1>6, <1>7, <1>8, <1>9, <1>10, <1>11, <1>12 DEF ProcessMoves

LEMMA ProcessMovesKeepConnections ==
  ASSUME ServerInv, ProcessMoves
  PROVE  ConnectionInv'
  <1>1. /\ pool \in [Node -> {"none", "open", "closing"}] /\ busy \subseteq Client
        /\ \A c \in busy : call[c] # Idle /\ pool[call[c].node] # "none"
        /\ \A c \in Client : call[c].step = "commit" => c \in busy
        /\ \A c \in Client : call[c].node \in Node
    BY DEF ServerInv, ProcessInv, ConnectionInv, BoardInv, BoardTypes, Called
  <1>2. call' = call
    BY ProcessMovesPreserves DEF ServerInv, boardVars
  <1>3. ASSUME busy' = busy, \A c \in busy : pool'[call[c].node] # "none" PROVE ConnectionInv'
    BY <1>1, <1>2, <1>3 DEF ConnectionInv
  <1>4. ASSUME UNCHANGED <<pool, busy>> PROVE ConnectionInv'
    BY <1>1, <1>3, <1>4
  <1>5. ASSUME NEW c \in Client, SendStatement(c) PROVE ConnectionInv'
    BY <1>1, <1>2, <1>5 DEF SendStatement, processVars, ConnectionInv
  <1>6. ASSUME NEW n \in Node, OpenPool(n) PROVE ConnectionInv'
    BY <1>1, <1>3, <1>6 DEF OpenPool
  <1>7. ASSUME NEW n \in Node, ClosePool(n) PROVE ConnectionInv'
    <2>1. ASSUME NEW c \in busy PROVE pool'[call[c].node] # "none"
      BY <1>1, <1>7, <2>1 DEF ClosePool, InUse
    <2>2. QED
      BY <1>3, <1>7, <2>1 DEF ClosePool
  <1>8. ASSUME NEW n \in Node, PoolClosed(n) PROVE ConnectionInv'
    <2>1. ASSUME NEW c \in busy PROVE pool'[call[c].node] # "none"
      BY <1>1, <1>8, <2>1 DEF PoolClosed, InUse
    <2>2. QED
      BY <1>3, <1>8, <2>1 DEF PoolClosed
  <1>9. CASE StartProcess \/ AcceptFails \/ Signal \/ Listen \/ StartFails \/ NoticeFailure
             \/ NoticeSignal \/ Drained
    BY <1>4, <1>9 DEF StartProcess, AcceptFails, Signal, Listen, StartFails, NoticeFailure,
                      NoticeSignal, Drained
  <1>10. QED
    BY <1>5, <1>6, <1>7, <1>8, <1>9 DEF ProcessMoves

\* The process cuts its requests: the drain expires, it exits, or it is killed.
ProcessCuts == DrainExpires \/ Exit \/ Crash

LEMMA ProcessCutsPreserves ==
  ASSUME ServerInv, ProcessCuts
  PROVE  ServerInv'
  <1>1. BoardInv' /\ AllIdle'
    BY CutRequestsPreserves DEF ServerInv, ProcessCuts, DrainExpires, Exit, Crash, Gone
  <1>2. ASSUME Gone PROVE ProcessInv'
    BY <1>1, <1>2 DEF ServerInv, ProcessInv, Gone
  <1>3. ASSUME DrainExpires PROVE ProcessInv'
    BY <1>1, <1>3 DEF ServerInv, ProcessInv, DrainExpires
  <1>4. ConnectionInv'
    <2>1. busy' = {} /\ \A c \in Client : call'[c].step = "idle"
      BY IdleFacts DEF ProcessCuts, DrainExpires, Exit, Crash, Gone, CutRequests
    <2>2. QED
      BY <2>1 DEF ConnectionInv
  <1>5. QED
    BY <1>1, <1>2, <1>3, <1>4 DEF ServerInv, ProcessCuts, Exit, Crash

\* The board moves and the process stands still: nothing begins where nothing
\* is accepted.
LEMMA ProcessStands ==
  ASSUME ProcessInv, UNCHANGED processVars, Accepting \/ (AllIdle => AllIdle')
  PROVE  ProcessInv'
  <1>1. UNCHANGED <<phase, http, pool, signalled, status, starts>>
    BY DEF processVars
  <1>2. AllIdle => (AllIdle' \/ phase \in {"serving", "draining"} \/ status = 1)
    BY DEF ProcessInv, Accepting
  <1>3. QED
    BY <1>1, <1>2 DEF ProcessInv

\* A step of the board, as far as the process lets it.
BoardMoves ==
    \/ \E c \in Client :
        \/ Handler(c)
        \/ CallFails(c) /\ ReleaseConnection(c) /\ UNCHANGED processVars
    \/ BesideHandlers /\ UNCHANGED <<processVars, busy>>

\* A statement that has not returned is an INSERT, and where it was.
LEMMA CommitFollowsInsert ==
  ASSUME BoardInv, NEW c \in Client, Serve(c), call'[c].step = "commit"
  PROVE  call'[c].node = call[c].node
  <1>1. DOMAIN call = Client /\ Idle.step = "idle"
        /\ call[c] = [step |-> call[c].step, op |-> call[c].op, author |-> call[c].author,
              thread |-> call[c].thread, required |-> call[c].required,
              number |-> call[c].number, row |-> call[c].row, node |-> call[c].node,
              disturbed |-> call[c].disturbed]
    BY IdleFacts DEF BoardInv, BoardTypes, Called
  <1>2. ASSUME NEW request, Continue(c, request) PROVE call'[c] = request
    BY <1>1, <1>2 DEF Continue
  <1>3. ASSUME NEW request, NEW answer, NEW position, NEW seen,
               Answer(c, request, answer, position, seen)
        PROVE  FALSE
    BY <1>1, <1>3 DEF Answer
  <1>4. CASE Insert(c)
    BY <1>1, <1>2, <1>3, <1>4 DEF Insert
  <1>5. CASE InsertReturns(c) \/ LookUpPosition(c) \/ InsertAborted(c) \/ FetchThread(c)
             \/ FetchPosts(c)
    BY <1>1, <1>2, <1>3, <1>5 DEF InsertReturns, LookUpPosition, InsertAborted, FetchThread,
                                  FetchPosts
  <1>6. CASE CheckReplica(c)
    BY <1>1, <1>2, <1>6 DEF CheckReplica, NextCandidate
  <1>7. QED
    BY <1>4, <1>5, <1>6 DEF Serve

LEMMA RequestBegins ==
  ASSUME BoardInv, NEW c \in Client, Request(c)
  PROVE  call[c] = Idle /\ call'[c].step # "commit"
  <1>1. DOMAIN call = Client /\ Idle.step = "idle"
    BY IdleFacts DEF BoardInv, BoardTypes
  <1>2. ASSUME NEW op, NEW author, NEW thread, NEW required,
               Receive(c, op, author, thread, required)
        PROVE  call[c] = Idle /\ call'[c].step # "commit"
    <2>1. ReadPool(Policy(required)).step \in {"thread", "check"}
      BY DEF ReadPool
    <2>2. QED
      BY <1>1, <1>2, <2>1 DEF Receive, Continue
  <1>3. BadRequest(c) => call[c] = Idle /\ call'[c].step # "commit"
    BY <1>1 DEF BadRequest, Answer
  <1>4. QED
    BY <1>2, <1>3 DEF Request, CreateUser, CreateThread, CreatePost, GetThread

LEMMA BoardMovesKeepConnections ==
  ASSUME ServerInv, BoardMoves
  PROVE  ConnectionInv'
  <1>1. /\ BoardInv /\ DOMAIN call = Client /\ busy \subseteq Client
        /\ \A c \in busy : call[c] # Idle /\ pool[call[c].node] # "none"
        /\ \A c \in Client : call[c].step = "commit" => c \in busy
        /\ \A c \in Client : call[c].step = "idle" => call[c] = Idle
        /\ Idle.step = "idle"
    BY IdleFacts DEF ServerInv, ConnectionInv, BoardInv, BoardTypes, GoodCall
  <1>2. pool' = pool
    BY DEF BoardMoves, Handler, Served, PoolGone, processVars
  <1>3. ASSUME NEW c \in Client, Served(c) PROVE ConnectionInv'
    <2>1. Serve(c) /\ c \in busy /\ ReleaseConnection(c)
      BY <1>3 DEF Served
    <2>2. \A d \in Client \ {c} : call'[d] = call[d]
      BY <1>1, <2>1, OthersStay
    <2>3. CASE call'[c].step = "commit"
      <3>1. call'[c].node = call[c].node /\ call'[c] # Idle /\ busy' = busy
        BY <1>1, <2>1, <2>3, CommitFollowsInsert DEF ReleaseConnection
      <3>2. QED
        BY <1>1, <1>2, <2>1, <2>2, <3>1 DEF ConnectionInv
    <2>4. CASE call'[c].step # "commit"
      <3>1. busy' = busy \ {c}
        BY <2>1, <2>4 DEF ReleaseConnection
      <3>2. QED
        BY <1>1, <1>2, <2>2, <2>4, <3>1 DEF ConnectionInv
    <2>5. QED
      BY <2>3, <2>4
  <1>4. ASSUME NEW c \in Client, call'[c] = Idle, busy' = busy \ {c},
               \A d \in Client \ {c} : call'[d] = call[d]
        PROVE  ConnectionInv'
    BY <1>1, <1>2, <1>4 DEF ConnectionInv
  <1>5. ASSUME NEW c \in Client, CallFails(c) /\ ReleaseConnection(c) PROVE ConnectionInv'
    <2>1. call'[c] = Idle
      BY <1>1, <1>5 DEF CallFails, Answer
    <2>2. busy' = busy \ {c}
      BY <1>1, <1>5, <2>1 DEF ReleaseConnection
    <2>3. QED
      BY <1>1, <1>4, <1>5, <2>1, <2>2, OthersStay
  <1>6. ASSUME NEW c \in Client, PoolGone(c) PROVE ConnectionInv'
    <2>1. call'[c] = Idle /\ busy' = busy \ {c} /\ \A d \in Client \ {c} : call'[d] = call[d]
      BY <1>1, <1>6 DEF PoolGone, Answer
    <2>2. QED
      BY <1>4, <2>1
  <1>7. ASSUME BesideHandlers, busy' = busy PROVE ConnectionInv'
    <2>1. ASSUME NEW c \in Client, Request(c) PROVE ConnectionInv'
      <3>1. call[c] = Idle /\ call'[c].step # "commit"
        BY <1>1, <2>1, RequestBegins
      <3>2. \A d \in Client \ {c} : call'[d] = call[d]
        BY <1>1, <2>1, OthersStay
      <3>3. QED
        BY <1>1, <1>2, <1>7, <3>1, <3>2 DEF ConnectionInv
    <2>2. CASE Database
      BY <1>1, <1>2, <1>7, <2>2 DEF Database, ConnectionInv
    <2>3. ASSUME NEW n \in Node \ {0}, ReplicaRestarts(n) PROVE ConnectionInv'
      <3>1. ASSUME NEW c \in Client
            PROVE  call'[c].step = call[c].step /\ call'[c].node = call[c].node
                   /\ (call'[c] = Idle => call[c] = Idle)
        <4>1. call[c] = [step |-> call[c].step, op |-> call[c].op, author |-> call[c].author,
                  thread |-> call[c].thread, required |-> call[c].required,
                  number |-> call[c].number, row |-> call[c].row, node |-> call[c].node,
                  disturbed |-> call[c].disturbed]
          BY <1>1 DEF BoardInv, BoardTypes, Called
        <4>2. call'[c] = call[c] \/ call'[c] = [call[c] EXCEPT !.disturbed = TRUE]
          BY <2>3 DEF ReplicaRestarts
        <4>3. call'[c].step = call[c].step /\ call'[c].node = call[c].node
          BY <4>1, <4>2
        <4>4. QED
          BY <1>1, <4>3
      <3>2. QED
        BY <1>1, <1>2, <1>7, <3>1 DEF ConnectionInv
    <2>4. QED
      BY <1>7, <2>1, <2>2, <2>3 DEF BesideHandlers
  <1>8. QED
    BY <1>3, <1>5, <1>6, <1>7 DEF BoardMoves, Handler

LEMMA BoardMovesPreserves ==
  ASSUME ServerInv, BoardMoves
  PROVE  ServerInv'
  <1>1. BoardInv'
    <2>1. ASSUME NEW c \in Client, PoolGone(c) PROVE BoardInv'
      BY <2>1, PoolGonePreserves DEF ServerInv
    <2>2. ASSUME BoardNext PROVE BoardInv'
      BY <2>2, BoardStep DEF ServerInv
    <2>3. ASSUME NEW c \in Client, Served(c) \/ CallFails(c) PROVE BoardNext
      BY <2>3 DEF BoardNext, Served
    <2>4. BesideHandlers => BoardNext
      BY DEF BoardNext, BesideHandlers
    <2>5. QED
      BY <2>1, <2>2, <2>3, <2>4 DEF BoardMoves, Handler
  <1>2. Accepting \/ (AllIdle => AllIdle')
    <2>1. SUFFICES ASSUME AllIdle, ~Accepting PROVE AllIdle'
      OBVIOUS
    <2>2. ASSUME NEW c \in Client PROVE ~CallFails(c) /\ ~Handler(c)
      BY <2>1, IdleDoesNothing DEF AllIdle, Served, Handler
    <2>3. CASE Database
      BY <2>1, <2>3 DEF Database, AllIdle
    <2>4. ASSUME NEW n \in Node \ {0}, ReplicaRestarts(n) PROVE AllIdle'
      <3>1. ASSUME NEW c \in Client PROVE call'[c] = Idle
        <4>1. call[c] = Idle /\ Idle.step = "idle"
          BY <2>1, IdleFacts DEF AllIdle
        <4>2. QED
          BY <2>4, <4>1 DEF ReplicaRestarts
      <3>2. QED
        BY <3>1 DEF AllIdle
    <2>5. QED
      BY <2>1, <2>2, <2>3, <2>4 DEF BoardMoves, BesideHandlers
  <1>3. ProcessInv'
    <2>1. UNCHANGED processVars
      BY DEF BoardMoves, Handler, Served, PoolGone, processVars
    <2>2. QED
      BY <1>2, <2>1, ProcessStands DEF ServerInv
  <1>4. QED
    BY <1>1, <1>3, BoardMovesKeepConnections DEF ServerInv

LEMMA ServerInitially ==
  ASSUME ServerInit
  PROVE  ServerInv
  <1>1. BoardInv
    BY BoardInitially DEF ServerInit
  <1>2. AllIdle
    BY DEF ServerInit, BoardInit, AllIdle
  <1>3. /\ phase = "down" /\ http = "none" /\ status = 0 /\ starts = 0 /\ signalled = FALSE
        /\ pool \in [Node -> {"none", "open", "closing"}] /\ \A n \in Node : pool[n] = "none"
    BY DEF ServerInit
  <1>4. starts \in 0..MaxStarts
    BY <1>3, ServerAssumption
  <1>5. ProcessInv
    BY <1>2, <1>3, <1>4 DEF ProcessInv
  <1>6. ConnectionInv
    <2>1. busy = {} /\ \A c \in Client : call[c].step = "idle"
      BY IdleFacts DEF ServerInit, BoardInit
    <2>2. QED
      BY <2>1 DEF ConnectionInv
  <1>7. QED
    BY <1>1, <1>5, <1>6 DEF ServerInv

LEMMA NextIsOneOfThree ==
  ASSUME ServerNext
  PROVE  ProcessMoves \/ ProcessCuts \/ BoardMoves
  <1>1. Process => ProcessMoves \/ ProcessCuts
    BY DEF Process, ProcessMoves, ProcessCuts
  <1>2. QED
    BY <1>1 DEF ServerNext, ProcessMoves, ProcessCuts, BoardMoves

LEMMA ServerStep ==
  ASSUME ServerInv, [ServerNext]_allVars
  PROVE  ServerInv'
  <1>1. ASSUME UNCHANGED boardVars, ProcessInv', ConnectionInv' PROVE ServerInv'
    BY <1>1, BoardStep DEF ServerInv
  <1>2. CASE ProcessMoves
    BY <1>1, <1>2, ProcessMovesPreserves, ProcessMovesKeepConnections DEF ServerInv
  <1>3. CASE ProcessCuts
    BY <1>3, ProcessCutsPreserves
  <1>4. CASE BoardMoves
    BY <1>4, BoardMovesPreserves
  <1>5. CASE UNCHANGED allVars
    <2>1. UNCHANGED boardVars /\ UNCHANGED processVars /\ UNCHANGED <<call, pool, busy>>
      BY <1>5 DEF allVars, boardVars, processVars
    <2>2. ProcessInv'
      BY <2>1, SameCalls, ProcessStands DEF ServerInv
    <2>3. ConnectionInv'
      BY <2>1 DEF ServerInv, ConnectionInv
    <2>4. QED
      BY <1>1, <2>1, <2>2, <2>3
  <1>6. QED
    BY <1>2, <1>3, <1>4, <1>5, NextIsOneOfThree

LEMMA ServerInvariant == ServerSpec => []ServerInv
  <1>1. ServerInit => ServerInv
    BY ServerInitially
  <1>2. ServerInv /\ [ServerNext]_allVars => ServerInv'
    BY ServerStep
  <1>3. QED
    BY <1>1, <1>2, PTL DEF ServerSpec

-----------------------------------------------------------------------------
\* The phases of run and serve have their types; the server listens only with
\* all its pools open, no pool is gone under a statement in progress, and a
\* process that is gone leaves nothing behind.
THEOREM ServerTypesHold == ServerSpec => []ServerTypeOK
  <1>1. ServerInv => ServerTypeOK
    BY InvTypes DEF ServerInv, ProcessInv, ConnectionInv, ServerTypeOK
  <1>2. QED
    BY <1>1, ServerInvariant, PTL

\* The defers of run close the pools after serve has returned: a process that
\* reports success has had no request without its pool.
THEOREM ServerKeepsPools == ServerSpec => []PoolsOutliveRequests
  <1>1. ServerInv => PoolsOutliveRequests
    <2> SUFFICES ASSUME ServerInv, NEW c \in Client, call[c] # Idle, pool[call[c].node] # "open"
                 PROVE  status = 1
      BY DEF PoolsOutliveRequests
    <2>1. call[c].node \in Node
      BY DEF ServerInv, BoardInv, BoardTypes, Called
    <2>2. ~AllIdle
      BY DEF AllIdle
    <2>3. QED
      BY <2>1, <2>2 DEF ServerInv, ProcessInv
  <1>2. QED
    BY <1>1, ServerInvariant, PTL

\* However the process is killed, drained or started again in the middle of
\* requests, an answer tells what became of the write.
THEOREM ServerTellsTheTruth == ServerSpec => []AnswersTellTheTruth
  BY ServerInvariant, InvTellsTheTruth, PTL DEF ServerInv

\* Clients see their writes across restarts of the server.
THEOREM ServerReadsYourWrites == ServerSpec => []ReadYourWrites
  BY ServerInvariant, InvReadsYourWrites, PTL DEF ServerInv

\* The answer to a read is one moment of the log, and a position covers what
\* it confirms, across restarts of the server.
THEOREM ServerViewsOneMoment == ServerSpec => [](ViewIsOneMoment /\ PositionCoversWrites)
  BY ServerInvariant, InvViewsOneMoment, InvPositionsCover, PTL DEF ServerInv
-----------------------------------------------------------------------------
(* Towards the end of a request, and of the process.                       *)

LEMMA CutsEndCalls ==
  ASSUME ServerInv, CutRequests, NEW c \in Client
  PROVE  StatementsLeft(call'[c]) <= StatementsLeft(call[c])
  <1>1. call'[c] = Idle /\ Idle.step = "idle"
    BY IdleFacts DEF CutRequests
  <1>2. StatementsLeft(call'[c]) = 0
    BY <1>1 DEF StatementsLeft
  <1>3. StatementsLeft(call[c]) \in 0..(Replicas + 3) /\ Replicas \in Nat
    BY StatementsAreCounted, PostgresAssumption DEF ServerInv
  <1>4. QED
    BY <1>2, <1>3

LEMMA PoolGoneComesCloser ==
  ASSUME ServerInv, NEW c \in Client, PoolGone(c)
  PROVE  StatementsLeft(call'[c]) < StatementsLeft(call[c])
  <1>1. call[c].step # "idle"
    BY DEF PoolGone, ServerInv, BoardInv, GoodCall
  <1>2. QED
    BY <1>1, AnswerIsLast DEF PoolGone, ServerInv

LEMMA ServerStatementsOnlyFall ==
  ASSUME ServerInv, ServerNext, NEW c \in Client
  PROVE  /\ Handler(c) \/ CallFails(c) => StatementsLeft(call'[c]) < StatementsLeft(call[c])
         /\ call[c] # Idle => StatementsLeft(call'[c]) <= StatementsLeft(call[c])
  <1>1. Handler(c) \/ CallFails(c) => StatementsLeft(call'[c]) < StatementsLeft(call[c])
    BY PoolGoneComesCloser, ServeComesCloser DEF ServerInv, Handler, Served, CallFails
  <1>2. StatementsLeft(call[c]) \in Int
    <2>1. StatementsLeft(call[c]) \in 0..(Replicas + 3) /\ Replicas \in Nat
      BY StatementsAreCounted, PostgresAssumption DEF ServerInv
    <2>2. QED
      BY <2>1
  <1>3. ASSUME UNCHANGED boardVars PROVE StatementsLeft(call'[c]) <= StatementsLeft(call[c])
    BY <1>2, <1>3 DEF boardVars
  <1>4. ASSUME BoardNext, call[c] # Idle
        PROVE  StatementsLeft(call'[c]) <= StatementsLeft(call[c])
    BY <1>4, StatementsOnlyFall DEF ServerInv
  <1>5. ASSUME NEW d \in Client, PoolGone(d)
        PROVE  StatementsLeft(call'[c]) <= StatementsLeft(call[c])
    <2>1. CASE d = c
      <3>1. call'[c] = Idle /\ Idle.step = "idle"
        BY <1>5, <2>1, IdleFacts DEF PoolGone, Answer, ServerInv, BoardInv, BoardTypes
      <3>2. StatementsLeft(call'[c]) = 0
        BY <3>1 DEF StatementsLeft
      <3>3. QED
        BY <1>2, <1>5, <2>1, <3>2, PoolGoneComesCloser
    <2>2. CASE d # c
      <3>1. call'[c] = call[c]
        BY <1>5, <2>2 DEF PoolGone, Answer, ServerInv, BoardInv, BoardTypes
      <3>2. QED
        BY <1>2, <3>1
    <2>3. QED
      BY <2>1, <2>2
  <1>6. ProcessMoves => UNCHANGED boardVars
    BY ProcessMovesPreserves DEF ServerInv
  <1>7. ProcessCuts => CutRequests
    BY DEF ProcessCuts, DrainExpires, Exit, Crash, Gone
  <1>8. BoardMoves => BoardNext \/ \E d \in Client : PoolGone(d)
    BY DEF BoardMoves, BesideHandlers, BoardNext, Handler, Served
  <1>9. ProcessMoves \/ ProcessCuts \/ BoardMoves
    BY NextIsOneOfThree
  <1>10. QED
    BY <1>1, <1>3, <1>4, <1>5, <1>6, <1>7, <1>8, <1>9, CutsEndCalls

\* Around the board the process takes pools away, drains and dies: none of it
\* makes a request take longer than without it (serve in main.go).
THEOREM ServerNeverGoesBack ==
  ServerSpec =>
      /\ []BoundedRequests
      /\ [][\A c \in Client :
              /\ Handler(c) \/ CallFails(c) => StatementsLeft(call'[c]) < StatementsLeft(call[c])
              /\ call[c] # Idle => StatementsLeft(call'[c]) <= StatementsLeft(call[c])]_allVars
  <1> DEFINE Falls == \A c \in Client :
        /\ Handler(c) \/ CallFails(c) => StatementsLeft(call'[c]) < StatementsLeft(call[c])
        /\ call[c] # Idle => StatementsLeft(call'[c]) <= StatementsLeft(call[c])
  <1>1. ServerInv => BoundedRequests
    BY StatementsAreCounted DEF BoundedRequests, ServerInv
  <1>2. ServerInv /\ [ServerNext]_allVars => [Falls]_allVars
    BY ServerStatementsOnlyFall
  <1>3. QED
    BY <1>1, <1>2, ServerInvariant, PTL DEF ServerSpec

\* How far from the end the process is.
PhasesLeft ==
    CASE phase = "opening" -> 4 [] phase = "serving" -> 3 [] phase = "draining" -> 2
      [] phase = "closing" -> 1 [] phase = "down" -> 0

\* The process has been told to stop, or has begun to.
Stopping == signalled \/ phase \in {"draining", "closing"}

\* It goes on to its end and forgets neither that it stops nor that it has
\* failed; no pool and no listener is opened on the way.
StopIsFinal ==
    [][Stopping =>
        /\ PhasesLeft' <= PhasesLeft
        /\ Stopping' \/ phase' = "down"
        /\ phase' # "down" => status' >= status
        /\ http' = "open" => http = "open"
        /\ \A n \in Node : pool'[n] = "open" => pool[n] = "open"]_allVars

\* The safety half of StopsAfterSignal: whatever meets the signal, the startup,
\* a failing listener, the drain or a request, run is not led back to serving.
THEOREM ServerStopIsFinal == ServerSpec => StopIsFinal
  <1> DEFINE Final == Stopping =>
        /\ PhasesLeft' <= PhasesLeft
        /\ Stopping' \/ phase' = "down"
        /\ phase' # "down" => status' >= status
        /\ http' = "open" => http = "open"
        /\ \A n \in Node : pool'[n] = "open" => pool[n] = "open"
  <1>1. ServerInv /\ [ServerNext]_allVars => [Final]_allVars
    <2> SUFFICES ASSUME ServerInv, ServerNext, Stopping PROVE Final
      OBVIOUS
    <2>1. /\ phase \in {"down", "opening", "serving", "draining", "closing"}
          /\ pool \in [Node -> {"none", "open", "closing"}] /\ status \in {0, 1}
          /\ phase = "serving" => status = 0
      BY DEF ServerInv, ProcessInv
    <2>2. CASE UNCHANGED processVars
      BY <2>1, <2>2 DEF processVars, Stopping, PhasesLeft
    <2>3. CASE Gone
      BY <2>1, <2>3 DEF Gone, PhasesLeft
    <2>4. CASE StartProcess
      BY <2>4 DEF StartProcess, Stopping, ServerInv, ProcessInv
    <2>5. CASE AcceptFails \/ Signal
      BY <2>1, <2>5 DEF AcceptFails, Signal, Stopping, PhasesLeft
    <2>6. ASSUME NEW n \in Node, OpenPool(n) PROVE Final
      BY <2>1, <2>6 DEF OpenPool, Stopping, PhasesLeft
    <2>7. ASSUME NEW n \in Node, ClosePool(n) \/ PoolClosed(n) PROVE Final
      BY <2>1, <2>7 DEF ClosePool, PoolClosed, Stopping, PhasesLeft
    <2>8. CASE Listen \/ StartFails \/ NoticeFailure
      BY <2>1, <2>8 DEF Listen, StartFails, NoticeFailure, Stopping, PhasesLeft
    <2>9. CASE NoticeSignal \/ Drained \/ DrainExpires
      BY <2>1, <2>9 DEF NoticeSignal, Drained, DrainExpires, Stopping, PhasesLeft
    <2>10. CASE BoardMoves
      BY <2>2, <2>10 DEF BoardMoves, Handler, Served, PoolGone, processVars
    <2>11. ASSUME NEW c \in Client, SendStatement(c) PROVE Final
      BY <2>2, <2>11 DEF SendStatement
    <2>12. QED
      BY <2>3, <2>4, <2>5, <2>6, <2>7, <2>8, <2>9, <2>10, <2>11, NextIsOneOfThree
         DEF ProcessMoves, ProcessCuts, Exit, Crash
  <1>2. QED
    BY <1>1, ServerInvariant, PTL DEF ServerSpec, StopIsFinal
=============================================================================
