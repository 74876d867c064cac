----------------------------- MODULE Simulator -----------------------------
(***************************************************************************)
(* The simulated bulletin board: fake/simulator (application.go,           *)
(* database.go, session.go, sim.go) with the routers and partitioners of   *)
(* fake/database.  Sessions create threads, reply and read; every call     *)
(* runs to its end before the next, replication advances between calls,    *)
(* and every call leaves an Invoke and an Ok event in the history, which   *)
(* is all that a checker may look at.                                      *)
(***************************************************************************)
EXTENDS Replication

CONSTANTS
    Session, User,       \* sessions and the users they belong to
    UserOf,              \* UserOf[s]: Session.User
    Router,              \* "Leader", "Random" or "ReadYourWrites"
    Partitioner,         \* "Single", "ByThread" or "ByPost"
    Shard,               \* Shard[id]: shard() of the hash of an id
    SameThreadReplies,   \* workload: replies stay in the thread of their parent
    Limit,               \* the limit of GET /recent; 0: none
    MaxIDs,              \* bound: threads and posts created
    MaxEvents            \* bound: events recorded

\* IDs.next: one counter for both kinds, the prefix keeps them apart.
ThreadID == {"t"} \X (1..MaxIDs)
PostID   == {"p"} \X (1..MaxIDs)

\* A pointer is a set of at most one element; nil is {}.
Pointer(S) == {{}} \cup {{x} : x \in S}

Thread == [id : ThreadID, author : User]
Post   == [id : PostID, thread : ThreadID, author : User, replyTo : Pointer(PostID)]

ASSUME SimulatorAssumption ==
    /\ UserOf \in [Session -> User]
    /\ Router \in {"Leader", "Random", "ReadYourWrites"}
    /\ Partitioner \in {"Single", "ByThread", "ByPost"}
    /\ Shard \in [ThreadID \cup PostID -> PartitionID]
    /\ SameThreadReplies \in BOOLEAN
    /\ Limit \in Nat
    /\ MaxIDs \in Nat
    /\ MaxEvents \in Nat
    /\ Thread \cup Post \subseteq Item

VARIABLES
    lastID,     \* IDs.n
    required,   \* required[s][p]: Session.RequiredPositions, 0 where absent
    history     \* Recorder.events

simulatorVars == <<log, pending, q, now, lastID, required, history>>

SimulatorInit ==
    /\ ReplicationInit
    /\ lastID = 0
    /\ required = [s \in Session |-> [p \in PartitionID |-> 0]]
    /\ history = <<>>

-----------------------------------------------------------------------------
(* Routing.                                                                *)

\* Faulty variant: ByThread hashes the id of the post.
RouteWriteByPost(thread, post) ==
    CASE Partitioner = "Single" -> 0
      [] Partitioner # "Single" -> IF post = {} THEN Shard[thread]
                                   ELSE Shard[CHOOSE id \in post : TRUE]

\* RouteWrite: the partition of a routing key; the node is always the leader.
RouteWrite(thread, post) ==
    CASE Partitioner = "Single"   -> 0
      [] Partitioner = "ByThread" -> Shard[thread]
      [] Partitioner = "ByPost"   -> IF post = {} THEN Shard[thread]
                                     ELSE Shard[CHOOSE id \in post : TRUE]

\* Faulty variant: a follower one record behind passes.
CaughtUpAlmost(p, position) ==
    {n \in NodeID \ {0} : Applied([partition |-> p, node |-> n]) + 1 >= position}

\* The followers of p that have applied at least the given position.
CaughtUp(p, position) ==
    {n \in NodeID \ {0} : Applied([partition |-> p, node |-> n]) >= position}

\* Faulty variant: every router reads anywhere.
RouteReadAnywhere(p, position) == NodeID

\* RouteRead: the nodes a read of p may be sent to.
RouteRead(p, position) ==
    CASE Router = "Leader" -> {0}
      [] Router = "Random" -> NodeID
      [] Router = "ReadYourWrites" ->
            IF CaughtUp(p, position) = {} THEN {0}
            ELSE {n \in CaughtUp(p, position) : \A k \in CaughtUp(p, position) : n <= k}

-----------------------------------------------------------------------------
(* Reading.  A hit is a post with the key by which results are merged.     *)

\* Faulty variant: the hit is stamped with the time of the read.
HitsAtNow(l) ==
    {[post |-> log[l][i].item, t |-> now, part |-> l.partition, pos |-> i] :
        i \in {j \in 1..Applied(l) : log[l][j].item \in Post}}

HitsAt(l) ==
    {[post |-> log[l][i].item, t |-> log[l][i].t, part |-> l.partition, pos |-> i] :
        i \in {j \in 1..Applied(l) : log[l][j].item \in Post}}

Hits(route) ==
    UNION {HitsAt(l) : l \in {k \in Location : route[k.partition] = k.node}}

Before(a, b) ==
    \/ a.t < b.t
    \/ a.t = b.t /\ a.part < b.part
    \/ a.t = b.t /\ a.part = b.part /\ a.pos < b.pos

\* The last n hits in merge order; all of them when n is 0.
LastHits(hits, n) ==
    IF n = 0 THEN hits
    ELSE {h \in hits : Cardinality({g \in hits : Before(h, g)}) < n}

\* Database.read sends one physical read to each partition.
Routes(s) == {route \in [PartitionID -> NodeID] :
                \A p \in PartitionID : route[p] \in RouteRead(p, required[s][p])}

-----------------------------------------------------------------------------
(* The operations of Application.                                          *)

PostThreads == "POST /threads"
PostReplies == "POST /threads/{t}/posts"
OpenThread  == "GET /threads/{t}"
OpenRecent  == "GET /recent"

\* Both events of a call; the virtual clock does not move in between.
RecordCall(s, op, wrote, thread, seen) ==
    LET event(phase, result) ==
            [t |-> now, phase |-> phase, user |-> UserOf[s], op |-> op,
             wrote |-> wrote, thread |-> thread, seen |-> result]
    IN  /\ Len(history) + 2 <= MaxEvents
        /\ history' = history \o <<event("Invoke", {}), event("Ok", seen)>>

\* Faulty variant: one required position for all partitions.
RecordWriteEverywhere(s, p, position) ==
    required' = [required EXCEPT ![s] =
                    [r \in PartitionID |-> IF @[r] < position THEN position ELSE @[r]]]

\* Session.RecordWrite: the required position never moves back.
RecordWrite(s, p, position) ==
    required' = [required EXCEPT ![s][p] = IF @ < position THEN position ELSE @]

\* Faulty variant: threads and posts take each other's prefix.
NextIDSwapped(prefix) == <<IF prefix = "t" THEN "p" ELSE "t", lastID + 1>>

\* IDs.next: the prefix and the incremented counter.
NextID(prefix) == <<prefix, lastID + 1>>

\* IDs.next, Database.append and RecordWrite, for a thread or a post.
Create(s, p, item) ==
    /\ lastID' = lastID + 1
    /\ WriteAllowed(p)
    /\ Write(p, item)
    /\ RecordWrite(s, p, Applied(Leader(p)) + 1)

CreateThread(s) ==
    LET id == NextID("t")
    IN  /\ lastID < MaxIDs
        /\ Create(s, RouteWrite(id, {}), [id |-> id, author |-> UserOf[s]])
        /\ RecordCall(s, PostThreads, {}, {}, {})

\* What has been created so far, and so what a client can name.
Stored(S) ==
    S \cap UNION {{log[Leader(p)][i].item : i \in 1..Applied(Leader(p))} : p \in PartitionID}

\* Reply checks neither the thread nor the post it replies to.
Reply(s, thread, parent) ==
    LET post == [id |-> NextID("p"), thread |-> thread,
                 author |-> UserOf[s], replyTo |-> parent]
    IN  /\ lastID < MaxIDs
        /\ Create(s, RouteWrite(thread, {post.id}), post)
        /\ RecordCall(s, PostReplies, {post}, {}, {})

ViewThread(s, thread) ==
    \E route \in Routes(s) :
        /\ RecordCall(s, OpenThread, {}, {thread},
                   {h \in Hits(route) : h.post.thread = thread})
        /\ UNCHANGED <<log, pending, q, now, lastID, required>>

ViewRecent(s) ==
    \E route \in Routes(s) :
        /\ RecordCall(s, OpenRecent, {}, {}, LastHits(Hits(route), Limit))
        /\ UNCHANGED <<log, pending, q, now, lastID, required>>

\* The posts a reply to the thread may name as its parent, or none.
Parents(thread) ==
    Pointer({post.id : post \in {x \in Stored(Post) :
                SameThreadReplies => x.thread = thread}})

Tick == Advance /\ UNCHANGED <<lastID, required, history>>

SimulatorNext ==
    \/ \E s \in Session :
        \/ CreateThread(s)
        \/ \E thread \in {x.id : x \in Stored(Thread)} :
            \/ \E parent \in Parents(thread) : Reply(s, thread, parent)
            \/ ViewThread(s, thread)
        \/ ViewRecent(s)
    \/ Tick

SimulatorSpec == SimulatorInit /\ [][SimulatorNext]_simulatorVars

-----------------------------------------------------------------------------
Event == [t : Nat, phase : {"Invoke", "Ok"}, user : User,
          op : {PostThreads, PostReplies, OpenThread, OpenRecent},
          wrote : SUBSET Post, thread : SUBSET ThreadID,
          seen : SUBSET [post : Post, t : Nat, part : PartitionID, pos : Position]]

SimulatorTypeOK ==
    /\ ReplicationTypeOK
    /\ lastID \in 0..MaxIDs
    /\ required \in [Session -> [PartitionID -> Nat]]
    /\ history \in Seq(Event)

Answered == {i \in 1..Len(history) : history[i].phase = "Ok"}
Viewed(op) == {i \in Answered : history[i].op = op}
SeenIDs(i) == {h.post.id : h \in history[i].seen}

\* checkReadAfterWrite: a user who wrote a reply sees it whenever the same
\* user opens that thread later.  Holds for the leader router and for the
\* read-your-writes router as long as a user has one session.
ReadAfterWrite ==
    \A i \in Answered, j \in Viewed(OpenThread) :
        \A post \in history[i].wrote :
            (/\ i < j
             /\ history[i].user = history[j].user
             /\ post.thread \in history[j].thread) => post.id \in SeenIDs(j)

\* What the position of a session stands for: in each partition it is that
\* of the last record the session wrote there, however writes to several
\* partitions and those of other sessions interleave.
SessionTracksOwnWrites ==
    \A s \in Session, p \in PartitionID :
        LET own == {i \in 1..Applied(Leader(p)) :
                        log[Leader(p)][i].item.author = UserOf[s]}
        IN  /\ \A i \in own : i <= required[s][p]
            /\ required[s][p] \in own \cup {0}

\* A reader of a thread never sees fewer posts of it than before.
MonotonicReads ==
    \A i, j \in Viewed(OpenThread) :
        (/\ i < j
         /\ history[i].user = history[j].user
         /\ history[i].thread = history[j].thread) => SeenIDs(i) \subseteq SeenIDs(j)

\* The merge of a read over all partitions keeps a post before the replies to
\* it whenever both are in the result (database.go: with one perfect clock
\* the order itself is right, an anomaly is only something missing).
RepliesFollowParents ==
    \A i \in Answered : \A g, h \in history[i].seen :
        g.post.id \in h.post.replyTo => Before(g, h)

\* A parent that is missing from a result was cut off by the limit: the
\* result is full and all of it comes after the parent.
CutByLimit(i, id) ==
    /\ Limit > 0
    /\ Cardinality(history[i].seen) = Limit
    /\ \A p \in PartitionID : \A k \in 1..Applied(Leader(p)) :
          log[Leader(p)][k].item.id = id =>
              \A h \in history[i].seen :
                  Before([t |-> log[Leader(p)][k].t, part |-> p, pos |-> k], h)

\* Consistent prefix: whoever sees a reply sees the post it replies to, and
\* before it, even on replicas that lag differently (README of the lab: it
\* cannot break within a partition).
ConsistentPrefix ==
    /\ RepliesFollowParents
    /\ \A i \in Viewed(OpenRecent) : \A h \in history[i].seen :
          \A id \in h.post.replyTo : id \in SeenIDs(i) \/ CutByLimit(i, id)

\* ByThread: a post and the replies to it are stored in the same partition.
ParentAndReplyTogether ==
    \A p, r \in PartitionID :
        \A i \in 1..Applied(Leader(p)), k \in 1..Applied(Leader(r)) :
            (/\ log[Leader(p)][i].item \in Post
             /\ log[Leader(r)][k].item.id \in log[Leader(p)][i].item.replyTo) => p = r

\* A read shows each post at most once, as it was acknowledged and at the
\* place where the leader has it.
ReadsAreReal ==
    \A j \in Answered : \A g, h \in history[j].seen :
        /\ g.post.id = h.post.id => g = h
        /\ \E i \in Answered : i < j /\ h.post \in history[i].wrote
        /\ log[Leader(h.part)][h.pos] = [t |-> h.t, item |-> h.post]
=============================================================================
