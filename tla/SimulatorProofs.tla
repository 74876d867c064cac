-------------------------- MODULE SimulatorProofs ---------------------------
(***************************************************************************)
(* The simulated board for any number of partitions, followers, sessions,  *)
(* delays and calls: what a read shows, what a session may rely on, under  *)
(* which router and partitioner an anomaly cannot occur, and that the      *)
(* checker of the laboratory tells when one has.                           *)
(*                                                                         *)
(* All of it is about the leaders' logs.  A spot is a place in one of      *)
(* them, a pair of partition and position; the operators below have the    *)
(* logs and the history as arguments, so that a step is a formula about    *)
(* the spots before and after it.                                          *)
(***************************************************************************)
EXTENDS Checker, ReplicationProofs

Spot(w)      == {e \in PartitionID \X Position : e[2] <= Len(w[Leader(e[1])])}
Rec(w, e)    == w[Leader(e[1])][e[2]]
ItemAt(w, e) == Rec(w, e).item

\* What a read shows of a spot.
HitOf(w, e) == [post |-> ItemAt(w, e), t |-> Rec(w, e).t, part |-> e[1], pos |-> e[2]]

Hit == [post : Post, t : Nat, part : PartitionID, pos : Position]

\* A user has one session.
OneSessionEach == \A s, r \in Session : UserOf[s] = UserOf[r] => s = r

-----------------------------------------------------------------------------
(* What is stored.                                                         *)

Numbered(w, n) ==
    \A e \in Spot(w) : ItemAt(w, e) \in Thread \cup Post /\ ItemAt(w, e).id[2] \in 1..n

NumbersUnique(w) ==
    \A e, f \in Spot(w) : ItemAt(w, e).id[2] = ItemAt(w, f).id[2] => e = f

\* Where the partitioners that keep a thread together put a post.
InPlace(w) ==
    \A e \in Spot(w) : ItemAt(w, e) \in Post =>
        /\ Partitioner = "Single" => e[1] = 0
        /\ Partitioner = "ByThread" => e[1] = Shard[ItemAt(w, e).thread]

\* The post at f is what the post at e replies to.
IsParent(w, f, e) ==
    /\ ItemAt(w, f) \in Post
    /\ ItemAt(w, f).id \in ItemAt(w, e).replyTo
    /\ SameThreadReplies => ItemAt(w, f).thread = ItemAt(w, e).thread
    /\ f[1] = e[1] => f[2] < e[2]

ParentsStored(w) ==
    \A e \in Spot(w) : ItemAt(w, e) \in Post =>
        \A id \in ItemAt(w, e).replyTo :
            \E f \in Spot(w) : ItemAt(w, f).id = id /\ IsParent(w, f, e)

LogInv(w, n) == Numbered(w, n) /\ NumbersUnique(w) /\ InPlace(w) /\ ParentsStored(w)

-----------------------------------------------------------------------------
(* What a session requires.                                                *)

RequiredIsOwn(w, r) ==
    \A s \in Session, p \in PartitionID : r[s][p] # 0 =>
        <<p, r[s][p]>> \in Spot(w) /\ ItemAt(w, <<p, r[s][p]>>).author = UserOf[s]

OwnIsRequired(w, r) ==
    \A s \in Session : \A e \in Spot(w) :
        ItemAt(w, e).author = UserOf[s] => e[2] <= r[s][e[1]]

SessionInv(w, r) ==
    /\ r \in [Session -> [PartitionID -> Nat]]
    /\ RequiredIsOwn(w, r)
    /\ OneSessionEach => OwnIsRequired(w, r)

-----------------------------------------------------------------------------
(* What has been recorded.                                                 *)

\* A hit is a post of a leader, and of the thread that was opened.
SeenIsStored(w, a) ==
    \A g \in a.seen :
        /\ \E e \in Spot(w) : ItemAt(w, e) \in Post /\ g = HitOf(w, e)
        /\ \A thread \in a.thread : g.post.thread = thread

WroteIsStored(w, a) ==
    \A post \in a.wrote :
        /\ post.author = a.user
        /\ \E e \in Spot(w) : ItemAt(w, e) = post /\ Rec(w, e).t = a.t

\* A read that shows all it has found is full and begins after g.
CutBefore(a, g) ==
    /\ Limit > 0
    /\ Cardinality(a.seen) = Limit
    /\ \A h \in a.seen : Before(g, h)

\* Within a partition no reply is shown without its parent.
ParentsShown(w, a) ==
    a.thread = {} =>
        \A e, f \in Spot(w) :
            (HitOf(w, e) \in a.seen /\ IsParent(w, f, e) /\ f[1] = e[1])
                => HitOf(w, f) \in a.seen \/ CutBefore(a, HitOf(w, f))

EventInv(w, a) ==
    /\ a \in Event
    /\ SeenIsStored(w, a)
    /\ WroteIsStored(w, a)
    /\ ParentsShown(w, a)
    /\ a.op = OpenRecent => a.thread = {}
    /\ a.op = OpenThread => a.thread # {}
    /\ a.wrote = {} \/ a.thread = {}

\* An answer of the history confirms the post.
Confirmed(h, j, post) ==
    \E i \in 1..Len(h) : i < j /\ h[i].phase = "Ok" /\ post \in h[i].wrote

\* Whatever a wrote in the thread b opens is in b.
ShowsWrittenOf(a, b) ==
    \A post \in a.wrote :
        post.thread \in b.thread => \E g \in b.seen : g.post = post

ShowsAllOf(a, b) ==
    (a.thread = b.thread /\ b.thread # {}) =>
        \A g \in a.seen : \E k \in b.seen : k.post.id = g.post.id

KeepsOwn == OneSessionEach /\ Router \in {"Leader", "ReadYourWrites"}

\* A time after which a write is readable everywhere: the longest delay, and
\* at least the tick in which Advance delivers.
Slack == IF LongestDelay = 0 THEN 1 ELSE LongestDelay

\* A write by a that an answer to the user, at the time, has to show.
Expects(a, user, time) ==
    \/ KeepsOwn /\ a.user = user
    \/ Router = "Leader"
    \/ a.t + Slack <= time

\* What an answer b owes to an event a before it.
Owes(a, b) ==
    b.phase = "Ok" =>
        /\ Expects(a, b.user, b.t) => ShowsWrittenOf(a, b)
        /\ Router = "Leader" => ShowsAllOf(a, b)

HistoryInv(w, h) ==
    /\ h \in Seq(Event)
    /\ \A j \in 1..Len(h) : EventInv(w, h[j])
    /\ \A j \in 1..Len(h) : \A g \in h[j].seen : Confirmed(h, j, g.post)
    /\ \A e \in Spot(w) : ItemAt(w, e) \in Post => Confirmed(h, Len(h) + 1, ItemAt(w, e))
    /\ \A i, j \in 1..Len(h) : i < j => Owes(h[i], h[j])

SimulatorInv ==
    /\ ReplicationInv
    /\ lastID \in 0..MaxIDs
    /\ LogInv(log, lastID)
    /\ SessionInv(log, required)
    /\ HistoryInv(log, history)

-----------------------------------------------------------------------------
(* Facts about names and ids.                                              *)

LEMMA OpsDiffer == OpenThread # OpenRecent
  BY Zenon DEF OpenThread, OpenRecent

LEMMA IdsDiffer ==
  /\ \A id \in ThreadID : id[1] = "t" /\ id[2] \in Nat
  /\ \A id \in PostID : id[1] = "p" /\ id[2] \in Nat
  /\ \A x \in Thread : x.id \in ThreadID /\ x.author \in User /\ x \notin Post
  /\ \A x \in Post : /\ x.id \in PostID /\ x.thread \in ThreadID /\ x.author \in User
                     /\ x.replyTo \in Pointer(PostID)
<1>1. \A id \in ThreadID : id[1] = "t" /\ id[2] \in Nat
  BY SimulatorAssumption DEF ThreadID
<1>2. \A id \in PostID : id[1] = "p" /\ id[2] \in Nat
  BY SimulatorAssumption DEF PostID
<1>3. \A x \in Thread : x.id \in ThreadID /\ x.author \in User
  BY DEF Thread
<1>4. \A x \in Post : /\ x.id \in PostID /\ x.thread \in ThreadID /\ x.author \in User
                      /\ x.replyTo \in Pointer(PostID)
  BY DEF Post
<1>5. ASSUME NEW x \in Thread, x \in Post PROVE FALSE
  <2>1. x.id[1] = "t" /\ x.id[1] = "p"
    BY <1>1, <1>2, <1>3, <1>4, <1>5
  <2> QED BY <2>1
<1> QED BY <1>1, <1>2, <1>3, <1>4, <1>5

-----------------------------------------------------------------------------
(* Spots and steps.                                                        *)

\* Nothing that was stored changes, and what is new comes last.
Grows(w, w2) ==
    /\ Spot(w) \subseteq Spot(w2)
    /\ \A e \in Spot(w) : Rec(w2, e) = Rec(w, e)
    /\ \A e \in Spot(w2) \ Spot(w) : \A f \in Spot(w) : f[1] = e[1] => f[2] < e[2]

\* One record more, at the end of its partition.
Adds(w, w2, e, record) ==
    /\ Grows(w, w2)
    /\ e \notin Spot(w)
    /\ Spot(w2) = Spot(w) \cup {e}
    /\ Rec(w2, e) = record

LEMMA SpotIsPair ==
  ASSUME NEW w, NEW e \in Spot(w)
  PROVE  /\ e[1] \in PartitionID /\ e[2] \in Nat /\ e[2] > 0 /\ e = <<e[1], e[2]>>
  <1>1. e \in PartitionID \X Position
    BY DEF Spot
  <1> QED BY <1>1 DEF Position

LEMMA SpotFacts ==
  ASSUME ReplicationInv
  PROVE  /\ \A p \in PartitionID : /\ Leader(p) \in Location /\ Leader(p) \notin Follower
                                   /\ log[Leader(p)] \in Seq(Record)
                                   /\ Applied(Leader(p)) \in Nat
         /\ \A e \in Spot(log) : /\ e[2] \in 1..Applied(Leader(e[1]))
                                 /\ Rec(log, e) \in Record /\ Rec(log, e).t <= now
         /\ \A p \in PartitionID : \A i \in 1..Applied(Leader(p)) :
               <<p, i>> \in Spot(log) /\ Rec(log, <<p, i>>) = log[Leader(p)][i]
  <1>1. ASSUME NEW p \in PartitionID
        PROVE  /\ Leader(p) \in Location /\ Leader(p) \notin Follower
               /\ log[Leader(p)] \in Seq(Record) /\ Applied(Leader(p)) \in Nat
    <2>1. Leader(p) \in Location /\ Leader(p) \notin Follower
      BY ClusterAssumption DEF Leader, Location, NodeID, Follower
    <2>2. log[Leader(p)] \in Seq(Record)
      BY <2>1 DEF ReplicationInv, ClusterInv, ClusterTypeOK
    <2> QED BY <2>1, <2>2 DEF Applied
  <1>2. ASSUME NEW e \in Spot(log)
        PROVE  /\ e[2] \in 1..Applied(Leader(e[1]))
               /\ Rec(log, e) \in Record /\ Rec(log, e).t <= now
    <2>1. e[1] \in PartitionID /\ e[2] \in Nat /\ e[2] > 0
      BY SpotIsPair
    <2>2. e[2] \in 1..Applied(Leader(e[1]))
      BY <1>1, <2>1 DEF Spot, Applied
    <2>3. log[Leader(e[1])][e[2]] \in Record
      BY <1>1, <2>1, <2>2 DEF Applied
    <2>4. log[Leader(e[1])][e[2]].t <= now
      BY <2>1, <2>2 DEF ReplicationInv, LeaderClock
    <2> QED BY <2>2, <2>3, <2>4 DEF Rec
  <1>3. ASSUME NEW p \in PartitionID, NEW i \in 1..Applied(Leader(p))
        PROVE  <<p, i>> \in Spot(log) /\ Rec(log, <<p, i>>) = log[Leader(p)][i]
    BY <1>1 DEF Spot, Rec, Position, Applied
  <1> QED BY <1>1, <1>2, <1>3

LEMMA WriteAdds ==
  ASSUME ReplicationInv, NEW p \in PartitionID, NEW item \in Item, Write(p, item)
  PROVE  Adds(log, log', <<p, Applied(Leader(p)) + 1>>, [t |-> now, item |-> item])
  <1> DEFINE L == Leader(p)
             n == Applied(L) + 1
             record == [t |-> now, item |-> item]
  <1>1. record \in Record
    BY DEF Record, ReplicationInv, ReplicationTypeOK
  <1>2. /\ Len(log'[L]) = n /\ log'[L][n] = record
        /\ \A i \in 1..Applied(L) : log'[L][i] = log[L][i]
        /\ \A l \in Location : l # L => log'[l] = log[l]
    BY <1>1, AppendPreserves DEF Write, ReplicationInv
  <1>3. \A r \in PartitionID : /\ Leader(r) \in Location /\ (r # p => Leader(r) # L)
                               /\ Applied(Leader(r)) \in Nat
    BY SpotFacts DEF Leader
  <1>4. \A r \in PartitionID : r # p => log'[Leader(r)] = log[Leader(r)]
    BY <1>2, <1>3
  <1>5. n \in Nat /\ n > 0 /\ Len(log[L]) = n - 1 /\ Applied(L) = n - 1 /\ n - 1 \in Nat
    BY <1>3 DEF Applied
  <1> HIDE DEF n, record
  <1>6. ASSUME NEW e \in PartitionID \X Position
        PROVE  /\ e \in Spot(log') <=> (e \in Spot(log) \/ e = <<p, n>>)
               /\ e \in Spot(log) => e # <<p, n>> /\ Rec(log', e) = Rec(log, e)
               /\ (e \in Spot(log) /\ e[1] = p) => e[2] < n
    <2>1. e[1] \in PartitionID /\ e[2] \in Nat /\ e[2] > 0 /\ e = <<e[1], e[2]>>
      BY DEF Position
    <2>2. CASE e[1] = p
      <3>1. (e \in Spot(log) <=> e[2] <= n - 1) /\ (e \in Spot(log') <=> e[2] <= n)
        BY <1>2, <1>5, <2>2 DEF Spot
      <3>2. e = <<p, n>> <=> e[2] = n
        BY <2>1, <2>2
      <3>3. e[2] <= n - 1 => Rec(log', e) = Rec(log, e)
        BY <1>2, <1>5, <2>1, <2>2 DEF Rec
      <3>4. (e[2] <= n <=> (e[2] <= n - 1 \/ e[2] = n)) /\ (e[2] <= n - 1 => e[2] # n /\ e[2] < n)
        BY <1>5, <2>1
      <3> QED BY <3>1, <3>2, <3>3, <3>4
    <2>3. CASE e[1] # p
      <3>1. log'[Leader(e[1])] = log[Leader(e[1])]
        BY <1>4, <2>1, <2>3
      <3>2. e # <<p, n>>
        BY <2>3
      <3> QED BY <3>1, <3>2, <2>3 DEF Spot, Rec
    <2> QED BY <2>2, <2>3
  <1>7. <<p, n>> \in PartitionID \X Position
    BY <1>5 DEF Position
  <1>8. Spot(log) \subseteq PartitionID \X Position /\ Spot(log') \subseteq PartitionID \X Position
    BY DEF Spot
  <1>9. Spot(log') = Spot(log) \cup {<<p, n>>} /\ <<p, n>> \notin Spot(log)
    BY <1>6, <1>7, <1>8
  <1>10. Rec(log', <<p, n>>) = record
    BY <1>2 DEF Rec
  <1>11. \A f \in Spot(log) : f[1] = p => f[2] < n
    BY <1>6, <1>8
  <1>12. Grows(log, log')
    <2>1. \A e \in Spot(log) : Rec(log', e) = Rec(log, e)
      BY <1>6, <1>8
    <2>2. \A e \in Spot(log') \ Spot(log) : e = <<p, n>>
      BY <1>9
    <2>3. \A e \in Spot(log') \ Spot(log) : \A f \in Spot(log) : f[1] = e[1] => f[2] < e[2]
      BY <1>11, <2>2
    <2> QED BY <1>9, <2>1, <2>3 DEF Grows
  <1>13. Adds(log, log', <<p, n>>, record)
    BY <1>9, <1>10, <1>12 DEF Adds
  <1> QED BY <1>13 DEF n, record

LEMMA AdvanceKeeps ==
  ASSUME ReplicationInv, Advance
  PROVE  Grows(log, log') /\ Spot(log') = Spot(log)
  <1> DEFINE D == Due(now + 1)
  <1>1. D \in SUBSET q /\ Apply(D) /\ ClusterInv
    BY DEF Advance, Due, ReplicationInv
  <1>2. FromLeader(D)
    BY <1>1, QueueFromLeader
  <1> HIDE DEF D
  <1>3. \A l \in Location : l \notin Follower => log'[l] = log[l]
    BY <1>1, <1>2, ApplyPreserves
  <1>4. \A p \in PartitionID : log'[Leader(p)] = log[Leader(p)]
    BY <1>3, SpotFacts
  <1>5. Spot(log') = Spot(log)
    BY <1>4 DEF Spot
  <1>6. ASSUME NEW e \in Spot(log) PROVE Rec(log', e) = Rec(log, e)
    BY <1>4, SpotIsPair DEF Rec
  <1> QED BY <1>5, <1>6 DEF Grows

LEMMA ItemsStay ==
  ASSUME NEW w, NEW w2, Grows(w, w2), NEW e \in Spot(w)
  PROVE  e \in Spot(w2) /\ ItemAt(w2, e) = ItemAt(w, e) /\ HitOf(w2, e) = HitOf(w, e)
  BY DEF Grows, ItemAt, HitOf

LEMMA HitDeterminesSpot ==
  ASSUME NEW w, NEW w2, NEW e \in Spot(w), NEW f \in Spot(w2), HitOf(w, e) = HitOf(w2, f)
  PROVE  e = f
  <1>1. HitOf(w, e).part = e[1] /\ HitOf(w, e).pos = e[2]
    BY DEF HitOf
  <1>2. HitOf(w2, f).part = f[1] /\ HitOf(w2, f).pos = f[2]
    BY DEF HitOf
  <1> QED BY <1>1, <1>2, SpotIsPair

\* A reply is stored where the partitioner puts it, after the posts of its
\* partition that it may reply to.
LEMMA LogGrows ==
  ASSUME NEW w, NEW w2, NEW n \in Nat, LogInv(w, n), NEW e, NEW record, Adds(w, w2, e, record),
         record.item \in Thread \cup Post, record.item.id[2] = n + 1,
         record.item \in Post =>
            /\ Partitioner = "Single" => e[1] = 0
            /\ Partitioner = "ByThread" => e[1] = Shard[record.item.thread]
            /\ \A id \in record.item.replyTo : \E f \in Spot(w) :
                  /\ ItemAt(w, f) \in Post /\ ItemAt(w, f).id = id
                  /\ SameThreadReplies => ItemAt(w, f).thread = record.item.thread
  PROVE  LogInv(w2, n + 1)
  <1> DEFINE item == record.item
  <1>1. /\ Spot(w2) = Spot(w) \cup {e} /\ e \in Spot(w2) /\ e \notin Spot(w)
        /\ ItemAt(w2, e) = item /\ Grows(w, w2)
        /\ \A f \in Spot(w) : f[1] = e[1] => f[2] < e[2]
    BY DEF Adds, Grows, ItemAt
  <1>2. \A f \in Spot(w) : ItemAt(w2, f) = ItemAt(w, f)
    BY <1>1, ItemsStay
  <1> HIDE DEF item
  <1>3. item.id[2] = n + 1 /\ item \in Thread \cup Post
    BY DEF item
  <1>4. \A f \in Spot(w) : ItemAt(w, f) \in Thread \cup Post /\ ItemAt(w, f).id[2] \in 1..n
    BY DEF LogInv, Numbered
  <1>5. Numbered(w2, n + 1)
    <2>1. n + 1 \in 1..(n + 1) /\ \A k \in 1..n : k \in 1..(n + 1)
      OBVIOUS
    <2>2. ASSUME NEW f \in Spot(w2)
          PROVE  ItemAt(w2, f) \in Thread \cup Post /\ ItemAt(w2, f).id[2] \in 1..(n + 1)
      BY <1>1, <1>2, <1>3, <1>4, <2>1
    <2> QED BY <2>2 DEF Numbered
  <1>6. NumbersUnique(w2)
    <2>1. \A f \in Spot(w) : ItemAt(w2, f).id[2] # n + 1
      <3>1. \A k \in 1..n : k # n + 1
        OBVIOUS
      <3> QED BY <1>2, <1>4, <3>1
    <2>2. ItemAt(w2, e).id[2] = n + 1
      BY <1>1, <1>3
    <2>3. ASSUME NEW f \in Spot(w2), NEW g \in Spot(w2),
                 ItemAt(w2, f).id[2] = ItemAt(w2, g).id[2]
          PROVE  f = g
      <3>1. CASE f \in Spot(w) /\ g \in Spot(w)
        BY <3>1, <2>3, <1>2 DEF LogInv, NumbersUnique
      <3>2. CASE f = e \/ g = e
        BY <3>2, <2>1, <2>2, <2>3, <1>1
      <3> QED BY <3>1, <3>2, <1>1
    <2> QED BY <2>3 DEF NumbersUnique
  <1>7. InPlace(w2)
    <2>1. ASSUME NEW f \in Spot(w2), ItemAt(w2, f) \in Post
          PROVE  /\ Partitioner = "Single" => f[1] = 0
                 /\ Partitioner = "ByThread" => f[1] = Shard[ItemAt(w2, f).thread]
      <3>1. CASE f \in Spot(w)
        BY <3>1, <2>1, <1>2 DEF LogInv, InPlace
      <3>2. CASE f = e
        BY <3>2, <2>1, <1>1 DEF item
      <3> QED BY <3>1, <3>2, <1>1
    <2> QED BY <2>1 DEF InPlace
  <1>8. ParentsStored(w2)
    <2>1. ASSUME NEW g \in Spot(w2), ItemAt(w2, g) \in Post, NEW id \in ItemAt(w2, g).replyTo
          PROVE  \E f \in Spot(w2) : ItemAt(w2, f).id = id /\ IsParent(w2, f, g)
      <3>1. CASE g \in Spot(w)
        <4>1. ItemAt(w2, g) = ItemAt(w, g)
          BY <1>2, <3>1
        <4>2. PICK f \in Spot(w) : ItemAt(w, f).id = id /\ IsParent(w, f, g)
          BY <2>1, <3>1, <4>1 DEF LogInv, ParentsStored
        <4>3. ItemAt(w2, f) = ItemAt(w, f) /\ f \in Spot(w2)
          BY <1>1, <1>2
        <4> QED BY <4>1, <4>2, <4>3 DEF IsParent
      <3>2. CASE g = e
        <4>1. ItemAt(w2, g) = item
          BY <1>1, <3>2
        <4>2. PICK f \in Spot(w) : /\ ItemAt(w, f) \in Post /\ ItemAt(w, f).id = id
                                   /\ SameThreadReplies => ItemAt(w, f).thread = item.thread
          BY <2>1, <4>1 DEF item
        <4>3. ItemAt(w2, f) = ItemAt(w, f) /\ f \in Spot(w2) /\ (f[1] = g[1] => f[2] < g[2])
          BY <1>1, <1>2, <3>2
        <4> QED BY <2>1, <4>1, <4>2, <4>3 DEF IsParent
      <3> QED BY <3>1, <3>2, <1>1
    <2> QED BY <2>1 DEF ParentsStored
  <1> QED BY <1>5, <1>6, <1>7, <1>8 DEF LogInv

\* Session.RecordWrite for a write at e.
Raised(r, s, e) == [r EXCEPT ![s][e[1]] = IF @ < e[2] THEN e[2] ELSE @]

\* Session.RecordWrite after the write that is now the last of its partition.
LEMMA SessionGrows ==
  ASSUME NEW w, NEW w2, NEW r, SessionInv(w, r), NEW e, NEW record, Adds(w, w2, e, record),
         NEW s \in Session, record.item.author = UserOf[s]
  PROVE  SessionInv(w2, Raised(r, s, e))
  <1> DEFINE r2 == Raised(r, s, e)
  <1>1. /\ Spot(w2) = Spot(w) \cup {e} /\ e \in Spot(w2)
        /\ ItemAt(w2, e) = record.item /\ Grows(w, w2)
        /\ \A f \in Spot(w) : f[1] = e[1] => f[2] < e[2]
    BY DEF Adds, Grows, ItemAt
  <1>2. \A f \in Spot(w) : ItemAt(w2, f) = ItemAt(w, f)
    BY <1>1, ItemsStay
  <1>3. e[1] \in PartitionID /\ e[2] \in Nat /\ e[2] > 0 /\ e = <<e[1], e[2]>>
    BY <1>1, SpotIsPair
  <1>4. r \in [Session -> [PartitionID -> Nat]]
    BY DEF SessionInv
  <1>5. r[s][e[1]] < e[2]
    <2>1. r[s][e[1]] \in Nat
      BY <1>3, <1>4
    <2>2. CASE r[s][e[1]] = 0
      BY <2>2, <1>3
    <2>3. CASE r[s][e[1]] # 0
      <3>1. <<e[1], r[s][e[1]]>> \in Spot(w)
        BY <1>3, <2>3 DEF SessionInv, RequiredIsOwn
      <3> QED BY <3>1, <1>1
    <2> QED BY <2>2, <2>3
  <1>6. r2 = [r EXCEPT ![s] = [r[s] EXCEPT ![e[1]] = e[2]]]
    BY <1>4, <1>5 DEF Raised
  <1> HIDE DEF r2
  <1>7. r[s] \in [PartitionID -> Nat] /\ [r[s] EXCEPT ![e[1]] = e[2]] \in [PartitionID -> Nat]
    BY <1>3, <1>4
  <1>8. /\ r2 \in [Session -> [PartitionID -> Nat]]
        /\ r2[s] = [r[s] EXCEPT ![e[1]] = e[2]]
        /\ \A u \in Session : u # s => r2[u] = r[u]
    BY <1>4, <1>6, <1>7
  <1>9. /\ r2[s][e[1]] = e[2]
        /\ \A p \in PartitionID : p # e[1] => r2[s][p] = r[s][p]
    BY <1>3, <1>7, <1>8
  <1>10. RequiredIsOwn(w2, r2)
    <2>1. ASSUME NEW u \in Session, NEW p \in PartitionID, r2[u][p] # 0
          PROVE  <<p, r2[u][p]>> \in Spot(w2) /\ ItemAt(w2, <<p, r2[u][p]>>).author = UserOf[u]
      <3>1. CASE u = s /\ p = e[1]
        BY <3>1, <1>1, <1>3, <1>9
      <3>2. CASE ~(u = s /\ p = e[1])
        <4>1. r2[u][p] = r[u][p]
          BY <3>2, <1>8, <1>9
        <4>2. <<p, r[u][p]>> \in Spot(w) /\ ItemAt(w, <<p, r[u][p]>>).author = UserOf[u]
          BY <2>1, <4>1 DEF SessionInv, RequiredIsOwn
        <4> QED BY <4>1, <4>2, <1>1, <1>2
      <3> QED BY <3>1, <3>2
    <2> QED BY <2>1 DEF RequiredIsOwn
  <1>11. OneSessionEach => OwnIsRequired(w2, r2)
    <2>1. ASSUME OneSessionEach, NEW u \in Session, NEW f \in Spot(w2),
                 ItemAt(w2, f).author = UserOf[u]
          PROVE  f[2] <= r2[u][f[1]]
      <3>1. CASE f = e
        <4>1. u = s
          BY <2>1, <3>1, <1>1 DEF OneSessionEach
        <4> QED BY <4>1, <3>1, <1>3, <1>9
      <3>2. CASE f \in Spot(w)
        <4>1. f[2] <= r[u][f[1]] /\ f[1] \in PartitionID /\ f[2] \in Nat
          BY <2>1, <3>2, <1>2, SpotIsPair DEF SessionInv, OwnIsRequired
        <4>2. CASE u = s /\ f[1] = e[1]
          <5>1. f[2] < e[2] /\ r2[u][f[1]] = e[2]
            BY <1>1, <1>9, <3>2, <4>2
          <5> QED BY <5>1, <4>1, <1>3
        <4>3. CASE ~(u = s /\ f[1] = e[1])
          BY <4>1, <4>3, <1>8, <1>9
        <4> QED BY <4>2, <4>3
      <3> QED BY <3>1, <3>2, <1>1
    <2> QED BY <2>1 DEF OwnIsRequired
  <1>12. SessionInv(w2, r2)
    BY <1>8, <1>10, <1>11 DEF SessionInv
  <1> QED BY <1>12 DEF r2

-----------------------------------------------------------------------------
(* The history.                                                            *)

\* What an event says of the store stays true.
LEMMA EventStays ==
  ASSUME NEW w, NEW w2, Grows(w, w2), NEW a, EventInv(w, a)
  PROVE  EventInv(w2, a)
  <1>1. \A e \in Spot(w) : /\ e \in Spot(w2) /\ ItemAt(w2, e) = ItemAt(w, e)
                           /\ HitOf(w2, e) = HitOf(w, e) /\ Rec(w2, e) = Rec(w, e)
    BY ItemsStay DEF Grows
  <1>2. SeenIsStored(w2, a)
    BY <1>1 DEF EventInv, SeenIsStored
  <1>3. WroteIsStored(w2, a)
    BY <1>1 DEF EventInv, WroteIsStored
  <1>4. ParentsShown(w2, a)
    <2>1. ASSUME a.thread = {}, NEW e \in Spot(w2), NEW f \in Spot(w2),
                 HitOf(w2, e) \in a.seen, IsParent(w2, f, e), f[1] = e[1]
          PROVE  HitOf(w2, f) \in a.seen \/ CutBefore(a, HitOf(w2, f))
      <3>1. e \in Spot(w)
        <4>1. PICK g \in Spot(w) : HitOf(w2, e) = HitOf(w, g)
          BY <2>1 DEF EventInv, SeenIsStored
        <4>2. e = g
          BY <4>1, HitDeterminesSpot
        <4> QED BY <4>2
      <3>2. f \in Spot(w)
        <4>1. f[2] < e[2] /\ f[2] \in Nat /\ e[2] \in Nat
          BY <2>1, SpotIsPair DEF IsParent
        <4>2. f \notin Spot(w) => e[2] < f[2]
          BY <2>1, <3>1 DEF Grows
        <4> QED BY <4>1, <4>2
      <3>3. IsParent(w, f, e) /\ HitOf(w, e) \in a.seen
        BY <1>1, <2>1, <3>1, <3>2 DEF IsParent
      <3>4. HitOf(w, f) \in a.seen \/ CutBefore(a, HitOf(w, f))
        BY <2>1, <3>1, <3>2, <3>3 DEF EventInv, ParentsShown
      <3> QED BY <1>1, <3>2, <3>4
    <2> QED BY <2>1 DEF ParentsShown
  <1> QED BY <1>2, <1>3, <1>4 DEF EventInv

LEMMA HistoryStands ==
  ASSUME NEW w, NEW w2, Grows(w, w2), Spot(w2) = Spot(w), NEW h, HistoryInv(w, h)
  PROVE  HistoryInv(w2, h)
  <1>1. \A j \in 1..Len(h) : EventInv(w2, h[j])
    BY EventStays DEF HistoryInv
  <1>2. \A e \in Spot(w) : ItemAt(w2, e) = ItemAt(w, e)
    BY ItemsStay
  <1> QED BY <1>1, <1>2 DEF HistoryInv

LEMMA TwoMore ==
  ASSUME NEW h \in Seq(Event), NEW a \in Event, NEW b \in Event,
         NEW h2, h2 = h \o <<a, b>>
  PROVE  /\ h2 \in Seq(Event) /\ Len(h) \in Nat /\ Len(h2) = Len(h) + 2
         /\ \A i \in 1..Len(h) : h2[i] = h[i] /\ i \in 1..Len(h2)
         /\ h2[Len(h) + 1] = a /\ h2[Len(h) + 2] = b
         /\ \A i \in 1..Len(h2) : i \in 1..Len(h) \/ i = Len(h) + 1 \/ i = Len(h) + 2
  <1> HIDE DEF Event
  <1>1. <<a, b>> \in Seq(Event) /\ Len(<<a, b>>) = 2 /\ <<a, b>>[1] = a /\ <<a, b>>[2] = b
    OBVIOUS
  <1>2. h2 \in Seq(Event) /\ Len(h) \in Nat /\ Len(h2) = Len(h) + 2
    BY <1>1
  <1>3. \A i \in 1..Len(h) : h2[i] = h[i]
    BY <1>1
  <1>4. h2[Len(h) + 1] = a /\ h2[Len(h) + 2] = b
    BY <1>1, <1>2
  <1> QED BY <1>2, <1>3, <1>4

\* The two events of a call.
LEMMA CallIsRecorded ==
  ASSUME NEW w, NEW w2, Grows(w, w2), NEW h, HistoryInv(w, h), NEW a, NEW b,
         EventInv(w2, a), a.phase = "Invoke", a.seen = {},
         EventInv(w2, b), b.phase = "Ok",
         a.wrote = b.wrote, b.wrote = {} \/ b.thread = {},
         \A g \in b.seen : Confirmed(h, Len(h) + 1, g.post),
         \A e \in Spot(w2) \ Spot(w) : ItemAt(w2, e) \in Post => ItemAt(w2, e) \in b.wrote,
         \A i \in 1..Len(h) : Owes(h[i], b)
  PROVE  HistoryInv(w2, h \o <<a, b>>)
  <1> DEFINE h2 == h \o <<a, b>>
             n  == Len(h)
  <1>1. h \in Seq(Event) /\ a \in Event /\ b \in Event
    BY DEF HistoryInv, EventInv
  <1>2. /\ h2 \in Seq(Event) /\ n \in Nat /\ Len(h2) = n + 2
        /\ \A i \in 1..n : h2[i] = h[i] /\ i \in 1..Len(h2)
        /\ h2[n + 1] = a /\ h2[n + 2] = b
        /\ \A i \in 1..Len(h2) : i \in 1..n \/ i = n + 1 \/ i = n + 2
    BY <1>1, TwoMore
  <1> HIDE DEF h2, n
  <1>3. \A j \in 1..Len(h2) : EventInv(w2, h2[j])
    <2>1. \A j \in 1..n : EventInv(w2, h[j])
      BY EventStays DEF HistoryInv, n
    <2> QED BY <1>2, <2>1
  <1>4. ASSUME NEW j \in Nat, NEW k \in Nat, j <= k, NEW post, Confirmed(h, j, post)
        PROVE  Confirmed(h2, k, post)
    <2>1. PICK i \in 1..n : i < j /\ h[i].phase = "Ok" /\ post \in h[i].wrote
      BY <1>4 DEF Confirmed, n
    <2>2. i \in 1..Len(h2) /\ i < k /\ h2[i] = h[i]
      BY <1>2, <1>4, <2>1
    <2> QED BY <2>1, <2>2 DEF Confirmed
  <1>5. \A j \in 1..Len(h2) : \A g \in h2[j].seen : Confirmed(h2, j, g.post)
    <2>1. ASSUME NEW j \in 1..n, NEW g \in h[j].seen PROVE Confirmed(h2, j, g.post)
      <3>1. Confirmed(h, j, g.post)
        BY <2>1 DEF HistoryInv, n
      <3>2. j \in Nat /\ j <= j
        BY <1>2
      <3> QED BY <3>1, <3>2, <1>4
    <2>2. ASSUME NEW g \in b.seen PROVE Confirmed(h2, n + 2, g.post)
      <3>1. Confirmed(h, n + 1, g.post)
        BY <2>2 DEF n
      <3>2. n + 1 \in Nat /\ n + 2 \in Nat /\ n + 1 <= n + 2
        BY <1>2
      <3> QED BY <3>1, <3>2, <1>4
    <2> QED BY <1>2, <2>1, <2>2
  <1>6. \A e \in Spot(w2) : ItemAt(w2, e) \in Post => Confirmed(h2, n + 3, ItemAt(w2, e))
    <2>1. ASSUME NEW e \in Spot(w), ItemAt(w2, e) \in Post
          PROVE  Confirmed(h2, n + 3, ItemAt(w2, e))
      <3>1. ItemAt(w2, e) = ItemAt(w, e)
        BY ItemsStay
      <3>2. Confirmed(h, n + 1, ItemAt(w, e))
        BY <2>1, <3>1 DEF HistoryInv, n
      <3>3. n + 1 \in Nat /\ n + 3 \in Nat /\ n + 1 <= n + 3
        BY <1>2
      <3> QED BY <3>1, <3>2, <3>3, <1>4
    <2>2. ASSUME NEW e \in Spot(w2), e \notin Spot(w), ItemAt(w2, e) \in Post
          PROVE  Confirmed(h2, n + 3, ItemAt(w2, e))
      <3>1. n + 2 \in 1..Len(h2) /\ n + 2 < n + 3
        BY <1>2
      <3>2. h2[n + 2].phase = "Ok" /\ ItemAt(w2, e) \in h2[n + 2].wrote
        BY <1>2, <2>2
      <3> QED BY <3>1, <3>2 DEF Confirmed
    <2> QED BY <2>1, <2>2
  <1>7. \A i, j \in 1..Len(h2) : i < j => Owes(h2[i], h2[j])
    <2>1. ASSUME NEW i \in 1..Len(h2), NEW j \in 1..Len(h2), i < j
          PROVE  Owes(h2[i], h2[j])
      <3>1. CASE j \in 1..n
        <4>1. i \in 1..n
          BY <1>2, <2>1, <3>1
        <4> QED BY <1>2, <2>1, <3>1, <4>1 DEF HistoryInv, n
      <3>2. CASE j = n + 1
        BY <1>2, <3>2 DEF Owes
      <3>3. CASE j = n + 2 /\ i = n + 1
        <4>1. ShowsWrittenOf(a, b) /\ ShowsAllOf(a, b)
          BY DEF ShowsWrittenOf, ShowsAllOf
        <4> QED BY <1>2, <3>3, <4>1 DEF Owes
      <3>4. CASE j = n + 2 /\ i \in 1..n
        BY <1>2, <3>4 DEF n
      <3>5. i # n + 2 \/ j # n + 2
        BY <1>2, <2>1
      <3> QED BY <1>2, <3>1, <3>2, <3>3, <3>4, <3>5
    <2> QED BY <2>1
  <1>8. Len(h2) + 1 = n + 3
    BY <1>2
  <1>9. HistoryInv(w2, h2)
    BY <1>2, <1>3, <1>5, <1>6, <1>7, <1>8 DEF HistoryInv
  <1> QED BY <1>9 DEF h2

-----------------------------------------------------------------------------
(* Reads.                                                                  *)

LEMMA HitsAreStored ==
  ASSUME ReplicationInv, NEW route \in [PartitionID -> NodeID], NEW g \in Hits(route)
  PROVE  \E e \in Spot(log) :
            /\ ItemAt(log, e) \in Post /\ g = HitOf(log, e)
            /\ e[2] <= Applied([partition |-> e[1], node |-> route[e[1]]])
  <1>1. PICK l \in Location : route[l.partition] = l.node /\ g \in HitsAt(l)
    BY DEF Hits
  <1>2. PICK i \in 1..Applied(l) :
           /\ log[l][i].item \in Post
           /\ g = [post |-> log[l][i].item, t |-> log[l][i].t, part |-> l.partition, pos |-> i]
    BY <1>1 DEF HitsAt
  <1>3. /\ l.partition \in PartitionID
        /\ l = [partition |-> l.partition, node |-> route[l.partition]]
    BY <1>1 DEF Location
  <1>4. i \in 1..Applied(Leader(l.partition)) /\ log[Leader(l.partition)][i] = log[l][i]
    <2>1. Applied(l) \in Nat /\ Applied(Leader(l.partition)) \in Nat
      BY <1>3, SpotFacts DEF ReplicationInv, ClusterInv, ClusterTypeOK, Applied
    <2>2. CASE l \in Follower
      BY <2>1, <2>2 DEF ReplicationInv, ClusterInv, FollowerIsPrefix
    <2>3. CASE l \notin Follower
      BY <2>3, LeaderIsLocation
    <2> QED BY <2>2, <2>3
  <1> DEFINE e == <<l.partition, i>>
  <1>5. e \in Spot(log) /\ Rec(log, e) = log[l][i] /\ e[1] = l.partition /\ e[2] = i
    BY <1>3, <1>4, SpotFacts
  <1> HIDE DEF e
  <1>6. ItemAt(log, e) \in Post /\ g = HitOf(log, e)
    BY <1>2, <1>5 DEF ItemAt, HitOf
  <1>7. e[2] <= Applied([partition |-> e[1], node |-> route[e[1]]])
    <2>1. [partition |-> e[1], node |-> route[e[1]]] = l
      BY <1>3, <1>5
    <2> QED BY <2>1, <1>5
  <1> QED BY <1>5, <1>6, <1>7

LEMMA HitsAreAll ==
  ASSUME ReplicationInv, NEW route \in [PartitionID -> NodeID], NEW e \in Spot(log),
         ItemAt(log, e) \in Post,
         e[2] <= Applied([partition |-> e[1], node |-> route[e[1]]])
  PROVE  HitOf(log, e) \in Hits(route)
  <1> DEFINE l == [partition |-> e[1], node |-> route[e[1]]]
  <1>1. e[1] \in PartitionID /\ e[2] \in Nat /\ e[2] > 0
    BY SpotIsPair
  <1>2. l \in Location /\ l.partition = e[1] /\ route[l.partition] = l.node
    BY <1>1 DEF Location
  <1>3. e[2] <= Applied(l)
    OBVIOUS
  <1> HIDE DEF l
  <1>4. Applied(l) \in Nat
    BY <1>2 DEF ReplicationInv, ClusterInv, ClusterTypeOK, Applied
  <1>5. e[2] \in 1..Applied(l)
    BY <1>1, <1>3, <1>4
  <1>6. log[l][e[2]] = Rec(log, e)
    <2>1. CASE l \in Follower
      BY <1>2, <1>5, <2>1 DEF ReplicationInv, ClusterInv, FollowerIsPrefix, Rec
    <2>2. CASE l \notin Follower
      BY <1>2, <2>2, LeaderIsLocation DEF Rec
    <2> QED BY <2>1, <2>2
  <1>7. HitOf(log, e) \in HitsAt(l)
    BY <1>2, <1>5, <1>6 DEF HitsAt, HitOf, ItemAt
  <1> QED BY <1>2, <1>7 DEF Hits

\* A read of partition p is sent to the leader, to a replica with all that the
\* session requires, or anywhere.
LEMMA RoutesReach ==
  ASSUME NEW s, NEW route \in Routes(s)
  PROVE  /\ route \in [PartitionID -> NodeID]
         /\ Router = "Leader" => \A p \in PartitionID : route[p] = 0
         /\ Router = "ReadYourWrites" => \A p \in PartitionID :
               \/ route[p] = 0
               \/ Applied([partition |-> p, node |-> route[p]]) >= required[s][p]
  <1>1. /\ route \in [PartitionID -> NodeID]
        /\ \A p \in PartitionID : route[p] \in RouteRead(p, required[s][p])
    BY DEF Routes
  <1>2. ASSUME Router = "Leader", NEW p \in PartitionID PROVE route[p] = 0
    <2>1. RouteRead(p, required[s][p]) = {0}
      BY <1>2 DEF RouteRead
    <2> QED BY <1>1, <2>1
  <1>3. ASSUME Router = "ReadYourWrites", NEW p \in PartitionID
        PROVE  \/ route[p] = 0
               \/ Applied([partition |-> p, node |-> route[p]]) >= required[s][p]
    <2> DEFINE C == CaughtUp(p, required[s][p])
    <2>1. RouteRead(p, required[s][p]) =
             IF C = {} THEN {0} ELSE {n \in C : \A k \in C : n <= k}
      BY <1>3 DEF RouteRead
    <2>2. route[p] = 0 \/ route[p] \in C
      BY <1>1, <2>1
    <2> QED BY <2>2 DEF CaughtUp
  <1> QED BY <1>1, <1>2, <1>3

\* The merge order is a strict order, total on the hits of a read.
LEMMA BeforeOrders ==
  /\ \A g \in Hit : ~Before(g, g)
  /\ \A g, h, k \in Hit : Before(g, h) /\ Before(h, k) => Before(g, k)
  /\ \A g, h \in Hit :
        Before(g, h) \/ Before(h, g) \/ (g.part = h.part /\ g.pos = h.pos)
  <1>1. \A g \in Hit : g.t \in Int /\ g.part \in Int /\ g.pos \in Int
    BY ClusterAssumption DEF Hit, PartitionID, Position
  <1> QED BY <1>1 DEF Before

\* The hits that come after h.
After(H, h) == {g \in H : Before(h, g)}

LEMMA RanksDiffer ==
  ASSUME NEW H \in SUBSET Hit, IsFiniteSet(H)
  PROVE  /\ \A h \in H : /\ IsFiniteSet(After(H, h))
                         /\ Cardinality(After(H, h)) \in 0..(Cardinality(H) - 1)
         /\ \A g, h \in H : Before(g, h) =>
               Cardinality(After(H, h)) < Cardinality(After(H, g))
  <1>1. Cardinality(H) \in Nat
    BY FS_CardinalityType
  <1>2. ASSUME NEW h \in H
        PROVE  /\ IsFiniteSet(After(H, h)) /\ Cardinality(After(H, h)) \in Nat
               /\ Cardinality(After(H, h)) < Cardinality(H)
    <2>1. After(H, h) \in SUBSET H /\ h \notin After(H, h)
      BY BeforeOrders DEF After
    <2>2. /\ IsFiniteSet(After(H, h)) /\ Cardinality(After(H, h)) <= Cardinality(H)
          /\ Cardinality(H) = Cardinality(After(H, h)) => H = After(H, h)
      BY <2>1, FS_Subset
    <2>3. Cardinality(After(H, h)) \in Nat
      BY <2>2, FS_CardinalityType
    <2>4. Cardinality(H) # Cardinality(After(H, h))
      BY <2>1, <2>2
    <2> QED BY <1>1, <2>2, <2>3, <2>4
  <1>3. ASSUME NEW g \in H, NEW h \in H, Before(g, h)
        PROVE  Cardinality(After(H, h)) < Cardinality(After(H, g))
    <2>1. After(H, h) \in SUBSET After(H, g)
      <3>1. ASSUME NEW k \in After(H, h) PROVE k \in After(H, g)
        <4>1. k \in H /\ Before(h, k)
          BY DEF After
        <4>2. g \in Hit /\ h \in Hit /\ k \in Hit
          BY <4>1
        <4>3. Before(g, k)
          BY <1>3, <4>1, <4>2, BeforeOrders
        <4> QED BY <4>1, <4>3 DEF After
      <3> QED BY <3>1
    <2>2. h \in After(H, g) /\ h \notin After(H, h)
      BY <1>3, BeforeOrders DEF After
    <2>3. IsFiniteSet(After(H, g))
      BY <1>2
    <2>4. /\ Cardinality(After(H, h)) <= Cardinality(After(H, g))
          /\ Cardinality(After(H, g)) = Cardinality(After(H, h)) => After(H, g) = After(H, h)
      BY <2>1, <2>3, FS_Subset
    <2>5. Cardinality(After(H, g)) # Cardinality(After(H, h))
      BY <2>2, <2>4
    <2>6. Cardinality(After(H, h)) \in Nat /\ Cardinality(After(H, g)) \in Nat
      BY <1>2
    <2> QED BY <2>4, <2>5, <2>6
  <1>4. ASSUME NEW h \in H PROVE Cardinality(After(H, h)) \in 0..(Cardinality(H) - 1)
    BY <1>1, <1>2
  <1> QED BY <1>2, <1>3, <1>4

\* A hit that the limit has cut off comes before all others, and they are as
\* many as the limit allows.
LEMMA LimitCuts ==
  ASSUME NEW H \in SUBSET Hit, IsFiniteSet(H),
         \A g, h \in H : (g.part = h.part /\ g.pos = h.pos) => g = h,
         NEW n \in Nat, n > 0, NEW g \in H, g \notin LastHits(H, n)
  PROVE  /\ Cardinality(LastHits(H, n)) = n
         /\ \A h \in LastHits(H, n) : Before(g, h)
  <1> DEFINE m == Cardinality(H)
             f == [h \in H |-> Cardinality(After(H, h))]
             L == LastHits(H, n)
  <1>1. /\ \A h \in H : f[h] \in 0..(m - 1)
        /\ \A k, h \in H : Before(k, h) => f[h] < f[k]
    BY RanksDiffer
  <1>2. m \in Nat
    BY FS_CardinalityType
  <1>3. L = {h \in H : f[h] < n}
    BY DEF LastHits, After
  <1>4. f \in [H -> 0..(m - 1)]
    BY <1>1
  <1> HIDE DEF m, f, L
  <1>5. \A k, h \in H : f[k] = f[h] => k = h
    <2>1. ASSUME NEW k \in H, NEW h \in H, f[k] = f[h] PROVE k = h
      <3>1. f[k] \in 0..(m - 1) /\ f[h] \in 0..(m - 1)
        BY <1>1
      <3>2. ~Before(k, h) /\ ~Before(h, k)
        BY <1>1, <2>1, <3>1
      <3>3. k \in Hit /\ h \in Hit
        OBVIOUS
      <3>4. k.part = h.part /\ k.pos = h.pos
        BY <3>2, <3>3, BeforeOrders
      <3> QED BY <3>4
    <2> QED BY <2>1
  <1>6. f \in Injection(H, 0..(m - 1))
    BY <1>4, <1>5 DEF Injection, IsInjective
  <1>7. \A k \in Nat : IsFiniteSet(0..(k - 1)) /\ Cardinality(0..(k - 1)) = k
    <2>1. ASSUME NEW k \in Nat PROVE IsFiniteSet(0..(k - 1)) /\ Cardinality(0..(k - 1)) = k
      <3>1. 0 \in Int /\ k - 1 \in Int
        OBVIOUS
      <3>2. /\ IsFiniteSet(0..(k - 1))
            /\ Cardinality(0..(k - 1)) = IF 0 > k - 1 THEN 0 ELSE (k - 1) - 0 + 1
        BY <3>1, FS_Interval
      <3> QED BY <3>2
    <2> QED BY <2>1
  <1>8. f \in Surjection(H, 0..(m - 1))
    <2>1. IsFiniteSet(0..(m - 1)) /\ Cardinality(0..(m - 1)) = Cardinality(H)
      BY <1>2, <1>7 DEF m
    <2> QED BY <2>1, <1>6, FS_Injection
  <1>9. n <= f[g] /\ f[g] \in 0..(m - 1)
    <2>1. ~(f[g] < n) /\ f[g] \in 0..(m - 1)
      BY <1>1, <1>3 DEF L
    <2> QED BY <2>1
  <1>10. \A h \in L : Before(g, h)
    <2>1. ASSUME NEW h \in L PROVE Before(g, h)
      <3>1. h \in H /\ f[h] < n /\ f[h] \in 0..(m - 1)
        BY <1>1, <1>3
      <3>2. f[h] < f[g] /\ ~(f[g] < f[h]) /\ h # g
        BY <1>9, <3>1
      <3>3. ~Before(h, g)
        BY <1>1, <3>1, <3>2
      <3>4. g \in Hit /\ h \in Hit
        BY <3>1
      <3>5. ~(g.part = h.part /\ g.pos = h.pos)
        BY <3>1, <3>2
      <3> QED BY <3>3, <3>4, <3>5, BeforeOrders
    <2> QED BY <2>1
  <1>11. Cardinality(L) = n
    <2> DEFINE b == [h \in L |-> f[h]]
    <2>1. \A h \in L : h \in H /\ f[h] \in 0..(n - 1)
      BY <1>1, <1>3
    <2>2. b \in Injection(L, 0..(n - 1))
      BY <1>5, <2>1 DEF Injection, IsInjective
    <2>3. \A k \in 0..(n - 1) : \E h \in L : f[h] = k
      <3>1. ASSUME NEW k \in 0..(n - 1) PROVE \E h \in L : f[h] = k
        <4>1. k \in 0..(m - 1) /\ k < n
          BY <1>2, <1>9
        <4>2. PICK h \in H : f[h] = k
          BY <1>8, <4>1 DEF Surjection
        <4> QED BY <1>3, <4>1, <4>2
      <3> QED BY <3>1
    <2>4. b \in Surjection(L, 0..(n - 1))
      BY <2>1, <2>3 DEF Surjection
    <2>5. L \in SUBSET H
      BY <1>3
    <2>6. IsFiniteSet(L)
      BY <2>5, FS_Subset
    <2>7. ExistsBijection(L, 0..(n - 1))
      BY <2>2, <2>4 DEF ExistsBijection, Bijection
    <2>8. Cardinality(0..(n - 1)) = Cardinality(L)
      BY <2>6, <2>7, FS_Bijection
    <2> QED BY <2>8, <1>7
  <1> QED BY <1>10, <1>11 DEF L

LEMMA HitsAreFinite ==
  ASSUME ReplicationInv, lastID \in Nat, LogInv(log, lastID),
         NEW route \in [PartitionID -> NodeID]
  PROVE  /\ Hits(route) \in SUBSET Hit /\ IsFiniteSet(Hits(route))
         /\ \A g, h \in Hits(route) : (g.part = h.part /\ g.pos = h.pos) => g = h
  <1> DEFINE H == Hits(route)
             f == [g \in H |-> g.post.id[2]]
  <1>1. ASSUME NEW g \in H
        PROVE  \E e \in Spot(log) : /\ ItemAt(log, e) \in Post /\ g = HitOf(log, e)
                                    /\ g.part = e[1] /\ g.pos = e[2]
                                    /\ g.post = ItemAt(log, e)
    <2>1. PICK e \in Spot(log) : ItemAt(log, e) \in Post /\ g = HitOf(log, e)
      BY HitsAreStored
    <2>2. g.part = e[1] /\ g.pos = e[2] /\ g.post = ItemAt(log, e)
      BY <2>1 DEF HitOf
    <2> QED BY <2>1, <2>2
  <1>2. ASSUME NEW g \in H PROVE g \in Hit
    <2>1. PICK e \in Spot(log) : ItemAt(log, e) \in Post /\ g = HitOf(log, e)
      BY <1>1
    <2>2. Rec(log, e) \in Record /\ e[1] \in PartitionID /\ e[2] \in Position
      BY SpotFacts, SpotIsPair DEF Position
    <2>3. Rec(log, e).t \in Nat
      BY <2>2 DEF Record
    <2> QED BY <2>1, <2>2, <2>3 DEF HitOf, Hit
  <1>3. \A g, h \in H : (g.part = h.part /\ g.pos = h.pos) => g = h
    <2>1. ASSUME NEW g \in H, NEW h \in H, g.part = h.part, g.pos = h.pos PROVE g = h
      <3>1. PICK e \in Spot(log) : g = HitOf(log, e) /\ g.part = e[1] /\ g.pos = e[2]
        BY <1>1
      <3>2. PICK d \in Spot(log) : h = HitOf(log, d) /\ h.part = d[1] /\ h.pos = d[2]
        BY <1>1
      <3>3. e = d
        BY <2>1, <3>1, <3>2, SpotIsPair
      <3> QED BY <3>1, <3>2, <3>3
    <2> QED BY <2>1
  <1>4. \A g \in H : f[g] \in 1..lastID
    <2>1. ASSUME NEW g \in H PROVE g.post.id[2] \in 1..lastID
      <3>1. PICK e \in Spot(log) : g.post = ItemAt(log, e)
        BY <1>1
      <3> QED BY <3>1 DEF LogInv, Numbered
    <2> QED BY <2>1
  <1>5. \A g, h \in H : f[g] = f[h] => g = h
    <2>1. ASSUME NEW g \in H, NEW h \in H, g.post.id[2] = h.post.id[2] PROVE g = h
      <3>1. PICK e \in Spot(log) : g = HitOf(log, e) /\ g.post = ItemAt(log, e)
        BY <1>1
      <3>2. PICK d \in Spot(log) : h = HitOf(log, d) /\ h.post = ItemAt(log, d)
        BY <1>1
      <3>3. e = d
        BY <2>1, <3>1, <3>2 DEF LogInv, NumbersUnique
      <3> QED BY <3>1, <3>2, <3>3
    <2> QED BY <2>1
  <1>6. f \in Injection(H, 1..lastID)
    <2>1. f \in [H -> 1..lastID]
      BY <1>4
    <2>2. DOMAIN f = H
      OBVIOUS
    <2> HIDE DEF f, H
    <2> QED BY <2>1, <2>2, <1>5 DEF Injection, IsInjective
  <1>7. 1 \in Int /\ lastID \in Int
    OBVIOUS
  <1>8. IsFiniteSet(1..lastID)
    BY <1>7, FS_Interval
  <1> HIDE DEF f, H
  <1>9. IsFiniteSet(H)
    BY <1>6, <1>8, FS_Injection
  <1>10. H \in SUBSET Hit
    BY <1>2
  <1> QED BY <1>3, <1>9, <1>10 DEF H

\* One event of a call.
EventOf(s, phase, op, wrote, thread, seen) ==
    [t |-> now, phase |-> phase, user |-> UserOf[s], op |-> op,
     wrote |-> wrote, thread |-> thread, seen |-> seen]

Operation == {PostThreads, PostReplies, OpenThread, OpenRecent}

LEMMA EventTypes ==
  ASSUME now \in Nat, NEW s \in Session, NEW phase \in {"Invoke", "Ok"}, NEW op \in Operation,
         NEW wrote \in SUBSET Post, NEW thread \in SUBSET ThreadID, NEW seen \in SUBSET Hit
  PROVE  LET a == EventOf(s, phase, op, wrote, thread, seen)
         IN  /\ a \in Event /\ a.t = now /\ a.phase = phase /\ a.user = UserOf[s] /\ a.op = op
             /\ a.wrote = wrote /\ a.thread = thread /\ a.seen = seen
  BY SimulatorAssumption DEF EventOf, Event, Hit, Operation

LEMMA CallEvents ==
  ASSUME NEW s, NEW op, NEW wrote, NEW thread, NEW seen,
         RecordCall(s, op, wrote, thread, seen)
  PROVE  history' = history \o <<EventOf(s, "Invoke", op, wrote, thread, {}),
                                 EventOf(s, "Ok", op, wrote, thread, seen)>>
  BY DEF RecordCall, EventOf

-----------------------------------------------------------------------------
(* Writes.                                                                 *)

LEMMA StoredFacts ==
  ASSUME ReplicationInv, NEW S, NEW x \in Stored(S)
  PROVE  x \in S /\ \E e \in Spot(log) : ItemAt(log, e) = x
  <1>1. x \in S
    BY DEF Stored
  <1>2. PICK p \in PartitionID : x \in {log[Leader(p)][i].item : i \in 1..Applied(Leader(p))}
    BY DEF Stored
  <1>3. PICK i \in 1..Applied(Leader(p)) : x = log[Leader(p)][i].item
    BY <1>2
  <1>4. <<p, i>> \in Spot(log) /\ Rec(log, <<p, i>>) = log[Leader(p)][i]
    BY SpotFacts
  <1>5. ItemAt(log, <<p, i>>) = x
    BY <1>3, <1>4 DEF ItemAt
  <1> QED BY <1>1, <1>4, <1>5

LEMMA InvFacts ==
  ASSUME SimulatorInv
  PROVE  /\ ReplicationInv /\ now \in Nat /\ lastID \in Nat /\ lastID <= MaxIDs
         /\ LogInv(log, lastID) /\ SessionInv(log, required) /\ HistoryInv(log, history)
  BY SimulatorAssumption DEF SimulatorInv, ReplicationInv, ReplicationTypeOK

\* A post goes where the partitioner puts it, and what it replies to is stored.
Placed(p, post) ==
    /\ Partitioner = "Single" => p = 0
    /\ Partitioner = "ByThread" => p = Shard[post.thread]
    /\ \A id \in post.replyTo : \E f \in Spot(log) :
          /\ ItemAt(log, f) \in Post /\ ItemAt(log, f).id = id
          /\ SameThreadReplies => ItemAt(log, f).thread = post.thread

\* A thread or a post is created and the call is recorded.
LEMMA CreatePreserves ==
  ASSUME SimulatorInv, NEW s \in Session, NEW p \in PartitionID, NEW item \in Thread \cup Post,
         item.id[2] = lastID + 1, item.author = UserOf[s], lastID < MaxIDs,
         item \in Post => Placed(p, item),
         Create(s, p, item),
         NEW op \in Operation, op \notin {OpenThread, OpenRecent}, NEW wrote \in SUBSET Post,
         wrote \subseteq {item}, item \in Post => item \in wrote,
         RecordCall(s, op, wrote, {}, {})
  PROVE  SimulatorInv'
  <1> DEFINE record == [t |-> now, item |-> item]
             e == <<p, Applied(Leader(p)) + 1>>
             a == EventOf(s, "Invoke", op, wrote, {}, {})
             b == EventOf(s, "Ok", op, wrote, {}, {})
  <1>1. /\ ReplicationInv /\ now \in Nat /\ lastID \in Nat /\ lastID <= MaxIDs
        /\ LogInv(log, lastID) /\ SessionInv(log, required) /\ HistoryInv(log, history)
    BY InvFacts
  <1>2. item \in Item /\ MaxIDs \in Nat
    BY SimulatorAssumption
  <1>3. Write(p, item) /\ lastID' = lastID + 1 /\ RecordWrite(s, p, Applied(Leader(p)) + 1)
    BY DEF Create
  <1>4. ReplicationInv'
    BY <1>1, <1>2, <1>3, WritePreserves
  <1>5. Adds(log, log', e, record)
    BY <1>1, <1>2, <1>3, WriteAdds
  <1>6. record.item = item /\ record.t = now /\ e[1] = p /\ e[2] = Applied(Leader(p)) + 1
    OBVIOUS
  <1>7. required' = Raised(required, s, e)
    BY <1>3 DEF RecordWrite, Raised
  <1>8. history' = history \o <<a, b>>
    BY CallEvents
  <1> HIDE DEF e, record
  <1>9. LogInv(log', lastID + 1)
    BY <1>1, <1>5, <1>6, LogGrows DEF Placed
  <1>10. SessionInv(log', required')
    BY <1>1, <1>5, <1>6, <1>7, SessionGrows
  <1>11. {} \in SUBSET ThreadID /\ {} \in SUBSET Hit /\ "Invoke" \in {"Invoke", "Ok"}
         /\ "Ok" \in {"Invoke", "Ok"}
    OBVIOUS
  <1>12. /\ a \in Event /\ a.t = now /\ a.phase = "Invoke" /\ a.user = UserOf[s] /\ a.op = op
         /\ a.wrote = wrote /\ a.thread = {} /\ a.seen = {}
    BY <1>1, <1>11, EventTypes
  <1>13. /\ b \in Event /\ b.t = now /\ b.phase = "Ok" /\ b.user = UserOf[s] /\ b.op = op
         /\ b.wrote = wrote /\ b.thread = {} /\ b.seen = {}
    BY <1>1, <1>11, EventTypes
  <1> HIDE DEF a, b
  <1>14. e \in Spot(log') /\ ItemAt(log', e) = item /\ Rec(log', e).t = now /\ Grows(log, log')
         /\ \A f \in Spot(log') \ Spot(log) : f = e
    BY <1>5, <1>6 DEF Adds, ItemAt
  <1>15. \A x \in wrote : /\ x.author = UserOf[s]
                          /\ \E f \in Spot(log') : ItemAt(log', f) = x /\ Rec(log', f).t = now
    BY <1>14
  <1>16. EventInv(log', a)
    BY <1>12, <1>15 DEF EventInv, SeenIsStored, WroteIsStored, ParentsShown
  <1>17. EventInv(log', b)
    BY <1>13, <1>15 DEF EventInv, SeenIsStored, WroteIsStored, ParentsShown
  <1>18. \A f \in Spot(log') \ Spot(log) : ItemAt(log', f) \in Post => ItemAt(log', f) \in b.wrote
    BY <1>13, <1>14
  <1>19. \A i \in 1..Len(history) : Owes(history[i], b)
    BY <1>13 DEF Owes, ShowsWrittenOf, ShowsAllOf
  <1>20. HistoryInv(log', history \o <<a, b>>)
    BY <1>1, <1>12, <1>13, <1>14, <1>16, <1>17, <1>18, <1>19, CallIsRecorded
  <1>21. lastID' \in 0..MaxIDs
    BY <1>1, <1>2, <1>3
  <1> QED BY <1>3, <1>4, <1>8, <1>9, <1>10, <1>20, <1>21 DEF SimulatorInv

\* RouteWrite names a partition; a post goes where its thread goes, unless
\* posts are spread.
LEMMA RouteOfWrite ==
  ASSUME NEW thread \in ThreadID, NEW post, post = {} \/ (\E id \in PostID : post = {id})
  PROVE  /\ RouteWrite(thread, post) \in PartitionID
         /\ Partitioner = "Single" => RouteWrite(thread, post) = 0
         /\ Partitioner = "ByThread" => RouteWrite(thread, post) = Shard[thread]
  <1>1. \A id \in ThreadID \cup PostID : Shard[id] \in PartitionID
    BY SimulatorAssumption
  <1>2. 0 \in PartitionID
    BY ClusterAssumption DEF PartitionID
  <1>3. CASE Partitioner = "Single"
    <2>1. RouteWrite(thread, post) = 0
      BY <1>3 DEF RouteWrite
    <2> QED BY <1>2, <1>3, <2>1
  <1>4. CASE Partitioner = "ByThread"
    <2>1. RouteWrite(thread, post) = Shard[thread]
      BY <1>4 DEF RouteWrite
    <2> QED BY <1>1, <1>4, <2>1
  <1>5. CASE Partitioner = "ByPost"
    <2>1. RouteWrite(thread, post) = IF post = {} THEN Shard[thread]
                                     ELSE Shard[CHOOSE id \in post : TRUE]
      BY <1>5 DEF RouteWrite
    <2>2. post # {} => (CHOOSE id \in post : TRUE) \in PostID
      OBVIOUS
    <2> QED BY <1>1, <1>5, <2>1, <2>2
  <1> QED BY <1>3, <1>4, <1>5, SimulatorAssumption

\* What CreateThread stores.
LEMMA CreateThreadStores ==
  ASSUME SimulatorInv, NEW s \in Session, CreateThread(s)
  PROVE  \E p \in PartitionID, item \in Thread :
            /\ item.id[2] = lastID + 1 /\ item.author = UserOf[s] /\ lastID < MaxIDs
            /\ Create(s, p, item)
            /\ RecordCall(s, PostThreads, {}, {}, {})
  <1> DEFINE id == NextID("t")
             item == [id |-> id, author |-> UserOf[s]]
             p == RouteWrite(id, {})
  <1>1. /\ lastID < MaxIDs /\ Create(s, p, item)
        /\ RecordCall(s, PostThreads, {}, {}, {})
    BY DEF CreateThread
  <1>2. lastID \in Nat /\ MaxIDs \in Nat
    BY InvFacts, SimulatorAssumption
  <1>3. lastID + 1 \in 1..MaxIDs
    BY <1>1, <1>2
  <1>4. id \in ThreadID /\ id[2] = lastID + 1
    BY <1>3 DEF ThreadID, NextID
  <1>5. UserOf[s] \in User
    BY SimulatorAssumption
  <1>6. p \in PartitionID
    BY <1>4, RouteOfWrite
  <1> HIDE DEF id, p
  <1>7. item \in Thread /\ item.id = id /\ item.author = UserOf[s]
    BY <1>4, <1>5 DEF Thread
  <1> HIDE DEF item
  <1> QED BY <1>1, <1>4, <1>6, <1>7

LEMMA CreateThreadPreserves ==
  ASSUME SimulatorInv, NEW s \in Session, CreateThread(s)
  PROVE  SimulatorInv'
  <1>1. PICK p \in PartitionID, item \in Thread :
           /\ item.id[2] = lastID + 1 /\ item.author = UserOf[s] /\ lastID < MaxIDs
           /\ Create(s, p, item)
           /\ RecordCall(s, PostThreads, {}, {}, {})
    BY CreateThreadStores
  <1>2. item \notin Post /\ item \in Thread \cup Post
    BY IdsDiffer
  <1>3. PostThreads \in Operation /\ PostThreads \notin {OpenThread, OpenRecent}
    <2>1. PostThreads # OpenRecent
      BY Zenon DEF PostThreads, OpenRecent
    <2>2. PostThreads # OpenThread
      BY Zenon DEF PostThreads, OpenThread
    <2> QED BY <2>1, <2>2 DEF Operation
  <1> QED BY <1>1, <1>2, <1>3, CreatePreserves

\* What Reply stores.
LEMMA ReplyStores ==
  ASSUME SimulatorInv, NEW s \in Session, NEW thread \in {x.id : x \in Stored(Thread)},
         NEW parent \in Parents(thread), Reply(s, thread, parent)
  PROVE  \E p \in PartitionID, post \in Post :
            /\ post.id[2] = lastID + 1 /\ post.author = UserOf[s] /\ lastID < MaxIDs
            /\ Placed(p, post)
            /\ Create(s, p, post)
            /\ RecordCall(s, PostReplies, {post}, {}, {})
  <1> DEFINE id == NextID("p")
             post == [id |-> id, thread |-> thread, author |-> UserOf[s], replyTo |-> parent]
             p == RouteWrite(thread, {post.id})
  <1>1. /\ lastID < MaxIDs /\ Create(s, p, post)
        /\ RecordCall(s, PostReplies, {post}, {}, {})
    BY DEF Reply
  <1>2. lastID \in Nat /\ MaxIDs \in Nat /\ ReplicationInv
    BY InvFacts, SimulatorAssumption
  <1>3. lastID + 1 \in 1..MaxIDs
    BY <1>1, <1>2
  <1>4. id \in PostID /\ id[2] = lastID + 1
    BY <1>3 DEF PostID, NextID
  <1>5. thread \in ThreadID
    BY <1>2, StoredFacts, IdsDiffer
  <1> HIDE DEF id
  <1>6. \A x \in parent : \E f \in Spot(log) :
           /\ ItemAt(log, f) \in Post /\ ItemAt(log, f).id = x
           /\ SameThreadReplies => ItemAt(log, f).thread = thread
    <2>1. ASSUME NEW x \in parent
          PROVE  \E f \in Spot(log) :
                    /\ ItemAt(log, f) \in Post /\ ItemAt(log, f).id = x
                    /\ SameThreadReplies => ItemAt(log, f).thread = thread
      <3>1. PICK y \in Stored(Post) : x = y.id /\ (SameThreadReplies => y.thread = thread)
        BY DEF Parents, Pointer
      <3>2. PICK f \in Spot(log) : ItemAt(log, f) = y
        BY <1>2, StoredFacts
      <3>3. y \in Post
        BY <1>2, StoredFacts
      <3> QED BY <3>1, <3>2, <3>3
    <2> QED BY <2>1
  <1>7. parent \in Pointer(PostID)
    <2>1. \A y \in Stored(Post) : y.id \in PostID
      BY <1>2, StoredFacts, IdsDiffer
    <2> QED BY <2>1 DEF Parents, Pointer
  <1>8. UserOf[s] \in User
    BY SimulatorAssumption
  <1>9. /\ post \in Post /\ post.id = id /\ post.author = UserOf[s]
        /\ post.thread = thread /\ post.replyTo = parent
    BY <1>4, <1>5, <1>7, <1>8 DEF Post
  <1> HIDE DEF post
  <1>10. /\ p \in PartitionID
         /\ Partitioner = "Single" => p = 0
         /\ Partitioner = "ByThread" => p = Shard[thread]
    BY <1>4, <1>5, <1>9, RouteOfWrite
  <1> HIDE DEF p
  <1>11. Placed(p, post)
    BY <1>6, <1>9, <1>10 DEF Placed
  <1> QED BY <1>1, <1>4, <1>9, <1>10, <1>11

LEMMA ReplyPreserves ==
  ASSUME SimulatorInv, NEW s \in Session, NEW thread \in {x.id : x \in Stored(Thread)},
         NEW parent \in Parents(thread), Reply(s, thread, parent)
  PROVE  SimulatorInv'
  <1>1. PICK p \in PartitionID, post \in Post :
           /\ post.id[2] = lastID + 1 /\ post.author = UserOf[s] /\ lastID < MaxIDs
           /\ Placed(p, post)
           /\ Create(s, p, post)
           /\ RecordCall(s, PostReplies, {post}, {}, {})
    BY ReplyStores
  <1>2. PostReplies \in Operation /\ PostReplies \notin {OpenThread, OpenRecent}
    <2>1. PostReplies # OpenRecent
      BY Zenon DEF PostReplies, OpenRecent
    <2>2. PostReplies # OpenThread
      BY Zenon DEF PostReplies, OpenThread
    <2> QED BY <2>1, <2>2 DEF Operation
  <1>3. {post} \in SUBSET Post /\ post \in Thread \cup Post
    BY <1>1
  <1> QED BY <1>1, <1>2, <1>3, CreatePreserves

-----------------------------------------------------------------------------
(* Views.                                                                  *)

LEMMA LeaderIsNodeZero ==
  ASSUME NEW p, NEW route, route[p] = 0
  PROVE  [partition |-> p, node |-> route[p]] = Leader(p)
  BY DEF Leader

LEMMA SlackCovers == \A l \in Follower : StalenessBound(l) <= Slack
  <1>1. MaxDelay \in Nat /\ SlowFactor \in Nat /\ SlowFactor >= 1
    BY TransportAssumption
  <1>2. MaxDelay * SlowFactor >= MaxDelay /\ MaxDelay * SlowFactor \in Nat /\ MaxDelay * 1 = MaxDelay
    BY <1>1
  <1>3. \A l \in Follower : LongestTo(l) <= LongestDelay /\ LongestTo(l) \in Nat
    BY <1>1, <1>2 DEF LongestTo, LongestDelay, FactorOf
  <1>4. LongestDelay \in Nat
    BY <1>2 DEF LongestDelay
  <1> QED BY <1>3, <1>4 DEF StalenessBound, Slack

\* A read finds what was written for its user, if it goes where the session's
\* position says; everything, at the leaders; and anywhere, what is old.
LEMMA ReadFinds ==
  ASSUME SimulatorInv, NEW s \in Session, NEW route \in Routes(s),
         NEW a, EventInv(log, a), NEW post \in a.wrote, Expects(a, UserOf[s], now)
  PROVE  \E g \in Hits(route) : g.post = post
  <1>1. ReplicationInv /\ SessionInv(log, required) /\ now \in Nat
    BY InvFacts
  <1>2. post \in Post /\ a.t \in Nat
    BY DEF EventInv, Event
  <1>3. PICK e \in Spot(log) : /\ ItemAt(log, e) = post /\ ItemAt(log, e).author = a.user
                               /\ Rec(log, e).t = a.t
    BY DEF EventInv, WroteIsStored
  <1>4. route \in [PartitionID -> NodeID] /\ e[1] \in PartitionID /\ e[2] \in Nat
    BY RoutesReach, SpotIsPair
  <1> DEFINE l == [partition |-> e[1], node |-> route[e[1]]]
  <1>5. l \in Location /\ Applied(l) \in Nat
    <2>1. l \in Location
      BY <1>4 DEF Location
    <2> QED BY <1>1, <2>1 DEF ReplicationInv, ClusterInv, ClusterTypeOK, Applied
  <1>6. e[2] \in 1..Applied(Leader(e[1])) /\ log[Leader(e[1])][e[2]].t = a.t
    BY <1>1, <1>3, SpotFacts DEF Rec
  <1>7. e[2] <= Applied(l)
    <2>1. CASE route[e[1]] = 0
      <3>1. l = Leader(e[1])
        BY <2>1, LeaderIsNodeZero
      <3>2. e[2] <= Applied(Leader(e[1]))
        BY <1>6
      <3> HIDE DEF l
      <3> QED BY <3>1, <3>2
    <2>2. CASE route[e[1]] # 0 /\ KeepsOwn /\ a.user = UserOf[s]
      <3>1. e[2] <= required[s][e[1]] /\ required[s][e[1]] \in Nat
        BY <1>1, <1>3, <1>4, <2>2 DEF SessionInv, OwnIsRequired, KeepsOwn
      <3>2. Applied(l) >= required[s][e[1]]
        BY <1>4, <2>2, RoutesReach DEF KeepsOwn
      <3> HIDE DEF l
      <3> QED BY <1>4, <1>5, <3>1, <3>2
    <2>3. CASE route[e[1]] # 0 /\ a.t + Slack <= now
      <3>1. l \in Follower /\ l.partition = e[1]
        BY <1>5, <2>3 DEF Follower
      <3>2. BoundedStaleness /\ StalenessBound(l) <= Slack
        BY <1>1, <3>1, NotStale, SlackCovers
      <3>3. StalenessBound(l) \in Nat /\ Slack \in Nat
        BY <3>1, LongestToType, TransportAssumption DEF StalenessBound, Slack, LongestDelay
      <3> HIDE DEF l
      <3>4. a.t + StalenessBound(l) <= now
        BY <1>1, <1>2, <2>3, <3>2, <3>3
      <3> QED BY <1>6, <3>1, <3>2, <3>4 DEF BoundedStaleness
    <2>4. Router = "Leader" => route[e[1]] = 0
      BY <1>4, RoutesReach
    <2> QED BY <2>1, <2>2, <2>3, <2>4 DEF Expects
  <1>8. HitOf(log, e) \in Hits(route)
    BY <1>1, <1>2, <1>3, <1>4, <1>7, HitsAreAll
  <1>9. HitOf(log, e).post = post
    BY <1>3 DEF HitOf
  <1> QED BY <1>8, <1>9

\* A read from the leaders finds what was ever shown.
LEMMA LeaderFindsAll ==
  ASSUME SimulatorInv, Router = "Leader", NEW s \in Session, NEW route \in Routes(s),
         NEW a, EventInv(log, a), NEW g \in a.seen
  PROVE  g \in Hits(route)
  <1>1. ReplicationInv
    BY InvFacts
  <1>2. PICK e \in Spot(log) : ItemAt(log, e) \in Post /\ g = HitOf(log, e)
    BY DEF EventInv, SeenIsStored
  <1>3. route \in [PartitionID -> NodeID] /\ e[1] \in PartitionID /\ route[e[1]] = 0
    BY RoutesReach, SpotIsPair
  <1>4. e[2] <= Applied(Leader(e[1]))
    <2>1. e[2] \in 1..Applied(Leader(e[1]))
      BY <1>1, SpotFacts
    <2> QED BY <2>1
  <1>5. e[2] <= Applied([partition |-> e[1], node |-> route[e[1]]])
    BY <1>3, <1>4, LeaderIsNodeZero
  <1> QED BY <1>1, <1>2, <1>3, <1>5, HitsAreAll

\* A read records what it has found and leaves everything else alone.
LEMMA ViewPreserves ==
  ASSUME SimulatorInv, NEW s \in Session, NEW route \in Routes(s), NEW op \in Operation,
         NEW thread \in SUBSET ThreadID, NEW seen \in SUBSET Hits(route),
         RecordCall(s, op, {}, thread, seen),
         UNCHANGED <<log, pending, q, now, lastID, required>>,
         op = OpenRecent => thread = {}, op = OpenThread => thread # {},
         \A id \in thread : \A g \in Hits(route) : g \in seen <=> g.post.thread = id,
         ParentsShown(log, EventOf(s, "Ok", op, {}, thread, seen))
  PROVE  SimulatorInv'
  <1> DEFINE a == EventOf(s, "Invoke", op, {}, thread, {})
             b == EventOf(s, "Ok", op, {}, thread, seen)
  <1>1. /\ ReplicationInv /\ now \in Nat /\ lastID \in Nat
        /\ LogInv(log, lastID) /\ SessionInv(log, required) /\ HistoryInv(log, history)
    BY InvFacts
  <1>2. history' = history \o <<a, b>>
    BY CallEvents
  <1>3. route \in [PartitionID -> NodeID]
    BY RoutesReach
  <1>4. seen \in SUBSET Hit
    BY <1>1, <1>3, HitsAreFinite
  <1>5. {} \in SUBSET Post /\ {} \in SUBSET Hit
        /\ "Invoke" \in {"Invoke", "Ok"} /\ "Ok" \in {"Invoke", "Ok"}
    OBVIOUS
  <1>6. /\ a \in Event /\ a.t = now /\ a.phase = "Invoke" /\ a.user = UserOf[s] /\ a.op = op
        /\ a.wrote = {} /\ a.thread = thread /\ a.seen = {}
    BY <1>1, <1>5, EventTypes
  <1>7. /\ b \in Event /\ b.t = now /\ b.phase = "Ok" /\ b.user = UserOf[s] /\ b.op = op
        /\ b.wrote = {} /\ b.thread = thread /\ b.seen = seen
    BY <1>1, <1>4, <1>5, EventTypes
  <1>8. ParentsShown(log, b)
    OBVIOUS
  <1> HIDE DEF a, b
  <1>9. EventInv(log, a)
    BY <1>6 DEF EventInv, SeenIsStored, WroteIsStored, ParentsShown
  <1>10. \A g \in seen : \E e \in Spot(log) : ItemAt(log, e) \in Post /\ g = HitOf(log, e)
    BY <1>1, <1>3, HitsAreStored
  <1>11. EventInv(log, b)
    <2>1. SeenIsStored(log, b)
      BY <1>7, <1>10 DEF SeenIsStored
    <2> QED BY <1>7, <1>8, <2>1 DEF EventInv, WroteIsStored
  <1>12. \A g \in b.seen : Confirmed(history, Len(history) + 1, g.post)
    <2>1. ASSUME NEW g \in seen PROVE Confirmed(history, Len(history) + 1, g.post)
      <3>1. PICK e \in Spot(log) : ItemAt(log, e) \in Post /\ g = HitOf(log, e)
        BY <1>10
      <3>2. g.post = ItemAt(log, e)
        BY <3>1 DEF HitOf
      <3> QED BY <1>1, <3>1, <3>2 DEF HistoryInv
    <2> QED BY <1>7, <2>1
  <1>13. \A i \in 1..Len(history) : Owes(history[i], b)
    <2>1. ASSUME NEW i \in 1..Len(history) PROVE Owes(history[i], b)
      <3>1. EventInv(log, history[i])
        BY <1>1 DEF HistoryInv
      <3>2. ASSUME Expects(history[i], b.user, b.t) PROVE ShowsWrittenOf(history[i], b)
        <4>1. ASSUME NEW post \in history[i].wrote, post.thread \in b.thread
              PROVE  \E g \in b.seen : g.post = post
          <5>1. PICK g \in Hits(route) : g.post = post
            BY <1>7, <3>1, <3>2, <4>1, ReadFinds
          <5>2. g \in seen
            BY <1>7, <4>1, <5>1
          <5> QED BY <1>7, <5>1, <5>2
        <4> QED BY <4>1 DEF ShowsWrittenOf
      <3>3. ASSUME Router = "Leader" PROVE ShowsAllOf(history[i], b)
        <4>1. ASSUME history[i].thread = b.thread, b.thread # {}, NEW g \in history[i].seen
              PROVE  \E k \in b.seen : k.post.id = g.post.id
          <5>1. g \in Hits(route)
            BY <3>1, <3>3, <4>1, LeaderFindsAll
          <5>2. PICK id \in thread : TRUE
            BY <1>7, <4>1
          <5>3. g.post.thread = id
            BY <1>7, <3>1, <4>1, <5>2 DEF EventInv, SeenIsStored
          <5>4. g \in seen
            BY <5>1, <5>2, <5>3
          <5> QED BY <1>7, <5>4
        <4> QED BY <4>1 DEF ShowsAllOf
      <3> QED BY <3>2, <3>3 DEF Owes
    <2> QED BY <2>1
  <1>14. Grows(log, log)
    BY DEF Grows
  <1>15. \A e \in Spot(log) \ Spot(log) : ItemAt(log, e) \in Post => ItemAt(log, e) \in b.wrote
    OBVIOUS
  <1>16. HistoryInv(log, history \o <<a, b>>)
    BY <1>1, <1>6, <1>7, <1>9, <1>11, <1>12, <1>13, <1>14, <1>15, CallIsRecorded
  <1>17. ReplicationInv'
    <2>1. UNCHANGED replicationVars
      BY DEF replicationVars
    <2> QED BY <1>1, <2>1, ReplicationInductive
  <1> QED BY <1>1, <1>2, <1>16, <1>17 DEF SimulatorInv

LEMMA ViewThreadPreserves ==
  ASSUME SimulatorInv, NEW s \in Session, NEW thread \in {x.id : x \in Stored(Thread)},
         ViewThread(s, thread)
  PROVE  SimulatorInv'
  <1>1. ReplicationInv
    BY InvFacts
  <1>2. thread \in ThreadID
    BY <1>1, StoredFacts, IdsDiffer
  <1>3. PICK route \in Routes(s) :
           /\ RecordCall(s, OpenThread, {}, {thread},
                         {h \in Hits(route) : h.post.thread = thread})
           /\ UNCHANGED <<log, pending, q, now, lastID, required>>
    BY DEF ViewThread
  <1> DEFINE seen == {h \in Hits(route) : h.post.thread = thread}
  <1>4. seen \in SUBSET Hits(route) /\ {thread} \in SUBSET ThreadID
    BY <1>2
  <1>5. \A id \in {thread} : \A g \in Hits(route) : g \in seen <=> g.post.thread = id
    OBVIOUS
  <1>6. OpenThread \in Operation /\ OpenThread # OpenRecent
    BY OpsDiffer DEF Operation
  <1>7. ParentsShown(log, EventOf(s, "Ok", OpenThread, {}, {thread}, seen))
    BY DEF ParentsShown, EventOf
  <1>8. RecordCall(s, OpenThread, {}, {thread}, seen)
    BY <1>3
  <1> HIDE DEF seen
  <1> QED BY <1>3, <1>4, <1>5, <1>6, <1>7, <1>8, ViewPreserves

LEMMA ViewRecentPreserves ==
  ASSUME SimulatorInv, NEW s \in Session, ViewRecent(s)
  PROVE  SimulatorInv'
  <1>1. ReplicationInv /\ lastID \in Nat /\ LogInv(log, lastID)
    BY InvFacts
  <1>2. PICK route \in Routes(s) :
           /\ RecordCall(s, OpenRecent, {}, {}, LastHits(Hits(route), Limit))
           /\ UNCHANGED <<log, pending, q, now, lastID, required>>
    BY DEF ViewRecent
  <1> DEFINE H == Hits(route)
             seen == LastHits(H, Limit)
             b == EventOf(s, "Ok", OpenRecent, {}, {}, seen)
  <1>3. route \in [PartitionID -> NodeID]
    BY RoutesReach
  <1>4. /\ H \in SUBSET Hit /\ IsFiniteSet(H)
        /\ \A g, h \in H : (g.part = h.part /\ g.pos = h.pos) => g = h
    BY <1>1, <1>3, HitsAreFinite
  <1>5. seen \in SUBSET H
    BY DEF LastHits
  <1>6. OpenRecent \in Operation /\ OpenRecent # OpenThread /\ {} \in SUBSET ThreadID
    BY OpsDiffer DEF Operation
  <1>7. b.seen = seen
    BY DEF EventOf
  <1>8. \A g \in H : g \in seen \/ CutBefore(b, g)
    <2>1. CASE Limit = 0
      BY <2>1 DEF LastHits
    <2>2. CASE Limit # 0
      <3>1. Limit \in Nat /\ Limit > 0
        BY <2>2, SimulatorAssumption
      <3> HIDE DEF H, b
      <3>2. ASSUME NEW g \in H, g \notin seen PROVE CutBefore(b, g)
        <4>1. Cardinality(seen) = Limit /\ \A h \in seen : Before(g, h)
          BY <1>4, <3>1, <3>2, LimitCuts
        <4> QED BY <1>7, <3>1, <4>1 DEF CutBefore
      <3> QED BY <3>2
    <2> QED BY <2>1, <2>2
  <1>9. ParentsShown(log, b)
    <2>1. ASSUME NEW e \in Spot(log), NEW f \in Spot(log),
                 HitOf(log, e) \in seen, IsParent(log, f, e), f[1] = e[1]
          PROVE  HitOf(log, f) \in H
      <3>1. HitOf(log, e) \in H
        BY <1>5, <2>1
      <3>2. PICK d \in Spot(log) :
               /\ HitOf(log, e) = HitOf(log, d)
               /\ d[2] <= Applied([partition |-> d[1], node |-> route[d[1]]])
        BY <1>1, <1>3, <3>1, HitsAreStored
      <3>3. d = e
        BY <3>2, HitDeterminesSpot
      <3>4. /\ f[2] < e[2] /\ f[2] \in Nat /\ e[2] \in Nat
            /\ e[1] \in PartitionID /\ ItemAt(log, f) \in Post
        BY <2>1, SpotIsPair DEF IsParent
      <3> DEFINE l == [partition |-> f[1], node |-> route[f[1]]]
      <3>5. l \in Location /\ e[2] <= Applied(l)
        BY <1>3, <2>1, <3>2, <3>3, <3>4 DEF Location
      <3>6. Applied(l) \in Nat
        BY <1>1, <3>5 DEF ReplicationInv, ClusterInv, ClusterTypeOK, Applied
      <3>7. f[2] <= Applied(l)
        <4> HIDE DEF l
        <4> QED BY <3>4, <3>5, <3>6
      <3> QED BY <1>1, <1>3, <3>4, <3>7, HitsAreAll
    <2> HIDE DEF H, b, seen
    <2> QED BY <1>7, <1>8, <2>1 DEF ParentsShown
  <1>10. RecordCall(s, OpenRecent, {}, {}, seen)
    BY <1>2
  <1> HIDE DEF seen, H
  <1>11. seen \in SUBSET Hits(route) /\ ParentsShown(log, EventOf(s, "Ok", OpenRecent, {}, {}, seen))
    BY <1>5, <1>9 DEF H
  <1> QED BY <1>2, <1>6, <1>10, <1>11, ViewPreserves


-----------------------------------------------------------------------------
(* The invariant.                                                          *)

LEMMA TickPreserves == ASSUME SimulatorInv, Tick PROVE SimulatorInv'
  <1>1. /\ ReplicationInv /\ lastID \in Nat
        /\ LogInv(log, lastID) /\ SessionInv(log, required) /\ HistoryInv(log, history)
    BY InvFacts
  <1>2. Advance /\ lastID' = lastID /\ required' = required /\ history' = history
    BY DEF Tick
  <1>3. ReplicationInv'
    BY <1>1, <1>2, AdvancePreserves
  <1>4. Grows(log, log') /\ Spot(log') = Spot(log)
    BY <1>1, <1>2, AdvanceKeeps
  <1>5. \A e \in Spot(log) : ItemAt(log', e) = ItemAt(log, e)
    BY <1>4, ItemsStay
  <1>6. LogInv(log', lastID)
    <2>1. Numbered(log', lastID) /\ NumbersUnique(log') /\ InPlace(log')
      BY <1>1, <1>4, <1>5 DEF LogInv, Numbered, NumbersUnique, InPlace
    <2>2. \A e, f \in Spot(log) : IsParent(log, f, e) => IsParent(log', f, e)
      BY <1>5 DEF IsParent
    <2>3. ParentsStored(log')
      BY <1>1, <1>4, <1>5, <2>2 DEF LogInv, ParentsStored
    <2> QED BY <2>1, <2>3 DEF LogInv
  <1>7. SessionInv(log', required)
    BY <1>1, <1>4, <1>5 DEF SessionInv, RequiredIsOwn, OwnIsRequired
  <1>8. HistoryInv(log', history)
    BY <1>1, <1>4, HistoryStands
  <1> QED BY <1>2, <1>3, <1>6, <1>7, <1>8 DEF SimulatorInv

LEMMA SimulatorInitially == SimulatorInit => SimulatorInv
<1> SUFFICES ASSUME SimulatorInit PROVE SimulatorInv
  OBVIOUS
<1>1. ReplicationInv
  BY ReplicationInitial DEF SimulatorInit
<1>2. Spot(log) = {}
  <2>1. ASSUME NEW e \in Spot(log) PROVE FALSE
    <3>1. e[1] \in PartitionID /\ e[2] \in 1..Applied(Leader(e[1]))
      BY <1>1, SpotFacts, SpotIsPair
    <3>2. log[Leader(e[1])] = << >>
      BY <1>1, <3>1, SpotFacts DEF SimulatorInit, ReplicationInit, ClusterInit
    <3> QED BY <3>1, <3>2 DEF Applied
  <2> QED BY <2>1
<1>3. lastID \in 0..MaxIDs
  BY SimulatorAssumption DEF SimulatorInit
<1>4. LogInv(log, lastID)
  BY <1>2 DEF LogInv, Numbered, NumbersUnique, InPlace, ParentsStored
<1>5. SessionInv(log, required)
  <2>1. required = [s \in Session |-> [p \in PartitionID |-> 0]]
    BY DEF SimulatorInit
  <2>2. required \in [Session -> [PartitionID -> Nat]]
    BY <2>1
  <2>3. \A s \in Session, p \in PartitionID : required[s][p] = 0
    BY <2>1
  <2> QED BY <1>2, <2>2, <2>3 DEF SessionInv, RequiredIsOwn, OwnIsRequired
<1>6. HistoryInv(log, history)
  <2>1. history = << >>
    BY DEF SimulatorInit
  <2>2. history \in Seq(Event) /\ Len(history) = 0
    <3> HIDE DEF Event
    <3> QED BY <2>1
  <2> QED BY <1>2, <2>2 DEF HistoryInv
<1> QED BY <1>1, <1>3, <1>4, <1>5, <1>6 DEF SimulatorInv

LEMMA SimulatorInductive ==
  SimulatorInv /\ [SimulatorNext]_simulatorVars => SimulatorInv'
<1> SUFFICES ASSUME SimulatorInv, [SimulatorNext]_simulatorVars PROVE SimulatorInv'
  OBVIOUS
<1>1. ASSUME NEW s \in Session, CreateThread(s) PROVE SimulatorInv'
  BY <1>1, CreateThreadPreserves
<1>2. ASSUME NEW s \in Session, NEW thread \in {x.id : x \in Stored(Thread)},
             NEW parent \in Parents(thread), Reply(s, thread, parent)
      PROVE  SimulatorInv'
  BY <1>2, ReplyPreserves
<1>3. ASSUME NEW s \in Session, NEW thread \in {x.id : x \in Stored(Thread)},
             ViewThread(s, thread)
      PROVE  SimulatorInv'
  BY <1>3, ViewThreadPreserves
<1>4. ASSUME NEW s \in Session, ViewRecent(s) PROVE SimulatorInv'
  BY <1>4, ViewRecentPreserves
<1>5. CASE Tick
  BY <1>5, TickPreserves
<1>6. CASE UNCHANGED simulatorVars
  <2>1. /\ log' = log /\ lastID' = lastID /\ required' = required /\ history' = history
        /\ UNCHANGED replicationVars
    BY <1>6 DEF simulatorVars, replicationVars
  <2>2. ReplicationInv'
    BY <2>1, ReplicationInductive DEF SimulatorInv
  <2> QED BY <2>1, <2>2 DEF SimulatorInv
<1> QED BY <1>1, <1>2, <1>3, <1>4, <1>5, <1>6 DEF SimulatorNext

LEMMA SimulatorInvariant == SimulatorSpec => []SimulatorInv
  BY SimulatorInitially, SimulatorInductive, PTL DEF SimulatorSpec

-----------------------------------------------------------------------------
(* What the invariant says of the runs' properties.                        *)

LEMMA InvSimulatorTypes == SimulatorInv => SimulatorTypeOK
  BY InvFacts DEF SimulatorInv, SimulatorTypeOK, ReplicationInv, SessionInv, HistoryInv

\* The state of the board has its type.
THEOREM SimulatorTypesHold == SimulatorSpec => []SimulatorTypeOK
  BY SimulatorInvariant, InvSimulatorTypes, PTL

\* Two hits of one post are one.
LEMMA HitOfOnePost ==
  ASSUME LogInv(log, lastID), NEW a, EventInv(log, a), NEW g \in a.seen, NEW h \in a.seen,
         g.post.id = h.post.id
  PROVE  g = h
  <1>1. PICK e \in Spot(log) : g = HitOf(log, e)
    BY DEF EventInv, SeenIsStored
  <1>2. PICK f \in Spot(log) : h = HitOf(log, f)
    BY DEF EventInv, SeenIsStored
  <1>3. ItemAt(log, e).id = ItemAt(log, f).id
    BY <1>1, <1>2 DEF HitOf
  <1>4. e = f
    BY <1>3 DEF LogInv, NumbersUnique
  <1> QED BY <1>1, <1>2, <1>4

LEMMA InvReadsAreReal == SimulatorInv => ReadsAreReal
<1> SUFFICES ASSUME SimulatorInv PROVE ReadsAreReal
  OBVIOUS
<1>1. /\ ReplicationInv /\ LogInv(log, lastID) /\ HistoryInv(log, history)
  BY InvFacts
<1>2. ASSUME NEW j \in Answered, NEW g \in history[j].seen, NEW h \in history[j].seen
      PROVE  /\ g.post.id = h.post.id => g = h
             /\ \E i \in Answered : i < j /\ h.post \in history[i].wrote
             /\ log[Leader(h.part)][h.pos] = [t |-> h.t, item |-> h.post]
  <2>1. j \in 1..Len(history) /\ EventInv(log, history[j])
    BY <1>1 DEF Answered, HistoryInv
  <2>2. g.post.id = h.post.id => g = h
    BY <1>1, <2>1, HitOfOnePost
  <2>3. \E i \in Answered : i < j /\ h.post \in history[i].wrote
    <3>1. Confirmed(history, j, h.post)
      BY <1>1, <2>1 DEF HistoryInv
    <3> QED BY <3>1 DEF Confirmed, Answered
  <2>4. log[Leader(h.part)][h.pos] = [t |-> h.t, item |-> h.post]
    <3>1. PICK e \in Spot(log) : h = HitOf(log, e)
      BY <2>1 DEF EventInv, SeenIsStored
    <3>2. h.part = e[1] /\ h.pos = e[2] /\ h.t = Rec(log, e).t /\ h.post = Rec(log, e).item
      BY <3>1 DEF HitOf, ItemAt
    <3>3. Rec(log, e) \in Record
      BY <1>1, SpotFacts
    <3>4. Rec(log, e) = [t |-> Rec(log, e).t, item |-> Rec(log, e).item]
      BY <3>3 DEF Record
    <3>5. Rec(log, e) = log[Leader(h.part)][h.pos]
      BY <3>2 DEF Rec
    <3> QED BY <3>2, <3>4, <3>5
  <2> QED BY <2>2, <2>3, <2>4
<1> QED BY <1>2 DEF ReadsAreReal

\* With every router, partitioner and lag, what a read shows is what a client
\* was told has been written, once, and at the leader's place for it.
THEOREM SimulatorReadsAreReal == SimulatorSpec => []ReadsAreReal
  BY SimulatorInvariant, InvReadsAreReal, PTL


-----------------------------------------------------------------------------
(* Sessions.                                                               *)

LEMMA InvTracksWrites == ASSUME SimulatorInv, OneSessionEach PROVE SessionTracksOwnWrites
<1>1. ReplicationInv /\ SessionInv(log, required)
  BY InvFacts
<1>2. ASSUME NEW s \in Session, NEW p \in PartitionID
      PROVE  LET own == {i \in 1..Applied(Leader(p)) :
                              log[Leader(p)][i].item.author = UserOf[s]}
             IN  /\ \A i \in own : i <= required[s][p]
                 /\ required[s][p] \in own \cup {0}
  <2> DEFINE own == {i \in 1..Applied(Leader(p)) :
                        log[Leader(p)][i].item.author = UserOf[s]}
  <2>1. ASSUME NEW i \in own PROVE i <= required[s][p]
    <3>1. <<p, i>> \in Spot(log) /\ ItemAt(log, <<p, i>>).author = UserOf[s]
      BY <1>1, SpotFacts DEF ItemAt
    <3>2. <<p, i>>[2] <= required[s][<<p, i>>[1]]
      BY <1>1, <3>1 DEF SessionInv, OwnIsRequired
    <3> QED BY <3>2
  <2>2. ASSUME required[s][p] # 0 PROVE required[s][p] \in own
    <3> DEFINE e == <<p, required[s][p]>>
    <3>1. e \in Spot(log) /\ ItemAt(log, e).author = UserOf[s]
      BY <1>1, <2>2 DEF SessionInv, RequiredIsOwn
    <3>2. e[1] = p /\ e[2] = required[s][p]
      OBVIOUS
    <3>3. e[2] \in 1..Applied(Leader(e[1]))
      BY <1>1, <3>1, SpotFacts
    <3> QED BY <3>1, <3>2, <3>3 DEF ItemAt, Rec
  <2> QED BY <2>1, <2>2
<1> QED BY <1>2 DEF SessionTracksOwnWrites

\* A session of a user who has no other requires, in each partition, exactly
\* the last record of the user: Session.RecordWrite neither misses a write nor
\* asks for more than it has written.
THEOREM SimulatorTracksWrites ==
  ASSUME OneSessionEach
  PROVE  SimulatorSpec => []SessionTracksOwnWrites
<1>1. SimulatorInv => SessionTracksOwnWrites
  BY InvTracksWrites
<1> QED BY <1>1, SimulatorInvariant, PTL

LEMMA InvReadsOwnWrites == ASSUME SimulatorInv, KeepsOwn PROVE ReadAfterWrite
<1>1. HistoryInv(log, history)
  BY InvFacts
<1>2. ASSUME NEW i \in Answered, NEW j \in Viewed(OpenThread), NEW post \in history[i].wrote,
             i < j, history[i].user = history[j].user, post.thread \in history[j].thread
      PROVE  post.id \in SeenIDs(j)
  <2>1. i \in 1..Len(history) /\ j \in 1..Len(history) /\ history[j].phase = "Ok"
    BY DEF Answered, Viewed
  <2>2. Owes(history[i], history[j])
    BY <1>1, <1>2, <2>1 DEF HistoryInv
  <2>3. ShowsWrittenOf(history[i], history[j])
    BY <1>2, <2>1, <2>2 DEF Owes, Expects
  <2>4. PICK g \in history[j].seen : g.post = post
    BY <1>2, <2>3 DEF ShowsWrittenOf
  <2> QED BY <2>4 DEF SeenIDs
<1> QED BY <1>2 DEF ReadAfterWrite

\* The leader router, and the read-your-writes router for users with one
\* session each, show users what they wrote: for all delays, and whatever the
\* partitioner, the other sessions and the limit do.
THEOREM SimulatorReadsOwnWrites ==
  ASSUME OneSessionEach, Router \in {"Leader", "ReadYourWrites"}
  PROVE  SimulatorSpec => []ReadAfterWrite
<1>1. SimulatorInv => ReadAfterWrite
  BY InvReadsOwnWrites DEF KeepsOwn
<1> QED BY <1>1, SimulatorInvariant, PTL

LEMMA InvMonotonicReads == ASSUME SimulatorInv, Router = "Leader" PROVE MonotonicReads
<1>1. HistoryInv(log, history)
  BY InvFacts
<1>2. ASSUME NEW i \in Viewed(OpenThread), NEW j \in Viewed(OpenThread), i < j,
             history[i].thread = history[j].thread, NEW id \in SeenIDs(i),
             history[j].thread # {}
      PROVE  id \in SeenIDs(j)
  <2>1. i \in 1..Len(history) /\ j \in 1..Len(history) /\ history[j].phase = "Ok"
    BY DEF Answered, Viewed
  <2>2. Owes(history[i], history[j])
    BY <1>1, <1>2, <2>1 DEF HistoryInv
  <2>3. ShowsAllOf(history[i], history[j])
    BY <2>1, <2>2 DEF Owes
  <2>4. PICK g \in history[i].seen : id = g.post.id
    BY DEF SeenIDs
  <2>5. PICK k \in history[j].seen : k.post.id = g.post.id
    BY <1>2, <2>3 DEF ShowsAllOf
  <2> QED BY <2>4, <2>5 DEF SeenIDs
<1>3. \A j \in Viewed(OpenThread) : history[j].thread # {}
  <2>1. ASSUME NEW j \in Viewed(OpenThread) PROVE history[j].thread # {}
    <3>1. j \in 1..Len(history) /\ history[j].op = OpenThread
      BY DEF Viewed, Answered
    <3>2. EventInv(log, history[j])
      BY <1>1, <3>1 DEF HistoryInv
    <3> QED BY <3>1, <3>2 DEF EventInv
  <2> QED BY <2>1
<1> QED BY <1>2, <1>3 DEF MonotonicReads

\* With all reads at the leaders nobody ever sees less of a thread than
\* before.  The other two routers do not promise it.
THEOREM SimulatorLeaderIsMonotonic ==
  ASSUME Router = "Leader"
  PROVE  SimulatorSpec => []MonotonicReads
<1>1. SimulatorInv => MonotonicReads
  BY InvMonotonicReads
<1> QED BY <1>1, SimulatorInvariant, PTL


-----------------------------------------------------------------------------
(* How old a read can be.                                                  *)

\* A reader of a thread sees every reply that anybody wrote in it at least
\* the longest delay before, whatever replicas the read is sent to.
ReadsAreFresh ==
    \A i \in Answered, j \in Viewed(OpenThread) :
        \A post \in history[i].wrote :
            (/\ i < j
             /\ history[i].t + Slack <= history[j].t
             /\ post.thread \in history[j].thread) => post.id \in SeenIDs(j)

\* A reader of a thread sees what has been written in it so far, by anybody,
\* and nothing else.
ReadsAreCurrent ==
    \A j \in Viewed(OpenThread) :
        {h.post : h \in history[j].seen} =
            UNION {{post \in history[i].wrote : post.thread \in history[j].thread} :
                      i \in {k \in Answered : k < j}}

LEMMA AnswerShows ==
  ASSUME SimulatorInv, NEW i \in Answered, NEW j \in Viewed(OpenThread), i < j,
         Expects(history[i], history[j].user, history[j].t),
         NEW post \in history[i].wrote, post.thread \in history[j].thread
  PROVE  \E g \in history[j].seen : g.post = post
<1>1. i \in 1..Len(history) /\ j \in 1..Len(history) /\ history[j].phase = "Ok"
  BY DEF Answered, Viewed
<1>2. Owes(history[i], history[j])
  BY <1>1, InvFacts DEF HistoryInv
<1> QED BY <1>1, <1>2 DEF Owes, ShowsWrittenOf

LEMMA InvReadsAreFresh == ASSUME SimulatorInv PROVE ReadsAreFresh
<1>1. ASSUME NEW i \in Answered, NEW j \in Viewed(OpenThread), NEW post \in history[i].wrote,
             i < j, history[i].t + Slack <= history[j].t, post.thread \in history[j].thread
      PROVE  post.id \in SeenIDs(j)
  <2>1. PICK g \in history[j].seen : g.post = post
    BY <1>1, AnswerShows DEF Expects
  <2> QED BY <2>1 DEF SeenIDs
<1> QED BY <1>1 DEF ReadsAreFresh

\* The lag of replicas is bounded for readers too: for every router, also the
\* random one, every partitioner and all delays.
THEOREM SimulatorReadsAreFresh == SimulatorSpec => []ReadsAreFresh
<1>1. SimulatorInv => ReadsAreFresh
  BY InvReadsAreFresh
<1> QED BY <1>1, SimulatorInvariant, PTL

LEMMA InvReadsAreCurrent == ASSUME SimulatorInv, Router = "Leader" PROVE ReadsAreCurrent
<1>1. HistoryInv(log, history)
  BY InvFacts
<1>2. ASSUME NEW j \in Viewed(OpenThread), NEW i \in Answered, i < j,
             NEW post \in history[i].wrote, post.thread \in history[j].thread
      PROVE  \E g \in history[j].seen : g.post = post
  BY <1>2, AnswerShows DEF Expects
<1>3. ASSUME NEW j \in Viewed(OpenThread), NEW g \in history[j].seen
      PROVE  \E i \in Answered : i < j /\ g.post \in history[i].wrote
                                       /\ g.post.thread \in history[j].thread
  <2>1. j \in 1..Len(history) /\ EventInv(log, history[j]) /\ history[j].op = OpenThread
    BY <1>1 DEF Viewed, Answered, HistoryInv
  <2>2. g.post.thread \in history[j].thread
    BY <2>1 DEF EventInv, SeenIsStored
  <2>3. Confirmed(history, j, g.post)
    BY <1>1, <2>1 DEF HistoryInv
  <2> QED BY <2>2, <2>3 DEF Confirmed, Answered
<1> QED BY <1>2, <1>3 DEF ReadsAreCurrent

\* With all reads at the leaders the board is what one copy would be: a view
\* of a thread shows exactly the replies that were confirmed before.
THEOREM SimulatorLeaderIsCurrent ==
  ASSUME Router = "Leader"
  PROVE  SimulatorSpec => []ReadsAreCurrent
<1>1. SimulatorInv => ReadsAreCurrent
  BY InvReadsAreCurrent
<1> QED BY <1>1, SimulatorInvariant, PTL

-----------------------------------------------------------------------------
(* Replies and what they reply to.                                         *)

\* The partitioners that keep a reply with its parent: one partition, or a
\* partition for each thread whose replies stay within it.
KeepsParents == Partitioner = "Single" \/ (Partitioner = "ByThread" /\ SameThreadReplies)

LEMMA ParentPrecedes ==
  ASSUME SimulatorInv, KeepsParents, NEW e \in Spot(log), ItemAt(log, e) \in Post,
         NEW f \in Spot(log), ItemAt(log, f).id \in ItemAt(log, e).replyTo
  PROVE  IsParent(log, f, e) /\ f[1] = e[1] /\ Before(HitOf(log, f), HitOf(log, e))
  <1>1. ReplicationInv /\ LogInv(log, lastID)
    BY InvFacts
  <1>2. PICK d \in Spot(log) : ItemAt(log, d).id = ItemAt(log, f).id /\ IsParent(log, d, e)
    BY <1>1 DEF LogInv, ParentsStored
  <1>3. d = f
    BY <1>1, <1>2 DEF LogInv, NumbersUnique
  <1>4. IsParent(log, f, e) /\ ItemAt(log, f) \in Post
    BY <1>2, <1>3 DEF IsParent
  <1>5. f[1] = e[1]
    <2>1. CASE Partitioner = "Single"
      BY <1>1, <1>4, <2>1 DEF LogInv, InPlace
    <2>2. CASE Partitioner = "ByThread" /\ SameThreadReplies
      <3>1. ItemAt(log, f).thread = ItemAt(log, e).thread
        BY <1>4, <2>2 DEF IsParent
      <3> QED BY <1>1, <1>4, <2>2, <3>1 DEF LogInv, InPlace
    <2> QED BY <2>1, <2>2 DEF KeepsParents
  <1>6. f[2] < e[2] /\ f[2] \in Nat /\ e[2] \in Nat /\ f[2] > 0 /\ e[1] \in PartitionID
    BY <1>4, <1>5, SpotIsPair DEF IsParent
  <1>7. Rec(log, f).t <= Rec(log, e).t /\ Rec(log, f).t \in Nat /\ Rec(log, e).t \in Nat
    <2>1. e[2] \in 1..Applied(Leader(e[1])) /\ Rec(log, f) \in Record /\ Rec(log, e) \in Record
      BY <1>1, SpotFacts
    <2>2. f[2] \in 1..e[2]
      BY <1>6
    <2>3. log[Leader(e[1])][f[2]].t <= log[Leader(e[1])][e[2]].t
      BY <1>1, <1>6, <2>1, <2>2 DEF ReplicationInv, LeaderClock
    <2> QED BY <1>5, <2>1, <2>3 DEF Rec, Record
  <1>8. /\ HitOf(log, f).t = Rec(log, f).t /\ HitOf(log, e).t = Rec(log, e).t
        /\ HitOf(log, f).part = f[1] /\ HitOf(log, e).part = e[1]
        /\ HitOf(log, f).pos = f[2] /\ HitOf(log, e).pos = e[2]
    BY DEF HitOf
  <1>9. Before(HitOf(log, f), HitOf(log, e))
    BY <1>5, <1>6, <1>7, <1>8 DEF Before
  <1> QED BY <1>4, <1>5, <1>9

LEMMA InvParentTogether == ASSUME SimulatorInv, KeepsParents PROVE ParentAndReplyTogether
<1>1. ReplicationInv
  BY InvFacts
<1>2. ASSUME NEW p \in PartitionID, NEW r \in PartitionID,
             NEW i \in 1..Applied(Leader(p)), NEW k \in 1..Applied(Leader(r)),
             log[Leader(p)][i].item \in Post,
             log[Leader(r)][k].item.id \in log[Leader(p)][i].item.replyTo
      PROVE  p = r
  <2>1. /\ <<p, i>> \in Spot(log) /\ ItemAt(log, <<p, i>>) = log[Leader(p)][i].item
        /\ <<r, k>> \in Spot(log) /\ ItemAt(log, <<r, k>>) = log[Leader(r)][k].item
    BY <1>1, SpotFacts DEF ItemAt
  <2>2. <<r, k>>[1] = <<p, i>>[1]
    BY <1>2, <2>1, ParentPrecedes
  <2> QED BY <2>2
<1> QED BY <1>2 DEF ParentAndReplyTogether

\* A post and the replies to it share a partition under the partitioners and
\* workloads that keep threads whole, and what else is stored does not matter.
THEOREM SimulatorParentTogether ==
  ASSUME KeepsParents
  PROVE  SimulatorSpec => []ParentAndReplyTogether
<1>1. SimulatorInv => ParentAndReplyTogether
  BY InvParentTogether
<1> QED BY <1>1, SimulatorInvariant, PTL

LEMMA InvConsistentPrefix == ASSUME SimulatorInv, KeepsParents PROVE ConsistentPrefix
<1>1. ReplicationInv /\ LogInv(log, lastID) /\ HistoryInv(log, history)
  BY InvFacts
<1>2. ASSUME NEW i \in Answered, NEW h \in history[i].seen, NEW id \in h.post.replyTo
      PROVE  \E e, f \in Spot(log) :
                /\ h = HitOf(log, e) /\ ItemAt(log, f).id = id
                /\ IsParent(log, f, e) /\ f[1] = e[1]
                /\ Before(HitOf(log, f), HitOf(log, e))
  <2>1. EventInv(log, history[i])
    BY <1>1 DEF Answered, HistoryInv
  <2>2. PICK e \in Spot(log) : ItemAt(log, e) \in Post /\ h = HitOf(log, e)
    BY <2>1 DEF EventInv, SeenIsStored
  <2>3. id \in ItemAt(log, e).replyTo
    BY <1>2, <2>2 DEF HitOf
  <2>4. PICK f \in Spot(log) : ItemAt(log, f).id = id
    BY <1>1, <2>2, <2>3 DEF LogInv, ParentsStored
  <2> QED BY <2>2, <2>3, <2>4, ParentPrecedes
<1>3. RepliesFollowParents
  <2>1. ASSUME NEW i \in Answered, NEW g \in history[i].seen, NEW h \in history[i].seen,
               g.post.id \in h.post.replyTo
        PROVE  Before(g, h)
    <3>1. PICK e \in Spot(log), f \in Spot(log) :
             /\ h = HitOf(log, e) /\ ItemAt(log, f).id = g.post.id
             /\ Before(HitOf(log, f), HitOf(log, e))
      BY <1>2, <2>1
    <3>2. PICK d \in Spot(log) : g = HitOf(log, d)
      BY <1>1 DEF Answered, HistoryInv, EventInv, SeenIsStored
    <3>3. ItemAt(log, d).id = ItemAt(log, f).id
      BY <3>1, <3>2 DEF HitOf
    <3>4. d = f
      BY <1>1, <3>3 DEF LogInv, NumbersUnique
    <3> QED BY <3>1, <3>2, <3>4
  <2> QED BY <2>1 DEF RepliesFollowParents
<1>4. ASSUME NEW i \in Viewed(OpenRecent), NEW h \in history[i].seen, NEW id \in h.post.replyTo
      PROVE  id \in SeenIDs(i) \/ CutByLimit(i, id)
  <2>1. i \in Answered /\ EventInv(log, history[i]) /\ history[i].op = OpenRecent
    BY <1>1 DEF Viewed, Answered, HistoryInv
  <2>2. PICK e \in Spot(log), f \in Spot(log) :
           /\ h = HitOf(log, e) /\ ItemAt(log, f).id = id
           /\ IsParent(log, f, e) /\ f[1] = e[1]
    BY <1>2, <1>4, <2>1
  <2>3. HitOf(log, f) \in history[i].seen \/ CutBefore(history[i], HitOf(log, f))
    BY <1>4, <2>1, <2>2 DEF EventInv, ParentsShown
  <2>4. CASE HitOf(log, f) \in history[i].seen
    <3>1. HitOf(log, f).post.id = id
      BY <2>2 DEF HitOf
    <3> QED BY <2>4, <3>1 DEF SeenIDs
  <2>5. CASE CutBefore(history[i], HitOf(log, f))
    <3>1. ASSUME NEW p \in PartitionID, NEW k \in 1..Applied(Leader(p)),
                 log[Leader(p)][k].item.id = id, NEW x \in history[i].seen
          PROVE  Before([t |-> log[Leader(p)][k].t, part |-> p, pos |-> k], x)
      <4>1. <<p, k>> \in Spot(log) /\ Rec(log, <<p, k>>) = log[Leader(p)][k]
        BY <1>1, SpotFacts
      <4>2. ItemAt(log, <<p, k>>).id = ItemAt(log, f).id
        BY <2>2, <3>1, <4>1 DEF ItemAt
      <4>3. <<p, k>> = f
        BY <1>1, <4>1, <4>2 DEF LogInv, NumbersUnique
      <4>4. HitOf(log, f).t = log[Leader(p)][k].t /\ HitOf(log, f).part = p /\ HitOf(log, f).pos = k
        BY <4>1, <4>3 DEF HitOf
      <4>5. Before(HitOf(log, f), x)
        BY <2>5, <3>1 DEF CutBefore
      <4> QED BY <4>4, <4>5 DEF Before
    <3> QED BY <2>5, <3>1 DEF CutByLimit, CutBefore
  <2> QED BY <2>3, <2>4, <2>5
<1> QED BY <1>3, <1>4 DEF ConsistentPrefix

\* Where replies stay with their parents, nobody sees a reply before, or
\* without, the post it replies to: for every router, lag and limit, and with
\* each partition answered by a replica that lags differently.
THEOREM SimulatorKeepsPrefix ==
  ASSUME KeepsParents
  PROVE  SimulatorSpec => []ConsistentPrefix
<1>1. SimulatorInv => ConsistentPrefix
  BY InvConsistentPrefix
<1> QED BY <1>1, SimulatorInvariant, PTL

-----------------------------------------------------------------------------
(* What the board is built on.                                             *)

LEMMA StepIsReplication ==
  SimulatorInv /\ [SimulatorNext]_simulatorVars => [ReplicationNext]_replicationVars
<1> SUFFICES ASSUME SimulatorInv, [SimulatorNext]_simulatorVars
             PROVE  [ReplicationNext]_replicationVars
  OBVIOUS
<1>1. ASSUME NEW s, NEW p \in PartitionID, NEW item \in Item, Create(s, p, item)
      PROVE  ReplicationNext
  BY <1>1 DEF Create, ReplicationNext
<1>2. ASSUME NEW s \in Session, CreateThread(s) PROVE ReplicationNext
  BY <1>1, <1>2, CreateThreadStores, SimulatorAssumption
<1>3. ASSUME NEW s \in Session, NEW thread \in {x.id : x \in Stored(Thread)},
             NEW parent \in Parents(thread), Reply(s, thread, parent)
      PROVE  ReplicationNext
  BY <1>1, <1>3, ReplyStores, SimulatorAssumption
<1>4. CASE Tick
  BY <1>4 DEF Tick, ReplicationNext
<1>5. ASSUME NEW s \in Session, ViewRecent(s) \/ \E thread : ViewThread(s, thread)
      PROVE  UNCHANGED replicationVars
  BY <1>5 DEF ViewRecent, ViewThread, replicationVars
<1>6. CASE UNCHANGED simulatorVars
  BY <1>6 DEF simulatorVars, replicationVars
<1> QED BY <1>2, <1>3, <1>4, <1>5, <1>6 DEF SimulatorNext

\* Whatever sessions do, the store below the board is the replication of
\* Replication.tla, and all that is proved of its safety holds there.
THEOREM SimulatorRefinesReplication ==
  SimulatorSpec => ReplicationInit /\ [][ReplicationNext]_replicationVars
<1>1. SimulatorInit => ReplicationInit
  BY DEF SimulatorInit
<1> QED BY <1>1, StepIsReplication, SimulatorInvariant, PTL DEF SimulatorSpec

\* And so the board stands on an abstract replicated log, whose followers
\* neither lose a record nor lag behind for longer than their longest delay.
THEOREM SimulatorBoundsStaleness ==
  SimulatorSpec => R!SafeSpec /\ [](NoLossNoDuplicate /\ BoundedStaleness)
<1>1. SimulatorInv => NoLossNoDuplicate /\ BoundedStaleness
  BY OneCopy, NotStale DEF SimulatorInv
<1>2. SimulatorInit => R!Init
  BY AbstractInit DEF SimulatorInit
<1>3. SimulatorInv /\ [SimulatorNext]_simulatorVars => [R!Next]_log
  BY StepIsReplication, ReplicationStep DEF SimulatorInv
<1> QED BY <1>1, <1>2, <1>3, SimulatorInvariant, PTL DEF SimulatorSpec, R!SafeSpec

\* No session, router or partitioner can make a replica lose what has reached
\* it, and a board at rest is consistent: where nothing is under way any more,
\* a read from a follower is a read from its leader.
THEOREM SimulatorSettles == SimulatorSpec => NothingForgotten /\ []QuietIsEqual
<1>1. SimulatorInv => QuietIsEqual
  BY NothingLeftBehind DEF SimulatorInv
<1>2. SimulatorInv /\ [SimulatorNext]_simulatorVars => [ForgetsNothing]_clusterVars
  BY StepIsReplication, StepForgetsNothing DEF SimulatorInv
<1> QED BY <1>1, <1>2, SimulatorInvariant, PTL DEF SimulatorSpec, NothingForgotten, ForgetsNothing

-----------------------------------------------------------------------------
(* The checker.  What its loop computes for a history of any length is     *)
(* written down without the loop, and shown to satisfy its equation.       *)

Answers(h, n, user) == {k \in 1..n : h[k].phase = "Ok" /\ h[k].user = user}

\* The answer at j lacks a post that its user wrote before in its thread.
Misses(h, j) ==
    /\ h[j].phase = "Ok" /\ h[j].op = OpenThread /\ h[j].wrote = {}
    /\ \E i \in Answers(h, j - 1, h[j].user) : \E post \in h[i].wrote :
          post.thread \in h[j].thread /\ \A g \in h[j].seen : g.post.id # post.id

\* The loop goes on after k, in as much of the history as n events.
GoesOn(h, n, k) == \A j \in 1..n : Misses(h, j) => k < j

\* What the checker has noted of a user's posts after n events.
Noted(h, n, user) ==
    {post \in Post : \E k \in Answers(h, n, user) : GoesOn(h, n, k) /\ post \in h[k].wrote}

Notes(h, n) == [user \in User |-> Noted(h, n, user)]
Clean(h, n) == \A j \in 1..n : ~Misses(h, j)

CheckedUpTo(h, n) == [wrote |-> Notes(h, n), passed |-> Clean(h, n)]

LEMMA CheckedResult ==
  ASSUME NEW h, NEW n
  PROVE  /\ Clean(h, n) => CheckedUpTo(h, n) = [wrote |-> Notes(h, n), passed |-> TRUE]
         /\ ~Clean(h, n) => CheckedUpTo(h, n) = [wrote |-> Notes(h, n), passed |-> FALSE]
         /\ CheckedUpTo(h, n).passed <=> Clean(h, n)
  <1>1. CASE Clean(h, n)
    <2>1. Clean(h, n) = TRUE
      BY <1>1, Zenon DEF Clean
    <2>2. CheckedUpTo(h, n) = [wrote |-> Notes(h, n), passed |-> TRUE]
      BY <2>1, Zenon DEF CheckedUpTo
    <2> QED BY <1>1, <2>2
  <1>2. CASE ~Clean(h, n)
    <2>1. Clean(h, n) = FALSE
      BY <1>2, Zenon DEF Clean
    <2>2. CheckedUpTo(h, n) = [wrote |-> Notes(h, n), passed |-> FALSE]
      BY <2>1, Zenon DEF CheckedUpTo
    <2> QED BY <1>2, <2>2
  <1> QED BY <1>1, <1>2

LEMMA CheckedNothing == ASSUME NEW h PROVE CheckedUpTo(h, 0) = Unread
  <1>1. Clean(h, 0)
    BY DEF Clean
  <1>2. Notes(h, 0) = [user \in User |-> {}]
    BY DEF Notes, Noted, Answers
  <1> QED BY <1>1, <1>2, CheckedResult DEF Unread

\* What one event does to the result, by the cases of the loop's body.
LEMMA OneEvent ==
  ASSUME NEW W, NEW e
  PROVE  LET on == [wrote |-> W, passed |-> TRUE]
             off == [wrote |-> W, passed |-> FALSE]
         IN  /\ CheckEvent(off, e) = off
             /\ e.phase # "Ok" => CheckEvent(on, e) = on
             /\ e.phase = "Ok" /\ e.wrote # {} =>
                    CheckEvent(on, e) =
                        [wrote |-> [W EXCEPT ![e.user] = @ \cup e.wrote], passed |-> TRUE]
             /\ e.phase = "Ok" /\ e.wrote = {} /\ e.op # OpenThread => CheckEvent(on, e) = on
             /\ e.phase = "Ok" /\ e.wrote = {} /\ e.op = OpenThread =>
                    CheckEvent(on, e) = IF ShowsOwn(W, e) THEN on ELSE off
  <1> DEFINE on == [wrote |-> W, passed |-> TRUE]
             off == [wrote |-> W, passed |-> FALSE]
  <1>1. CheckEvent(off, e) = off
    BY DEF CheckEvent
  <1>2. ASSUME e.phase # "Ok" PROVE CheckEvent(on, e) = on
    BY <1>2 DEF CheckEvent
  <1>3. ASSUME e.phase = "Ok", e.wrote # {}
        PROVE  CheckEvent(on, e) =
                   [wrote |-> [W EXCEPT ![e.user] = @ \cup e.wrote], passed |-> TRUE]
    BY <1>3 DEF CheckEvent
  <1>4. ASSUME e.phase = "Ok", e.wrote = {}, e.op # OpenThread PROVE CheckEvent(on, e) = on
    BY <1>4 DEF CheckEvent
  <1>5. ASSUME e.phase = "Ok", e.wrote = {}, e.op = OpenThread
        PROVE  CheckEvent(on, e) = IF ShowsOwn(W, e) THEN on ELSE off
    <2>1. CASE ShowsOwn(W, e)
      <3>1. ShowsOwn(W, e) = TRUE
        BY <2>1 DEF ShowsOwn
      <3> QED BY <1>5, <3>1 DEF CheckEvent
    <2>2. CASE ~ShowsOwn(W, e)
      <3>1. ShowsOwn(W, e) = FALSE
        BY <2>2 DEF ShowsOwn
      <3>2. CheckEvent(on, e) = off
        BY <1>5, <3>1 DEF CheckEvent
      <3> QED BY <2>2, <3>2
    <2> QED BY <2>1, <2>2
  <1> QED BY <1>1, <1>2, <1>3, <1>4, <1>5

\* One event more: what is noted, and whether the loop still goes on.
LEMMA NotedNext ==
  ASSUME NEW h \in Seq(Event), NEW n \in 1..Len(h), NEW user \in User
  PROVE  /\ (\E j \in 1..(n - 1) : Misses(h, j)) => Noted(h, n, user) = Noted(h, n - 1, user)
         /\ (\A j \in 1..(n - 1) : ~Misses(h, j)) =>
                Noted(h, n, user) = Noted(h, n - 1, user) \cup
                    (IF h[n].phase = "Ok" /\ h[n].user = user THEN h[n].wrote ELSE {})
  <1>1. n \in Nat /\ n - 1 \in Nat /\ n > 0 /\ \A j \in 1..n : j \in 1..(n - 1) \/ j = n
    OBVIOUS
  <1>2. /\ \A j \in 1..(n - 1) : j \in 1..n /\ j < n /\ j \in Nat
        /\ n \in 1..n /\ n \notin 1..(n - 1)
    OBVIOUS
  <1>3. Answers(h, n, user) = Answers(h, n - 1, user) \cup
            (IF h[n].phase = "Ok" /\ h[n].user = user THEN {n} ELSE {})
    BY <1>1, <1>2 DEF Answers
  <1>4. \A k \in 1..(n - 1) : GoesOn(h, n, k) <=> GoesOn(h, n - 1, k)
    BY <1>1, <1>2 DEF GoesOn
  <1>5. h[n].wrote \subseteq Post
    <2>1. h[n] \in Event
      OBVIOUS
    <2> QED BY <2>1 DEF Event
  <1>6. ASSUME NEW j \in 1..(n - 1), Misses(h, j)
        PROVE  Noted(h, n, user) = Noted(h, n - 1, user)
    <2>1. ~GoesOn(h, n, n)
      BY <1>2, <1>6 DEF GoesOn
    <2> QED BY <1>3, <1>4, <2>1 DEF Noted, Answers
  <1>7. ASSUME \A j \in 1..(n - 1) : ~Misses(h, j)
        PROVE  Noted(h, n, user) = Noted(h, n - 1, user) \cup
                   (IF h[n].phase = "Ok" /\ h[n].user = user THEN h[n].wrote ELSE {})
    <2>1. CASE Misses(h, n)
      <3>1. h[n].wrote = {}
        BY <2>1 DEF Misses
      <3>2. Noted(h, n, user) = Noted(h, n - 1, user)
        BY <1>3, <1>4, <3>1 DEF Noted, Answers
      <3> QED BY <3>1, <3>2
    <2>2. CASE ~Misses(h, n)
      <3>1. GoesOn(h, n, n)
        BY <1>1, <1>7, <2>2 DEF GoesOn
      <3> QED BY <1>3, <1>4, <1>5, <3>1 DEF Noted, Answers
    <2> QED BY <2>1, <2>2
  <1> QED BY <1>6, <1>7

LEMMA CheckedNext ==
  ASSUME NEW h \in Seq(Event), NEW n \in 1..Len(h)
  PROVE  CheckedUpTo(h, n) = CheckEvent(CheckedUpTo(h, n - 1), h[n])
  <1> DEFINE e == h[n]
             W == Notes(h, n - 1)
  <1>1. n \in 1..n /\ \A j \in 1..n : j \in 1..(n - 1) \/ j = n
    OBVIOUS
  <1>2. \A j \in 1..(n - 1) : j \in 1..n
    OBVIOUS
  <1>3. e.user \in User
    <2>1. e \in Event
      OBVIOUS
    <2> QED BY <2>1 DEF Event
  <1>4. Clean(h, n) <=> (Clean(h, n - 1) /\ ~Misses(h, n))
    BY <1>1, <1>2 DEF Clean
  <1>5. CASE ~Clean(h, n - 1)
    <2>1. Notes(h, n) = W
      BY <1>5, NotedNext DEF Clean, Notes
    <2>2. /\ CheckedUpTo(h, n) = [wrote |-> W, passed |-> FALSE]
          /\ CheckedUpTo(h, n - 1) = [wrote |-> W, passed |-> FALSE]
      BY <1>4, <1>5, <2>1, CheckedResult
    <2> HIDE DEF e, W
    <2> QED BY <2>2, OneEvent DEF e
  <1>6. CASE Clean(h, n - 1)
    <2>1. \A user \in User : Noted(h, n, user) = Noted(h, n - 1, user) \cup
              (IF h[n].phase = "Ok" /\ h[n].user = user THEN h[n].wrote ELSE {})
      BY <1>6, NotedNext DEF Clean
    <2>2. CheckedUpTo(h, n - 1) = [wrote |-> W, passed |-> TRUE]
      BY <1>6, CheckedResult
    <2>3. /\ ~Misses(h, n) => CheckedUpTo(h, n) = [wrote |-> Notes(h, n), passed |-> TRUE]
          /\ Misses(h, n) => CheckedUpTo(h, n) = [wrote |-> Notes(h, n), passed |-> FALSE]
      BY <1>4, <1>6, CheckedResult
    <2>4. CASE e.phase = "Ok" /\ e.wrote # {}
      <3>1. Notes(h, n) = [W EXCEPT ![e.user] = @ \cup e.wrote]
        BY <1>3, <2>1, <2>4 DEF Notes
      <3>2. ~Misses(h, n)
        BY <2>4 DEF Misses
      <3> HIDE DEF e, W
      <3>3. CheckEvent([wrote |-> W, passed |-> TRUE], e)
              = [wrote |-> [W EXCEPT ![e.user] = @ \cup e.wrote], passed |-> TRUE]
        BY <2>4, OneEvent
      <3> QED BY <2>2, <2>3, <3>1, <3>2, <3>3 DEF e
    <2>5. CASE ~(e.phase = "Ok" /\ e.wrote # {})
      <3>1. Notes(h, n) = W
        BY <2>1, <2>5 DEF Notes
      <3>2. CASE e.phase # "Ok" \/ e.op # OpenThread
        <4>1. ~Misses(h, n)
          BY <3>2 DEF Misses
        <4> HIDE DEF e, W
        <4>2. CheckEvent([wrote |-> W, passed |-> TRUE], e) = [wrote |-> W, passed |-> TRUE]
          BY <2>5, <3>2, OneEvent
        <4> QED BY <2>2, <2>3, <3>1, <4>1, <4>2 DEF e
      <3>3. CASE e.phase = "Ok" /\ e.wrote = {} /\ e.op = OpenThread
        <4>1. ShowsOwn(W, e) <=> ~Misses(h, n)
          <5>1. W[e.user] = {post \in Post : \E k \in Answers(h, n - 1, e.user) : post \in h[k].wrote}
            BY <1>3, <1>6 DEF Notes, Noted, GoesOn, Clean
          <5>2. \A k \in Answers(h, n - 1, e.user) : h[k].wrote \subseteq Post
            <6>1. \A k \in 1..(n - 1) : h[k] \in Event
              OBVIOUS
            <6> QED BY <6>1 DEF Answers, Event
          <5>3. Misses(h, n) <=> \E i \in Answers(h, n - 1, e.user) : \E post \in h[i].wrote :
                    post.thread \in e.thread /\ \A g \in e.seen : g.post.id # post.id
            BY <3>3 DEF Misses
          <5> HIDE DEF e, W
          <5> QED BY <5>1, <5>2, <5>3 DEF ShowsOwn
        <4> HIDE DEF e, W
        <4>2. CheckEvent([wrote |-> W, passed |-> TRUE], e) =
                  IF ShowsOwn(W, e) THEN [wrote |-> W, passed |-> TRUE]
                                    ELSE [wrote |-> W, passed |-> FALSE]
          BY <3>3, OneEvent
        <4> QED BY <2>2, <2>3, <3>1, <4>1, <4>2 DEF e
      <3> QED BY <2>5, <3>2, <3>3
    <2> QED BY <2>4, <2>5
  <1> QED BY <1>5, <1>6

\* The loop's equation has this solution and no other: a smallest number of
\* events after which the two differ is neither 0 nor above 0.
LEMMA CheckIsClosed ==
  ASSUME history \in Seq(Event)
  PROVE  \A n \in 0..Len(history) : CheckUpTo[n] = CheckedUpTo(history, n)
  <1> DEFINE N == Len(history)
             Solves(f) == f = [n \in 0..N |->
                 IF n = 0 THEN Unread ELSE CheckEvent(f[n - 1], history[n])]
             F == [n \in 0..N |-> CheckedUpTo(history, n)]
  <1>1. N \in Nat
    OBVIOUS
  <1>2. \A n \in 0..N : n # 0 => n \in 1..N /\ n - 1 \in 0..N
    BY <1>1
  <1>3. Solves(F)
    <2>1. ASSUME NEW n \in 0..N
          PROVE  CheckedUpTo(history, n) =
                     IF n = 0 THEN Unread ELSE CheckEvent(F[n - 1], history[n])
      <3>1. CASE n = 0
        BY <3>1, CheckedNothing
      <3>2. CASE n # 0
        <4>1. F[n - 1] = CheckedUpTo(history, n - 1)
          BY <1>2, <3>2
        <4> QED BY <1>2, <3>2, <4>1, CheckedNext
      <3> QED BY <3>1, <3>2
    <2> QED BY <2>1
  <1>4. CheckUpTo = CHOOSE f : Solves(f)
    BY Zenon DEF CheckUpTo
  <1> HIDE DEF F
  <1>5. Solves(CheckUpTo)
    <2> HIDE DEF Solves
    <2> QED BY <1>3, <1>4, Zenon
  <1>6. /\ CheckUpTo[0] = Unread
        /\ \A n \in 1..N : CheckUpTo[n] = CheckEvent(CheckUpTo[n - 1], history[n])
    BY <1>1, <1>5
  <1> HIDE DEF Solves
  <1> DEFINE D == {n \in 0..N : CheckUpTo[n] # CheckedUpTo(history, n)}
  <1>7. ASSUME D # {} PROVE FALSE
    <2>1. D \in SUBSET Nat
      OBVIOUS
    <2>2. PICK n \in D : \A m \in D : n <= m
      BY <1>7, <2>1, SmallestOfNat
    <2>3. n # 0
      BY <1>6, <2>2, CheckedNothing
    <2>4. n \in 1..N /\ n - 1 \in 0..N /\ ~(n <= n - 1)
      BY <1>1, <2>3
    <2>5. CheckUpTo[n - 1] = CheckedUpTo(history, n - 1)
      BY <2>2, <2>4
    <2>6. CheckUpTo[n] = CheckedUpTo(history, n)
      BY <1>6, <2>4, <2>5, CheckedNext
    <2> QED BY <2>2, <2>6
  <1> QED BY <1>7

LEMMA InvCheckerIsExact == ASSUME SimulatorInv PROVE CheckerIsExact
<1> DEFINE N == Len(history)
<1>1. HistoryInv(log, history)
  BY InvFacts
<1>2. history \in Seq(Event) /\ N \in Nat
  BY <1>1 DEF HistoryInv
<1>3. CheckUpTo[N] = CheckedUpTo(history, N)
  BY <1>2, CheckIsClosed
<1>4. CheckReadAfterWrite <=> Clean(history, N)
  BY <1>3, CheckedResult DEF CheckReadAfterWrite
<1>5. ASSUME NEW j \in 1..N
      PROVE  /\ \A i \in Answered : i \in Answers(history, j - 1, history[j].user)
                                      <=> i < j /\ history[i].user = history[j].user
             /\ \A i \in Answers(history, j - 1, history[j].user) : i \in Answered
             /\ history[j].op = OpenThread => history[j].wrote = {}
  <2>1. history[j].op = OpenThread => history[j].wrote = {}
    BY <1>1, <1>5 DEF HistoryInv, EventInv
  <2>2. \A i \in 1..N : i \in 1..(j - 1) <=> i < j
    BY <1>2
  <2>3. \A i \in 1..(j - 1) : i \in 1..N
    BY <1>2
  <2> QED BY <2>1, <2>2, <2>3 DEF Answered, Answers
<1>6. ASSUME NEW j \in 1..N, Misses(history, j) PROVE ~ReadAfterWrite
  <2>1. j \in Viewed(OpenThread)
    BY <1>6 DEF Misses, Viewed, Answered
  <2>2. PICK i \in Answers(history, j - 1, history[j].user) : \E post \in history[i].wrote :
            post.thread \in history[j].thread /\ \A g \in history[j].seen : g.post.id # post.id
    BY <1>6 DEF Misses
  <2>3. i \in Answered /\ i < j /\ history[i].user = history[j].user
    BY <1>5, <2>2
  <2> QED BY <2>1, <2>2, <2>3 DEF ReadAfterWrite, SeenIDs
<1>7. ASSUME Clean(history, N) PROVE ReadAfterWrite
  <2>1. ASSUME NEW i \in Answered, NEW j \in Viewed(OpenThread), NEW post \in history[i].wrote,
               i < j, history[i].user = history[j].user, post.thread \in history[j].thread
        PROVE  post.id \in SeenIDs(j)
    <3>1. j \in 1..N /\ history[j].phase = "Ok" /\ history[j].op = OpenThread
      BY DEF Viewed, Answered
    <3>2. i \in Answers(history, j - 1, history[j].user) /\ history[j].wrote = {}
      BY <1>5, <2>1, <3>1
    <3>3. ~Misses(history, j)
      BY <1>7, <3>1 DEF Clean
    <3>4. \E g \in history[j].seen : g.post.id = post.id
      BY <2>1, <3>1, <3>2, <3>3 DEF Misses
    <3> QED BY <3>4 DEF SeenIDs
  <2> QED BY <2>1 DEF ReadAfterWrite
<1>8. Clean(history, N) <=> ReadAfterWrite
  BY <1>6, <1>7 DEF Clean
<1> QED BY <1>4, <1>8 DEF CheckerIsExact

\* Whatever the router, the partitioner and the sessions do, and however long
\* the history grows, the laboratory's checker raises an alarm exactly when a
\* user has missed an own reply.
THEOREM SimulatorCheckerIsExact == SimulatorSpec => []CheckerIsExact
<1>1. SimulatorInv => CheckerIsExact
  BY InvCheckerIsExact
<1> QED BY <1>1, SimulatorInvariant, PTL
=============================================================================
