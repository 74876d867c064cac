--------------------------- MODULE ClusterProofs ---------------------------
(***************************************************************************)
(* Proofs about Cluster.tla: what one Apply does to a replica, whatever    *)
(* arrives and in whatever order, and the invariance of the prefix         *)
(* property for any number of partitions, followers and records.           *)
(***************************************************************************)
EXTENDS Cluster, WellFoundedInduction, TLAPS

\* The three parts need each other: a hole-free log (FollowerIsPrefix) stays
\* hole-free because what waits is the leader's and is blocked.
ClusterInv == ClusterTypeOK /\ FollowerIsPrefix /\ PendingIsBlocked

\* Before the loop of apply has come to its end the next position may be
\* pending; nothing at or below the end of the log is.
PendingFromLeader ==
    \A l \in Location : \A pos \in DOMAIN pending[l] :
        /\ pos > Applied(l)
        /\ pos <= Applied(Leader(l.partition))
        /\ pending[l][pos] = log[Leader(l.partition)][pos]

StorageInv == ClusterTypeOK /\ FollowerIsPrefix /\ PendingFromLeader

\* Messages that carry what the leader has at their position.
FromLeader(delivered) ==
    \A m \in delivered :
        /\ m.destination \in Follower
        /\ m.position \in 1..Applied(Leader(m.destination.partition))
        /\ m.record = log[Leader(m.destination.partition)][m.position]

-----------------------------------------------------------------------------
\* A non-empty set of naturals has a smallest element: the position at which
\* the loop of replica.apply stops.
LEMMA SmallestOfNat ==
  ASSUME NEW T \in SUBSET Nat, T # {}
  PROVE  \E n \in T : \A m \in T : n <= m
<1> DEFINE R == {p \in Nat \X Nat : p[1] < p[2]}
<1>1. IsWellFoundedOn(R, Nat)
  BY NatLessThanWellFounded DEF OpToRel
<1> HIDE DEF R
<1>2. PICK n \in T : \A m \in T : ~(<<m, n>> \in R)
  BY <1>1, WFMin
<1>3. ASSUME NEW m \in T PROVE n <= m
  <2>1. ~(<<m, n>> \in R) /\ m \in Nat /\ n \in Nat
    BY <1>2
  <2>2. ~(m < n)
    BY <2>1 DEF R
  <2> QED BY <2>1, <2>2
<1> QED BY <1>3

\* The leader of a location's partition is a location.
LEMMA LeaderIsLocation ==
  ASSUME NEW l \in Location
  PROVE  /\ Leader(l.partition) \in Location
         /\ Leader(l.partition) \notin Follower
         /\ Leader(l.partition).partition = l.partition
         /\ l \notin Follower => l = Leader(l.partition)
  BY ClusterAssumption DEF Location, Leader, NodeID, Follower

LEMMA BlockedIsFromLeader == ClusterInv => StorageInv
<1> SUFFICES ASSUME ClusterInv PROVE PendingFromLeader
  BY DEF ClusterInv, StorageInv
<1>1. ASSUME NEW l \in Location, NEW pos \in DOMAIN pending[l] PROVE pos > Applied(l)
  <2>1. pos \in Nat /\ Applied(l) \in Nat /\ pos > Applied(l) + 1
    BY DEF ClusterInv, ClusterTypeOK, PendingIsBlocked, Position, Applied
  <2> QED BY <2>1
<1> QED BY <1>1 DEF ClusterInv, PendingIsBlocked, PendingFromLeader

\* Everything buffered is above the log and is the leader's record.
LEMMA BufferedFacts ==
  ASSUME StorageInv, NEW l \in Location, NEW D, FromLeader(D)
  PROVE  /\ DOMAIN Buffered(l, D) = DOMAIN pending[l] \cup {m.position : m \in Fresh(l, D)}
         /\ \A pos \in DOMAIN Buffered(l, D) :
               /\ pos \in Nat
               /\ pos > Applied(l)
               /\ pos <= Applied(Leader(l.partition))
               /\ Buffered(l, D)[pos] = log[Leader(l.partition)][pos]
<1> DEFINE fresh == Fresh(l, D)
           chosen(pos) == CHOOSE m \in fresh : m.position = pos
<1>1. DOMAIN Buffered(l, D) = DOMAIN pending[l] \cup {m.position : m \in fresh}
  BY DEF Buffered
<1>2. Applied(l) \in Nat /\ Applied(Leader(l.partition)) \in Nat
  BY LeaderIsLocation DEF StorageInv, ClusterTypeOK, Applied
<1>3. \A m \in fresh : /\ m.position \in Nat
                       /\ m.position > Applied(l)
                       /\ m.position <= Applied(Leader(l.partition))
                       /\ m.record = log[Leader(l.partition)][m.position]
  BY <1>2 DEF Fresh, FromLeader
<1>4. ASSUME NEW pos \in DOMAIN Buffered(l, D), NEW m \in fresh, m.position = pos
      PROVE  Buffered(l, D)[pos] = log[Leader(l.partition)][pos]
  <2>1. chosen(pos) \in fresh /\ chosen(pos).position = pos
    BY <1>4
  <2>2. Buffered(l, D)[pos] = chosen(pos).record
    BY <1>4, <1>1 DEF Buffered
  <2> HIDE DEF chosen, fresh
  <2> QED BY <2>1, <2>2, <1>3
<1>5. ASSUME NEW pos \in DOMAIN Buffered(l, D), ~ \E m \in fresh : m.position = pos
      PROVE  pos \in DOMAIN pending[l] /\ Buffered(l, D)[pos] = pending[l][pos]
  BY <1>5, <1>1 DEF Buffered
<1>6. ASSUME NEW pos \in DOMAIN pending[l]
      PROVE  /\ pos \in Nat
             /\ pos > Applied(l)
             /\ pos <= Applied(Leader(l.partition))
             /\ pending[l][pos] = log[Leader(l.partition)][pos]
  BY <1>2 DEF StorageInv, ClusterTypeOK, PendingFromLeader, Position
<1> HIDE DEF fresh
<1> QED BY <1>1, <1>3, <1>4, <1>5, <1>6 DEF fresh

\* The loop stops right after the contiguous run that starts at the log's end.
LEMMA DrainFacts ==
  ASSUME StorageInv, NEW l \in Location, NEW D, FromLeader(D)
  PROVE  /\ DrainEnd(l, D) \in Nat
         /\ DrainEnd(l, D) >= Applied(l)
         /\ l \in Follower => DrainEnd(l, D) <= Applied(Leader(l.partition))
         /\ \A pos \in (Applied(l) + 1)..DrainEnd(l, D) : pos \in DOMAIN Buffered(l, D)
         /\ DrainEnd(l, D) + 1 \notin DOMAIN Buffered(l, D)
<1> DEFINE B == DOMAIN Buffered(l, D)
           T == {n \in Nat : n >= Applied(l) /\ n + 1 \notin B}
           Stop(n) == /\ n >= Applied(l)
                      /\ \A pos \in (Applied(l) + 1)..n : pos \in B
                      /\ n + 1 \notin B
<1>1. Applied(l) \in Nat /\ Applied(Leader(l.partition)) \in Nat
  BY LeaderIsLocation DEF StorageInv, ClusterTypeOK, Applied
<1>2. \A pos \in B : pos \in Nat /\ pos > Applied(l) /\ pos <= Applied(Leader(l.partition))
  BY BufferedFacts
<1>3. l \in Follower => Applied(l) <= Applied(Leader(l.partition))
  BY DEF StorageInv, FollowerIsPrefix
<1> HIDE DEF B
<1>4. Applied(l) + Applied(Leader(l.partition)) \in T
  BY <1>1, <1>2
<1>5. PICK n \in T : \A m \in T : n <= m
  BY <1>4, SmallestOfNat
<1>6. ASSUME NEW pos \in (Applied(l) + 1)..n PROVE pos \in B
  <2>1. pos - 1 \in Nat /\ pos - 1 >= Applied(l) /\ pos - 1 < n /\ (pos - 1) + 1 = pos
    BY <1>1
  <2>2. pos - 1 \notin T
    BY <2>1, <1>5
  <2> QED BY <2>1, <2>2
<1>7. n \in B \cup {Applied(l)}
  BY <1>1, <1>6
<1>8. Stop(n)
  BY <1>6
<1>9. DrainEnd(l, D) = CHOOSE k \in B \cup {Applied(l)} : Stop(k)
  BY DEF DrainEnd, B
<1> HIDE DEF Stop
<1>10. DrainEnd(l, D) \in B \cup {Applied(l)} /\ Stop(DrainEnd(l, D))
  BY <1>7, <1>8, <1>9
<1> QED BY <1>10, <1>1, <1>2, <1>3 DEF Stop, B

\* What one Apply leaves at a location: the log up to the end of the
\* contiguous run, everything else that is buffered still pending.
LEMMA ApplyOutcome ==
  ASSUME StorageInv, NEW D, FromLeader(D), Apply(D), NEW l \in Location
  PROVE  /\ log'[l] \in Seq(Record)
         /\ Len(log'[l]) = DrainEnd(l, D)
         /\ \A i \in 1..DrainEnd(l, D) : log'[l][i] = log[Leader(l.partition)][i]
         /\ DOMAIN pending'[l] = {p \in DOMAIN Buffered(l, D) : p > DrainEnd(l, D)}
         /\ \A pos \in DOMAIN pending'[l] :
               pending'[l][pos] = log[Leader(l.partition)][pos]
         /\ l \notin Follower => log'[l] = log[l]
<1> DEFINE L == Leader(l.partition)
           e == DrainEnd(l, D)
<1>1. log'[l] = LogAfter(l, D) /\ pending'[l] = PendingAfter(l, D)
  BY DEF Apply
<1>2. /\ log[l] \in Seq(Record) /\ Applied(l) \in Nat
      /\ log[L] \in Seq(Record) /\ Applied(L) \in Nat
      /\ Applied(l) = Len(log[l]) /\ Applied(L) = Len(log[L])
  BY LeaderIsLocation DEF StorageInv, ClusterTypeOK, Applied
<1>3. \A i \in 1..Applied(l) : log[l][i] = log[L][i]
  BY LeaderIsLocation DEF StorageInv, FollowerIsPrefix
<1>4. e \in Nat /\ e >= Applied(l)
  BY DrainFacts
<1>5. l \notin Follower => e = Applied(l)
  <2>1. SUFFICES ASSUME l \notin Follower, e # Applied(l) PROVE FALSE
    OBVIOUS
  <2>2. l = L
    BY <2>1, LeaderIsLocation
  <2>3. Applied(l) + 1 \in DOMAIN Buffered(l, D)
    BY <1>2, <1>4, <2>1, DrainFacts
  <2>4. Applied(l) + 1 <= Applied(L)
    BY <2>3, BufferedFacts
  <2> QED BY <2>2, <2>4, <1>2
<1>6. e <= Applied(L)
  BY <1>2, <1>4, <1>5, DrainFacts, LeaderIsLocation
<1>7. \A i \in (Applied(l) + 1)..e : Buffered(l, D)[i] = log[L][i]
  <2>1. \A i \in (Applied(l) + 1)..e : i \in DOMAIN Buffered(l, D)
    BY DrainFacts
  <2>2. \A i \in DOMAIN Buffered(l, D) : Buffered(l, D)[i] = log[L][i]
    BY BufferedFacts
  <2> QED BY <2>1, <2>2
<1>8. \A i \in 1..e : LogAfter(l, D)[i] = log[L][i]
  BY <1>2, <1>3, <1>4, <1>7 DEF LogAfter
<1>9. \A i \in 1..e : log[L][i] \in Record
  BY <1>2, <1>4, <1>6
<1>10. /\ LogAfter(l, D) = [i \in 1..e |-> LogAfter(l, D)[i]]
       /\ \A i \in 1..e : LogAfter(l, D)[i] \in Record
  BY <1>8, <1>9 DEF LogAfter
<1>11. LogAfter(l, D) \in Seq(Record) /\ Len(LogAfter(l, D)) = e
  BY <1>4, <1>10
<1>12. /\ DOMAIN PendingAfter(l, D) = {p \in DOMAIN Buffered(l, D) : p > e}
       /\ \A pos \in DOMAIN PendingAfter(l, D) : PendingAfter(l, D)[pos] = log[L][pos]
  BY BufferedFacts DEF PendingAfter
<1>13. ASSUME l \notin Follower PROVE LogAfter(l, D) = log[l]
  <2>1. l = L /\ Len(LogAfter(l, D)) = Len(log[l])
    BY <1>2, <1>5, <1>11, <1>13, LeaderIsLocation
  <2>2. \A i \in 1..Len(log[l]) : LogAfter(l, D)[i] = log[l][i]
    BY <1>2, <1>5, <1>8, <1>13, <2>1
  <2> QED BY <1>2, <1>11, <2>1, <2>2
<1> QED BY <1>1, <1>8, <1>11, <1>12, <1>13

\* Apply keeps the invariant, whatever part of the leader's log it is given;
\* leaders do not move, followers do not go back.
LEMMA ApplyPreserves ==
  ASSUME ClusterInv, NEW D, FromLeader(D), Apply(D)
  PROVE  /\ ClusterInv'
         /\ \A l \in Location : l \notin Follower => log'[l] = log[l]
         /\ \A l \in Location : Applied(l) <= Len(log'[l])
<1>0. StorageInv
  BY BlockedIsFromLeader
<1>1. ASSUME NEW l \in Location
      PROVE  /\ log'[l] \in Seq(Record)
             /\ Applied(l) \in Nat /\ Len(log'[l]) \in Nat
             /\ Applied(l) <= Len(log'[l])
             /\ l \notin Follower => log'[l] = log[l]
             /\ log'[Leader(l.partition)] = log[Leader(l.partition)]
             /\ log[Leader(l.partition)] \in Seq(Record)
  BY <1>0, ApplyOutcome, DrainFacts, LeaderIsLocation
     DEF ClusterInv, ClusterTypeOK, Applied
<1>2. ClusterTypeOK'
  <2>1. log' \in [Location -> Seq(Record)]
    BY <1>1 DEF Apply
  <2>2. DOMAIN pending' = Location
    BY DEF Apply
  <2>3. ASSUME NEW l \in Location, NEW pos \in DOMAIN pending'[l]
        PROVE  pos \in Position /\ pending'[l][pos] \in Record
    <3>1. pos \in DOMAIN Buffered(l, D) /\ pending'[l][pos] = log[Leader(l.partition)][pos]
      BY <1>0, ApplyOutcome
    <3>2. pos \in Nat /\ pos > Applied(l) /\ pos <= Applied(Leader(l.partition))
      BY <1>0, <3>1, BufferedFacts
    <3> QED BY <1>1, <3>1, <3>2 DEF Position, Applied
  <2> QED BY <2>1, <2>2, <2>3 DEF ClusterTypeOK
<1>3. FollowerIsPrefix'
  <2> SUFFICES ASSUME NEW l \in Follower
               PROVE  /\ Len(log'[l]) <= Len(log'[Leader(l.partition)])
                      /\ \A i \in 1..Len(log'[l]) :
                            log'[l][i] = log'[Leader(l.partition)][i]
    BY DEF FollowerIsPrefix, Applied
  <2>1. l \in Location
    BY DEF Follower
  <2> QED BY <1>0, <1>1, <2>1, ApplyOutcome, DrainFacts DEF Applied
<1>4. PendingIsBlocked'
  <2> SUFFICES ASSUME NEW l \in Location, NEW pos \in DOMAIN pending'[l]
               PROVE  /\ pos > Len(log'[l]) + 1
                      /\ pos <= Len(log'[Leader(l.partition)])
                      /\ pending'[l][pos] = log'[Leader(l.partition)][pos]
    BY DEF PendingIsBlocked, Applied
  <2>1. /\ pos \in DOMAIN Buffered(l, D)
        /\ pos > DrainEnd(l, D)
        /\ pending'[l][pos] = log[Leader(l.partition)][pos]
        /\ Len(log'[l]) = DrainEnd(l, D)
    BY <1>0, ApplyOutcome
  <2>2. pos \in Nat /\ pos <= Applied(Leader(l.partition))
    BY <1>0, <2>1, BufferedFacts
  <2>3. pos # DrainEnd(l, D) + 1 /\ DrainEnd(l, D) \in Nat
    BY <1>0, <2>1, DrainFacts
  <2> QED BY <1>1, <2>1, <2>2, <2>3 DEF Applied
<1> QED BY <1>1, <1>2, <1>3, <1>4 DEF ClusterInv

\* A leader that accepts a record keeps every follower's log a prefix of its own.
LEMMA AppendPreserves ==
  ASSUME ClusterInv, NEW p \in PartitionID, NEW record \in Record,
         AppendRecord(Leader(p), record)
  PROVE  /\ ClusterInv'
         /\ Len(log'[Leader(p)]) = Applied(Leader(p)) + 1
         /\ log'[Leader(p)][Applied(Leader(p)) + 1] = record
         /\ \A i \in 1..Applied(Leader(p)) : log'[Leader(p)][i] = log[Leader(p)][i]
         /\ \A l \in Location : l # Leader(p) => log'[l] = log[l]
         /\ \A l \in Location :
               /\ Applied(l) \in Nat
               /\ Applied(l) <= Len(log'[l])
               /\ \A i \in 1..Applied(l) : log'[l][i] = log[l][i]
<1>1. Leader(p) \in Location /\ Leader(p) \notin Follower
  BY ClusterAssumption DEF Location, Leader, NodeID, Follower
<1>2. /\ log' = [log EXCEPT ![Leader(p)] = Append(log[Leader(p)], record)]
      /\ pending' = pending
  BY DEF AppendRecord
<1>3. log \in [Location -> Seq(Record)]
  BY DEF ClusterInv, ClusterTypeOK
<1>4. ASSUME NEW l \in Location
      PROVE  /\ log'[l] \in Seq(Record)
             /\ l # Leader(p) => log'[l] = log[l]
             /\ Applied(l) \in Nat
             /\ Len(log'[l]) = IF l = Leader(p) THEN Applied(l) + 1 ELSE Applied(l)
             /\ \A i \in 1..Applied(l) : log'[l][i] = log[l][i]
  BY <1>2, <1>3 DEF Applied
<1>5. log'[Leader(p)][Applied(Leader(p)) + 1] = record
  BY <1>1, <1>2, <1>3 DEF Applied
<1>6. ClusterTypeOK'
  BY <1>2, <1>3, <1>4 DEF ClusterInv, ClusterTypeOK
<1>7. FollowerIsPrefix'
  <2> SUFFICES ASSUME NEW l \in Follower
               PROVE  /\ Len(log'[l]) <= Len(log'[Leader(l.partition)])
                      /\ \A i \in 1..Len(log'[l]) :
                            log'[l][i] = log'[Leader(l.partition)][i]
    BY DEF FollowerIsPrefix, Applied
  <2>1. l \in Location /\ l # Leader(p) /\ Leader(l.partition) \in Location
    BY <1>1, LeaderIsLocation DEF Follower
  <2>2. /\ Applied(l) <= Applied(Leader(l.partition))
        /\ \A i \in 1..Applied(l) : log[l][i] = log[Leader(l.partition)][i]
    BY DEF ClusterInv, FollowerIsPrefix
  <2> DEFINE L == Leader(l.partition)
  <2>3. /\ Len(log'[l]) = Applied(l) /\ log'[l] = log[l]
        /\ Applied(l) \in Nat /\ Applied(L) \in Nat
    BY <1>4, <2>1
  <2>4. Applied(L) <= Len(log'[L]) /\ \A i \in 1..Applied(L) : log'[L][i] = log[L][i]
    BY <1>4, <2>1
  <2>5. Len(log'[L]) \in Nat
    BY <1>4, <2>1
  <2> HIDE DEF L
  <2> QED BY <2>2, <2>3, <2>4, <2>5 DEF L
<1>8. PendingIsBlocked'
  <2> SUFFICES ASSUME NEW l \in Location, NEW pos \in DOMAIN pending[l]
               PROVE  /\ pos > Len(log'[l]) + 1
                      /\ pos <= Len(log'[Leader(l.partition)])
                      /\ pending[l][pos] = log'[Leader(l.partition)][pos]
    BY <1>2 DEF PendingIsBlocked, Applied
  <2>1. /\ pos > Applied(l) + 1
        /\ pos <= Applied(Leader(l.partition))
        /\ pending[l][pos] = log[Leader(l.partition)][pos]
        /\ pos \in Nat
    BY DEF ClusterInv, ClusterTypeOK, PendingIsBlocked, Position
  <2>2. l # Leader(p) /\ Leader(l.partition) \in Location
    <3>1. SUFFICES ASSUME l = Leader(p) PROVE FALSE
      BY LeaderIsLocation
    <3>2. Leader(l.partition) = l
      BY <3>1 DEF Leader
    <3> QED BY <1>4, <2>1, <3>2
  <2> QED BY <1>4, <2>1, <2>2
<1> QED BY <1>1, <1>4, <1>5, <1>6, <1>7, <1>8 DEF ClusterInv

-----------------------------------------------------------------------------
\* Everything sendable is the leader's.
LEMMA SendableFromLeader ==
  ASSUME ClusterInv, NEW D \in SUBSET Sendable
  PROVE  FromLeader(D)
  BY DEF FromLeader, Sendable, Message

LEMMA ClusterInductive ==
  ClusterInv /\ [ClusterNext]_clusterVars => ClusterInv'
<1> SUFFICES ASSUME ClusterInv, [ClusterNext]_clusterVars PROVE ClusterInv'
  OBVIOUS
<1>1. ASSUME NEW p \in PartitionID, NEW item \in Item, Accept(p, item)
      PROVE  ClusterInv'
  <2>1. [t |-> 0, item |-> item] \in Record
    BY DEF Record
  <2> QED BY <1>1, <2>1, AppendPreserves DEF Accept
<1>2. CASE Receive
  <2>1. PICK D \in SUBSET Sendable : Apply(D)
    BY <1>2 DEF Receive
  <2> QED BY <2>1, SendableFromLeader, ApplyPreserves
<1>3. CASE UNCHANGED clusterVars
  BY <1>3 DEF clusterVars, ClusterInv, ClusterTypeOK, FollowerIsPrefix,
              PendingIsBlocked, Applied
<1> QED BY <1>1, <1>2, <1>3 DEF ClusterNext

LEMMA ClusterInitial == ClusterInit => ClusterInv
<1> SUFFICES ASSUME ClusterInit PROVE ClusterInv
  OBVIOUS
<1>1. \A l \in Location : /\ log[l] = <<>> /\ pending[l] = <<>>
                          /\ Applied(l) = 0 /\ DOMAIN pending[l] = {}
  BY DEF ClusterInit, Applied
<1>2. ClusterTypeOK
  BY <1>1 DEF ClusterInit, ClusterTypeOK
<1>3. FollowerIsPrefix
  BY <1>1, LeaderIsLocation DEF FollowerIsPrefix, Follower
<1>4. PendingIsBlocked
  BY <1>1 DEF PendingIsBlocked
<1> QED BY <1>2, <1>3, <1>4 DEF ClusterInv

\* For every number of partitions, followers and records: whatever reaches the
\* followers of what their leader holds, in any order and any number of times
\* (cluster.go, replica.apply), a follower's log is a prefix of the leader's
\* and what is pending waits for a missing predecessor.
THEOREM ClusterCorrect ==
  ClusterSpec => [](ClusterTypeOK /\ FollowerIsPrefix /\ PendingIsBlocked)
<1>1. ClusterSpec => []ClusterInv
  BY ClusterInitial, ClusterInductive, PTL DEF ClusterSpec
<1>2. ClusterInv => ClusterTypeOK /\ FollowerIsPrefix /\ PendingIsBlocked
  BY DEF ClusterInv
<1> QED BY <1>1, <1>2, PTL

\* No replica forgets anything in a step.
ForgetsNothing ==
    \A l \in Location :
        /\ Applied(l) <= Len(log'[l])
        /\ \A i \in 1..Applied(l) : log'[l][i] = log[l][i]
        /\ \A pos \in DOMAIN pending[l] :
              \/ pos \in DOMAIN pending'[l] /\ pending'[l][pos] = pending[l][pos]
              \/ pos <= Len(log'[l]) /\ log'[l][pos] = pending[l][pos]

\* One step of the storage layer loses nothing that a replica has received:
\* pending records stay or move to their place in the log.
LEMMA ApplyForgetsNothing ==
  ASSUME ClusterInv, NEW D, FromLeader(D), Apply(D)
  PROVE  ForgetsNothing
<1> SUFFICES ASSUME NEW l \in Location
             PROVE  /\ Applied(l) <= Len(log'[l])
                    /\ \A i \in 1..Applied(l) : log'[l][i] = log[l][i]
                    /\ \A pos \in DOMAIN pending[l] :
                          \/ pos \in DOMAIN pending'[l] /\ pending'[l][pos] = pending[l][pos]
                          \/ pos <= Len(log'[l]) /\ log'[l][pos] = pending[l][pos]
  BY DEF ForgetsNothing
<1> DEFINE L == Leader(l.partition)
           e == DrainEnd(l, D)
<1>0. StorageInv
  BY BlockedIsFromLeader
<1>1. /\ Len(log'[l]) = e
      /\ \A i \in 1..e : log'[l][i] = log[L][i]
      /\ DOMAIN pending'[l] = {p \in DOMAIN Buffered(l, D) : p > e}
      /\ \A pos \in DOMAIN pending'[l] : pending'[l][pos] = log[L][pos]
  BY <1>0, ApplyOutcome
<1>2. e \in Nat /\ e >= Applied(l) /\ Applied(l) \in Nat
  BY <1>0, DrainFacts DEF ClusterInv, ClusterTypeOK, Applied
<1>3. \A i \in 1..Applied(l) : log[l][i] = log[L][i]
  BY LeaderIsLocation DEF ClusterInv, FollowerIsPrefix
<1>4. \A pos \in DOMAIN pending[l] :
          /\ pos \in DOMAIN Buffered(l, D) /\ pos \in Nat /\ pos > 0
          /\ pending[l][pos] = log[L][pos]
  <2>1. DOMAIN pending[l] \subseteq DOMAIN Buffered(l, D)
    BY <1>0, BufferedFacts
  <2>2. \A pos \in DOMAIN pending[l] : pos \in Nat /\ pos > 0
    BY DEF ClusterInv, ClusterTypeOK, Position
  <2>3. \A pos \in DOMAIN pending[l] : pending[l][pos] = log[L][pos]
    BY DEF ClusterInv, PendingIsBlocked
  <2> QED BY <2>1, <2>2, <2>3
<1> HIDE DEF L, e
<1> QED BY <1>1, <1>2, <1>3, <1>4

LEMMA AppendForgetsNothing ==
  ASSUME ClusterInv, NEW p \in PartitionID, NEW record \in Record,
         AppendRecord(Leader(p), record)
  PROVE  ForgetsNothing
<1>1. \A l \in Location : /\ Applied(l) <= Len(log'[l])
                         /\ \A i \in 1..Applied(l) : log'[l][i] = log[l][i]
  BY AppendPreserves
<1>2. pending' = pending
  BY DEF AppendRecord
<1> QED BY <1>1, <1>2 DEF ForgetsNothing

\* Whatever is delivered, early, late and again, no replica loses or changes
\* a record that has reached it (Append and replica.apply).
THEOREM ClusterForgetsNothing == ClusterSpec => NothingForgotten
<1>1. ClusterInv /\ [ClusterNext]_clusterVars => [ForgetsNothing]_clusterVars
  <2> SUFFICES ASSUME ClusterInv, ClusterNext PROVE ForgetsNothing
    OBVIOUS
  <2>1. ASSUME NEW p \in PartitionID, NEW item \in Item, Accept(p, item)
        PROVE  ForgetsNothing
    BY <2>1, AppendForgetsNothing DEF Record, Accept
  <2>2. CASE Receive
    BY <2>2, SendableFromLeader, ApplyForgetsNothing DEF Receive
  <2> QED BY <2>1, <2>2 DEF ClusterNext
<1>2. ClusterSpec => []ClusterInv
  BY ClusterInitial, ClusterInductive, PTL DEF ClusterSpec
<1> QED BY <1>1, <1>2, PTL DEF ClusterSpec, NothingForgotten, ForgetsNothing
=============================================================================
