------------------------- MODULE ReplicationProofs -------------------------
(***************************************************************************)
(* Proofs about Replication.tla, for any cluster, delays and bounds: no    *)
(* record is lost or delivered twice, a follower is a prefix of its leader *)
(* and at most its longest delay behind, and the whole implements the      *)
(* abstract replicated log.                                                *)
(***************************************************************************)
EXTENDS Replication, ClusterProofs, FiniteSetTheorems

\* Where each record of a leader is, seen from a follower: somewhere, and a
\* message in flight is the only copy on its way.
EachCopyOnce ==
    /\ \A l \in Follower : \A pos \in 1..Applied(Leader(l.partition)) :
          \/ pos <= Applied(l)
          \/ pos \in DOMAIN pending[l]
          \/ \E m \in q : m.destination = l /\ m.position = pos
    /\ \A m \in q : /\ m.position > Applied(m.destination)
                    /\ m.position \notin DOMAIN pending[m.destination]
    /\ \A m, n \in q :
          m.destination = n.destination /\ m.position = n.position => m = n

\* No message is overdue, and none takes longer than its destination's delay.
OnTime ==
    \A m \in q : /\ m.at >= now
                 /\ m.at = now => m.record.t = now
                 /\ m.at <= m.record.t + LongestTo(m.destination)

\* A leader's log is in the order of acceptance and of the past.
LeaderClock ==
    \A p \in PartitionID : \A i \in 1..Applied(Leader(p)) :
        /\ log[Leader(p)][i].t <= now
        /\ \A j \in 1..i : log[Leader(p)][j].t <= log[Leader(p)][i].t

ReplicationInv ==
    /\ ClusterInv
    /\ ReplicationTypeOK
    /\ CarriesLeadersRecord
    /\ EachCopyOnce
    /\ OnTime
    /\ LeaderClock

-----------------------------------------------------------------------------
\* The delays a message to d may draw.
LEMMA DelayBounds ==
  ASSUME NEW d, NEW n \in DelaysTo(d)
  PROVE  n \in Nat /\ LongestTo(d) \in Nat /\ n <= LongestTo(d)
<1>1. PICK k \in MinDelay..MaxDelay : n = k * FactorOf(d)
  BY DEF DelaysTo
<1>2. k \in Nat /\ MaxDelay \in Nat /\ k <= MaxDelay
  BY TransportAssumption
<1>3. CASE d.node = SlowNode
  <2>1. FactorOf(d) = SlowFactor /\ SlowFactor \in Nat
    BY <1>3, TransportAssumption DEF FactorOf
  <2>2. k * SlowFactor <= MaxDelay * SlowFactor /\ k * SlowFactor \in Nat
        /\ MaxDelay * SlowFactor \in Nat
    BY <1>2, <2>1
  <2> QED BY <1>1, <2>1, <2>2 DEF LongestTo
<1>4. CASE d.node # SlowNode
  BY <1>1, <1>2, <1>4 DEF FactorOf, LongestTo
<1> QED BY <1>3, <1>4

LEMMA LongestToType == ASSUME NEW d PROVE LongestTo(d) \in Nat
<1>1. SlowFactor \in Nat /\ MaxDelay \in Nat
  BY TransportAssumption
<1>2. MaxDelay * SlowFactor \in Nat /\ MaxDelay * 1 \in Nat
  BY <1>1
<1> QED BY <1>2 DEF LongestTo, FactorOf

LEMMA ReplicationInitial == ReplicationInit => ReplicationInv
<1> SUFFICES ASSUME ReplicationInit PROVE ReplicationInv
  OBVIOUS
<1>1. ClusterInv
  BY ClusterInitial DEF ReplicationInit
<1>2. q = {} /\ now = 0 /\ \A l \in Location : Applied(l) = 0
  BY DEF ReplicationInit, TransportInit, ClusterInit, Applied
<1>3. \A p \in PartitionID : Applied(Leader(p)) = 0
  BY <1>2, ClusterAssumption DEF Location, Leader, NodeID
<1>4. \A l \in Follower : Applied(Leader(l.partition)) = 0
  BY <1>2, LeaderIsLocation DEF Follower
<1>5. ReplicationTypeOK
  BY <1>1, <1>2 DEF ReplicationTypeOK, ClusterInv
<1>6. CarriesLeadersRecord /\ OnTime
  BY <1>2 DEF CarriesLeadersRecord, OnTime
<1>7. EachCopyOnce
  BY <1>2, <1>4 DEF EachCopyOnce
<1>8. LeaderClock
  BY <1>3 DEF LeaderClock
<1> QED BY <1>1, <1>5, <1>6, <1>7, <1>8 DEF ReplicationInv

\* Every message to a follower carries its leader's record, so any set of
\* due messages may be handed to Apply.
LEMMA QueueFromLeader ==
  ASSUME ReplicationInv, NEW D \in SUBSET q
  PROVE  FromLeader(D)
<1> SUFFICES ASSUME NEW m \in D
             PROVE  /\ m.destination \in Follower
                    /\ m.position \in 1..Applied(Leader(m.destination.partition))
                    /\ m.record = log[Leader(m.destination.partition)][m.position]
  BY DEF FromLeader
<1>1. /\ m.destination \in Follower /\ m.position \in Nat /\ m.position > 0
      /\ m.position <= Applied(Leader(m.destination.partition))
      /\ m.record = log[Leader(m.destination.partition)][m.position]
  BY DEF ReplicationInv, ReplicationTypeOK, CarriesLeadersRecord, Position
<1>2. Applied(Leader(m.destination.partition)) \in Nat
  BY <1>1, LeaderIsLocation DEF ReplicationInv, ClusterInv, ClusterTypeOK, Applied, Follower
<1> QED BY <1>1, <1>2

-----------------------------------------------------------------------------
(* A write: the new record is in flight to every follower, once.           *)

\* The messages of one write.
Sent(p, record, delay) ==
    {[at |-> now + delay[d], destination |-> d,
      position |-> Applied(Leader(p)) + 1, record |-> record] : d \in Targets(Leader(p))}

LEMMA WritePreserves ==
  ASSUME ReplicationInv, NEW p \in PartitionID, NEW item \in Item, Write(p, item)
  PROVE  ReplicationInv'
<1> DEFINE record == [t |-> now, item |-> item]
           L == Leader(p)
           end == Applied(Leader(p)) + 1
<1>1. record \in Record /\ record.t = now /\ now \in Nat
  BY DEF Record, ReplicationInv, ReplicationTypeOK
<1>2. AppendRecord(L, record) /\ pending' = pending /\ now' = now
  BY DEF Write, AppendRecord
<1>3. PICK delay \in DelayChoices(Targets(L)) : q' = q \cup Sent(p, record, delay)
  BY DEF Write, Send, Sent
<1>4. \A d \in Targets(L) : /\ delay[d] \in Nat /\ LongestTo(d) \in Nat
                            /\ delay[d] <= LongestTo(d)
  BY DelayBounds DEF DelayChoices
<1> HIDE DEF record
<1>5. /\ ClusterInv'
      /\ Len(log'[L]) = end
      /\ log'[L][end] = record
      /\ \A l \in Location : l # L => log'[l] = log[l]
      /\ \A l \in Location : /\ Applied(l) \in Nat
                             /\ Applied(l) <= Len(log'[l])
                             /\ \A i \in 1..Applied(l) : log'[l][i] = log[l][i]
  BY <1>1, <1>2, AppendPreserves DEF ReplicationInv
<1>6. L \in Location /\ L \notin Follower /\ L.partition = p
  BY ClusterAssumption DEF Location, Leader, NodeID, Follower
<1>7. ASSUME NEW l \in Follower
      PROVE  /\ l \in Location /\ l # L /\ Len(log'[l]) = Applied(l)
             /\ Leader(l.partition) \in Location
             /\ l \in Targets(L) <=> Leader(l.partition) = L
             /\ Leader(l.partition) # L =>
                    Len(log'[Leader(l.partition)]) = Applied(Leader(l.partition))
             /\ Leader(l.partition) = L => Len(log'[Leader(l.partition)]) = end
  BY <1>5, <1>6, LeaderIsLocation DEF Follower, Targets, Leader, Applied
<1>8. ASSUME NEW m \in Sent(p, record, delay)
      PROVE  /\ m.destination \in Targets(L) /\ m.destination \in Follower
             /\ Leader(m.destination.partition) = L
             /\ m.position = end /\ m.record = record
             /\ m.at = now + delay[m.destination]
  <2>1. PICK d \in Targets(L) :
            m = [at |-> now + delay[d], destination |-> d, position |-> end, record |-> record]
    BY DEF Sent
  <2>2. d \in Follower /\ Leader(d.partition) = L
    BY <1>6, <2>1 DEF Targets, Leader
  <2> QED BY <2>1, <2>2
<1>9. end \in Nat /\ end > 0 /\ Applied(L) \in Nat /\ end = Applied(L) + 1
  BY <1>5, <1>6
<1>10. ReplicationTypeOK'
  <2>1. ASSUME NEW m \in q'
        PROVE  /\ m.at \in Nat /\ m.destination \in Follower
               /\ m.position \in Position /\ m.record \in Record
    <3>1. CASE m \in q
      BY <3>1 DEF ReplicationInv, ReplicationTypeOK
    <3>2. CASE m \in Sent(p, record, delay)
      BY <3>2, <1>1, <1>4, <1>8, <1>9 DEF Position
    <3> QED BY <1>3, <3>1, <3>2
  <2> QED BY <1>1, <1>2, <1>5, <2>1 DEF ReplicationTypeOK, ClusterInv
<1>11. CarriesLeadersRecord'
  <2> SUFFICES ASSUME NEW m \in q'
               PROVE  /\ m.position <= Len(log'[Leader(m.destination.partition)])
                      /\ m.record = log'[Leader(m.destination.partition)][m.position]
    BY DEF CarriesLeadersRecord, Applied
  <2>1. CASE m \in q
    <3> DEFINE K == Leader(m.destination.partition)
    <3>1. /\ m.destination \in Follower /\ m.position \in Nat /\ m.position > 0
          /\ m.position <= Applied(K) /\ m.record = log[K][m.position]
      BY <2>1 DEF ReplicationInv, ReplicationTypeOK, CarriesLeadersRecord, Position
    <3>2. K \in Location
      BY <1>7, <3>1
    <3>3. Len(log'[K]) \in Nat
      BY <1>5, <3>2 DEF ClusterInv, ClusterTypeOK
    <3> QED BY <1>5, <3>1, <3>2, <3>3
  <2>2. CASE m \in Sent(p, record, delay)
    BY <2>2, <1>5, <1>8, <1>9
  <2> QED BY <1>3, <2>1, <2>2
<1>12. EachCopyOnce'
  <2>1. ASSUME NEW l \in Follower, NEW pos \in 1..Len(log'[Leader(l.partition)])
        PROVE  \/ pos <= Len(log'[l])
               \/ pos \in DOMAIN pending[l]
               \/ \E m \in q' : m.destination = l /\ m.position = pos
    <3>1. CASE pos \in 1..Applied(Leader(l.partition))
      BY <3>1, <1>3, <1>7 DEF ReplicationInv, EachCopyOnce
    <3>2. CASE pos \notin 1..Applied(Leader(l.partition))
      <4>1. Leader(l.partition) = L /\ pos = end /\ l \in Targets(L)
        BY <3>2, <1>7, <1>9
      <4>2. [at |-> now + delay[l], destination |-> l, position |-> end, record |-> record]
                \in Sent(p, record, delay)
        BY <4>1 DEF Sent
      <4> QED BY <4>1, <4>2, <1>3
    <3> QED BY <3>1, <3>2
  <2>2. ASSUME NEW m \in q'
        PROVE  /\ m.position > Len(log'[m.destination])
               /\ m.position \notin DOMAIN pending[m.destination]
    <3>1. CASE m \in q
      <4>1. m.destination \in Follower
        BY <3>1 DEF ReplicationInv, ReplicationTypeOK
      <4> QED BY <3>1, <4>1, <1>7 DEF ReplicationInv, EachCopyOnce
    <3>2. CASE m \in Sent(p, record, delay)
      <4>1. m.destination \in Follower /\ Leader(m.destination.partition) = L /\ m.position = end
        BY <3>2, <1>8
      <4>2. Applied(m.destination) <= Applied(L) /\ Applied(m.destination) \in Nat
        BY <4>1, <1>5, <1>7 DEF ReplicationInv, ClusterInv, FollowerIsPrefix
      <4>3. \A pos \in DOMAIN pending[m.destination] : pos <= Applied(L)
        BY <4>1, <1>7 DEF ReplicationInv, ClusterInv, PendingIsBlocked
      <4> QED BY <4>1, <4>2, <4>3, <1>7, <1>9
    <3> QED BY <1>3, <3>1, <3>2
  <2>3. ASSUME NEW m \in q', NEW n \in q', m.destination = n.destination, m.position = n.position
        PROVE  m = n
    <3>1. ASSUME NEW a \in q, NEW b \in Sent(p, record, delay), a.destination = b.destination
          PROVE  a.position # b.position
      <4>1. a.position <= Applied(L) /\ a.position \in Nat
        BY <3>1, <1>8 DEF ReplicationInv, ReplicationTypeOK, CarriesLeadersRecord, Position
      <4> QED BY <4>1, <1>8, <1>9
    <3>2. CASE m \in q /\ n \in q
      BY <2>3, <3>2 DEF ReplicationInv, EachCopyOnce
    <3>3. CASE m \in Sent(p, record, delay) /\ n \in Sent(p, record, delay)
      BY <2>3, <3>3 DEF Sent
    <3> QED BY <1>3, <2>3, <3>1, <3>2, <3>3
  <2> QED BY <1>2, <2>1, <2>2, <2>3 DEF EachCopyOnce, Applied
<1>13. OnTime'
  <2> SUFFICES ASSUME NEW m \in q'
               PROVE  /\ m.at >= now
                      /\ m.at = now => m.record.t = now
                      /\ m.at <= m.record.t + LongestTo(m.destination)
    BY <1>2 DEF OnTime
  <2>1. CASE m \in q
    BY <2>1 DEF ReplicationInv, OnTime
  <2>2. CASE m \in Sent(p, record, delay)
    BY <2>2, <1>1, <1>4, <1>8
  <2> QED BY <1>3, <2>1, <2>2
<1>14. LeaderClock'
  <2> SUFFICES ASSUME NEW r \in PartitionID, NEW i \in 1..Len(log'[Leader(r)])
               PROVE  /\ log'[Leader(r)][i].t <= now
                      /\ \A j \in 1..i : log'[Leader(r)][j].t <= log'[Leader(r)][i].t
    BY <1>2 DEF LeaderClock, Applied
  <2>1. Leader(r) \in Location /\ Applied(Leader(r)) \in Nat
    BY <1>5, ClusterAssumption DEF Location, Leader, NodeID
  <2>2. \A k \in 1..Applied(Leader(r)) : log'[Leader(r)][k] = log[Leader(r)][k]
    BY <1>5, <2>1
  <2>3. CASE i \in 1..Applied(Leader(r))
    <3>1. \A j \in 1..i : j \in 1..Applied(Leader(r))
      BY <2>1, <2>3
    <3> QED BY <2>2, <2>3, <3>1 DEF ReplicationInv, LeaderClock
  <2>4. CASE i \notin 1..Applied(Leader(r))
    <3>1. Leader(r) = L /\ i = end
      BY <1>5, <1>9, <2>1, <2>4 DEF Applied
    <3>2. \A j \in 1..Applied(L) : log[L][j].t <= now
      BY DEF ReplicationInv, LeaderClock
    <3>3. \A j \in 1..Applied(L) : log'[L][j].t <= now
      BY <2>2, <3>1, <3>2
    <3> QED BY <1>1, <1>5, <1>9, <3>1, <3>3
  <2> QED BY <2>3, <2>4
<1> QED BY <1>5, <1>10, <1>11, <1>12, <1>13, <1>14 DEF ReplicationInv

-----------------------------------------------------------------------------
(* A tick: what is due moves into the log or into pending, nothing else.   *)

LEMMA AdvancePreserves ==
  ASSUME ReplicationInv, Advance
  PROVE  ReplicationInv'
<1> DEFINE D == Due(now + 1)
<1>1. /\ now \in Nat /\ now' = now + 1 /\ Apply(D) /\ q' = q \ D /\ D \subseteq q
      /\ \A m \in q' : ~(m.at <= now + 1) /\ m \in q
  BY DEF Advance, DeliverUpTo, Due, ReplicationInv, ReplicationTypeOK
<1>2. FromLeader(D) /\ ClusterInv /\ StorageInv
  BY <1>1, QueueFromLeader, BlockedIsFromLeader DEF ReplicationInv
<1>3. \A m \in D : m.at <= now + 1
  BY DEF Due
<1> HIDE DEF D
<1>4. /\ ClusterInv'
      /\ \A l \in Location : l \notin Follower => log'[l] = log[l]
      /\ \A l \in Location : Applied(l) <= Len(log'[l])
  BY <1>1, <1>2, ApplyPreserves
<1>5. \A l \in Location : log'[Leader(l.partition)] = log[Leader(l.partition)]
  BY <1>4, LeaderIsLocation
<1>6. \A p \in PartitionID : log'[Leader(p)] = log[Leader(p)]
  BY <1>4, ClusterAssumption DEF Location, Leader, NodeID, Follower
<1>7. \A l \in Follower : l \in Location
  BY DEF Follower
<1>8. ReplicationTypeOK'
  BY <1>1, <1>4 DEF ReplicationInv, ReplicationTypeOK, ClusterInv
<1>9. CarriesLeadersRecord'
  <2> SUFFICES ASSUME NEW m \in q'
               PROVE  /\ m.position <= Len(log'[Leader(m.destination.partition)])
                      /\ m.record = log'[Leader(m.destination.partition)][m.position]
    BY DEF CarriesLeadersRecord, Applied
  <2>1. m \in q /\ m.destination \in Location
    BY <1>1, <1>7 DEF ReplicationInv, ReplicationTypeOK
  <2> QED BY <1>5, <2>1 DEF ReplicationInv, CarriesLeadersRecord, Applied
<1> DEFINE B(l) == DOMAIN Buffered(l, D)
           e(l) == DrainEnd(l, D)
<1>10. ASSUME NEW l \in Location
       PROVE  /\ Len(log'[l]) = e(l) /\ e(l) \in Nat
              /\ Applied(l) \in Nat /\ Applied(l) <= e(l)
              /\ \A pos \in B(l) : pos \in Nat /\ (pos > e(l) => pos \in DOMAIN pending'[l])
              /\ \A pos \in DOMAIN pending'[l] : pos \in B(l)
              /\ \A pos \in (Applied(l) + 1)..e(l) : pos \in B(l)
              /\ \A pos \in B(l) : \/ pos \in DOMAIN pending[l]
                                   \/ \E m \in D : m.destination = l /\ m.position = pos
              /\ DOMAIN pending[l] \subseteq B(l)
              /\ \A m \in D : m.destination = l /\ m.position > Applied(l)
                                  => m.position \in B(l)
  <2>1. Applied(l) \in Nat
    BY <1>2 DEF ClusterInv, ClusterTypeOK, Applied
  <2>2. /\ B(l) = DOMAIN pending[l] \cup {m.position : m \in Fresh(l, D)}
        /\ \A pos \in B(l) : pos \in Nat
    BY <1>2, BufferedFacts
  <2>3. /\ e(l) \in Nat /\ e(l) >= Applied(l)
        /\ \A pos \in (Applied(l) + 1)..e(l) : pos \in B(l)
    BY <1>2, DrainFacts
  <2>4. /\ Len(log'[l]) = e(l)
        /\ DOMAIN pending'[l] = {pos \in B(l) : pos > e(l)}
    BY <1>1, <1>2, ApplyOutcome
  <2> HIDE DEF B, e
  <2>5. \A m \in D : m.destination = l /\ m.position > Applied(l) => m.position \in B(l)
    BY <2>2 DEF Fresh
  <2>6. \A pos \in B(l) : \/ pos \in DOMAIN pending[l]
                          \/ \E m \in D : m.destination = l /\ m.position = pos
    BY <2>2 DEF Fresh
  <2> QED BY <2>1, <2>2, <2>3, <2>4, <2>5, <2>6
<1> HIDE DEF B, e
<1>11. EachCopyOnce'
  <2>1. ASSUME NEW l \in Follower, NEW pos \in 1..Len(log'[Leader(l.partition)])
        PROVE  \/ pos <= Len(log'[l])
               \/ pos \in DOMAIN pending'[l]
               \/ \E m \in q' : m.destination = l /\ m.position = pos
    <3>1. pos \in 1..Applied(Leader(l.partition)) /\ pos \in Nat
      BY <1>5, <1>7 DEF Applied
    <3>2. \/ pos <= Applied(l)
          \/ pos \in DOMAIN pending[l]
          \/ \E m \in q : m.destination = l /\ m.position = pos
      BY <3>1 DEF ReplicationInv, EachCopyOnce
    <3>3. /\ Len(log'[l]) = e(l) /\ e(l) \in Nat
          /\ Applied(l) \in Nat /\ Applied(l) <= e(l)
          /\ pos \in B(l) => (pos > e(l) => pos \in DOMAIN pending'[l])
          /\ pos \in DOMAIN pending[l] => pos \in B(l)
      BY <1>7, <1>10
    <3>4. ASSUME NEW m \in D, m.destination = l, m.position = pos
          PROVE  pos \in B(l)
      <4>1. m.position > Applied(l)
        BY <1>1, <3>4 DEF ReplicationInv, EachCopyOnce
      <4> QED BY <1>7, <1>10, <3>4, <4>1
    <3>5. pos \in B(l) => pos <= Len(log'[l]) \/ pos \in DOMAIN pending'[l]
      BY <3>1, <3>3
    <3>6. pos <= Applied(l) => pos <= Len(log'[l])
      BY <3>1, <3>3
    <3> QED BY <1>1, <3>2, <3>3, <3>4, <3>5, <3>6
  <2>2. ASSUME NEW m \in q'
        PROVE  /\ m.position > Len(log'[m.destination])
               /\ m.position \notin DOMAIN pending'[m.destination]
    <3> DEFINE l == m.destination
               pos == m.position
    <3>1. m \in q /\ m \notin D /\ l \in Follower /\ l \in Location /\ pos \in Nat
      BY <1>1, <1>7 DEF ReplicationInv, ReplicationTypeOK, Position
    <3>2. pos > Applied(l) /\ pos \notin DOMAIN pending[l]
      BY <3>1 DEF ReplicationInv, EachCopyOnce
    <3>3. ~ \E n \in D : n.destination = l /\ n.position = pos
      BY <1>1, <3>1 DEF ReplicationInv, EachCopyOnce
    <3> HIDE DEF pos, l
    <3>4. pos \notin B(l)
      BY <1>10, <3>1, <3>2, <3>3
    <3>5. /\ pos \notin (Applied(l) + 1)..e(l) /\ pos \notin DOMAIN pending'[l]
          /\ Len(log'[l]) = e(l) /\ e(l) \in Nat /\ Applied(l) \in Nat
      BY <1>10, <3>1, <3>4
    <3>6. pos > Len(log'[l])
      BY <3>1, <3>2, <3>5
    <3> QED BY <3>5, <3>6 DEF pos, l
  <2>3. \A m, n \in q' :
           m.destination = n.destination /\ m.position = n.position => m = n
    BY <1>1 DEF ReplicationInv, EachCopyOnce
  <2> QED BY <2>1, <2>2, <2>3 DEF EachCopyOnce, Applied
<1>12. OnTime'
  <2> SUFFICES ASSUME NEW m \in q'
               PROVE  /\ m.at >= now + 1 /\ m.at # now + 1
                      /\ m.at <= m.record.t + LongestTo(m.destination)
    BY <1>1 DEF OnTime
  <2>1. m \in q /\ m.at \in Nat /\ ~(m.at <= now + 1)
    BY <1>1 DEF ReplicationInv, ReplicationTypeOK
  <2> QED BY <1>1, <2>1 DEF ReplicationInv, OnTime
<1>13. LeaderClock'
  <2> SUFFICES ASSUME NEW p \in PartitionID, NEW i \in 1..Applied(Leader(p))
               PROVE  /\ log[Leader(p)][i].t <= now + 1
                      /\ \A j \in 1..i : log[Leader(p)][j].t <= log[Leader(p)][i].t
    BY <1>1, <1>6 DEF LeaderClock, Applied
  <2>1. log \in [Location -> Seq(Record)] /\ Leader(p) \in Location
    BY <1>2, ClusterAssumption DEF ClusterInv, ClusterTypeOK, Location, Leader, NodeID
  <2>2. log[Leader(p)][i] \in Record
    BY <2>1 DEF Applied
  <2>3. log[Leader(p)][i].t \in Nat
    BY <2>2 DEF Record
  <2> QED BY <1>1, <2>3 DEF ReplicationInv, LeaderClock
<1> QED BY <1>4, <1>8, <1>9, <1>11, <1>12, <1>13 DEF ReplicationInv

LEMMA ReplicationInductive ==
  ReplicationInv /\ [ReplicationNext]_replicationVars => ReplicationInv'
<1> SUFFICES ASSUME ReplicationInv, [ReplicationNext]_replicationVars
             PROVE  ReplicationInv'
  OBVIOUS
<1>1. ASSUME NEW p \in PartitionID, NEW item \in Item, Write(p, item)
      PROVE  ReplicationInv'
  BY <1>1, WritePreserves
<1>2. CASE Advance
  BY <1>2, AdvancePreserves
<1>3. CASE UNCHANGED replicationVars
  <2>1. log' = log /\ pending' = pending /\ q' = q /\ now' = now
    BY <1>3 DEF replicationVars
  <2> QED BY <2>1 DEF ReplicationInv, ClusterInv, ClusterTypeOK, FollowerIsPrefix,
        PendingIsBlocked, Applied, ReplicationTypeOK, CarriesLeadersRecord,
        EachCopyOnce, OnTime, LeaderClock
<1> QED BY <1>1, <1>2, <1>3 DEF ReplicationNext

LEMMA ReplicationInvariant == ReplicationSpec => []ReplicationInv
  BY ReplicationInitial, ReplicationInductive, PTL DEF ReplicationSpec

-----------------------------------------------------------------------------
\* Type correctness, prefix and blocked pending records, now under the clock
\* and the transport of the simulator.
THEOREM ReplicationCorrect ==
  ReplicationSpec => [](/\ ReplicationTypeOK /\ FollowerIsPrefix
                        /\ PendingIsBlocked /\ CarriesLeadersRecord)
<1>1. ReplicationInv => /\ ReplicationTypeOK /\ FollowerIsPrefix
                        /\ PendingIsBlocked /\ CarriesLeadersRecord
  BY DEF ReplicationInv, ClusterInv
<1> QED BY <1>1, ReplicationInvariant, PTL

\* What waits in pending on a follower waits for a predecessor that has not
\* arrived, and is the leader's record (replica.apply), whatever the delays.
THEOREM ReplicationBlocksPending == ReplicationSpec => []PendingIsBlocked
  BY ReplicationCorrect, PTL

\* Every message in flight carries the record that its leader has at that
\* position (Database.append), whatever the delays.
THEOREM ReplicationCarriesRecord == ReplicationSpec => []CarriesLeadersRecord
  BY ReplicationCorrect, PTL

LEMMA OneCopy == ReplicationInv => NoLossNoDuplicate
<1> SUFFICES ASSUME ReplicationInv, NEW l \in Follower,
                    NEW pos \in 1..Applied(Leader(l.partition))
             PROVE  Copies(l, pos) = 1
  BY DEF NoLossNoDuplicate
<1> DEFINE flight == InFlight(l, pos)
<1>1. l \in Location /\ Leader(l.partition) \in Location
  BY LeaderIsLocation DEF Follower
<1>2. Applied(l) \in Nat /\ Applied(Leader(l.partition)) \in Nat
  BY <1>1 DEF ReplicationInv, ClusterInv, ClusterTypeOK, Applied
<1>3. \A m \in flight : m \in q /\ m.destination = l /\ m.position = pos
  BY DEF InFlight
<1>4. pos \in DOMAIN pending[l] => pos > Applied(l) + 1
  BY <1>1 DEF ReplicationInv, ClusterInv, PendingIsBlocked
<1>5. pos \in DOMAIN pending[l] => ~(pos <= Applied(l))
  BY <1>2, <1>4
<1>6. flight # {} => pos > Applied(l) /\ pos \notin DOMAIN pending[l]
  BY <1>3 DEF ReplicationInv, EachCopyOnce
<1>7. flight # {} => ~(pos <= Applied(l))
  BY <1>2, <1>6
<1>8. CASE flight = {}
  <2>1. pos <= Applied(l) \/ pos \in DOMAIN pending[l]
    BY <1>8 DEF ReplicationInv, EachCopyOnce, InFlight
  <2>2. Cardinality(flight) = 0
    BY <1>8, FS_EmptySet
  <2> QED BY <1>5, <2>1, <2>2 DEF Copies
<1>9. CASE flight # {}
  <2>1. PICK m \in flight : TRUE
    BY <1>9
  <2>2. flight = {m}
    BY <1>3, <2>1 DEF ReplicationInv, EachCopyOnce
  <2>3. Cardinality(flight) = 1
    BY <2>2, FS_Singleton
  <2> QED BY <1>6, <1>7, <1>9, <2>3 DEF Copies
<1> QED BY <1>8, <1>9

\* For all clusters and delays: no write is lost on its way to a follower and
\* none arrives twice (Database.append sends once, Advance hands over once).
THEOREM ReplicationExactlyOnce == ReplicationSpec => []NoLossNoDuplicate
  BY OneCopy, ReplicationInvariant, PTL

LEMMA NotStale == ReplicationInv => BoundedStaleness
<1> SUFFICES ASSUME ReplicationInv, NEW l \in Follower,
                    NEW pos \in 1..Applied(Leader(l.partition)),
                    log[Leader(l.partition)][pos].t + StalenessBound(l) <= now,
                    ~(pos <= Applied(l))
             PROVE  FALSE
  BY DEF BoundedStaleness
<1> DEFINE L == Leader(l.partition)
           next == Applied(l) + 1
<1>1. l \in Location /\ L \in Location /\ l.partition \in PartitionID
  BY LeaderIsLocation DEF Follower, Location
<1>2. /\ Applied(l) \in Nat /\ Applied(L) \in Nat
      /\ log[L] \in Seq(Record) /\ Applied(L) = Len(log[L])
  BY <1>1 DEF ReplicationInv, ClusterInv, ClusterTypeOK, Applied
<1>3. next \in 1..Applied(L) /\ next \in 1..pos
  BY <1>2
<1>4. log[L][pos] \in Record /\ log[L][next] \in Record
  BY <1>2, <1>3
<1>5. log[L][pos].t \in Nat /\ log[L][next].t \in Nat /\ log[L][next].t <= log[L][pos].t
  BY <1>1, <1>3, <1>4 DEF Record, ReplicationInv, LeaderClock
<1>6. ~(next <= Applied(l)) /\ next \notin DOMAIN pending[l]
  BY <1>1, <1>2 DEF ReplicationInv, ClusterInv, PendingIsBlocked
<1>7. PICK m \in q : m.destination = l /\ m.position = next
  BY <1>3, <1>6 DEF ReplicationInv, EachCopyOnce
<1>8. m.record = log[L][next] /\ m.at \in Nat /\ now \in Nat
  BY <1>7 DEF ReplicationInv, ReplicationTypeOK, CarriesLeadersRecord
<1>9. /\ m.at >= now /\ (m.at = now => log[L][next].t = now)
      /\ m.at <= log[L][next].t + LongestTo(l)
  BY <1>7, <1>8 DEF ReplicationInv, OnTime
<1>10. LongestTo(l) \in Nat
  BY LongestToType
<1>11. CASE LongestTo(l) = 0
  BY <1>5, <1>8, <1>9, <1>11 DEF StalenessBound
<1>12. CASE LongestTo(l) # 0
  BY <1>5, <1>8, <1>9, <1>10, <1>12 DEF StalenessBound
<1> QED BY <1>11, <1>12

\* The lag of a follower is bounded by its own longest delay, however the
\* messages overtake each other and however long records wait in pending.
THEOREM ReplicationBoundsStaleness == ReplicationSpec => []BoundedStaleness
  BY NotStale, ReplicationInvariant, PTL

-----------------------------------------------------------------------------
(* What a follower keeps, and what it ends up with.                        *)

LEMMA StepForgetsNothing ==
  ReplicationInv /\ [ReplicationNext]_replicationVars => [ForgetsNothing]_clusterVars
<1> SUFFICES ASSUME ReplicationInv, [ReplicationNext]_replicationVars
             PROVE  ForgetsNothing \/ UNCHANGED clusterVars
  OBVIOUS
<1>1. ASSUME NEW p \in PartitionID, NEW item \in Item, Write(p, item)
      PROVE  ForgetsNothing
  <2>1. /\ [t |-> now, item |-> item] \in Record
        /\ AppendRecord(Leader(p), [t |-> now, item |-> item])
    BY <1>1 DEF Record, Write, ReplicationInv, ReplicationTypeOK
  <2> QED BY <2>1, AppendForgetsNothing DEF ReplicationInv
<1>2. CASE Advance
  <2>1. ClusterInv /\ FromLeader(Due(now + 1)) /\ Apply(Due(now + 1))
    BY <1>2, QueueFromLeader DEF Advance, Due, ReplicationInv
  <2> QED BY <2>1, ApplyForgetsNothing
<1>3. CASE UNCHANGED replicationVars
  BY <1>3 DEF replicationVars, clusterVars
<1> QED BY <1>1, <1>2, <1>3 DEF ReplicationNext

\* The deliveries of the simulator are deliveries of the storage layer, so a
\* replica forgets nothing it received (replica.apply) under the clock and
\* the transport either, and a write leaves what is stored as it was.
THEOREM ReplicationForgetsNothing == ReplicationSpec => NothingForgotten
  BY StepForgetsNothing, ReplicationInvariant, PTL
     DEF ReplicationSpec, NothingForgotten, ForgetsNothing

\* The safety half of Converges: a follower that no message is on its way to
\* has exactly its leader's log, and nothing waits in its pending.
QuietIsEqual ==
    \A l \in Follower :
        (\A m \in q : m.destination # l) =>
            log[l] = log[Leader(l.partition)] /\ DOMAIN pending[l] = {}

LEMMA NothingLeftBehind == ReplicationInv => QuietIsEqual
<1> SUFFICES ASSUME ReplicationInv, NEW l \in Follower,
                    \A m \in q : m.destination # l
             PROVE  log[l] = log[Leader(l.partition)] /\ DOMAIN pending[l] = {}
  BY DEF QuietIsEqual
<1> DEFINE L == Leader(l.partition)
           next == Applied(l) + 1
<1>1. l \in Location /\ L \in Location
  BY LeaderIsLocation DEF Follower
<1>2. /\ log[l] \in Seq(Record) /\ log[L] \in Seq(Record)
      /\ Applied(l) \in Nat /\ Applied(L) \in Nat
  BY <1>1 DEF ReplicationInv, ClusterInv, ClusterTypeOK, Applied
<1>3. /\ Applied(l) <= Applied(L)
      /\ \A i \in 1..Applied(l) : log[l][i] = log[L][i]
  BY DEF ReplicationInv, ClusterInv, FollowerIsPrefix
<1>4. \A pos \in DOMAIN pending[l] :
          pos \in Nat /\ pos > next /\ pos <= Applied(L)
  BY <1>1 DEF ReplicationInv, ClusterInv, ClusterTypeOK, PendingIsBlocked, Position
<1>5. next \notin 1..Applied(L)
  <2>1. next \notin DOMAIN pending[l] /\ ~(next <= Applied(l))
    BY <1>2, <1>4
  <2> QED BY <2>1 DEF ReplicationInv, EachCopyOnce
<1>6. Applied(l) = Applied(L)
  BY <1>2, <1>3, <1>5
<1>7. DOMAIN pending[l] = {}
  BY <1>2, <1>4, <1>6
<1>8. log[l] = log[L]
  <2> DEFINE s == log[l]
             t == log[L]
  <2>1. s \in Seq(Record) /\ t \in Seq(Record) /\ Len(s) = Len(t)
        /\ \A i \in 1..Len(s) : s[i] = t[i]
    BY <1>2, <1>3, <1>6 DEF Applied
  <2> HIDE DEF s, t
  <2>2. s = t
    BY <2>1
  <2> QED BY <2>2 DEF s, t
<1> QED BY <1>7, <1>8

\* A partition is consistent as soon as its messages are delivered: nothing
\* that Database.append sent can be stuck on a follower (replica.apply).
THEOREM ReplicationQuietIsEqual == ReplicationSpec => []QuietIsEqual
  BY NothingLeftBehind, ReplicationInvariant, PTL

-----------------------------------------------------------------------------
(* The abstract replicated log.                                            *)

LEMMA AbstractInit == ReplicationInit => R!Init
  BY DEF ReplicationInit, ClusterInit, R!Init, R!Location, Location, PartitionID, NodeID

LEMMA SameNames ==
  /\ R!Location = Location
  /\ R!Follower = Follower
  /\ \A p : R!Leader(p) = Leader(p)
  BY DEF R!Location, R!Follower, R!Leader, Location, Follower, Leader, PartitionID, NodeID

LEMMA WriteIsAbstractWrite ==
  ASSUME ReplicationInv, NEW p \in PartitionID, NEW item \in Item, Write(p, item)
  PROVE  R!Write(p)
<1>1. [t |-> now, item |-> item] \in Record
  BY DEF Record, ReplicationInv, ReplicationTypeOK
<1>2. AppendRecord(Leader(p), [t |-> now, item |-> item])
  BY DEF Write
<1>3. /\ Len(log'[Leader(p)]) = Applied(Leader(p)) + 1
      /\ \A i \in 1..Applied(Leader(p)) : log'[Leader(p)][i] = log[Leader(p)][i]
      /\ \A l \in Location : l # Leader(p) => log'[l] = log[l]
  BY <1>1, <1>2, AppendPreserves DEF ReplicationInv
<1> QED BY <1>3, SameNames DEF R!Write, Applied

LEMMA AdvanceIsCatchUp ==
  ASSUME ReplicationInv, Advance
  PROVE  R!CatchUp
<1> DEFINE D == Due(now + 1)
           upTo == [l \in Follower |-> Len(log'[l])]
<1>1. ClusterInv /\ FromLeader(D) /\ Apply(D)
  BY QueueFromLeader DEF Advance, Due, ReplicationInv
<1> HIDE DEF D
<1>2. ASSUME NEW l \in Location
      PROVE  /\ log[l] \in Seq(Record) /\ log'[l] \in Seq(Record)
             /\ log[Leader(l.partition)] \in Seq(Record)
             /\ Leader(l.partition) \in Location
             /\ Len(log[l]) <= Len(log'[l])
             /\ l \notin Follower => log'[l] = log[l]
             /\ log'[Leader(l.partition)] = log[Leader(l.partition)]
  <2>1. ClusterInv'
    BY <1>1, ApplyPreserves
  <2>2. Leader(l.partition) \in Location /\ Leader(l.partition) \notin Follower
    BY LeaderIsLocation
  <2> QED BY <1>1, <2>1, <2>2, ApplyPreserves DEF ClusterInv, ClusterTypeOK, Applied
<1>3. ASSUME NEW l \in Follower
      PROVE  /\ l \in Location
             /\ Len(log'[l]) <= Len(log[Leader(l.partition)])
             /\ \A i \in 1..Len(log'[l]) : log'[l][i] = log[Leader(l.partition)][i]
  <2>1. l \in Location
    BY DEF Follower
  <2>2. FollowerIsPrefix'
    BY <1>1, ApplyPreserves DEF ClusterInv
  <2> QED BY <1>2, <2>1, <2>2 DEF FollowerIsPrefix, Applied
<1>4. ASSUME NEW l \in Follower
      PROVE  log'[l] = SubSeq(log[Leader(l.partition)], 1, upTo[l])
  <2> DEFINE s == log[Leader(l.partition)]
             t == log'[l]
  <2>1. s \in Seq(Record) /\ t \in Seq(Record) /\ Len(t) <= Len(s)
        /\ \A i \in 1..Len(t) : t[i] = s[i]
    BY <1>2, <1>3
  <2> HIDE DEF s, t
  <2>2. t = SubSeq(s, 1, Len(t))
    BY <2>1
  <2> QED BY <2>2 DEF s, t
<1>5. \A l \in Follower : /\ Len(log[l]) <= upTo[l]
                          /\ upTo[l] <= Len(log[Leader(l.partition)])
                          /\ upTo[l] \in 0..Len(log[Leader(l.partition)])
                          /\ Leader(l.partition) \in Location
  BY <1>2, <1>3
<1>6. upTo \in [Follower -> UNION {0..Len(log[l]) : l \in Location}]
  BY <1>5
<1>7. log' = [l \in Location |-> IF l \in Follower
                                 THEN SubSeq(log[Leader(l.partition)], 1, upTo[l])
                                 ELSE log[l]]
  <2>1. \A l \in Location : log'[l] = IF l \in Follower
                                      THEN SubSeq(log[Leader(l.partition)], 1, upTo[l])
                                      ELSE log[l]
    BY <1>2, <1>4
  <2>2. log' = [l \in Location |-> log'[l]]
    BY <1>1 DEF Apply
  <2> HIDE DEF upTo
  <2> QED BY <2>1, <2>2
<1> HIDE DEF upTo
<1> QED BY <1>5, <1>6, <1>7, SameNames DEF R!CatchUp

LEMMA ReplicationStep ==
  ReplicationInv /\ [ReplicationNext]_replicationVars => [R!Next]_log
<1> SUFFICES ASSUME ReplicationInv, [ReplicationNext]_replicationVars
             PROVE  [R!Next]_log
  OBVIOUS
<1>1. ASSUME NEW p \in PartitionID, NEW item \in Item, Write(p, item)
      PROVE  R!Next
  BY <1>1, WriteIsAbstractWrite DEF R!Next, PartitionID
<1>2. CASE Advance
  BY <1>2, AdvanceIsCatchUp DEF R!Next
<1>3. CASE UNCHANGED replicationVars
  BY <1>3 DEF replicationVars
<1> QED BY <1>1, <1>2, <1>3 DEF ReplicationNext

\* Replication is a replicated log: each write appends at a leader, each tick
\* lets followers catch up along it, and nothing else ever changes a log.
THEOREM ReplicationRefinesReplicatedLog == ReplicationSpec => R!SafeSpec
  BY ReplicationStep, AbstractInit, ReplicationInvariant, PTL DEF ReplicationSpec, R!SafeSpec
=============================================================================
