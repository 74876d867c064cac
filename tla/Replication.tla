---------------------------- MODULE Replication ----------------------------
(***************************************************************************)
(* Asynchronous replication: the storage of Cluster.tla driven through the *)
(* delayed messages of Transport.tla by Database.append and Sim.Advance    *)
(* (fake/simulator/database.go and sim.go).  A write is stored on the      *)
(* leader, sent to every follower and acknowledged at once.  The virtual   *)
(* clock moves only in Advance, which hands over everything that is due.   *)
(***************************************************************************)
EXTENDS Cluster, Transport

CONSTANT
    MaxNow        \* bound: the clock stops here

ASSUME ReplicationAssumption == MaxNow \in Nat

VARIABLE now      \* Sim.now

replicationVars == <<log, pending, q, now>>

ReplicationInit ==
    /\ ClusterInit
    /\ TransportInit
    /\ now = 0

(***************************************************************************)
(* Database.append at a partition: Append on the leader, then one Send per *)
(* target, each with a delay of its own.  Nothing waits for a follower.    *)
(***************************************************************************)
Write(p, item) ==
    LET record == [t |-> now, item |-> item]
    IN  /\ AppendRecord(Leader(p), record)
        /\ \E delay \in DelayChoices(Targets(Leader(p))) :
                Send(now, Targets(Leader(p)), Applied(Leader(p)) + 1, record, delay)
        /\ UNCHANGED now

\* Writes leave every message time to arrive before the clock stops.
WriteAllowed(p) ==
    /\ Applied(Leader(p)) < MaxLog
    /\ now + LongestDelay < MaxNow

\* Sim.Advance: one tick, then everything due is taken and applied.
Advance ==
    /\ now < MaxNow
    /\ now' = now + 1
    /\ Apply(Due(now + 1))
    /\ DeliverUpTo(now + 1)

ReplicationNext ==
    \/ \E p \in PartitionID, item \in Item : WriteAllowed(p) /\ Write(p, item)
    \/ Advance

\* Whoever drives the simulation keeps advancing the clock.
ReplicationSpec ==
    /\ ReplicationInit
    /\ [][ReplicationNext]_replicationVars
    /\ WF_replicationVars(Advance)

-----------------------------------------------------------------------------
ReplicationTypeOK ==
    /\ ClusterTypeOK
    /\ now \in Nat
    /\ \A m \in q : /\ m.at \in Nat
                    /\ m.destination \in Follower
                    /\ m.position \in Position
                    /\ m.record \in Record

\* Where a record of the leader is, seen from a follower.
InFlight(l, pos) == {m \in q : m.destination = l /\ m.position = pos}
Copies(l, pos) ==
    (IF pos <= Applied(l) THEN 1 ELSE 0)
    + (IF pos \in DOMAIN pending[l] THEN 1 ELSE 0)
    + Cardinality(InFlight(l, pos))

\* Database.append sends each record once and nothing retransmits it: from
\* every follower's side each record of the leader is applied, or pending, or
\* in flight, and exactly one of the three.
NoLossNoDuplicate ==
    \A l \in Follower : \A pos \in 1..Applied(Leader(l.partition)) : Copies(l, pos) = 1

\* What is in flight is what the leader has at that position, stamped with
\* the time at which the leader accepted it.
CarriesLeadersRecord ==
    \A m \in q :
        /\ m.position <= Applied(Leader(m.destination.partition))
        /\ m.record = log[Leader(m.destination.partition)][m.position]

\* The time after which a record must be readable on a follower: the longest
\* delay of that follower, and at least the tick in which Advance delivers.
StalenessBound(l) == IF LongestTo(l) = 0 THEN 1 ELSE LongestTo(l)

\* A follower is never staler than its own longest delay: waiting in pending
\* for a slower predecessor does not add to the delay of one message.
BoundedStaleness ==
    \A l \in Follower : \A pos \in 1..Applied(Leader(l.partition)) :
        log[Leader(l.partition)][pos].t + StalenessBound(l) <= now => pos <= Applied(l)

\* Every record the leader has accepted reaches every follower.
Converges ==
    \A l \in Follower : \A n \in 1..MaxLog :
        Applied(Leader(l.partition)) >= n ~> Applied(l) >= n

\* Replication implements the abstract replicated log, fairness included.
R == INSTANCE ReplicatedLog
ImplementsReplicatedLog == R!Spec
=============================================================================
