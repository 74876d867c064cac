------------------------------ MODULE Cluster ------------------------------
(***************************************************************************)
(* The storage layer of the simulator: fake/database/cluster.go with the   *)
(* identifiers of topology.go and the replica set of replicator.go.        *)
(*                                                                         *)
(* A location holds one replica of one partition; node 0 is the leader.    *)
(* A replica is its log (positions 1..Len) and the records that arrived    *)
(* before their predecessors (pending).  Storage knows neither clock nor   *)
(* network, so this specification delivers any set of the leader's records *)
(* to the followers at any moment: late, early, out of order and again.    *)
(* Replication.tla restricts the deliveries to those of the transport.     *)
(***************************************************************************)
EXTENDS Integers, Sequences, FiniteSets

CONSTANTS
    Partitions,   \* number of partitions
    Followers,    \* followers of each partition
    Item,         \* what a record carries: a thread or a post
    MaxLog        \* bound: records per partition

ASSUME ClusterAssumption ==
    /\ Partitions \in Nat \ {0}
    /\ Followers \in Nat
    /\ MaxLog \in Nat

PartitionID == 0..(Partitions - 1)
NodeID      == 0..Followers
Position    == Nat \ {0}
Location    == [partition : PartitionID, node : NodeID]

\* A record is stamped with the time at which the leader accepted it.
Record == [t : Nat, item : Item]

Leader(p) == [partition |-> p, node |-> 0]
Follower  == {l \in Location : l.node # 0}

\* Faulty variant: the loop over the followers stops one short.
TargetsOneShort(source) ==
    {l \in Follower : l.partition = source.partition /\ l.node < Followers}

\* AllFollowersReplicator: every follower of the partition that was written.
Targets(source) == {l \in Follower : l.partition = source.partition}

VARIABLES
    log,      \* log[l]: the records of replica l, in order of position
    pending   \* pending[l]: position -> record, arrived but not applicable

clusterVars == <<log, pending>>

\* Faulty variant: NewCluster forgets the replica of the last node.
ClusterInitOneShort ==
    /\ log = [l \in {k \in Location : k.node < Followers} |-> <<>>]
    /\ pending = [l \in {k \in Location : k.node < Followers} |-> <<>>]

ClusterInit ==
    /\ log = [l \in Location |-> <<>>]
    /\ pending = [l \in Location |-> <<>>]

Applied(l) == Len(log[l])

(***************************************************************************)
(* Append writes at the location it is given and nowhere else, and does    *)
(* not look at pending.                                                    *)
(***************************************************************************)
AppendRecord(l, record) ==
    /\ log' = [log EXCEPT ![l] = Append(@, record)]
    /\ UNCHANGED pending

(***************************************************************************)
(* replica.apply for a set of messages, in one step.  A message at or      *)
(* below the end of the log is a duplicate and is dropped; the others join *)
(* pending; the log then takes what has become contiguous.  AdvanceLoop    *)
(* runs the loop statement by statement and implements this definition.    *)
(***************************************************************************)
Fresh(l, delivered) ==
    {m \in delivered : m.destination = l /\ m.position > Applied(l)}

Buffered(l, delivered) ==
    LET fresh == Fresh(l, delivered)
    IN  [pos \in DOMAIN pending[l] \cup {m.position : m \in fresh} |->
            IF \E m \in fresh : m.position = pos
            THEN (CHOOSE m \in fresh : m.position = pos).record
            ELSE pending[l][pos]]

\* The position at which the loop stops: the next one is not buffered.
DrainEnd(l, delivered) ==
    LET buffered == DOMAIN Buffered(l, delivered)
    IN  CHOOSE n \in buffered \cup {Applied(l)} :
            /\ n >= Applied(l)
            /\ \A pos \in (Applied(l) + 1)..n : pos \in buffered
            /\ n + 1 \notin buffered

\* Faulty variant: what arrived is appended without waiting for the gap.
LogAfterGaps(l, delivered) ==
    LET buffered == DOMAIN Buffered(l, delivered)
        nth(k) == CHOOSE pos \in buffered :
                      Cardinality({other \in buffered : other < pos}) = k - 1
    IN  [i \in 1..(Applied(l) + Cardinality(buffered)) |->
            IF i <= Applied(l) THEN log[l][i]
            ELSE Buffered(l, delivered)[nth(i - Applied(l))]]

LogAfter(l, delivered) ==
    [i \in 1..DrainEnd(l, delivered) |->
        IF i <= Applied(l) THEN log[l][i] ELSE Buffered(l, delivered)[i]]

\* Faulty variant: the applied records are not deleted.
PendingAfterKept(l, delivered) == Buffered(l, delivered)

\* Faulty variant: pending is emptied when the loop has applied something.
PendingAfterEmptied(l, delivered) ==
    IF DrainEnd(l, delivered) > Applied(l) THEN <<>> ELSE Buffered(l, delivered)

PendingAfter(l, delivered) ==
    [pos \in {p \in DOMAIN Buffered(l, delivered) : p > DrainEnd(l, delivered)} |->
        Buffered(l, delivered)[pos]]

Apply(delivered) ==
    /\ log' = [l \in Location |-> LogAfter(l, delivered)]
    /\ pending' = [l \in Location |-> PendingAfter(l, delivered)]

-----------------------------------------------------------------------------
(***************************************************************************)
(* The storage layer alone, under any delivery of what a leader holds.     *)
(***************************************************************************)
Message(l, pos) ==
    [destination |-> l, position |-> pos, record |-> log[Leader(l.partition)][pos]]

Sendable ==
    UNION {{Message(l, pos) : pos \in 1..Applied(Leader(l.partition))} : l \in Follower}

Accept(p, item) ==
    /\ Applied(Leader(p)) < MaxLog
    /\ AppendRecord(Leader(p), [t |-> 0, item |-> item])

Receive == \E delivered \in SUBSET Sendable : delivered # {} /\ Apply(delivered)

ClusterNext ==
    \/ \E p \in PartitionID, item \in Item : Accept(p, item)
    \/ Receive

ClusterSpec == ClusterInit /\ [][ClusterNext]_clusterVars

-----------------------------------------------------------------------------
ClusterTypeOK ==
    /\ log \in [Location -> Seq(Record)]
    /\ DOMAIN pending = Location
    /\ \A l \in Location : \A pos \in DOMAIN pending[l] :
            pos \in Position /\ pending[l][pos] \in Record

\* A follower's log is at every moment a prefix of its leader's: reordered,
\* early and repeated deliveries never leave a hole, a swap or a second copy.
FollowerIsPrefix ==
    \A l \in Follower :
        /\ Applied(l) <= Applied(Leader(l.partition))
        /\ \A i \in 1..Applied(l) : log[l][i] = log[Leader(l.partition)][i]

\* What waits in pending really waits: its predecessor is missing, it is not
\* a leftover of something applied, and it is the leader's record there.
PendingIsBlocked ==
    \A l \in Location : \A pos \in DOMAIN pending[l] :
        /\ pos > Applied(l) + 1
        /\ pos <= Applied(Leader(l.partition))
        /\ pending[l][pos] = log[Leader(l.partition)][pos]

\* A replica forgets nothing it received: an arrived record is in the log or
\* in pending after the step, and what was applied stays as it was.
NothingForgotten ==
    [][\A l \in Location :
        /\ Applied(l) <= Len(log'[l])
        /\ \A i \in 1..Applied(l) : log'[l][i] = log[l][i]
        /\ \A pos \in DOMAIN pending[l] :
                \/ pos \in DOMAIN pending'[l] /\ pending'[l][pos] = pending[l][pos]
                \/ pos <= Len(log'[l]) /\ log'[l][pos] = pending[l][pos]]_clusterVars
=============================================================================
