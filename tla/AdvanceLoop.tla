---------------------------- MODULE AdvanceLoop ----------------------------
(***************************************************************************)
(* The delivery loop of Sim.Advance and the loop of replica.apply, one     *)
(* statement at a time: messages are taken one by one, in any order, and   *)
(* each drains the pending records that have become contiguous.  A batch   *)
(* run to its end has the effect of the single step Apply of Cluster.tla:  *)
(* this is why Transport.tla can keep a set and Replication.tla one        *)
(* Advance.                                                                *)
(***************************************************************************)
EXTENDS Cluster

VARIABLES
    batch,      \* messages of the batch not yet taken
    draining    \* the replica inside the loop of apply; {} between messages

loopVars == <<log, pending, batch, draining>>

LoopInit == ClusterInit /\ batch = {} /\ draining = {}

Idle == batch = {} /\ draining = {}

\* Between two batches the leader may accept a record.
LoopAccept(p, item) == Idle /\ Accept(p, item) /\ UNCHANGED <<batch, draining>>

\* Sim.Advance has taken a batch from the transport.
BeginBatch(delivered) ==
    /\ Idle
    /\ delivered # {}
    /\ batch' = delivered
    /\ UNCHANGED <<log, pending, draining>>

\* Faulty variant: the next position to apply is taken for a duplicate.
DropNextToo(m) ==
    /\ draining = {}
    /\ m.position <= Applied(m.destination) + 1
    /\ batch' = batch \ {m}
    /\ UNCHANGED <<log, pending, draining>>

\* apply called with a position that is in the log: it returns at once.
DropDuplicate(m) ==
    /\ draining = {}
    /\ m.position <= Applied(m.destination)
    /\ batch' = batch \ {m}
    /\ UNCHANGED <<log, pending, draining>>

\* pending[pos] = record, whether or not the position was there.
Buffer(m) ==
    /\ draining = {}
    /\ m.position > Applied(m.destination)
    /\ batch' = batch \ {m}
    /\ draining' = {m.destination}
    /\ pending' = [pending EXCEPT ![m.destination] =
                      [pos \in DOMAIN @ \cup {m.position} |->
                          IF pos = m.position THEN m.record ELSE @[pos]]]
    /\ UNCHANGED log

\* Faulty variant: apply returns after the first record.
DrainOnlyOne(l) ==
    /\ Applied(l) + 1 \in DOMAIN pending[l]
    /\ log' = [log EXCEPT ![l] = Append(@, pending[l][Applied(l) + 1])]
    /\ pending' = [pending EXCEPT ![l] =
                      [pos \in DOMAIN @ \ {Applied(l) + 1} |-> @[pos]]]
    /\ draining' = {}
    /\ UNCHANGED batch

\* Faulty variant: the loop takes the earliest record there is.
DrainOneGap(l) ==
    \E pos \in DOMAIN pending[l] :
        /\ \A other \in DOMAIN pending[l] : pos <= other
        /\ log' = [log EXCEPT ![l] = Append(@, pending[l][pos])]
        /\ pending' = [pending EXCEPT ![l] = [other \in DOMAIN @ \ {pos} |-> @[other]]]
        /\ UNCHANGED <<batch, draining>>

\* Faulty variant: the next position is computed again after the append.
DrainDeletesNext(l) ==
    /\ Applied(l) + 1 \in DOMAIN pending[l]
    /\ log' = [log EXCEPT ![l] = Append(@, pending[l][Applied(l) + 1])]
    /\ pending' = [pending EXCEPT ![l] =
                      [pos \in DOMAIN @ \ {Applied(l) + 2} |-> @[pos]]]
    /\ UNCHANGED <<batch, draining>>

\* One turn of the loop: append the next record and delete it from pending.
DrainOne(l) ==
    /\ Applied(l) + 1 \in DOMAIN pending[l]
    /\ log' = [log EXCEPT ![l] = Append(@, pending[l][Applied(l) + 1])]
    /\ pending' = [pending EXCEPT ![l] =
                      [pos \in DOMAIN @ \ {Applied(l) + 1} |-> @[pos]]]
    /\ UNCHANGED <<batch, draining>>

\* Faulty variant: the loop is not left.
DrainForever(l) ==
    /\ Applied(l) + 1 \notin DOMAIN pending[l]
    /\ UNCHANGED loopVars

\* The next position is not pending: apply returns.
DrainDone(l) ==
    /\ Applied(l) + 1 \notin DOMAIN pending[l]
    /\ draining' = {}
    /\ UNCHANGED <<log, pending, batch>>

LoopNext ==
    \/ \E p \in PartitionID, item \in Item : LoopAccept(p, item)
    \/ \E delivered \in SUBSET Sendable : BeginBatch(delivered)
    \/ \E m \in batch : DropDuplicate(m) \/ Buffer(m)
    \/ \E l \in draining : DrainOne(l) \/ DrainDone(l)

LoopSpec == LoopInit /\ [][LoopNext]_loopVars /\ WF_loopVars(LoopNext)

-----------------------------------------------------------------------------
(***************************************************************************)
(* The loop implements Apply.  Seen from outside, a batch happens when it  *)
(* begins: the abstract replica already holds what the rest of the batch   *)
(* will leave, and every statement of the loop keeps that outcome.         *)
(***************************************************************************)
Outcome == INSTANCE Cluster WITH
    log     <- [l \in Location |-> LogAfter(l, batch)],
    pending <- [l \in Location |-> PendingAfter(l, batch)]

ImplementsApply == Outcome!ClusterSpec

\* When the loop has ended nothing applicable is left waiting, so the next
\* reader sees everything that arrived without a hole before it, and nothing
\* applied is left behind in pending.
DrainedWhenIdle ==
    Idle => \A l \in Location : \A pos \in DOMAIN pending[l] : pos > Applied(l) + 1

\* apply always returns: each turn removes a record from pending.
BatchEnds == []<>Idle
=============================================================================
