------------------------- MODULE AdvanceLoopProofs -------------------------
(***************************************************************************)
(* Proofs about AdvanceLoop.tla, for any cluster, batch and order in which *)
(* its messages are taken: after every statement a follower is a prefix    *)
(* and has forgotten nothing, and the loop as a whole implements the one   *)
(* step Apply that the other modules use.                                  *)
(***************************************************************************)
EXTENDS AdvanceLoop, ClusterProofs

\* Between two statements the next position may be pending only at the
\* replica that the loop is at.
DrainedElsewhere ==
    \A l \in Location \ draining : Applied(l) + 1 \notin DOMAIN pending[l]

LoopInv ==
    /\ StorageInv
    /\ pending = [l \in Location |-> [pos \in DOMAIN pending[l] |-> pending[l][pos]]]
    /\ FromLeader(batch)
    /\ draining \subseteq Follower
    /\ \A l, k \in draining : l = k
    /\ DrainedElsewhere

-----------------------------------------------------------------------------
(* What the rest of a batch will leave, in terms of the leader's log.      *)

\* Positions that are pending or will be before the batch is over.
Awaited(l, D) == DOMAIN pending[l] \cup {m.position : m \in Fresh(l, D)}

\* The loop stops at n.
StopsAt(l, D, n) ==
    /\ n >= Applied(l)
    /\ \A pos \in (Applied(l) + 1)..n : pos \in Awaited(l, D)
    /\ n + 1 \notin Awaited(l, D)

LEMMA StopsOnce ==
  ASSUME StorageInv, NEW l \in Location, NEW D, FromLeader(D),
         NEW n \in Nat, StopsAt(l, D, n)
  PROVE  DrainEnd(l, D) = n
<1> DEFINE e == DrainEnd(l, D)
<1>1. Applied(l) \in Nat
  BY DEF StorageInv, ClusterTypeOK, Applied
<1>2. /\ e \in Nat /\ e >= Applied(l)
      /\ \A pos \in (Applied(l) + 1)..e : pos \in Awaited(l, D)
      /\ e + 1 \notin Awaited(l, D)
  BY DrainFacts, BufferedFacts DEF Awaited
<1> HIDE DEF e
<1>3. ~(e < n)
  <2> SUFFICES ASSUME e < n PROVE FALSE
    OBVIOUS
  <2>1. e + 1 \in (Applied(l) + 1)..n
    BY <1>1, <1>2
  <2> QED BY <2>1, <1>2 DEF StopsAt
<1>4. ~(n < e)
  <2> SUFFICES ASSUME n < e PROVE FALSE
    OBVIOUS
  <2>1. n + 1 \in (Applied(l) + 1)..e
    BY <1>1, <1>2 DEF StopsAt
  <2> QED BY <2>1, <1>2 DEF StopsAt
<1> QED BY <1>2, <1>3, <1>4 DEF e

\* The outcome of a batch at l, when the loop stops at n and B is awaited: it
\* depends on nothing else.
OutcomeAt(w, p, n, B, L) ==
    /\ w = [i \in 1..n |-> L[i]]
    /\ p = [pos \in {k \in B : k > n} |-> L[pos]]

LEMMA OutcomeOfBatch ==
  ASSUME StorageInv, NEW l \in Location, NEW D, FromLeader(D)
  PROVE  OutcomeAt(LogAfter(l, D), PendingAfter(l, D), DrainEnd(l, D), Awaited(l, D),
                   log[Leader(l.partition)])
<1> DEFINE e == DrainEnd(l, D)
           L == log[Leader(l.partition)]
           B == DOMAIN Buffered(l, D)
<1>1. Applied(l) \in Nat
  BY DEF StorageInv, ClusterTypeOK, Applied
<1>2. B = Awaited(l, D) /\ \A pos \in B : pos \in Nat /\ Buffered(l, D)[pos] = L[pos]
  BY BufferedFacts DEF Awaited
<1>3. e \in Nat /\ e >= Applied(l) /\ \A pos \in (Applied(l) + 1)..e : pos \in B
  BY DrainFacts
<1>4. \A i \in 1..Applied(l) : log[l][i] = L[i]
  BY LeaderIsLocation DEF StorageInv, FollowerIsPrefix
<1>5. LogAfter(l, D) = [i \in 1..e |-> IF i <= Applied(l) THEN log[l][i]
                                       ELSE Buffered(l, D)[i]]
  BY DEF LogAfter
<1>6. PendingAfter(l, D) = [pos \in {k \in B : k > e} |-> Buffered(l, D)[pos]]
  BY DEF PendingAfter
<1> HIDE DEF e, L, B
<1>7. \A i \in 1..e : (IF i <= Applied(l) THEN log[l][i] ELSE Buffered(l, D)[i]) = L[i]
  <2> SUFFICES ASSUME NEW i \in 1..e
               PROVE  (IF i <= Applied(l) THEN log[l][i] ELSE Buffered(l, D)[i]) = L[i]
    OBVIOUS
  <2>1. CASE i <= Applied(l)
    BY <2>1, <1>1, <1>3, <1>4
  <2>2. CASE ~(i <= Applied(l))
    <3>1. i \in (Applied(l) + 1)..e
      BY <2>2, <1>1, <1>3
    <3> QED BY <3>1, <2>2, <1>2, <1>3
  <2> QED BY <2>1, <2>2
<1>8. LogAfter(l, D) = [i \in 1..e |-> L[i]]
  BY <1>5, <1>7
<1>9. PendingAfter(l, D) = [pos \in {k \in B : k > e} |-> L[pos]]
  BY <1>2, <1>6
<1> QED BY <1>2, <1>8, <1>9 DEF OutcomeAt, e, L, B
-----------------------------------------------------------------------------
(* What the abstract storage holds.                                        *)

BarLog     == [l \in Location |-> LogAfter(l, batch)]
BarPending == [l \in Location |-> PendingAfter(l, batch)]

\* The same facts about the state and, a step later, about its successor.
LEMMA OutcomeNow ==
  StorageInv /\ FromLeader(batch) =>
    \A l \in Location :
      /\ OutcomeAt(LogAfter(l, batch), PendingAfter(l, batch), DrainEnd(l, batch),
                   Awaited(l, batch), log[Leader(l.partition)])
      /\ DrainEnd(l, batch) \in Nat
      /\ StopsAt(l, batch, DrainEnd(l, batch))
      /\ \A n \in Nat : StopsAt(l, batch, n) => DrainEnd(l, batch) = n
<1> SUFFICES ASSUME StorageInv, FromLeader(batch), NEW l \in Location
             PROVE  /\ OutcomeAt(LogAfter(l, batch), PendingAfter(l, batch),
                                 DrainEnd(l, batch), Awaited(l, batch),
                                 log[Leader(l.partition)])
                    /\ DrainEnd(l, batch) \in Nat
                    /\ StopsAt(l, batch, DrainEnd(l, batch))
                    /\ \A n \in Nat : StopsAt(l, batch, n) => DrainEnd(l, batch) = n
  OBVIOUS
<1>1. \A n \in Nat : StopsAt(l, batch, n) => DrainEnd(l, batch) = n
  BY StopsOnce
<1>2. DrainEnd(l, batch) \in Nat /\ StopsAt(l, batch, DrainEnd(l, batch))
  BY DrainFacts, BufferedFacts DEF StopsAt, Awaited
<1> QED BY <1>1, <1>2, OutcomeOfBatch

LEMMA OutcomeNext ==
  (StorageInv /\ FromLeader(batch) =>
    \A l \in Location :
      /\ OutcomeAt(LogAfter(l, batch), PendingAfter(l, batch), DrainEnd(l, batch),
                   Awaited(l, batch), log[Leader(l.partition)])
      /\ DrainEnd(l, batch) \in Nat
      /\ StopsAt(l, batch, DrainEnd(l, batch))
      /\ \A n \in Nat : StopsAt(l, batch, n) => DrainEnd(l, batch) = n)'
  BY OutcomeNow, PTL

\* A statement that leaves the leaders alone and does not change where a loop
\* will stop nor what lies above that, does not change the outcome.
LEMMA OutcomeStays ==
  ASSUME LoopInv, StorageInv', FromLeader(batch)',
         \A l \in Location : log'[Leader(l.partition)] = log[Leader(l.partition)],
         \A l \in Location : \A n \in Nat : StopsAt(l, batch, n) =>
             /\ StopsAt(l, batch, n)'
             /\ {k \in Awaited(l, batch)' : k > n} = {k \in Awaited(l, batch) : k > n}
  PROVE  BarLog' = BarLog /\ BarPending' = BarPending
<1>1. ASSUME NEW l \in Location
      PROVE  LogAfter(l, batch)' = LogAfter(l, batch) /\ PendingAfter(l, batch)' = PendingAfter(l, batch)
  <2>1. PICK n \in Nat : n = DrainEnd(l, batch) /\ StopsAt(l, batch, n)
    BY OutcomeNow DEF LoopInv
  <2>2. OutcomeAt(LogAfter(l, batch), PendingAfter(l, batch), n, Awaited(l, batch),
                  log[Leader(l.partition)])
    BY <2>1, OutcomeNow DEF LoopInv
  <2>3. n = DrainEnd(l, batch)'
    BY <2>1, OutcomeNext
  <2>4. OutcomeAt(LogAfter(l, batch)', PendingAfter(l, batch)', n, Awaited(l, batch)',
                  log'[Leader(l.partition)])
    BY <2>3, OutcomeNext
  <2>5. /\ {k \in Awaited(l, batch)' : k > n} = {k \in Awaited(l, batch) : k > n}
        /\ log'[Leader(l.partition)] = log[Leader(l.partition)]
    BY <2>1
  <2> QED BY <2>2, <2>4, <2>5 DEF OutcomeAt
<1> QED BY <1>1 DEF BarLog, BarPending

\* When no batch is under way the abstract storage is the storage.
LEMMA IdleIsOutcome ==
  LoopInv /\ Idle => BarLog = log /\ BarPending = pending /\ ClusterInv
<1> SUFFICES ASSUME LoopInv, Idle
             PROVE  BarLog = log /\ BarPending = pending /\ ClusterInv
  OBVIOUS
<1>1. /\ StorageInv /\ log \in [Location -> Seq(Record)] /\ DOMAIN pending = Location
      /\ FromLeader(batch) /\ batch = {} /\ draining = {}
  BY DEF LoopInv, StorageInv, ClusterTypeOK, Idle
<1>2. ASSUME NEW l \in Location
      PROVE  LogAfter(l, batch) = log[l] /\ PendingAfter(l, batch) = pending[l]
  <2> DEFINE L == log[Leader(l.partition)]
  <2>1. Awaited(l, batch) = DOMAIN pending[l]
    BY <1>1 DEF Awaited, Fresh
  <2>2. log[l] \in Seq(Record) /\ Applied(l) = Len(log[l]) /\ Applied(l) \in Nat
    BY <1>1 DEF Applied
  <2>3. StopsAt(l, batch, Applied(l))
    BY <1>1, <2>1, <2>2 DEF StopsAt, LoopInv, DrainedElsewhere
  <2>4. DrainEnd(l, batch) = Applied(l)
    BY <1>1, <2>2, <2>3, OutcomeNow
  <2>5. OutcomeAt(LogAfter(l, batch), PendingAfter(l, batch), Applied(l), DOMAIN pending[l], L)
    <3>1. OutcomeAt(LogAfter(l, batch), PendingAfter(l, batch), DrainEnd(l, batch),
                    Awaited(l, batch), log[Leader(l.partition)])
      BY <1>1, OutcomeNow
    <3> QED BY <2>1, <2>4, <3>1 DEF OutcomeAt
  <2>6. \A i \in 1..Applied(l) : log[l][i] = L[i]
    BY <1>1, LeaderIsLocation DEF StorageInv, FollowerIsPrefix
  <2>7. LogAfter(l, batch) = log[l]
    <3>1. log[l] = [i \in 1..Applied(l) |-> log[l][i]]
      BY <2>2
    <3>2. LogAfter(l, batch) = [i \in 1..Applied(l) |-> L[i]]
      BY <2>5 DEF OutcomeAt
    <3> HIDE DEF L
    <3> QED BY <2>6, <3>1, <3>2
  <2>8. \A pos \in DOMAIN pending[l] : pos > Applied(l) /\ pending[l][pos] = L[pos]
    BY <1>1 DEF StorageInv, PendingFromLeader
  <2>9. pending[l] = [pos \in DOMAIN pending[l] |-> pending[l][pos]]
    BY DEF LoopInv
  <2>10. PendingAfter(l, batch) = pending[l]
    BY <2>5, <2>8, <2>9 DEF OutcomeAt
  <2> QED BY <2>7, <2>10
<1>3. \A l \in Location : \A pos \in DOMAIN pending[l] : pos > Applied(l) + 1
  <2> SUFFICES ASSUME NEW l \in Location, NEW pos \in DOMAIN pending[l]
               PROVE  pos > Applied(l) + 1
    OBVIOUS
  <2>1. pos > Applied(l) /\ pos \in Nat /\ Applied(l) \in Nat
    BY <1>1 DEF StorageInv, ClusterTypeOK, PendingFromLeader, Position, Applied
  <2>2. Applied(l) + 1 \notin DOMAIN pending[l]
    BY <1>1 DEF LoopInv, DrainedElsewhere
  <2> QED BY <2>1, <2>2
<1>4. ClusterInv
  BY <1>1, <1>3 DEF StorageInv, PendingFromLeader, ClusterInv, PendingIsBlocked
<1>5. BarLog = log
  BY <1>1, <1>2 DEF BarLog
<1>6. pending = [l \in Location |-> pending[l]]
  BY DEF LoopInv
<1> QED BY <1>2, <1>4, <1>5, <1>6 DEF BarPending

LEMMA NextIdleIsOutcome ==
  (LoopInv /\ Idle => BarLog = log /\ BarPending = pending /\ ClusterInv)'
  BY IdleIsOutcome, PTL
-----------------------------------------------------------------------------
(* The statements, one by one.                                             *)

LEMMA StoredStays ==
  ASSUME LoopInv, UNCHANGED <<log, pending>>
  PROVE  /\ StorageInv' /\ ForgetsNothing
         /\ pending' = [l \in Location |-> [pos \in DOMAIN pending'[l] |-> pending'[l][pos]]]
<1>1. StorageInv'
  BY DEF LoopInv, StorageInv, ClusterTypeOK, FollowerIsPrefix, PendingFromLeader, Applied
<1>2. ForgetsNothing
  <2>1. \A l \in Location : Applied(l) \in Nat
    BY DEF LoopInv, StorageInv, ClusterTypeOK, Applied
  <2> QED BY <2>1 DEF ForgetsNothing, Applied
<1> QED BY <1>1, <1>2 DEF LoopInv

LEMMA AcceptStep ==
  ASSUME LoopInv, NEW p \in PartitionID, NEW item \in Item, LoopAccept(p, item)
  PROVE  LoopInv' /\ ForgetsNothing /\ Idle /\ Idle' /\ ClusterInv
<1>1. [t |-> 0, item |-> item] \in Record
  BY DEF Record
<1>2. /\ Idle /\ UNCHANGED <<batch, draining>> /\ UNCHANGED pending
      /\ AppendRecord(Leader(p), [t |-> 0, item |-> item])
  BY DEF LoopAccept, Accept, AppendRecord
<1>3. ClusterInv
  BY <1>2, IdleIsOutcome
<1>4. /\ ClusterInv'
      /\ \A l \in Location :
            /\ Applied(l) \in Nat
            /\ Applied(l) <= Len(log'[l])
            /\ \A i \in 1..Applied(l) : log'[l][i] = log[l][i]
  BY <1>1, <1>2, <1>3, AppendPreserves
<1>5. StorageInv'
  <2>1. (ClusterInv => StorageInv)'
    BY BlockedIsFromLeader, PTL
  <2> QED BY <1>4, <2>1
<1>6. DrainedElsewhere'
  <2> SUFFICES ASSUME NEW l \in Location, Len(log'[l]) + 1 \in DOMAIN pending'[l]
               PROVE  FALSE
    BY DEF DrainedElsewhere, Applied
  <2>1. Len(log'[l]) + 1 > Len(log'[l]) + 1 /\ Len(log'[l]) \in Nat
    BY <1>4 DEF ClusterInv, ClusterTypeOK, PendingIsBlocked, Applied
  <2> QED BY <2>1
<1>7. ForgetsNothing
  BY <1>2, <1>4 DEF ForgetsNothing
<1> QED BY <1>2, <1>3, <1>5, <1>6, <1>7 DEF LoopInv, Idle, FromLeader

LEMMA BeginStep ==
  ASSUME LoopInv, NEW D \in SUBSET Sendable, BeginBatch(D)
  PROVE  LoopInv' /\ ForgetsNothing /\ Idle /\ ClusterInv /\ FromLeader(D)
<1>1. Idle /\ batch' = D /\ UNCHANGED <<log, pending, draining>>
  BY DEF BeginBatch
<1>2. ClusterInv
  BY <1>1, IdleIsOutcome
<1>3. FromLeader(D)
  BY <1>2, SendableFromLeader
<1>4. FromLeader(batch)' /\ DrainedElsewhere'
  BY <1>1, <1>3 DEF LoopInv, FromLeader, DrainedElsewhere, Applied
<1> QED BY <1>1, <1>2, <1>3, <1>4, StoredStays DEF LoopInv

LEMMA DropStep ==
  ASSUME LoopInv, NEW m \in batch, DropDuplicate(m)
  PROVE  LoopInv' /\ ForgetsNothing /\ BarLog' = BarLog /\ BarPending' = BarPending
<1>1. /\ batch' = batch \ {m} /\ UNCHANGED <<log, pending, draining>>
      /\ m.position <= Applied(m.destination)
  BY DEF DropDuplicate
<1>2. FromLeader(batch)' /\ DrainedElsewhere'
  BY <1>1 DEF LoopInv, FromLeader, DrainedElsewhere, Applied
<1>3. LoopInv' /\ ForgetsNothing
  BY <1>1, <1>2, StoredStays DEF LoopInv
<1>4. ASSUME NEW l \in Location PROVE Awaited(l, batch)' = Awaited(l, batch)
  <2>1. \A a \in batch : a.position \in Nat
    BY DEF LoopInv, FromLeader
  <2>2. Applied(l) \in Nat
    BY DEF LoopInv, StorageInv, ClusterTypeOK, Applied
  <2>3. ~(m.destination = l /\ m.position > Applied(l))
    BY <1>1, <2>1, <2>2
  <2>4. Fresh(l, batch)' = Fresh(l, batch)
    BY <1>1, <2>3 DEF Fresh, Applied
  <2> QED BY <1>1, <2>4 DEF Awaited
<1>5. \A l \in Location : \A n \in Nat : StopsAt(l, batch, n) =>
          /\ StopsAt(l, batch, n)'
          /\ {k \in Awaited(l, batch)' : k > n} = {k \in Awaited(l, batch) : k > n}
  BY <1>1, <1>4 DEF StopsAt, Applied
<1> QED BY <1>1, <1>2, <1>3, <1>5, OutcomeStays DEF LoopInv

LEMMA DoneStep ==
  ASSUME LoopInv, NEW l \in draining, DrainDone(l)
  PROVE  LoopInv' /\ ForgetsNothing /\ BarLog' = BarLog /\ BarPending' = BarPending
<1>1. draining' = {} /\ UNCHANGED <<log, pending, batch>> /\ Applied(l) + 1 \notin DOMAIN pending[l]
  BY DEF DrainDone
<1>2. FromLeader(batch)'
  BY <1>1 DEF LoopInv, FromLeader, Applied
<1>3. DrainedElsewhere'
  BY <1>1 DEF LoopInv, DrainedElsewhere, Applied
<1>4. LoopInv' /\ ForgetsNothing
  BY <1>1, <1>2, <1>3, StoredStays DEF LoopInv
<1>5. \A k \in Location : \A n \in Nat : StopsAt(k, batch, n) =>
          /\ StopsAt(k, batch, n)'
          /\ {i \in Awaited(k, batch)' : i > n} = {i \in Awaited(k, batch) : i > n}
  BY <1>1 DEF StopsAt, Awaited, Fresh, Applied
<1> QED BY <1>1, <1>2, <1>4, <1>5, OutcomeStays DEF LoopInv

LEMMA BufferStep ==
  ASSUME LoopInv, NEW m \in batch, Buffer(m)
  PROVE  LoopInv' /\ ForgetsNothing /\ BarLog' = BarLog /\ BarPending' = BarPending
<1> DEFINE d == m.destination
           L == Leader(d.partition)
<1>1. /\ draining = {} /\ draining' = {d} /\ batch' = batch \ {m} /\ UNCHANGED log
      /\ m.position > Applied(d)
      /\ pending' = [pending EXCEPT ![d] =
              [pos \in DOMAIN pending[d] \cup {m.position} |->
                  IF pos = m.position THEN m.record ELSE pending[d][pos]]]
  BY DEF Buffer
<1>2. /\ d \in Follower /\ d \in Location
      /\ m.position \in 1..Applied(L) /\ m.record = log[L][m.position]
  BY DEF LoopInv, FromLeader, Follower
<1>3. /\ log \in [Location -> Seq(Record)] /\ DOMAIN pending = Location
      /\ \A l \in Location : \A pos \in DOMAIN pending[l] :
              /\ pos \in Nat /\ pos # 0 /\ pending[l][pos] \in Record
              /\ pos > Applied(l) /\ pos <= Applied(Leader(l.partition))
              /\ pending[l][pos] = log[Leader(l.partition)][pos]
  BY DEF LoopInv, StorageInv, ClusterTypeOK, PendingFromLeader, Position
<1>4. L \in Location /\ Applied(L) \in Nat /\ log[L][m.position] \in Record
  <2>1. L \in Location
    BY <1>2, LeaderIsLocation
  <2> QED BY <2>1, <1>2, <1>3 DEF Applied
<1> HIDE DEF L, d
<1>5. /\ DOMAIN pending' = Location
      /\ \A l \in Location : l # d => pending'[l] = pending[l]
      /\ DOMAIN pending'[d] = DOMAIN pending[d] \cup {m.position}
      /\ \A pos \in DOMAIN pending'[d] :
            pending'[d][pos] = IF pos = m.position THEN m.record ELSE pending[d][pos]
      /\ pending'[d] = [pos \in DOMAIN pending'[d] |-> pending'[d][pos]]
  BY <1>1, <1>2, <1>3
<1>6. ASSUME NEW l \in Location, NEW pos \in DOMAIN pending'[l]
      PROVE  /\ pos \in Position /\ pending'[l][pos] \in Record
             /\ pos > Applied(l) /\ pos <= Applied(Leader(l.partition))
             /\ pending'[l][pos] = log[Leader(l.partition)][pos]
  <2>1. CASE l = d /\ pos = m.position
    <3>1. m.position \in Nat /\ m.position > 0 /\ m.position <= Applied(L)
      BY <1>2, <1>4
    <3>2. pos = m.position /\ pending'[l][pos] = m.record /\ Leader(l.partition) = L
      BY <2>1, <1>5 DEF L
    <3> QED BY <2>1, <3>1, <3>2, <1>1, <1>2, <1>4 DEF Position
  <2>2. CASE ~(l = d /\ pos = m.position)
    <3>1. pos \in DOMAIN pending[l] /\ pending'[l][pos] = pending[l][pos]
      BY <2>2, <1>5
    <3> QED BY <3>1, <1>3 DEF Position
  <2> QED BY <2>1, <2>2
<1>7. StorageInv'
  <2>1. log' = log
    BY <1>1
  <2>2. ClusterTypeOK'
    BY <2>1, <1>3, <1>5, <1>6 DEF ClusterTypeOK
  <2>3. PendingFromLeader'
    <3>1. \A l \in Location : Applied(l)' = Applied(l)
      BY <2>1 DEF Applied
    <3>2. \A l \in Location : Leader(l.partition) \in Location
      BY LeaderIsLocation
    <3> QED BY <2>1, <3>1, <3>2, <1>6 DEF PendingFromLeader
  <2> QED BY <2>1, <2>2, <2>3 DEF LoopInv, StorageInv, FollowerIsPrefix, Applied
<1>8. pending' = [l \in Location |-> [pos \in DOMAIN pending'[l] |-> pending'[l][pos]]]
  <2>1. pending = [l \in Location |-> [pos \in DOMAIN pending[l] |-> pending[l][pos]]]
    BY DEF LoopInv
  <2>2. ASSUME NEW l \in Location
        PROVE  pending'[l] = [pos \in DOMAIN pending'[l] |-> pending'[l][pos]]
    <3>1. pending[l] = [pos \in DOMAIN pending[l] |-> pending[l][pos]]
      BY <2>1
    <3> QED BY <3>1, <1>5
  <2>3. pending' = [l \in Location |-> pending'[l]]
    BY <2>1, <1>1
  <2> QED BY <2>2, <2>3
<1>9. FromLeader(batch)' /\ DrainedElsewhere'
  BY <1>1, <1>5 DEF LoopInv, FromLeader, DrainedElsewhere, Applied
<1>10. LoopInv'
  BY <1>1, <1>2, <1>7, <1>8, <1>9 DEF LoopInv
<1>11. ForgetsNothing
  <2> SUFFICES ASSUME NEW l \in Location
               PROVE  /\ Applied(l) <= Len(log'[l])
                      /\ \A i \in 1..Applied(l) : log'[l][i] = log[l][i]
                      /\ \A pos \in DOMAIN pending[l] :
                            pos \in DOMAIN pending'[l] /\ pending'[l][pos] = pending[l][pos]
    BY DEF ForgetsNothing
  <2>1. Applied(l) \in Nat
    BY <1>3 DEF Applied
  <2>2. ASSUME NEW pos \in DOMAIN pending[l]
        PROVE  pos \in DOMAIN pending'[l] /\ pending'[l][pos] = pending[l][pos]
    <3>1. pos \in DOMAIN pending'[l]
      <4>1. CASE l = d
        BY <4>1, <1>5
      <4>2. CASE l # d
        BY <4>2, <1>5
      <4> QED BY <4>1, <4>2
    <3>2. /\ pending'[l][pos] = log[Leader(l.partition)][pos]
          /\ pending[l][pos] = log[Leader(l.partition)][pos]
      BY <3>1, <1>3, <1>6
    <3> QED BY <3>1, <3>2
  <2>3. log' = log /\ Len(log[l]) = Applied(l)
    BY <1>1 DEF Applied
  <2> QED BY <2>1, <2>2, <2>3
<1>12. ASSUME NEW l \in Location PROVE Awaited(l, batch)' = Awaited(l, batch)
  <2>1. CASE l = d
    <3>1. m \in Fresh(l, batch)
      BY <2>1, <1>1 DEF Fresh, d
    <3>2. Fresh(l, batch)' = Fresh(l, batch) \ {m}
      BY <1>1 DEF Fresh, Applied
    <3> QED BY <2>1, <3>1, <3>2, <1>5 DEF Awaited
  <2>2. CASE l # d
    <3>1. Fresh(l, batch)' = Fresh(l, batch)
      BY <2>2, <1>1 DEF Fresh, Applied, d
    <3> QED BY <2>2, <3>1, <1>5 DEF Awaited
  <2> QED BY <2>1, <2>2
<1>13. \A l \in Location : \A n \in Nat : StopsAt(l, batch, n) =>
          /\ StopsAt(l, batch, n)'
          /\ {k \in Awaited(l, batch)' : k > n} = {k \in Awaited(l, batch) : k > n}
  BY <1>1, <1>12 DEF StopsAt, Applied
<1> QED BY <1>1, <1>7, <1>9, <1>10, <1>11, <1>13, OutcomeStays

LEMMA TurnStep ==
  ASSUME LoopInv, NEW d \in draining, DrainOne(d)
  PROVE  LoopInv' /\ ForgetsNothing /\ BarLog' = BarLog /\ BarPending' = BarPending
<1> DEFINE L == Leader(d.partition)
           next == Applied(d) + 1
<1>1. /\ next \in DOMAIN pending[d] /\ UNCHANGED <<batch, draining>>
      /\ log' = [log EXCEPT ![d] = Append(log[d], pending[d][next])]
      /\ pending' = [pending EXCEPT ![d] =
                        [pos \in DOMAIN pending[d] \ {next} |-> pending[d][pos]]]
  BY DEF DrainOne
<1>2. d \in Follower /\ d \in Location /\ draining = {d}
  BY DEF LoopInv, Follower
<1>3. /\ L \in Location /\ L # d /\ L \notin Follower
      /\ \A l \in Location : Leader(l.partition) \in Location /\ Leader(l.partition) # d
  BY <1>2, LeaderIsLocation
<1>4. /\ log \in [Location -> Seq(Record)] /\ DOMAIN pending = Location
      /\ \A l \in Location : Applied(l) \in Nat /\ Applied(l) = Len(log[l])
      /\ \A l \in Location : \A pos \in DOMAIN pending[l] :
              /\ pos \in Nat /\ pos # 0 /\ pending[l][pos] \in Record
              /\ pos > Applied(l) /\ pos <= Applied(Leader(l.partition))
              /\ pending[l][pos] = log[Leader(l.partition)][pos]
  BY DEF LoopInv, StorageInv, ClusterTypeOK, PendingFromLeader, Position, Applied
<1> HIDE DEF L
<1>5. /\ DOMAIN pending' = Location
      /\ \A l \in Location : l # d => pending'[l] = pending[l]
      /\ DOMAIN pending'[d] = DOMAIN pending[d] \ {next}
      /\ \A pos \in DOMAIN pending'[d] : pending'[d][pos] = pending[d][pos]
      /\ pending'[d] = [pos \in DOMAIN pending'[d] |-> pending'[d][pos]]
  BY <1>1, <1>2, <1>4
<1>6. pending[d][next] \in Record /\ log[d] \in Seq(Record) /\ next <= Applied(L)
      /\ pending[d][next] = log[L][next]
  BY <1>1, <1>2, <1>4 DEF L
<1>7. /\ log' \in [Location -> Seq(Record)]
      /\ \A l \in Location : l # d => log'[l] = log[l]
      /\ Len(log'[d]) = next /\ log'[d][next] = pending[d][next]
      /\ \A i \in 1..Applied(d) : log'[d][i] = log[d][i]
  <2>1. log'[d] = Append(log[d], pending[d][next])
    BY <1>1, <1>2, <1>4
  <2> HIDE DEF next
  <2>2. log'[d] \in Seq(Record) /\ Len(log'[d]) = Len(log[d]) + 1
    BY <2>1, <1>6
  <2>3. \A i \in 1..Len(log[d]) : log'[d][i] = log[d][i]
    BY <2>1, <1>6
  <2>4. log'[d][Len(log[d]) + 1] = pending[d][next]
    BY <2>1, <1>6
  <2>5. next = Len(log[d]) + 1 /\ Applied(d) = Len(log[d])
    BY <1>2, <1>4 DEF next
  <2>6. log' \in [Location -> Seq(Record)] /\ \A l \in Location : l # d => log'[l] = log[l]
    BY <1>1, <1>2, <1>4, <2>1, <2>2
  <2> QED BY <2>2, <2>3, <2>4, <2>5, <2>6
<1>8. \A l \in Location : log'[Leader(l.partition)] = log[Leader(l.partition)]
  BY <1>3, <1>7
<1>9. ASSUME NEW l \in Location, NEW pos \in DOMAIN pending'[l]
      PROVE  /\ pos \in DOMAIN pending[l] /\ pending'[l][pos] = pending[l][pos]
             /\ pos > Len(log'[l])
  <2>1. CASE l = d
    <3>1. pos \in DOMAIN pending[d] /\ pos # next /\ pending'[l][pos] = pending[l][pos]
      BY <2>1, <1>5
    <3>2. pos \in Nat /\ pos > Applied(d) /\ Applied(d) \in Nat
      BY <3>1, <1>2, <1>4
    <3> QED BY <2>1, <3>1, <3>2, <1>7
  <2>2. CASE l # d
    BY <2>2, <1>4, <1>5, <1>7
  <2> QED BY <2>1, <2>2
<1>10. StorageInv'
  <2>1. ClusterTypeOK'
    <3>1. \A l \in Location : \A pos \in DOMAIN pending'[l] :
             pos \in Position /\ pending'[l][pos] \in Record
      BY <1>4, <1>9 DEF Position
    <3> QED BY <3>1, <1>5, <1>7 DEF ClusterTypeOK
  <2>2. FollowerIsPrefix'
    <3> SUFFICES ASSUME NEW l \in Follower
                 PROVE  /\ Len(log'[l]) <= Len(log'[Leader(l.partition)])
                        /\ \A i \in 1..Len(log'[l]) :
                              log'[l][i] = log'[Leader(l.partition)][i]
      BY DEF FollowerIsPrefix, Applied
    <3>1. /\ l \in Location /\ Applied(l) <= Applied(Leader(l.partition))
          /\ \A i \in 1..Applied(l) : log[l][i] = log[Leader(l.partition)][i]
      BY DEF LoopInv, StorageInv, FollowerIsPrefix, Follower
    <3>2. CASE l = d
      <4>1. /\ Len(log'[d]) = next /\ log'[L] = log[L] /\ Len(log[L]) = Applied(L)
            /\ next = Applied(d) + 1 /\ Applied(d) \in Nat
        BY <1>2, <1>3, <1>4, <1>7
      <4>2. \A i \in 1..Applied(d) : log'[d][i] = log[L][i]
        BY <3>1, <3>2, <1>7 DEF L
      <4> HIDE DEF next
      <4>3. \A i \in 1..next : log'[d][i] = log[L][i]
        BY <4>1, <4>2, <1>6, <1>7
      <4> QED BY <3>2, <4>1, <4>3, <1>6 DEF L
    <3>3. CASE l # d
      BY <3>1, <3>3, <1>4, <1>7, <1>8, LeaderIsLocation
    <3> QED BY <3>2, <3>3
  <2>3. PendingFromLeader'
    <3> SUFFICES ASSUME NEW l \in Location, NEW pos \in DOMAIN pending'[l]
                 PROVE  /\ pos > Len(log'[l])
                        /\ pos <= Len(log'[Leader(l.partition)])
                        /\ pending'[l][pos] = log'[Leader(l.partition)][pos]
      BY DEF PendingFromLeader, Applied
    <3>1. /\ pos <= Applied(Leader(l.partition)) /\ pending[l][pos] = log[Leader(l.partition)][pos]
      BY <1>4, <1>9
    <3>2. log'[Leader(l.partition)] = log[Leader(l.partition)]
          /\ Len(log[Leader(l.partition)]) = Applied(Leader(l.partition))
      BY <1>3, <1>4, <1>8
    <3>3. pending'[l][pos] = pending[l][pos] /\ pos > Len(log'[l])
      BY <1>9
    <3> QED BY <3>1, <3>2, <3>3
  <2> QED BY <2>1, <2>2, <2>3 DEF StorageInv
<1>11. pending' = [l \in Location |-> [pos \in DOMAIN pending'[l] |-> pending'[l][pos]]]
  <2>1. pending = [l \in Location |-> [pos \in DOMAIN pending[l] |-> pending[l][pos]]]
    BY DEF LoopInv
  <2>2. ASSUME NEW l \in Location
        PROVE  pending'[l] = [pos \in DOMAIN pending'[l] |-> pending'[l][pos]]
    <3>1. pending[l] = [pos \in DOMAIN pending[l] |-> pending[l][pos]]
      BY <2>1
    <3> QED BY <3>1, <1>5
  <2>3. pending' = [l \in Location |-> pending'[l]]
    BY <2>1, <1>1
  <2> QED BY <2>2, <2>3
<1>12. FromLeader(batch)'
  <2> SUFFICES ASSUME NEW m \in batch
               PROVE  /\ m.destination \in Follower
                      /\ m.position \in 1..Len(log'[Leader(m.destination.partition)])
                      /\ m.record = log'[Leader(m.destination.partition)][m.position]
    BY <1>1 DEF FromLeader, Applied
  <2>1. m.destination \in Location
    BY DEF LoopInv, FromLeader, Follower
  <2> QED BY <2>1, <1>8 DEF LoopInv, FromLeader, Applied
<1>13. DrainedElsewhere'
  BY <1>1, <1>2, <1>5, <1>7 DEF LoopInv, DrainedElsewhere, Applied
<1>14. LoopInv'
  BY <1>1, <1>10, <1>11, <1>12, <1>13 DEF LoopInv
<1>15. ForgetsNothing
  <2> SUFFICES ASSUME NEW l \in Location
               PROVE  /\ Applied(l) <= Len(log'[l])
                      /\ \A i \in 1..Applied(l) : log'[l][i] = log[l][i]
                      /\ \A pos \in DOMAIN pending[l] :
                            \/ pos \in DOMAIN pending'[l] /\ pending'[l][pos] = pending[l][pos]
                            \/ pos <= Len(log'[l]) /\ log'[l][pos] = pending[l][pos]
    BY DEF ForgetsNothing
  <2>1. CASE l = d
    <3>1. Applied(d) \in Nat /\ next = Applied(d) + 1
      BY <1>2, <1>4
    <3>2. ASSUME NEW pos \in DOMAIN pending[d], pos # next
          PROVE  pos \in DOMAIN pending'[d] /\ pending'[d][pos] = pending[d][pos]
      BY <3>2, <1>5
    <3> HIDE DEF next
    <3> QED BY <2>1, <3>1, <3>2, <1>7
  <2>2. CASE l # d
    BY <2>2, <1>4, <1>5, <1>7
  <2> QED BY <2>1, <2>2
<1>16. ASSUME NEW l \in Location, NEW n \in Nat, StopsAt(l, batch, n)
       PROVE  /\ StopsAt(l, batch, n)'
              /\ {k \in Awaited(l, batch)' : k > n} = {k \in Awaited(l, batch) : k > n}
  <2>1. CASE l = d
    <3>1. Awaited(d, batch)' = Awaited(d, batch) \ {next}
      <4>1. \A m \in batch : m.position \in Nat
        BY DEF LoopInv, FromLeader
      <4>2. Applied(d)' = next /\ next = Applied(d) + 1 /\ Applied(d) \in Nat
        BY <1>2, <1>4, <1>7 DEF Applied
      <4> HIDE DEF next
      <4>3. Fresh(d, batch)' = {m \in Fresh(d, batch) : m.position # next}
        BY <1>1, <4>1, <4>2 DEF Fresh
      <4> QED BY <1>5, <4>3 DEF Awaited
    <3>2. /\ Applied(d) \in Nat /\ n >= Applied(d) /\ n + 1 \notin Awaited(d, batch)
          /\ \A pos \in (Applied(d) + 1)..n : pos \in Awaited(d, batch)
      BY <2>1, <1>2, <1>4, <1>16 DEF StopsAt
    <3>3. next \in Awaited(d, batch) /\ next = Applied(d) + 1
      BY <1>1 DEF Awaited
    <3>4. Applied(d)' = next
      BY <1>7 DEF Applied
    <3> HIDE DEF next
    <3>5. n # Applied(d)
      BY <3>2, <3>3
    <3>6. n >= next /\ \A pos \in (next + 1)..n : pos \in Awaited(d, batch) \ {next}
      BY <3>2, <3>3, <3>5
    <3>7. {k \in Awaited(d, batch) \ {next} : k > n} = {k \in Awaited(d, batch) : k > n}
      BY <3>2, <3>3, <3>6
    <3> QED BY <2>1, <3>1, <3>2, <3>4, <3>6, <3>7 DEF StopsAt
  <2>2. CASE l # d
    <3>1. log'[l] = log[l] /\ pending'[l] = pending[l]
      BY <2>2, <1>5, <1>7
    <3> QED BY <3>1, <1>1, <1>16 DEF StopsAt, Awaited, Fresh, Applied
  <2> QED BY <2>1, <2>2
<1> QED BY <1>8, <1>10, <1>12, <1>14, <1>15, <1>16, OutcomeStays
-----------------------------------------------------------------------------
(* The loop.                                                               *)

LEMMA LoopInitially == LoopInit => LoopInv
<1> SUFFICES ASSUME LoopInit PROVE LoopInv
  OBVIOUS
<1>1. ClusterInv /\ StorageInv
  BY ClusterInitial, BlockedIsFromLeader DEF LoopInit
<1>2. pending = [l \in Location |-> <<>>] /\ batch = {} /\ draining = {}
  BY DEF LoopInit, ClusterInit
<1>3. \A l \in Location : /\ DOMAIN pending[l] = {}
                          /\ pending[l] = [pos \in DOMAIN pending[l] |-> pending[l][pos]]
  BY <1>2
<1>4. pending = [l \in Location |-> [pos \in DOMAIN pending[l] |-> pending[l][pos]]]
  BY <1>2, <1>3
<1> QED BY <1>1, <1>2, <1>3, <1>4 DEF LoopInv, FromLeader, DrainedElsewhere

LEMMA OutcomeNames ==
  /\ Outcome!clusterVars = <<BarLog, BarPending>>
  /\ Outcome!Location = Location /\ Outcome!PartitionID = PartitionID
  /\ \A p : Outcome!Leader(p) = Leader(p)
  BY DEF Outcome!clusterVars, BarLog, BarPending, Outcome!Location, Location,
         Outcome!PartitionID, PartitionID, Outcome!NodeID, NodeID, Outcome!Leader, Leader

\* A record that the leader accepts between two batches.
LEMMA AcceptOfOutcome ==
  ASSUME LoopInv, NEW p \in PartitionID, NEW item \in Item, LoopAccept(p, item)
  PROVE  Outcome!Accept(p, item)
<1>1. Idle /\ Idle' /\ LoopInv'
  BY AcceptStep
<1>2. BarLog = log /\ BarPending = pending /\ BarLog' = log' /\ BarPending' = pending'
  BY <1>1, IdleIsOutcome, NextIdleIsOutcome
<1>3. Accept(p, item)
  BY DEF LoopAccept
<1> QED BY <1>2, <1>3 DEF Accept, AppendRecord, Applied, Leader, Outcome!Accept,
      Outcome!AppendRecord, Outcome!Applied, Outcome!Leader, BarLog, BarPending,
      Location, Outcome!Location, PartitionID, Outcome!PartitionID, NodeID, Outcome!NodeID

\* What the abstract storage makes of a batch when it is the storage.
LEMMA SameOperators ==
  ASSUME BarLog = log, BarPending = pending, NEW l \in Location, NEW D
  PROVE  /\ Outcome!LogAfter(l, D) = LogAfter(l, D)
         /\ Outcome!PendingAfter(l, D) = PendingAfter(l, D)
<1>1. /\ [k \in Location |-> LogAfter(k, batch)] = log
      /\ [k \in Location |-> PendingAfter(k, batch)] = pending
  BY DEF BarLog, BarPending
<1>2. Outcome!Applied(l) = Applied(l)
  BY <1>1 DEF Outcome!Applied, Applied
<1>3. Outcome!Fresh(l, D) = Fresh(l, D)
  BY <1>2 DEF Outcome!Fresh, Fresh
<1>4. Outcome!Buffered(l, D) = Buffered(l, D)
  BY <1>1, <1>3 DEF Outcome!Buffered, Buffered
<1>5. Outcome!DrainEnd(l, D) = DrainEnd(l, D)
  BY <1>2, <1>4 DEF Outcome!DrainEnd, DrainEnd
<1>6. Outcome!LogAfter(l, D) = LogAfter(l, D)
  <2>1. Outcome!LogAfter(l, D) =
            [i \in 1..Outcome!DrainEnd(l, D) |->
                IF i <= Outcome!Applied(l) THEN [k \in Location |-> LogAfter(k, batch)][l][i]
                ELSE Outcome!Buffered(l, D)[i]]
    BY DEF Outcome!LogAfter
  <2>2. LogAfter(l, D) = [i \in 1..DrainEnd(l, D) |->
                             IF i <= Applied(l) THEN log[l][i] ELSE Buffered(l, D)[i]]
    BY DEF LogAfter
  <2> QED BY <2>1, <2>2, <1>1, <1>2, <1>4, <1>5
<1>7. Outcome!PendingAfter(l, D) = PendingAfter(l, D)
  BY <1>4, <1>5 DEF Outcome!PendingAfter, PendingAfter
<1> QED BY <1>6, <1>7

\* A batch that begins is one Apply.
LEMMA BeginOfOutcome ==
  ASSUME LoopInv, NEW D \in SUBSET Sendable, BeginBatch(D)
  PROVE  Outcome!Receive
<1>1. Idle /\ D # {} /\ batch' = D /\ UNCHANGED <<log, pending>>
  BY DEF BeginBatch
<1>2. BarLog = log /\ BarPending = pending
  BY <1>1, IdleIsOutcome
<1>3. D \in SUBSET Outcome!Sendable
  <2>1. [k \in Location |-> LogAfter(k, batch)] = log
    BY <1>2 DEF BarLog
  <2>2. /\ Outcome!Follower = Follower
        /\ \A l : Outcome!Applied(Outcome!Leader(l.partition)) = Applied(Leader(l.partition))
    BY <2>1, OutcomeNames DEF Outcome!Follower, Follower, Outcome!Applied, Applied
  <2>3. \A l, pos : Outcome!Message(l, pos) = Message(l, pos)
    BY <2>1, OutcomeNames DEF Outcome!Message, Message
  <2>4. ASSUME NEW m \in D PROVE m \in Outcome!Sendable
    <3>1. PICK l \in Follower : \E pos \in 1..Applied(Leader(l.partition)) : m = Message(l, pos)
      BY DEF Sendable
    <3>2. PICK pos \in 1..Applied(Leader(l.partition)) : m = Message(l, pos)
      BY <3>1
    <3>3. /\ l \in Outcome!Follower /\ m = Outcome!Message(l, pos)
          /\ pos \in 1..Outcome!Applied(Outcome!Leader(l.partition))
      BY <3>2, <2>2, <2>3
    <3> QED BY <3>3 DEF Outcome!Sendable
  <2> QED BY <2>4
<1>4. /\ BarLog' = [l \in Location |-> LogAfter(l, D)]
      /\ BarPending' = [l \in Location |-> PendingAfter(l, D)]
  BY <1>1 DEF BarLog, BarPending, LogAfter, PendingAfter, DrainEnd, Buffered, Fresh, Applied
<1>5. /\ BarLog' = [l \in Location |-> Outcome!LogAfter(l, D)]
      /\ BarPending' = [l \in Location |-> Outcome!PendingAfter(l, D)]
  BY <1>2, <1>4, SameOperators
<1>6. Outcome!Apply(D)
  BY <1>5, OutcomeNames DEF Outcome!Apply, BarLog, BarPending
<1> QED BY <1>1, <1>3, <1>6 DEF Outcome!Receive

LEMMA LoopStep ==
  LoopInv /\ [LoopNext]_loopVars =>
      LoopInv' /\ ForgetsNothing /\ [Outcome!ClusterNext]_(Outcome!clusterVars)
<1> SUFFICES ASSUME LoopInv, [LoopNext]_loopVars
             PROVE  /\ LoopInv' /\ ForgetsNothing
                    /\ [Outcome!ClusterNext]_(Outcome!clusterVars)
  OBVIOUS
<1>1. ASSUME NEW p \in PartitionID, NEW item \in Item, LoopAccept(p, item)
      PROVE  LoopInv' /\ ForgetsNothing /\ Outcome!ClusterNext
  BY <1>1, AcceptStep, AcceptOfOutcome, OutcomeNames DEF Outcome!ClusterNext
<1>2. ASSUME NEW D \in SUBSET Sendable, BeginBatch(D)
      PROVE  LoopInv' /\ ForgetsNothing /\ Outcome!ClusterNext
  BY <1>2, BeginStep, BeginOfOutcome DEF Outcome!ClusterNext
<1>3. ASSUME NEW m \in batch, DropDuplicate(m) \/ Buffer(m)
      PROVE  LoopInv' /\ ForgetsNothing /\ BarLog' = BarLog /\ BarPending' = BarPending
  BY <1>3, DropStep, BufferStep
<1>4. ASSUME NEW l \in draining, DrainOne(l) \/ DrainDone(l)
      PROVE  LoopInv' /\ ForgetsNothing /\ BarLog' = BarLog /\ BarPending' = BarPending
  BY <1>4, TurnStep, DoneStep
<1>5. ASSUME UNCHANGED loopVars
      PROVE  LoopInv' /\ ForgetsNothing /\ BarLog' = BarLog /\ BarPending' = BarPending
  <2>1. UNCHANGED <<log, pending>> /\ batch' = batch /\ draining' = draining
    BY <1>5 DEF loopVars
  <2>2. LoopInv' /\ ForgetsNothing
    BY <2>1, StoredStays DEF LoopInv, FromLeader, DrainedElsewhere, Applied
  <2>3. BarLog' = BarLog /\ BarPending' = BarPending
    BY <2>1 DEF BarLog, BarPending, LogAfter, PendingAfter, DrainEnd, Buffered, Fresh, Applied
  <2> QED BY <2>2, <2>3
<1>6. (BarLog' = BarLog /\ BarPending' = BarPending) => UNCHANGED Outcome!clusterVars
  BY DEF Outcome!clusterVars, BarLog, BarPending
<1> QED BY <1>1, <1>2, <1>3, <1>4, <1>5, <1>6 DEF LoopNext

LEMMA LoopInvariant == LoopSpec => []LoopInv
<1>1. LoopInv /\ [LoopNext]_loopVars => LoopInv'
  BY LoopStep
<1> QED BY <1>1, LoopInitially, PTL DEF LoopSpec

-----------------------------------------------------------------------------
\* After every statement of the delivery loop, and not only when it has come
\* to its end, a follower's log is a prefix of its leader's (Sim.Advance and
\* replica.apply), for any batch and any order of its messages.
THEOREM LoopKeepsPrefix == LoopSpec => []FollowerIsPrefix
<1>1. LoopInv => FollowerIsPrefix
  BY DEF LoopInv, StorageInv
<1> QED BY <1>1, LoopInvariant, PTL

\* When the loop has ended nothing applicable is left in pending.
THEOREM LoopDrains == LoopSpec => []DrainedWhenIdle
<1>1. LoopInv => DrainedWhenIdle
  BY IdleIsOutcome DEF DrainedWhenIdle, ClusterInv, PendingIsBlocked
<1> QED BY <1>1, LoopInvariant, PTL

\* No statement of the loop drops or changes what a replica has received.
THEOREM LoopForgetsNothing == LoopSpec => NothingForgotten
<1>1. LoopInv /\ [LoopNext]_loopVars => [ForgetsNothing]_clusterVars
  BY LoopStep
<1> QED BY <1>1, LoopInvariant, PTL DEF LoopSpec, NothingForgotten, ForgetsNothing

\* Run to its end, a batch does what the one step Apply says, whatever the
\* order of its messages: the transport may be a set and Advance one action.
THEOREM LoopImplementsApply == LoopSpec => ImplementsApply
<1>1. LoopInit => Outcome!ClusterInit
  <2> SUFFICES ASSUME LoopInit PROVE Outcome!ClusterInit
    OBVIOUS
  <2>1. LoopInv /\ Idle
    BY LoopInitially DEF LoopInit, Idle
  <2>2. BarLog = log /\ BarPending = pending
    BY <2>1, IdleIsOutcome
  <2> QED BY <2>2, OutcomeNames DEF LoopInit, ClusterInit, Outcome!ClusterInit, BarLog, BarPending
<1>2. LoopInv /\ [LoopNext]_loopVars => [Outcome!ClusterNext]_(Outcome!clusterVars)
  BY LoopStep
<1> QED BY <1>1, <1>2, LoopInvariant, PTL DEF LoopSpec, ImplementsApply, Outcome!ClusterSpec
-----------------------------------------------------------------------------
(* How long a batch can take.                                              *)

\* The turns that the loop of apply can still take.
Gap(l) == Applied(Leader(l.partition)) - Applied(l)

LEMMA TurnClosesGap ==
  ASSUME LoopInv, NEW d \in draining, DrainOne(d)
  PROVE  Gap(d)' < Gap(d)
<1> DEFINE L == Leader(d.partition)
<1>1. d \in Location /\ L \in Location /\ L # d
  BY LeaderIsLocation DEF LoopInv, Follower
<1>2. log \in [Location -> Seq(Record)] /\ pending[d][Applied(d) + 1] \in Record
  <2>1. Applied(d) + 1 \in DOMAIN pending[d]
    BY DEF DrainOne
  <2> QED BY <1>1, <2>1 DEF LoopInv, StorageInv, ClusterTypeOK
<1>3. log' = [log EXCEPT ![d] = Append(log[d], pending[d][Applied(d) + 1])]
  BY DEF DrainOne
<1> HIDE DEF L
<1>4. log'[L] = log[L] /\ log'[d] = Append(log[d], pending[d][Applied(d) + 1])
  BY <1>1, <1>2, <1>3
<1>5. log[d] \in Seq(Record) /\ log[L] \in Seq(Record)
  BY <1>1, <1>2
<1> DEFINE end == Len(log[d])
           all == Len(log[L])
<1>6. Len(log'[d]) = end + 1 /\ Len(log'[L]) = all /\ end \in Nat /\ all \in Nat
  BY <1>2, <1>4, <1>5
<1>7. Gap(d)' = Len(log'[L]) - Len(log'[d]) /\ Gap(d) = all - end
  BY DEF Gap, Applied, L
<1> HIDE DEF end, all
<1>8. Gap(d)' = all - (end + 1)
  BY <1>6, <1>7
<1> QED BY <1>6, <1>7, <1>8

\* The safety half of BatchEnds: every statement of Sim.Advance takes a
\* message out of the batch, leaves apply, or appends a record which the
\* leader has and the follower did not.  The turns of apply are at most as
\* many as the follower is behind, however much is pending.
THEOREM LoopNeverGoesBack ==
  LoopSpec =>
      /\ [](\A l \in draining : Gap(l) \in Nat)
      /\ [][~Idle =>
              \/ batch' \subseteq batch /\ batch' # batch
              \/ batch' = batch /\ draining # {} /\ draining' = {}
              \/ batch' = batch /\ draining' = draining
                 /\ \A l \in draining : Gap(l)' < Gap(l)]_loopVars
<1> DEFINE Closer == ~Idle =>
              \/ batch' \subseteq batch /\ batch' # batch
              \/ batch' = batch /\ draining # {} /\ draining' = {}
              \/ batch' = batch /\ draining' = draining
                 /\ \A l \in draining : Gap(l)' < Gap(l)
<1>1. LoopInv => \A l \in draining : Gap(l) \in Nat
  <2> SUFFICES ASSUME LoopInv, NEW l \in draining PROVE Gap(l) \in Nat
    OBVIOUS
  <2>1. l \in Follower /\ l \in Location /\ Leader(l.partition) \in Location
    BY LeaderIsLocation DEF LoopInv, Follower
  <2>2. /\ Applied(l) \in Nat /\ Applied(Leader(l.partition)) \in Nat
        /\ Applied(l) <= Applied(Leader(l.partition))
    BY <2>1 DEF LoopInv, StorageInv, ClusterTypeOK, FollowerIsPrefix, Applied
  <2> QED BY <2>2 DEF Gap
<1>2. LoopInv /\ [LoopNext]_loopVars => [Closer]_loopVars
  <2> SUFFICES ASSUME LoopInv, LoopNext, ~Idle PROVE Closer
    OBVIOUS
  <2>1. ASSUME NEW m \in batch, DropDuplicate(m) \/ Buffer(m)
        PROVE  batch' \subseteq batch /\ batch' # batch
    BY <2>1 DEF DropDuplicate, Buffer
  <2>2. ASSUME NEW d \in draining, DrainOne(d)
        PROVE  /\ batch' = batch /\ draining' = draining
               /\ \A l \in draining : Gap(l)' < Gap(l)
    <3>1. \A l \in draining : l = d
      BY DEF LoopInv
    <3> QED BY <2>2, <3>1, TurnClosesGap DEF DrainOne
  <2>3. ASSUME NEW d \in draining, DrainDone(d)
        PROVE  batch' = batch /\ draining # {} /\ draining' = {}
    BY <2>3 DEF DrainDone
  <2>4. \A p \in PartitionID, item \in Item : ~LoopAccept(p, item)
    BY DEF LoopAccept
  <2>5. \A D \in SUBSET Sendable : ~BeginBatch(D)
    BY DEF BeginBatch
  <2> QED BY <2>1, <2>2, <2>3, <2>4, <2>5 DEF LoopNext
<1> QED BY <1>1, <1>2, LoopInvariant, PTL DEF LoopSpec
=============================================================================
