--------------------------- MODULE ReplicatedLog ---------------------------
(***************************************************************************)
(* What asynchronous replication promises to a reader, without clock,      *)
(* messages or buffers: a leader's log grows at its end, a follower's log  *)
(* is always a prefix of it, and catches up.  Replication.tla implements   *)
(* this specification with the same log.                                   *)
(***************************************************************************)
EXTENDS Integers, Sequences

CONSTANTS Partitions, Followers

Location  == [partition : 0..(Partitions - 1), node : 0..Followers]
Leader(p) == [partition |-> p, node |-> 0]
Follower  == {l \in Location : l.node # 0}

VARIABLE log

Init == log = [l \in Location |-> <<>>]

\* A record is accepted by the leader of p; no follower moves.
Write(p) ==
    /\ Len(log'[Leader(p)]) = Len(log[Leader(p)]) + 1
    /\ \A i \in 1..Len(log[Leader(p)]) : log'[Leader(p)][i] = log[Leader(p)][i]
    /\ \A l \in Location \ {Leader(p)} : log'[l] = log[l]

\* Followers take more of their leader's log, in order and without a hole.
CatchUp ==
    \E upTo \in [Follower -> UNION {0..Len(log[l]) : l \in Location}] :
        /\ \A l \in Follower :
              Len(log[l]) <= upTo[l] /\ upTo[l] <= Len(log[Leader(l.partition)])
        /\ log' = [l \in Location |->
                      IF l \in Follower
                      THEN SubSeq(log[Leader(l.partition)], 1, upTo[l])
                      ELSE log[l]]

Next == (\E p \in 0..(Partitions - 1) : Write(p)) \/ CatchUp

\* A follower that stays behind takes something.
Progress(l) == CatchUp /\ log'[l] # log[l]

SafeSpec == Init /\ [][Next]_log

Spec == SafeSpec /\ \A l \in Follower : WF_log(Progress(l))
=============================================================================
