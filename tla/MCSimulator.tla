---------------------------- MODULE MCSimulator ----------------------------
(***************************************************************************)
(* Instances of Simulator for TLC.  FNV32a is what shard() computes for    *)
(* the first ids, "t1", "p1", "t2", ..., with one or two partitions.         *)
(***************************************************************************)
EXTENDS Checker, TLC

FNV32a == [id \in ThreadID \cup PostID |-> (id[2] + 1) % Partitions]

BoardItem == Thread \cup Post

\* Users with one session each are interchangeable.
UserSymmetry == Permutations(User)

\* A user per session, and one user for all sessions.
OwnUser == [s \in Session |-> s]
SameUser == [s \in Session |-> CHOOSE u \in User : TRUE]
=============================================================================
