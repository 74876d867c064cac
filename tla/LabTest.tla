------------------------------- MODULE LabTest -------------------------------
(***************************************************************************)
(* The replication experiment of labs/postgres_replication/test.sh with    *)
(* the functions of infra/postgres/common.sh it calls: write, pause the    *)
(* replay of replica1, show the lag, resume, and undo the pause on every   *)
(* way out, which a trap on EXIT does.  Every query may fail, every wait   *)
(* may run out of time, signals come at any moment, and the servers and    *)
(* other users of the primary go on in between.                            *)
(***************************************************************************)
EXTENDS Integers, Sequences

CONSTANTS
    MaxWal,        \* bound: commits on the primary
    MaxSignals     \* bound: INT, TERM and HUP sent to the script

ASSUME LabTestAssumption == MaxWal \in Nat /\ MaxSignals \in Nat

Replica == {1, 2}

VARIABLES
    \* the servers
    wal,         \* commits on the primary
    replayed,    \* replayed[n]: how many of them replica n shows
    pausing,     \* pausing[n]: pg_get_wal_replay_pause_state
    stray,       \* a pause request whose client is gone is still on its way
    \* the script
    mode,        \* "script", "trap" (EXIT trap entered), "cleanup" or "ended"
    pc,          \* the next step of the script or of the cleanup
    owned,       \* pause_owned
    post, token, \* the last row written, and the position taken after it
    code, why,   \* exit status, and what made the script leave
    signals,     \* signals received
    \* what the properties compare with
    before,      \* pausing as the script found it
    asked,       \* the last pause or resume that was attempted
    excuse       \* reasons why the pause may be left behind

serverVars == <<wal, replayed, pausing, stray>>
scriptVars == <<mode, pc, owned, post, token, code, why, signals, asked, excuse>>
labVars    == <<serverVars, scriptVars, before>>

Step(kind, what, node) == [kind |-> kind, what |-> what, node |-> node]

\* Faulty variant: the request to pause is not confirmed.
ScriptUnconfirmed == <<
    Step("assert", "not_paused", 1), Step("assert", "not_paused", 2),
    Step("own", TRUE, 1), Step("send", "pause", 1),
    Step("insert", "", 0), Step("position", "", 0),
    Step("assert", "hidden", 1), Step("assert", "behind", 1),
    Step("send", "resume", 1), Step("wait", "not_paused", 1), Step("own", FALSE, 1) >>

\* Faulty variant: the pause is owned when it is confirmed.
ScriptOwnsLate == <<
    Step("assert", "not_paused", 1), Step("assert", "not_paused", 2),
    Step("send", "pause", 1), Step("wait", "paused", 1), Step("own", TRUE, 1),
    Step("insert", "", 0), Step("position", "", 0),
    Step("send", "resume", 1), Step("wait", "not_paused", 1), Step("own", FALSE, 1) >>

\* Faulty variant: replica1 is released first and resumed afterwards, and no
\* longer awaited.
ScriptReleasesEarly == <<
    Step("assert", "not_paused", 1), Step("assert", "not_paused", 2),
    Step("own", TRUE, 1), Step("send", "pause", 1), Step("wait", "paused", 1),
    Step("insert", "", 0), Step("position", "", 0),
    Step("own", FALSE, 1), Step("send", "resume", 1),
    Step("wait", "not_paused", 1) >>

\* The steps of the script, from "1. Verify roles" to "6. Resume replica1".
Script == <<
    Step("assert", "not_paused", 1), Step("assert", "not_paused", 2),
    Step("insert", "", 0), Step("position", "", 0),
    Step("wait", "caught_up", 1), Step("assert", "visible", 1),
    Step("wait", "caught_up", 2), Step("assert", "visible", 2),
    Step("own", TRUE, 1), Step("send", "pause", 1), Step("wait", "paused", 1),
    Step("insert", "", 0), Step("position", "", 0), Step("assert", "visible", 0),
    Step("assert", "hidden", 1), Step("assert", "behind", 1),
    Step("wait", "caught_up", 2), Step("assert", "visible", 2),
    Step("send", "resume", 1), Step("wait", "not_paused", 1), Step("own", FALSE, 1),
    Step("wait", "caught_up", 1), Step("assert", "visible", 1),
    Step("assert", "not_paused", 1), Step("assert", "not_paused", 2) >>

\* resume_replica, as the cleanup calls it.
Cleanup == << Step("send", "resume", 1), Step("wait", "not_paused", 1) >>

Program == IF mode = "script" THEN Script ELSE Cleanup
Running == mode \in {"script", "cleanup"} /\ pc <= Len(Program)
Current == Program[pc]
At(kind) == Running /\ Current.kind = kind

\* The commits node n shows; node 0 is the primary.
Shown(n) == IF n = 0 THEN wal ELSE replayed[n]

\* caught-up.sql, visible.sql, pause-state.sql and their negations.
Holds(what, n) ==
    CASE what = "caught_up" -> replayed[n] >= token
      [] what = "behind"    -> replayed[n] < token
      [] what = "visible"   -> Shown(n) >= post
      [] what = "hidden"    -> replayed[n] < post
      [] what \in {"paused", "not_paused"} -> pausing[n] = what

LabInit ==
    /\ wal = 0
    /\ replayed = [n \in Replica |-> 0]
    /\ pausing \in [Replica -> {"not_paused", "paused"}]
    /\ before = pausing
    /\ stray = FALSE
    /\ mode = "script" /\ pc = 1 /\ owned = FALSE
    /\ post = 0 /\ token = 0
    /\ code = 0 /\ why = "pass"
    /\ signals = 0 /\ asked = "nothing" /\ excuse = {}

-----------------------------------------------------------------------------
(* Leaving.                                                                *)

\* The script exits, by set -e, by fail or by a signal's handler: bash enters
\* the EXIT trap.
Leave(reason, status) ==
    /\ mode' = "trap" /\ pc' = 1
    /\ why' = reason /\ code' = status

\* A resume that fails in the cleanup: a warning, and the status is 1.
Warn ==
    /\ mode' = "ended" /\ code' = 1
    /\ excuse' = excuse \cup {"resume_failed"}
    /\ UNCHANGED <<pc, why>>

\* A step that has failed.
Fail(reason) ==
    IF mode = "script" THEN Leave(reason, 1) /\ UNCHANGED excuse ELSE Warn

Proceed == pc' = pc + 1 /\ UNCHANGED <<mode, code, why>>

\* The last line of the script.
Pass ==
    /\ mode = "script" /\ pc > Len(Script)
    /\ Leave("pass", 0)
    /\ UNCHANGED <<serverVars, owned, post, token, signals, asked, excuse>>

\* Faulty variant: the cleanup resumes replica1 whoever paused it.
EnterCleanupAlways ==
    /\ mode = "trap"
    /\ mode' = "cleanup" /\ pc' = 1
    /\ UNCHANGED <<serverVars, owned, post, token, code, why, signals, asked, excuse>>

\* Faulty variant: the exit status is not saved before the traps are reset.
EnterCleanupStatusLost ==
    /\ mode = "trap"
    /\ mode' = (IF owned THEN "cleanup" ELSE "ended") /\ pc' = 1 /\ code' = 0
    /\ UNCHANGED <<serverVars, owned, post, token, why, signals, asked, excuse>>

\* cleanup: the traps are reset, and a pause of its own is undone.
EnterCleanup ==
    /\ mode = "trap"
    /\ mode' = (IF owned THEN "cleanup" ELSE "ended") /\ pc' = 1
    /\ UNCHANGED <<serverVars, owned, post, token, code, why, signals, asked, excuse>>

Cleaned ==
    /\ mode = "cleanup" /\ pc > Len(Cleanup)
    /\ mode' = "ended"
    /\ UNCHANGED <<serverVars, pc, owned, post, token, code, why, signals, asked, excuse>>

-----------------------------------------------------------------------------
(* The steps.                                                              *)

\* write.sql: INSERT and COMMIT, then the position in a statement of its own.
Insert ==
    /\ At("insert")
    /\ wal' = wal + 1 /\ post' = wal + 1
    /\ Proceed
    /\ UNCHANGED <<replayed, pausing, stray, owned, token, signals, asked, excuse>>

TakePosition ==
    /\ At("position")
    /\ token' = wal
    /\ Proceed
    /\ UNCHANGED <<serverVars, owned, post, signals, asked, excuse>>

\* assert_sql and wait_for_sql, when the answer is the expected one.
Matches ==
    /\ At("assert") \/ At("wait")
    /\ Holds(Current.what, Current.node)
    /\ Proceed
    /\ UNCHANGED <<serverVars, owned, post, token, signals, asked, excuse>>

\* Faulty variant: wait_for_sql has no deadline.
MismatchesOfAsserts ==
    /\ At("assert")
    /\ ~Holds(Current.what, Current.node)
    /\ Fail("assertion")
    /\ UNCHANGED <<serverVars, owned, post, token, signals, asked>>

\* The answer is another one: assert_sql fails, wait_for_sql polls until its
\* deadline.
Mismatches ==
    /\ At("assert") \/ At("wait")
    /\ ~Holds(Current.what, Current.node)
    /\ Fail(IF At("assert") THEN "assertion" ELSE "timeout")
    /\ UNCHANGED <<serverVars, owned, post, token, signals, asked>>

Own ==
    /\ At("own")
    /\ owned' = Current.what
    /\ Proceed
    /\ UNCHANGED <<serverVars, post, token, signals, asked, excuse>>

RequestPause(n) ==
    pausing' = [pausing EXCEPT ![n] = IF @ = "not_paused" THEN "pause_requested" ELSE @]

\* pause.sql and resume.sql.
Send ==
    /\ At("send")
    /\ IF Current.what = "pause" THEN RequestPause(Current.node)
       ELSE pausing' = [pausing EXCEPT ![Current.node] = "not_paused"]
    /\ asked' = Current.what
    /\ Proceed
    /\ UNCHANGED <<wal, replayed, stray, owned, post, token, signals, excuse>>

Attempted == IF At("send") THEN Current.what ELSE asked

\* query fails: no connection, a timeout, an error.
QueryFails ==
    /\ Running /\ ~At("own")
    /\ Fail("error")
    /\ asked' = Attempted
    /\ UNCHANGED <<serverVars, owned, post, token, signals>>

-----------------------------------------------------------------------------
(* Signals.                                                                *)

\* INT, TERM or HUP while the script runs: its handler exits.  The client of
\* a request in progress may be gone while the request itself goes on.
Signal ==
    /\ mode = "script" /\ signals < MaxSignals
    /\ signals' = signals + 1
    /\ Leave("signal", 130)
    /\ \/ UNCHANGED <<stray, asked, excuse>>
       \/ /\ At("send") /\ Current.what = "pause"
          /\ stray' = TRUE /\ asked' = "pause"
          /\ excuse' = excuse \cup {"pause_overtaken"}
    /\ UNCHANGED <<wal, replayed, pausing, owned, post, token>>

\* One more, when the EXIT trap has been entered: the handlers are gone or
\* exit from within the trap, and nothing runs any more.
SecondSignal ==
    /\ mode \in {"trap", "cleanup"} /\ signals < MaxSignals
    /\ signals' = signals + 1
    /\ mode' = "ended" /\ code' = 130
    /\ excuse' = excuse \cup {"signal_in_cleanup"}
    /\ UNCHANGED <<serverVars, pc, owned, post, token, why, asked>>

\* SIGKILL, or the host fails.
Killed ==
    /\ mode # "ended"
    /\ mode' = "ended" /\ code' = 137
    /\ excuse' = excuse \cup {"killed"}
    /\ UNCHANGED <<serverVars, pc, owned, post, token, why, signals, asked>>

-----------------------------------------------------------------------------
(* The servers, and other users of the primary.                            *)

Replay(n) ==
    /\ replayed[n] < wal /\ pausing[n] # "paused"
    /\ replayed' = [replayed EXCEPT ![n] = @ + 1]
    /\ UNCHANGED <<wal, pausing, stray>>

ReachPause(n) ==
    /\ pausing[n] = "pause_requested"
    /\ pausing' = [pausing EXCEPT ![n] = "paused"]
    /\ UNCHANGED <<wal, replayed, stray>>

StrayPause ==
    /\ stray
    /\ stray' = FALSE
    /\ RequestPause(1)
    /\ UNCHANGED <<wal, replayed>>

OthersWrite ==
    /\ wal < MaxWal
    /\ wal' = wal + 1
    /\ UNCHANGED <<replayed, pausing, stray>>

Servers ==
    /\ \/ \E n \in Replica : Replay(n) \/ ReachPause(n)
       \/ StrayPause \/ OthersWrite
    /\ UNCHANGED scriptVars

ScriptRuns ==
    \/ Pass \/ EnterCleanup \/ Cleaned
    \/ Insert \/ TakePosition \/ Matches \/ Mismatches \/ Own \/ Send

LabNext ==
    /\ ScriptRuns \/ QueryFails \/ Signal \/ SecondSignal \/ Killed \/ Servers
    /\ UNCHANGED before

\* The script goes on: a query is answered, if not with an error, and a wait
\* ends with its deadline.
LabSpec == LabInit /\ [][LabNext]_labVars /\ WF_labVars(ScriptRuns /\ UNCHANGED before)

-----------------------------------------------------------------------------
LabTypeOK ==
    /\ wal \in Nat /\ post \in 0..wal /\ token \in 0..wal
    /\ replayed \in [Replica -> 0..wal]
    /\ pausing \in [Replica -> {"not_paused", "pause_requested", "paused"}]
    /\ mode \in {"script", "trap", "cleanup", "ended"}
    /\ pc \in 1..(Len(Script) + 1)
    /\ owned \in BOOLEAN /\ stray \in BOOLEAN
    /\ why \in {"pass", "assertion", "timeout", "error", "signal"}
    /\ code \in {0, 1, 130, 137}
    /\ asked = "pause" => owned

\* Whatever fails and wherever the first signal strikes, the script leaves
\* replica1 replaying (lab README: on success, failure and interruption),
\* except for what it reports or cannot know: a resume that failed, a kill, a
\* second signal, a pause request that outlives its interrupted client.
PauseUndone ==
    (mode = "ended" /\ asked # "nothing" /\ excuse = {}) => pausing[1] = "not_paused"

\* A replica that somebody else had paused stays paused.
OthersPauseStays ==
    \A n \in Replica : before[n] = "paused" => pausing[n] = "paused"

\* The experiment is deterministic although the servers are not: an assertion
\* fails only because a replica was paused from the start.  The lag shows on
\* the replica that was paused, and every post where its position was reached.
NoFalseAlarm == why = "assertion" => \E n \in Replica : before[n] = "paused"

\* Status 0 is reported of no run that failed, and means that both replicas
\* replay again and have replayed what was written.
PassMeansRecovered ==
    (mode = "ended" /\ code = 0) =>
        /\ why = "pass"
        /\ \A n \in Replica : pausing[n] = "not_paused" /\ replayed[n] >= token

\* The script ends, also when a replica never catches up or never pauses.
TestEnds == <>(mode = "ended")
=============================================================================
