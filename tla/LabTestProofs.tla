--------------------------- MODULE LabTestProofs ---------------------------
(***************************************************************************)
(* The replication experiment for any number of commits and signals: the   *)
(* pause is undone, other users' pauses are left alone, an alarm has its   *)
(* cause and a pass means recovery.                                        *)
(***************************************************************************)
EXTENDS LabTest, TLAPS

Reasons == {"resume_failed", "pause_overtaken", "signal_in_cleanup", "killed"}

LabTypes ==
    /\ wal \in Nat /\ post \in 0..wal /\ token \in 0..wal
    /\ replayed \in [Replica -> 0..wal]
    /\ pausing \in [Replica -> {"not_paused", "pause_requested", "paused"}]
    /\ before \in [Replica -> {"not_paused", "paused"}]
    /\ mode \in {"script", "trap", "cleanup", "ended"}
    /\ pc \in 1..26
    /\ mode = "cleanup" => pc <= 3
    /\ owned \in BOOLEAN /\ stray \in BOOLEAN
    /\ why \in {"pass", "assertion", "timeout", "error", "signal"}
    /\ code \in {0, 1, 130, 137}
    /\ asked \in {"nothing", "pause", "resume"}
    /\ asked = "pause" => owned
    /\ excuse \in SUBSET Reasons

\* replica2 is nobody's to pause here, and replica1 is not paused twice.
OthersAreLeftAlone ==
    /\ pausing[2] = before[2]
    /\ before[1] = "paused" => pausing[1] = "paused"

\* What the script has reached by the step it is about to take.
ScriptSoFar ==
    /\ excuse = {} /\ ~stray /\ code = 0 /\ why = "pass"
    /\ owned <=> pc \in 10..21
    /\ pc <= 10 => asked = "nothing" /\ pausing[1] = before[1]
    /\ pc >= 11 => asked # "nothing"
    /\ pc >= 2 => before[1] = "not_paused"
    /\ pc >= 3 => before[2] = "not_paused"
    /\ pc \in 12..19 => pausing[1] = "paused"
    /\ pc >= 20 => asked = "resume" /\ pausing[1] = "not_paused"
    /\ pc \in (5..12) \cup (14..26) => post <= token
    /\ pc \in 6..12 => replayed[1] >= token
    /\ pc \in 8..12 => replayed[2] >= token
    /\ pc \in 13..19 => replayed[1] < post
    /\ pc >= 18 => replayed[2] >= token
    /\ pc >= 23 => replayed[1] >= token

Recovered ==
    /\ why = "pass" /\ ~owned /\ ~stray
    /\ \A n \in Replica : pausing[n] = "not_paused" /\ replayed[n] >= token

\* What is left when the script has been left.
LeftBehind ==
    /\ code = 0 => Recovered
    /\ why = "assertion" => \E n \in Replica : before[n] = "paused"
    /\ owned => before[1] = "not_paused"
    /\ mode = "cleanup" => owned
    /\ stray => excuse # {}
    /\ excuse = {} /\ asked # "nothing" =>
        /\ ~owned => pausing[1] = "not_paused"
        /\ mode = "cleanup" /\ pc >= 2 => pausing[1] = "not_paused"
        /\ mode = "ended" => pausing[1] = "not_paused"

LabInv ==
    /\ LabTypes
    /\ OthersAreLeftAlone
    /\ mode = "script" => ScriptSoFar
    /\ mode # "script" => LeftBehind

-----------------------------------------------------------------------------
(* Where the script does what.                                             *)

LEMMA KindsByPlace ==
  /\ Script[1].kind = "assert" /\ Script[2].kind = "assert" /\ Script[6].kind = "assert"
  /\ Script[8].kind = "assert" /\ Script[14].kind = "assert" /\ Script[15].kind = "assert" /\ Script[16].kind = "assert"
  /\ Script[18].kind = "assert" /\ Script[23].kind = "assert" /\ Script[24].kind = "assert"
  /\ Script[25].kind = "assert"
  /\ Script[5].kind = "wait" /\ Script[7].kind = "wait" /\ Script[11].kind = "wait"
  /\ Script[17].kind = "wait" /\ Script[20].kind = "wait" /\ Script[22].kind = "wait"
  /\ Script[3].kind = "insert" /\ Script[12].kind = "insert"
  /\ Script[4].kind = "position" /\ Script[13].kind = "position"
  /\ Script[9].kind = "own" /\ Script[21].kind = "own"
  /\ Script[10].kind = "send" /\ Script[19].kind = "send"
  BY DEF Script, Step

LEMMA ChecksByPlace ==
  /\ Script[1].what = "not_paused" /\ Script[1].node = 1
  /\ Script[2].what = "not_paused" /\ Script[2].node = 2
  /\ Script[5].what = "caught_up" /\ Script[5].node = 1
  /\ Script[6].what = "visible" /\ Script[6].node = 1
  /\ Script[7].what = "caught_up" /\ Script[7].node = 2
  /\ Script[8].what = "visible" /\ Script[8].node = 2
  /\ Script[11].what = "paused" /\ Script[11].node = 1
  /\ Script[14].what = "visible" /\ Script[14].node = 0
  /\ Script[15].what = "hidden" /\ Script[15].node = 1
  /\ Script[16].what = "behind" /\ Script[16].node = 1
  /\ Script[17].what = "caught_up" /\ Script[17].node = 2
  /\ Script[18].what = "visible" /\ Script[18].node = 2
  /\ Script[20].what = "not_paused" /\ Script[20].node = 1
  /\ Script[22].what = "caught_up" /\ Script[22].node = 1
  /\ Script[23].what = "visible" /\ Script[23].node = 1
  /\ Script[24].what = "not_paused" /\ Script[24].node = 1
  /\ Script[25].what = "not_paused" /\ Script[25].node = 2
  BY DEF Script, Step

LEMMA ScriptLength == Len(Script) = 25
  BY DEF Script

LEMMA Changes ==
  ASSUME NEW i \in 1..25
  PROVE  /\ Script[i].kind = "insert" <=> i \in {3, 12}
         /\ Script[i].kind = "position" <=> i \in {4, 13}
         /\ Script[i].kind = "own" <=> i \in {9, 21}
         /\ Script[i].kind = "send" <=> i \in {10, 19}
         /\ Script[i].kind = "assert" <=> i \in {1, 2, 6, 8, 14, 15, 16, 18, 23, 24, 25}
         /\ Script[i].kind = "wait" <=> i \in {5, 7, 11, 17, 20, 22}
  BY KindsByPlace

LEMMA Arguments ==
  /\ Script[9].what = TRUE /\ Script[21].what = FALSE
  /\ Script[10].what = "pause" /\ Script[10].node = 1
  /\ Script[19].what = "resume" /\ Script[19].node = 1
  BY DEF Script, Step

LEMMA CleanupSteps ==
  /\ Len(Cleanup) = 2
  /\ Cleanup[1].kind = "send" /\ Cleanup[1].what = "resume" /\ Cleanup[1].node = 1
  /\ Cleanup[2].kind = "wait" /\ Cleanup[2].what = "not_paused" /\ Cleanup[2].node = 1
  BY DEF Cleanup, Step

LEMMA AtInScript ==
  ASSUME LabTypes, mode = "script"
  PROVE  /\ pc \in 1..26
         /\ Running <=> pc \in 1..25
         /\ Running => Current = Script[pc]
         /\ At("insert") <=> pc \in {3, 12}
         /\ At("position") <=> pc \in {4, 13}
         /\ At("own") <=> pc \in {9, 21}
         /\ At("send") <=> pc \in {10, 19}
         /\ At("assert") <=> pc \in {1, 2, 6, 8, 14, 15, 16, 18, 23, 24, 25}
         /\ At("wait") <=> pc \in {5, 7, 11, 17, 20, 22}
  <1>1. pc \in 1..26
    BY DEF LabTypes
  <1>2. Program = Script
    BY DEF Program
  <1>3. Running <=> pc \in 1..25
    <2>1. Running <=> pc <= Len(Script)
      BY <1>2 DEF Running
    <2>2. QED
      BY <1>1, <2>1, ScriptLength
  <1>6. Current = Script[pc]
    BY <1>2 DEF Current
  <1>4. CASE pc \in 1..25
    BY <1>3, <1>4, <1>6, Changes DEF At
  <1>5. CASE pc = 26
    BY <1>3, <1>5 DEF At
  <1>7. QED
    BY <1>1, <1>3, <1>4, <1>5, <1>6

LEMMA AtInCleanup ==
  ASSUME LabTypes, mode = "cleanup"
  PROVE  /\ pc \in 1..3
         /\ At("send") <=> pc = 1
         /\ At("wait") <=> pc = 2
         /\ ~At("insert") /\ ~At("position") /\ ~At("own") /\ ~At("assert")
         /\ pc = 1 => Current.what = "resume" /\ Current.node = 1
         /\ pc = 2 => Current.what = "not_paused" /\ Current.node = 1
  <1>1. pc \in 1..3
    BY DEF LabTypes
  <1>2. Program = Cleanup
    BY DEF Program
  <1>3. Running <=> pc \in 1..2
    <2>1. Running <=> pc <= Len(Cleanup)
      BY <1>2 DEF Running
    <2>2. QED
      BY <1>1, <2>1, CleanupSteps
  <1>4. Current = Cleanup[pc]
    BY <1>2 DEF Current
  <1>5. QED
    BY <1>1, <1>3, <1>4, CleanupSteps DEF At

LEMMA LabInitially == LabInit => LabInv
  <1> SUFFICES ASSUME LabInit PROVE LabInv
    OBVIOUS
  <1>1. LabTypes
    <2>1. replayed \in [Replica -> 0..wal] /\ wal \in Nat /\ post \in 0..wal /\ token \in 0..wal
      BY DEF LabInit
    <2>2. /\ pausing \in [Replica -> {"not_paused", "pause_requested", "paused"}]
          /\ before \in [Replica -> {"not_paused", "paused"}]
      BY DEF LabInit
    <2>3. excuse \in SUBSET Reasons
      BY DEF LabInit
    <2>4. owned \in BOOLEAN /\ stray \in BOOLEAN /\ asked = "nothing"
      BY DEF LabInit
    <2>5. mode = "script" /\ pc = 1 /\ why = "pass" /\ code = 0
      BY DEF LabInit
    <2>6. QED
      BY <2>1, <2>2, <2>3, <2>4, <2>5 DEF LabTypes
  <1>2. OthersAreLeftAlone
    BY DEF LabInit, OthersAreLeftAlone, Replica
  <1>3. ScriptSoFar
    BY DEF LabInit, ScriptSoFar, Replica
  <1>4. QED
    BY <1>1, <1>2, <1>3 DEF LabInit, LabInv

-----------------------------------------------------------------------------
(* Leaving the script.                                                     *)

\* Any way out but the last line.
LEMMA LeavingPreserves ==
  ASSUME LabInv, mode = "script", mode' = "trap", pc' = 1,
         why' \in {"assertion", "timeout", "error", "signal"}, code' \in {1, 130},
         UNCHANGED <<wal, replayed, pausing, owned, post, token, before>>,
         asked' = asked \/ (asked' = "pause" /\ pc = 10) \/ (asked' = "resume" /\ pc = 19),
         stray' \in BOOLEAN, excuse' \in SUBSET Reasons, stray' => excuse' # {},
         why' = "assertion" => \E n \in Replica : before[n] = "paused"
  PROVE  LabInv'
  <1>1. ScriptSoFar /\ LabTypes /\ OthersAreLeftAlone
    BY DEF LabInv
  <1>2. pc \in 1..26 /\ asked \in {"nothing", "pause", "resume"}
    BY <1>1, AtInScript DEF LabTypes
  <1>3. asked' = "pause" => owned
    BY <1>1, <1>2 DEF ScriptSoFar, LabTypes
  <1>4. LabTypes'
    BY <1>1, <1>2, <1>3 DEF LabTypes
  <1>5. ~owned /\ asked' # "nothing" => pausing[1] = "not_paused"
    BY <1>1, <1>2 DEF ScriptSoFar
  <1>6. owned => before[1] = "not_paused"
    BY <1>1, <1>2 DEF ScriptSoFar
  <1>7. LeftBehind'
    BY <1>5, <1>6 DEF LeftBehind
  <1>8. QED
    BY <1>1, <1>4, <1>7 DEF LabInv, OthersAreLeftAlone

LEMMA PassPreserves ==
  ASSUME LabInv, Pass, UNCHANGED before
  PROVE  LabInv'
  <1>1. ScriptSoFar /\ LabTypes /\ OthersAreLeftAlone /\ mode = "script" /\ pc = 26
    BY AtInScript, ScriptLength DEF LabInv, Pass
  <1>2. LabTypes'
    BY <1>1 DEF Pass, Leave, LabTypes, serverVars
  <1>3. /\ ~owned /\ ~stray /\ pausing[1] = "not_paused" /\ pausing[2] = "not_paused"
        /\ replayed[1] >= token /\ replayed[2] >= token /\ before[1] = "not_paused"
    BY <1>1 DEF ScriptSoFar, OthersAreLeftAlone
  <1>4. Recovered'
    BY <1>3 DEF Pass, Leave, Recovered, Replica, serverVars
  <1>5. LeftBehind'
    BY <1>3, <1>4 DEF Pass, Leave, LeftBehind, serverVars
  <1>6. QED
    BY <1>1, <1>2, <1>5 DEF Pass, Leave, LabInv, OthersAreLeftAlone, serverVars

\* The script stops where it is, in its cleanup or for good.
LEMMA EndingPreserves ==
  ASSUME LabInv, mode # "script", mode' = "ended", UNCHANGED <<serverVars, pc, owned, post, token, why, asked, before>>,
         code' \in {1, 130, 137}, excuse' \in SUBSET Reasons, excuse' # {}
  PROVE  LabInv'
  <1>1. LabTypes'
    BY DEF LabInv, LabTypes, serverVars
  <1>2. LeftBehind'
    BY DEF LabInv, LeftBehind, serverVars
  <1>3. QED
    BY <1>1, <1>2 DEF LabInv, OthersAreLeftAlone, serverVars

LEMMA EnterCleanupPreserves ==
  ASSUME LabInv, EnterCleanup, UNCHANGED before
  PROVE  LabInv'
  <1>1. LabTypes /\ LeftBehind /\ OthersAreLeftAlone /\ mode = "trap"
    BY DEF LabInv, EnterCleanup
  <1>2. LabTypes'
    BY <1>1 DEF EnterCleanup, LabTypes, serverVars
  <1>3. CASE owned
    <2>1. mode' = "cleanup" /\ pc' = 1
      BY <1>1, <1>3 DEF EnterCleanup
    <2>2. LeftBehind'
      BY <1>1, <1>3, <2>1 DEF EnterCleanup, LeftBehind, Recovered, serverVars
    <2>3. QED
      BY <1>1, <1>2, <2>1, <2>2 DEF EnterCleanup, LabInv, OthersAreLeftAlone, serverVars
  <1>4. CASE ~owned
    <2>1. mode' = "ended"
      BY <1>1, <1>4 DEF EnterCleanup
    <2>2. LeftBehind'
      BY <1>1, <1>4, <2>1 DEF EnterCleanup, LeftBehind, Recovered, serverVars
    <2>3. QED
      BY <1>1, <1>2, <2>1, <2>2 DEF EnterCleanup, LabInv, OthersAreLeftAlone, serverVars
  <1>5. QED
    BY <1>3, <1>4

LEMMA CleanedPreserves ==
  ASSUME LabInv, Cleaned, UNCHANGED before
  PROVE  LabInv'
  <1>1. LabTypes /\ LeftBehind /\ OthersAreLeftAlone /\ mode = "cleanup" /\ mode' = "ended"
    BY DEF LabInv, Cleaned
  <1>2. pc = 3
    BY <1>1, AtInCleanup, CleanupSteps DEF Cleaned
  <1>3. LabTypes'
    BY <1>1 DEF Cleaned, LabTypes, serverVars
  <1>4. LeftBehind'
    BY <1>1, <1>2 DEF Cleaned, LeftBehind, Recovered, serverVars
  <1>5. QED
    BY <1>1, <1>3, <1>4 DEF Cleaned, LabInv, OthersAreLeftAlone, serverVars

-----------------------------------------------------------------------------
(* The steps of the script.                                                *)

\* A step of the script that succeeds.
LEMMA ProceedTypes ==
  ASSUME LabTypes, mode = "script", pc \in 1..25, Proceed
  PROVE  /\ mode' = "script" /\ pc' = pc + 1 /\ pc' \in 1..26
         /\ UNCHANGED <<code, why>>
  BY DEF Proceed

LEMMA InsertPreserves ==
  ASSUME LabInv, Insert, UNCHANGED before
  PROVE  LabInv'
  <1>1. LabTypes /\ OthersAreLeftAlone /\ mode = "script" /\ pc \in {3, 12}
    BY AtInScript, AtInCleanup DEF LabInv, Insert, At, Running
  <1>2. mode' = "script" /\ pc' = pc + 1 /\ UNCHANGED <<code, why>>
    BY <1>1, ProceedTypes DEF Insert
  <1>3. wal' = wal + 1 /\ post' = wal + 1
        /\ UNCHANGED <<replayed, pausing, stray, owned, token, asked, excuse>>
    BY DEF Insert
  <1>4. wal \in Nat /\ token \in 0..wal /\ replayed \in [Replica -> 0..wal]
    BY <1>1 DEF LabTypes
  <1>5. wal' \in Nat /\ post' \in 0..wal' /\ token' \in 0..wal'
    BY <1>3, <1>4
  <1>6. replayed' \in [Replica -> 0..wal']
    BY <1>3, <1>4
  <1>7. LabTypes'
    BY <1>1, <1>2, <1>3, <1>5, <1>6 DEF LabTypes
  <1>8. ScriptSoFar
    BY <1>1 DEF LabInv
  <1>9. replayed'[1] < post'
    BY <1>3, <1>4 DEF Replica
  <1>10. ScriptSoFar'
    BY <1>1, <1>2, <1>3, <1>8, <1>9 DEF ScriptSoFar
  <1>11. QED
    BY <1>1, <1>2, <1>3, <1>7, <1>10 DEF LabInv, OthersAreLeftAlone

LEMMA TakePositionPreserves ==
  ASSUME LabInv, TakePosition, UNCHANGED before
  PROVE  LabInv'
  <1>1. LabTypes /\ OthersAreLeftAlone /\ mode = "script" /\ pc \in {4, 13}
    BY AtInScript, AtInCleanup DEF LabInv, TakePosition, At, Running
  <1>2. mode' = "script" /\ pc' = pc + 1 /\ UNCHANGED <<code, why>>
    BY <1>1, ProceedTypes DEF TakePosition
  <1>3. token' = wal /\ UNCHANGED <<wal, post, replayed, pausing, stray, owned, asked, excuse>>
    BY DEF TakePosition, serverVars
  <1>4. LabTypes'
    BY <1>1, <1>2, <1>3 DEF LabTypes
  <1>5. post <= wal
    BY <1>1 DEF LabTypes
  <1>6. ScriptSoFar
    BY <1>1 DEF LabInv
  <1>7. ScriptSoFar'
    BY <1>1, <1>2, <1>3, <1>5, <1>6 DEF ScriptSoFar
  <1>8. QED
    BY <1>1, <1>2, <1>3, <1>4, <1>7 DEF LabInv, OthersAreLeftAlone

LEMMA OwnPreserves ==
  ASSUME LabInv, Own, UNCHANGED before
  PROVE  LabInv'
  <1>1. LabTypes /\ OthersAreLeftAlone /\ mode = "script" /\ pc \in {9, 21} /\ Current = Script[pc]
    BY AtInScript, AtInCleanup DEF LabInv, Own, At, Running
  <1>2. mode' = "script" /\ pc' = pc + 1 /\ UNCHANGED <<code, why>>
    BY <1>1, ProceedTypes DEF Own
  <1>3. UNCHANGED <<wal, post, token, replayed, pausing, stray, asked, excuse>>
    BY DEF Own, serverVars
  <1>4. (pc = 9 => owned' = TRUE) /\ (pc = 21 => owned' = FALSE)
    BY <1>1, Arguments DEF Own
  <1>5. ScriptSoFar
    BY <1>1 DEF LabInv
  <1>6. owned' \in BOOLEAN
    BY <1>1, <1>4
  <1>7. asked' = "pause" => owned'
    BY <1>1, <1>3, <1>4, <1>5 DEF ScriptSoFar
  <1>8. pc' \in 1..26
    BY <1>1, <1>2
  <1>9. LabTypes'
    BY <1>1, <1>2, <1>3, <1>6, <1>7, <1>8 DEF LabTypes
  <1>10. ScriptSoFar'
    BY <1>1, <1>2, <1>3, <1>4, <1>5 DEF ScriptSoFar
  <1>11. QED
    BY <1>1, <1>2, <1>3, <1>9, <1>10 DEF LabInv, OthersAreLeftAlone

LEMMA PausingMoves ==
  ASSUME LabTypes, NEW state \in {"not_paused", "pause_requested", "paused"},
         pausing' = [pausing EXCEPT ![1] = state]
  PROVE  /\ pausing' \in [Replica -> {"not_paused", "pause_requested", "paused"}]
         /\ pausing'[1] = state /\ pausing'[2] = pausing[2]
  BY DEF LabTypes, Replica

LEMMA SendPreserves ==
  ASSUME LabInv, Send, UNCHANGED before
  PROVE  LabInv'
  <1>1. LabTypes /\ OthersAreLeftAlone
    BY DEF LabInv
  <1>2. UNCHANGED <<wal, post, token, replayed, stray, owned, excuse>> /\ Proceed
    BY DEF Send
  <1>3. CASE mode = "script"
    <2>1. pc \in {10, 19} /\ Current = Script[pc] /\ ScriptSoFar
      BY <1>1, <1>3, AtInScript DEF Send, At, LabInv
    <2>2. mode' = "script" /\ pc' = pc + 1 /\ UNCHANGED <<code, why>>
      BY <1>1, <1>2, <1>3, <2>1, ProceedTypes
    <2>3. owned /\ before[1] = "not_paused" /\ excuse = {} /\ ~stray
      BY <2>1 DEF ScriptSoFar
    <2>4. CASE pc = 10
      <3>1. asked' = "pause" /\ RequestPause(1)
        BY <2>1, <2>4, Arguments DEF Send
      <3>2. pausing' = [pausing EXCEPT ![1] = "pause_requested"]
        <4>1. pausing[1] = "not_paused"
          BY <2>1, <2>3, <2>4 DEF ScriptSoFar
        <4>2. QED
          BY <3>1, <4>1 DEF RequestPause
      <3>3. pausing' \in [Replica -> {"not_paused", "pause_requested", "paused"}]
            /\ pausing'[2] = pausing[2]
        BY <1>1, <3>2, PausingMoves
      <3>4. LabTypes'
        BY <1>1, <1>2, <1>3, <2>2, <2>3, <2>4, <3>1, <3>3 DEF LabTypes
      <3>5. ScriptSoFar'
        BY <1>2, <2>1, <2>2, <2>4, <3>1 DEF ScriptSoFar
      <3>6. QED
        BY <1>1, <2>2, <2>3, <3>3, <3>4, <3>5 DEF LabInv, OthersAreLeftAlone
    <2>5. CASE pc = 19
      <3>1. asked' = "resume" /\ pausing' = [pausing EXCEPT ![1] = "not_paused"]
        BY <2>1, <2>5, Arguments DEF Send
      <3>2. pausing' \in [Replica -> {"not_paused", "pause_requested", "paused"}]
            /\ pausing'[1] = "not_paused" /\ pausing'[2] = pausing[2]
        BY <1>1, <3>1, PausingMoves
      <3>3. LabTypes'
        BY <1>1, <1>2, <2>2, <2>3, <2>5, <3>1, <3>2 DEF LabTypes
      <3>4. ScriptSoFar'
        BY <1>2, <2>1, <2>2, <2>5, <3>1, <3>2 DEF ScriptSoFar
      <3>5. QED
        BY <1>1, <2>2, <2>3, <3>2, <3>3, <3>4 DEF LabInv, OthersAreLeftAlone
    <2>6. QED
      BY <2>1, <2>4, <2>5
  <1>4. CASE mode = "cleanup"
    <2>1. pc = 1 /\ Current.what = "resume" /\ Current.node = 1
      BY <1>1, <1>4, AtInCleanup DEF Send
    <2>2. LeftBehind /\ owned /\ before[1] = "not_paused"
      BY <1>4 DEF LabInv, LeftBehind
    <2>3. asked' = "resume" /\ pausing' = [pausing EXCEPT ![1] = "not_paused"]
      BY <2>1 DEF Send
    <2>4. mode' = "cleanup" /\ pc' = 2 /\ UNCHANGED <<code, why>>
      BY <1>2, <1>4, <2>1 DEF Proceed
    <2>5. pausing' \in [Replica -> {"not_paused", "pause_requested", "paused"}]
          /\ pausing'[1] = "not_paused" /\ pausing'[2] = pausing[2]
      BY <1>1, <2>3, PausingMoves
    <2>6. LabTypes'
      BY <1>1, <1>2, <1>4, <2>3, <2>4, <2>5 DEF LabTypes
    <2>7. code # 0
      BY <2>2 DEF LeftBehind, Recovered
    <2>8. LeftBehind'
      BY <1>2, <2>2, <2>4, <2>5, <2>7 DEF LeftBehind
    <2>9. QED
      BY <1>1, <2>2, <2>4, <2>5, <2>6, <2>8 DEF LabInv, OthersAreLeftAlone
  <1>5. QED
    BY <1>3, <1>4 DEF Send, At, Running

\* What a check of the script finds out, place by place.
LEMMA CheckHolds ==
  ASSUME LabTypes, mode = "script", At("assert") \/ At("wait")
  PROVE  /\ pc \in {1, 20, 24} => (Holds(Current.what, Current.node) <=> pausing[1] = "not_paused")
         /\ pc \in {2, 25} => (Holds(Current.what, Current.node) <=> pausing[2] = "not_paused")
         /\ pc = 11 => (Holds(Current.what, Current.node) <=> pausing[1] = "paused")
         /\ pc \in {5, 22} => (Holds(Current.what, Current.node) <=> replayed[1] >= token)
         /\ pc \in {7, 17} => (Holds(Current.what, Current.node) <=> replayed[2] >= token)
         /\ pc \in {6, 23} => (Holds(Current.what, Current.node) <=> replayed[1] >= post)
         /\ pc \in {8, 18} => (Holds(Current.what, Current.node) <=> replayed[2] >= post)
         /\ pc = 14 => (Holds(Current.what, Current.node) <=> wal >= post)
         /\ pc = 15 => (Holds(Current.what, Current.node) <=> replayed[1] < post)
         /\ pc = 16 => (Holds(Current.what, Current.node) <=> replayed[1] < token)
  <1>1. Current = Script[pc]
    BY AtInScript DEF At
  <1>2. pc \in {1, 20, 24} => Current.what = "not_paused" /\ Current.node = 1
    BY <1>1, ChecksByPlace
  <1>3. pc \in {2, 25} => Current.what = "not_paused" /\ Current.node = 2
    BY <1>1, ChecksByPlace
  <1>4. pc = 11 => Current.what = "paused" /\ Current.node = 1
    BY <1>1, ChecksByPlace
  <1>5. pc \in {5, 22} => Current.what = "caught_up" /\ Current.node = 1
    BY <1>1, ChecksByPlace
  <1>6. pc \in {7, 17} => Current.what = "caught_up" /\ Current.node = 2
    BY <1>1, ChecksByPlace
  <1>7. pc \in {6, 23} => Current.what = "visible" /\ Current.node = 1
    BY <1>1, ChecksByPlace
  <1>8. pc \in {8, 18} => Current.what = "visible" /\ Current.node = 2
    BY <1>1, ChecksByPlace
  <1>9. /\ pc = 15 => Current.what = "hidden" /\ Current.node = 1
        /\ pc = 16 => Current.what = "behind" /\ Current.node = 1
    BY <1>1, ChecksByPlace
  <1>10. pc = 14 => Current.what = "visible" /\ Current.node = 0
    BY <1>1, ChecksByPlace
  <1>11. QED
    BY <1>2, <1>3, <1>4, <1>5, <1>6, <1>7, <1>8, <1>9, <1>10 DEF Holds, Shown

LEMMA MatchesPreserves ==
  ASSUME LabInv, Matches, UNCHANGED before
  PROVE  LabInv'
  <1>1. LabTypes /\ OthersAreLeftAlone
    BY DEF LabInv
  <1>2. UNCHANGED <<wal, post, token, replayed, pausing, stray, owned, asked, excuse>> /\ Proceed
    BY DEF Matches, serverVars
  <1>3. CASE mode = "script"
    <2>1. pc \in {1, 2, 6, 8, 14, 15, 16, 18, 23, 24, 25, 5, 7, 11, 17, 20, 22} /\ ScriptSoFar
      BY <1>1, <1>3, AtInScript DEF Matches, LabInv
    <2>2. mode' = "script" /\ pc' = pc + 1 /\ UNCHANGED <<code, why>> /\ pc' \in 1..26
      BY <1>1, <1>2, <1>3, <2>1, ProceedTypes
    <2>3. LabTypes'
      BY <1>1, <1>2, <2>2 DEF LabTypes
    <2>4. /\ pc \in {1, 20, 24} => pausing[1] = "not_paused"
          /\ pc = 2 => pausing[2] = "not_paused"
          /\ pc = 11 => pausing[1] = "paused"
          /\ pc \in {5, 22} => replayed[1] >= token
          /\ pc \in {7, 17} => replayed[2] >= token
      BY <1>1, <1>3, CheckHolds DEF Matches
    <2>5. /\ pc = 1 => before[1] = "not_paused"
          /\ pc = 2 => before[2] = "not_paused"
      BY <1>1, <2>1, <2>4 DEF ScriptSoFar, OthersAreLeftAlone
    <2>6. ScriptSoFar'
      BY <1>2, <2>1, <2>2, <2>4, <2>5 DEF ScriptSoFar
    <2>7. QED
      BY <1>1, <1>2, <2>2, <2>3, <2>6 DEF LabInv, OthersAreLeftAlone
  <1>4. CASE mode = "cleanup"
    <2>1. pc = 2 /\ LeftBehind
      BY <1>1, <1>4, AtInCleanup DEF Matches, LabInv
    <2>2. mode' = "cleanup" /\ pc' = 3 /\ UNCHANGED <<code, why>>
      BY <1>2, <1>4, <2>1 DEF Proceed
    <2>3. LabTypes'
      BY <1>1, <1>2, <2>2 DEF LabTypes
    <2>4. LeftBehind'
      BY <1>2, <1>4, <2>1, <2>2 DEF LeftBehind, Recovered
    <2>5. QED
      BY <1>1, <1>2, <2>2, <2>3, <2>4 DEF LabInv, OthersAreLeftAlone
  <1>5. QED
    BY <1>3, <1>4 DEF Matches, At, Running

\* An assertion that fails was asked of a replica paused from the start.
LEMMA MismatchesPreserves ==
  ASSUME LabInv, Mismatches, UNCHANGED before
  PROVE  LabInv'
  <1>1. LabTypes /\ OthersAreLeftAlone
    BY DEF LabInv
  <1>2. UNCHANGED <<wal, post, token, replayed, pausing, stray, owned, asked>>
    BY DEF Mismatches, serverVars
  <1>3. CASE mode = "script"
    <2>1. pc \in 1..25 /\ ScriptSoFar
      BY <1>1, <1>3, AtInScript DEF Mismatches, LabInv
    <2>2. Leave(IF At("assert") THEN "assertion" ELSE "timeout", 1) /\ UNCHANGED excuse
      BY <1>3 DEF Mismatches, Fail
    <2>3. At("assert") => \E n \in Replica : before[n] = "paused"
      <3>1. SUFFICES ASSUME At("assert") PROVE \E n \in Replica : before[n] = "paused"
        OBVIOUS
      <3>2. pc \in {1, 2, 6, 8, 14, 15, 16, 18, 23, 24, 25}
        BY <1>1, <1>3, <3>1, AtInScript
      <3>3. ~Holds(Current.what, Current.node)
        BY DEF Mismatches
      <3>4. /\ pc \in {1, 24} => pausing[1] # "not_paused"
            /\ pc \in {2, 25} => pausing[2] # "not_paused"
            /\ pc \in {6, 23} => ~(replayed[1] >= post)
            /\ pc \in {8, 18} => ~(replayed[2] >= post)
            /\ pc = 14 => ~(wal >= post)
            /\ pc = 15 => ~(replayed[1] < post)
            /\ pc = 16 => ~(replayed[1] < token)
        BY <1>1, <1>3, <3>1, <3>3, CheckHolds
      <3>5. replayed[1] \in Int /\ replayed[2] \in Int /\ post \in Int /\ token \in Int
            /\ wal \in Nat /\ post <= wal
        BY <1>1 DEF LabTypes, Replica
      <3>6. pc \in {1, 2}
        BY <2>1, <3>2, <3>4, <3>5, <1>1 DEF ScriptSoFar, OthersAreLeftAlone
      <3>7. before[pc] # "not_paused"
        BY <1>1, <2>1, <3>4, <3>6 DEF ScriptSoFar, OthersAreLeftAlone
      <3>8. QED
        BY <1>1, <3>6, <3>7 DEF LabTypes, Replica
    <2>4. /\ mode' = "trap" /\ pc' = 1 /\ code' = 1
          /\ why' = IF At("assert") THEN "assertion" ELSE "timeout"
      BY <2>2 DEF Leave
    <2>5. why' \in {"assertion", "timeout"} /\ (why' = "assertion" => At("assert"))
      BY <2>4
    <2>6. stray' \in BOOLEAN /\ excuse' \in SUBSET Reasons /\ ~stray'
      BY <1>1, <1>2, <2>1, <2>2 DEF LabTypes, ScriptSoFar
    <2>7. QED
      BY <1>2, <1>3, <2>3, <2>4, <2>5, <2>6, LeavingPreserves
  <1>4. CASE mode = "cleanup"
    <2>1. Warn
      BY <1>4 DEF Mismatches, Fail
    <2>2. excuse' \in SUBSET Reasons /\ excuse' # {}
      BY <1>1, <2>1 DEF Warn, LabTypes, Reasons
    <2>3. QED
      BY <1>4, <2>1, <2>2, EndingPreserves DEF Warn, Mismatches
  <1>5. QED
    BY <1>3, <1>4 DEF Mismatches, At, Running

LEMMA QueryFailsPreserves ==
  ASSUME LabInv, QueryFails, UNCHANGED before
  PROVE  LabInv'
  <1>1. LabTypes /\ OthersAreLeftAlone
    BY DEF LabInv
  <1>2. UNCHANGED <<wal, post, token, replayed, pausing, stray, owned>> /\ asked' = Attempted
    BY DEF QueryFails, serverVars
  <1>3. CASE mode = "script"
    <2>1. pc \in 1..26 /\ ScriptSoFar
      BY <1>1, <1>3, AtInScript DEF LabInv
    <2>2. mode' = "trap" /\ pc' = 1 /\ why' = "error" /\ code' = 1 /\ UNCHANGED excuse
      BY <1>3 DEF QueryFails, Fail, Leave
    <2>3. asked' = asked \/ (asked' = "pause" /\ pc = 10) \/ (asked' = "resume" /\ pc = 19)
      <3>1. CASE At("send")
        <4>1. pc \in {10, 19} /\ Current = Script[pc]
          BY <1>1, <1>3, <3>1, AtInScript DEF At
        <4>2. QED
          BY <1>2, <3>1, <4>1, Arguments DEF Attempted
      <3>2. CASE ~At("send")
        BY <1>2, <3>2 DEF Attempted
      <3>3. QED
        BY <3>1, <3>2
    <2>4. stray' \in BOOLEAN /\ excuse' \in SUBSET Reasons /\ ~stray'
      BY <1>1, <1>2, <2>1, <2>2 DEF LabTypes, ScriptSoFar
    <2>5. QED
      BY <1>2, <1>3, <2>2, <2>3, <2>4, LeavingPreserves
  <1>4. CASE mode = "cleanup"
    <2>1. Warn
      BY <1>4 DEF QueryFails, Fail
    <2>2. mode' = "ended" /\ code' = 1 /\ UNCHANGED <<pc, why>>
      BY <2>1 DEF Warn
    <2>3. excuse' \in SUBSET Reasons /\ excuse' # {}
      BY <1>1, <2>1 DEF Warn, LabTypes, Reasons
    <2>4. asked' \in {asked, "resume"}
      <3>1. At("send") => Current.what = "resume"
        BY <1>1, <1>4, AtInCleanup
      <3>2. QED
        BY <1>2, <3>1 DEF Attempted
    <2>5. LabTypes'
      BY <1>1, <1>2, <2>2, <2>3, <2>4 DEF LabTypes
    <2>6. LeftBehind /\ code # 0
      BY <1>4 DEF LabInv, LeftBehind, Recovered
    <2>7. LeftBehind'
      BY <1>2, <2>2, <2>3, <2>6 DEF LeftBehind
    <2>8. QED
      BY <1>1, <1>2, <2>2, <2>5, <2>7 DEF LabInv, OthersAreLeftAlone
  <1>5. QED
    BY <1>3, <1>4 DEF QueryFails, Running

-----------------------------------------------------------------------------
(* Signals, and what goes on meanwhile.                                    *)

LEMMA SignalPreserves ==
  ASSUME LabInv, Signal, UNCHANGED before
  PROVE  LabInv'
  <1>1. LabTypes /\ ScriptSoFar /\ mode = "script" /\ pc \in 1..26
    BY AtInScript DEF LabInv, Signal
  <1>2. UNCHANGED <<wal, post, token, replayed, pausing, owned>>
        /\ mode' = "trap" /\ pc' = 1 /\ why' = "signal" /\ code' = 130
    BY DEF Signal, Leave
  <1>3. CASE UNCHANGED <<stray, asked, excuse>>
    <2>1. stray' \in BOOLEAN /\ excuse' \in SUBSET Reasons /\ ~stray'
      BY <1>1, <1>3 DEF LabTypes, ScriptSoFar
    <2>2. QED
      BY <1>1, <1>2, <1>3, <2>1, LeavingPreserves
  <1>4. CASE /\ At("send") /\ Current.what = "pause"
             /\ stray' = TRUE /\ asked' = "pause"
             /\ excuse' = excuse \cup {"pause_overtaken"}
    <2>1. pc = 10
      <3>1. pc \in {10, 19} /\ Current = Script[pc]
        BY <1>1, <1>4, AtInScript DEF At
      <3>2. QED
        BY <1>4, <3>1, Arguments
    <2>2. stray' \in BOOLEAN /\ excuse' \in SUBSET Reasons /\ excuse' # {}
      BY <1>1, <1>4 DEF LabTypes, Reasons
    <2>3. QED
      BY <1>1, <1>2, <1>4, <2>1, <2>2, LeavingPreserves
  <1>5. QED
    BY <1>3, <1>4 DEF Signal

LEMMA SecondSignalPreserves ==
  ASSUME LabInv, SecondSignal, UNCHANGED before
  PROVE  LabInv'
  <1>1. excuse' \in SUBSET Reasons /\ excuse' # {}
    BY DEF LabInv, LabTypes, SecondSignal, Reasons
  <1>2. QED
    BY <1>1, EndingPreserves DEF SecondSignal

LEMMA KilledPreserves ==
  ASSUME LabInv, Killed, UNCHANGED before
  PROVE  LabInv'
  <1>1. excuse' \in SUBSET Reasons /\ excuse' # {}
    BY DEF LabInv, LabTypes, Killed, Reasons
  <1>2. CASE mode # "script"
    BY <1>1, <1>2, EndingPreserves DEF Killed
  <1>3. CASE mode = "script"
    <2>1. LabTypes /\ ScriptSoFar /\ pc \in 1..26
      BY <1>3, AtInScript DEF LabInv
    <2>2. mode' = "ended" /\ code' = 137
          /\ UNCHANGED <<wal, post, token, replayed, pausing, stray, owned, pc, why, asked>>
      BY DEF Killed, serverVars
    <2>3. LabTypes'
      BY <1>1, <2>1, <2>2 DEF LabTypes
    <2>4. owned => before[1] = "not_paused"
      BY <2>1 DEF ScriptSoFar
    <2>5. LeftBehind'
      BY <1>1, <2>1, <2>2, <2>4 DEF LeftBehind, ScriptSoFar
    <2>6. QED
      BY <2>2, <2>3, <2>5 DEF LabInv, OthersAreLeftAlone
  <1>4. QED
    BY <1>2, <1>3

LEMMA ServersPreserve ==
  ASSUME LabInv, Servers, UNCHANGED before
  PROVE  LabInv'
  <1>1. LabTypes /\ OthersAreLeftAlone
    BY DEF LabInv
  <1>2. UNCHANGED <<mode, pc, owned, post, token, code, why, asked, excuse>>
    BY DEF Servers, scriptVars
  <1>3. ASSUME NEW n \in Replica, Replay(n) PROVE LabInv'
    <2>1. UNCHANGED <<wal, pausing, stray>> /\ pausing[n] # "paused"
          /\ replayed' = [replayed EXCEPT ![n] = replayed[n] + 1] /\ replayed[n] < wal
      BY <1>3 DEF Replay
    <2>2. wal \in Nat /\ replayed \in [Replica -> 0..wal]
      BY <1>1 DEF LabTypes
    <2>3. replayed[n] + 1 \in 0..wal
      BY <2>1, <2>2
    <2>4. replayed' \in [Replica -> 0..wal]
      BY <2>1, <2>2, <2>3
    <2>5. LabTypes'
      BY <1>1, <1>2, <2>1, <2>4 DEF LabTypes
    <2>6. \A k \in Replica : replayed'[k] >= replayed[k] /\ (k # n => replayed'[k] = replayed[k])
      BY <2>1, <2>2
    <2>7. \A k \in Replica : replayed[k] \in Int /\ replayed'[k] \in Int
      BY <2>2, <2>4
    <2>8. token \in Int /\ post \in Int
      BY <1>1 DEF LabTypes
    <2>9. 1 \in Replica /\ 2 \in Replica
      BY DEF Replica
    <2>10. CASE mode = "script"
      <3>1. ScriptSoFar /\ pc \in 1..26
        BY <1>1, <2>10, AtInScript DEF LabInv
      <3>2. /\ replayed[1] >= token => replayed'[1] >= token
            /\ replayed[2] >= token => replayed'[2] >= token
        BY <2>6, <2>7, <2>8, <2>9
      <3>3. pausing[1] = "paused" => replayed'[1] = replayed[1]
        BY <2>1, <2>6, <2>9
      <3>4. pc = 13 => pausing[1] = "paused"
        BY <3>1 DEF ScriptSoFar
      <3>5. ScriptSoFar'
        BY <1>2, <2>1, <3>1, <3>2, <3>3 DEF ScriptSoFar
      <3>6. QED
        BY <1>1, <1>2, <2>1, <2>5, <2>10, <3>5 DEF LabInv, OthersAreLeftAlone
    <2>11. CASE mode # "script"
      <3>1. LeftBehind
        BY <2>11 DEF LabInv
      <3>2. Recovered => Recovered'
        BY <1>2, <2>1, <2>6, <2>7, <2>8 DEF Recovered
      <3>3. LeftBehind'
        BY <1>2, <2>1, <3>1, <3>2 DEF LeftBehind
      <3>4. QED
        BY <1>1, <1>2, <2>1, <2>5, <2>11, <3>3 DEF LabInv, OthersAreLeftAlone
    <2>12. QED
      BY <2>10, <2>11
  <1>4. ASSUME NEW n \in Replica, ReachPause(n) PROVE LabInv'
    <2>1. UNCHANGED <<wal, replayed, stray>> /\ pausing[n] = "pause_requested"
          /\ pausing' = [pausing EXCEPT ![n] = "paused"]
      BY <1>4 DEF ReachPause
    <2>2. n = 1
      BY <1>1, <2>1 DEF OthersAreLeftAlone, LabTypes, Replica
    <2>3. pausing' \in [Replica -> {"not_paused", "pause_requested", "paused"}]
          /\ pausing'[1] = "paused" /\ pausing'[2] = pausing[2] /\ pausing[1] = "pause_requested"
      BY <1>1, <2>1, <2>2, PausingMoves
    <2>4. LabTypes'
      BY <1>1, <1>2, <2>1, <2>3 DEF LabTypes
    <2>5. before[1] \in {"not_paused", "paused"}
      BY <1>1 DEF LabTypes, Replica
    <2>6. CASE mode = "script"
      <3>1. ScriptSoFar /\ pc \in 1..26
        BY <1>1, <2>6, AtInScript DEF LabInv
      <3>2. ScriptSoFar'
        BY <1>2, <2>1, <2>3, <2>5, <3>1 DEF ScriptSoFar
      <3>3. QED
        BY <1>1, <1>2, <2>3, <2>4, <2>6, <3>2 DEF LabInv, OthersAreLeftAlone
    <2>7. CASE mode # "script"
      <3>1. LeftBehind
        BY <2>7 DEF LabInv
      <3>2. code # 0
        BY <2>3, <3>1 DEF LeftBehind, Recovered, Replica
      <3>3. LeftBehind'
        BY <1>2, <2>1, <2>3, <3>1, <3>2 DEF LeftBehind
      <3>4. QED
        BY <1>1, <1>2, <2>3, <2>4, <2>7, <3>3 DEF LabInv, OthersAreLeftAlone
    <2>8. QED
      BY <2>6, <2>7
  <1>5. CASE StrayPause
    <2>1. stray /\ stray' = FALSE /\ RequestPause(1) /\ UNCHANGED <<wal, replayed>>
      BY <1>5 DEF StrayPause
    <2>2. mode # "script" /\ LeftBehind /\ excuse # {} /\ code # 0
      BY <2>1 DEF LabInv, ScriptSoFar, LeftBehind, Recovered
    <2>3. PICK state \in {"not_paused", "pause_requested", "paused"} :
            /\ pausing' = [pausing EXCEPT ![1] = state]
            /\ pausing[1] = "paused" => state = "paused"
      <3>1. pausing[1] \in {"not_paused", "pause_requested", "paused"}
        BY <1>1 DEF LabTypes, Replica
      <3>2. CASE pausing[1] = "not_paused"
        BY <2>1, <3>2 DEF RequestPause
      <3>3. CASE pausing[1] # "not_paused"
        BY <2>1, <3>1, <3>3 DEF RequestPause
      <3>4. QED
        BY <3>2, <3>3
    <2>4. pausing' \in [Replica -> {"not_paused", "pause_requested", "paused"}]
          /\ pausing'[1] = state /\ pausing'[2] = pausing[2]
      BY <1>1, <2>3, PausingMoves
    <2>5. LabTypes'
      <3>1. stray' \in BOOLEAN /\ UNCHANGED <<wal, replayed>>
        BY <2>1
      <3>2. QED
        BY <1>1, <1>2, <2>4, <3>1 DEF LabTypes
    <2>6. LeftBehind'
      BY <1>2, <2>1, <2>2 DEF LeftBehind
    <2>7. OthersAreLeftAlone'
      BY <1>1, <2>3, <2>4 DEF OthersAreLeftAlone
    <2>8. QED
      BY <1>2, <2>2, <2>5, <2>6, <2>7 DEF LabInv
  <1>6. CASE OthersWrite
    <2>1. wal' = wal + 1 /\ UNCHANGED <<replayed, pausing, stray>>
      BY <1>6 DEF OthersWrite
    <2>2. wal \in Nat /\ replayed \in [Replica -> 0..wal] /\ post \in 0..wal /\ token \in 0..wal
      BY <1>1 DEF LabTypes
    <2>3. wal' \in Nat /\ post' \in 0..wal' /\ token' \in 0..wal' /\ replayed' \in [Replica -> 0..wal']
      <3>1. wal' \in Nat /\ post' \in 0..wal' /\ token' \in 0..wal'
        BY <1>2, <2>1, <2>2
      <3>2. \A n \in Replica : replayed[n] \in 0..wal'
        BY <2>1, <2>2
      <3>3. QED
        BY <2>1, <2>2, <3>1, <3>2
    <2>4. LabTypes'
      BY <1>1, <1>2, <2>1, <2>3 DEF LabTypes
    <2>5. (ScriptSoFar => ScriptSoFar') /\ (LeftBehind => LeftBehind')
      BY <1>2, <2>1 DEF ScriptSoFar, LeftBehind, Recovered
    <2>6. QED
      BY <1>1, <1>2, <2>1, <2>4, <2>5 DEF LabInv, OthersAreLeftAlone
  <1>7. QED
    BY <1>3, <1>4, <1>5, <1>6 DEF Servers

-----------------------------------------------------------------------------
(* The theorems.                                                           *)

LEMMA LabStep ==
  ASSUME LabInv, [LabNext]_labVars
  PROVE  LabInv'
  <1>1. CASE UNCHANGED labVars
    BY <1>1 DEF labVars, serverVars, scriptVars, LabInv, LabTypes, OthersAreLeftAlone,
                ScriptSoFar, LeftBehind, Recovered
  <1>2. CASE LabNext
    <2>1. UNCHANGED before
      BY <1>2 DEF LabNext
    <2>2. CASE ScriptRuns
      BY <2>1, <2>2, PassPreserves, EnterCleanupPreserves, CleanedPreserves, InsertPreserves,
         TakePositionPreserves, MatchesPreserves, MismatchesPreserves, OwnPreserves,
         SendPreserves DEF ScriptRuns
    <2>3. QED
      BY <1>2, <2>1, <2>2, QueryFailsPreserves, SignalPreserves, SecondSignalPreserves,
         KilledPreserves, ServersPreserve DEF LabNext
  <1>3. QED
    BY <1>1, <1>2

LEMMA LabInvariant == LabSpec => []LabInv
  <1>1. LabInit => LabInv
    BY LabInitially
  <1>2. LabInv /\ [LabNext]_labVars => LabInv'
    BY LabStep
  <1>3. QED
    BY <1>1, <1>2, PTL DEF LabSpec

\* The variables of test.sh and of the servers have their types, and a pause
\* is asked for only by a script that will undo it.
THEOREM LabTypeCorrect == LabSpec => []LabTypeOK
  <1>1. LabTypes => LabTypeOK
    <2>1. 1..26 = 1..(Len(Script) + 1)
      BY ScriptLength
    <2>2. QED
      BY <2>1 DEF LabTypes, LabTypeOK
  <1>2. QED
    BY <1>1, LabInvariant, PTL DEF LabInv

\* The clean-up of test.sh: on every way out that is not excused, replica1
\* replays.
THEOREM LabUndoesPause == LabSpec => []PauseUndone
  <1>1. LabInv => PauseUndone
    BY DEF LabInv, LeftBehind, PauseUndone
  <1>2. QED
    BY <1>1, LabInvariant, PTL

\* test.sh touches no pause of somebody else, however it ends.
THEOREM LabLeavesOthersAlone == LabSpec => []OthersPauseStays
  <1>1. LabInv => OthersPauseStays
    BY DEF LabInv, OthersAreLeftAlone, OthersPauseStays, Replica
  <1>2. QED
    BY <1>1, LabInvariant, PTL

\* The assertions of test.sh do not depend on timing.
THEOREM LabRaisesNoFalseAlarm == LabSpec => []NoFalseAlarm
  <1>1. LabInv => NoFalseAlarm
    BY DEF LabInv, ScriptSoFar, LeftBehind, NoFalseAlarm
  <1>2. QED
    BY <1>1, LabInvariant, PTL

\* A pass of test.sh leaves both replicas replaying and caught up.
THEOREM LabPassMeansRecovered == LabSpec => []PassMeansRecovered
  <1>1. LabInv => PassMeansRecovered
    BY DEF LabInv, LeftBehind, Recovered, PassMeansRecovered
  <1>2. QED
    BY <1>1, LabInvariant, PTL
-----------------------------------------------------------------------------
(* How long the script can take.                                           *)

\* The steps the script can still take, the way out through the trap and the
\* clean-up included.
StepsLeft ==
    IF mode = "script" THEN 31 - pc
    ELSE IF mode = "trap" THEN 4
    ELSE IF mode = "cleanup" THEN 4 - pc
    ELSE 0

LEMMA StepsAreCounted == LabInv => StepsLeft \in 0..30 /\ (StepsLeft = 0 <=> mode = "ended")
  BY DEF LabInv, LabTypes, StepsLeft

\* The safety half of TestEnds: no step of test.sh leads back.  Whatever
\* fails, times out or interrupts it, each step it takes, in the script or in
\* its clean-up, leaves fewer to take, so that it ends after at most 30; and
\* what the servers and other users do adds none.
THEOREM LabNeverGoesBack ==
  LabSpec => /\ [](StepsLeft \in 0..30 /\ (StepsLeft = 0 <=> mode = "ended"))
             /\ [][StepsLeft' < StepsLeft \/ UNCHANGED scriptVars]_labVars
  <1>1. LabInv /\ [LabNext]_labVars => [StepsLeft' < StepsLeft \/ UNCHANGED scriptVars]_labVars
    <2> SUFFICES ASSUME LabInv, LabNext PROVE StepsLeft' < StepsLeft \/ UNCHANGED scriptVars
      OBVIOUS
    <2>1. /\ mode \in {"script", "trap", "cleanup", "ended"} /\ pc \in Nat /\ pc <= 26
          /\ mode = "cleanup" => pc <= 3
      BY DEF LabInv, LabTypes
    <2>2. ASSUME mode = "script", mode' = "trap" PROVE StepsLeft' < StepsLeft
      BY <2>1, <2>2 DEF StepsLeft
    <2>3. ASSUME mode # "ended", mode' = "ended" PROVE StepsLeft' < StepsLeft
      BY <2>1, <2>3 DEF StepsLeft
    <2>4. ASSUME mode \in {"script", "cleanup"}, mode' = mode, pc' = pc + 1
          PROVE  StepsLeft' < StepsLeft
      BY <2>1, <2>4 DEF StepsLeft
    <2>5. ASSUME Running, Proceed PROVE StepsLeft' < StepsLeft
      BY <2>4, <2>5 DEF Running, Proceed
    <2>6. ASSUME NEW reason, Running, Fail(reason) PROVE StepsLeft' < StepsLeft
      BY <2>2, <2>3, <2>6 DEF Running, Fail, Leave, Warn
    <2>7. CASE ScriptRuns
      <3>1. CASE Pass
        BY <2>2, <3>1 DEF Pass, Leave
      <3>2. CASE EnterCleanup
        BY <3>2 DEF EnterCleanup, StepsLeft
      <3>3. CASE Cleaned
        BY <2>3, <3>3 DEF Cleaned
      <3>4. CASE Insert \/ TakePosition \/ Matches \/ Own \/ Send
        BY <2>5, <3>4 DEF Insert, TakePosition, Matches, Own, Send, At
      <3>5. CASE Mismatches
        BY <2>6, <3>5 DEF Mismatches, At
      <3> QED BY <2>7, <3>1, <3>2, <3>3, <3>4, <3>5 DEF ScriptRuns
    <2>8. CASE QueryFails
      BY <2>6, <2>8 DEF QueryFails
    <2>9. CASE Signal
      BY <2>2, <2>9 DEF Signal, Leave
    <2>10. CASE SecondSignal \/ Killed
      BY <2>3, <2>10 DEF SecondSignal, Killed
    <2>11. CASE Servers
      BY <2>11 DEF Servers
    <2> QED BY <2>7, <2>8, <2>9, <2>10, <2>11 DEF LabNext
  <1> QED BY <1>1, StepsAreCounted, LabInvariant, PTL DEF LabSpec
=============================================================================
