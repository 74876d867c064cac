---------------------------- MODULE NodesProofs ----------------------------
(***************************************************************************)
(* The environment for any number of runners, replicas and stops: whatever *)
(* is stopped, killed or fails at whatever step, the board is created once *)
(* and a node serves only when it is whole.                                *)
(***************************************************************************)
EXTENDS Nodes, TLAPS

-----------------------------------------------------------------------------
(* The runners of migrate.sql.                                             *)

Catalog == [ledger : BOOLEAN, applied : BOOLEAN, board : {"none", "ours", "foreign"}]
Created == {"ledger", "board", "applied"}

MigrationTypes ==
    /\ catalog \in Catalog
    /\ step \in [Runner -> Ends \cup Connected]
    /\ own \in [Runner -> SUBSET Created]
    /\ problem \in [Runner -> {"none", "exists", "timeout", "error"}]

\* The advisory lock.
LockExclusive ==
    \A r, s \in Runner : step[r] \in InLock /\ step[s] \in InLock => r = s

\* What an open transaction has found and made at each of its statements.
Progress(r) ==
    /\ step[r] \notin InLock => own[r] = {}
    /\ step[r] = "ledger" => own[r] = {}
    /\ step[r] \in InLock \ {"ledger"} => catalog.ledger \/ "ledger" \in own[r]
    /\ step[r] = "look up" => own[r] \subseteq {"ledger"}
    /\ step[r] = "board" => own[r] \subseteq {"ledger"} /\ ~catalog.applied
    /\ step[r] = "record" => "board" \in own[r] /\ "applied" \notin own[r]
                             /\ ~catalog.applied /\ catalog.board = "none"
    /\ step[r] = "commit" =>
        /\ "board" \in own[r] <=> "applied" \in own[r]
        /\ "applied" \in own[r] => catalog.board = "none"
        /\ "applied" \notin own[r] => catalog.applied

MigrationInv ==
    /\ MigrationTypes
    /\ LockExclusive
    /\ \A r \in Runner : Progress(r)
    /\ MigratedOnce

-----------------------------------------------------------------------------
(* The nodes on their volumes.                                             *)

NodeTypes ==
    /\ vol \in [Node -> SUBSET File]
    /\ proc \in [Node -> Initialising \cup {"down", "serving", "refused", "backup"}]
    /\ proc["primary"] # "backup"
    /\ \A n \in Replica : proc[n] \in {"down", "backup", "mark", "serving", "refused"}
    /\ lab \in BOOLEAN
    /\ slots \subseteq Replica
    /\ origin \in {"new", "old", "standby", "stray"}

\* A session ends with the server it talks to.
SessionsOfServer ==
    \A r \in Runner : step[r] \in Connected =>
        proc["primary"] = (IF r = InitRunner THEN "board" ELSE "serving")

Initialised == ClusterFiles \cup {"primary-ready"}

PrimaryInv ==
    \* a volume that is somebody else's is left as it is
    /\ origin \in {"standby", "stray"} => proc["primary"] \in {"down", "refused"}
    /\ origin = "standby" => "standby.signal" \in vol["primary"] /\ "PG_VERSION" \in vol["primary"]
    /\ origin = "stray" => vol["primary"] = {"rest"}
    \* a database that was there is complete
    /\ origin = "old" =>
        /\ proc["primary"] \in {"down", "serving"}
        /\ Initialised \subseteq vol["primary"] /\ lab /\ slots = Replica
    /\ origin \in {"new", "old"} => "standby.signal" \notin vol["primary"]
    \* the scripts build on one another
    /\ proc["primary"] \in Initialising => origin = "new" /\ "primary-ready" \notin vol["primary"]
    /\ proc["primary"] \in Initialising \ {"initdb"} => ClusterFiles \subseteq vol["primary"]
    /\ proc["primary"] \in {"slots", "board", "mark"} => lab
    /\ proc["primary"] \in {"board", "mark"} => slots = Replica
    /\ proc["primary"] = "mark" => catalog.applied
    \* the marker comes last
    /\ origin = "new" /\ "primary-ready" \in vol["primary"] =>
        Initialised \subseteq vol["primary"] /\ lab /\ slots = Replica /\ catalog.applied
    /\ proc["primary"] = "serving" => "primary-ready" \in vol["primary"]
    \* without an interruption there is nothing or everything
    /\ origin = "new" /\ "primary" \notin interrupted =>
        \/ proc["primary"] \in Initialising
        \/ proc["primary"] = "down" /\ vol["primary"] = {}
        \/ proc["primary"] \in {"down", "serving"} /\ "primary-ready" \in vol["primary"]

ReplicaInv(n) ==
    /\ proc[n] = "backup" => "replica-ready" \notin vol[n]
    /\ proc[n] = "mark" => BackupFiles \subseteq vol[n]
    /\ "replica-ready" \in vol[n] => BackupFiles \subseteq vol[n]
    /\ proc[n] = "serving" => "replica-ready" \in vol[n]
    /\ n \notin interrupted =>
        \/ proc[n] \in {"backup", "mark"}
        \/ proc[n] = "down" /\ vol[n] = {}
        \/ proc[n] \in {"down", "serving"} /\ "replica-ready" \in vol[n]

NodesInv ==
    /\ NodeTypes
    /\ SessionsOfServer
    /\ PrimaryInv
    /\ \A n \in Replica : ReplicaInv(n)

EnvironmentInv == MigrationInv /\ NodesInv

-----------------------------------------------------------------------------
(* Runners preserve their invariant.                                       *)

LEMMA MigrationInitially == MigrationInit => MigrationInv
  <1> SUFFICES ASSUME MigrationInit PROVE MigrationInv
    OBVIOUS
  <1>1. catalog \in Catalog /\ ~catalog.ledger /\ ~catalog.applied /\ catalog.board # "ours"
    <2>1. catalog = Blank \/ catalog = Foreign
      BY DEF MigrationInit
    <2>2. CASE catalog = Blank
      BY <2>2 DEF Blank, Catalog
    <2>3. CASE catalog = Foreign
      BY <2>3 DEF Foreign, Catalog
    <2>4. QED
      BY <2>1, <2>2, <2>3
  <1>2. \A r \in Runner : step[r] = "idle" /\ own[r] = {} /\ problem[r] = "none"
    BY DEF MigrationInit
  <1>3. MigrationTypes
    BY <1>1 DEF MigrationInit, MigrationTypes, Created, Ends
  <1>4. LockExclusive /\ \A r \in Runner : Progress(r)
    BY <1>2 DEF LockExclusive, Progress, InLock
  <1>5. MigratedOnce
    BY <1>1, <1>2 DEF MigratedOnce
  <1>6. QED
    BY <1>3, <1>4, <1>5 DEF MigrationInv

\* A statement that leaves the catalog alone and moves r alone.
LEMMA OneRunnerMoves ==
  ASSUME NEW r \in Runner, MigrationInv, UNCHANGED catalog,
         NEW next \in Ends \cup Connected, step' = [step EXCEPT ![r] = next],
         NEW made \in SUBSET Created, own' = [own EXCEPT ![r] = made],
         NEW reason \in {"none", "exists", "timeout", "error"},
         problem' = [problem EXCEPT ![r] = reason],
         step[r] \in InLock \/ next \notin InLock \/ LockFree(r),
         Progress(r)',
         next = "done" => catalog.applied,
         reason = "exists" => catalog.board = "foreign"
  PROVE  MigrationInv'
  <1>1. MigrationTypes'
    BY DEF MigrationInv, MigrationTypes
  <1>2. \A s \in Runner \ {r} : step'[s] = step[s] /\ own'[s] = own[s] /\ problem'[s] = problem[s]
    BY DEF MigrationInv, MigrationTypes
  <1>3. step'[r] = next /\ problem'[r] = reason
    BY DEF MigrationInv, MigrationTypes
  <1>4. LockExclusive'
    BY <1>2, <1>3 DEF MigrationInv, LockExclusive, LockFree
  <1>5. ASSUME NEW s \in Runner PROVE Progress(s)'
    BY <1>2, <1>5 DEF MigrationInv, Progress
  <1>6. MigratedOnce'
    BY <1>2, <1>3 DEF MigrationInv, MigratedOnce
  <1>7. QED
    BY <1>1, <1>4, <1>5, <1>6 DEF MigrationInv

\* A COMMIT that gets through, whether its runner learns of it or not.
LEMMA CommitTakesEffect ==
  ASSUME NEW r \in Runner, MigrationInv, step[r] = "commit", catalog' = CommitOf(r),
         NEW end \in {"done", "failed"}, step' = [step EXCEPT ![r] = end],
         own' = [own EXCEPT ![r] = {}],
         NEW reason \in {problem[r], "error"}, problem' = [problem EXCEPT ![r] = reason]
  PROVE  MigrationInv'
  <1>1. catalog' \in Catalog
    BY DEF MigrationInv, MigrationTypes, Catalog, CommitOf
  <1>2. MigrationTypes'
    BY <1>1 DEF MigrationInv, MigrationTypes, Ends, Created
  <1>3. \A s \in Runner \ {r} : step'[s] = step[s] /\ own'[s] = own[s] /\ problem'[s] = problem[s]
    BY DEF MigrationInv, MigrationTypes
  <1>4. step'[r] = end /\ own'[r] = {} /\ problem'[r] = reason
    BY DEF MigrationInv, MigrationTypes
  <1>5. \A s \in Runner \ {r} : step[s] \notin InLock
    BY DEF MigrationInv, LockExclusive, InLock
  <1>6. LockExclusive'
    BY <1>3, <1>4, <1>5 DEF LockExclusive, InLock
  <1>7. ASSUME NEW s \in Runner PROVE Progress(s)'
    <2>1. step'[s] \notin InLock
      BY <1>3, <1>4, <1>5 DEF InLock
    <2>2. own'[s] = {}
      BY <1>3, <1>4, <1>5 DEF MigrationInv, Progress
    <2>3. QED
      BY <2>1, <2>2 DEF Progress, InLock
  <1>8. Progress(r)
    BY DEF MigrationInv
  <1>9. catalog'.applied /\ catalog'.ledger /\ catalog'.board = "ours"
    BY <1>8 DEF MigrationInv, MigrationTypes, MigratedOnce, Progress, CommitOf, InLock, Catalog
  <1>10. \A s \in Runner : problem'[s] = "exists" => problem[s] = "exists"
    BY <1>3, <1>4
  <1>11. \A s \in Runner : problem[s] # "exists"
    <2>1. catalog.board # "foreign"
      BY <1>8 DEF MigrationInv, MigratedOnce, Progress
    <2>2. QED
      BY <2>1 DEF MigrationInv, MigratedOnce
  <1>12. MigratedOnce'
    BY <1>9, <1>10, <1>11 DEF MigratedOnce
  <1>13. QED
    BY <1>2, <1>6, <1>7, <1>12 DEF MigrationInv

\* The transaction of r is rolled back.
LEMMA RollbackIsClean ==
  ASSUME NEW r \in Runner, MigrationInv, UNCHANGED catalog,
         NEW reason \in {"exists", "timeout", "error"}, Fail(r, reason),
         reason = "exists" => catalog.board = "foreign"
  PROVE  MigrationInv'
  <1>1. step' = [step EXCEPT ![r] = "failed"] /\ own' = [own EXCEPT ![r] = {}]
        /\ problem' = [problem EXCEPT ![r] = reason]
    BY DEF Fail
  <1>2. step'[r] = "failed" /\ own'[r] = {}
    BY <1>1 DEF MigrationInv, MigrationTypes
  <1>3. Progress(r)'
    BY <1>2 DEF Progress, InLock
  <1>4. "failed" \in Ends \cup Connected /\ "failed" \notin InLock /\ {} \in SUBSET Created
    BY DEF Ends, InLock
  <1>5. QED
    BY <1>1, <1>3, <1>4, OneRunnerMoves

\* The next statement of r, after which its transaction has made something.
LEMMA NextStatement ==
  ASSUME NEW r \in Runner, MigrationInv, NEW next, Go(r, next),
         NEW made \in SUBSET Created, own' = [own EXCEPT ![r] = made],
         next \in Connected,
         step[r] \in InLock \/ next \notin InLock \/ LockFree(r),
         (step'[r] = next /\ own'[r] = made /\ catalog' = catalog) => Progress(r)'
  PROVE  MigrationInv'
  <1>1. step' = [step EXCEPT ![r] = next] /\ UNCHANGED catalog
    BY DEF Go
  <1>2. problem' = [problem EXCEPT ![r] = problem[r]]
    BY DEF Go, MigrationInv, MigrationTypes
  <1>3. problem[r] \in {"none", "exists", "timeout", "error"}
    BY DEF MigrationInv, MigrationTypes
  <1>4. problem[r] = "exists" => catalog.board = "foreign"
    BY DEF MigrationInv, MigratedOnce
  <1>5. step'[r] = next /\ own'[r] = made
    BY <1>1 DEF MigrationInv, MigrationTypes
  <1>6. next # "done" /\ next \in Ends \cup Connected
    BY DEF Connected, InLock
  <1>7. QED
    BY <1>1, <1>2, <1>3, <1>4, <1>5, <1>6, OneRunnerMoves

LEMMA BeginPreserves ==
  ASSUME NEW r \in Runner, MigrationInv, Begin(r)
  PROVE  MigrationInv'
  <1>1. own[r] = {} /\ own' = [own EXCEPT ![r] = {}]
    BY DEF MigrationInv, MigrationTypes, Progress, Begin, InLock
  <1>2. (step'[r] = "lock" /\ own'[r] = {}) => Progress(r)'
    BY DEF Progress, InLock
  <1>3. "lock" \in Connected /\ "lock" \notin InLock /\ {} \in SUBSET Created
    BY DEF Connected, InLock
  <1>4. QED
    BY <1>1, <1>2, <1>3, NextStatement DEF Begin

LEMMA LockPreserves ==
  ASSUME NEW r \in Runner, MigrationInv, Lock(r)
  PROVE  MigrationInv'
  <1>1. own[r] = {} /\ own' = [own EXCEPT ![r] = {}]
    BY DEF MigrationInv, MigrationTypes, Progress, Lock, InLock
  <1>2. (step'[r] = "ledger" /\ own'[r] = {}) => Progress(r)'
    BY DEF Progress, InLock
  <1>3. "ledger" \in Connected /\ {} \in SUBSET Created
    BY DEF Connected, InLock
  <1>4. QED
    BY <1>1, <1>2, <1>3, NextStatement DEF Lock

\* Nobody else has an open transaction that has created anything.
LEMMA NothingContended ==
  ASSUME NEW r \in Runner, MigrationInv, step[r] \in InLock, NEW what
  PROVE  ~Contended(r, what)
  BY DEF MigrationInv, LockExclusive, Progress, Contended

LEMMA CreateLedgerPreserves ==
  ASSUME NEW r \in Runner, MigrationInv, CreateLedger(r)
  PROVE  MigrationInv'
  <1>1. step[r] = "ledger" /\ step[r] \in InLock /\ own[r] = {}
    BY DEF MigrationInv, Progress, CreateLedger, InLock
  <1>2. ~Contended(r, "ledger")
    BY <1>1, NothingContended
  <1> DEFINE made == IF catalog.ledger THEN {} ELSE {"ledger"}
  <1>3. Go(r, "look up") /\ own' = [own EXCEPT ![r] = made]
    BY <1>1, <1>2 DEF CreateLedger, MigrationInv, MigrationTypes
  <1>4. made \in SUBSET Created /\ "look up" \in Connected
    BY DEF Created, Connected, InLock
  <1>5. (step'[r] = "look up" /\ own'[r] = made /\ catalog' = catalog) => Progress(r)'
    BY DEF Progress, InLock
  <1> HIDE DEF made
  <1>6. QED
    BY <1>1, <1>3, <1>4, <1>5, NextStatement

LEMMA LookUpPreserves ==
  ASSUME NEW r \in Runner, MigrationInv, LookUp(r)
  PROVE  MigrationInv'
  <1>1. step[r] = "look up" /\ step[r] \in InLock /\ Progress(r)
    BY DEF MigrationInv, LookUp, InLock
  <1>2. own[r] \in SUBSET Created /\ own' = [own EXCEPT ![r] = own[r]]
    BY DEF MigrationInv, MigrationTypes, LookUp
  <1>3. CASE catalog.applied
    <2>1. Go(r, "commit") /\ "commit" \in Connected
      BY <1>3 DEF LookUp, Connected, InLock
    <2>2. (step'[r] = "commit" /\ own'[r] = own[r] /\ catalog' = catalog) => Progress(r)'
      <3>1. "board" \notin own[r] /\ "applied" \notin own[r] /\ (catalog.ledger \/ "ledger" \in own[r])
        BY <1>1 DEF Progress, InLock
      <3>2. QED
        BY <1>3, <3>1 DEF Progress, InLock
    <2>3. QED
      BY <1>1, <1>2, <2>1, <2>2, NextStatement
  <1>4. CASE ~catalog.applied
    <2>1. Go(r, "board") /\ "board" \in Connected
      BY <1>4 DEF LookUp, Connected, InLock
    <2>2. (step'[r] = "board" /\ own'[r] = own[r] /\ catalog' = catalog) => Progress(r)'
      BY <1>1, <1>4 DEF Progress, InLock
    <2>3. QED
      BY <1>1, <1>2, <2>1, <2>2, NextStatement
  <1>5. QED
    BY <1>3, <1>4

LEMMA CreateBoardPreserves ==
  ASSUME NEW r \in Runner, MigrationInv, CreateBoard(r)
  PROVE  MigrationInv'
  <1>1. step[r] = "board" /\ step[r] \in InLock /\ Progress(r)
    BY DEF MigrationInv, CreateBoard, InLock
  <1>2. ~Contended(r, "board")
    BY <1>1, NothingContended
  <1>3. CASE catalog.board = "none"
    <2> DEFINE made == own[r] \cup {"board"}
    <2>1. Go(r, "record") /\ own' = [own EXCEPT ![r] = made]
      BY <1>2, <1>3 DEF CreateBoard, MigrationInv, MigrationTypes
    <2>2. made \in SUBSET Created /\ "record" \in Connected
      BY DEF Created, Connected, InLock, MigrationInv, MigrationTypes
    <2>3. (step'[r] = "record" /\ own'[r] = made /\ catalog' = catalog) => Progress(r)'
      BY <1>1, <1>3 DEF Progress, InLock
    <2> HIDE DEF made
    <2>4. QED
      BY <1>1, <2>1, <2>2, <2>3, NextStatement
  <1>4. CASE catalog.board # "none"
    <2>1. Fail(r, "exists") /\ UNCHANGED catalog
      BY <1>4 DEF CreateBoard
    <2>2. catalog.board = "foreign"
      <3>1. catalog.board # "ours"
        BY <1>1 DEF Progress, MigrationInv, MigratedOnce
      <3>2. catalog.board \in {"none", "ours", "foreign"}
        BY DEF MigrationInv, MigrationTypes, Catalog
      <3>3. QED
        BY <1>4, <3>1, <3>2
    <2>3. QED
      BY <2>1, <2>2, RollbackIsClean
  <1>5. QED
    BY <1>3, <1>4

LEMMA RecordVersionPreserves ==
  ASSUME NEW r \in Runner, MigrationInv, RecordVersion(r)
  PROVE  MigrationInv'
  <1>1. step[r] = "record" /\ step[r] \in InLock /\ Progress(r)
    BY DEF MigrationInv, RecordVersion, InLock
  <1> DEFINE made == own[r] \cup {"applied"}
  <1>2. Go(r, "commit") /\ own' = [own EXCEPT ![r] = made]
    BY DEF RecordVersion, MigrationInv, MigrationTypes
  <1>3. made \in SUBSET Created /\ "commit" \in Connected
    BY DEF Created, Connected, InLock, MigrationInv, MigrationTypes
  <1>4. (step'[r] = "commit" /\ own'[r] = made /\ catalog' = catalog) => Progress(r)'
    BY <1>1 DEF Progress, InLock
  <1> HIDE DEF made
  <1>5. QED
    BY <1>1, <1>2, <1>3, <1>4, NextStatement

LEMMA RunnerStepPreserves ==
  ASSUME NEW r \in Runner, MigrationInv, RunnerStep(r)
  PROVE  MigrationInv'
  <1>1. CASE Lock(r)
    BY <1>1, LockPreserves
  <1>2. CASE LockTimeout(r)
    BY <1>2, RollbackIsClean DEF LockTimeout
  <1>3. CASE CreateLedger(r)
    BY <1>3, CreateLedgerPreserves
  <1>4. CASE LookUp(r)
    BY <1>4, LookUpPreserves
  <1>5. CASE CreateBoard(r)
    BY <1>5, CreateBoardPreserves
  <1>6. CASE RecordVersion(r)
    BY <1>6, RecordVersionPreserves
  <1>7. CASE CommitAll(r)
    <2>1. problem' = [problem EXCEPT ![r] = problem[r]]
      BY <1>7 DEF CommitAll, MigrationInv, MigrationTypes
    <2>2. QED
      BY <1>7, <2>1, CommitTakesEffect DEF CommitAll
  <1>8. QED
    BY <1>1, <1>2, <1>3, <1>4, <1>5, <1>6, <1>7 DEF RunnerStep

LEMMA RunnerFailsPreserves ==
  ASSUME NEW r \in Runner, MigrationInv, RunnerFails(r)
  PROVE  MigrationInv'
  <1>1. CASE UNCHANGED catalog
    BY <1>1, RollbackIsClean DEF RunnerFails
  <1>2. CASE step[r] = "commit" /\ catalog' = CommitOf(r)
    BY <1>2, CommitTakesEffect DEF RunnerFails, Fail
  <1>3. QED
    BY <1>1, <1>2 DEF RunnerFails

LEMMA AbortPreserves ==
  ASSUME MigrationInv, AbortRunners
  PROVE  MigrationInv'
  <1>1. \A r \in Runner : step'[r] \in Ends /\ own'[r] = {}
    BY DEF AbortRunners, MigrationInv, MigrationTypes, Ends
  <1>2. MigrationTypes'
    BY DEF AbortRunners, MigrationInv, MigrationTypes, Ends, Created
  <1>3. LockExclusive' /\ \A r \in Runner : Progress(r)'
    BY <1>1 DEF LockExclusive, Progress, Ends, InLock
  <1>4. \A r \in Runner : /\ step'[r] = "done" => step[r] = "done"
                         /\ problem'[r] = "exists" => problem[r] = "exists"
    BY DEF AbortRunners
  <1>5. MigratedOnce'
    BY <1>4 DEF AbortRunners, MigrationInv, MigratedOnce
  <1>6. QED
    BY <1>2, <1>3, <1>5 DEF MigrationInv

LEMMA MigrationStutters ==
  ASSUME MigrationInv, UNCHANGED migrationVars
  PROVE  MigrationInv'
  BY DEF migrationVars, MigrationInv, MigrationTypes, LockExclusive, Progress, MigratedOnce

\* What is applied stays, and only Begin opens a session.
LEMMA RunnersMoveOn ==
  ASSUME NEW r \in Runner, MigrationInv, RunnerStep(r) \/ RunnerFails(r)
  PROVE  /\ catalog.applied => catalog'.applied
         /\ step[r] \in Connected
         /\ \A s \in Runner : step'[s] \in Connected => step[s] \in Connected
  <1>1. CASE UNCHANGED catalog
    <2>1. step[r] \in Connected
      BY DEF RunnerStep, RunnerFails, Lock, LockTimeout, CreateLedger, LookUp, CreateBoard,
             RecordVersion, CommitAll, Connected, InLock
    <2>2. \A s \in Runner \ {r} : step'[s] = step[s]
      BY DEF RunnerStep, RunnerFails, Lock, LockTimeout, CreateLedger, LookUp, CreateBoard,
             RecordVersion, CommitAll, Go, Fail, MigrationInv, MigrationTypes
    <2>3. QED
      BY <1>1, <2>1, <2>2
  <1>2. CASE step[r] = "commit" /\ catalog' = CommitOf(r)
    <2>1. catalog.applied => catalog'.applied
      BY <1>2 DEF CommitOf
    <2>2. step[r] \in Connected
      BY <1>2 DEF Connected, InLock
    <2>3. \A s \in Runner \ {r} : step'[s] = step[s]
      BY <1>2 DEF RunnerStep, RunnerFails, Lock, LockTimeout, CreateLedger, LookUp, CreateBoard,
             RecordVersion, CommitAll, Fail, MigrationInv, MigrationTypes
    <2>4. QED
      BY <2>1, <2>2, <2>3
  <1>3. QED
    BY <1>1, <1>2 DEF RunnerStep, RunnerFails, Lock, LockTimeout, CreateLedger, LookUp,
       CreateBoard, RecordVersion, CommitAll, Go

-----------------------------------------------------------------------------
(* Nodes preserve theirs.                                                  *)

LEMMA NodesInitially == NodesInit => EnvironmentInv
  <1> SUFFICES ASSUME NodesInit PROVE EnvironmentInv
    OBVIOUS
  <1>1. MigrationInv
    BY MigrationInitially DEF NodesInit
  <1>2. NodeTypes
    BY NodesAssumption DEF NodesInit, NodeTypes, Node, File, ClusterFiles, BackupFiles
  <1>3. SessionsOfServer
    BY DEF NodesInit, MigrationInit, SessionsOfServer, Connected, InLock
  <1>4. \A n \in Node : proc[n] = "down" /\ n \notin interrupted
    BY DEF NodesInit
  <1>5. \A n \in Replica : vol[n] = {}
    BY NodesAssumption DEF NodesInit, Node
  <1>6. \A n \in Replica : ReplicaInv(n)
    BY <1>4, <1>5 DEF ReplicaInv, Node
  <1>7. PrimaryInv
    <2>1. vol["primary"] = IF origin = "new" THEN {}
                           ELSE IF origin = "old" THEN Initialised
                           ELSE IF origin = "standby" THEN BackupFiles \cup {"replica-ready"}
                           ELSE {"rest"}
      BY DEF NodesInit, Node, Initialised
    <2>2. lab = (origin \in {"old", "standby"}) /\ slots = (IF lab THEN Replica ELSE {})
      BY DEF NodesInit
    <2>3. proc["primary"] = "down"
      BY <1>4 DEF Node
    <2>4. proc["primary"] \notin Initialising \cup {"serving"}
      BY <2>3 DEF Initialising
    <2>5. CASE origin = "new"
      BY <2>1, <2>3, <2>4, <2>5 DEF PrimaryInv, Initialising
    <2>6. CASE origin = "old"
      <3>1. vol["primary"] = Initialised /\ lab /\ slots = Replica
        BY <2>1, <2>2, <2>6
      <3>2. QED
        BY <2>3, <2>4, <2>6, <3>1 DEF PrimaryInv, Initialising, Initialised, ClusterFiles
    <2>7. CASE origin = "standby"
      BY <2>1, <2>3, <2>4, <2>7 DEF PrimaryInv, Initialising, BackupFiles, ClusterFiles
    <2>8. CASE origin = "stray"
      BY <2>1, <2>3, <2>4, <2>8 DEF PrimaryInv, Initialising
    <2>9. QED
      BY <1>2, <2>5, <2>6, <2>7, <2>8 DEF NodeTypes
  <1>8. QED
    BY <1>1, <1>2, <1>3, <1>6, <1>7 DEF EnvironmentInv, NodesInv

\* Only the primary and its database move.
LEMMA PrimaryMoves ==
  ASSUME NodesInv, NEW what \in Initialising \cup {"down", "serving", "refused"},
         proc' = [proc EXCEPT !["primary"] = what],
         NEW files \in SUBSET File, vol' = [vol EXCEPT !["primary"] = files],
         \A n \in Replica : n \in interrupted' <=> n \in interrupted,
         lab' \in BOOLEAN, slots' \subseteq Replica, UNCHANGED origin,
         SessionsOfServer',
         (proc'["primary"] = what /\ vol'["primary"] = files) => PrimaryInv'
  PROVE  NodesInv'
  <1>1. proc'["primary"] = what /\ vol'["primary"] = files
    BY DEF NodesInv, NodeTypes, Node
  <1>2. \A n \in Replica : proc'[n] = proc[n] /\ vol'[n] = vol[n]
    BY NodesAssumption DEF NodesInv, NodeTypes, Node
  <1>3. NodeTypes'
    BY <1>1, <1>2 DEF NodesInv, NodeTypes, Node, Initialising
  <1>4. \A n \in Replica : ReplicaInv(n)'
    BY <1>2 DEF NodesInv, ReplicaInv
  <1>5. QED
    BY <1>1, <1>3, <1>4 DEF NodesInv

\* Only a replica moves.
LEMMA ReplicaMoves ==
  ASSUME NodesInv, NEW n \in Replica,
         NEW what \in {"down", "backup", "mark", "serving", "refused"},
         proc' = [proc EXCEPT ![n] = what],
         NEW files \in SUBSET File, vol' = [vol EXCEPT ![n] = files],
         \A k \in Node \ {n} : k \in interrupted' <=> k \in interrupted,
         UNCHANGED <<migrationVars, lab, slots, origin>>,
         (proc'[n] = what /\ vol'[n] = files) => ReplicaInv(n)'
  PROVE  NodesInv'
  <1>1. proc'[n] = what /\ vol'[n] = files
    BY DEF NodesInv, NodeTypes, Node
  <1>2. \A k \in Node \ {n} : proc'[k] = proc[k] /\ vol'[k] = vol[k]
    BY DEF NodesInv, NodeTypes, Node
  <1>3. "primary" \in Node \ {n} /\ n \in Node
    BY NodesAssumption DEF Node
  <1>4. NodeTypes'
    BY <1>1, <1>2, <1>3 DEF NodesInv, NodeTypes, Node, Initialising
  <1>5. \A k \in Replica : ReplicaInv(k)'
    BY <1>1, <1>2 DEF NodesInv, ReplicaInv, Node
  <1>6. UNCHANGED <<proc["primary"], vol["primary"], catalog, step>>
        /\ ("primary" \in interrupted' <=> "primary" \in interrupted)
    BY <1>2, <1>3 DEF migrationVars
  <1>7. SessionsOfServer'
    BY <1>6 DEF NodesInv, SessionsOfServer
  <1>8. PrimaryInv'
    BY <1>6 DEF NodesInv, PrimaryInv
  <1>9. QED
    BY <1>4, <1>5, <1>7, <1>8 DEF NodesInv

\* Only runners move.
LEMMA RunnersMove ==
  ASSUME NodesInv, UNCHANGED nodeVars, catalog.applied => catalog'.applied, SessionsOfServer'
  PROVE  NodesInv'
  BY DEF NodesInv, nodeVars, NodeTypes, PrimaryInv, ReplicaInv

LEMMA ScriptOrder ==
  ASSUME NextScript
  PROVE  /\ proc["primary"] = "initdb" => Become("primary", "lab")
         /\ proc["primary"] = "lab" => Become("primary", "slots")
         /\ proc["primary"] = "slots" => Become("primary", "board")
         /\ proc["primary"] = "board" => Become("primary", "mark")
         /\ proc["primary"] = "mark" => Become("primary", "serving")
  BY DEF NextScript, InitScripts

\* What is needed of the primary while it runs its scripts.
LEMMA WhileInitialising ==
  ASSUME NodesInv, proc["primary"] \in Initialising
  PROVE  /\ origin = "new" /\ "primary-ready" \notin vol["primary"]
         /\ "standby.signal" \notin vol["primary"]
         /\ vol["primary"] \in SUBSET File
         /\ vol = [vol EXCEPT !["primary"] = vol["primary"]]
         /\ proc = [proc EXCEPT !["primary"] = proc["primary"]]
  BY DEF NodesInv, NodeTypes, PrimaryInv, Node

\* Between its first and its last script the primary's volume is a cluster
\* without its marker.
LEMMA ScriptDone ==
  ASSUME NodesInv, NEW what \in Initialising \ {"initdb"}, Become("primary", what),
         proc["primary"] \in Initialising, ClusterFiles \subseteq vol["primary"],
         UNCHANGED <<vol, interrupted, origin>>,
         lab' \in BOOLEAN, slots' \subseteq Replica, SessionsOfServer',
         what \in {"slots", "board", "mark"} => lab',
         what \in {"board", "mark"} => slots' = Replica,
         what = "mark" => catalog'.applied
  PROVE  NodesInv'
  <1>1. proc'["primary"] = what => PrimaryInv'
    BY WhileInitialising DEF PrimaryInv, Initialising
  <1>2. QED
    BY <1>1, WhileInitialising, PrimaryMoves DEF Become

LEMMA StartPrimaryPreserves ==
  ASSUME NodesInv, StartPrimary
  PROVE  NodesInv'
  <1> DEFINE files == vol["primary"]
             what == PrimaryVerdict(files)
  <1>1. proc["primary"] = "down" /\ files \in SUBSET File
        /\ vol' = [vol EXCEPT !["primary"] = files]
        /\ proc' = [proc EXCEPT !["primary"] = what]
    BY DEF StartPrimary, Become, NodesInv, NodeTypes, Node
  <1>2. what \in {"initdb", "serving", "refused"}
    BY DEF PrimaryVerdict
  <1>3. UNCHANGED <<catalog, step, lab, slots, origin, interrupted>>
    BY DEF StartPrimary, migrationVars
  <1>4. SessionsOfServer'
    BY <1>1, <1>3 DEF NodesInv, SessionsOfServer
  <1>5. ASSUME proc'["primary"] = what, vol'["primary"] = files PROVE PrimaryInv'
    <2>1. CASE what = "serving"
      <3>1. "primary-ready" \in files /\ "standby.signal" \notin files /\ files # {"rest"}
        BY <2>1 DEF PrimaryVerdict
      <3>2. QED
        BY <1>1, <1>3, <1>5, <2>1, <3>1 DEF NodesInv, PrimaryInv, Initialising
    <2>2. CASE what = "refused"
      <3>1. /\ files # {}
            /\ \/ "primary-ready" \notin files
               \/ "standby.signal" \in files
               \/ ~(ClusterFiles \subseteq files)
        BY <2>2 DEF PrimaryVerdict, ClusterFiles
      <3>2. "primary-ready" \in files /\ origin \in {"new", "old"} => Initialised \subseteq files
        BY DEF NodesInv, PrimaryInv
      <3>3. origin = "old" => FALSE
        BY <3>1, <3>2 DEF NodesInv, PrimaryInv, Initialised
      <3>4. origin = "new" => "primary" \in interrupted
        <4>1. SUFFICES ASSUME origin = "new", "primary" \notin interrupted PROVE FALSE
          OBVIOUS
        <4>2. files = {} \/ "primary-ready" \in files
          BY <1>1, <4>1 DEF NodesInv, PrimaryInv, Initialising
        <4>3. "standby.signal" \notin files
          BY <4>1 DEF NodesInv, PrimaryInv
        <4>4. "primary-ready" \in files
          BY <3>1, <4>2
        <4>5. ClusterFiles \subseteq files
          BY <3>2, <4>1, <4>4 DEF Initialised
        <4>6. QED
          BY <3>1, <4>3, <4>4, <4>5
      <3>5. QED
        BY <1>1, <1>3, <1>5, <2>2, <3>3, <3>4 DEF NodesInv, PrimaryInv, Initialising
    <2>3. CASE what = "initdb"
      <3>1. files = {}
        BY <2>3 DEF PrimaryVerdict
      <3>2. origin = "new"
        BY <3>1 DEF NodesInv, NodeTypes, PrimaryInv, Initialised
      <3>3. QED
        BY <1>1, <1>3, <1>5, <2>3, <3>1, <3>2 DEF NodesInv, PrimaryInv, Initialising
    <2>4. QED
      BY <1>2, <2>1, <2>2, <2>3
  <1>6. lab \in BOOLEAN /\ slots \subseteq Replica
    BY DEF NodesInv, NodeTypes
  <1>7. what \in Initialising \cup {"down", "serving", "refused"}
    BY <1>2 DEF Initialising
  <1> HIDE DEF files, what
  <1>8. QED
    BY <1>1, <1>3, <1>4, <1>5, <1>6, <1>7, PrimaryMoves

LEMMA InitdbPreserves ==
  ASSUME NodesInv, Initdb
  PROVE  NodesInv'
  <1>1. proc["primary"] = "initdb" /\ proc["primary"] \in Initialising
    BY DEF Initdb, Initialising
  <1>2. PICK file \in ClusterFiles : file \notin vol["primary"] /\ Add("primary", file)
    BY DEF Initdb
  <1> DEFINE files == vol["primary"] \cup {file}
  <1>3. vol' = [vol EXCEPT !["primary"] = files] /\ files \in SUBSET File
        /\ vol'["primary"] = files
    BY <1>2 DEF Add, NodesInv, NodeTypes, Node, ClusterFiles, File
  <1>4. "primary-ready" \notin files /\ "standby.signal" \notin files
    BY <1>1, WhileInitialising DEF ClusterFiles
  <1>5. UNCHANGED <<catalog, step, lab, slots, origin, interrupted>>
    BY DEF Initdb, migrationVars
  <1>6. lab \in BOOLEAN /\ slots \subseteq Replica
    BY DEF NodesInv, NodeTypes
  <1> HIDE DEF files
  <1>7. ASSUME NEW what \in {"initdb", "lab"}, proc' = [proc EXCEPT !["primary"] = what],
               what = "lab" => ClusterFiles \subseteq files
        PROVE  NodesInv'
    <2>1. proc'["primary"] = what
      BY <1>7 DEF NodesInv, NodeTypes, Node
    <2>2. SessionsOfServer'
      BY <1>1, <1>5 DEF NodesInv, SessionsOfServer
    <2>3. PrimaryInv'
      BY <1>1, <1>3, <1>4, <1>5, <1>7, <2>1, WhileInitialising DEF PrimaryInv, Initialising
    <2>4. what \in Initialising
      BY <1>7 DEF Initialising
    <2>5. QED
      BY <1>3, <1>5, <1>6, <1>7, <2>2, <2>3, <2>4, PrimaryMoves
  <1>8. CASE ClusterFiles \subseteq files
    BY <1>1, <1>3, <1>7, <1>8, ScriptOrder DEF Initdb, Become
  <1>9. CASE ~(ClusterFiles \subseteq files)
    <2>1. proc' = proc
      BY <1>3, <1>9 DEF Initdb
    <2>2. proc' = [proc EXCEPT !["primary"] = "initdb"]
      BY <1>1, <2>1, WhileInitialising
    <2>3. QED
      BY <1>7, <2>2
  <1>10. QED
    BY <1>8, <1>9

LEMMA CreateLabPreserves ==
  ASSUME NodesInv, CreateLab
  PROVE  NodesInv'
  <1>1. proc["primary"] = "lab" /\ Become("primary", "slots") /\ lab'
        /\ UNCHANGED <<catalog, step, vol, slots, origin, interrupted>>
    BY ScriptOrder DEF CreateLab, migrationVars
  <1>2. ClusterFiles \subseteq vol["primary"] /\ slots \subseteq Replica
    BY <1>1 DEF NodesInv, NodeTypes, PrimaryInv, Initialising
  <1>3. SessionsOfServer'
    BY <1>1 DEF NodesInv, SessionsOfServer
  <1>4. "slots" \in Initialising \ {"initdb"} /\ proc["primary"] \in Initialising
    BY <1>1 DEF Initialising
  <1>5. lab' \in BOOLEAN
    BY DEF CreateLab
  <1>6. QED
    BY <1>1, <1>2, <1>3, <1>4, <1>5, ScriptDone

LEMMA CreateSlotPreserves ==
  ASSUME NodesInv, CreateSlot
  PROVE  NodesInv'
  <1>1. proc["primary"] = "slots" /\ UNCHANGED <<catalog, step, vol, lab, origin, interrupted>>
    BY DEF CreateSlot, migrationVars
  <1>2. ClusterFiles \subseteq vol["primary"] /\ lab /\ lab \in BOOLEAN
    BY <1>1 DEF NodesInv, NodeTypes, PrimaryInv, Initialising
  <1>3. slots' \subseteq Replica
    BY DEF CreateSlot, NodesInv, NodeTypes
  <1>4. SessionsOfServer'
    BY <1>1 DEF NodesInv, SessionsOfServer
  <1>5. {"slots", "board"} \subseteq Initialising \ {"initdb"}
    BY DEF Initialising
  <1>6. CASE slots' = Replica
    <2>1. Become("primary", "board")
      BY <1>1, <1>6, ScriptOrder DEF CreateSlot
    <2>2. QED
      BY <1>1, <1>2, <1>3, <1>4, <1>5, <1>6, <2>1, ScriptDone
  <1>7. CASE slots' # Replica
    <2>1. Become("primary", "slots")
      BY <1>1, <1>5, <1>7, WhileInitialising DEF CreateSlot, Become
    <2>2. QED
      BY <1>1, <1>2, <1>3, <1>4, <1>5, <1>7, <2>1, ScriptDone
  <1>8. QED
    BY <1>6, <1>7

LEMMA RunBoardScriptPreserves ==
  ASSUME EnvironmentInv, RunBoardScript
  PROVE  EnvironmentInv'
  <1>1. InitRunner \in Runner /\ MigrationInv /\ NodesInv
    BY NodesAssumption DEF EnvironmentInv
  <1>2. proc["primary"] = "board" /\ UNCHANGED <<vol, lab, slots, stops, origin, interrupted>>
    BY DEF RunBoardScript
  <1>3. CASE Begin(InitRunner) /\ UNCHANGED proc
    <2>1. MigrationInv'
      BY <1>1, <1>3, BeginPreserves
    <2>2. UNCHANGED catalog /\ \A s \in Runner \ {InitRunner} : step'[s] = step[s]
      BY <1>1, <1>3 DEF Begin, Go, MigrationInv, MigrationTypes
    <2>3. SessionsOfServer'
      BY <1>1, <1>2, <1>3, <2>2 DEF NodesInv, SessionsOfServer
    <2>4. UNCHANGED nodeVars
      BY <1>2, <1>3 DEF nodeVars
    <2>5. QED
      BY <1>1, <2>1, <2>2, <2>3, <2>4, RunnersMove DEF EnvironmentInv
  <1>4. CASE RunnerStep(InitRunner) /\ UNCHANGED proc
    <2>1. MigrationInv'
      BY <1>1, <1>4, RunnerStepPreserves
    <2>2. (catalog.applied => catalog'.applied) /\ SessionsOfServer'
      BY <1>1, <1>4, RunnersMoveOn DEF NodesInv, SessionsOfServer
    <2>3. UNCHANGED nodeVars
      BY <1>2, <1>4 DEF nodeVars
    <2>4. QED
      BY <1>1, <2>1, <2>2, <2>3, RunnersMove DEF EnvironmentInv
  <1>5. CASE step[InitRunner] = "done" /\ NextScript /\ UNCHANGED migrationVars
    <2>1. MigrationInv' /\ Become("primary", "mark")
      BY <1>1, <1>2, <1>5, MigrationStutters, ScriptOrder
    <2>2. catalog'.applied
      BY <1>1, <1>5 DEF MigrationInv, MigratedOnce, migrationVars
    <2>3. ClusterFiles \subseteq vol["primary"] /\ lab /\ slots = Replica /\ lab \in BOOLEAN
      BY <1>1, <1>2 DEF NodesInv, NodeTypes, PrimaryInv, Initialising
    <2>4. SessionsOfServer'
      <3>1. ASSUME NEW s \in Runner, step'[s] \in Connected PROVE FALSE
        <4>1. step[s] \in Connected
          BY <1>5, <3>1 DEF migrationVars
        <4>2. s = InitRunner
          BY <1>1, <1>2, <4>1 DEF NodesInv, SessionsOfServer
        <4>3. QED
          BY <1>5, <4>1, <4>2 DEF Connected, InLock
      <3>2. QED
        BY <3>1 DEF SessionsOfServer
    <2>5. "mark" \in Initialising \ {"initdb"} /\ proc["primary"] \in Initialising
      BY <1>2 DEF Initialising
    <2>6. NodesInv'
      BY <1>1, <1>2, <2>1, <2>2, <2>3, <2>4, <2>5, ScriptDone
    <2>7. QED
      BY <2>1, <2>6 DEF EnvironmentInv
  <1>6. QED
    BY <1>3, <1>4, <1>5 DEF RunBoardScript

LEMMA MarkPrimaryPreserves ==
  ASSUME NodesInv, MarkPrimary
  PROVE  NodesInv'
  <1>1. proc["primary"] = "mark" /\ Become("primary", "serving")
        /\ UNCHANGED <<catalog, step, lab, slots, origin>>
    BY ScriptOrder DEF MarkPrimary, migrationVars
  <1>2. proc["primary"] \in Initialising /\ "serving" \notin Initialising
    BY <1>1 DEF Initialising
  <1>3. ClusterFiles \subseteq vol["primary"] /\ lab /\ slots = Replica /\ catalog.applied
        /\ lab \in BOOLEAN
    BY <1>1 DEF NodesInv, NodeTypes, PrimaryInv, Initialising
  <1> DEFINE files == vol["primary"] \cup {"primary-ready"}
  <1>4. vol' = [vol EXCEPT !["primary"] = files]
    BY DEF MarkPrimary, Add
  <1>5. files \in SUBSET File
    BY <1>2, WhileInitialising DEF File
  <1>6. Initialised \subseteq files /\ "standby.signal" \notin files
    BY <1>2, <1>3, WhileInitialising DEF Initialised
  <1>7. SessionsOfServer'
    <2>1. \A r \in Runner : step[r] \notin Connected \/ r = InitRunner
      BY <1>1 DEF NodesInv, SessionsOfServer
    <2>2. step[InitRunner] \notin Connected
      BY <1>1, NodesAssumption DEF NodesInv, SessionsOfServer
    <2>3. QED
      BY <1>1, <2>1, <2>2 DEF SessionsOfServer
  <1>8. \A n \in Replica : n \in interrupted' <=> n \in interrupted
    BY NodesAssumption DEF MarkPrimary
  <1>9. (proc'["primary"] = "serving" /\ vol'["primary"] = files) => PrimaryInv'
    BY <1>1, <1>2, <1>3, <1>6, WhileInitialising DEF PrimaryInv, Initialised, Initialising
  <1> HIDE DEF files
  <1>10. QED
    BY <1>1, <1>3, <1>4, <1>5, <1>7, <1>8, <1>9, PrimaryMoves DEF Become

LEMMA BoardScriptFailsPreserves ==
  ASSUME EnvironmentInv, BoardScriptFails
  PROVE  EnvironmentInv'
  <1>1. InitRunner \in Runner /\ MigrationInv /\ NodesInv /\ "primary" \notin Replica
    BY NodesAssumption DEF EnvironmentInv
  <1>2. proc["primary"] = "board" /\ UNCHANGED <<vol, lab, slots, stops, origin>>
    BY DEF BoardScriptFails
  <1>3. CASE RunnerFails(InitRunner) /\ UNCHANGED <<proc, interrupted>>
    <2>1. MigrationInv'
      BY <1>1, <1>3, RunnerFailsPreserves
    <2>2. (catalog.applied => catalog'.applied) /\ SessionsOfServer'
      BY <1>1, <1>3, RunnersMoveOn DEF NodesInv, SessionsOfServer
    <2>3. UNCHANGED nodeVars
      BY <1>2, <1>3 DEF nodeVars
    <2>4. QED
      BY <1>1, <2>1, <2>2, <2>3, RunnersMove DEF EnvironmentInv
  <1>4. CASE /\ step[InitRunner] = "failed"
             /\ Become("primary", "down")
             /\ interrupted' = interrupted \cup {"primary"}
             /\ UNCHANGED migrationVars
    <2>1. MigrationInv'
      BY <1>1, <1>4, MigrationStutters
    <2>2. proc["primary"] \in Initialising /\ "down" \notin Initialising
      BY <1>2 DEF Initialising
    <2>3. SessionsOfServer'
      <3>1. \A s \in Runner : step[s] \notin Connected
        BY <1>1, <1>2, <1>4 DEF NodesInv, SessionsOfServer, Connected, InLock
      <3>2. QED
        BY <1>4, <3>1 DEF SessionsOfServer, migrationVars
    <2>4. proc'["primary"] = "down" => PrimaryInv'
      BY <1>1, <1>2, <1>4, <2>2, WhileInitialising DEF PrimaryInv, Initialising
    <2>5. lab' \in BOOLEAN /\ slots' \subseteq Replica
      BY <1>1, <1>2 DEF NodesInv, NodeTypes
    <2>6. vol' = [vol EXCEPT !["primary"] = vol["primary"]] /\ vol["primary"] \in SUBSET File
      BY <1>1, <1>2, <2>2, WhileInitialising
    <2>7. NodesInv'
      BY <1>1, <1>2, <1>4, <2>3, <2>4, <2>5, <2>6, PrimaryMoves DEF Become
    <2>8. QED
      BY <2>1, <2>7 DEF EnvironmentInv
  <1>5. QED
    BY <1>3, <1>4 DEF BoardScriptFails

\* A replica's volume and files, as ReplicaMoves wants them.
LEMMA ReplicaTypes ==
  ASSUME NodesInv, NEW n \in Replica
  PROVE  /\ vol[n] \in SUBSET File
         /\ vol = [vol EXCEPT ![n] = vol[n]]
         /\ proc = [proc EXCEPT ![n] = proc[n]]
         /\ proc[n] \in {"down", "backup", "mark", "serving", "refused"}
  BY DEF NodesInv, NodeTypes, Node

LEMMA StartReplicaPreserves ==
  ASSUME NodesInv, NEW n \in Replica, StartReplica(n)
  PROVE  NodesInv'
  <1> DEFINE files == vol[n]
             what == ReplicaVerdict(files)
  <1>1. proc[n] = "down" /\ proc' = [proc EXCEPT ![n] = what]
        /\ files \in SUBSET File /\ vol' = [vol EXCEPT ![n] = files]
    BY ReplicaTypes DEF StartReplica, Become
  <1>2. UNCHANGED <<migrationVars, lab, slots, origin, interrupted>>
    BY DEF StartReplica
  <1>3. what \in {"backup", "serving", "refused"}
    BY DEF ReplicaVerdict
  <1>4. ReplicaInv(n)
    BY DEF NodesInv
  <1>5. ASSUME proc'[n] = what, vol'[n] = files PROVE ReplicaInv(n)'
    <2>1. CASE what = "serving"
      <3>1. "replica-ready" \in files
        BY <2>1 DEF ReplicaVerdict, ReplicaMarker
      <3>2. QED
        BY <1>4, <1>5, <2>1, <3>1 DEF ReplicaInv
    <2>2. CASE what = "refused"
      <3>1. /\ files # {}
            /\ \/ "replica-ready" \notin files
               \/ ~(BackupFiles \subseteq files)
        BY <2>2 DEF ReplicaVerdict, ReplicaMarker, BackupFiles, ClusterFiles
      <3>2. n \in interrupted
        BY <1>1, <1>4, <3>1 DEF ReplicaInv
      <3>3. QED
        BY <1>2, <1>4, <1>5, <2>2, <3>2 DEF ReplicaInv
    <2>3. CASE what = "backup"
      <3>1. files = {}
        BY <2>3 DEF ReplicaVerdict
      <3>2. QED
        BY <1>5, <2>3, <3>1 DEF ReplicaInv
    <2>4. QED
      BY <1>3, <2>1, <2>2, <2>3
  <1> HIDE DEF files, what
  <1>6. QED
    BY <1>1, <1>2, <1>3, <1>5, ReplicaMoves

LEMMA CopyFilePreserves ==
  ASSUME NodesInv, NEW n \in Replica, CopyFile(n)
  PROVE  NodesInv'
  <1>1. PICK file \in BackupFiles : Add(n, file)
    BY DEF CopyFile
  <1> DEFINE files == vol[n] \cup {file}
  <1>2. proc[n] = "backup" /\ proc' = [proc EXCEPT ![n] = "backup"]
        /\ UNCHANGED <<migrationVars, lab, slots, origin, interrupted>>
    BY ReplicaTypes DEF CopyFile
  <1>3. vol' = [vol EXCEPT ![n] = files]
    BY <1>1 DEF Add
  <1>4. files \in SUBSET File /\ file # "replica-ready"
    BY <1>1, ReplicaTypes DEF BackupFiles, ClusterFiles, File
  <1>5. (proc'[n] = "backup" /\ vol'[n] = files) => ReplicaInv(n)'
    BY <1>2, <1>4 DEF NodesInv, ReplicaInv
  <1> HIDE DEF files
  <1>6. QED
    BY <1>2, <1>3, <1>4, <1>5, ReplicaMoves

LEMMA ReplicaStepPreserves ==
  ASSUME NodesInv, NEW n \in Replica, ReplicaStep(n)
  PROVE  NodesInv'
  <1>1. UNCHANGED <<migrationVars, lab, slots, origin>> /\ n # "primary" /\ ReplicaInv(n)
    BY NodesAssumption DEF NodesInv, ReplicaStep, BackupDone, BackupFails, MarkReplica
  <1>2. CASE BackupDone(n)
    <2>1. proc' = [proc EXCEPT ![n] = "mark"] /\ vol' = [vol EXCEPT ![n] = vol[n]]
          /\ BackupFiles \subseteq vol[n] /\ UNCHANGED interrupted
      BY <1>2, ReplicaTypes DEF BackupDone, Become
    <2>2. (proc'[n] = "mark" /\ vol'[n] = vol[n]) => ReplicaInv(n)'
      BY <2>1 DEF ReplicaInv
    <2>3. QED
      BY <1>1, <2>1, <2>2, ReplicaTypes, ReplicaMoves
  <1>3. CASE BackupFails(n)
    <2>1. proc' = [proc EXCEPT ![n] = "down"] /\ vol' = [vol EXCEPT ![n] = vol[n]]
          /\ interrupted' = interrupted \cup {n} /\ proc[n] = "backup"
      BY <1>3, ReplicaTypes DEF BackupFails, Become
    <2>2. (proc'[n] = "down" /\ vol'[n] = vol[n]) => ReplicaInv(n)'
      BY <1>1, <2>1 DEF ReplicaInv
    <2>3. \A k \in Node \ {n} : k \in interrupted' <=> k \in interrupted
      BY <2>1
    <2>4. QED
      BY <1>1, <2>1, <2>2, <2>3, ReplicaTypes, ReplicaMoves
  <1>4. CASE MarkReplica(n)
    <2> DEFINE files == vol[n] \cup {"replica-ready"}
    <2>1. proc' = [proc EXCEPT ![n] = "serving"] /\ vol' = [vol EXCEPT ![n] = files]
          /\ interrupted' = interrupted \ {n} /\ proc[n] = "mark"
      BY <1>4 DEF MarkReplica, Become, Add, ReplicaMarker
    <2>2. BackupFiles \subseteq files /\ files \in SUBSET File
      BY <1>1, <2>1, ReplicaTypes DEF ReplicaInv, File
    <2>3. (proc'[n] = "serving" /\ vol'[n] = files) => ReplicaInv(n)'
      BY <2>2 DEF ReplicaInv
    <2>4. \A k \in Node \ {n} : k \in interrupted' <=> k \in interrupted
      BY <2>1
    <2> HIDE DEF files
    <2>5. QED
      BY <1>1, <2>1, <2>2, <2>3, <2>4, ReplicaMoves
  <1>5. QED
    BY <1>2, <1>3, <1>4 DEF ReplicaStep

\* The primary takes its sessions with it.
LEMMA StopPrimaryPreserves ==
  ASSUME EnvironmentInv, StopNode("primary")
  PROVE  EnvironmentInv'
  <1>1. MigrationInv /\ NodesInv /\ "primary" \notin Replica
    BY NodesAssumption DEF EnvironmentInv
  <1>2. /\ AbortRunners
        /\ proc["primary"] \notin {"down", "refused"}
        /\ proc' = [proc EXCEPT !["primary"] = "down"]
        /\ interrupted' = IF proc["primary"] = "serving" THEN interrupted
                          ELSE interrupted \cup {"primary"}
        /\ UNCHANGED <<vol, lab, slots, origin>>
    BY DEF StopNode, Become
  <1>3. MigrationInv'
    BY <1>1, <1>2, AbortPreserves
  <1>4. SessionsOfServer'
    BY <1>1, <1>2 DEF AbortRunners, SessionsOfServer, MigrationInv, MigrationTypes, Connected, InLock
  <1>5. catalog' = catalog
    BY <1>2 DEF AbortRunners
  <1>6. vol' = [vol EXCEPT !["primary"] = vol["primary"]] /\ vol["primary"] \in SUBSET File
        /\ lab \in BOOLEAN /\ slots \subseteq Replica
        /\ proc["primary"] \in Initialising \cup {"serving"}
    BY <1>1, <1>2 DEF NodesInv, NodeTypes, Node
  <1>7. \A n \in Replica : n \in interrupted' <=> n \in interrupted
    BY <1>1, <1>2
  <1>8. ASSUME proc'["primary"] = "down", vol'["primary"] = vol["primary"] PROVE PrimaryInv'
    <2>1. CASE proc["primary"] = "serving"
      BY <1>1, <1>2, <1>5, <1>8, <2>1 DEF NodesInv, PrimaryInv, Initialising
    <2>2. CASE proc["primary"] \in Initialising
      <3>1. "primary" \in interrupted'
        BY <1>2, <2>2 DEF Initialising
      <3>2. QED
        BY <1>1, <1>2, <1>5, <1>8, <2>2, <3>1, WhileInitialising DEF PrimaryInv, Initialising
    <2>3. QED
      BY <1>6, <2>1, <2>2
  <1>9. NodesInv'
    BY <1>1, <1>2, <1>4, <1>6, <1>7, <1>8, PrimaryMoves
  <1>10. QED
    BY <1>3, <1>9 DEF EnvironmentInv

LEMMA StopReplicaPreserves ==
  ASSUME NodesInv, NEW n \in Replica, StopNode(n)
  PROVE  NodesInv'
  <1>1. n # "primary" /\ ReplicaInv(n)
    BY NodesAssumption DEF NodesInv
  <1>2. /\ proc[n] \notin {"down", "refused"}
        /\ proc' = [proc EXCEPT ![n] = "down"]
        /\ interrupted' = IF proc[n] = "serving" THEN interrupted ELSE interrupted \cup {n}
        /\ UNCHANGED <<migrationVars, vol, lab, slots, origin>>
    BY <1>1 DEF StopNode, Become
  <1>3. (proc'[n] = "down" /\ vol'[n] = vol[n]) => ReplicaInv(n)'
    BY <1>1, <1>2 DEF ReplicaInv
  <1>4. \A k \in Node \ {n} : k \in interrupted' <=> k \in interrupted
    BY <1>2
  <1>5. vol' = [vol EXCEPT ![n] = vol[n]] /\ vol[n] \in SUBSET File
    BY <1>2, ReplicaTypes
  <1>6. QED
    BY <1>2, <1>3, <1>4, <1>5, ReplicaMoves

LEMMA OtherRunnersPreserve ==
  ASSUME EnvironmentInv, NEW r \in Runner, Migrate(r) \/ Runners(r)
  PROVE  EnvironmentInv'
  <1>1. MigrationInv /\ NodesInv
    BY DEF EnvironmentInv
  <1>2. UNCHANGED nodeVars /\ UNCHANGED proc
    BY DEF Migrate, Runners, nodeVars
  <1>3. CASE Migrate(r)
    <2>1. MigrationInv'
      BY <1>1, <1>3, BeginPreserves DEF Migrate
    <2>2. UNCHANGED catalog /\ \A s \in Runner \ {r} : step'[s] = step[s]
      BY <1>1, <1>3 DEF Migrate, Begin, Go, MigrationInv, MigrationTypes
    <2>3. SessionsOfServer'
      BY <1>1, <1>2, <1>3, <2>2 DEF Migrate, NodesInv, SessionsOfServer
    <2>4. QED
      BY <1>1, <1>2, <2>1, <2>2, <2>3, RunnersMove DEF EnvironmentInv
  <1>4. CASE Runners(r)
    <2>1. RunnerStep(r) \/ RunnerFails(r)
      BY <1>4 DEF Runners
    <2>2. MigrationInv'
      BY <1>1, <2>1, RunnerStepPreserves, RunnerFailsPreserves
    <2>3. (catalog.applied => catalog'.applied) /\ SessionsOfServer'
      BY <1>1, <1>2, <2>1, RunnersMoveOn DEF NodesInv, SessionsOfServer
    <2>4. QED
      BY <1>1, <1>2, <2>2, <2>3, RunnersMove DEF EnvironmentInv
  <1>5. QED
    BY <1>3, <1>4

-----------------------------------------------------------------------------
(* The theorems.                                                           *)

LEMMA EnvironmentStep ==
  ASSUME EnvironmentInv, [EnvironmentNext]_environmentVars
  PROVE  EnvironmentInv'
  <1>1. MigrationInv /\ NodesInv
    BY DEF EnvironmentInv
  <1>2. ASSUME UNCHANGED migrationVars, NodesInv' PROVE EnvironmentInv'
    BY <1>1, <1>2, MigrationStutters DEF EnvironmentInv
  <1>3. CASE StartPrimary
    BY <1>1, <1>2, <1>3, StartPrimaryPreserves DEF StartPrimary
  <1>4. CASE PrimaryStep
    <2>1. CASE Initdb
      BY <1>1, <1>2, <2>1, InitdbPreserves DEF Initdb
    <2>2. CASE CreateLab
      BY <1>1, <1>2, <2>2, CreateLabPreserves DEF CreateLab
    <2>3. CASE CreateSlot
      BY <1>1, <1>2, <2>3, CreateSlotPreserves DEF CreateSlot
    <2>4. CASE RunBoardScript
      BY <2>4, RunBoardScriptPreserves
    <2>5. CASE MarkPrimary
      BY <1>1, <1>2, <2>5, MarkPrimaryPreserves DEF MarkPrimary
    <2>6. QED
      BY <1>4, <2>1, <2>2, <2>3, <2>4, <2>5 DEF PrimaryStep
  <1>5. CASE BoardScriptFails
    BY <1>5, BoardScriptFailsPreserves
  <1>6. ASSUME NEW n \in Replica, StartReplica(n) \/ CopyFile(n) \/ ReplicaStep(n)
        PROVE  EnvironmentInv'
    <2>1. UNCHANGED migrationVars
      BY <1>6 DEF StartReplica, CopyFile, ReplicaStep, BackupDone, BackupFails, MarkReplica
    <2>2. NodesInv'
      BY <1>1, <1>6, StartReplicaPreserves, CopyFilePreserves, ReplicaStepPreserves
    <2>3. QED
      BY <1>2, <2>1, <2>2
  <1>7. ASSUME NEW n \in Node, StopNode(n) PROVE EnvironmentInv'
    <2>1. CASE n = "primary"
      BY <1>7, <2>1, StopPrimaryPreserves
    <2>2. CASE n # "primary"
      <3>1. n \in Replica /\ UNCHANGED migrationVars
        BY <1>7, <2>2 DEF Node, StopNode
      <3>2. QED
        BY <1>1, <1>2, <1>7, <3>1, StopReplicaPreserves
    <2>3. QED
      BY <2>1, <2>2
  <1>8. ASSUME NEW r \in Runner, Migrate(r) \/ Runners(r) PROVE EnvironmentInv'
    BY <1>8, OtherRunnersPreserve
  <1>9. CASE UNCHANGED environmentVars
    <2>1. UNCHANGED migrationVars /\ UNCHANGED nodeVars
      BY <1>9 DEF environmentVars
    <2>2. SessionsOfServer' /\ (catalog.applied => catalog'.applied)
      BY <1>1, <2>1 DEF migrationVars, nodeVars, NodesInv, SessionsOfServer
    <2>3. QED
      BY <1>1, <1>2, <2>1, <2>2, RunnersMove
  <1>10. QED
    BY <1>3, <1>4, <1>5, <1>6, <1>7, <1>8, <1>9 DEF EnvironmentNext

LEMMA EnvironmentInvariant == EnvironmentSpec => []EnvironmentInv
  <1>1. NodesInit => EnvironmentInv
    BY NodesInitially
  <1>2. EnvironmentInv /\ [EnvironmentNext]_environmentVars => EnvironmentInv'
    BY EnvironmentStep
  <1>3. QED
    BY <1>1, <1>2, PTL DEF EnvironmentSpec

\* The variables have their types, and no session outlives the server it
\* talks to.
THEOREM EnvironmentTypes == EnvironmentSpec => []EnvironmentTypeOK
  <1>1. EnvironmentInv => EnvironmentTypeOK
    BY DEF EnvironmentInv, MigrationInv, MigrationTypes, NodesInv, NodeTypes, SessionsOfServer,
           EnvironmentTypeOK, Catalog, Created, Node, Initialising
  <1>2. QED
    BY <1>1, EnvironmentInvariant, PTL

\* migrate.sql: however many runners meet, wait, fail or die, 001_board is
\* recorded exactly when its tables are there.
THEOREM EnvironmentMigratesOnce == EnvironmentSpec => []MigratedOnce
  <1>1. EnvironmentInv => MigratedOnce
    BY DEF EnvironmentInv, MigrationInv
  <1>2. QED
    BY <1>1, EnvironmentInvariant, PTL

\* The entrypoints: whatever was stopped or killed before, a node that serves
\* is whole.
THEOREM EnvironmentServesOnlyWhole == EnvironmentSpec => []ServesOnlyWhole
  <1>1. EnvironmentInv => ServesOnlyWhole
    <2> SUFFICES ASSUME EnvironmentInv PROVE ServesOnlyWhole
      OBVIOUS
    <2>1. NodesInv
      BY DEF EnvironmentInv
    <2>2. ASSUME proc["primary"] = "serving"
          PROVE  /\ ClusterFiles \subseteq vol["primary"] /\ "standby.signal" \notin vol["primary"]
                 /\ lab /\ slots = Replica
                 /\ origin = "new" => catalog.applied
      <3>1. origin \in {"new", "old"} /\ "primary-ready" \in vol["primary"]
        BY <2>1, <2>2 DEF NodesInv, NodeTypes, PrimaryInv
      <3>2. QED
        BY <2>1, <3>1 DEF NodesInv, PrimaryInv, Initialised
    <2>3. ASSUME NEW n \in Replica, proc[n] = "serving" PROVE BackupFiles \subseteq vol[n]
      BY <2>1, <2>3 DEF NodesInv, ReplicaInv
    <2>4. QED
      BY <2>2, <2>3 DEF ServesOnlyWhole
  <1>2. QED
    BY <1>1, EnvironmentInvariant, PTL

\* The refusals of the entrypoints hit only a volume whose initialisation was
\* cut short or that never was the node's.
THEOREM EnvironmentExplainsRefusals == EnvironmentSpec => []RefusalIsExplained
  <1>1. EnvironmentInv => RefusalIsExplained
    <2> SUFFICES ASSUME EnvironmentInv, NEW n \in Node, proc[n] = "refused"
                 PROVE  n \in interrupted \/ (n = "primary" /\ origin \in {"standby", "stray"})
      BY DEF RefusalIsExplained
    <2>1. CASE n = "primary"
      BY <2>1 DEF EnvironmentInv, NodesInv, NodeTypes, PrimaryInv, Initialising
    <2>2. CASE n \in Replica
      BY <2>2 DEF EnvironmentInv, NodesInv, ReplicaInv
    <2>3. QED
      BY <2>1, <2>2 DEF Node
  <1>2. QED
    BY <1>1, EnvironmentInvariant, PTL
-----------------------------------------------------------------------------
(* A node that has served.                                                 *)

\* It is stopped or serves, and the primary still has what replicas need.
StillServes(n) ==
    /\ proc[n] \in {"down", "serving"}
    /\ n = "primary" => lab /\ slots = Replica

\* And its entrypoint will find it so.
Whole(n) ==
    /\ StillServes(n)
    /\ n = "primary" => PrimaryVerdict(vol[n]) = "serving"
    /\ n # "primary" => ReplicaVerdict(vol[n]) = "serving"

LEMMA ServingIsWhole ==
  ASSUME EnvironmentInv, NEW n \in Node, proc[n] = "serving"
  PROVE  Whole(n)
  <1>1. CASE n = "primary"
    <2>1. /\ Initialised \subseteq vol["primary"] /\ "standby.signal" \notin vol["primary"]
          /\ lab /\ slots = Replica
      BY <1>1 DEF EnvironmentInv, NodesInv, PrimaryInv, NodeTypes
    <2>2. PrimaryVerdict(vol["primary"]) = "serving"
      BY <2>1 DEF PrimaryVerdict, Initialised, ClusterFiles
    <2>3. QED
      BY <1>1, <2>1, <2>2 DEF Whole, StillServes
  <1>2. CASE n # "primary"
    <2>1. "replica-ready" \in vol[n] /\ BackupFiles \subseteq vol[n]
      BY <1>2 DEF EnvironmentInv, NodesInv, ReplicaInv, Node
    <2>2. ReplicaVerdict(vol[n]) = "serving"
      BY <2>1 DEF ReplicaVerdict, ReplicaMarker, BackupFiles, ClusterFiles
    <2>3. QED
      BY <1>2, <2>2 DEF Whole, StillServes
  <1>3. QED
    BY <1>1, <1>2

LEMMA WholeStays ==
  ASSUME EnvironmentInv, [EnvironmentNext]_environmentVars, NEW n \in Node, Whole(n)
  PROVE  Whole(n)'
  <1>1. /\ proc[n] \in {"down", "serving"} /\ "primary" \notin Replica
        /\ DOMAIN proc = Node /\ DOMAIN vol = Node /\ "primary" \in Node
        /\ \A k \in Replica : k \in Node /\ k # "primary"
    BY NodesAssumption DEF Whole, StillServes, EnvironmentInv, NodesInv, NodeTypes, Node
  <1>2. ASSUME UNCHANGED <<vol, lab, slots>>, proc'[n] \in {"down", "serving"}
        PROVE  Whole(n)'
    BY <1>2 DEF Whole, StillServes, PrimaryVerdict, ReplicaVerdict
  <1>3. ASSUME UNCHANGED <<lab, slots>>, proc'[n] = proc[n], vol'[n] = vol[n]
        PROVE  Whole(n)'
    BY <1>3 DEF Whole, StillServes, PrimaryVerdict, ReplicaVerdict
  <1>4. CASE StartPrimary
    BY <1>1, <1>2, <1>4 DEF StartPrimary, Become, Whole
  <1>5. CASE PrimaryStep
    <2>1. proc["primary"] \in Initialising
      BY <1>5 DEF PrimaryStep, Initdb, CreateLab, CreateSlot, RunBoardScript, MarkPrimary,
                  Initialising
    <2>2. n # "primary"
      BY <1>1, <2>1 DEF Initialising
    <2>3. proc'[n] = proc[n] /\ vol'[n] = vol[n]
      <3>1. proc' = proc \/ \E what : Become("primary", what)
        BY <1>5 DEF PrimaryStep, Initdb, CreateLab, CreateSlot, RunBoardScript, MarkPrimary, NextScript
      <3>2. vol' = vol \/ \E file : Add("primary", file)
        BY <1>5 DEF PrimaryStep, Initdb, CreateLab, CreateSlot, RunBoardScript, MarkPrimary
      <3>3. QED
        BY <1>1, <2>2, <3>1, <3>2 DEF Become, Add
    <2>4. QED
      BY <2>2, <2>3 DEF Whole, StillServes, ReplicaVerdict
  <1>6. CASE BoardScriptFails
    <2>1. n # "primary"
      BY <1>1, <1>6 DEF BoardScriptFails
    <2>2. proc'[n] = proc[n]
      BY <1>1, <1>6, <2>1 DEF BoardScriptFails, Become
    <2>3. QED
      BY <1>2, <1>6, <1>1, <2>2 DEF BoardScriptFails
  <1>7. ASSUME NEW k \in Replica, StartReplica(k) PROVE Whole(n)'
    <2>1. UNCHANGED <<vol, lab, slots>>
      BY <1>7 DEF StartReplica
    <2>2. proc'[n] \in {"down", "serving"}
      BY <1>1, <1>7 DEF StartReplica, Become, Whole
    <2>3. QED
      BY <1>2, <2>1, <2>2
  <1>8. ASSUME NEW k \in Replica, CopyFile(k) \/ ReplicaStep(k) PROVE Whole(n)'
    <2>1. k # n
      BY <1>1, <1>8 DEF CopyFile, ReplicaStep, BackupDone, BackupFails, MarkReplica
    <2>2. UNCHANGED <<lab, slots>>
      BY <1>8 DEF CopyFile, ReplicaStep, BackupDone, BackupFails, MarkReplica
    <2>3. proc'[n] = proc[n] /\ vol'[n] = vol[n]
      BY <1>1, <1>8, <2>1 DEF CopyFile, ReplicaStep, BackupDone, BackupFails, MarkReplica, Become, Add
    <2>4. QED
      BY <1>3, <2>2, <2>3
  <1>9. ASSUME NEW k \in Node, StopNode(k) PROVE Whole(n)'
    <2>1. UNCHANGED <<vol, lab, slots>>
      BY <1>9 DEF StopNode
    <2>2. proc'[n] \in {"down", "serving"}
      BY <1>1, <1>9 DEF StopNode, Become
    <2>3. QED
      BY <1>2, <2>1, <2>2
  <1>10. ASSUME UNCHANGED nodeVars PROVE Whole(n)'
    BY <1>1, <1>2, <1>10 DEF nodeVars
  <1>11. CASE UNCHANGED environmentVars
    BY <1>10, <1>11 DEF environmentVars
  <1>12. ASSUME NEW r \in Runner, Migrate(r) \/ Runners(r) PROVE Whole(n)'
    BY <1>10, <1>12 DEF Migrate, Runners
  <1>13. QED
    BY <1>4, <1>5, <1>6, <1>7, <1>8, <1>9, <1>11, <1>12 DEF EnvironmentNext

\* A container is started on its volume again and again: once it has served,
\* its entrypoint neither refuses it nor initialises it anew, wherever it was
\* stopped or killed, and the primary keeps what its replicas start from.
THEOREM EnvironmentServesAgain ==
  ASSUME NEW n \in Node
  PROVE  EnvironmentSpec => [](proc[n] = "serving" => []StillServes(n))
  <1>1. EnvironmentInv /\ proc[n] = "serving" => Whole(n)
    BY ServingIsWhole
  <1>2. EnvironmentInv /\ [EnvironmentNext]_environmentVars /\ Whole(n) => Whole(n)'
    BY WholeStays
  <1>3. Whole(n) => StillServes(n)
    BY DEF Whole
  <1>4. QED
    BY <1>1, <1>2, <1>3, EnvironmentInvariant, PTL DEF EnvironmentSpec
=============================================================================
