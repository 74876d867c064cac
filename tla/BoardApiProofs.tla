--------------------------- MODULE BoardApiProofs ---------------------------
(***************************************************************************)
(* The HTTP board for any number of clients, requests, replicas and        *)
(* restarts: what a client is told is true, and it sees its own writes.    *)
(*                                                                         *)
(* The operators below have the state they speak of as arguments, so that  *)
(* a step is one formula about what was there and what is there after it.  *)
(***************************************************************************)
EXTENDS BoardApi, WellFoundedInduction, TLAPS

Write  == {NewUser, NewThread, NewPost}
Op     == Write \cup {ViewThread}
Status == {200, 201, 400, 404, 500}
Entry  == [kind : {"insert", "commit"}, row : Row]

Called == [step : {"idle", "insert", "commit", "position", "check", "thread", "posts"},
           op : Op, author : Nat, thread : Nat, required : Nat, number : Nat,
           row : SUBSET Row, node : Node, disturbed : BOOLEAN]

Told == [op : Op, thread : Nat, status : Status, position : Nat, seen : SUBSET Row,
         row : SUBSET Row, number : Nat, disturbed : BOOLEAN]

BoardTypes ==
    /\ wal \in Seq(Entry)
    /\ open \subseteq Row
    /\ last \in [Table -> Nat]
    /\ replayed \in [Node \ {0} -> Nat]
    /\ \A n \in Node \ {0} : replayed[n] <= Len(wal)
    /\ restarts \in Nat
    /\ call \in [Client -> Called]
    /\ \A c \in Client : call[c].required <= Len(wal)
    /\ history \in [Client -> Seq(Told)]
    /\ sent \in Nat

-----------------------------------------------------------------------------
(* Rows.                                                                   *)

Committed(w, lsn) == {w[i].row : i \in {j \in 1..lsn : w[j].kind = "commit"}}

\* Rows that are there or may still come to be.
Known(w, o) == o \cup Committed(w, Len(w))

HasThread(w, lsn, thread) ==
    \E row \in Committed(w, lsn) : row.table = "threads" /\ row.id = thread

\* The foreign key, at every position of the log.
ThreadsFirst(w, o) ==
    /\ \A row \in o : row.table = "posts" => HasThread(w, Len(w), row.thread)
    /\ \A lsn \in 1..Len(w) : \A row \in Committed(w, lsn) :
          row.table = "posts" => HasThread(w, lsn, row.thread)

RowsOfRequests(w, o, s) == \A row \in Known(w, o) : row.request \in 0..s

-----------------------------------------------------------------------------
(* Answers.                                                                *)

NothingStored(w, o, number) == \A row \in Known(w, o) : row.request # number

OneMoment(w, thread, seen) ==
    \E lsn \in 1..Len(w) :
        /\ HasThread(w, lsn, thread)
        /\ seen = {row \in Committed(w, lsn) : row.table = "posts" /\ row.thread = thread}

TrueAnswer(w, o, s, a) ==
    /\ a.number \in 1..s
    /\ a.position <= Len(w)
    /\ a.status = 201 =>
          /\ a.op \in Write /\ a.row # {} /\ a.row \subseteq Committed(w, Len(w))
          /\ \A row \in a.row : row.table = TableOf(a.op)
    /\ a.position # 0 => a.status = 201
    /\ a.status \in {400, 404} => NothingStored(w, o, a.number)
    /\ a.status = 200 => OneMoment(w, a.thread, a.seen)

\* The position covers every thread and post the answers confirm.
Covers(w, h, position) ==
    \A i \in 1..Len(h) : (h[i].status = 201 /\ h[i].op # NewUser)
        => h[i].row \subseteq Committed(w, position)

\* The position covers everything the answers confirm.
CoversAll(w, h, position) ==
    \A i \in 1..Len(h) : h[i].status = 201 => h[i].row \subseteq Committed(w, position)

PositionsCover(w, h) ==
    \A i, k \in 1..Len(h) :
        (i <= k /\ h[i].status = 201 /\ h[k].position # 0)
            => h[i].row \subseteq Committed(w, h[k].position)

Shows(a, row) ==
    /\ (row.table = "threads" /\ row.id = a.thread) => a.status # 404
    /\ (row.table = "posts" /\ row.thread = a.thread)
          => a.status # 404 /\ (a.status = 200 => row \in a.seen)

\* An answer shows what earlier ones have confirmed.
ShowsAll(h, a) ==
    \A i \in 1..Len(h) : h[i].status = 201 => \A row \in h[i].row : Shows(a, row)

SeesOwnWrites(h) ==
    \A i, k \in 1..Len(h) :
        (i < k /\ h[i].status = 201 /\ h[k].op = ViewThread /\ ~h[k].disturbed)
            => \A row \in h[i].row : Shows(h[k], row)

GoodHistory(w, o, s, h) ==
    /\ \A i \in 1..Len(h) : TrueAnswer(w, o, s, h[i])
    /\ PositionsCover(w, h)
    /\ SeesOwnWrites(h)

-----------------------------------------------------------------------------
(* Requests in progress.                                                   *)

Reading == {"check", "thread", "posts"}

\* A request that writes.
GoodWrite(w, o, q) ==
    /\ q.step \in {"insert", "commit", "position"} => q.op \in Write
    /\ q.step \in {"commit", "position"} =>
          q.row # {} /\ \A row \in q.row : row.table = TableOf(q.op)
    /\ q.step = "position" => q.op # NewUser /\ q.row \subseteq Committed(w, Len(w))

\* A request that reads: an undisturbed one is at a node that has replayed
\* what the client requires.
GoodRead(w, r, h, q) ==
    /\ q.step \in Reading => q.op = ViewThread /\ (q.node = 0 \/ Covers(w, h, q.required))
    /\ q.step = "check" => q.node # 0
    /\ (q.step \in {"thread", "posts"} /\ q.node # 0 /\ ~q.disturbed) => r[q.node] >= q.required
    /\ q.step = "posts" => HasThread(w, Len(w), q.thread)

GoodCall(w, o, s, r, h, q) ==
    /\ q.step = "idle" <=> q = Idle
    /\ q.step # "idle" => q.number \in 1..s
    /\ q.step \in {"insert"} \cup Reading => NothingStored(w, o, q.number)
    /\ GoodWrite(w, o, q)
    /\ GoodRead(w, r, h, q)

\* No two requests have one number.
OnlyNumber(calls, histories, c, number) ==
    \A d \in Client :
        /\ (d # c /\ calls[d].step # "idle") => calls[d].number # number
        /\ \A i \in 1..Len(histories[d]) : histories[d][i].number # number

OneNumberEach(calls, histories) ==
    \A c \in Client :
        calls[c].step # "idle" => OnlyNumber(calls, histories, c, calls[c].number)

BoardInv ==
    /\ BoardTypes
    /\ ThreadsFirst(wal, open)
    /\ RowsOfRequests(wal, open, sent)
    /\ \A c \in Client : GoodHistory(wal, open, sent, history[c])
    /\ \A c \in Client : GoodCall(wal, open, sent, replayed, history[c], call[c])
    /\ OneNumberEach(call, history)

-----------------------------------------------------------------------------
(* Facts about rows and the log.                                           *)

\* What was committed by a position stays so.
Extends(w, w2) ==
    /\ w2 \in Seq(Entry)
    /\ Len(w) <= Len(w2)
    /\ \A lsn \in 0..Len(w) : Committed(w2, lsn) = Committed(w, lsn)

LEMMA OpsDiffer == ViewThread \notin Write /\ NewUser # NewThread /\ NewUser # NewPost
                          /\ NewThread # NewPost
  BY DEF Write, ViewThread, NewUser, NewThread, NewPost

LEMMA TableOfWrite ==
  ASSUME NEW op \in Write
  PROVE  /\ TableOf(op) \in Table
         /\ TableOf(op) = "users" <=> op = NewUser
  <1>1. TableOf(NewUser) = "users"
    BY OpsDiffer DEF TableOf
  <1>2. TableOf(NewThread) = "threads"
    BY OpsDiffer DEF TableOf
  <1>3. TableOf(NewPost) = "posts"
    BY OpsDiffer DEF TableOf
  <1>4. QED
    BY <1>1, <1>2, <1>3, OpsDiffer DEF Write, Table

\* A non-empty set of naturals has a smallest element.
LEMMA SmallestOfNat ==
  ASSUME NEW T \in SUBSET Nat, T # {}
  PROVE  \E n \in T : \A m \in T : n <= m
<1> DEFINE R == {p \in Nat \X Nat : p[1] < p[2]}
<1>1. IsWellFoundedOn(R, Nat)
  BY NatLessThanWellFounded DEF OpToRel
<1> HIDE DEF R
<1>2. PICK n \in T : \A m \in T : ~(<<m, n>> \in R)
  BY <1>1, WFMin
<1>3. ASSUME NEW m \in T PROVE n <= m
  <2>1. ~(<<m, n>> \in R) /\ m \in Nat /\ n \in Nat
    BY <1>2
  <2>2. ~(m < n)
    BY <2>1 DEF R
  <2> QED BY <2>1, <2>2
<1> QED BY <1>3

LEMMA CommittedGrows ==
  ASSUME NEW w, NEW l \in Nat, NEW m \in Nat, l <= m
  PROVE  Committed(w, l) \subseteq Committed(w, m)
  BY DEF Committed

LEMMA CommittedRows ==
  ASSUME NEW w \in Seq(Entry), NEW l \in 0..Len(w)
  PROVE  Committed(w, l) \subseteq Row
  <1>1. \A i \in 1..l : w[i] \in Entry
    OBVIOUS
  <1>2. \A i \in 1..l : w[i].row \in Row
    BY <1>1 DEF Entry
  <1>3. QED
    BY <1>2 DEF Committed

LEMMA CommittedSame ==
  ASSUME NEW w \in Seq(Entry), NEW e \in Entry, NEW l \in 0..Len(w)
  PROVE  Committed(Append(w, e), l) = Committed(w, l)
  <1>1. \A i \in 1..l : Append(w, e)[i] = w[i]
    OBVIOUS
  <1>2. QED
    BY <1>1 DEF Committed

LEMMA CommittedNext ==
  ASSUME NEW w \in Seq(Entry), NEW e \in Entry
  PROVE  Committed(Append(w, e), Len(w) + 1)
            = Committed(w, Len(w)) \cup (IF e.kind = "commit" THEN {e.row} ELSE {})
  <1>1. \A i \in 1..Len(w) : Append(w, e)[i] = w[i]
    OBVIOUS
  <1>2. Append(w, e)[Len(w) + 1] = e
    OBVIOUS
  <1>3. Len(w) \in Nat /\ 1..(Len(w) + 1) = (1..Len(w)) \cup {Len(w) + 1}
    OBVIOUS
  <1>4. QED
    BY <1>1, <1>2, <1>3 DEF Committed

LEMMA AppendExtends ==
  ASSUME NEW w \in Seq(Entry), NEW e \in Entry
  PROVE  Extends(w, Append(w, e)) /\ Len(Append(w, e)) = Len(w) + 1
  <1>1. Append(w, e) \in Seq(Entry) /\ Len(Append(w, e)) = Len(w) + 1 /\ Len(w) \in Nat
    OBVIOUS
  <1>2. QED
    BY <1>1, CommittedSame DEF Extends

LEMMA SameExtends ==
  ASSUME NEW w \in Seq(Entry)
  PROVE  Extends(w, w)
  BY DEF Extends

LEMMA StaysCommitted ==
  ASSUME NEW w \in Seq(Entry), NEW w2, Extends(w, w2), NEW l \in 0..Len(w)
  PROVE  Committed(w, l) \subseteq Committed(w2, Len(w2)) /\ Committed(w2, l) = Committed(w, l)
  <1>1. Committed(w2, l) = Committed(w, l) /\ l \in Nat /\ Len(w2) \in Nat /\ l <= Len(w2)
    BY DEF Extends
  <1>2. QED
    BY <1>1, CommittedGrows

\* Node 0 shows the whole log, a replica what it has replayed.
ShownTo(n) == IF n = 0 THEN Len(wal) ELSE replayed[n]

LEMMA VisibleIsCommitted ==
  ASSUME BoardTypes, NEW n \in Node
  PROVE  /\ Visible(n) = Committed(wal, ShownTo(n))
         /\ ShownTo(n) \in 0..Len(wal)
         /\ Committed(wal, ShownTo(n)) \subseteq Committed(wal, Len(wal))
  <1>1. ShownTo(n) \in 0..Len(wal) /\ Len(wal) \in Nat
    BY DEF ShownTo, BoardTypes
  <1>2. Committed(wal, ShownTo(n)) \subseteq Committed(wal, Len(wal))
    BY <1>1, CommittedGrows
  <1>3. QED
    BY <1>1, <1>2 DEF Visible, CommittedBy, Committed, ShownTo
LEMMA ThreadStays ==
  ASSUME NEW w \in Seq(Entry), NEW w2, Extends(w, w2), NEW l \in 0..Len(w), NEW thread,
         HasThread(w, l, thread)
  PROVE  HasThread(w2, l, thread) /\ HasThread(w2, Len(w2), thread)
  <1>1. PICK row \in Committed(w, l) : row.table = "threads" /\ row.id = thread
    BY DEF HasThread
  <1>2. row \in Committed(w2, l) /\ row \in Committed(w2, Len(w2))
    BY <1>1, StaysCommitted
  <1>3. QED
    BY <1>1, <1>2 DEF HasThread

LEMMA MomentStays ==
  ASSUME NEW w \in Seq(Entry), NEW w2, Extends(w, w2), NEW thread, NEW seen,
         OneMoment(w, thread, seen)
  PROVE  OneMoment(w2, thread, seen)
  <1>1. PICK lsn \in 1..Len(w) :
            /\ HasThread(w, lsn, thread)
            /\ seen = {row \in Committed(w, lsn) : row.table = "posts" /\ row.thread = thread}
    BY DEF OneMoment
  <1>2. lsn \in 0..Len(w) /\ lsn \in 1..Len(w2)
    BY DEF Extends
  <1>3. Committed(w2, lsn) = Committed(w, lsn)
    BY <1>2, StaysCommitted
  <1>4. HasThread(w2, lsn, thread)
    BY <1>1, <1>3 DEF HasThread
  <1>5. QED
    BY <1>1, <1>2, <1>3, <1>4 DEF OneMoment

-----------------------------------------------------------------------------
(* What goes on elsewhere leaves answers and requests as good as they were. *)

LEMMA NothingStoredStays ==
  ASSUME NEW w, NEW w2, NEW o, NEW o2, NEW number, NothingStored(w, o, number),
         \A row \in Known(w2, o2) : row \in Known(w, o) \/ row.request # number
  PROVE  NothingStored(w2, o2, number)
  BY DEF NothingStored

LEMMA AnswerStays ==
  ASSUME NEW w \in Seq(Entry), NEW w2, Extends(w, w2), NEW o, NEW o2,
         NEW s \in Nat, NEW s2 \in Nat, s <= s2,
         NEW a \in Told, TrueAnswer(w, o, s, a),
         \A row \in Known(w2, o2) : row \in Known(w, o) \/ row.request # a.number
  PROVE  TrueAnswer(w2, o2, s2, a)
  <1>1. a.number \in 1..s2
    BY DEF TrueAnswer
  <1>2. a.position <= Len(w2)
    <2>1. a.position <= Len(w) /\ Len(w) <= Len(w2)
      BY DEF TrueAnswer, Extends
    <2>2. a.position \in Nat /\ Len(w) \in Nat /\ Len(w2) \in Nat
      BY DEF Told, Extends
    <2>3. QED
      BY <2>1, <2>2
  <1>3. a.status = 201 => a.row \subseteq Committed(w2, Len(w2))
    <2>1. Len(w) \in 0..Len(w)
      OBVIOUS
    <2>2. Committed(w, Len(w)) \subseteq Committed(w2, Len(w2))
      BY <2>1, StaysCommitted
    <2>3. QED
      BY <2>2 DEF TrueAnswer
  <1>4. a.status \in {400, 404} => NothingStored(w2, o2, a.number)
    BY NothingStoredStays DEF TrueAnswer
  <1>5. a.status = 200 => OneMoment(w2, a.thread, a.seen)
    BY MomentStays DEF TrueAnswer
  <1>6. QED
    BY <1>1, <1>2, <1>3, <1>4, <1>5 DEF TrueAnswer

LEMMA CoversStays ==
  ASSUME NEW w \in Seq(Entry), NEW w2, Extends(w, w2), NEW h, NEW p \in 0..Len(w),
         Covers(w, h, p)
  PROVE  Covers(w2, h, p)
  <1>1. Committed(w2, p) = Committed(w, p)
    BY StaysCommitted
  <1>2. QED
    BY <1>1 DEF Covers

LEMMA PositionsStayCovering ==
  ASSUME NEW w \in Seq(Entry), NEW w2, Extends(w, w2), NEW h \in Seq(Told),
         \A i \in 1..Len(h) : h[i].position <= Len(w),
         PositionsCover(w, h)
  PROVE  PositionsCover(w2, h)
  <1>1. ASSUME NEW i \in 1..Len(h), NEW k \in 1..Len(h),
               i <= k, h[i].status = 201, h[k].position # 0
        PROVE  h[i].row \subseteq Committed(w2, h[k].position)
    <2>1. h[k] \in Told
      OBVIOUS
    <2>2. h[k].position \in Nat /\ Len(w) \in Nat
      BY <2>1 DEF Told
    <2>3. h[k].position \in 0..Len(w)
      BY <2>2
    <2>4. Committed(w2, h[k].position) = Committed(w, h[k].position)
      BY <2>3, StaysCommitted
    <2>5. QED
      BY <1>1, <2>4 DEF PositionsCover
  <1>2. QED
    BY <1>1 DEF PositionsCover

LEMMA HistoryStays ==
  ASSUME NEW w \in Seq(Entry), NEW w2, Extends(w, w2), NEW o, NEW o2,
         NEW s \in Nat, NEW s2 \in Nat, s <= s2,
         NEW h \in Seq(Told), GoodHistory(w, o, s, h),
         \A i \in 1..Len(h) : \A row \in Known(w2, o2) :
            row \in Known(w, o) \/ row.request # h[i].number
  PROVE  GoodHistory(w2, o2, s2, h)
  <1>1. ASSUME NEW i \in 1..Len(h) PROVE TrueAnswer(w2, o2, s2, h[i])
    <2>1. h[i] \in Told /\ TrueAnswer(w, o, s, h[i])
      BY DEF GoodHistory
    <2>2. QED
      BY <2>1, AnswerStays
  <1>2. \A i \in 1..Len(h) : h[i].position <= Len(w)
    BY DEF GoodHistory, TrueAnswer
  <1>3. PositionsCover(w2, h)
    BY <1>2, PositionsStayCovering DEF GoodHistory
  <1>4. QED
    BY <1>1, <1>3 DEF GoodHistory

LEMMA CallStays ==
  ASSUME NEW w \in Seq(Entry), NEW w2, Extends(w, w2), NEW o, NEW o2,
         NEW s \in Nat, NEW s2 \in Nat, s <= s2,
         NEW r \in [Node \ {0} -> Nat], NEW r2 \in [Node \ {0} -> Nat],
         NEW h, NEW q \in Called, q.required <= Len(w),
         GoodCall(w, o, s, r, h, q),
         q.step \in {"insert"} \cup Reading =>
            \A row \in Known(w2, o2) : row \in Known(w, o) \/ row.request # q.number,
         (q.step \in {"thread", "posts"} /\ q.node # 0 /\ ~q.disturbed)
            => r2[q.node] >= r[q.node]
  PROVE  GoodCall(w2, o2, s2, r2, h, q)
  <1>1. q.step # "idle" => q.number \in 1..s2
    BY DEF GoodCall
  <1>2. q.step \in {"insert"} \cup Reading => NothingStored(w2, o2, q.number)
    BY NothingStoredStays DEF GoodCall
  <1>3. GoodWrite(w2, o2, q)
    <2>1. Len(w) \in 0..Len(w)
      OBVIOUS
    <2>2. Committed(w, Len(w)) \subseteq Committed(w2, Len(w2))
      BY <2>1, StaysCommitted
    <2>3. QED
      BY <2>2 DEF GoodCall, GoodWrite
  <1>4. q.step \in Reading => q.op = ViewThread /\ (q.node = 0 \/ Covers(w2, h, q.required))
    <2>1. q.required \in 0..Len(w)
      BY DEF Called
    <2>2. QED
      BY <2>1, CoversStays DEF GoodCall, GoodRead
  <1>5. q.step = "check" => q.node # 0
    BY DEF GoodCall, GoodRead
  <1>6. (q.step \in {"thread", "posts"} /\ q.node # 0 /\ ~q.disturbed) => r2[q.node] >= q.required
    <2>1. SUFFICES ASSUME q.step \in {"thread", "posts"}, q.node # 0, ~q.disturbed
                   PROVE  r2[q.node] >= q.required
      OBVIOUS
    <2>2. q.node \in Node \ {0} /\ q.required \in Nat
      BY <2>1 DEF Called
    <2>3. r[q.node] \in Nat /\ r2[q.node] \in Nat
      BY <2>2
    <2>4. r[q.node] >= q.required /\ r2[q.node] >= r[q.node]
      BY <2>1 DEF GoodCall, GoodRead
    <2>5. QED
      BY <2>2, <2>3, <2>4
  <1>7. q.step = "posts" => HasThread(w2, Len(w2), q.thread)
    <2>1. Len(w) \in 0..Len(w)
      OBVIOUS
    <2>2. QED
      BY <2>1, ThreadStays DEF GoodCall, GoodRead
  <1>8. GoodRead(w2, r2, h, q)
    BY <1>4, <1>5, <1>6, <1>7 DEF GoodRead
  <1>9. QED
    BY <1>1, <1>2, <1>3, <1>8 DEF GoodCall

\* One more answer.
LEMMA HistoryGrows ==
  ASSUME NEW w \in Seq(Entry), NEW o, NEW s \in Nat, NEW h \in Seq(Told), NEW a \in Told,
         GoodHistory(w, o, s, h), TrueAnswer(w, o, s, a),
         a.position # 0 =>
            a.row \subseteq Committed(w, a.position) /\ CoversAll(w, h, a.position),
         (a.op = ViewThread /\ ~a.disturbed) => ShowsAll(h, a)
  PROVE  GoodHistory(w, o, s, Append(h, a))
  <1> DEFINE g == Append(h, a)
             n == Len(h) + 1
  <1>1. g \in Seq(Told) /\ Len(g) = n /\ Len(h) \in Nat
    OBVIOUS
  <1>2. \A i \in 1..n : i \in 1..Len(h) \/ i = n
    BY <1>1
  <1>3. \A i \in 1..Len(h) : g[i] = h[i]
    OBVIOUS
  <1>4. g[n] = a
    OBVIOUS
  <1>5. n \notin 1..Len(h) /\ \A i \in 1..Len(h) : i < n
    BY <1>1
  <1> HIDE DEF g, n
  <1>6. \A i \in 1..n : TrueAnswer(w, o, s, g[i])
    BY <1>2, <1>3, <1>4 DEF GoodHistory
  <1>7. PositionsCover(w, g)
    <2>1. ASSUME NEW i \in 1..n, NEW k \in 1..n,
                 i <= k, g[i].status = 201, g[k].position # 0
          PROVE  g[i].row \subseteq Committed(w, g[k].position)
      <3>1. CASE k = n /\ i = n
        BY <3>1, <2>1, <1>4
      <3>2. CASE k = n /\ i \in 1..Len(h)
        BY <3>2, <2>1, <1>3, <1>4 DEF CoversAll
      <3>3. CASE k \in 1..Len(h)
        <4>1. i \in 1..Len(h)
          BY <3>3, <2>1, <1>2, <1>5, <1>1 DEF n
        <4>2. QED
          BY <4>1, <3>3, <2>1, <1>3 DEF GoodHistory, PositionsCover
      <3>4. QED
        BY <3>1, <3>2, <3>3, <1>2
    <2>2. QED
      BY <2>1, <1>1 DEF PositionsCover
  <1>8. SeesOwnWrites(g)
    <2>1. ASSUME NEW i \in 1..n, NEW k \in 1..n,
                 i < k, g[i].status = 201, g[k].op = ViewThread, ~g[k].disturbed
          PROVE  \A row \in g[i].row : Shows(g[k], row)
      <3>1. i \in 1..Len(h)
        BY <2>1, <1>1 DEF n
      <3>2. CASE k = n
        BY <3>1, <3>2, <2>1, <1>3, <1>4 DEF ShowsAll
      <3>3. CASE k \in 1..Len(h)
        BY <3>1, <3>3, <2>1, <1>3 DEF GoodHistory, SeesOwnWrites
      <3>4. QED
        BY <3>2, <3>3, <1>2
    <2>2. QED
      BY <2>1, <1>1 DEF SeesOwnWrites
  <1>9. QED
    BY <1>1, <1>6, <1>7, <1>8 DEF GoodHistory, g
-----------------------------------------------------------------------------
(* The three kinds of steps: a handler answers, a handler goes on, and the *)
(* database moves by itself.                                               *)

\* An answer ends a request, or refuses a bad one.
Replies(c, a) ==
    /\ history' = [history EXCEPT ![c] = Append(@, a)]
    /\ call' = [call EXCEPT ![c] = Idle]

LEMMA AnswerStep ==
  ASSUME BoardInv, NEW c \in Client, NEW a \in Told,
         Replies(c, a),
         UNCHANGED <<wal, open, replayed, restarts>>,
         last' \in [Table -> Nat],
         sent' \in Nat, sent <= sent',
         TrueAnswer(wal, open, sent', a),
         OnlyNumber(call, history, c, a.number),
         a.position # 0 =>
            a.row \subseteq Committed(wal, a.position) /\ CoversAll(wal, history[c], a.position),
         (a.op = ViewThread /\ ~a.disturbed) => ShowsAll(history[c], a)
  PROVE  BoardInv'
  <1> USE DEF BoardInv
  <1>1. /\ wal \in Seq(Entry) /\ sent \in Nat /\ Extends(wal, wal)
        /\ call \in [Client -> Called] /\ history \in [Client -> Seq(Told)]
        /\ replayed \in [Node \ {0} -> Nat]
    BY SameExtends DEF BoardTypes
  <1>2. /\ history'[c] = Append(history[c], a) /\ call'[c] = Idle
        /\ \A d \in Client : d # c => history'[d] = history[d] /\ call'[d] = call[d]
    BY <1>1 DEF Replies
  <1>3. Idle \in Called /\ Idle.step = "idle" /\ Idle.required = 0
    <2>1. Idle.node \in Node
      BY PostgresAssumption DEF Idle, Node
    <2>2. QED
      BY <2>1 DEF Idle, Called, Op
  <1>4. BoardTypes'
    <2>1. history' \in [Client -> Seq(Told)] /\ call' \in [Client -> Called]
      <3>1. Append(history[c], a) \in Seq(Told)
        BY <1>1
      <3>2. QED
        BY <1>1, <1>3, <3>1 DEF Replies
    <2>2. ASSUME NEW d \in Client PROVE call'[d].required <= Len(wal)
      <3>1. CASE d = c
        <4>1. call'[d].required = 0 /\ Len(wal) \in Nat
          BY <3>1, <1>1, <1>2, <1>3
        <4>2. QED
          BY <4>1
      <3>2. CASE d # c
        BY <3>2, <1>2 DEF BoardTypes
      <3>3. QED
        BY <3>1, <3>2
    <2>3. QED
      BY <2>1, <2>2 DEF BoardTypes
  <1>5. RowsOfRequests(wal, open, sent')
    BY <1>1 DEF RowsOfRequests
  <1>6. ASSUME NEW d \in Client PROVE GoodHistory(wal, open, sent', history'[d])
    <2>1. GoodHistory(wal, open, sent', history[d])
      <3>1. history[d] \in Seq(Told)
        BY <1>1
      <3>2. QED
        BY <1>1, <3>1, HistoryStays
    <2>2. CASE d # c
      BY <2>1, <2>2, <1>2
    <2>3. CASE d = c
      <3>1. history[c] \in Seq(Told)
        BY <1>1
      <3>2. GoodHistory(wal, open, sent', Append(history[c], a))
        BY <2>1, <2>3, <1>1, <3>1, HistoryGrows
      <3>3. QED
        BY <3>2, <2>3, <1>2
    <2>4. QED
      BY <2>2, <2>3
  <1>7. ASSUME NEW d \in Client
        PROVE  GoodCall(wal, open, sent', replayed, history'[d], call'[d])
    <2>1. CASE d # c
      <3>1. call[d] \in Called /\ call[d].required <= Len(wal)
        BY <1>1 DEF BoardTypes
      <3>2. \A n \in Node \ {0} : replayed[n] >= replayed[n]
        BY <1>1
      <3>3. call[d].node \in Node
        BY <3>1 DEF Called
      <3>4. GoodCall(wal, open, sent', replayed, history[d], call[d])
        BY <1>1, <3>1, <3>2, <3>3, CallStays
      <3>5. QED
        BY <3>4, <2>1, <1>2
    <2>2. CASE d = c
      BY <2>2, <1>2, <1>3 DEF GoodCall, GoodWrite, GoodRead, Reading
    <2>3. QED
      BY <2>1, <2>2
  <1>8. OneNumberEach(call', history')
    <2>1. ASSUME NEW d \in Client, call'[d].step # "idle", NEW e \in Client
          PROVE  /\ (e # d /\ call'[e].step # "idle") => call'[e].number # call'[d].number
                 /\ \A i \in 1..Len(history'[e]) : history'[e][i].number # call'[d].number
      <3>1. d # c /\ call'[d] = call[d]
        BY <2>1, <1>2, <1>3
      <3>2. (e # d /\ call'[e].step # "idle") => call'[e].number # call[d].number
        BY <2>1, <3>1, <1>2, <1>3 DEF OnlyNumber, OneNumberEach
      <3>3. \A i \in 1..Len(history[e]) : history[e][i].number # call[d].number
        BY <2>1, <3>1 DEF OnlyNumber, OneNumberEach
      <3>4. CASE e # c
        BY <3>1, <3>2, <3>3, <3>4, <1>2
      <3>5. CASE e = c
        <4>1. history[c] \in Seq(Told)
          BY <1>1
        <4>2. \A i \in 1..Len(history'[c]) :
                 \/ i \in 1..Len(history[c]) /\ history'[c][i] = history[c][i]
                 \/ history'[c][i] = a
          BY <4>1, <1>2
        <4>3. a.number # call[d].number
          BY <3>1, <2>1 DEF OnlyNumber
        <4>4. QED
          BY <3>1, <3>2, <3>3, <3>5, <4>2, <4>3
      <3>6. QED
        BY <3>4, <3>5
    <2>2. QED
      BY <2>1 DEF OnlyNumber, OneNumberEach
  <1>9. ThreadsFirst(wal, open)
    OBVIOUS
  <1>10. QED
    BY <1>4, <1>5, <1>6, <1>7, <1>8, <1>9

\* A request is received, or its handler goes on to the next statement.
LEMMA ContinueStep ==
  ASSUME BoardInv, NEW c \in Client, NEW q \in Called,
         Continue(c, q),
         UNCHANGED <<wal, open, last, replayed, restarts>>,
         sent' \in Nat, sent <= sent',
         q.step # "idle", q.required <= Len(wal),
         GoodCall(wal, open, sent', replayed, history[c], q),
         OnlyNumber(call, history, c, q.number)
  PROVE  BoardInv'
  <1> USE DEF BoardInv
  <1>1. /\ wal \in Seq(Entry) /\ sent \in Nat /\ Extends(wal, wal)
        /\ call \in [Client -> Called] /\ history \in [Client -> Seq(Told)]
        /\ replayed \in [Node \ {0} -> Nat]
    BY SameExtends DEF BoardTypes
  <1>2. /\ UNCHANGED history /\ call'[c] = q
        /\ \A d \in Client : d # c => call'[d] = call[d]
    BY <1>1 DEF Continue
  <1>3. BoardTypes'
    <2>1. call' \in [Client -> Called]
      BY <1>1 DEF Continue
    <2>2. \A d \in Client : call'[d].required <= Len(wal)
      BY <1>2 DEF BoardTypes
    <2>3. QED
      BY <1>2, <2>1, <2>2 DEF BoardTypes
  <1>4. RowsOfRequests(wal, open, sent')
    BY <1>1 DEF RowsOfRequests
  <1>5. ASSUME NEW d \in Client PROVE GoodHistory(wal, open, sent', history[d])
    <2>1. history[d] \in Seq(Told)
      BY <1>1
    <2>2. QED
      BY <1>1, <2>1, HistoryStays
  <1>6. ASSUME NEW d \in Client
        PROVE  GoodCall(wal, open, sent', replayed, history[d], call'[d])
    <2>1. CASE d # c
      <3>1. call[d] \in Called /\ call[d].required <= Len(wal)
        BY <1>1 DEF BoardTypes
      <3>2. \A n \in Node \ {0} : replayed[n] >= replayed[n]
        BY <1>1
      <3>3. call[d].node \in Node
        BY <3>1 DEF Called
      <3>4. GoodCall(wal, open, sent', replayed, history[d], call[d])
        BY <1>1, <3>1, <3>2, <3>3, CallStays
      <3>5. QED
        BY <3>4, <2>1, <1>2
    <2>2. CASE d = c
      BY <2>2, <1>2
    <2>3. QED
      BY <2>1, <2>2
  <1>7. OneNumberEach(call', history)
    <2>1. ASSUME NEW d \in Client, call'[d].step # "idle", NEW e \in Client
          PROVE  /\ (e # d /\ call'[e].step # "idle") => call'[e].number # call'[d].number
                 /\ \A i \in 1..Len(history[e]) : history[e][i].number # call'[d].number
      <3>1. CASE d = c
        BY <3>1, <2>1, <1>2 DEF OnlyNumber
      <3>2. CASE d # c /\ e = c
        BY <3>2, <2>1, <1>2 DEF OnlyNumber, OneNumberEach
      <3>3. CASE d # c /\ e # c
        BY <3>3, <2>1, <1>2 DEF OnlyNumber, OneNumberEach
      <3>4. QED
        BY <3>1, <3>2, <3>3
    <2>2. QED
      BY <2>1 DEF OnlyNumber, OneNumberEach
  <1>8. ThreadsFirst(wal, open)
    OBVIOUS
  <1>9. QED
    BY <1>2, <1>3, <1>4, <1>5, <1>6, <1>7, <1>8

\* The primary or a replica moves; no request does.
LEMMA DatabaseStep ==
  ASSUME BoardInv,
         UNCHANGED <<call, history, sent>>,
         Extends(wal, wal'), open' \subseteq Row, last' \in [Table -> Nat],
         replayed' \in [Node \ {0} -> Nat], restarts' \in Nat,
         \A n \in Node \ {0} : replayed'[n] <= Len(wal') /\ replayed[n] <= replayed'[n],
         Known(wal', open') \subseteq Known(wal, open),
         ThreadsFirst(wal', open')
  PROVE  BoardInv'
  <1> USE DEF BoardInv
  <1>1. /\ wal \in Seq(Entry) /\ sent \in Nat
        /\ call \in [Client -> Called] /\ history \in [Client -> Seq(Told)]
        /\ replayed \in [Node \ {0} -> Nat]
    BY DEF BoardTypes
  <1>2. BoardTypes'
    <2>1. \A d \in Client : call[d].required <= Len(wal')
      <3>1. Len(wal) <= Len(wal') /\ Len(wal) \in Nat /\ Len(wal') \in Nat
        BY <1>1 DEF Extends
      <3>2. \A d \in Client : call[d].required \in Nat /\ call[d].required <= Len(wal)
        BY <1>1 DEF BoardTypes, Called
      <3>3. QED
        BY <3>1, <3>2
    <2>2. QED
      BY <2>1 DEF BoardTypes, Extends
  <1>3. RowsOfRequests(wal', open', sent)
    BY DEF RowsOfRequests
  <1>4. ASSUME NEW d \in Client PROVE GoodHistory(wal', open', sent, history[d])
    <2>1. history[d] \in Seq(Told) /\ sent <= sent
      BY <1>1
    <2>2. QED
      BY <1>1, <2>1, HistoryStays
  <1>5. ASSUME NEW d \in Client
        PROVE  GoodCall(wal', open', sent, replayed', history[d], call[d])
    <2>1. call[d] \in Called /\ call[d].required <= Len(wal) /\ sent <= sent
      BY <1>1 DEF BoardTypes
    <2>2. call[d].node \in Node
      BY <2>1 DEF Called
    <2>3. call[d].node # 0 => replayed'[call[d].node] >= replayed[call[d].node]
      BY <2>2, <1>1
    <2>4. QED
      BY <1>1, <2>1, <2>3, CallStays
  <1>6. QED
    BY <1>2, <1>3, <1>4, <1>5

-----------------------------------------------------------------------------
(* What is known of the request of a handler that takes a step.            *)

LEMMA RequestFacts ==
  ASSUME BoardInv, NEW c \in Client
  PROVE  /\ wal \in Seq(Entry) /\ Len(wal) \in 0..Len(wal) /\ sent \in Nat
         /\ call[c] \in Called /\ call[c].required <= Len(wal)
         /\ history[c] \in Seq(Told)
         /\ GoodHistory(wal, open, sent, history[c])
         /\ GoodCall(wal, open, sent, replayed, history[c], call[c])
         /\ call[c].step # "idle" =>
               call[c].number \in 1..sent /\ OnlyNumber(call, history, c, call[c].number)
  BY DEF BoardInv, BoardTypes, GoodCall, OneNumberEach

\* The number of a request that comes is new.
LEMMA NewNumber ==
  ASSUME BoardInv
  PROVE  /\ sent + 1 \in Nat /\ sent \in Nat /\ sent <= sent + 1 /\ sent + 1 \in 1..(sent + 1)
         /\ NothingStored(wal, open, sent + 1)
         /\ \A c \in Client : OnlyNumber(call, history, c, sent + 1)
  <1>1. sent \in Nat
    BY DEF BoardInv, BoardTypes
  <1>2. ASSUME NEW row \in Known(wal, open) PROVE row.request # sent + 1
    <2>1. row.request \in 0..sent
      BY DEF BoardInv, RowsOfRequests
    <2>2. QED
      BY <1>1, <2>1
  <1>3. ASSUME NEW d \in Client, call[d].step # "idle" PROVE call[d].number # sent + 1
    <2>1. call[d].number \in 1..sent
      BY <1>3 DEF BoardInv, GoodCall
    <2>2. QED
      BY <1>1, <2>1
  <1>4. ASSUME NEW d \in Client, NEW i \in 1..Len(history[d])
        PROVE  history[d][i].number # sent + 1
    <2>1. history[d][i].number \in 1..sent
      BY DEF BoardInv, GoodHistory, TrueAnswer
    <2>2. QED
      BY <1>1, <2>1
  <1>5. QED
    BY <1>1, <1>2, <1>3, <1>4 DEF NothingStored, OnlyNumber

\* What is written in an answer.
AnswerOf(q, status, position, seen) ==
    [op |-> q.op, thread |-> q.thread, status |-> status, position |-> position,
     seen |-> seen, row |-> q.row, number |-> q.number, disturbed |-> q.disturbed]

AnswersCall(a, q) ==
    /\ a.op = q.op /\ a.thread = q.thread /\ a.row = q.row
    /\ a.number = q.number /\ a.disturbed = q.disturbed

LEMMA AnswerIsTold ==
  ASSUME NEW q \in Called, NEW status \in Status, NEW position \in Nat, NEW seen \in SUBSET Row
  PROVE  LET a == AnswerOf(q, status, position, seen)
         IN  /\ a \in Told /\ AnswersCall(a, q)
             /\ a.status = status /\ a.position = position /\ a.seen = seen
  BY DEF AnswerOf, AnswersCall, Called, Told

\* An answer without a position to a request in progress, all of whose claims
\* are those of its status.
LEMMA PlainAnswer ==
  ASSUME BoardInv, NEW c \in Client, call[c].step # "idle",
         NEW a \in Told, AnswersCall(a, call[c]), a.position = 0,
         Replies(c, a),
         UNCHANGED <<wal, open, replayed, restarts, sent>>,
         last' \in [Table -> Nat],
         a.status = 201 =>
            /\ a.op \in Write /\ a.row # {}
            /\ a.row \subseteq Committed(wal, Len(wal))
            /\ \A row \in a.row : row.table = TableOf(a.op),
         a.status \in {400, 404} => NothingStored(wal, open, a.number),
         a.status = 200 => OneMoment(wal, a.thread, a.seen),
         (a.op = ViewThread /\ ~a.disturbed) => ShowsAll(history[c], a)
  PROVE  BoardInv'
  <1>1. /\ call[c] \in Called /\ call[c].number \in 1..sent /\ sent \in Nat
        /\ OnlyNumber(call, history, c, call[c].number) /\ Len(wal) \in Nat
    BY RequestFacts
  <1>2. a.number = call[c].number
    BY DEF AnswersCall
  <1>3. sent' = sent /\ sent' \in Nat /\ sent <= sent'
    BY <1>1
  <1>4. TrueAnswer(wal, open, sent', a)
    BY <1>1, <1>2, <1>3 DEF TrueAnswer
  <1>5. OnlyNumber(call, history, c, a.number)
    BY <1>1, <1>2
  <1>6. QED
    BY <1>3, <1>4, <1>5, AnswerStep

\* The handler goes on with what it has, up to step, node and row.
LEMMA NextStatement ==
  ASSUME BoardInv, NEW c \in Client, call[c].step # "idle",
         NEW q \in Called, q.step # "idle",
         q.number = call[c].number, q.required = call[c].required,
         Continue(c, q),
         UNCHANGED <<wal, open, last, replayed, restarts, sent>>,
         q.step \in {"insert"} \cup Reading => call[c].step \in {"insert"} \cup Reading,
         GoodWrite(wal, open, q),
         GoodRead(wal, replayed, history[c], q)
  PROVE  BoardInv'
  <1>1. /\ sent \in Nat /\ sent <= sent /\ call[c].required <= Len(wal)
        /\ call[c].number \in 1..sent /\ OnlyNumber(call, history, c, call[c].number)
    BY RequestFacts
  <1>2. q.step \in {"insert"} \cup Reading => NothingStored(wal, open, q.number)
    BY RequestFacts DEF GoodCall
  <1>3. GoodCall(wal, open, sent, replayed, history[c], q)
    BY <1>1, <1>2 DEF GoodCall, Idle
  <1>4. sent' \in Nat /\ sent <= sent' /\ UNCHANGED <<wal, open, last, replayed, restarts>>
    BY <1>1
  <1>5. GoodCall(wal, open, sent', replayed, history[c], q)
    BY <1>3
  <1>6. q.required <= Len(wal) /\ OnlyNumber(call, history, c, q.number)
    BY <1>1
  <1>7. QED
    BY <1>4, <1>5, <1>6, ContinueStep

-----------------------------------------------------------------------------
(* The statements of a write.                                              *)

LEMMA ConfirmedRow ==
  ASSUME BoardInv, NEW c \in Client, call[c].step \in {"commit", "position"}
  PROVE  /\ call[c].step # "idle" /\ call[c].op \in Write /\ call[c].op # ViewThread
         /\ call[c].row # {} /\ \A row \in call[c].row : row.table = TableOf(call[c].op)
         /\ call[c].step = "position" => call[c].row \subseteq Committed(wal, Len(wal))
  BY RequestFacts, OpsDiffer DEF GoodCall, GoodWrite

LEMMA InsertReturnsPreserves ==
  ASSUME BoardInv, NEW c \in Client, InsertReturns(c)
  PROVE  BoardInv'
  <1>1. call[c].step = "commit" /\ call[c].row \subseteq Visible(0)
        /\ UNCHANGED <<wal, open, last, replayed, restarts, sent>>
    BY DEF InsertReturns
  <1>2. /\ call[c].step # "idle" /\ call[c].op \in Write /\ call[c].op # ViewThread
        /\ call[c].row # {} /\ \A row \in call[c].row : row.table = TableOf(call[c].op)
    BY <1>1, ConfirmedRow
  <1>3. call[c].row \subseteq Committed(wal, Len(wal))
    <2>1. 0 \in Node /\ BoardTypes
      BY PostgresAssumption DEF Node, BoardInv
    <2>2. Visible(0) \subseteq Committed(wal, Len(wal))
      BY <2>1, VisibleIsCommitted
    <2>3. QED
      BY <1>1, <2>2
  <1>4. call[c] \in Called /\ last \in [Table -> Nat]
    BY DEF BoardInv, BoardTypes
  <1>5. CASE call[c].op = NewUser
    <2> DEFINE a == AnswerOf(call[c], 201, 0, {})
    <2>1. Replies(c, a)
      BY <1>5 DEF InsertReturns, Answer, AnswerOf, Replies
    <2>2. a \in Told /\ AnswersCall(a, call[c]) /\ a.position = 0 /\ a.status = 201
      <3>1. 201 \in Status /\ 0 \in Nat /\ {} \in SUBSET Row
        BY DEF Status
      <3>2. QED
        BY <1>4, <3>1, AnswerIsTold
    <2> HIDE DEF a
    <2>3. a.op = call[c].op /\ a.row = call[c].row
      BY <2>2 DEF AnswersCall
    <2>4. QED
      BY <1>1, <1>2, <1>3, <1>4, <2>1, <2>2, <2>3, PlainAnswer
  <1>6. CASE call[c].op # NewUser
    <2> DEFINE q == [call[c] EXCEPT !.step = "position"]
    <2>1. Continue(c, q)
      BY <1>6 DEF InsertReturns
    <2>2. /\ q \in Called /\ q.step = "position" /\ q.number = call[c].number
          /\ q.required = call[c].required /\ q.op = call[c].op /\ q.row = call[c].row
      BY <1>4 DEF Called
    <2> HIDE DEF q
    <2>3. GoodWrite(wal, open, q)
      BY <1>2, <1>3, <1>6, <2>2 DEF GoodWrite
    <2>4. GoodRead(wal, replayed, history[c], q)
      BY <2>2 DEF GoodRead, Reading
    <2>5. q.step # "idle" /\ q.step \notin {"insert"} \cup Reading
      BY <2>2 DEF Reading
    <2>6. QED
      BY <1>1, <1>2, <2>1, <2>2, <2>3, <2>4, <2>5, NextStatement
  <1>7. QED
    BY <1>5, <1>6

LEMMA LookUpPositionPreserves ==
  ASSUME BoardInv, NEW c \in Client, LookUpPosition(c)
  PROVE  BoardInv'
  <1>1. PICK position \in {Len(wal), 0} : Answer(c, call[c], 201, position, {})
    BY DEF LookUpPosition, CurrentPosition
  <1>2. call[c].step = "position" /\ UNCHANGED <<wal, open, last, replayed, restarts, sent>>
    BY DEF LookUpPosition
  <1>3. /\ call[c].step # "idle" /\ call[c].op \in Write /\ call[c].op # ViewThread
        /\ call[c].row # {} /\ \A row \in call[c].row : row.table = TableOf(call[c].op)
        /\ call[c].row \subseteq Committed(wal, Len(wal))
    BY <1>2, ConfirmedRow
  <1>4. /\ call[c] \in Called /\ call[c].number \in 1..sent /\ sent \in Nat
        /\ OnlyNumber(call, history, c, call[c].number)
        /\ Len(wal) \in Nat /\ last \in [Table -> Nat]
        /\ GoodHistory(wal, open, sent, history[c])
    BY <1>3, RequestFacts DEF BoardInv, BoardTypes
  <1> DEFINE a == AnswerOf(call[c], 201, position, {})
  <1>5. 201 \in Status /\ position \in Nat /\ {} \in SUBSET Row /\ position <= Len(wal)
    BY <1>4 DEF Status
  <1>6. /\ a \in Told /\ a.op = call[c].op /\ a.status = 201
        /\ a.position = position /\ a.row = call[c].row /\ a.number = call[c].number
    BY <1>4, <1>5, AnswerIsTold DEF AnswersCall
  <1>7. Replies(c, a)
    BY <1>1 DEF Answer, AnswerOf, Replies
  <1> HIDE DEF a
  <1>8. sent' = sent /\ sent' \in Nat /\ sent <= sent' /\ last' \in [Table -> Nat]
        /\ UNCHANGED <<wal, open, replayed, restarts>>
    BY <1>2, <1>4
  <1>9. TrueAnswer(wal, open, sent', a)
    BY <1>3, <1>4, <1>5, <1>6, <1>8 DEF TrueAnswer
  <1>10. OnlyNumber(call, history, c, a.number)
    BY <1>4, <1>6
  <1>11. a.position # 0 =>
            a.row \subseteq Committed(wal, a.position) /\ CoversAll(wal, history[c], a.position)
    <2>1. a.position # 0 => a.position = Len(wal)
      BY <1>6
    <2>2. CoversAll(wal, history[c], Len(wal))
      BY <1>4 DEF GoodHistory, TrueAnswer, CoversAll
    <2>3. QED
      BY <2>1, <2>2, <1>3, <1>6
  <1>12. a.op # ViewThread
    BY <1>3, <1>6
  <1>13. QED
    BY <1>6, <1>7, <1>8, <1>9, <1>10, <1>11, <1>12, AnswerStep

LEMMA FailurePreserves ==
  ASSUME BoardInv, NEW c \in Client, CallFails(c) \/ InsertAborted(c)
  PROVE  BoardInv'
  <1> DEFINE a == AnswerOf(call[c], 500, 0, {})
  <1>1. UNCHANGED <<wal, open, last, replayed, restarts, sent>>
    BY DEF CallFails, InsertAborted
  <1>2. Replies(c, a)
    BY DEF CallFails, InsertAborted, ErrorStatus, Answer, AnswerOf, Replies
  <1>3. call[c].step # "idle"
    BY RequestFacts DEF CallFails, InsertAborted, GoodCall
  <1>4. call[c] \in Called /\ last' \in [Table -> Nat]
    BY <1>1 DEF BoardInv, BoardTypes
  <1>5. a \in Told /\ AnswersCall(a, call[c]) /\ a.position = 0 /\ a.status = 500
    BY <1>4, AnswerIsTold DEF Status
  <1> HIDE DEF a
  <1>6. ShowsAll(history[c], a)
    BY <1>5 DEF Shows, ShowsAll
  <1>7. QED
    BY <1>1, <1>2, <1>3, <1>4, <1>5, <1>6, PlainAnswer

\* INSERT violates a foreign key, or adds a row that is not yet committed.
LEMMA RefusedInsert ==
  ASSUME BoardInv, NEW c \in Client, call[c].step = "insert",
         RefuseRow(TableOf(call[c].op)), Answer(c, call[c], 404, 0, {}), UNCHANGED sent
  PROVE  BoardInv'
  <1>1. /\ call[c].step # "idle" /\ call[c].op \in Write /\ call[c].op # ViewThread
        /\ NothingStored(wal, open, call[c].number)
    BY RequestFacts, OpsDiffer DEF GoodCall, GoodWrite
  <1>2. UNCHANGED <<wal, open, replayed, restarts, sent>>
    BY DEF RefuseRow
  <1>3. last' \in [Table -> Nat]
    <2>1. TableOf(call[c].op) \in Table /\ last \in [Table -> Nat]
      BY <1>1, TableOfWrite DEF BoardInv, BoardTypes
    <2>2. last[TableOf(call[c].op)] + 1 \in Nat
      BY <2>1
    <2>3. QED
      BY <2>1, <2>2 DEF RefuseRow
  <1> DEFINE a == AnswerOf(call[c], 404, 0, {})
  <1>4. Replies(c, a)
    BY DEF Answer, AnswerOf, Replies
  <1>5. a \in Told /\ AnswersCall(a, call[c]) /\ a.position = 0 /\ a.status = 404
    BY RequestFacts, AnswerIsTold DEF Status
  <1> HIDE DEF a
  <1>6. a.op # ViewThread /\ NothingStored(wal, open, a.number)
    BY <1>1, <1>5 DEF AnswersCall
  <1>7. QED
    BY <1>1, <1>2, <1>3, <1>4, <1>5, <1>6, PlainAnswer

LEMMA ThreadsStayFirst ==
  ASSUME NEW w \in Seq(Entry), NEW e \in Entry, NEW o, NEW o2, ThreadsFirst(w, o),
         \A row \in o2 : row \in o \/ (row.table = "posts" => HasThread(w, Len(w), row.thread)),
         e.kind = "commit" => e.row \in o
  PROVE  ThreadsFirst(Append(w, e), o2)
  <1> DEFINE w2 == Append(w, e)
  <1>1. /\ Extends(w, w2) /\ Len(w2) = Len(w) + 1 /\ Len(w) \in Nat
        /\ Committed(w2, Len(w) + 1)
              = Committed(w, Len(w)) \cup (IF e.kind = "commit" THEN {e.row} ELSE {})
    BY AppendExtends, CommittedNext
  <1> HIDE DEF w2
  <1>2. ASSUME NEW row \in o2, row.table = "posts" PROVE HasThread(w2, Len(w2), row.thread)
    <2>1. HasThread(w, Len(w), row.thread)
      BY <1>2 DEF ThreadsFirst
    <2>2. Len(w) \in 0..Len(w)
      BY <1>1
    <2>3. QED
      BY <1>1, <2>1, <2>2, ThreadStays
  <1>3. ASSUME NEW lsn \in 1..Len(w2), NEW row \in Committed(w2, lsn), row.table = "posts"
        PROVE  HasThread(w2, lsn, row.thread)
    <2>1. CASE lsn \in 1..Len(w)
      <3>1. lsn \in 0..Len(w)
        BY <2>1
      <3>2. row \in Committed(w, lsn)
        BY <1>1, <3>1, StaysCommitted
      <3>3. HasThread(w, lsn, row.thread)
        BY <1>3, <2>1, <3>2 DEF ThreadsFirst
      <3>4. QED
        BY <1>1, <3>1, <3>3, ThreadStays
    <2>2. CASE lsn = Len(w) + 1
      <3>1. HasThread(w, Len(w), row.thread)
        <4>1. CASE row \in Committed(w, Len(w))
          <5>1. Len(w) \in 1..Len(w)
            BY <4>1, <1>1 DEF Committed
          <5>2. QED
            BY <1>3, <4>1, <5>1 DEF ThreadsFirst
        <4>2. CASE row \notin Committed(w, Len(w))
          <5>1. e.kind = "commit" /\ row = e.row
            BY <1>1, <1>3, <2>2, <4>2
          <5>2. QED
            BY <1>3, <5>1 DEF ThreadsFirst
        <4>3. QED
          BY <4>1, <4>2
      <3>2. Len(w) \in 0..Len(w)
        BY <1>1
      <3>3. HasThread(w2, Len(w2), row.thread)
        BY <1>1, <3>1, <3>2, ThreadStays
      <3>4. QED
        BY <1>1, <2>2, <3>3
    <2>3. QED
      BY <1>1, <2>1, <2>2
  <1>4. QED
    BY <1>2, <1>3 DEF ThreadsFirst, w2

LEMMA AcceptedInsert ==
  ASSUME BoardInv, NEW c \in Client, call[c].step = "insert",
         NEW row \in Row, row.table = TableOf(call[c].op), row.request = call[c].number,
         ~Violates(row), InsertRow(row), UNCHANGED sent,
         NEW q \in Called, Continue(c, q),
         q.step = "commit", q.row = {row}, q.op = call[c].op,
         q.number = call[c].number, q.required = call[c].required
  PROVE  BoardInv'
  <1> DEFINE e == [kind |-> "insert", row |-> row]
  <1>1. /\ wal \in Seq(Entry) /\ Len(wal) \in Nat /\ sent \in Nat /\ open \subseteq Row
        /\ call \in [Client -> Called] /\ history \in [Client -> Seq(Told)]
        /\ replayed \in [Node \ {0} -> Nat] /\ restarts \in Nat
        /\ last \in [Table -> Nat] /\ BoardTypes
    BY DEF BoardInv, BoardTypes
  <1>2. /\ wal' = Append(wal, e) /\ open' = open \cup {row}
        /\ last' = [last EXCEPT ![row.table] = row.id]
        /\ UNCHANGED <<replayed, restarts, history, sent>>
        /\ call' = [call EXCEPT ![c] = q]
    BY DEF InsertRow, Continue
  <1>3. e \in Entry /\ e.kind = "insert" /\ e.row = row
    BY DEF Entry
  <1> HIDE DEF e
  <1>4. /\ Extends(wal, wal') /\ wal' \in Seq(Entry) /\ Len(wal') = Len(wal) + 1
        /\ Committed(wal', Len(wal) + 1) = Committed(wal, Len(wal))
    BY <1>1, <1>2, <1>3, AppendExtends, CommittedNext DEF Extends
  <1>5. Known(wal', open') = Known(wal, open) \cup {row}
    BY <1>2, <1>4 DEF Known
  <1>6. call'[c] = q /\ \A d \in Client : d # c => call'[d] = call[d]
    BY <1>1, <1>2
  <1>7. /\ call[c].number \in 1..sent /\ call[c].required <= Len(wal) /\ call[c].op \in Write
        /\ OnlyNumber(call, history, c, call[c].number)
    BY RequestFacts DEF GoodCall, GoodWrite
  <1>8. BoardTypes'
    <2>1. last' \in [Table -> Nat]
      BY <1>1, <1>2 DEF Row
    <2>2. ASSUME NEW d \in Client PROVE call'[d].required <= Len(wal')
      <3>1. call[d].required \in Nat /\ call[d].required <= Len(wal)
        BY <1>1 DEF BoardTypes, Called
      <3>2. call'[d].required = call[d].required
        BY <1>6
      <3>3. QED
        BY <1>1, <1>4, <3>1, <3>2
    <2>3. call' \in [Client -> Called] /\ open' \subseteq Row
      BY <1>1, <1>2
    <2>4. ASSUME NEW n \in Node \ {0} PROVE replayed[n] <= Len(wal')
      <3>1. replayed[n] \in Nat /\ replayed[n] <= Len(wal)
        BY <1>1 DEF BoardTypes
      <3>2. QED
        BY <1>1, <1>4, <3>1
    <2>5. QED
      BY <1>1, <1>2, <1>4, <2>1, <2>2, <2>3, <2>4 DEF BoardTypes
  <1>9. ThreadsFirst(wal', open')
    <2>1. row.table = "posts" => HasThread(wal, Len(wal), row.thread)
      <3>1. 0 \in Node
        BY PostgresAssumption DEF Node
      <3>2. Visible(0) = Committed(wal, Len(wal))
        BY <1>1, <3>1, VisibleIsCommitted DEF ShownTo
      <3>3. QED
        BY <3>2 DEF Violates, Exists, HasThread
    <2>2. ThreadsFirst(wal, open)
      BY DEF BoardInv
    <2>3. \A r \in open' :
             r \in open \/ (r.table = "posts" => HasThread(wal, Len(wal), r.thread))
      BY <1>2, <2>1
    <2>4. e.kind # "commit"
      BY <1>3
    <2>5. ThreadsFirst(Append(wal, e), open')
      BY <1>1, <1>3, <2>2, <2>3, <2>4, ThreadsStayFirst
    <2>6. QED
      BY <1>2, <2>5
  <1>10. RowsOfRequests(wal', open', sent)
    <2>1. call[c].number \in 0..sent
      BY <1>1, <1>7
    <2>2. QED
      BY <1>5, <2>1 DEF BoardInv, RowsOfRequests
  <1>11. ASSUME NEW d \in Client PROVE GoodHistory(wal', open', sent, history[d])
    <2>1. history[d] \in Seq(Told) /\ sent <= sent /\ GoodHistory(wal, open, sent, history[d])
      BY <1>1 DEF BoardInv
    <2>2. \A i \in 1..Len(history[d]) : \A r \in Known(wal', open') :
             r \in Known(wal, open) \/ r.request # history[d][i].number
      BY <1>5, <1>7 DEF OnlyNumber
    <2>3. QED
      BY <1>1, <1>4, <2>1, <2>2, HistoryStays
  <1>12. ASSUME NEW d \in Client
         PROVE  GoodCall(wal', open', sent, replayed, history[d], call'[d])
    <2>1. CASE d # c
      <3>1. call[d] \in Called /\ call[d].required <= Len(wal) /\ sent <= sent
            /\ GoodCall(wal, open, sent, replayed, history[d], call[d])
        BY <1>1 DEF BoardTypes, BoardInv
      <3>2. call[d].node \in Node
        BY <3>1 DEF Called
      <3>3. call[d].node # 0 => replayed[call[d].node] >= replayed[call[d].node]
        BY <1>1, <3>2
      <3>4. call[d].step \in {"insert"} \cup Reading => \A r \in Known(wal', open') :
               r \in Known(wal, open) \/ r.request # call[d].number
        BY <1>5, <1>7, <2>1 DEF Reading, OnlyNumber
      <3>5. GoodCall(wal', open', sent, replayed, history[d], call[d])
        BY <1>1, <1>4, <3>1, <3>3, <3>4, CallStays
      <3>6. QED
        BY <2>1, <3>5, <1>6
    <2>2. CASE d = c
      <3>1. GoodWrite(wal', open', q) /\ GoodRead(wal', replayed, history[c], q)
        BY <1>7 DEF GoodWrite, GoodRead, Reading
      <3>2. q.step # "idle" /\ q # Idle /\ q.step \notin {"insert"} \cup Reading
        BY DEF Idle, Reading
      <3>3. GoodCall(wal', open', sent, replayed, history[c], q)
        BY <1>7, <3>1, <3>2 DEF GoodCall
      <3>4. QED
        BY <2>2, <3>3, <1>6
    <2>3. QED
      BY <2>1, <2>2
  <1>13. OneNumberEach(call', history)
    <2>1. ASSUME NEW d \in Client, call'[d].step # "idle", NEW f \in Client
          PROVE  /\ (f # d /\ call'[f].step # "idle") => call'[f].number # call'[d].number
                 /\ \A i \in 1..Len(history[f]) : history[f][i].number # call'[d].number
      <3>1. call[d].step # "idle" /\ call'[d].number = call[d].number
        BY <1>6, <2>1
      <3>2. call'[f].step # "idle" => call[f].step # "idle" /\ call'[f].number = call[f].number
        BY <1>6
      <3>3. QED
        BY <3>1, <3>2 DEF BoardInv, OneNumberEach, OnlyNumber
    <2>2. QED
      BY <2>1 DEF OneNumberEach, OnlyNumber
  <1>14. QED
    BY <1>2, <1>8, <1>9, <1>10, <1>11, <1>12, <1>13 DEF BoardInv

LEMMA InsertPreserves ==
  ASSUME BoardInv, NEW c \in Client, Insert(c)
  PROVE  BoardInv'
  <1> DEFINE table == TableOf(call[c].op)
             row   == [table |-> table, id |-> last[table] + 1, author |-> call[c].author,
                       thread |-> call[c].thread, request |-> call[c].number]
             q     == [call[c] EXCEPT !.step = "commit", !.row = {row}]
  <1>1. call[c].step = "insert" /\ UNCHANGED sent
    BY DEF Insert
  <1>2. CASE Violates(row)
    <2>1. RefuseRow(table) /\ Answer(c, call[c], 404, 0, {})
      BY <1>2 DEF Insert
    <2>2. QED
      BY <1>1, <2>1, RefusedInsert
  <1>3. CASE ~Violates(row)
    <2>1. InsertRow(row) /\ Continue(c, q)
      BY <1>3 DEF Insert
    <2>2. call[c] \in Called /\ call[c].op \in Write /\ last \in [Table -> Nat]
      BY <1>1, RequestFacts DEF GoodCall, GoodWrite, BoardInv, BoardTypes
    <2>3. table \in Table
      BY <2>2, TableOfWrite
    <2>4. last[table] + 1 \in Nat \ {0} /\ call[c].author \in Nat /\ call[c].thread \in Nat
          /\ call[c].number \in Nat
      BY <2>2, <2>3 DEF Called
    <2> HIDE DEF table
    <2>5. row \in Row /\ row.table = table /\ row.request = call[c].number
      BY <2>3, <2>4 DEF Row
    <2> HIDE DEF row
    <2>6. /\ q \in Called /\ q.step = "commit" /\ q.row = {row} /\ q.op = call[c].op
          /\ q.number = call[c].number /\ q.required = call[c].required
      BY <2>2, <2>5 DEF Called
    <2> HIDE DEF q
    <2>7. row.table = TableOf(call[c].op)
      BY <2>5 DEF table
    <2>8. QED
      BY <1>1, <1>3, <2>1, <2>5, <2>6, <2>7, AcceptedInsert
  <1>4. QED
    BY <1>2, <1>3

-----------------------------------------------------------------------------
(* The statements of a read.                                               *)

\* What a read that has not been disturbed is served contains what earlier
\* answers have confirmed.
LEMMA ReadsCover ==
  ASSUME BoardInv, NEW c \in Client, call[c].step \in {"thread", "posts"},
         ~call[c].disturbed, NEW i \in 1..Len(history[c]), history[c][i].status = 201,
         NEW row \in history[c][i].row, row.table # "users"
  PROVE  row \in Committed(wal, ShownTo(call[c].node))
  <1>1. /\ wal \in Seq(Entry) /\ Len(wal) \in Nat /\ call[c] \in Called
        /\ TrueAnswer(wal, open, sent, history[c][i])
        /\ GoodRead(wal, replayed, history[c], call[c])
        /\ replayed \in [Node \ {0} -> Nat]
    <2>1. /\ GoodHistory(wal, open, sent, history[c])
          /\ GoodCall(wal, open, sent, replayed, history[c], call[c])
      BY RequestFacts
    <2>2. /\ TrueAnswer(wal, open, sent, history[c][i])
          /\ GoodRead(wal, replayed, history[c], call[c])
      BY <2>1 DEF GoodHistory, GoodCall
    <2>3. wal \in Seq(Entry) /\ call[c] \in Called /\ replayed \in [Node \ {0} -> Nat]
      BY DEF BoardInv, BoardTypes
    <2>4. QED
      BY <2>2, <2>3
  <1>2. history[c][i].op # NewUser /\ row \in Committed(wal, Len(wal))
    BY <1>1, TableOfWrite DEF TrueAnswer
  <1>3. CASE call[c].node = 0
    BY <1>2, <1>3 DEF ShownTo
  <1>4. CASE call[c].node # 0
    <2>1. Covers(wal, history[c], call[c].required)
      BY <1>1, <1>4 DEF GoodRead, Reading
    <2>2. row \in Committed(wal, call[c].required)
      BY <1>2, <2>1 DEF Covers
    <2>3. replayed[call[c].node] >= call[c].required
      BY <1>1, <1>4 DEF GoodRead
    <2>4. call[c].required \in Nat /\ call[c].node \in Node \ {0}
      BY <1>1, <1>4 DEF Called
    <2>5. replayed[call[c].node] \in Nat
      BY <1>1, <2>4
    <2>6. Committed(wal, call[c].required) \subseteq Committed(wal, replayed[call[c].node])
      BY <2>3, <2>4, <2>5, CommittedGrows
    <2>7. QED
      BY <1>4, <2>2, <2>6 DEF ShownTo
  <1>5. QED
    BY <1>3, <1>4

LEMMA ReadFacts ==
  ASSUME BoardInv, NEW c \in Client, call[c].step \in Reading
  PROVE  /\ call[c] \in Called /\ call[c].op = ViewThread /\ call[c].step # "idle"
         /\ NothingStored(wal, open, call[c].number)
         /\ GoodRead(wal, replayed, history[c], call[c])
         /\ call[c].node \in Node /\ BoardTypes
         /\ last \in [Table -> Nat]
  BY RequestFacts DEF GoodCall, GoodRead, Reading, Called, BoardInv, BoardTypes

LEMMA CheckReplicaPreserves ==
  ASSUME BoardInv, NEW c \in Client, CheckReplica(c)
  PROVE  BoardInv'
  <1>1. call[c].step = "check" /\ UNCHANGED <<wal, open, last, replayed, restarts, sent>>
    BY DEF CheckReplica
  <1>2. /\ call[c] \in Called /\ call[c].op = ViewThread /\ call[c].step # "idle"
        /\ call[c].node \in Node /\ GoodRead(wal, replayed, history[c], call[c])
    BY <1>1, ReadFacts DEF Reading
  <1>3. call[c].node # 0 /\ Covers(wal, history[c], call[c].required)
    BY <1>1, <1>2 DEF GoodRead, Reading
  <1>4. CASE CaughtUp(call[c].node, call[c].required)
    <2> DEFINE q == [call[c] EXCEPT !.step = "thread"]
    <2>1. Continue(c, q)
      BY <1>4 DEF CheckReplica
    <2>2. /\ q \in Called /\ q.step = "thread" /\ q.number = call[c].number
          /\ q.required = call[c].required /\ q.op = call[c].op /\ q.node = call[c].node
      BY <1>2 DEF Called
    <2> HIDE DEF q
    <2>3. GoodWrite(wal, open, q)
      BY <2>2 DEF GoodWrite
    <2>4. GoodRead(wal, replayed, history[c], q)
      BY <1>2, <1>3, <1>4, <2>2 DEF GoodRead, CaughtUp
    <2>5. q.step # "idle" /\ call[c].step \in Reading
      BY <1>1, <2>2 DEF Reading
    <2>6. QED
      BY <1>1, <1>2, <2>1, <2>2, <2>3, <2>4, <2>5, NextStatement
  <1>5. CASE ~CaughtUp(call[c].node, call[c].required) /\ call[c].node < Replicas
    <2> DEFINE q == [call[c] EXCEPT !.step = "check", !.node = call[c].node + 1]
    <2>1. Continue(c, q)
      BY <1>5 DEF CheckReplica, NextCandidate
    <2>2. call[c].node + 1 \in Node \ {0}
      BY <1>2, <1>5, PostgresAssumption DEF Node
    <2>3. /\ q \in Called /\ q.step = "check" /\ q.number = call[c].number
          /\ q.required = call[c].required /\ q.op = call[c].op /\ q.node # 0
      BY <1>2, <2>2 DEF Called
    <2> HIDE DEF q
    <2>4. GoodWrite(wal, open, q)
      BY <2>3 DEF GoodWrite
    <2>5. GoodRead(wal, replayed, history[c], q)
      BY <1>2, <1>3, <2>3 DEF GoodRead
    <2>6. q.step # "idle" /\ call[c].step \in Reading
      BY <1>1, <2>3 DEF Reading
    <2>7. QED
      BY <1>1, <1>2, <2>1, <2>3, <2>4, <2>5, <2>6, NextStatement
  <1>6. CASE ~CaughtUp(call[c].node, call[c].required) /\ ~(call[c].node < Replicas)
    <2> DEFINE q == [call[c] EXCEPT !.step = "thread", !.node = 0]
    <2>1. Continue(c, q)
      BY <1>6 DEF CheckReplica, NextCandidate
    <2>2. 0 \in Node
      BY PostgresAssumption DEF Node
    <2>3. /\ q \in Called /\ q.step = "thread" /\ q.number = call[c].number
          /\ q.required = call[c].required /\ q.op = call[c].op /\ q.node = 0
      BY <1>2, <2>2 DEF Called
    <2> HIDE DEF q
    <2>4. GoodWrite(wal, open, q)
      BY <2>3 DEF GoodWrite
    <2>5. GoodRead(wal, replayed, history[c], q)
      BY <1>2, <2>3 DEF GoodRead
    <2>6. q.step # "idle" /\ call[c].step \in Reading
      BY <1>1, <2>3 DEF Reading
    <2>7. QED
      BY <1>1, <1>2, <2>1, <2>3, <2>4, <2>5, <2>6, NextStatement
  <1>7. QED
    BY <1>4, <1>5, <1>6

LEMMA FetchThreadPreserves ==
  ASSUME BoardInv, NEW c \in Client, FetchThread(c)
  PROVE  BoardInv'
  <1>1. call[c].step = "thread" /\ UNCHANGED <<wal, open, last, replayed, restarts, sent>>
    BY DEF FetchThread
  <1>2. /\ call[c] \in Called /\ call[c].op = ViewThread /\ call[c].step # "idle"
        /\ call[c].node \in Node /\ GoodRead(wal, replayed, history[c], call[c])
        /\ NothingStored(wal, open, call[c].number)
        /\ BoardTypes /\ last \in [Table -> Nat]
    BY <1>1, ReadFacts DEF Reading
  <1>3. /\ Visible(call[c].node) = Committed(wal, ShownTo(call[c].node))
        /\ ShownTo(call[c].node) \in 0..Len(wal)
        /\ Visible(call[c].node) \subseteq Committed(wal, Len(wal))
    BY <1>2, VisibleIsCommitted
  <1>4. CASE Exists(call[c].node, "threads", call[c].thread)
    <2> DEFINE q == [call[c] EXCEPT !.step = "posts"]
    <2>1. Continue(c, q)
      BY <1>4 DEF FetchThread
    <2>2. /\ q \in Called /\ q.step = "posts" /\ q.number = call[c].number
          /\ q.required = call[c].required /\ q.op = call[c].op /\ q.node = call[c].node
          /\ q.thread = call[c].thread /\ q.disturbed = call[c].disturbed
      BY <1>2 DEF Called
    <2> HIDE DEF q
    <2>3. GoodWrite(wal, open, q)
      BY <2>2 DEF GoodWrite
    <2>4. HasThread(wal, Len(wal), q.thread)
      BY <1>3, <1>4, <2>2 DEF Exists, HasThread
    <2>5. GoodRead(wal, replayed, history[c], q)
      BY <1>1, <1>2, <2>2, <2>4 DEF GoodRead, Reading
    <2>6. q.step # "idle" /\ call[c].step \in Reading
      BY <1>1, <2>2 DEF Reading
    <2>7. QED
      BY <1>1, <1>2, <2>1, <2>2, <2>3, <2>5, <2>6, NextStatement
  <1>5. CASE ~Exists(call[c].node, "threads", call[c].thread)
    <2> DEFINE a == AnswerOf(call[c], 404, 0, {})
    <2>1. Replies(c, a)
      BY <1>5 DEF FetchThread, Answer, AnswerOf, Replies
    <2>2. a \in Told /\ AnswersCall(a, call[c]) /\ a.position = 0 /\ a.status = 404
      <3>1. 404 \in Status /\ 0 \in Nat /\ {} \in SUBSET Row
        BY DEF Status
      <3>2. QED
        BY <1>2, <3>1, AnswerIsTold
    <2> HIDE DEF a
    <2>3. a.op = call[c].op /\ a.thread = call[c].thread /\ a.number = call[c].number
          /\ a.disturbed = call[c].disturbed
      BY <2>2 DEF AnswersCall
    <2>4. ASSUME ~a.disturbed, NEW i \in 1..Len(history[c]), history[c][i].status = 201,
                 NEW row \in history[c][i].row
          PROVE  Shows(a, row)
      <3>1. ASSUME row.table \in {"threads", "posts"}
            PROVE  row \in Committed(wal, ShownTo(call[c].node))
        <4>1. row.table # "users" /\ call[c].step \in {"thread", "posts"} /\ ~call[c].disturbed
          BY <3>1, <1>1, <2>3, <2>4
        <4>2. QED
          BY <4>1, <2>4, ReadsCover
      <3>2. ~(row.table = "threads" /\ row.id = a.thread)
        BY <3>1, <1>3, <1>5, <2>3 DEF Exists
      <3>3. ~(row.table = "posts" /\ row.thread = a.thread)
        <4>1. SUFFICES ASSUME row.table = "posts", row.thread = a.thread PROVE FALSE
          OBVIOUS
        <4>2. row \in Committed(wal, ShownTo(call[c].node))
          BY <3>1, <4>1
        <4>3. ShownTo(call[c].node) \in 1..Len(wal)
          BY <4>2, <1>3 DEF Committed
        <4>4. HasThread(wal, ShownTo(call[c].node), row.thread)
          BY <4>1, <4>2, <4>3 DEF BoardInv, ThreadsFirst
        <4>5. QED
          BY <4>1, <4>4, <1>3, <1>5, <2>3 DEF HasThread, Exists
      <3>4. QED
        BY <3>2, <3>3 DEF Shows
    <2>5. ~a.disturbed => ShowsAll(history[c], a)
      BY <2>4 DEF ShowsAll
    <2>6. NothingStored(wal, open, a.number)
      BY <1>2, <2>3
    <2>7. QED
      BY <1>1, <1>2, <2>1, <2>2, <2>5, <2>6, PlainAnswer
  <1>6. QED
    BY <1>4, <1>5

\* A thread has no posts at the position where it appears.
LEMMA FirstMoment ==
  ASSUME NEW w \in Seq(Entry), NEW o, ThreadsFirst(w, o), NEW thread,
         HasThread(w, Len(w), thread)
  PROVE  OneMoment(w, thread, {})
  <1> DEFINE T == {l \in 1..Len(w) : HasThread(w, l, thread)}
  <1>1. Len(w) \in Nat
    OBVIOUS
  <1>2. Len(w) \in T
    <2>1. Len(w) \in 1..Len(w)
      BY <1>1 DEF HasThread, Committed
    <2>2. QED
      BY <2>1
  <1>3. PICK l \in T : \A m \in T : l <= m
    <2>1. T \in SUBSET Nat /\ T # {}
      BY <1>2
    <2> HIDE DEF T
    <2>2. QED
      BY <2>1, SmallestOfNat
  <1>4. l \in 1..Len(w) /\ HasThread(w, l, thread) /\ l \in Nat
    BY <1>3
  <1>5. ASSUME NEW m \in 1..Len(w), m < l PROVE ~HasThread(w, m, thread)
    BY <1>3, <1>4, <1>5
  <1>6. ASSUME NEW row \in Committed(w, l), row.table = "posts", row.thread = thread PROVE FALSE
    <2>1. PICK j \in 1..l : w[j].kind = "commit" /\ row = w[j].row
      BY DEF Committed
    <2>2. PICK r \in Committed(w, l) : r.table = "threads" /\ r.id = thread
      BY <1>4 DEF HasThread
    <2>3. PICK k \in 1..l : w[k].kind = "commit" /\ r = w[k].row
      BY <2>2 DEF Committed
    <2>4. j \in Nat /\ k \in Nat /\ j \in 1..Len(w) /\ k \in 1..Len(w)
      BY <1>1, <1>4
    <2>5. j # k
      BY <1>6, <2>1, <2>2, <2>3
    <2>6. row \in Committed(w, j) /\ r \in Committed(w, k)
      <3>1. j \in 1..j /\ k \in 1..k
        BY <2>4
      <3>2. QED
        BY <3>1, <2>1, <2>3 DEF Committed
    <2>7. HasThread(w, j, thread)
      BY <1>6, <2>4, <2>6 DEF ThreadsFirst
    <2>8. HasThread(w, k, thread)
      BY <2>2, <2>6 DEF HasThread
    <2>9. ~(j < l) /\ ~(k < l)
      BY <1>5, <2>4, <2>7, <2>8
    <2>10. j = l /\ k = l
      BY <2>4, <2>9, <1>4
    <2>11. QED
      BY <2>5, <2>10
  <1>7. {} = {row \in Committed(w, l) : row.table = "posts" /\ row.thread = thread}
    BY <1>6
  <1>8. QED
    BY <1>4, <1>7 DEF OneMoment

LEMMA FetchPostsPreserves ==
  ASSUME BoardInv, NEW c \in Client, FetchPosts(c)
  PROVE  BoardInv'
  <1> DEFINE seen == PostsOf(call[c].node, call[c].thread)
             a    == AnswerOf(call[c], 200, 0, seen)
  <1>1. /\ call[c].step = "posts" /\ Answer(c, call[c], 200, 0, seen)
        /\ UNCHANGED <<wal, open, last, replayed, restarts, sent>>
    BY DEF FetchPosts
  <1>2. /\ call[c] \in Called /\ call[c].op = ViewThread /\ call[c].step # "idle"
        /\ call[c].node \in Node /\ GoodRead(wal, replayed, history[c], call[c])
        /\ BoardTypes /\ wal \in Seq(Entry) /\ last \in [Table -> Nat]
    BY <1>1, ReadFacts DEF Reading, BoardTypes
  <1>3. /\ Visible(call[c].node) = Committed(wal, ShownTo(call[c].node))
        /\ ShownTo(call[c].node) \in 0..Len(wal)
    BY <1>2, VisibleIsCommitted
  <1>4. seen = {row \in Committed(wal, ShownTo(call[c].node)) :
                   row.table = "posts" /\ row.thread = call[c].thread}
    BY <1>3 DEF PostsOf
  <1>5. seen \in SUBSET Row
    <2>1. Committed(wal, ShownTo(call[c].node)) \subseteq Row
      BY <1>2, <1>3, CommittedRows
    <2>2. QED
      BY <1>4, <2>1
  <1>6. Replies(c, a)
    BY <1>1 DEF Answer, AnswerOf, Replies
  <1> HIDE DEF seen
  <1>7. /\ a \in Told /\ AnswersCall(a, call[c]) /\ a.position = 0 /\ a.status = 200
        /\ a.seen = seen
    BY <1>2, <1>5, AnswerIsTold DEF Status
  <1> HIDE DEF a
  <1>8. a.op = call[c].op /\ a.thread = call[c].thread /\ a.disturbed = call[c].disturbed
    BY <1>7 DEF AnswersCall
  <1>9. OneMoment(wal, call[c].thread, seen)
    <2>1. CASE HasThread(wal, ShownTo(call[c].node), call[c].thread)
      <3>1. ShownTo(call[c].node) \in 1..Len(wal)
        BY <1>3, <2>1 DEF HasThread, Committed
      <3>2. QED
        BY <2>1, <3>1, <1>4 DEF OneMoment
    <2>2. CASE ~HasThread(wal, ShownTo(call[c].node), call[c].thread)
      <3>1. ASSUME NEW row \in seen PROVE FALSE
        <4>1. /\ row \in Committed(wal, ShownTo(call[c].node))
              /\ row.table = "posts" /\ row.thread = call[c].thread
          BY <3>1, <1>4
        <4>2. ShownTo(call[c].node) \in 1..Len(wal)
          BY <4>1, <1>3 DEF Committed
        <4>3. HasThread(wal, ShownTo(call[c].node), row.thread)
          BY <4>1, <4>2 DEF BoardInv, ThreadsFirst
        <4>4. QED
          BY <2>2, <4>1, <4>3
      <3>2. seen = {}
        BY <3>1
      <3>3. ThreadsFirst(wal, open) /\ HasThread(wal, Len(wal), call[c].thread)
        BY <1>1, <1>2 DEF BoardInv, GoodRead
      <3>4. QED
        BY <1>2, <3>2, <3>3, FirstMoment
    <2>3. QED
      BY <2>1, <2>2
  <1>10. ASSUME ~a.disturbed, NEW i \in 1..Len(history[c]), history[c][i].status = 201,
                NEW row \in history[c][i].row
         PROVE  Shows(a, row)
    <2>1. ASSUME row.table = "posts", row.thread = a.thread PROVE row \in a.seen
      <3>1. row.table # "users" /\ call[c].step \in {"thread", "posts"} /\ ~call[c].disturbed
        BY <2>1, <1>1, <1>8, <1>10
      <3>2. row \in Committed(wal, ShownTo(call[c].node))
        BY <3>1, <1>10, ReadsCover
      <3>3. QED
        BY <2>1, <3>2, <1>4, <1>7, <1>8
    <2>2. QED
      BY <2>1, <1>7 DEF Shows
  <1>11. ~a.disturbed => ShowsAll(history[c], a)
    BY <1>10 DEF ShowsAll
  <1>12. OneMoment(wal, a.thread, a.seen)
    BY <1>7, <1>8, <1>9
  <1>13. QED
    BY <1>1, <1>2, <1>6, <1>7, <1>11, <1>12, PlainAnswer

-----------------------------------------------------------------------------
(* Requests arrive.                                                        *)

LEMMA IdleFacts ==
  /\ Idle \in Called /\ Idle.step = "idle" /\ Idle.op = ViewThread /\ Idle.row = {}
  /\ Idle.number = 0 /\ Idle.disturbed = FALSE
  <1>1. Idle.node \in Node
    BY PostgresAssumption DEF Idle, Node
  <1>2. QED
    BY <1>1 DEF Idle, Called, Op

LEMMA BadRequestPreserves ==
  ASSUME BoardInv, NEW c \in Client, BadRequest(c)
  PROVE  BoardInv'
  <1> DEFINE q == [Idle EXCEPT !.number = sent + 1]
             a == AnswerOf(q, 400, 0, {})
  <1>1. /\ UNCHANGED <<wal, open, replayed, restarts>> /\ last' = last
        /\ sent' = sent + 1 /\ Answer(c, q, 400, 0, {})
    BY DEF BadRequest, postgresVars
  <1>2. /\ sent + 1 \in Nat /\ sent \in Nat /\ sent <= sent + 1 /\ sent + 1 \in 1..(sent + 1)
        /\ NothingStored(wal, open, sent + 1)
        /\ OnlyNumber(call, history, c, sent + 1)
    BY NewNumber
  <1>3. Replies(c, a)
    BY <1>1 DEF Answer, AnswerOf, Replies
  <1>4. /\ q \in Called /\ q.op = ViewThread /\ q.row = {} /\ q.number = sent + 1
    BY <1>2, IdleFacts DEF Called
  <1> HIDE DEF q
  <1>5. a \in Told /\ AnswersCall(a, q) /\ a.status = 400 /\ a.position = 0
    <2>1. 400 \in Status /\ 0 \in Nat /\ {} \in SUBSET Row
      BY DEF Status
    <2>2. QED
      BY <1>4, <2>1, AnswerIsTold
  <1> HIDE DEF a
  <1>6. a.number = sent + 1
    BY <1>4, <1>5 DEF AnswersCall
  <1>7. last' \in [Table -> Nat] /\ Len(wal) \in Nat
    BY <1>1 DEF BoardInv, BoardTypes
  <1>8. TrueAnswer(wal, open, sent', a)
    BY <1>1, <1>2, <1>5, <1>6, <1>7 DEF TrueAnswer
  <1>9. OnlyNumber(call, history, c, a.number)
    BY <1>2, <1>6
  <1>10. ShowsAll(history[c], a)
    BY <1>5 DEF ShowsAll, Shows
  <1>11. sent' \in Nat /\ sent <= sent' /\ UNCHANGED <<wal, open, replayed, restarts>>
    BY <1>1, <1>2
  <1>12. QED
    BY <1>3, <1>5, <1>7, <1>8, <1>9, <1>10, <1>11, AnswerStep

\* What a client sends as required position covers all it has been told of.
LEMMA TokenCovers ==
  ASSUME BoardInv, NEW c \in Client
  PROVE  /\ Token(c) \in 0..Len(wal)
         /\ Token(c) # 0 => Covers(wal, history[c], Token(c))
  <1> DEFINE h      == history[c]
             writes == {i \in 1..Len(h) : h[i].status = 201 /\ h[i].op \in {NewThread, NewPost}}
  <1>1. /\ h \in Seq(Told) /\ Len(h) \in Nat /\ Len(wal) \in Nat
        /\ \A i \in 1..Len(h) : TrueAnswer(wal, open, sent, h[i])
        /\ PositionsCover(wal, h)
    BY RequestFacts DEF GoodHistory
  <1>2. CASE writes = {}
    <2>1. Token(c) = 0
      BY <1>2 DEF Token
    <2>2. QED
      BY <1>1, <2>1
  <1>3. CASE writes # {}
    <2>1. PICK k \in writes : \A i \in writes : i <= k
      <3> DEFINE T == {Len(h) - i : i \in writes}
      <3>1. T \in SUBSET Nat /\ T # {} /\ \A i \in writes : i \in Nat /\ Len(h) - i \in T
        <4> HIDE DEF h
        <4>1. writes \subseteq 1..Len(h)
          OBVIOUS
        <4> HIDE DEF writes
        <4>2. \A i \in writes : i \in Nat /\ Len(h) - i \in Nat
          BY <1>1, <4>1
        <4>3. QED
          BY <4>2, <1>3
      <3>2. PICK m \in T : \A n \in T : m <= n
        <4> HIDE DEF T
        <4>1. QED
          BY <3>1, SmallestOfNat
      <3>3. PICK k \in writes : m = Len(h) - k
        BY <3>2
      <3>4. ASSUME NEW i \in writes PROVE i <= k
        <4>1. m <= Len(h) - i /\ i \in Nat /\ k \in Nat
          BY <3>1, <3>2
        <4>2. QED
          BY <4>1, <3>3, <1>1
      <3>5. QED
        BY <3>4
    <2> DEFINE top == CHOOSE i \in writes : \A j \in writes : j <= i
    <2>2. top \in writes /\ \A j \in writes : j <= top
      BY <2>1
    <2>3. Token(c) = h[top].position
      BY <1>3 DEF Token
    <2> HIDE DEF top
    <2>4. top \in 1..Len(h) /\ h[top] \in Told
      BY <1>1, <2>2
    <2>5. h[top].position \in Nat /\ h[top].position <= Len(wal)
      BY <1>1, <2>4 DEF Told, TrueAnswer
    <2>6. ASSUME Token(c) # 0, NEW i \in 1..Len(h), h[i].status = 201, h[i].op # NewUser
          PROVE  h[i].row \subseteq Committed(wal, Token(c))
      <3>1. h[i].op \in Write
        BY <1>1, <2>6 DEF TrueAnswer
      <3>2. i \in writes
        BY <2>6, <3>1 DEF Write
      <3>3. i <= top
        BY <2>2, <3>2
      <3>4. QED
        BY <1>1, <2>3, <2>4, <2>6, <3>3 DEF PositionsCover
    <2>7. QED
      BY <1>1, <2>3, <2>5, <2>6 DEF Covers
  <1>4. QED
    BY <1>2, <1>3

LEMMA ReceivePreserves ==
  ASSUME BoardInv, NEW c \in Client, NEW op \in Op, NEW author \in Nat, NEW thread \in Nat,
         NEW required \in 0..Len(wal), Receive(c, op, author, thread, required),
         op = ViewThread /\ required # 0 => Covers(wal, history[c], required)
  PROVE  BoardInv'
  <1> DEFINE pool == IF op = ViewThread THEN ReadPool(Policy(required))
                     ELSE [node |-> 0, step |-> "insert"]
             q    == [step |-> pool.step, op |-> op, author |-> author, thread |-> thread,
                      required |-> required, number |-> sent + 1, row |-> {},
                      node |-> pool.node, disturbed |-> FALSE]
  <1>1. /\ UNCHANGED <<wal, open, last, replayed, restarts>>
        /\ sent' = sent + 1 /\ Continue(c, q)
    BY DEF Receive, postgresVars
  <1>2. /\ pool.node \in Node /\ pool.step \in {"insert", "check", "thread"}
        /\ pool.step = "insert" <=> op # ViewThread
        /\ pool.step = "check" => pool.node # 0 /\ required # 0
        /\ pool.step = "thread" => pool.node = 0
    BY PostgresAssumption DEF ReadPool, Policy, Node
  <1>3. /\ sent + 1 \in Nat /\ sent \in Nat /\ sent <= sent + 1 /\ sent + 1 \in 1..(sent + 1)
        /\ NothingStored(wal, open, sent + 1)
        /\ OnlyNumber(call, history, c, sent + 1)
    BY NewNumber
  <1>4. required \in Nat /\ required <= Len(wal)
    BY RequestFacts
  <1> HIDE DEF pool
  <1>5. /\ q \in Called /\ q.step = pool.step /\ q.op = op /\ q.node = pool.node
        /\ q.required = required /\ q.number = sent + 1 /\ q.disturbed = FALSE
    BY <1>2, <1>3, <1>4 DEF Called
  <1> HIDE DEF q
  <1>6. q.step \in {"insert", "check", "thread"}
    BY <1>2, <1>5
  <1>7. GoodWrite(wal, open, q)
    BY <1>2, <1>5, <1>6 DEF GoodWrite, Op
  <1>8. GoodRead(wal, replayed, history[c], q)
    BY <1>2, <1>5, <1>6 DEF GoodRead, Reading
  <1>9. GoodCall(wal, open, sent', replayed, history[c], q)
    <2>1. q # Idle /\ q.step # "idle"
      BY <1>6, IdleFacts
    <2>2. q.number \in 1..sent' /\ NothingStored(wal, open, q.number)
      BY <1>1, <1>3, <1>5
    <2>3. QED
      BY <1>7, <1>8, <2>1, <2>2 DEF GoodCall
  <1>10. OnlyNumber(call, history, c, q.number)
    BY <1>3, <1>5
  <1>11. sent' \in Nat /\ sent <= sent' /\ q.step # "idle" /\ q.required <= Len(wal)
    BY <1>1, <1>3, <1>4, <1>5, <1>6
  <1>12. QED
    BY <1>1, <1>5, <1>9, <1>10, <1>11, ContinueStep

LEMMA RequestPreserves ==
  ASSUME BoardInv, NEW c \in Client, Request(c)
  PROVE  BoardInv'
  <1>1. 0 \in Nat /\ 0 \in 0..Len(wal) /\ ID \subseteq Nat
    BY BoardApiAssumption, RequestFacts DEF ID
  <1>2. ViewThread \in Op /\ NewUser \in Op /\ NewThread \in Op /\ NewPost \in Op
        /\ ViewThread # NewUser /\ ViewThread # NewThread /\ ViewThread # NewPost
    BY OpsDiffer DEF Op, Write
  <1>3. CASE CreateUser(c)
    <2>1. Receive(c, NewUser, 0, 0, 0)
      BY <1>3 DEF CreateUser
    <2>2. QED
      BY <1>1, <1>2, <2>1, ReceivePreserves
  <1>4. CASE CreateThread(c)
    <2>1. PICK author \in ID : Receive(c, NewThread, author, 0, 0)
      BY <1>4 DEF CreateThread
    <2>2. author \in Nat
      BY <1>1
    <2>3. QED
      BY <1>1, <1>2, <2>1, <2>2, ReceivePreserves
  <1>5. CASE CreatePost(c)
    <2>1. PICK thread \in ID, author \in ID : Receive(c, NewPost, author, thread, 0)
      BY <1>5 DEF CreatePost
    <2>2. author \in Nat /\ thread \in Nat
      BY <1>1
    <2>3. QED
      BY <1>1, <1>2, <2>1, <2>2, ReceivePreserves
  <1>6. CASE GetThread(c)
    <2>1. PICK thread \in ID, required \in {0, Token(c)} :
             Receive(c, ViewThread, 0, thread, required)
      BY <1>6 DEF GetThread
    <2>2. thread \in Nat /\ required \in 0..Len(wal)
      BY <1>1, TokenCovers
    <2>3. required # 0 => Covers(wal, history[c], required)
      BY TokenCovers
    <2>4. QED
      BY <1>1, <1>2, <2>1, <2>2, <2>3, ReceivePreserves
  <1>7. CASE BadRequest(c)
    BY <1>7, BadRequestPreserves
  <1>8. QED
    BY <1>3, <1>4, <1>5, <1>6, <1>7 DEF Request

-----------------------------------------------------------------------------
(* The database moves.                                                     *)

LEMMA CommitPreserves ==
  ASSUME BoardInv, NEW row \in open, Commit(row), UNCHANGED <<call, history, sent>>
  PROVE  BoardInv'
  <1> DEFINE e == [kind |-> "commit", row |-> row]
  <1>1. /\ wal' = Append(wal, e) /\ open' = open \ {row}
        /\ UNCHANGED <<last, replayed, restarts>>
    BY DEF Commit
  <1>2. /\ wal \in Seq(Entry) /\ Len(wal) \in Nat /\ open \subseteq Row
        /\ replayed \in [Node \ {0} -> Nat] /\ restarts \in Nat /\ last \in [Table -> Nat]
        /\ \A n \in Node \ {0} : replayed[n] <= Len(wal)
    BY DEF BoardInv, BoardTypes
  <1>3. e \in Entry /\ e.kind = "commit" /\ e.row = row
    BY <1>2 DEF Entry
  <1> HIDE DEF e
  <1>4. /\ Extends(wal, wal') /\ Len(wal') = Len(wal) + 1
        /\ Committed(wal', Len(wal) + 1) = Committed(wal, Len(wal)) \cup {row}
    BY <1>1, <1>2, <1>3, AppendExtends, CommittedNext
  <1>5. Known(wal', open') \subseteq Known(wal, open)
    BY <1>1, <1>4 DEF Known
  <1>6. ThreadsFirst(wal', open')
    <2>1. ThreadsFirst(wal, open)
      BY DEF BoardInv
    <2>2. \A r \in open' : r \in open
      BY <1>1
    <2>3. ThreadsFirst(Append(wal, e), open')
      BY <1>2, <1>3, <2>1, <2>2, ThreadsStayFirst
    <2>4. QED
      BY <1>1, <2>3
  <1>7. ASSUME NEW n \in Node \ {0}
        PROVE  replayed'[n] <= Len(wal') /\ replayed[n] <= replayed'[n]
    <2>1. replayed[n] \in Nat /\ replayed[n] <= Len(wal)
      BY <1>2
    <2>2. QED
      BY <2>1, <1>1, <1>2, <1>4
  <1>8. open' \subseteq Row /\ last' \in [Table -> Nat] /\ restarts' \in Nat
        /\ replayed' \in [Node \ {0} -> Nat]
    BY <1>1, <1>2
  <1>9. QED
    BY <1>4, <1>5, <1>6, <1>7, <1>8, DatabaseStep

LEMMA AbortPreserves ==
  ASSUME BoardInv, NEW row \in open, Abort(row), UNCHANGED <<call, history, sent>>
  PROVE  BoardInv'
  <1>1. open' = open \ {row} /\ UNCHANGED <<wal, last, replayed, restarts>>
    BY DEF Abort
  <1>2. /\ wal \in Seq(Entry) /\ open \subseteq Row /\ Extends(wal, wal)
        /\ replayed \in [Node \ {0} -> Nat] /\ restarts \in Nat /\ last \in [Table -> Nat]
        /\ \A n \in Node \ {0} : replayed[n] <= Len(wal)
    BY SameExtends DEF BoardInv, BoardTypes
  <1>3. Extends(wal, wal') /\ Known(wal', open') \subseteq Known(wal, open)
    BY <1>1, <1>2 DEF Known
  <1>4. ThreadsFirst(wal', open')
    BY <1>1 DEF BoardInv, ThreadsFirst
  <1>5. ASSUME NEW n \in Node \ {0}
        PROVE  replayed'[n] <= Len(wal') /\ replayed[n] <= replayed'[n]
    <2>1. replayed[n] \in Nat /\ replayed[n] <= Len(wal)
      BY <1>2
    <2>2. QED
      BY <2>1, <1>1
  <1>6. open' \subseteq Row /\ last' \in [Table -> Nat] /\ restarts' \in Nat
        /\ replayed' \in [Node \ {0} -> Nat]
    BY <1>1, <1>2
  <1>7. QED
    BY <1>3, <1>4, <1>5, <1>6, DatabaseStep

LEMMA ReplayPreserves ==
  ASSUME BoardInv, NEW n \in Node \ {0}, Replay(n), UNCHANGED <<call, history, sent>>
  PROVE  BoardInv'
  <1>1. /\ replayed[n] < Len(wal) /\ replayed' = [replayed EXCEPT ![n] = @ + 1]
        /\ UNCHANGED <<wal, open, last, restarts>>
    BY DEF Replay
  <1>2. /\ wal \in Seq(Entry) /\ open \subseteq Row /\ Extends(wal, wal) /\ Len(wal) \in Nat
        /\ replayed \in [Node \ {0} -> Nat] /\ restarts \in Nat /\ last \in [Table -> Nat]
        /\ \A m \in Node \ {0} : replayed[m] <= Len(wal)
    BY SameExtends DEF BoardInv, BoardTypes
  <1>3. Extends(wal, wal') /\ Known(wal', open') \subseteq Known(wal, open)
    BY <1>1, <1>2 DEF Known
  <1>4. ThreadsFirst(wal', open')
    BY <1>1 DEF BoardInv
  <1>5. ASSUME NEW m \in Node \ {0}
        PROVE  replayed'[m] \in Nat /\ replayed'[m] <= Len(wal') /\ replayed[m] <= replayed'[m]
    <2>1. replayed[m] \in Nat /\ replayed[m] <= Len(wal)
      BY <1>2
    <2>2. replayed'[m] = IF m = n THEN replayed[m] + 1 ELSE replayed[m]
      BY <1>1, <1>2
    <2>3. QED
      BY <2>1, <2>2, <1>1, <1>2
  <1>6. replayed' \in [Node \ {0} -> Nat]
    BY <1>1, <1>2, <1>5
  <1>7. open' \subseteq Row /\ last' \in [Table -> Nat] /\ restarts' \in Nat
    BY <1>1, <1>2
  <1>8. QED
    BY <1>3, <1>4, <1>5, <1>6, <1>7, DatabaseStep

\* A replica loses what it has replayed, and the reads it serves are disturbed.
LEMMA ReplicaRestartsPreserves ==
  ASSUME BoardInv, NEW n \in Node \ {0}, ReplicaRestarts(n)
  PROVE  BoardInv'
  <1>1. PICK lsn \in Len(InitialRows)..(replayed[n] - 1) :
           replayed' = [replayed EXCEPT ![n] = lsn]
    BY DEF ReplicaRestarts, Restart
  <1>2. /\ UNCHANGED <<wal, open, last, history, sent>> /\ restarts' = restarts + 1
        /\ call' = [c \in Client |->
              IF call[c].node = n /\ call[c].step \in {"thread", "posts"}
              THEN [call[c] EXCEPT !.disturbed = TRUE] ELSE call[c]]
    BY DEF ReplicaRestarts, Restart
  <1>3. /\ wal \in Seq(Entry) /\ Extends(wal, wal) /\ Len(wal) \in Nat /\ sent \in Nat
        /\ replayed \in [Node \ {0} -> Nat] /\ restarts \in Nat
        /\ call \in [Client -> Called]
    BY SameExtends DEF BoardInv, BoardTypes
  <1>4. lsn \in Nat /\ lsn <= Len(wal)
    <2>1. replayed[n] \in Nat /\ replayed[n] <= Len(wal)
      BY DEF BoardInv, BoardTypes
    <2>2. Len(InitialRows) = 3
      BY DEF InitialRows
    <2>3. lsn \in 3..(replayed[n] - 1)
      BY <2>2
    <2>4. QED
      BY <2>1, <2>3, <1>3
  <1>5. ASSUME NEW c \in Client, call[c].node = n, call[c].step \in {"thread", "posts"}
        PROVE  /\ call'[c] \in Called /\ call'[c].disturbed = TRUE
               /\ call'[c].step = call[c].step /\ call'[c].op = call[c].op
               /\ call'[c].node = call[c].node /\ call'[c].required = call[c].required
               /\ call'[c].number = call[c].number /\ call'[c].row = call[c].row
               /\ call'[c].thread = call[c].thread
    <2>1. call[c] \in Called /\ call'[c] = [call[c] EXCEPT !.disturbed = TRUE]
      BY <1>2, <1>3, <1>5
    <2>2. QED
      BY <2>1 DEF Called
  <1>6. ASSUME NEW c \in Client, ~(call[c].node = n /\ call[c].step \in {"thread", "posts"})
        PROVE  call'[c] = call[c]
    BY <1>2, <1>6
  <1>7. ASSUME NEW c \in Client
        PROVE  /\ call'[c] \in Called /\ call'[c].step = call[c].step
               /\ call'[c].required = call[c].required /\ call'[c].number = call[c].number
    BY <1>3, <1>5, <1>6
  <1>8. BoardTypes'
    <2>1. replayed' \in [Node \ {0} -> Nat]
      BY <1>1, <1>3, <1>4
    <2>2. \A m \in Node \ {0} : replayed'[m] <= Len(wal)
      BY <1>1, <1>3, <1>4 DEF BoardInv, BoardTypes
    <2>3. call' \in [Client -> Called]
      <3>1. DOMAIN call' = Client /\ call' = [c \in Client |-> call'[c]]
        BY <1>2
      <3>2. QED
        BY <1>7, <3>1
    <2>4. \A c \in Client : call'[c].required <= Len(wal)
      BY <1>7 DEF BoardInv, BoardTypes
    <2>5. restarts' \in Nat
      BY <1>2, <1>3
    <2>6. QED
      BY <1>2, <2>1, <2>2, <2>3, <2>4, <2>5 DEF BoardInv, BoardTypes
  <1>9. ASSUME NEW c \in Client
        PROVE  GoodCall(wal, open, sent, replayed', history[c], call'[c])
    <2>1. /\ GoodCall(wal, open, sent, replayed, history[c], call[c])
          /\ call[c] \in Called /\ call[c].required <= Len(wal) /\ sent <= sent
      BY <1>3 DEF BoardInv, BoardTypes
    <2>2. CASE call[c].node = n /\ call[c].step \in {"thread", "posts"}
      <3>1. call'[c].step # "idle" /\ call'[c] # Idle /\ call[c].step # "idle"
        BY <1>5, <2>2, IdleFacts
      <3>2. GoodWrite(wal, open, call'[c])
        BY <1>5, <2>1, <2>2 DEF GoodCall, GoodWrite
      <3>3. GoodRead(wal, replayed', history[c], call'[c])
        BY <1>5, <2>1, <2>2 DEF GoodCall, GoodRead
      <3>4. QED
        BY <1>5, <2>1, <2>2, <3>1, <3>2, <3>3 DEF GoodCall
    <2>3. CASE ~(call[c].node = n /\ call[c].step \in {"thread", "posts"})
      <3>1. replayed' \in [Node \ {0} -> Nat]
        BY <1>1, <1>3, <1>4
      <3>2. (call[c].step \in {"thread", "posts"} /\ call[c].node # 0)
               => replayed'[call[c].node] >= replayed[call[c].node]
        <4>1. SUFFICES ASSUME call[c].step \in {"thread", "posts"}, call[c].node # 0
                       PROVE  replayed'[call[c].node] >= replayed[call[c].node]
          OBVIOUS
        <4>2. call[c].node \in Node \ {0} /\ call[c].node # n
          BY <2>1, <2>3, <4>1 DEF Called
        <4>3. replayed'[call[c].node] = replayed[call[c].node] /\ replayed[call[c].node] \in Nat
          BY <1>1, <1>3, <4>2
        <4>4. QED
          BY <4>3
      <3>3. GoodCall(wal, open, sent, replayed', history[c], call[c])
        BY <1>3, <2>1, <3>1, <3>2, CallStays
      <3>4. QED
        BY <1>6, <2>3, <3>3
    <2>4. QED
      BY <2>2, <2>3
  <1>10. OneNumberEach(call', history)
    <2>1. ASSUME NEW d \in Client, call'[d].step # "idle", NEW f \in Client
          PROVE  /\ (f # d /\ call'[f].step # "idle") => call'[f].number # call'[d].number
                 /\ \A i \in 1..Len(history[f]) : history[f][i].number # call'[d].number
      BY <1>7, <2>1 DEF BoardInv, OneNumberEach, OnlyNumber
    <2>2. QED
      BY <2>1 DEF OneNumberEach, OnlyNumber
  <1>11. QED
    BY <1>2, <1>8, <1>9, <1>10 DEF BoardInv

-----------------------------------------------------------------------------
(* The invariant.                                                          *)

LEMMA BoardInitially ==
  ASSUME BoardInit
  PROVE  BoardInv
  <1>1. /\ wal = [i \in 1..3 |-> [kind |-> "commit", row |-> InitialRows[i]]]
        /\ open = {} /\ last = [table \in Table |-> 1]
        /\ replayed = [n \in Node \ {0} |-> Len(wal)] /\ restarts = 0
        /\ call = [c \in Client |-> Idle] /\ history = [c \in Client |-> <<>>] /\ sent = 0
    BY DEF BoardInit, PostgresInit
  <1>2. /\ InitialRows[1] \in Row /\ InitialRows[1].table = "users" /\ InitialRows[1].request = 0
        /\ InitialRows[2] \in Row /\ InitialRows[2].table = "threads" /\ InitialRows[2].id = 1
        /\ InitialRows[2].request = 0
        /\ InitialRows[3] \in Row /\ InitialRows[3].table = "posts" /\ InitialRows[3].thread = 1
        /\ InitialRows[3].request = 0
    BY DEF InitialRows, Row, Table
  <1>3. wal \in Seq(Entry) /\ Len(wal) = 3
    <2>1. \A i \in 1..3 : InitialRows[i] \in Row
      BY <1>2
    <2>2. \A i \in 1..3 : [kind |-> "commit", row |-> InitialRows[i]] \in Entry
      BY <2>1 DEF Entry
    <2> HIDE DEF Entry
    <2>3. QED
      BY <1>1, <2>2
  <1>4. \A i \in 1..3 : wal[i].kind = "commit" /\ wal[i].row = InitialRows[i]
    BY <1>1
  <1>5. \A lsn \in 1..3 : \A row :
           row \in Committed(wal, lsn) <=> \E i \in 1..lsn : row = InitialRows[i]
    BY <1>4 DEF Committed
  <1>6. BoardTypes
    <2>1. Idle \in Called /\ Idle.required = 0
      BY IdleFacts DEF Idle
    <2>2. \A c \in Client : call[c] = Idle
      BY <1>1
    <2>3. call \in [Client -> Called] /\ \A c \in Client : call[c].required <= Len(wal)
      BY <1>1, <1>3, <2>1, <2>2
    <2>4. history \in [Client -> Seq(Told)]
      BY <1>1
    <2>5. replayed \in [Node \ {0} -> Nat] /\ \A n \in Node \ {0} : replayed[n] <= Len(wal)
      BY <1>1, <1>3
    <2>6. QED
      BY <1>1, <1>3, <2>3, <2>4, <2>5 DEF BoardTypes
  <1>7. ThreadsFirst(wal, open)
    <2>1. ASSUME NEW lsn \in 1..Len(wal), NEW row \in Committed(wal, lsn), row.table = "posts"
          PROVE  HasThread(wal, lsn, row.thread)
      <3>1. lsn \in 1..3
        BY <1>3
      <3>2. PICK i \in 1..lsn : row = InitialRows[i]
        BY <1>5, <2>1, <3>1
      <3>3. i = 3 /\ lsn = 3
        BY <1>2, <2>1, <3>1, <3>2
      <3>4. 2 \in 1..lsn
        BY <3>3
      <3>5. InitialRows[2] \in Committed(wal, lsn)
        BY <1>5, <3>1, <3>4
      <3>6. QED
        BY <1>2, <3>2, <3>3, <3>5 DEF HasThread
    <2>2. QED
      BY <1>1, <2>1 DEF ThreadsFirst
  <1>8. RowsOfRequests(wal, open, sent)
    <2>1. ASSUME NEW row \in Known(wal, open) PROVE row.request = 0
      <3>1. 3 \in 1..3 /\ row \in Committed(wal, 3)
        BY <1>1, <1>3 DEF Known
      <3>2. PICK i \in 1..3 : row = InitialRows[i]
        BY <1>5, <3>1
      <3>3. QED
        BY <1>2, <3>2
    <2>2. QED
      BY <1>1, <2>1 DEF RowsOfRequests
  <1>9. \A c \in Client : GoodHistory(wal, open, sent, history[c])
    BY <1>1 DEF GoodHistory, PositionsCover, SeesOwnWrites
  <1>10. \A c \in Client : GoodCall(wal, open, sent, replayed, history[c], call[c])
    BY <1>1, IdleFacts DEF GoodCall, GoodWrite, GoodRead, Reading
  <1>11. OneNumberEach(call, history)
    BY <1>1, IdleFacts DEF OneNumberEach
  <1>12. QED
    BY <1>6, <1>7, <1>8, <1>9, <1>10, <1>11 DEF BoardInv

LEMMA BoardStep ==
  ASSUME BoardInv, [BoardNext]_boardVars
  PROVE  BoardInv'
  <1>1. ASSUME NEW c \in Client, Request(c) PROVE BoardInv'
    BY <1>1, RequestPreserves
  <1>2. ASSUME NEW c \in Client, Serve(c) PROVE BoardInv'
    BY <1>2, InsertPreserves, InsertReturnsPreserves, LookUpPositionPreserves, FailurePreserves,
       CheckReplicaPreserves, FetchThreadPreserves, FetchPostsPreserves DEF Serve
  <1>3. ASSUME NEW c \in Client, CallFails(c) PROVE BoardInv'
    BY <1>3, FailurePreserves
  <1>4. ASSUME Database PROVE BoardInv'
    <2>1. UNCHANGED <<call, history, sent>>
      BY <1>4 DEF Database
    <2>2. ASSUME NEW row \in open, Commit(row) PROVE BoardInv'
      BY <2>1, <2>2, CommitPreserves
    <2>3. ASSUME NEW row \in open, Abort(row) PROVE BoardInv'
      BY <2>1, <2>3, AbortPreserves
    <2>4. ASSUME NEW n \in Node \ {0}, Replay(n) PROVE BoardInv'
      BY <2>1, <2>4, ReplayPreserves
    <2>5. QED
      BY <1>4, <2>2, <2>3, <2>4 DEF Database
  <1>5. ASSUME NEW n \in Node \ {0}, ReplicaRestarts(n) PROVE BoardInv'
    BY <1>5, ReplicaRestartsPreserves
  <1>6. CASE UNCHANGED boardVars
    <2>1. UNCHANGED <<wal, open, last, replayed, restarts, call, history, sent>>
      BY <1>6 DEF boardVars
    <2>2. BoardTypes'
      BY <2>1 DEF BoardInv, BoardTypes
    <2>3. QED
      BY <2>1, <2>2 DEF BoardInv
  <1>7. QED
    BY <1>1, <1>2, <1>3, <1>4, <1>5, <1>6 DEF BoardNext

LEMMA BoardInvariant == BoardSpec => []BoardInv
  <1>1. BoardInit => BoardInv
    BY BoardInitially
  <1>2. BoardInv /\ [BoardNext]_boardVars => BoardInv'
    BY BoardStep
  <1>3. QED
    BY <1>1, <1>2, PTL DEF BoardSpec

LEMMA SameCommitted == \A l : CommittedBy(l) = Committed(wal, l)
  BY DEF CommittedBy, Committed

-----------------------------------------------------------------------------
(* What the invariant says to a client.                                    *)

LEMMA InvTypes == BoardInv => BoardTypeOK
  <1> SUFFICES ASSUME BoardInv PROVE BoardTypeOK
    OBVIOUS
  <1>1. BoardTypes
    BY DEF BoardInv
  <1>2. ASSUME NEW i \in 1..Len(wal)
        PROVE  wal[i].kind \in {"insert", "commit"} /\ wal[i].row \in Row
    <2>1. wal[i] \in Entry
      BY <1>1 DEF BoardTypes
    <2>2. QED
      BY <2>1 DEF Entry
  <1>3. ASSUME NEW n \in Node \ {0} PROVE replayed[n] \in 0..Len(wal)
    BY <1>1 DEF BoardTypes
  <1>4. ASSUME NEW c \in Client
        PROVE  call[c].node \in Node /\ call[c].required \in 0..Len(wal)
    <2>1. call[c] \in Called /\ call[c].required <= Len(wal) /\ Len(wal) \in Nat
      BY <1>1 DEF BoardTypes
    <2>2. QED
      BY <2>1 DEF Called
  <1>5. ASSUME NEW c \in Client, NEW i \in 1..Len(history[c])
        PROVE  /\ history[c][i].status \in {200, 201, 400, 404, 500}
               /\ history[c][i].row \cup history[c][i].seen \subseteq Row
    <2>1. history[c][i] \in Told
      BY <1>1 DEF BoardTypes
    <2>2. QED
      BY <2>1 DEF Told, Status
  <1>6. open \subseteq Row /\ last \in [Table -> Nat]
    BY <1>1 DEF BoardTypes
  <1>7. QED
    BY <1>2, <1>3, <1>4, <1>5, <1>6 DEF BoardTypeOK

LEMMA InvPositionsCover == BoardInv => PositionCoversWrites
  <1> SUFFICES ASSUME BoardInv, NEW c \in Client, NEW i \in Created(c), NEW k \in Created(c),
                      i <= k, history[c][k].position # 0
               PROVE  /\ history[c][k].position <= Len(wal)
                      /\ history[c][i].row \subseteq CommittedBy(history[c][k].position)
    BY DEF PositionCoversWrites
  <1>1. /\ i \in 1..Len(history[c]) /\ k \in 1..Len(history[c])
        /\ history[c][i].status = 201
    BY DEF Created, Answers
  <1>2. GoodHistory(wal, open, sent, history[c])
    BY DEF BoardInv
  <1>3. history[c][k].position <= Len(wal)
    BY <1>1, <1>2 DEF GoodHistory, TrueAnswer
  <1>4. history[c][i].row \subseteq Committed(wal, history[c][k].position)
    BY <1>1, <1>2 DEF GoodHistory, PositionsCover
  <1>5. QED
    BY <1>3, <1>4, SameCommitted

LEMMA InvReadsYourWrites == BoardInv => ReadYourWrites
  <1> SUFFICES ASSUME BoardInv, NEW c \in Client, NEW i \in Created(c), NEW k \in Answers(c),
                      i < k, history[c][k].op = ViewThread, ~history[c][k].disturbed,
                      NEW row \in history[c][i].row
               PROVE  /\ (row.table = "threads" /\ row.id = history[c][k].thread)
                            => history[c][k].status # 404
                      /\ (row.table = "posts" /\ row.thread = history[c][k].thread)
                            => /\ history[c][k].status # 404
                               /\ history[c][k].status = 200 => row \in history[c][k].seen
    BY DEF ReadYourWrites
  <1>1. /\ i \in 1..Len(history[c]) /\ k \in 1..Len(history[c])
        /\ history[c][i].status = 201
    BY DEF Created, Answers
  <1>2. SeesOwnWrites(history[c])
    BY DEF BoardInv, GoodHistory
  <1>3. Shows(history[c][k], row)
    BY <1>1, <1>2 DEF SeesOwnWrites
  <1>4. QED
    BY <1>3 DEF Shows

LEMMA InvTellsTheTruth == BoardInv => AnswersTellTheTruth
  <1> SUFFICES ASSUME BoardInv, NEW c \in Client, NEW i \in Answers(c)
               PROVE  /\ history[c][i].status = 201 =>
                            history[c][i].row # {} /\ history[c][i].row \subseteq Visible(0)
                      /\ history[c][i].status \in {400, 404} =>
                            \A row \in open \cup CommittedBy(Len(wal)) :
                               row.request # history[c][i].number
    BY DEF AnswersTellTheTruth
  <1>1. TrueAnswer(wal, open, sent, history[c][i])
    BY DEF BoardInv, GoodHistory, Answers
  <1>2. 0 \in Node /\ BoardTypes
    BY PostgresAssumption DEF Node, BoardInv
  <1>3. Visible(0) = Committed(wal, Len(wal))
    BY <1>2, VisibleIsCommitted DEF ShownTo
  <1>4. CommittedBy(Len(wal)) = Committed(wal, Len(wal))
    BY SameCommitted
  <1>5. QED
    BY <1>1, <1>3, <1>4 DEF TrueAnswer, NothingStored, Known

LEMMA InvViewsOneMoment == BoardInv => ViewIsOneMoment
  <1> SUFFICES ASSUME BoardInv, NEW c \in Client, NEW i \in Answers(c),
                      history[c][i].status = 200
               PROVE  \E lsn \in 1..Len(wal) :
                        /\ \E row \in CommittedBy(lsn) :
                              row.table = "threads" /\ row.id = history[c][i].thread
                        /\ history[c][i].seen =
                              {row \in CommittedBy(lsn) :
                                  row.table = "posts" /\ row.thread = history[c][i].thread}
    BY DEF ViewIsOneMoment
  <1>1. OneMoment(wal, history[c][i].thread, history[c][i].seen)
    BY DEF BoardInv, GoodHistory, TrueAnswer, Answers
  <1>2. PICK lsn \in 1..Len(wal) :
           /\ HasThread(wal, lsn, history[c][i].thread)
           /\ history[c][i].seen = {row \in Committed(wal, lsn) :
                  row.table = "posts" /\ row.thread = history[c][i].thread}
    BY <1>1 DEF OneMoment
  <1>3. CommittedBy(lsn) = Committed(wal, lsn)
    BY SameCommitted
  <1>4. QED
    BY <1>2, <1>3 DEF HasThread

-----------------------------------------------------------------------------
\* Requests, answers and the database have their types, and no replica is
\* ahead of the primary.
THEOREM BoardTypesHold == BoardSpec => []BoardTypeOK
  BY BoardInvariant, InvTypes, PTL

\* CurrentPosition is asked after the INSERT has returned: a position in an
\* answer covers all the client has been told of, whoever else writes.
THEOREM BoardPositionsCover == BoardSpec => []PositionCoversWrites
  BY BoardInvariant, InvPositionsCover, PTL

\* ReadPool: whichever node serves it, a client sees the threads and posts it
\* has been told of.
THEOREM BoardReadsYourWrites == BoardSpec => []ReadYourWrites
  BY BoardInvariant, InvReadsYourWrites, PTL

\* The status of an answer says what became of the write, however requests,
\* failures and commits interleave.
THEOREM BoardTellsTheTruth == BoardSpec => []AnswersTellTheTruth
  BY BoardInvariant, InvTellsTheTruth, PTL

\* GetThread reads the thread and its posts without a common snapshot, from a
\* replica that replays, or restarts, in between; the answer is one position
\* of the log all the same.
THEOREM BoardViewsOneMoment == BoardSpec => []ViewIsOneMoment
  BY BoardInvariant, InvViewsOneMoment, PTL
-----------------------------------------------------------------------------
(* How long a request can take.                                            *)

\* The statements before the answer: a check per replica that is left, then
\* the two of a read; or INSERT, its return and the position.
StatementsLeft(request) ==
    IF request.step = "check" THEN Replicas - request.node + 3
    ELSE IF request.step = "insert" THEN 3
    ELSE IF request.step \in {"thread", "commit"} THEN 2
    ELSE IF request.step \in {"posts", "position"} THEN 1
    ELSE 0

Steps == {"idle", "insert", "commit", "position", "check", "thread", "posts"}

LEMMA StatementsAreCounted ==
  ASSUME BoardInv, NEW c \in Client
  PROVE  /\ StatementsLeft(call[c]) \in 0..(Replicas + 3)
         /\ StatementsLeft(call[c]) = 0 <=> call[c] = Idle
  <1>1. /\ call[c].step \in Steps /\ call[c].node \in 0..Replicas /\ Replicas \in Nat
        /\ call[c].step = "idle" <=> call[c] = Idle
    <2>1. call[c] \in Called /\ Replicas \in Nat
      BY PostgresAssumption DEF BoardInv, BoardTypes
    <2>2. call[c].step = "idle" <=> call[c] = Idle
      BY DEF BoardInv, GoodCall
    <2>3. QED
      BY <2>1, <2>2 DEF Called, Node, Steps
  <1>2. StatementsLeft(call[c]) \in 0..(Replicas + 3)
    BY <1>1 DEF StatementsLeft
  <1>3. StatementsLeft(call[c]) = 0 <=> call[c].step = "idle"
    BY <1>1 DEF StatementsLeft, Steps
  <1>4. QED
    BY <1>1, <1>2, <1>3

\* One statement of a request: the answer, or fewer statements to come.
LEMMA AnswerIsLast ==
  ASSUME BoardInv, NEW c \in Client, call[c].step # "idle",
         NEW request, NEW status, NEW position, NEW seen,
         Answer(c, request, status, position, seen)
  PROVE  StatementsLeft(call'[c]) < StatementsLeft(call[c])
  <1>1. call'[c] = Idle /\ Idle.step = "idle"
    BY IdleFacts DEF Answer, BoardInv, BoardTypes
  <1>2. StatementsLeft(Idle) = 0
    BY <1>1 DEF StatementsLeft
  <1>3. StatementsLeft(call[c]) \in 0..(Replicas + 3) /\ StatementsLeft(call[c]) # 0
    BY <1>1, StatementsAreCounted
  <1>4. Replicas \in Nat
    BY PostgresAssumption
  <1>5. QED
    BY <1>1, <1>2, <1>3, <1>4

LEMMA ServeComesCloser ==
  ASSUME BoardInv, NEW c \in Client, Serve(c) \/ (CallFails(c) /\ call[c] # Idle)
  PROVE  StatementsLeft(call'[c]) < StatementsLeft(call[c])
  <1>1. /\ DOMAIN call = Client /\ call[c].node \in 0..Replicas /\ Replicas \in Nat
        /\ call[c] # Idle => call[c].step # "idle"
        /\ call[c].step = "check" => call[c].node # 0
        /\ call[c] = [step |-> call[c].step, op |-> call[c].op, author |-> call[c].author,
              thread |-> call[c].thread, required |-> call[c].required,
              number |-> call[c].number, row |-> call[c].row, node |-> call[c].node,
              disturbed |-> call[c].disturbed]
    BY PostgresAssumption DEF BoardInv, BoardTypes, GoodCall, GoodRead, Node, Called
  <1>2. ASSUME NEW request, Continue(c, request) PROVE call'[c] = request
    BY <1>1, <1>2 DEF Continue
  <1>3. CASE CheckReplica(c)
    <2>1. CASE call'[c] = [call[c] EXCEPT !.step = "thread"]
      BY <1>1, <1>3, <2>1 DEF CheckReplica, StatementsLeft
    <2>2. CASE call'[c] = [call[c] EXCEPT !.step = NextCandidate(call[c].node).step,
                                          !.node = NextCandidate(call[c].node).node]
      <3>1. call[c].step = "check" /\ call[c].node \in 1..Replicas
        BY <1>1, <1>3 DEF CheckReplica
      <3>2. call'[c].step = NextCandidate(call[c].node).step
            /\ call'[c].node = NextCandidate(call[c].node).node
        BY <1>1, <2>2
      <3>3. QED
        BY <1>1, <3>1, <3>2 DEF NextCandidate, StatementsLeft
    <2>3. QED
      BY <1>2, <1>3, <2>1, <2>2 DEF CheckReplica
  <1>4. CASE Insert(c)
    <2>1. call[c].step = "insert"
      BY <1>4 DEF Insert
    <2>2. ASSUME NEW row, Continue(c, [call[c] EXCEPT !.step = "commit", !.row = {row}])
          PROVE  StatementsLeft(call'[c]) < StatementsLeft(call[c])
      <3>1. call'[c] = [call[c] EXCEPT !.step = "commit", !.row = {row}]
        BY <1>2, <2>2
      <3>2. call'[c].step = "commit"
        BY <1>1, <3>1
      <3>3. QED
        BY <2>1, <3>2 DEF StatementsLeft
    <2>3. QED
      BY <1>4, <2>1, <2>2, AnswerIsLast DEF Insert
  <1>5. CASE InsertReturns(c)
    <2>1. call[c].step = "commit"
      BY <1>5 DEF InsertReturns
    <2>2. ASSUME Continue(c, [call[c] EXCEPT !.step = "position"])
          PROVE  StatementsLeft(call'[c]) < StatementsLeft(call[c])
      BY <1>1, <1>2, <2>1, <2>2 DEF StatementsLeft
    <2>3. QED
      BY <1>5, <2>1, <2>2, AnswerIsLast DEF InsertReturns
  <1>6. CASE FetchThread(c)
    <2>1. call[c].step = "thread"
      BY <1>6 DEF FetchThread
    <2>2. ASSUME Continue(c, [call[c] EXCEPT !.step = "posts"])
          PROVE  StatementsLeft(call'[c]) < StatementsLeft(call[c])
      BY <1>1, <1>2, <2>1, <2>2 DEF StatementsLeft
    <2>3. QED
      BY <1>6, <2>1, <2>2, AnswerIsLast DEF FetchThread
  <1>7. CASE LookUpPosition(c) \/ InsertAborted(c) \/ FetchPosts(c)
    BY <1>7, AnswerIsLast DEF LookUpPosition, InsertAborted, FetchPosts
  <1>8. CASE CallFails(c)
    BY <1>1, <1>8, AnswerIsLast DEF CallFails
  <1>9. QED
    BY <1>3, <1>4, <1>5, <1>6, <1>7, <1>8 DEF Serve

\* What is done for one request leaves the others as they are.
LEMMA OthersStay ==
  ASSUME BoardInv, NEW c \in Client, Request(c) \/ Serve(c) \/ CallFails(c), NEW d \in Client \ {c}
  PROVE  call'[d] = call[d]
  <1>1. DOMAIN call = Client
    BY DEF BoardInv, BoardTypes
  <1>2. ASSUME NEW request, Continue(c, request) PROVE call'[d] = call[d]
    BY <1>1, <1>2 DEF Continue
  <1>3. ASSUME NEW request, NEW status, NEW position, NEW seen,
               Answer(c, request, status, position, seen)
        PROVE  call'[d] = call[d]
    BY <1>1, <1>3 DEF Answer
  <1>4. CASE Request(c)
    BY <1>2, <1>3, <1>4 DEF Request, CreateUser, CreateThread, CreatePost, GetThread,
                            BadRequest, Receive
  <1>5. CASE Serve(c) \/ CallFails(c)
    BY <1>2, <1>3, <1>5 DEF Serve, CallFails, Insert, InsertReturns, LookUpPosition,
                            InsertAborted, CheckReplica, FetchThread, FetchPosts
  <1>6. QED
    BY <1>4, <1>5

LEMMA StatementsOnlyFall ==
  ASSUME BoardInv, BoardNext, NEW c \in Client
  PROVE  /\ Serve(c) \/ CallFails(c) => StatementsLeft(call'[c]) < StatementsLeft(call[c])
         /\ call[c] # Idle => StatementsLeft(call'[c]) <= StatementsLeft(call[c])
  <1>1. Serve(c) \/ CallFails(c) => StatementsLeft(call'[c]) < StatementsLeft(call[c])
    BY ServeComesCloser DEF CallFails
  <1>2. StatementsLeft(call[c]) \in Nat
    <2>1. StatementsLeft(call[c]) \in 0..(Replicas + 3) /\ Replicas \in Nat
      BY StatementsAreCounted, PostgresAssumption
    <2>2. QED
      BY <2>1
  <1>3. ASSUME call'[c] = call[c] PROVE StatementsLeft(call'[c]) <= StatementsLeft(call[c])
    BY <1>2, <1>3
  <1>4. ASSUME call[c] # Idle, Request(c) PROVE FALSE
    BY <1>4 DEF Request, CreateUser, CreateThread, CreatePost, GetThread, BadRequest, Receive
  <1>5. ASSUME NEW n \in Node \ {0}, ReplicaRestarts(n)
        PROVE  StatementsLeft(call'[c]) <= StatementsLeft(call[c])
    <2>1. call'[c].step = call[c].step /\ call'[c].node = call[c].node
      BY <1>5 DEF ReplicaRestarts, BoardInv, BoardTypes, Called
    <2>2. StatementsLeft(call'[c]) = StatementsLeft(call[c])
      BY <2>1 DEF StatementsLeft
    <2>3. QED
      BY <1>2, <2>2
  <1>6. ASSUME Serve(c) \/ CallFails(c)
        PROVE  StatementsLeft(call'[c]) <= StatementsLeft(call[c])
    <2>1. BoardInv'
      BY BoardStep
    <2>2. call'[c].node \in 0..Replicas /\ Replicas \in Nat
      BY <2>1, PostgresAssumption DEF BoardInv, BoardTypes, Called, Node
    <2>3. StatementsLeft(call'[c]) \in Int
      BY <2>2 DEF StatementsLeft
    <2>4. QED
      BY <1>1, <1>2, <1>6, <2>3
  <1>7. CASE Database
    BY <1>1, <1>3, <1>7 DEF Database
  <1>8. ASSUME call[c] # Idle, NEW d \in Client, Request(d) \/ Serve(d) \/ CallFails(d)
        PROVE  StatementsLeft(call'[c]) <= StatementsLeft(call[c])
    BY <1>3, <1>4, <1>6, <1>8, OthersStay
  <1>9. QED
    BY <1>1, <1>5, <1>7, <1>8 DEF BoardNext

\* A request at most so long, that only its end makes idle.
BoundedRequests ==
    \A c \in Client : /\ StatementsLeft(call[c]) \in 0..(Replicas + 3)
                      /\ StatementsLeft(call[c]) = 0 <=> call[c] = Idle

\* Each statement of a request leaves fewer to come, and between two of them
\* nothing adds any: not the database, not another request, and not a replica
\* that restarts under it.
NoDetour ==
    [][\A c \in Client :
        /\ Serve(c) \/ CallFails(c) => StatementsLeft(call'[c]) < StatementsLeft(call[c])
        /\ call[c] # Idle => StatementsLeft(call'[c]) <= StatementsLeft(call[c])]_boardVars

\* The safety half of RequestsEnd: whatever node the router (ReadPool) turns
\* to next, and whatever happens meanwhile, a request is answered after at
\* most as many statements as there are replicas, and three.
THEOREM BoardNeverGoesBack == BoardSpec => []BoundedRequests /\ NoDetour
  <1> DEFINE Falls == \A c \in Client :
        /\ Serve(c) \/ CallFails(c) => StatementsLeft(call'[c]) < StatementsLeft(call[c])
        /\ call[c] # Idle => StatementsLeft(call'[c]) <= StatementsLeft(call[c])
  <1>1. BoardInv => BoundedRequests
    BY StatementsAreCounted DEF BoundedRequests
  <1>2. BoardInv /\ [BoardNext]_boardVars => [Falls]_boardVars
    BY StatementsOnlyFall
  <1>3. QED
    BY <1>1, <1>2, BoardInvariant, PTL DEF BoardSpec, NoDetour
=============================================================================
