------------------------------ MODULE Checker ------------------------------
(***************************************************************************)
(* checkReadAfterWrite of fake/replication_lag/check.go: one pass over the *)
(* history, event by event, with what each user has written so far.        *)
(***************************************************************************)
EXTENDS Simulator

\* Before the first event: nobody has written, nothing is wrong.
Unread == [wrote |-> [user \in User |-> {}], passed |-> TRUE]

\* Every post of the user's in the thread that was opened is in the answer.
ShowsOwn(wrote, event) ==
    \A post \in wrote[event.user] :
        post.thread \in event.thread => \E h \in event.seen : h.post.id = post.id

\* Faulty variant: an Invoke is taken for an answer.
CheckEventInvokes(check, event) ==
    IF ~check.passed THEN check
    ELSE IF event.wrote # {} THEN [check EXCEPT !.wrote[event.user] = @ \cup event.wrote]
    ELSE IF event.op # OpenThread THEN check
    ELSE [check EXCEPT !.passed = ShowsOwn(check.wrote, event)]

\* One turn of the loop; the first violation ends it.
CheckEvent(check, event) ==
    IF ~check.passed \/ event.phase # "Ok" THEN check
    ELSE IF event.wrote # {} THEN [check EXCEPT !.wrote[event.user] = @ \cup event.wrote]
    ELSE IF event.op # OpenThread THEN check
    ELSE [check EXCEPT !.passed = ShowsOwn(check.wrote, event)]

\* The loop over the first n events.
CheckUpTo[n \in 0..Len(history)] ==
    IF n = 0 THEN Unread ELSE CheckEvent(CheckUpTo[n - 1], history[n])

CheckReadAfterWrite == CheckUpTo[Len(history)].passed

-----------------------------------------------------------------------------
\* The checker of the laboratory raises an alarm exactly when a user has
\* missed an own reply, on histories of routers that break the guarantee as
\* well as on those of routers that keep it.
CheckerIsExact == CheckReadAfterWrite <=> ReadAfterWrite
=============================================================================
