------------------------------- MODULE Stream -------------------------------
(***************************************************************************)
(* What the watch stream and the write stream of Firestore's client have   *)
(* in common (class Stream): its states, what Start and Stop make of them, *)
(* and the idle timer.                                                     *)
(***************************************************************************)

StreamStates == {"Initial", "Starting", "Open", "Error", "Backoff"}

IsStarted(s) == s \in {"Starting", "Backoff", "Open"}

StartedOnce(s) == IF s = "Error" THEN "Error" ELSE "Starting"

\* Start: after an error the stream backs off first.
Started(s) == IF s = "Error" THEN "Backoff" ELSE "Starting"

\* Stop: a graceful close of a stream that is started.
Stopped(s) == IF IsStarted(s) THEN "Initial" ELSE s

\* MarkIdle, when there is nothing to do for an open stream, starts the timer;
\* a Write before it cancels it.
IdleTimer(timer, s, nothing, wrote) ==
    (timer /\ ~wrote) \/ (s = "Open" /\ nothing)
=============================================================================
