---------------------------- MODULE GetDocuments ----------------------------
(***************************************************************************)
(* How a getDocument or getDocuments of the app is answered: the one-shot  *)
(* listener and its registration, the queries listened to (EventManager),  *)
(* the targets and the watch stream (RemoteStore), and the online state,   *)
(* which decides whether a get goes on waiting for the server or takes     *)
(* what the cache has (OnlineStateTracker, QueryListener).                 *)
(*                                                                         *)
(* Three executions interleave.  The worker queue runs every operation of  *)
(* the client, one at a time.  The user executor, the main queue, gets the *)
(* events it raises, and later runs the listener, which removes itself by  *)
(* an operation put back on the worker queue.  The server and the network  *)
(* answer or break at any time, or never.                                  *)
(*                                                                         *)
(* Left out: what the documents are, and how a target becomes current      *)
(* (limbo documents, existence filters): a target is current when the      *)
(* server's message and the resolutions it needs have come.                *)
(***************************************************************************)
EXTENDS Integers, Sequences, Stream

CONSTANTS
    Gets,       \* calls that can be under way at a time
    Queries,    \* what they ask for
    NoQuery,    \* the query of a call not made yet
    kMaxWatchStreamFailures,
    MaxEvents,  \* bound: events of one listener waiting on the main queue
    MaxChanges  \* bound: changes of the credentials

ASSUME GetsAssumption ==
    /\ NoQuery \notin Queries
    /\ kMaxWatchStreamFailures \in Nat \ {0}
    /\ MaxEvents \in Nat \ {0} /\ MaxChanges \in Nat

VARIABLES
    \* the app and its listeners
    query,      \* what each call asked for last
    events,     \* events posted to the main queue for the call's listener
    muted,      \* AsyncEventListener::muted_
    removing,   \* RemoveListener is on the worker queue
    answers,    \* what the call's completion was called with
    \* EventManager and SyncEngine
    listeners,  \* the calls with a listener in queries_
    raised,     \* raised_initial_event_
    current,    \* the queries whose view is synced
    \* RemoteStore and OnlineStateTracker
    targets,    \* listen_targets_
    state,      \* the watch stream's Stream::state_
    idle,       \* its idleness_timer_ is scheduled
    online,     \* OnlineStateTracker::state_
    failures,   \* watch_stream_failures_
    timer,      \* online_state_timer_ is scheduled
    changes     \* changes of the credentials so far

app     == <<query, events, muted, removing, answers>>
views   == <<listeners, raised, current>>
tracker == <<online, failures, timer>>
remote  == <<targets, state, idle>>
vars == <<app, views, tracker, remote, changes>>

Events == {"synced", "cached", "error"}

TypeOK ==
    /\ query \in [Gets -> Queries \cup {NoQuery}]
    /\ events \in [Gets -> Seq(Events)] /\ answers \in [Gets -> Seq(Events)]
    /\ muted \subseteq Gets /\ removing \subseteq Gets
    /\ raised \subseteq listeners /\ listeners \subseteq Gets
    /\ current \subseteq targets /\ targets \subseteq Queries
    /\ state \in StreamStates /\ idle \in BOOLEAN
    /\ online \in {"Unknown", "Online", "Offline"}
    /\ failures \in 0 .. kMaxWatchStreamFailures /\ timer \in BOOLEAN
    /\ changes \in 0 .. MaxChanges

Listening(q) == {g \in listeners : query[g] = q}

----------------------------------------------------------------------------
(* Events raised by the worker queue.                                      *)

\* OnEvent of the listeners of calls gs: posted to the main queue.
Post(gs, event) ==
    /\ \A g \in gs : Len(events[g]) < MaxEvents
    /\ events' = [g \in Gets |->
                    IF g \in gs THEN Append(events[g], event) ELSE events[g]]

HearNothing == UNCHANGED <<events, raised, current>>

\* The client has gone offline.  The synced views say so to the listeners that
\* had their first event, and the others have waited long enough.
HearOffline ==
    /\ current' = {}
    /\ Post({g \in listeners : g \notin raised \/ query[g] \in current}, "cached")
    /\ raised' = listeners

----------------------------------------------------------------------------
(* The watch stream.                                                       *)

RestartTimer(s, o, f, t) ==
    /\ state' = Started(s)
    /\ online' = "Unknown" /\ timer' = TRUE /\ failures' = f

\* StartWatchStream on a stream in state s, with the tracker at o, f and t: the
\* first attempt has a limited time.
StartWatchStream(s, o, f, t) ==
    /\ state' = Started(s)
    /\ failures' = f
    /\ IF f = 0 THEN online' = "Unknown" /\ timer' = TRUE
       ELSE online' = o /\ timer' = t

UpdateState(o) == online' = o /\ failures' = 0 /\ timer' = FALSE

ListenIdle(q) ==
    /\ targets' = targets \cup {q}
    /\ IF IsStarted(state) THEN UNCHANGED <<state, tracker>>
       ELSE StartWatchStream(state, online, failures, timer)
    /\ UNCHANGED idle

\* RemoteStore::Listen: a stream that is open is sent the request.
Listen(q) ==
    /\ targets' = targets \cup {q}
    /\ IF IsStarted(state) THEN UNCHANGED <<state, tracker>>
       ELSE StartWatchStream(state, online, failures, timer)
    /\ idle' = (idle /\ state # "Open")

\* RemoteStore::StopListening: with no target left a stream that is open is
\* idle, and of one that is not the state is unknown.
StopListening(q) ==
    /\ targets' = targets \ {q}
    /\ idle' = IdleTimer(idle, state, targets' = {}, TRUE)
    /\ IF targets' = {} /\ state # "Open" THEN UpdateState("Unknown")
       ELSE UNCHANGED tracker
    /\ UNCHANGED state

----------------------------------------------------------------------------
(* The app's calls.                                                        *)

\* The call has been answered and its listener is gone, or it was not made.
Free(g) == g \notin listeners \cup removing /\ events[g] = <<>>

\* A call for q.  If the query is listened to already, or the client is offline,
\* there may be something to answer at once.
Get(g, q) ==
    /\ Free(g)
    /\ query' = [query EXCEPT ![g] = q]
    /\ answers' = [answers EXCEPT ![g] = <<>>]
    /\ muted' = muted \ {g}
    /\ listeners' = listeners \cup {g}
    /\ LET now == online = "Offline" \/ q \in current
           event == IF q \in current THEN "synced" ELSE "cached"
       IN  IF now
           THEN raised' = raised \cup {g} /\ Post({g}, event)
           ELSE UNCHANGED <<raised, events>>
    /\ IF Listening(q) = {} THEN Listen(q) ELSE UNCHANGED <<remote, tracker>>
    /\ UNCHANGED <<removing, current, changes>>

OnEventUnmuted(g) ==
    /\ events[g] # <<>>
    /\ events' = [events EXCEPT ![g] = Tail(@)]
    /\ answers' = [answers EXCEPT ![g] = Append(@, Head(events[g]))]
    /\ removing' = removing \cup {g}
    /\ UNCHANGED <<query, muted, views, remote, tracker, changes>>

\* The main queue runs an event: the first one with documents mutes the listener
\* and has it removed, then the app is called.
OnEvent(g) ==
    /\ events[g] # <<>>
    /\ events' = [events EXCEPT ![g] = Tail(@)]
    /\ IF g \in muted THEN UNCHANGED <<muted, removing, answers>>
       ELSE /\ answers' = [answers EXCEPT ![g] = Append(@, Head(events[g]))]
            /\ IF Head(events[g]) = "error" THEN UNCHANGED <<muted, removing>>
               ELSE muted' = muted \cup {g} /\ removing' = removing \cup {g}
    /\ UNCHANGED <<query, views, remote, tracker, changes>>

\* The last listener of a query takes its view and its target along.  After an
\* error the query is gone, or it is another call's.
RemoveQueryListener(g) ==
    /\ g \in removing
    /\ removing' = removing \ {g}
    /\ listeners' = listeners \ {g}
    /\ raised' = raised \ {g}
    /\ IF Listening(query[g]) = {g}
       THEN StopListening(query[g]) /\ current' = current \ {query[g]}
       ELSE UNCHANGED <<current, remote, tracker>>
    /\ UNCHANGED <<query, events, muted, answers, changes>>

----------------------------------------------------------------------------
(* Events of the stream and the timers.                                    *)

\* The token is there: the stream is open and every target is sent.
ResumeStartWithCredentials ==
    /\ state = "Starting"
    /\ state' = "Open"
    /\ UNCHANGED <<app, views, tracker, targets, idle, changes>>

BackoffElapses ==
    /\ state = "Backoff"
    /\ state' = "Starting"
    /\ UNCHANGED <<app, views, tracker, targets, idle, changes>>

\* The stream is stopped by its idle timer: OnWatchStreamClose, status ok.
IdleElapses ==
    /\ idle
    /\ idle' = FALSE
    /\ state' = Stopped(state)
    /\ UpdateState("Unknown")
    /\ UNCHANGED <<app, views, targets, changes>>

\* The stream fails: a client that was online is unknown until the next attempt,
\* enough failures in a row take it offline.  The stream is started again if
\* there are targets.
OnWatchStreamClose ==
    /\ state \in {"Starting", "Open"}
    /\ idle' = FALSE
    /\ LET failed == failures + 1
       IN  \/ /\ targets = {}
              /\ state' = "Error"
              /\ UpdateState("Unknown")
              /\ UNCHANGED <<events, raised, current>>
           \/ /\ targets # {} /\ online = "Online"
              /\ StartWatchStream("Error", "Unknown", failures, timer)
              /\ UNCHANGED <<events, raised, current>>
           \/ /\ targets # {} /\ online # "Online"
              /\ failed >= kMaxWatchStreamFailures
              /\ StartWatchStream("Error", "Offline", kMaxWatchStreamFailures, FALSE)
              /\ IF online = "Offline" THEN UNCHANGED <<events, raised, current>>
                 ELSE HearOffline
           \/ /\ targets # {} /\ online # "Online"
              /\ failed < kMaxWatchStreamFailures
              /\ StartWatchStream("Error", online, failed, timer)
              /\ UNCHANGED <<events, raised, current>>
    /\ UNCHANGED <<query, muted, removing, answers, listeners, targets, changes>>

OnlineStateTimeout ==
    /\ timer
    /\ timer' = FALSE
    /\ online' = "Offline"
    /\ HearOffline
    /\ UNCHANGED <<query, muted, removing, answers, listeners, remote, failures,
                   changes>>

\* Auth reports a user: both streams are torn down and started again.
HandleCredentialChange ==
    /\ changes < MaxChanges
    /\ changes' = changes + 1
    /\ idle' = FALSE
    /\ IF targets # {} THEN StartWatchStream(Stopped(state), "Unknown", 0, FALSE)
       ELSE state' = Stopped(state) /\ UpdateState("Unknown")
    /\ UNCHANGED <<app, views, targets>>

\* A local write, or a message of the server, changes documents of q: further
\* events for the listeners that had their first one.
DocumentsChange(q) ==
    /\ Listening(q) \cap raised # {}
    /\ Post(Listening(q) \cap raised, IF q \in current THEN "synced" ELSE "cached")
    /\ UNCHANGED <<query, muted, removing, answers, views, remote, tracker, changes>>

----------------------------------------------------------------------------
(* Messages of the server.  Any of them makes the client online.           *)

WatchMessage ==
    /\ state = "Open"
    /\ UpdateState("Online")
    /\ UNCHANGED <<app, views, remote, changes>>

\* The target is current: its view is synced, which is an event for all.
WatchCurrent(q) ==
    /\ state = "Open" /\ q \in targets \ current
    /\ UpdateState("Online")
    /\ current' = current \cup {q}
    /\ Post(Listening(q), "synced")
    /\ raised' = raised \cup Listening(q)
    /\ UNCHANGED <<query, muted, removing, answers, listeners, remote, changes>>

\* The target has to catch up, after a reset or on a new stream.
WatchNotCurrent(q) ==
    /\ state = "Open" /\ q \in current
    /\ UpdateState("Online")
    /\ current' = current \ {q}
    /\ Post(Listening(q), "cached")
    /\ UNCHANGED <<query, muted, removing, answers, listeners, raised, remote, changes>>

RejectOnly(q) ==
    /\ state = "Open" /\ q \in targets
    /\ UpdateState("Online")
    /\ targets' = targets \ {q}
    /\ Post(Listening(q), "error")
    /\ UNCHANGED <<query, muted, removing, answers, views, state, idle, changes>>

\* The target is refused: the query and its listeners are gone after the error.
ProcessTargetError(q) ==
    /\ state = "Open" /\ q \in targets
    /\ UpdateState("Online")
    /\ targets' = targets \ {q}
    /\ current' = current \ {q}
    /\ Post(Listening(q), "error")
    /\ listeners' = listeners \ Listening(q)
    /\ raised' = raised \ Listening(q)
    /\ UNCHANGED <<query, muted, removing, answers, state, idle, changes>>

----------------------------------------------------------------------------
Init ==
    /\ query = [g \in Gets |-> NoQuery]
    /\ events = [g \in Gets |-> <<>>] /\ answers = [g \in Gets |-> <<>>]
    /\ muted = {} /\ removing = {}
    /\ listeners = {} /\ raised = {} /\ current = {}
    /\ targets = {} /\ state = "Initial" /\ idle = FALSE
    /\ online = "Unknown" /\ failures = 0 /\ timer = FALSE
    /\ changes = 0

\* The main queue and the worker queue run what is on them.
Client ==
    \/ ResumeStartWithCredentials \/ BackoffElapses \/ OnlineStateTimeout
    \/ \E g \in Gets : OnEvent(g) \/ RemoveQueryListener(g)

Server ==
    \/ WatchMessage
    \/ \E q \in Queries : WatchCurrent(q) \/ WatchNotCurrent(q) \/ ProcessTargetError(q)

Environment ==
    \/ \E g \in Gets, q \in Queries : Get(g, q)
    \/ \E q \in Queries : DocumentsChange(q)
    \/ OnWatchStreamClose \/ IdleElapses \/ HandleCredentialChange

Next == Client \/ Server \/ Environment

Spec == Init /\ [][Next]_vars

(***************************************************************************)
(* Queues run what is on them and timers go off.  The network may hang for *)
(* ever: nothing is asked of it here.                                      *)
(***************************************************************************)
ClientFairness ==
    /\ WF_vars(ResumeStartWithCredentials)
    /\ WF_vars(BackoffElapses)
    /\ WF_vars(OnlineStateTimeout)
    /\ \A g \in Gets : WF_vars(OnEvent(g)) /\ WF_vars(RemoveQueryListener(g))

HangingSpec == Spec /\ ClientFairness

(***************************************************************************)
(* A network that does not hang: a stream that is open hears from the      *)
(* server or fails, and a server that is reached again and again gets      *)
(* round to each target.                                                   *)
(***************************************************************************)
FairSpec ==
    /\ HangingSpec
    /\ WF_vars(WatchMessage \/ OnWatchStreamClose)
    /\ \A q \in Queries :
          SF_vars(online = "Online" /\ (WatchCurrent(q) \/ ProcessTargetError(q)))

----------------------------------------------------------------------------
\* The assertions of the tracker: when the timer goes off, the state must be
\* unknown, and enough failures have stopped it; who is online has no failures
\* to count; and a stream that starts finds the timer off.  Online means that a
\* stream is open: every path on which the stream closes, fails or is torn down
\* takes the state back.
TrackerAssertions ==
    /\ timer => online = "Unknown" /\ failures < kMaxWatchStreamFailures
    /\ online = "Online" => failures = 0 /\ state = "Open"
    /\ ~IsStarted(state) => ~timer /\ online = "Unknown" /\ failures = 0

\* The stream is up or coming up whenever there is a target, and the idle timer
\* never stops one that is needed ("stopped gracefully while still needed").
StreamWhenNeeded ==
    /\ targets # {} => IsStarted(state) /\ ~idle
    /\ idle => state = "Open"

\* The layers agree on what is listened to ("We already listen to query",
\* "target not currently watched"), however answers, removals put on the queue
\* and errors of the server cross, and the stream is there for them.
LayersAgree ==
    /\ StreamWhenNeeded
    /\ targets = {query[g] : g \in listeners}
    /\ removing \subseteq {g \in Gets : g \in muted /\ answers[g] # <<>>}

\* No call waits without a reason: not when the client is offline, when it gets
\* what the cache has, nor once its query is synced.
WaitingJustified ==
    \A g \in listeners \ raised : online # "Offline" /\ query[g] \notin current

\* The app's completion is called once, though events may follow the first
\* before the listener is removed.
AnsweredOnce == \A g \in Gets : Len(answers[g]) <= 1

Waiting(g) == query[g] # NoQuery /\ answers[g] = <<>>

\* Every call is answered in the end, by the server, from the cache or with an
\* error, if the network does not hang.
GetAnswered == \A g \in Gets : Waiting(g) ~> ~Waiting(g)

\* "If the timeout is reached, we transition to Offline rather than waiting
\* indefinitely": with a call waiting, the client does not stay unknown, even if
\* the network hangs.
UnknownEnds ==
    \A g \in Gets : (Waiting(g) /\ online = "Unknown")
                    ~> ~(Waiting(g) /\ online = "Unknown")
=============================================================================
