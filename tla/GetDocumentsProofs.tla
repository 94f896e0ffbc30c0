--------------------------- MODULE GetDocumentsProofs ---------------------------
(***************************************************************************)
(* The safety of GetDocuments for any number of calls and queries, any     *)
(* limit of failures and any number of waiting events: its types, the      *)
(* assertions of the online state tracker, the agreement of the layers,    *)
(* that a call waits only with a reason, and that it is answered once.     *)
(***************************************************************************)
EXTENDS GetDocuments, TLAPS

\* An error is the last event of a listener, which is gone with it.
ErrorIsLast(g) ==
    \A i \in 1 .. Len(events[g]) :
        events[g][i] = "error" => i = Len(events[g]) /\ g \notin listeners

\* A call that is not muted has no answer, or its answer was the error after
\* which nothing comes.
AnsweredByLast(g) ==
    IF g \in muted THEN Len(answers[g]) = 1
    ELSE \/ answers[g] = <<>>
         \/ Len(answers[g]) = 1 /\ events[g] = <<>> /\ g \notin listeners

Calls == \A g \in Gets : ErrorIsLast(g) /\ AnsweredByLast(g)

GetInv == TypeOK /\ TrackerAssertions /\ LayersAgree /\ WaitingJustified /\ Calls

----------------------------------------------------------------------------
\* Events posted to listeners keep the type, and leave the others' alone.
LEMMA PostType ==
    ASSUME TypeOK, NEW gs \in SUBSET Gets, NEW event \in Events, Post(gs, event)
    PROVE  /\ events' \in [Gets -> Seq(Events)]
           /\ \A g \in Gets :
                 events'[g] = IF g \in gs THEN Append(events[g], event) ELSE events[g]
<1>1. \A g \in Gets : events[g] \in Seq(Events)
    BY DEF TypeOK
<1>2. \A g \in Gets : Append(events[g], event) \in Seq(Events)
    BY <1>1
<1> QED BY <1>1, <1>2 DEF Post

\* What is posted to listeners that are still waiting or muted keeps each call's
\* events and answers in order.
LEMMA PostCalls ==
    ASSUME TypeOK, Calls, NEW gs \in SUBSET listeners, NEW event \in Events,
           Post(gs, event), listeners' \subseteq listeners,
           event = "error" => gs \cap listeners' = {},
           UNCHANGED <<muted, answers>>
    PROVE  Calls'
<1> SUFFICES ASSUME NEW g \in Gets PROVE ErrorIsLast(g)' /\ AnsweredByLast(g)'
    BY DEF Calls
<1>1. events[g] \in Seq(Events) /\ ErrorIsLast(g) /\ AnsweredByLast(g)
    BY DEF TypeOK, Calls
<1>2. events'[g] = IF g \in gs THEN Append(events[g], event) ELSE events[g]
    BY PostType DEF TypeOK
<1>3. CASE g \notin gs
    BY <1>1, <1>2, <1>3 DEF ErrorIsLast, AnsweredByLast
<1>4. CASE g \in gs
    <2>1. \A i \in 1 .. Len(events[g]) : events[g][i] # "error"
        BY <1>1, <1>4 DEF ErrorIsLast
    <2>2. /\ Len(events'[g]) = Len(events[g]) + 1
          /\ \A i \in 1 .. Len(events[g]) : events'[g][i] = events[g][i]
          /\ events'[g][Len(events[g]) + 1] = event
          /\ Len(events[g]) \in Nat
        BY <1>1, <1>2, <1>4
    <2>3. ErrorIsLast(g)'
        BY <1>4, <2>1, <2>2 DEF ErrorIsLast
    <2>4. AnsweredByLast(g)'
        BY <1>1, <1>4 DEF AnsweredByLast
    <2> QED BY <2>3, <2>4
<1> QED BY <1>3, <1>4

\* Steps that leave the app's calls alone.
LEMMA SameCalls ==
    ASSUME Calls, UNCHANGED <<events, muted, answers, listeners>>
    PROVE  Calls'
    BY DEF Calls, ErrorIsLast, AnsweredByLast

----------------------------------------------------------------------------
LEMMA InitHolds == Init => GetInv
<1> SUFFICES ASSUME Init PROVE GetInv
    OBVIOUS
<1>1. TypeOK
    <2>1. failures \in 0 .. kMaxWatchStreamFailures /\ changes \in 0 .. MaxChanges
        BY GetsAssumption DEF Init
    <2>2. events \in [Gets -> Seq(Events)] /\ answers \in [Gets -> Seq(Events)]
        BY DEF Init
    <2> QED BY <2>1, <2>2 DEF Init, TypeOK, StreamStates
<1>2. TrackerAssertions /\ LayersAgree /\ WaitingJustified
    BY GetsAssumption DEF Init, TrackerAssertions, LayersAgree, StreamWhenNeeded,
                          WaitingJustified, IsStarted
<1>3. Calls
    BY DEF Init, Calls, ErrorIsLast, AnsweredByLast
<1> QED BY <1>1, <1>2, <1>3 DEF GetInv

\* A stream that starts keeps the tracker's assertions, for every failure count
\* the tracker can have; without failures the state is unknown.
LEMMA StartSound ==
    ASSUME NEW s \in StreamStates, NEW o \in {"Unknown", "Online", "Offline"},
           NEW f \in 0 .. kMaxWatchStreamFailures, NEW t \in BOOLEAN,
           StartWatchStream(s, o, f, t), o # "Online" \/ f = 0,
           t => o = "Unknown" /\ f < kMaxWatchStreamFailures
    PROVE  /\ state' \in {"Starting", "Backoff"} /\ failures' = f
           /\ online' \in {"Unknown", "Offline"} /\ timer' \in BOOLEAN
           /\ timer' => online' = "Unknown" /\ f < kMaxWatchStreamFailures
           /\ f = 0 => online' = "Unknown"
           /\ f # 0 => online' = o
<1>1. CASE f = 0
    <2>1. online' = "Unknown" /\ timer' = TRUE
        BY <1>1 DEF StartWatchStream
    <2> QED BY <1>1, <2>1, GetsAssumption DEF StartWatchStream, Started
<1>2. CASE f # 0
    <2>1. online' = o /\ timer' = t
        BY <1>2 DEF StartWatchStream
    <2>2. timer' \in BOOLEAN /\ (timer' => o = "Unknown" /\ f < kMaxWatchStreamFailures)
        BY <2>1, Zenon
    <2> QED BY <1>2, <2>1, <2>2 DEF StartWatchStream, Started
<1> QED BY <1>1, <1>2

\* A tracker that is told of a stream closed on purpose has nothing to assert.
LEMMA UnknownSound ==
    ASSUME UpdateState("Unknown")
    PROVE  /\ online' = "Unknown" /\ timer' \in BOOLEAN
           /\ failures' \in 0 .. kMaxWatchStreamFailures
           /\ TrackerAssertions'
<1>1. online' = "Unknown" /\ failures' = 0 /\ timer' = FALSE
    BY DEF UpdateState
<1>2. ~timer' /\ timer' \in BOOLEAN
    BY <1>1
<1> QED BY <1>1, <1>2, GetsAssumption DEF TrackerAssertions

----------------------------------------------------------------------------
\* The app's calls.
LEMMA GetStep ==
    ASSUME GetInv, NEW g \in Gets, NEW q \in Queries, Get(g, q)
    PROVE  GetInv'
<1> DEFINE now == online = "Offline" \/ q \in current
           event == IF q \in current THEN "synced" ELSE "cached"
<1> USE DEF GetInv
<1>1. g \notin listeners /\ g \notin removing /\ events[g] = <<>>
    BY DEF Get, Free
<1>2. \A h \in Gets : query'[h] = IF h = g THEN q ELSE query[h]
    BY DEF Get, TypeOK
<1>3. query' \in [Gets -> Queries \cup {NoQuery}]
    BY DEF Get, TypeOK
<1>4. /\ answers' \in [Gets -> Seq(Events)] /\ answers'[g] = <<>>
      /\ \A h \in Gets : h # g => answers'[h] = answers[h]
    <2>1. <<>> \in Seq(Events)
        OBVIOUS
    <2> QED BY <2>1 DEF Get, TypeOK
<1>5. /\ events' \in [Gets -> Seq(Events)]
      /\ \A h \in Gets : h # g => events'[h] = events[h]
      /\ \A i \in 1 .. Len(events'[g]) : events'[g][i] # "error"
    <2>1. CASE now
        <3>1. Post({g}, event) /\ event \in Events /\ event # "error"
            BY <2>1 DEF Get, Events
        <3> HIDE DEF event
        <3>2. /\ events' \in [Gets -> Seq(Events)]
              /\ \A h \in Gets :
                    events'[h] = IF h \in {g} THEN Append(events[h], event)
                                 ELSE events[h]
            BY <3>1, PostType, SMTT(30)
        <3>3. events'[g] = <<event>>
            BY <1>1, <3>2
        <3> QED BY <3>1, <3>2, <3>3
    <2>2. CASE ~now
        BY <1>1, <2>2 DEF Get, TypeOK
    <2> QED BY <2>1, <2>2
<1>6. /\ targets' = targets \cup {q} /\ state' \in StreamStates /\ IsStarted(state')
      /\ idle' \in BOOLEAN /\ ~idle'
      /\ online' \in {"Unknown", "Online", "Offline"} /\ timer' \in BOOLEAN
      /\ failures' \in 0 .. kMaxWatchStreamFailures
      /\ TrackerAssertions'
      /\ online' = "Offline" => online = "Offline"
    <2>1. CASE Listening(q) = {}
        <3>1. Listen(q)
            BY <2>1 DEF Get
        <3>2. CASE IsStarted(state)
            BY <3>1, <3>2 DEF Listen, TypeOK, TrackerAssertions, tracker, LayersAgree,
                              StreamWhenNeeded
        <3>3. CASE ~IsStarted(state)
            <4>1. StartWatchStream(state, online, failures, timer) /\ failures = 0
                  /\ ~timer /\ online = "Unknown" /\ ~idle /\ state # "Open"
                BY <3>1, <3>3 DEF Listen, TrackerAssertions, LayersAgree,
                                  StreamWhenNeeded, IsStarted
            <4>2. /\ state' \in {"Starting", "Backoff"} /\ failures' = 0
                  /\ online' = "Unknown" /\ timer'
                BY <4>1 DEF StartWatchStream, Started
            <4> QED BY <3>1, <4>1, <4>2, GetsAssumption
                    DEF Listen, TrackerAssertions, IsStarted, StreamStates, TypeOK
        <3> QED BY <3>2, <3>3
    <2>2. CASE Listening(q) # {}
        <3>1. UNCHANGED <<remote, tracker>> /\ q \in targets
            BY <2>2 DEF Get, Listening, LayersAgree
        <3> QED BY <3>1 DEF remote, tracker, TypeOK, TrackerAssertions, LayersAgree,
                            StreamWhenNeeded
    <2> QED BY <2>1, <2>2
<1>7. TypeOK'
    BY <1>3, <1>4, <1>5, <1>6 DEF Get, TypeOK
<1>8. LayersAgree'
    <2>1. targets' = {query'[h] : h \in listeners'}
        BY <1>1, <1>2, <1>6 DEF Get, LayersAgree, TypeOK
    <2>2. removing' \subseteq {h \in Gets : h \in muted' /\ answers'[h] # <<>>}
        BY <1>1, <1>4 DEF Get, LayersAgree
    <2> QED BY <1>6, <2>1, <2>2 DEF LayersAgree, StreamWhenNeeded
<1>9. WaitingJustified'
    BY <1>1, <1>2, <1>6 DEF Get, WaitingJustified, TypeOK
<1>10. Calls'
    BY <1>1, <1>4, <1>5 DEF Get, Calls, ErrorIsLast, AnsweredByLast
<1> QED BY <1>6, <1>7, <1>8, <1>9, <1>10

\* The main queue runs an event.
LEMMA OnEventStep ==
    ASSUME GetInv, NEW g \in Gets, OnEvent(g)
    PROVE  GetInv'
<1> USE DEF GetInv
<1>1. /\ events[g] \in Seq(Events) /\ events[g] # <<>> /\ answers[g] \in Seq(Events)
      /\ ErrorIsLast(g) /\ AnsweredByLast(g)
    BY DEF OnEvent, TypeOK, Calls
<1>2. /\ Head(events[g]) = events[g][1] /\ Head(events[g]) \in Events
      /\ Tail(events[g]) \in Seq(Events)
      /\ Len(Tail(events[g])) = Len(events[g]) - 1 /\ Len(events[g]) \in Nat \ {0}
      /\ \A i \in 1 .. Len(events[g]) - 1 : Tail(events[g])[i] = events[g][i + 1]
    BY <1>1
<1>3. /\ events' \in [Gets -> Seq(Events)] /\ events'[g] = Tail(events[g])
      /\ \A h \in Gets : h # g => events'[h] = events[h]
    BY <1>2 DEF OnEvent, TypeOK
<1>4. /\ answers' \in [Gets -> Seq(Events)]
      /\ \A h \in Gets : h # g => answers'[h] = answers[h]
      /\ answers'[g] = IF g \in muted THEN answers[g]
                       ELSE Append(answers[g], Head(events[g]))
    <2>1. CASE g \in muted
        BY <2>1 DEF OnEvent, TypeOK
    <2>2. CASE g \notin muted
        <3>1. answers' = [answers EXCEPT ![g] = Append(@, Head(events[g]))]
            BY <2>2 DEF OnEvent
        <3>2. Append(answers[g], Head(events[g])) \in Seq(Events)
            BY <1>1, <1>2
        <3> QED BY <2>2, <3>1, <3>2 DEF TypeOK
    <2> QED BY <2>1, <2>2
<1>5. /\ muted \subseteq muted' /\ muted' \subseteq muted \cup {g}
      /\ removing \subseteq removing' /\ removing' \subseteq removing \cup {g}
      /\ removing' \subseteq removing \cup muted'
      /\ g \in muted => removing' = removing
    BY Zenon DEF OnEvent
<1>6. g \notin muted => Len(answers'[g]) = 1 /\ answers'[g] # <<>>
    BY <1>1, <1>2, <1>4 DEF AnsweredByLast
<1>7. ErrorIsLast(g)'
    <2> SUFFICES ASSUME NEW i \in 1 .. Len(events'[g]), events'[g][i] = "error"
                 PROVE  i = Len(events'[g]) /\ g \notin listeners'
        BY DEF ErrorIsLast
    <2>1. i + 1 \in 1 .. Len(events[g]) /\ events[g][i + 1] = "error"
        BY <1>2, <1>3
    <2>2. i + 1 = Len(events[g]) /\ g \notin listeners
        BY <1>1, <2>1 DEF ErrorIsLast
    <2>3. Len(events'[g]) = Len(events[g]) - 1 /\ i \in Nat /\ Len(events[g]) \in Nat
        BY <1>2, <1>3
    <2>4. listeners' = listeners
        BY DEF OnEvent, views
    <2> QED BY <2>2, <2>3, <2>4
<1>8. AnsweredByLast(g)'
    <2>1. CASE g \in muted
        BY <1>1, <1>4, <1>5, <2>1 DEF AnsweredByLast
    <2>2. CASE g \notin muted /\ Head(events[g]) # "error"
        <3>1. g \in muted'
            BY <2>2 DEF OnEvent
        <3> QED BY <1>6, <2>2, <3>1 DEF AnsweredByLast
    <2>3. CASE g \notin muted /\ Head(events[g]) = "error"
        <3>1. Len(events[g]) = 1 /\ g \notin listeners
            <4>1. 1 \in 1 .. Len(events[g]) /\ events[g][1] = "error"
                BY <1>2, <2>3
            <4> QED BY <1>1, <4>1 DEF ErrorIsLast
        <3>2. events'[g] = <<>>
            BY <1>1, <1>3, <3>1
        <3>3. g \notin muted' /\ g \notin listeners'
            BY <2>3, <3>1 DEF OnEvent, views
        <3> QED BY <1>6, <2>3, <3>2, <3>3 DEF AnsweredByLast
    <2> QED BY <2>1, <2>2, <2>3
<1>9. Calls'
    <2> SUFFICES ASSUME NEW h \in Gets PROVE ErrorIsLast(h)' /\ AnsweredByLast(h)'
        BY DEF Calls
    <2>1. CASE h # g
        <3>1. events'[h] = events[h] /\ answers'[h] = answers[h] /\ listeners' = listeners
              /\ (h \in muted' <=> h \in muted)
            BY <1>3, <1>4, <1>5, <2>1 DEF OnEvent, views
        <3> QED BY <3>1 DEF Calls, ErrorIsLast, AnsweredByLast
    <2> QED BY <1>7, <1>8, <2>1
<1>10. TypeOK'
    BY <1>3, <1>4, <1>5 DEF OnEvent, TypeOK, views, remote, tracker
<1>11. LayersAgree'
    <2>1. targets' = {query'[h] : h \in listeners'} /\ StreamWhenNeeded'
        BY DEF OnEvent, LayersAgree, StreamWhenNeeded, views, remote
    <2>2. ASSUME NEW h \in removing' PROVE h \in muted' /\ answers'[h] # <<>>
        <3>1. CASE h = g
            BY <1>4, <1>5, <1>6, <3>1 DEF LayersAgree
        <3>2. CASE h # g
            <4>1. h \in removing /\ h \in Gets
                BY <1>5, <1>10, <3>2 DEF TypeOK
            <4> QED BY <1>4, <1>5, <3>2, <4>1 DEF LayersAgree
        <3> QED BY <3>1, <3>2
    <2>3. removing' \subseteq Gets
        BY <1>10 DEF TypeOK
    <2> QED BY <2>1, <2>2, <2>3 DEF LayersAgree
<1> QED BY <1>9, <1>10, <1>11
        DEF OnEvent, TrackerAssertions, WaitingJustified, views, remote, tracker

\* The operation that removes a listener that has been answered.
LEMMA RemoveStep ==
    ASSUME GetInv, NEW g \in Gets, RemoveQueryListener(g)
    PROVE  GetInv'
<1> USE DEF GetInv
<1>1. /\ g \in removing /\ removing' = removing \ {g} /\ listeners' = listeners \ {g}
      /\ raised' = raised \ {g}
      /\ UNCHANGED <<query, events, muted, answers, changes>>
    BY DEF RemoveQueryListener
<1>2. g \in muted /\ answers[g] # <<>>
    BY <1>1 DEF LayersAgree
<1>3. Calls'
    BY <1>1, <1>2 DEF Calls, ErrorIsLast, AnsweredByLast
<1>4. CASE Listening(query[g]) = {g}
    <2>1. StopListening(query[g]) /\ current' = current \ {query[g]}
        BY <1>4 DEF RemoveQueryListener
    <2>2. targets' = {query[h] : h \in listeners'}
        BY <1>1, <1>4, <2>1 DEF StopListening, LayersAgree, Listening, TypeOK
    <2>3. /\ state' = state /\ idle' \in BOOLEAN /\ TrackerAssertions'
          /\ idle' => state = "Open" /\ targets' = {}
          /\ online' \in {"Unknown", online} /\ timer' \in BOOLEAN
          /\ failures' \in 0 .. kMaxWatchStreamFailures
        <3>1. /\ state' = state /\ query[g] \in targets /\ ~idle
              /\ idle' = (state = "Open" /\ targets' = {})
            BY <1>1, <1>4, <2>1 DEF StopListening, LayersAgree, StreamWhenNeeded,
                                    IdleTimer, Listening, TypeOK
        <3>4. idle' \in BOOLEAN /\ (idle' => state = "Open" /\ targets' = {})
            BY <3>1, Zenon
        <3>2. CASE UpdateState("Unknown")
            BY <3>1, <3>2, <3>4, UnknownSound
        <3>3. CASE UNCHANGED tracker
            BY <3>1, <3>3, <3>4 DEF tracker, TrackerAssertions, TypeOK
        <3> QED BY <2>1, <3>1, <3>2, <3>3 DEF StopListening
    <2>4. TypeOK'
        BY <1>1, <2>1, <2>3 DEF StopListening, TypeOK
    <2>5. LayersAgree'
        BY <1>1, <2>1, <2>2, <2>3 DEF LayersAgree, StreamWhenNeeded, StopListening
    <2>6. WaitingJustified'
        BY <1>1, <2>1, <2>3 DEF WaitingJustified
    <2> QED BY <1>3, <2>3, <2>4, <2>5, <2>6
<1>5. CASE Listening(query[g]) # {g}
    <2>1. UNCHANGED <<current, remote, tracker>>
        BY <1>5 DEF RemoveQueryListener
    <2>2. \A h \in listeners : \E k \in listeners \ {g} : query[k] = query[h]
        BY <1>5 DEF Listening
    <2>3. targets' = {query[h] : h \in listeners'}
        BY <1>1, <2>1, <2>2 DEF LayersAgree, remote
    <2>4. TypeOK' /\ TrackerAssertions'
        BY <1>1, <2>1 DEF TypeOK, TrackerAssertions, remote, tracker
    <2>5. LayersAgree' /\ WaitingJustified'
        BY <1>1, <2>1, <2>3 DEF LayersAgree, StreamWhenNeeded, WaitingJustified,
                                remote, tracker
    <2> QED BY <1>3, <2>4, <2>5
<1> QED BY <1>4, <1>5

----------------------------------------------------------------------------
\* What the stream and the tracker may become in a step of theirs.
RemoteSound ==
    /\ state' \in StreamStates /\ idle' \in BOOLEAN
    /\ online' \in {"Unknown", "Online", "Offline"} /\ timer' \in BOOLEAN
    /\ failures' \in 0 .. kMaxWatchStreamFailures
    /\ changes' \in 0 .. MaxChanges
    /\ TrackerAssertions'
    /\ StreamWhenNeeded'

\* A step that the calls do not notice.
LEMMA UnnoticedStep ==
    ASSUME GetInv, RemoteSound, UNCHANGED <<app, views, targets>>,
           online' = "Offline" => online = "Offline"
    PROVE  GetInv'
<1> USE DEF GetInv, app, views
<1>1. TypeOK'
    BY DEF TypeOK, RemoteSound
<1>2. LayersAgree'
    BY DEF LayersAgree, RemoteSound
<1>3. WaitingJustified'
    BY DEF WaitingJustified
<1>4. Calls'
    BY SameCalls
<1> QED BY <1>1, <1>2, <1>3, <1>4 DEF RemoteSound

\* A step whose events some listeners hear, and none of which is an error.
LEMMA HeardStep ==
    ASSUME GetInv, RemoteSound, NEW gs \in SUBSET listeners,
           NEW event \in Events \ {"error"}, Post(gs, event),
           UNCHANGED <<query, muted, removing, answers, listeners, targets>>,
           raised' \subseteq listeners, current' \subseteq targets,
           WaitingJustified'
    PROVE  GetInv'
<1> USE DEF GetInv
<1>1. events' \in [Gets -> Seq(Events)]
    BY PostType DEF TypeOK
<1>2. TypeOK'
    BY <1>1 DEF TypeOK, RemoteSound
<1>3. LayersAgree'
    BY DEF LayersAgree, RemoteSound
<1>4. Calls'
    BY PostCalls
<1> QED BY <1>2, <1>3, <1>4 DEF RemoteSound

\* The client goes offline: nobody waits on.
LEMMA OfflineStep ==
    ASSUME GetInv, RemoteSound, HearOffline,
           UNCHANGED <<query, muted, removing, answers, listeners, targets>>
    PROVE  GetInv'
<1> DEFINE gs == {g \in listeners : g \notin raised \/ query[g] \in current}
<1>1. gs \in SUBSET listeners /\ "cached" \in Events \ {"error"}
    BY DEF Events
<1>2. Post(gs, "cached") /\ raised' = listeners /\ current' = {}
    BY DEF HearOffline
<1> HIDE DEF gs
<1>3. WaitingJustified'
    BY <1>2 DEF WaitingJustified
<1> QED BY <1>1, <1>2, <1>3, HeardStep

----------------------------------------------------------------------------
\* The stream and its timers.
LEMMA OpeningStep ==
    ASSUME GetInv, ResumeStartWithCredentials \/ BackoffElapses
    PROVE  GetInv'
<1>1. /\ UNCHANGED <<app, views, tracker, targets, idle, changes>>
      /\ state \in {"Starting", "Backoff"} /\ state' \in {"Open", "Starting"}
    BY DEF ResumeStartWithCredentials, BackoffElapses
<1>2. RemoteSound
    BY <1>1 DEF RemoteSound, GetInv, TypeOK, TrackerAssertions, LayersAgree,
                StreamWhenNeeded, IsStarted, StreamStates, tracker
<1> QED BY <1>1, <1>2, UnnoticedStep DEF tracker

LEMMA IdleStep == ASSUME GetInv, IdleElapses PROVE GetInv'
<1>1. /\ UNCHANGED <<app, views, targets, changes>> /\ idle /\ idle' = FALSE
      /\ state' = Stopped(state)
      /\ UpdateState("Unknown")
    BY DEF IdleElapses
<1>2. targets = {}
    BY <1>1 DEF GetInv, LayersAgree, StreamWhenNeeded
<1>3. RemoteSound
    BY <1>1, <1>2, UnknownSound
    DEF RemoteSound, GetInv, TypeOK, StreamWhenNeeded, Stopped, StreamStates
<1> QED BY <1>1, <1>3, UnknownSound, UnnoticedStep

LEMMA CredentialStep == ASSUME GetInv, HandleCredentialChange PROVE GetInv'
<1>1. /\ UNCHANGED <<app, views, targets>> /\ ~idle' /\ idle' \in BOOLEAN
      /\ changes' \in 0 .. MaxChanges
    <2>1. idle' = FALSE /\ changes' = changes + 1 /\ changes < MaxChanges
        BY DEF HandleCredentialChange
    <2>2. changes' \in 0 .. MaxChanges
        BY <2>1, GetsAssumption DEF GetInv, TypeOK
    <2> QED BY <2>1, <2>2, Zenon DEF HandleCredentialChange
<1>2. Stopped(state) \in StreamStates
    BY DEF GetInv, TypeOK, Stopped, StreamStates
<1>3. CASE targets # {}
    <2>1. StartWatchStream(Stopped(state), "Unknown", 0, FALSE)
        BY <1>3 DEF HandleCredentialChange
    <2>2. /\ state' \in {"Starting", "Backoff"} /\ failures' = 0
          /\ online' = "Unknown" /\ timer' \in BOOLEAN
        <3>1. 0 \in 0 .. kMaxWatchStreamFailures /\ FALSE \in BOOLEAN
            BY GetsAssumption
        <3> QED BY <1>2, <2>1, <3>1, StartSound, Zenon
    <2>3. failures' \in 0 .. kMaxWatchStreamFailures /\ 0 < kMaxWatchStreamFailures
        BY <2>2, GetsAssumption
    <2>4. RemoteSound
        BY <1>1, <2>2, <2>3
        DEF RemoteSound, TrackerAssertions, StreamWhenNeeded, StreamStates, IsStarted
    <2> QED BY <1>1, <2>2, <2>4, UnnoticedStep
<1>4. CASE targets = {}
    <2>1. state' = Stopped(state) /\ UpdateState("Unknown")
        BY <1>4 DEF HandleCredentialChange
    <2>2. RemoteSound
        BY <1>1, <1>2, <1>4, <2>1, UnknownSound DEF RemoteSound, StreamWhenNeeded
    <2> QED BY <1>1, <2>1, <2>2, UnknownSound, UnnoticedStep
<1> QED BY <1>3, <1>4

LEMMA TimeoutStep == ASSUME GetInv, OnlineStateTimeout PROVE GetInv'
<1>1. /\ HearOffline /\ timer /\ timer' = FALSE /\ online' = "Offline"
      /\ UNCHANGED <<query, muted, removing, answers, listeners, remote, failures,
                     changes>>
    BY DEF OnlineStateTimeout
<1>2. RemoteSound
    BY <1>1 DEF RemoteSound, GetInv, TypeOK, TrackerAssertions, LayersAgree,
                StreamWhenNeeded, remote
<1> QED BY <1>1, <1>2, OfflineStep DEF remote

\* A stream that fails, by what the tracker makes of it.
LEMMA CloseStep == ASSUME GetInv, OnWatchStreamClose PROVE GetInv'
<1> USE DEF GetInv
<1>1. /\ state \in {"Starting", "Open"} /\ idle' = FALSE
      /\ UNCHANGED <<query, muted, removing, answers, listeners, targets, changes>>
    BY DEF OnWatchStreamClose
<1>2. /\ online \in {"Unknown", "Online", "Offline"} /\ timer \in BOOLEAN
      /\ failures \in 0 .. kMaxWatchStreamFailures /\ "Error" \in StreamStates
      /\ {"Starting", "Backoff"} \subseteq StreamStates
      /\ kMaxWatchStreamFailures \in Nat \ {0}
    BY GetsAssumption DEF TypeOK, StreamStates
<1> DEFINE failed == failures + 1
           same == UNCHANGED <<events, raised, current>>
<1>3. CASE targets = {} /\ state' = "Error" /\ UpdateState("Unknown") /\ same
    <2>1. RemoteSound
        BY <1>1, <1>2, <1>3, UnknownSound DEF RemoteSound, TypeOK, StreamWhenNeeded
    <2> QED BY <1>1, <1>3, <2>1, UnknownSound, UnnoticedStep DEF app, views
<1>4. ASSUME NEW o \in {"Unknown", "Online", "Offline"},
             NEW f \in 0 .. kMaxWatchStreamFailures, NEW t \in BOOLEAN,
             StartWatchStream("Error", o, f, t), o # "Online" \/ f = 0,
             t => o = "Unknown" /\ f < kMaxWatchStreamFailures
      PROVE  RemoteSound /\ (online' = "Offline" => o = "Offline")
    <2>1. /\ state' \in {"Starting", "Backoff"} /\ failures' = f
          /\ online' \in {"Unknown", "Offline"} /\ timer' \in BOOLEAN
          /\ timer' => online' = "Unknown" /\ f < kMaxWatchStreamFailures
          /\ f = 0 => online' = "Unknown"
          /\ f # 0 => online' = o
        BY <1>2, <1>4, StartSound
    <2> QED BY <1>1, <1>2, <2>1
            DEF RemoteSound, TypeOK, TrackerAssertions, StreamWhenNeeded, IsStarted
<1>5. CASE targets # {} /\ online = "Online"
           /\ StartWatchStream("Error", "Unknown", failures, timer) /\ same
    <2>1. failures = 0 /\ ~timer
        BY <1>5 DEF TrackerAssertions
    <2>2. RemoteSound /\ online' # "Offline"
        BY <1>2, <1>4, <1>5, <2>1
    <2> QED BY <1>1, <1>5, <2>2, UnnoticedStep DEF app, views
<1>6. CASE targets # {} /\ online # "Online" /\ failed >= kMaxWatchStreamFailures
           /\ StartWatchStream("Error", "Offline", kMaxWatchStreamFailures, FALSE)
           /\ (IF online = "Offline" THEN same ELSE HearOffline)
    <2>1. RemoteSound
        <3>1. kMaxWatchStreamFailures \in 0 .. kMaxWatchStreamFailures
            BY <1>2
        <3> QED BY <1>4, <1>6, <3>1
    <2>2. CASE online = "Offline"
        BY <1>1, <1>6, <2>1, <2>2, UnnoticedStep DEF app, views
    <2>3. CASE online # "Offline"
        BY <1>1, <1>6, <2>1, <2>3, OfflineStep
    <2> QED BY <2>2, <2>3
<1>7. CASE targets # {} /\ online # "Online" /\ failed < kMaxWatchStreamFailures
           /\ StartWatchStream("Error", online, failed, timer) /\ same
    <2>1. failed \in 0 .. kMaxWatchStreamFailures
        BY <1>2, <1>7
    <2>2. timer => online = "Unknown"
        BY DEF TrackerAssertions
    <2> HIDE DEF failed
    <2>3. RemoteSound /\ (online' = "Offline" => online = "Offline")
        BY <1>2, <1>4, <1>7, <2>1, <2>2
    <2> QED BY <1>1, <1>7, <2>3, UnnoticedStep DEF app, views
<1> QED BY <1>3, <1>5, <1>6, <1>7 DEF OnWatchStreamClose

----------------------------------------------------------------------------
\* The messages of the server, and changes of documents.  Whatever comes on an
\* open stream makes the client online.
LEMMA OnlineSound ==
    ASSUME GetInv, state = "Open", UpdateState("Online"), targets' \subseteq targets,
           UNCHANGED <<state, idle, changes>>
    PROVE  RemoteSound /\ online' = "Online"
<1>1. online' = "Online" /\ failures' = 0 /\ timer' = FALSE
    BY DEF UpdateState
<1>2. ~timer' /\ timer' \in BOOLEAN
    BY <1>1
<1>3. failures' \in 0 .. kMaxWatchStreamFailures
    BY <1>1, GetsAssumption
<1>4. TrackerAssertions'
    BY <1>1, <1>2 DEF TrackerAssertions, IsStarted
<1>5. StreamWhenNeeded'
    BY DEF GetInv, LayersAgree, StreamWhenNeeded, IsStarted
<1> QED BY <1>1, <1>2, <1>3, <1>4, <1>5 DEF RemoteSound, GetInv, TypeOK

LEMMA MessageStep == ASSUME GetInv, WatchMessage PROVE GetInv'
<1>1. /\ state = "Open" /\ UpdateState("Online")
      /\ UNCHANGED <<app, views, remote, changes>>
    BY DEF WatchMessage
<1>2. RemoteSound /\ online' = "Online"
    BY <1>1, OnlineSound DEF remote
<1> QED BY <1>1, <1>2, UnnoticedStep DEF remote

\* A step that leaves the stream and the tracker alone.
LEMMA SameRemote ==
    ASSUME GetInv, UNCHANGED <<remote, tracker, changes>>
    PROVE  RemoteSound
    BY DEF GetInv, RemoteSound, TypeOK, TrackerAssertions, LayersAgree,
           StreamWhenNeeded, remote, tracker

LEMMA ChangeStep ==
    ASSUME GetInv, NEW q \in Queries, DocumentsChange(q)
    PROVE  GetInv'
<1> DEFINE event == IF q \in current THEN "synced" ELSE "cached"
<1>1. /\ Post(Listening(q) \cap raised, event)
      /\ UNCHANGED <<query, muted, removing, answers, views, remote, tracker, changes>>
    BY DEF DocumentsChange
<1>2. event \in Events \ {"error"} /\ Listening(q) \cap raised \in SUBSET listeners
    BY DEF Events, Listening
<1> HIDE DEF event
<1>3. RemoteSound
    BY <1>1, SameRemote
<1>4. WaitingJustified'
    BY <1>1 DEF GetInv, WaitingJustified, views, tracker
<1> QED BY <1>1, <1>2, <1>3, <1>4, HeardStep DEF views, remote, GetInv, TypeOK

LEMMA CurrentStep ==
    ASSUME GetInv, NEW q \in Queries, WatchCurrent(q) \/ WatchNotCurrent(q)
    PROVE  GetInv'
<1>1. PICK event \in {"synced", "cached"} :
        /\ state = "Open" /\ UpdateState("Online") /\ Post(Listening(q), event)
        /\ UNCHANGED <<query, muted, removing, answers, listeners, remote, changes>>
    BY DEF WatchCurrent, WatchNotCurrent
<1>2. event \in Events \ {"error"} /\ Listening(q) \in SUBSET listeners
    BY DEF Events, Listening
<1>3. RemoteSound /\ online' = "Online"
    BY <1>1, OnlineSound DEF remote
<1>4. raised' \subseteq listeners /\ current' \subseteq targets
    BY DEF WatchCurrent, WatchNotCurrent, GetInv, TypeOK, Listening
<1>5. WaitingJustified'
    BY <1>3 DEF WatchCurrent, WatchNotCurrent, GetInv, WaitingJustified, Listening
<1> QED BY <1>1, <1>2, <1>3, <1>4, <1>5, HeardStep DEF remote

LEMMA ErrorStep ==
    ASSUME GetInv, NEW q \in Queries, ProcessTargetError(q)
    PROVE  GetInv'
<1> USE DEF GetInv
<1>1. /\ state = "Open" /\ UpdateState("Online") /\ Post(Listening(q), "error")
      /\ targets' = targets \ {q} /\ current' = current \ {q}
      /\ listeners' = listeners \ Listening(q) /\ raised' = raised \ Listening(q)
      /\ UNCHANGED <<query, muted, removing, answers, state, idle, changes>>
    BY DEF ProcessTargetError
<1>2. Listening(q) \in SUBSET listeners /\ "error" \in Events
    BY DEF Listening, Events
<1>3. RemoteSound /\ online' = "Online"
    BY <1>1, OnlineSound
<1>4. events' \in [Gets -> Seq(Events)]
    BY <1>1, <1>2, PostType DEF TypeOK
<1>5. TypeOK'
    BY <1>1, <1>3, <1>4 DEF TypeOK, RemoteSound
<1>6. targets' = {query'[h] : h \in listeners'}
    BY <1>1 DEF LayersAgree, Listening
<1>7. LayersAgree'
    BY <1>1, <1>3, <1>6 DEF LayersAgree, RemoteSound
<1>8. WaitingJustified'
    BY <1>1, <1>3 DEF WaitingJustified
<1>9. Calls'
    BY <1>1, <1>2, PostCalls
<1> QED BY <1>3, <1>5, <1>7, <1>8, <1>9 DEF RemoteSound

----------------------------------------------------------------------------
LEMMA StepHolds == GetInv /\ [Next]_vars => GetInv'
<1> SUFFICES ASSUME GetInv, [Next]_vars PROVE GetInv'
    OBVIOUS
<1>1. CASE UNCHANGED vars
    <2>1. RemoteSound
        BY <1>1, SameRemote DEF vars
    <2> QED BY <1>1, <2>1, UnnoticedStep DEF vars, tracker, remote
<1>2. CASE Client
    BY <1>2, OpeningStep, TimeoutStep, OnEventStep, RemoveStep DEF Client
<1>3. CASE Server
    BY <1>3, MessageStep, CurrentStep, ErrorStep DEF Server
<1>4. CASE Environment
    BY <1>4, GetStep, ChangeStep, CloseStep, IdleStep, CredentialStep DEF Environment
<1> QED BY <1>1, <1>2, <1>3, <1>4 DEF Next

LEMMA GetInvHolds == Spec => []GetInv
    BY InitHolds, StepHolds, PTL DEF Spec

(* The listeners, the views, the stream and the tracker keep their types.  *)
THEOREM GetsTypeOK == Spec => []TypeOK
<1>1. GetInv => TypeOK
    BY DEF GetInv
<1> QED BY <1>1, GetInvHolds, PTL

(* No assertion of OnlineStateTracker can fail, in whatever order streams  *)
(* open, fail, go idle and are torn down, for any limit of failures.       *)
THEOREM GetsTrackerAssertions == Spec => []TrackerAssertions
<1>1. GetInv => TrackerAssertions
    BY DEF GetInv
<1> QED BY <1>1, GetInvHolds, PTL

(* EventManager's queries, RemoteStore's targets and the watch stream stay *)
(* in step, for any number of calls that share queries.                    *)
THEOREM GetsLayersAgree == Spec => []LayersAgree
<1>1. GetInv => LayersAgree
    BY DEF GetInv
<1> QED BY <1>1, GetInvHolds, PTL

(* QueryListener keeps a call waiting only while it has reason to.         *)
THEOREM GetsWaitingJustified == Spec => []WaitingJustified
<1>1. GetInv => WaitingJustified
    BY DEF GetInv
<1> QED BY <1>1, GetInvHolds, PTL

(* The completion of a getDocument runs once, however many events are on   *)
(* the main queue before its listener is removed.                          *)
THEOREM GetsAnsweredOnce == Spec => []AnsweredOnce
<1>1. GetInv => AnsweredOnce
    <2> SUFFICES ASSUME GetInv, NEW g \in Gets PROVE Len(answers[g]) <= 1
        BY DEF AnsweredOnce
    <2>1. Len(answers[g]) = 1 \/ answers[g] = <<>>
        BY DEF GetInv, Calls, AnsweredByLast
    <2>2. CASE answers[g] = <<>>
        <3>1. Len(answers[g]) = 0
            BY <2>2
        <3> QED BY <3>1
    <2>3. CASE Len(answers[g]) = 1
        BY <2>3
    <2> QED BY <2>1, <2>2, <2>3
<1> QED BY <1>1, GetInvHolds, PTL
=============================================================================
