---------------------------- MODULE WatchTarget ----------------------------
(***************************************************************************)
(* How the client's copy of a query's results is kept in step with the     *)
(* server: one target, whose documents and resume token are kept in        *)
(* LevelDB (LocalStore), the view made of them while the app listens       *)
(* (View), the requests and responses on the watch stream (RemoteStore),   *)
(* and the changes accumulated between two snapshots                       *)
(* (WatchChangeAggregator).                                                *)
(*                                                                         *)
(* A version counts the changes of the server; a resume token is the       *)
(* version it stands for, 0 for none.  Requests are numbered, and every    *)
(* response carries the number of the request it answers: the client       *)
(* cannot see it, the properties can.  A server gives a token with CURRENT *)
(* and with a snapshot, none (0) with ADDED and RESET, and answers every   *)
(* unwatch request, that of a target it has refused too.                   *)
(*                                                                         *)
(* Left out: the documents' contents (see WritePipeline for versions), the *)
(* limbo documents, which need further targets, and queries for one        *)
(* document, whose existence filters say that it is there or not.          *)
(***************************************************************************)
EXTENDS Integers, Sequences, FiniteSets

CONSTANTS
    Docs,        \* documents that may match the query
    MaxVersion,  \* bound: changes of the server
    MaxListens,  \* bound: times the app listens
    MaxFaults    \* bound: streams broken, relaunches, resets, filters, refusals

ASSUME TargetAssumption ==
    /\ IsFiniteSet(Docs)
    /\ MaxVersion \in Nat \ {0} /\ MaxListens \in Nat /\ MaxFaults \in Nat

VARIABLES
    \* LevelDB
    keys,        \* the target's matching keys
    token,       \* its resume token
    \* LocalStore, RemoteStore and View, while the app listens
    listening,
    heldToken,   \* the token in LocalStore's target_ids
    sentToken,   \* the token in listen_targets_
    synced,      \* synced_documents_
    current,     \* current_
    \* the watch stream and the aggregator
    open,
    agg,         \* target_states_: no entry or one TargetState
    mismatch,    \* the target is in pending_target_resets_
    miscounted,  \* a refusal has upset the count of awaited answers
    toServer, toClient,
    \* the server
    results,     \* the documents that match, at each version
    srv,         \* what it knows of the request it serves
    \* the history
    at,          \* the version of the last snapshot with changes for the target
    requests,    \* watch requests sent
    marked,      \* the request whose CURRENT was taken last
    dated,       \* LocalStore's tokens from before a mismatch, not come again since
    misled,      \* a request did not say what the view had, or was sent with
                 \* the count upset
    listens, faults

disk    == <<keys, token>>
client  == <<listening, heldToken, sentToken, synced, current>>
stream  == <<open, agg, mismatch, miscounted>>
channel == <<toServer, toClient>>
server  == <<results, srv>>
history == <<at, requests, marked, dated, misled>>
bounds  == <<listens, faults>>
vars == <<disk, client, stream, channel, server, history, bounds>>

NoState == [outstanding |-> 0]

\* A new TargetState.
Fresh == [outstanding |-> 0, current |-> FALSE, pending |-> TRUE, token |-> 0,
          added |-> {}, modified |-> {}, removed |-> {}]

Off == [on |-> FALSE]

Latest == Len(results)
At(v) == IF v = 0 THEN {} ELSE results[v]

TargetStates ==
    [outstanding : Int, current : BOOLEAN, pending : BOOLEAN, token : 0 .. MaxVersion,
     added : SUBSET Docs, modified : SUBSET Docs, removed : SUBSET Docs]

\* Until a refusal upsets it, the count is of answers that are still to come.
Counted == ~miscounted /\ agg # NoState => agg.outstanding >= 0

Types ==
    /\ keys \subseteq Docs /\ token \in 0 .. MaxVersion
    /\ listening \in BOOLEAN /\ current \in BOOLEAN /\ synced \subseteq Docs
    /\ heldToken \in 0 .. MaxVersion /\ sentToken \in 0 .. MaxVersion
    /\ open \in BOOLEAN /\ mismatch \in BOOLEAN /\ miscounted \in BOOLEAN
    /\ agg \in TargetStates \cup {NoState}
    /\ results \in Seq(SUBSET Docs) /\ at \in 0 .. MaxVersion
    /\ requests \in Nat /\ marked \in Nat
    /\ dated \subseteq 1 .. MaxVersion /\ misled \in BOOLEAN

TypeOK == Types /\ Counted

----------------------------------------------------------------------------
(* WatchChangeAggregator.                                                  *)

EnsureTargetState(s) == IF s = NoState THEN Fresh ELSE s
Ensured == EnsureTargetState(agg)
IsPending(s) == s # NoState /\ s.outstanding # 0
IsActive == listening /\ ~IsPending(agg)

RecordNothing(s) == s

\* Requests and responses are counted: what comes between is for nobody.
RecordPendingTargetRequest(s) ==
    [EnsureTargetState(s) EXCEPT !.outstanding = @ + 1]

RecordLastResponse(s) == [s EXCEPT !.outstanding = 0]
RecordTargetResponse(s) == [s EXCEPT !.outstanding = @ - 1]
UpdateResumeToken(s, t) ==
    IF t = 0 THEN s ELSE [s EXCEPT !.pending = TRUE, !.token = t]
ClearPendingChanges(s) ==
    [s EXCEPT !.pending = FALSE, !.added = {}, !.modified = {}, !.removed = {}]

\* The last change of a document since the last snapshot is the one that counts.
AddDocumentToTarget(s, d) ==
    [s EXCEPT !.pending = TRUE, !.removed = @ \ {d},
              !.added = IF d \in synced THEN @ \ {d} ELSE @ \cup {d},
              !.modified = IF d \in synced THEN @ \cup {d} ELSE @ \ {d}]

RemoveUnseenDocument(s, d) ==
    [s EXCEPT !.pending = TRUE, !.added = @ \ {d}, !.removed = @ \cup {d}]

RemoveDocumentFromTarget(s, d) ==
    [s EXCEPT !.pending = TRUE, !.added = @ \ {d}, !.modified = @ \ {d},
              !.removed = IF d \in synced THEN @ \cup {d} ELSE @ \ {d}]

ResetStateOnly == Fresh

\* A new state, in which every document of the view is removed.
ResetTarget == [Fresh EXCEPT !.removed = synced]

\* The count of the server against that of the view and its pending changes.
Differs(msg) ==
    msg.count # Cardinality(synced \cup Ensured.added) - Cardinality(Ensured.removed)

\* HandleTargetChange, HandleDocumentChange and HandleExistenceFilter.
Handled(msg) ==
    CASE msg.type = "added" ->
            LET s == RecordTargetResponse(Ensured)
            IN  UpdateResumeToken(IF IsPending(s) THEN s ELSE ClearPendingChanges(s),
                                  msg.token)
      [] msg.type = "removed" ->
            LET s == RecordTargetResponse(Ensured)
            IN  IF IsPending(s) THEN s ELSE NoState
      [] msg.type = "current" /\ IsActive ->
            UpdateResumeToken([Ensured EXCEPT !.current = TRUE, !.pending = TRUE],
                              msg.token)
      [] msg.type = "add" /\ IsActive -> AddDocumentToTarget(Ensured, msg.doc)
      [] msg.type = "remove" /\ IsActive -> RemoveDocumentFromTarget(Ensured, msg.doc)
      [] msg.type = "reset" /\ IsActive -> UpdateResumeToken(ResetTarget, msg.token)
      [] msg.type = "filter" /\ IsActive ->
            IF Differs(msg) THEN ResetTarget ELSE Ensured
      [] msg.type = "snapshot" /\ IsActive /\ agg # NoState ->
            UpdateResumeToken(agg, msg.token)
      [] msg.type \in {"current", "reset"} /\ ~IsActive -> Ensured
      [] OTHER -> agg

----------------------------------------------------------------------------
(* The app listens and stops listening.                                    *)

Watch(t) == [type |-> "watch", token |-> t, r |-> requests + 1]
Unwatch == [type |-> "unwatch"]

\* QueryRemoteKeys: a view starts from the keys of the last snapshot on disk.
GetRemoteDocumentKeys == keys

Listen ==
    /\ ~listening /\ listens < MaxListens
    /\ listens' = listens + 1
    /\ listening' = TRUE /\ heldToken' = token /\ sentToken' = token
    /\ synced' = GetRemoteDocumentKeys /\ current' = FALSE
    /\ misled' = (misled \/ token \in dated \/ (open /\ miscounted))
    /\ IF open
       THEN /\ agg' = RecordPendingTargetRequest(agg)
            /\ toServer' = Append(toServer, Watch(token))
            /\ requests' = requests + 1
       ELSE UNCHANGED <<agg, toServer, requests>>
    /\ UNCHANGED <<disk, open, mismatch, miscounted, toClient, server, at, marked, dated,
                   faults>>

\* ReleaseQuery writes a token that was only held in memory.
ReleaseQuery ==
    /\ listening' = FALSE
    /\ token' = IF heldToken > token THEN heldToken ELSE token
    /\ synced' = {} /\ current' = FALSE /\ heldToken' = 0 /\ sentToken' = 0

StopListening ==
    /\ listening
    /\ ReleaseQuery
    /\ IF open
       THEN /\ agg' = RecordPendingTargetRequest(agg)
            /\ toServer' = Append(toServer, Unwatch)
       ELSE UNCHANGED <<agg, toServer>>
    /\ UNCHANGED <<keys, open, mismatch, miscounted, toClient, server, history, bounds>>

----------------------------------------------------------------------------
(* The stream.                                                             *)

\* A new aggregator, and the target sent again from where it got to.
OnWatchStreamOpen ==
    /\ ~open /\ listening
    /\ open' = TRUE
    /\ agg' = RecordPendingTargetRequest(NoState)
    /\ toServer' = <<Watch(sentToken)>>
    /\ requests' = requests + 1
    /\ UNCHANGED <<disk, client, mismatch, miscounted, toClient, server, at, marked,
                   dated, misled, bounds>>

StreamGone ==
    /\ open' = FALSE /\ agg' = NoState /\ mismatch' = FALSE /\ miscounted' = FALSE
    /\ toServer' = <<>> /\ toClient' = <<>> /\ srv' = Off

OnWatchStreamClose ==
    /\ open /\ faults < MaxFaults
    /\ faults' = faults + 1
    /\ StreamGone
    /\ UNCHANGED <<disk, client, results, history, listens>>

Relaunch ==
    /\ faults < MaxFaults
    /\ faults' = faults + 1
    /\ StreamGone
    /\ listening' = FALSE /\ synced' = {} /\ current' = FALSE
    /\ heldToken' = 0 /\ sentToken' = 0
    /\ UNCHANGED <<disk, results, history, listens>>

----------------------------------------------------------------------------
(* Responses.                                                              *)

\* Anything but a snapshot and a refusal is accumulated.
OnWatchStreamChange ==
    /\ open /\ toClient # <<>>
    /\ LET msg == Head(toClient)
       IN  /\ msg.type \notin {"snapshot", "error"}
           /\ agg' = Handled(msg)
           /\ mismatch' = \/ mismatch
                          \/ msg.type = "filter" /\ IsActive /\ Differs(msg)
           /\ marked' = IF msg.type = "current" /\ IsActive THEN msg.r ELSE marked
    /\ toClient' = Tail(toClient)
    /\ UNCHANGED <<disk, client, open, miscounted, toServer, server, at, requests, dated,
                   misled, bounds>>

Answers(msgs) == \E i \in DOMAIN msgs : msgs[i].type \in {"added", "removed", "error"}

\* The target is refused: its entry is erased with the count of the answers it
\* still awaits, and the app no longer listens.  A refusal that finds the target
\* left already is ignored, also when it is the only answer to its request.
ProcessTargetError ==
    /\ open /\ toClient # <<>> /\ Head(toClient).type = "error"
    /\ toClient' = Tail(toClient)
    /\ IF listening
       THEN ReleaseQuery /\ agg' = NoState
       ELSE UNCHANGED <<token, client, agg>>
    /\ miscounted' = \/ miscounted
                      \/ IF listening THEN toServer # <<>> \/ Answers(Tail(toClient))
                         ELSE Head(toClient).alone
    /\ UNCHANGED <<keys, open, mismatch, toServer, server, history, bounds>>

\* LocalStore::ApplyRemoteEvent: the token is written if documents came or went,
\* if there was none, or if the one on disk is old.
PersistToken(t, changed) ==
    /\ heldToken' = IF t = 0 THEN heldToken ELSE t
    /\ token' \in IF t = 0 THEN {token}
                  ELSE IF changed \/ heldToken = 0 THEN {t} ELSE {token, t}

\* A snapshot: the changes of the target go to the view and to LevelDB, and a
\* target that did not match is watched again from nothing.
RaiseWatchSnapshot ==
    /\ open /\ toClient # <<>>
    /\ LET msg == Head(toClient)
           s == Handled(msg)
           raised == IsActive /\ s # NoState /\ s.pending
           again == mismatch /\ listening
       IN  /\ msg.type = "snapshot"
           /\ at' = IF raised THEN msg.version ELSE at
           /\ IF raised
              THEN /\ keys' = (keys \ s.removed) \cup s.added
                   /\ synced' = (synced \cup s.added) \ s.removed
                   /\ current' = s.current
                   /\ PersistToken(s.token, s.added \cup s.modified \cup s.removed # {})
              ELSE UNCHANGED <<disk, synced, current, heldToken>>
           /\ sentToken' = IF again THEN 0
                           ELSE IF raised /\ s.token # 0 THEN s.token ELSE sentToken
           /\ LET t == IF raised THEN ClearPendingChanges(s) ELSE s
              IN  IF again
                  THEN /\ agg' = RecordPendingTargetRequest(RecordPendingTargetRequest(t))
                       /\ toServer' = toServer \o <<Unwatch, Watch(0)>>
                       /\ requests' = requests + 1
                  ELSE agg' = t /\ UNCHANGED <<toServer, requests>>
           /\ misled' = (misled \/ (again /\ synced' # {}))
           /\ dated' = IF again THEN {token', heldToken'} \ {0}
                       ELSE IF raised THEN dated \ {s.token} ELSE dated
    /\ mismatch' = FALSE
    /\ toClient' = Tail(toClient)
    /\ UNCHANGED <<listening, open, miscounted, server, marked, bounds>>

----------------------------------------------------------------------------
(* The server.                                                             *)

\* A document comes to match or ceases to.
Change ==
    /\ Latest < MaxVersion
    /\ \E d \in Docs :
          results' = Append(results, IF d \in results[Latest] THEN results[Latest] \ {d}
                                     ELSE results[Latest] \cup {d})
    /\ UNCHANGED <<disk, client, stream, channel, srv, history, bounds>>

Send(msg) == toClient' = Append(toClient, msg)

\* It takes the next request: from the token it knows what the client has.
Receive ==
    /\ toServer # <<>>
    /\ toServer' = Tail(toServer)
    /\ LET req == Head(toServer)
       IN  IF req.type = "unwatch"
           THEN Send([type |-> "removed"]) /\ srv' = Off
           ELSE /\ Send([type |-> "added", token |-> 0])
                /\ srv' = [on |-> TRUE, r |-> req.r, has |-> At(req.token),
                           started |-> FALSE, current |-> FALSE,
                           filter |-> "none", news |-> TRUE]
    /\ UNCHANGED <<disk, client, stream, results, history, bounds>>

\* It refuses the target: a request instead of adding it ("alone"), or the
\* target it serves.
Refused(r) == [on |-> FALSE, r |-> r]

Refuse ==
    /\ faults < MaxFaults
    /\ faults' = faults + 1
    /\ \/ /\ toServer # <<>> /\ Head(toServer).type = "watch"
          /\ toServer' = Tail(toServer)
          /\ Send([type |-> "error", alone |-> TRUE])
          /\ srv' = Refused(Head(toServer).r)
       \/ /\ srv.on
          /\ Send([type |-> "error", alone |-> FALSE])
          /\ srv' = Refused(srv.r)
          /\ UNCHANGED toServer
    /\ UNCHANGED <<disk, client, stream, results, history, listens>>

Serving(next) ==
    /\ srv.on
    /\ srv' = next
    /\ UNCHANGED <<disk, client, stream, toServer, results, history>>

SendDocument(d) ==
    /\ srv.on /\ srv.filter # "due"
    /\ \/ d \in results[Latest] \ srv.has
          /\ Send([type |-> "add", doc |-> d, r |-> srv.r])
          /\ Serving([srv EXCEPT !.has = @ \cup {d}, !.started = TRUE, !.news = TRUE])
       \/ d \in srv.has \ results[Latest]
          /\ Send([type |-> "remove", doc |-> d, r |-> srv.r])
          /\ Serving([srv EXCEPT !.has = @ \ {d}, !.started = TRUE, !.news = TRUE])
    /\ UNCHANGED bounds

\* It no longer knows which documents have ceased to match, only how many do.
Forget ==
    /\ srv.on /\ srv.filter = "none" /\ srv.has \ results[Latest] # {}
    /\ faults < MaxFaults
    /\ faults' = faults + 1
    /\ Serving([srv EXCEPT !.has = @ \cap results[Latest], !.filter = "due"])
    /\ UNCHANGED <<toClient, listens>>

SendFilter ==
    /\ srv.on /\ srv.filter = "due" /\ srv.has = results[Latest]
    /\ Send([type |-> "filter", count |-> Cardinality(srv.has), r |-> srv.r])
    /\ Serving([srv EXCEPT !.filter = "sent", !.news = TRUE])
    /\ UNCHANGED bounds

SendReset ==
    /\ srv.on /\ srv.filter = "none" /\ srv.has # {}
    /\ faults < MaxFaults
    /\ faults' = faults + 1
    /\ Send([type |-> "reset", token |-> 0, r |-> srv.r])
    /\ Serving([srv EXCEPT !.has = {}, !.current = FALSE,
                           !.started = TRUE, !.news = TRUE])
    /\ UNCHANGED listens

SendCurrent ==
    /\ srv.on /\ ~srv.current /\ srv.has = results[Latest] /\ srv.filter = "none"
    /\ Send([type |-> "current", token |-> Latest, r |-> srv.r])
    /\ Serving([srv EXCEPT !.current = TRUE, !.news = TRUE])
    /\ UNCHANGED bounds

\* The stream is consistent at the latest version.  The target is part of that,
\* with a token, once it has been sent everything; before it has been sent
\* anything a snapshot of the other targets may come.
SendSnapshot ==
    /\ srv.on /\ srv.news /\ srv.filter # "due"
    /\ LET whole == srv.has = results[Latest]
       IN  /\ whole \/ ~srv.started
           /\ srv.current => whole
           /\ Send([type |-> "snapshot", version |-> Latest,
                    token |-> IF whole THEN Latest ELSE 0])
    /\ Serving([srv EXCEPT !.news = FALSE, !.filter = "none"])
    /\ UNCHANGED bounds

----------------------------------------------------------------------------
Init ==
    /\ keys = {} /\ token = 0
    /\ listening = FALSE /\ heldToken = 0 /\ sentToken = 0
    /\ synced = {} /\ current = FALSE
    /\ open = FALSE /\ agg = NoState /\ mismatch = FALSE /\ miscounted = FALSE
    /\ toServer = <<>> /\ toClient = <<>>
    /\ results \in {<<m>> : m \in SUBSET Docs} /\ srv = Off
    /\ at = 0 /\ requests = 0 /\ marked = 0
    /\ dated = {} /\ misled = FALSE
    /\ listens = 0 /\ faults = 0

Next ==
    \/ Listen \/ StopListening
    \/ OnWatchStreamOpen \/ OnWatchStreamClose \/ Relaunch
    \/ OnWatchStreamChange \/ ProcessTargetError \/ RaiseWatchSnapshot
    \/ Change \/ Receive \/ Refuse \/ Forget \/ SendFilter \/ SendReset \/ SendCurrent
    \/ SendSnapshot
    \/ \E d \in Docs : SendDocument(d)

Spec == Init /\ [][Next]_vars

----------------------------------------------------------------------------
\* A view that is synced has exactly the documents that match on the server at
\* the version of the last snapshot, whatever was missed, sent twice, reset or
\* forgotten by the server; except after a request that did not say what the
\* view had: one with a token from before a mismatch (MismatchDropsToken), or,
\* after a mismatch, one without a token for a view left with the documents that
\* came between the filter and its snapshot; and except after a request on a
\* stream on which a refusal has upset the count (OwnResponsesOnly).
SyncedIsServer == listening /\ current /\ ~misled => synced = At(at)

\* The view and LevelDB agree on the target's documents at every snapshot, so
\* that a later launch resumes from what the view had.
KeysOfView == listening => synced = keys

\* The three copies of a query's results, the server's, the view's and the one
\* on disk, are one.
CopiesAgree == SyncedIsServer /\ KeysOfView

\* "Modified document not found in view", "Should only reset active targets":
\* what was accumulated fits the view it will be applied to.
ChangesFitView ==
    IsActive /\ agg # NoState =>
        /\ agg.modified \subseteq synced /\ agg.removed \subseteq synced
        /\ agg.added \cap synced = {}

\* A response to an earlier request is never taken for one to the request being
\* served: responses carry no number, the pending count must hold them back.
\* It does, through every order of listening, leaving, mismatches and refusals,
\* until a refusal erases a count of answers still to come, or goes uncounted
\* although it is an answer (ProcessTargetError).
OwnResponsesOnly ==
    [][(/\ open' /\ toClient # <<>> /\ toClient' = Tail(toClient) /\ agg' # agg
        /\ "r" \in DOMAIN Head(toClient) /\ ~miscounted)
            => Head(toClient).r = requests]_vars

\* "We have a freshly added target, so we need to reset any state that we had
\* previously": a target is current only if this request has been told so.
CurrentIsFresh == IsActive /\ agg # NoState /\ agg.current => marked = requests

\* "Listens for these targets should be re-established without resume tokens":
\* no request carries a token from before a mismatch that the server has not
\* sent again since.
MismatchDropsToken ==
    \A i \in DOMAIN toServer :
        toServer[i].type = "watch" => toServer[i].token \notin dated
=============================================================================
