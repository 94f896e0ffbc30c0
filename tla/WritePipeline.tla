--------------------------- MODULE WritePipeline ---------------------------
(***************************************************************************)
(* How a setData of the app reaches the server: the mutation queue of each *)
(* user in LevelDB (LocalStore, LevelDbMutationQueue), the completion      *)
(* handlers kept in memory (SyncEngine), and the write pipeline and the    *)
(* write stream that empty the queue (RemoteStore, WriteStream, Stream).   *)
(*                                                                         *)
(* Every action of the client is one operation of Firestore's worker       *)
(* queue, which runs them one at a time.  The server, the network, the     *)
(* other devices and the app's process are the environment: the stream may *)
(* break with requests or answers under way, the server may refuse a       *)
(* batch, the user may change, the app may be killed and launched again.   *)
(*                                                                         *)
(* A write is named by its number, in the order the app makes them: the    *)
(* number stands for the document's contents.  Left out: stream tokens     *)
(* (sent and stored, but read by nothing in the client), the lengths of    *)
(* the timers, and batches of several mutations (setData makes one).       *)
(***************************************************************************)
EXTENDS Integers, Sequences, FiniteSets, Stream

CONSTANTS
    Users,              \* the uids, and the signed out user
    FirstUser,          \* whom Auth reports when the client is initialised
    Keys,               \* the documents written
    kMaxPendingWrites,  \* batches on the stream at a time (10 in the code)
    MaxWrites,          \* bound: writes made by this device
    MaxForeign,         \* bound: writes of other devices
    MaxFaults           \* bound: streams broken, users changed, relaunches

ASSUME PipelineAssumption ==
    /\ FirstUser \in Users
    /\ kMaxPendingWrites \in Nat \ {0}
    /\ MaxWrites \in Nat /\ MaxForeign \in Nat /\ MaxFaults \in Nat

VARIABLES
    \* LevelDB
    queue,       \* the mutation batches of each user, in the order of their ids
    cache,       \* remote_document_cache_: the version known of each document
    \* LocalStore, SyncEngine and RemoteStore
    user,        \* current_user_
    nextBatchId, \* next_batch_id_
    callbacks,   \* mutation_callbacks_ of each user, by batch id
    pipeline,    \* write_pipeline_
    \* WriteStream
    state,       \* Stream::state_
    handshake,   \* handshake_complete_
    idle,        \* idleness_timer_ is scheduled
    \* the gRPC call under it
    hello,       \* the handshake: not sent, asked, answered
    requests,    \* batches sent and not yet processed
    responses,   \* commit versions sent back and not yet read
    refusal,     \* the write whose refusal has closed the call, 0 if none
    \* the server
    log,         \* what the server has committed; a version is a position
    \* the history
    written,     \* the user and the document of each write of this device
    refused,     \* the writes the server has refused
    told,        \* what the completion handler of each write was called with
    faults

store  == <<queue, cache>>
client == <<user, nextBatchId, callbacks, pipeline>>
stream == <<state, handshake, idle>>
call   == <<hello, requests, responses, refusal>>
history == <<written, refused, told, faults>>
vars == <<store, client, stream, call, log, history>>

kBatchIdUnknown == -1
NoVersion == 0 \* SnapshotVersion::None(): nothing is known of the document
Writes == 1 .. MaxWrites
Least(a, b) == IF a < b THEN a ELSE b

\* A batch of one set mutation: its id and the write it holds.
Batch == [id : Nat, write : Writes]

\* The server's record of a commit; write 0 is another device's.
Commit == [key : Keys, write : 0 .. MaxWrites]

TypeOK ==
    /\ queue \in [Users -> Seq(Batch)]
    /\ cache \in [Keys -> [version : Nat, committed : BOOLEAN]]
    /\ user \in Users
    /\ nextBatchId \in Nat
    /\ callbacks \in [Users -> SUBSET Batch]
    /\ pipeline \in Seq(Batch)
    /\ state \in StreamStates
    /\ handshake \in BOOLEAN /\ idle \in BOOLEAN
    /\ hello \in {"none", "asked", "answered"}
    /\ requests \in Seq(Batch)
    /\ responses \in Seq(Nat)
    /\ refusal \in 0 .. MaxWrites
    /\ log \in Seq(Commit)
    /\ written \in Seq([user : Users, key : Keys]) /\ Len(written) <= MaxWrites
    /\ refused \subseteq Writes
    /\ told \in [Writes -> {"none", "ok", "error"}]
    /\ faults \in Nat

----------------------------------------------------------------------------
(* The mutation queue of LevelDB.                                          *)

UnloadedBatchId == kBatchIdUnknown

\* The first id of an empty table.
FirstBatchId == 1

\* One more than the largest id in the table, whoever's it is.
IsNextBatchId(n) ==
    /\ \A u \in Users : \A i \in DOMAIN queue[u] : queue[u][i].id < n
    /\ n > 1 => \E u \in Users : \E i \in DOMAIN queue[u] : queue[u][i].id = n - 1

\* The first n batches of q are those up to the id, the rest come after it.
SplitsAt(q, n, id) ==
    /\ \A i \in 1 .. n : q[i].id <= id
    /\ \A i \in n + 1 .. Len(q) : q[i].id > id

\* q without the batch at position i.
Without(q, i) == SubSeq(q, 1, i - 1) \o SubSeq(q, i + 1, Len(q))

RemoveMutationBatch(batch) ==
    \E i \in DOMAIN queue[user] :
        /\ queue[user][i].id = batch.id
        /\ queue' = [queue EXCEPT ![user] = Without(@, i)]

----------------------------------------------------------------------------
(* The gRPC call under the stream.                                         *)

CallHalfDestroyed ==
    /\ hello' = "none" /\ responses' = responses /\ refusal' = 0

\* The call is gone with everything on it.
CallDestroyed ==
    /\ hello' = "none" /\ responses' = <<>> /\ refusal' = 0

\* Mutations go on the stream once the handshake is complete.
CanWrite(s, ready) == s = "Open" /\ ready

----------------------------------------------------------------------------
(* The pipeline.                                                           *)

\* FillWritePipeline over the user's batches q, from pipeline p, with the
\* stream in state s: the next batches go into the free places and, once the
\* handshake is complete, on the stream, after sent.  Writing cancels the idle
\* timer, finding nothing to write starts it; a stream that is needed starts.
FillWritePipeline(q, p, s, ready, sent, timer) ==
    \E n \in 0 .. Len(q) :
        LET last == IF p = <<>> THEN kBatchIdUnknown ELSE p[Len(p)].id
            added == SubSeq(q, n + 1, Least(n + kMaxPendingWrites - Len(p), Len(q)))
            onStream == IF CanWrite(s, ready) THEN added ELSE <<>>
        IN  /\ SplitsAt(q, n, last)
            /\ pipeline' = p \o added
            /\ requests' = sent \o onStream
            /\ idle' = IdleTimer(timer, s, p \o added = <<>>, onStream # <<>>)
            /\ state' = IF ~IsStarted(s) /\ p \o added # <<>> THEN Started(s) ELSE s

NotifyOldest(id, status) ==
    LET oldest == {c \in callbacks[user] : \A d \in callbacks[user] : c.id <= d.id}
    IN  /\ told' = [w \in Writes |->
                      IF \E c \in oldest : c.write = w THEN status ELSE told[w]]
        /\ callbacks' = [callbacks EXCEPT ![user] = @ \ oldest]

\* NotifyUser: the handler registered under the id, if there is one.
NotifyUser(id, status) ==
    /\ told' = [w \in Writes |->
                  IF \E c \in callbacks[user] : c.id = id /\ c.write = w
                  THEN status ELSE told[w]]
    /\ callbacks' = [callbacks EXCEPT ![user] = {c \in @ : c.id # id}]

----------------------------------------------------------------------------
(* The app's calls.                                                        *)

\* setData on document k: the batch is stored, its handler kept, and the
\* pipeline takes it if it has a place.
WriteMutations(k) ==
    /\ Len(written) < MaxWrites
    /\ LET w == Len(written) + 1
           batch == [id |-> nextBatchId, write |-> w]
       IN  /\ queue' = [queue EXCEPT ![user] = Append(@, batch)]
           /\ callbacks' = [callbacks EXCEPT ![user] = @ \cup {batch}]
           /\ written' = Append(written, [user |-> user, key |-> k])
    /\ nextBatchId' = nextBatchId + 1
    /\ FillWritePipeline(queue'[user], pipeline, state, handshake, requests, idle)
    /\ UNCHANGED <<cache, user, handshake, hello, responses, refusal, log,
                   refused, told, faults>>

\* Auth reports user u, perhaps the same one: the other user's queue is loaded,
\* and the streams are torn down and started again.
HandleCredentialChange(u) ==
    /\ faults < MaxFaults
    /\ faults' = faults + 1
    /\ user' = u
    /\ IF u = user THEN UNCHANGED nextBatchId
       ELSE \E n \in 1 .. MaxWrites + 1 : IsNextBatchId(n) /\ nextBatchId' = n
    /\ FillWritePipeline(queue[u], <<>>, Stopped(state), FALSE, <<>>, FALSE)
    /\ handshake' = IF IsStarted(state) THEN FALSE ELSE handshake
    /\ CallDestroyed
    /\ UNCHANGED <<store, callbacks, log, written, refused, told>>

\* The app is killed and launched again: LevelDB is what remains.
Relaunch ==
    /\ faults < MaxFaults
    /\ faults' = faults + 1
    /\ \E n \in 1 .. MaxWrites + 1 : IsNextBatchId(n) /\ nextBatchId' = n
    /\ callbacks' = [u \in Users |-> {}]
    /\ FillWritePipeline(queue[user], <<>>, "Initial", FALSE, <<>>, FALSE)
    /\ handshake' = FALSE
    /\ CallDestroyed
    /\ UNCHANGED <<store, user, log, written, refused, told>>

----------------------------------------------------------------------------
(* Events of the stream.                                                   *)

\* The token is there: gRPC's call is made, which opens the stream at once,
\* and the handshake is sent.
ResumeStartWithCredentials ==
    /\ state = "Starting"
    /\ state' = "Open"
    /\ hello' = "asked"
    /\ UNCHANGED <<store, client, handshake, idle, requests, responses, refusal,
                   log, history>>

SendFirstOnHandshake ==
    /\ state = "Open" /\ hello = "answered" /\ ~handshake
    /\ handshake' = TRUE
    /\ requests' = requests \o SubSeq(pipeline, 1, 1)
    /\ idle' = (idle /\ pipeline = <<>>)
    /\ UNCHANGED <<store, client, state, hello, responses, refusal, log, history>>

\* The first response: the whole pipeline is sent.
OnWriteStreamHandshakeComplete ==
    /\ state = "Open" /\ hello = "answered" /\ ~handshake
    /\ handshake' = TRUE
    /\ requests' = requests \o pipeline
    /\ idle' = (idle /\ pipeline = <<>>)
    /\ UNCHANGED <<store, client, state, hello, responses, refusal, log, history>>

\* ApplyBatchResult: the document at the acknowledged version, unless Watch has
\* brought that or a later one already.
Acknowledged(known, version) ==
    IF known.version < version THEN [version |-> version, committed |-> TRUE]
    ELSE known

\* A response to the first batch of the pipeline: its handler is called, the
\* result applied and the batch deleted, and the pipeline refilled.
OnWriteStreamMutationResult ==
    /\ state = "Open" /\ handshake /\ responses # <<>> /\ pipeline # <<>>
    /\ LET batch == Head(pipeline)
           key == written[batch.write].key
       IN  /\ NotifyUser(batch.id, "ok")
           /\ cache' = [cache EXCEPT ![key] = Acknowledged(@, Head(responses))]
           /\ RemoveMutationBatch(batch)
    /\ FillWritePipeline(queue'[user], Tail(pipeline), state, handshake,
                         requests, idle)
    /\ responses' = Tail(responses)
    /\ UNCHANGED <<user, nextBatchId, handshake, hello, refusal, log, written,
                   refused, faults>>

\* The stream has failed while the server had refused nothing, or before the
\* refusal could be read: what was under way is lost, and the stream starts
\* again, after a delay, if the pipeline needs it.
OnWriteStreamError ==
    /\ state \in {"Starting", "Open"}
    /\ faults < MaxFaults
    /\ faults' = faults + 1
    /\ state' = IF pipeline # <<>> THEN Started("Error") ELSE "Error"
    /\ handshake' = FALSE
    /\ idle' = FALSE
    /\ CallDestroyed /\ requests' = <<>>
    /\ UNCHANGED <<store, client, log, written, refused, told>>

AnyError == TRUE

\* The status the call has ended with is one that ends a write too.
PermanentError == refusal # 0

\* The server has closed the stream with a permanent error: the first batch is
\* rejected, whichever batch was refused, and the stream starts again without
\* delay if there is more to write.  The call ends as soon as one operation on
\* it fails, and the responses not yet read are lost with it.
HandleWriteError ==
    /\ state = "Open" /\ handshake /\ pipeline # <<>>
    /\ PermanentError
    /\ LET batch == Head(pipeline)
       IN  /\ RemoveMutationBatch(batch)
           /\ NotifyUser(batch.id, "error")
    /\ FillWritePipeline(queue'[user], Tail(pipeline), "Initial", handshake,
                         <<>>, FALSE)
    /\ handshake' = FALSE
    /\ CallDestroyed
    /\ UNCHANGED <<cache, user, nextBatchId, log, written, refused, faults>>

BackoffElapses ==
    /\ state = "Backoff"
    /\ state' = "Starting"
    /\ UNCHANGED <<store, client, handshake, idle, call, log, history>>

\* The idle timer: the stream is stopped.
IdleElapses ==
    /\ idle
    /\ state' = Stopped(state)
    /\ handshake' = FALSE
    /\ idle' = FALSE
    /\ CallDestroyed /\ requests' = <<>>
    /\ UNCHANGED <<store, client, log, history>>

ApplyAnyRemoteEvent(k, v) ==
    /\ v # NoVersion => v \in DOMAIN log /\ log[v].key = k
    /\ cache' = [cache EXCEPT ![k] = [version |-> v, committed |-> FALSE]]
    /\ UNCHANGED <<queue, client, stream, call, log, history>>

\* Watch brings version v of document k: an outdated one is ignored, and the
\* version of an acknowledged write is taken as the server's own.  A document
\* that Watch only knows not to be there, from an existence filter of 0 or a
\* limbo resolution the server rejects, comes without a version: it is removed,
\* whatever version was known.
ApplyRemoteEvent(k, v) ==
    /\ \/ v = NoVersion
       \/ /\ v \in DOMAIN log /\ log[v].key = k
          /\ \/ v > cache[k].version
             \/ v = cache[k].version /\ cache[k].committed
    /\ cache' = [cache EXCEPT ![k] = [version |-> v, committed |-> FALSE]]
    /\ UNCHANGED <<queue, client, stream, call, log, history>>

----------------------------------------------------------------------------
(* The server, which processes a stream in order, and the other devices.   *)

ServerHandshake ==
    /\ hello = "asked"
    /\ hello' = "answered"
    /\ UNCHANGED <<store, client, stream, requests, responses, refusal, log,
                   history>>

ServerCommit ==
    /\ requests # <<>> /\ refusal = 0
    /\ LET w == Head(requests).write
       IN  log' = Append(log, [key |-> written[w].key, write |-> w])
    /\ responses' = Append(responses, Len(log'))
    /\ requests' = Tail(requests)
    /\ UNCHANGED <<store, client, stream, hello, refusal, history>>

ServerRefuse ==
    /\ requests # <<>> /\ refusal = 0
    /\ refusal' = Head(requests).write
    /\ refused' = refused \cup {refusal'}
    /\ requests' = Tail(requests)
    /\ UNCHANGED <<store, client, stream, hello, responses, log, written, told,
                   faults>>

ForeignWrite(k) ==
    /\ Cardinality({v \in DOMAIN log : log[v].write = 0}) < MaxForeign
    /\ log' = Append(log, [key |-> k, write |-> 0])
    /\ UNCHANGED <<store, client, stream, call, history>>

----------------------------------------------------------------------------
Init ==
    /\ queue = [u \in Users |-> <<>>]
    /\ cache = [k \in Keys |-> [version |-> 0, committed |-> FALSE]]
    /\ user = FirstUser
    /\ nextBatchId = FirstBatchId
    /\ callbacks = [u \in Users |-> {}]
    /\ pipeline = <<>>
    /\ state = "Initial" /\ handshake = FALSE /\ idle = FALSE
    /\ hello = "none" /\ requests = <<>> /\ responses = <<>> /\ refusal = 0
    /\ log = <<>>
    /\ written = <<>> /\ refused = {} /\ told = [w \in Writes |-> "none"]
    /\ faults = 0

Server == ServerHandshake \/ ServerCommit \/ ServerRefuse

Client ==
    \/ ResumeStartWithCredentials \/ OnWriteStreamHandshakeComplete
    \/ OnWriteStreamMutationResult \/ HandleWriteError \/ BackoffElapses

Environment ==
    \/ \E k \in Keys : WriteMutations(k) \/ ForeignWrite(k)
    \/ \E u \in Users : HandleCredentialChange(u)
    \/ Relaunch \/ OnWriteStreamError \/ IdleElapses
    \/ \E k \in Keys : \E v \in {NoVersion} \cup DOMAIN log : ApplyRemoteEvent(k, v)

Next == Server \/ Client \/ Environment

Spec == Init /\ [][Next]_vars

(***************************************************************************)
(* The worker queue runs what is on it: timers that are scheduled, answers *)
(* that have come.  The server answers what it is sent.  Nothing is asked  *)
(* of the app, of the user or of the other devices, and the bounds on      *)
(* faults make the network hold in the end.                                *)
(***************************************************************************)
Fairness == WF_vars(Server) /\ WF_vars(Client)

FairSpec == Spec /\ Fairness

----------------------------------------------------------------------------
(* What the server has of a write, and what the device has.                *)

Committed(w) == \E v \in DOMAIN log : log[v].write = w
Queued(u, w) == \E i \in DOMAIN queue[u] : queue[u][i].write = w
ChargedForLater(w) ==
    \E x \in refused : x > w /\ written[x].user = written[w].user
IsPrefix(s, t) == Len(s) <= Len(t) /\ \A i \in DOMAIN s : s[i] = t[i]

\* The pipeline is the oldest batches of the current user, and it is full as
\* long as there are more: no batch is skipped, and none waits for a place that
\* is free.  Every path that empties a place must refill it.
PipelineIsOldest ==
    /\ IsPrefix(pipeline, queue[user])
    /\ Len(pipeline) = Least(kMaxPendingWrites, Len(queue[user]))

\* "Got result for empty write pipeline" cannot be, and a response that is read
\* is the response to the first batch: the answers under way, then the refusal,
\* then the requests under way are the batches of the pipeline in its order.
AnswersMatchPipeline ==
    handshake =>
        LET answered == Len(responses)
            closed == IF refusal = 0 THEN 0 ELSE 1
        IN  /\ answered + closed + Len(requests) = Len(pipeline)
            /\ \A i \in 1 .. answered :
                  responses[i] \in DOMAIN log
                  /\ log[responses[i]].write = pipeline[i].write
            /\ refusal # 0 => pipeline[answered + 1].write = refusal
            /\ \A i \in DOMAIN requests : requests[i] = pipeline[answered + closed + i]

\* The stream is up, coming up or backing off whenever a batch is in the
\* pipeline, and the idle timer never stops a stream that is needed ("Write
\* stream was stopped gracefully while still needed").
StreamWhenNeeded ==
    /\ pipeline # <<>> => IsStarted(state) /\ ~idle
    /\ pipeline = <<>> => state # "Starting" /\ state # "Backoff"

\* A write made on this device is never lost, whatever breaks and whenever the
\* app is killed: it is still queued for its user, or the server has had it.
NoWriteLost ==
    \A w \in DOMAIN written :
        Queued(written[w].user, w) \/ Committed(w) \/ w \in refused

\* A completion handler hears "ok" only of a write that was committed, never by
\* another write's answer, though responses carry no id, batches are sent again
\* and ids are used again.  It hears an error of a write that was refused, or of
\* a committed one whose answer was lost with the refusal of a later write of the
\* same user: the code charges the first batch with whatever refusal comes.
ToldTheTruth ==
    \A w \in Writes :
        /\ told[w] = "ok" => Committed(w)
        /\ told[w] = "error" =>
              w \in refused \/ (Committed(w) /\ ChargedForLater(w))

\* Every handler kept belongs to a batch still queued for that user under the
\* same id, so the answer to a later batch cannot call it.
HandlersHaveBatches ==
    \A u \in Users : \A c \in callbacks[u] :
        \E i \in DOMAIN queue[u] : queue[u][i] = c

\* The four places a write is kept in agree: the queue on disk, the handlers,
\* the pipeline, and the stream with what is under way on it.
PipelineConsistent ==
    PipelineIsOldest /\ AnswersMatchPipeline /\ StreamWhenNeeded /\ HandlersHaveBatches

\* The server has a write only after every earlier write of the same user, but
\* those it refused: lost answers, a new stream and a relaunch do not reorder.
CommittedInOrder ==
    \A v \in DOMAIN log : \A w \in 1 .. log[v].write - 1 :
        written[w].user = written[log[v].write].user =>
            w \in refused \/ \E n \in 1 .. v - 1 : log[n].write = w

\* Neither lost nor overtaken: what the queue owes the app and the server.
KeptInOrder == NoWriteLost /\ CommittedInOrder

\* What the app sees of a document is its newest queued write or else the cached
\* version.  While a user stays, a queued write goes out of sight only for a
\* cached version at least as new, or by the refusal that rejects it; and the
\* cached version goes up, or away with a document that is not there.
QueuedOn(k) == {w \in DOMAIN written : written[w].key = k /\ Queued(user, w)}

RejectedBy(w) ==
    /\ pipeline # <<>> /\ w = Head(pipeline).write
    /\ refusal # 0 /\ refusal' = 0
    /\ w \in refused \/ Committed(w)

ViewHandedOver ==
    [][\A k \in Keys :
          /\ cache[k].version <= cache'[k].version \/ cache'[k].version = NoVersion
          /\ \A w \in QueuedOn(k) :
                \/ user' # user
                \/ w \in QueuedOn(k)'
                \/ RejectedBy(w)
                \/ \E v \in 1 .. cache'[k].version : log'[v].write = w]_vars

\* Every write of a user who stays is delivered or refused in the end, and its
\* handler called or gone with the app that was killed.
QueueDrains ==
    \A u \in Users : <>[](user = u) => <>[](queue[u] = <<>> /\ callbacks[u] = {})

----------------------------------------------------------------------------
\* The machinery keeps the promise of WriteQueue: per user in order, at least
\* once, settled from the front with the server's answer.
Promise == INSTANCE WriteQueue WITH
    queue <- [u \in Users |-> [i \in DOMAIN queue[u] |-> queue[u][i].write]],
    made <- Len(written),
    log <- [v \in DOMAIN log |-> log[v].write]

Delivers == Promise!Spec
=============================================================================
