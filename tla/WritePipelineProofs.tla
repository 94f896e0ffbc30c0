-------------------------- MODULE WritePipelineProofs --------------------------
(***************************************************************************)
(* The safety of WritePipeline for any users and documents, any number of  *)
(* writes and faults and any limit of batches under way: its types, that   *)
(* the queue, the pipeline, the stream and the handlers agree, that no     *)
(* write is lost or overtaken, and what a handler may be told.             *)
(***************************************************************************)
EXTENDS WritePipeline, Lemmas, SequenceTheorems

\* The ids and the writes of a queue ascend.
Ascending(q) ==
    \A i, j \in 1 .. Len(q) : i < j => q[i].id < q[j].id /\ q[i].write < q[j].write

\* A batch queued for u: its id has been given out, and its write is one of u's
\* whose handler has not been called.
BatchIn(u, b, next, writes, heard) ==
    /\ b.id >= 1 /\ b.id < next
    /\ b.write <= Len(writes) /\ writes[b.write].user = u
    /\ heard[b.write] = "none"

BatchOf(u, b) == BatchIn(u, b, nextBatchId, written, told)

QueueSound ==
    /\ nextBatchId >= 1
    /\ \A u \in Users :
          /\ Ascending(queue[u])
          /\ \A i \in 1 .. Len(queue[u]) : BatchOf(u, queue[u][i])

\* Nothing is under way before the handshake, which needs an open stream, and a
\* stream is opened for a batch of the pipeline only.
StreamSound ==
    /\ handshake => state = "Open"
    /\ ~handshake => requests = <<>> /\ responses = <<>> /\ refusal = 0
    /\ state = "Open" /\ ~handshake => pipeline # <<>>
    /\ idle => state = "Open"

\* The server has only what this device or others have written, the device only
\* versions of the server.
ServerSound ==
    /\ refusal # 0 => refusal \in refused
    /\ \A w \in refused : w <= Len(written)
    /\ \A v \in 1 .. Len(log) : log[v].write <= Len(written)
    /\ \A k \in Keys : cache[k].version <= Len(log)
    /\ \A w \in Writes : told[w] # "none" => w <= Len(written)

WriteInv ==
    /\ TypeOK /\ QueueSound /\ StreamSound /\ ServerSound
    /\ PipelineConsistent /\ KeptInOrder /\ ToldTheTruth

\* The types of the client's stream and pipeline, of what is on disk and in the
\* server, and of the history.
StreamTyped ==
    /\ pipeline \in Seq(Batch) /\ state \in StreamStates
    /\ handshake \in BOOLEAN /\ idle \in BOOLEAN
    /\ hello \in {"none", "asked", "answered"}
    /\ requests \in Seq(Batch) /\ responses \in Seq(Nat) /\ refusal \in 0 .. MaxWrites

DiskTyped ==
    /\ queue \in [Users -> Seq(Batch)] /\ callbacks \in [Users -> SUBSET Batch]
    /\ user \in Users /\ nextBatchId \in Nat

HistoryTyped ==
    /\ cache \in [Keys -> [version : Nat, committed : BOOLEAN]]
    /\ log \in Seq(Commit)
    /\ written \in Seq([user : Users, key : Keys]) /\ Len(written) <= MaxWrites
    /\ refused \subseteq Writes
    /\ told \in [Writes -> {"none", "ok", "error"}]
    /\ faults \in Nat

\* The invariant by what it speaks of: the stream, the disk, what has been.
StreamInv ==
    /\ StreamTyped /\ StreamSound
    /\ PipelineIsOldest /\ AnswersMatchPipeline /\ StreamWhenNeeded

DiskInv == DiskTyped /\ QueueSound /\ HandlersHaveBatches

HistoryInv == HistoryTyped /\ ServerSound /\ KeptInOrder /\ ToldTheTruth

LEMMA ThreeParts == WriteInv <=> StreamInv /\ DiskInv /\ HistoryInv
    BY DEF WriteInv, StreamInv, DiskInv, HistoryInv, TypeOK, StreamTyped, DiskTyped,
           HistoryTyped, PipelineConsistent

----------------------------------------------------------------------------
\* What the prover needs of a sequence: its elements are elements.
LEMMA Element ==
    ASSUME NEW S, NEW s \in Seq(S), NEW i \in 1 .. Len(s)
    PROVE  s[i] \in S /\ i \in DOMAIN s
    OBVIOUS

\* The server's record of a commit names a write of this device, or none.
LEMMA CommitWrite ==
    ASSUME NEW s \in Seq(Commit), NEW v \in DOMAIN s
    PROVE  v \in 1 .. Len(s) /\ s[v].write \in Nat /\ s[v].key \in Keys
<1>1. v \in 1 .. Len(s)
    OBVIOUS
<1>2. s[v] \in Commit
    BY <1>1, Element
<1> QED BY <1>1, <1>2, PipelineAssumption DEF Commit

\* What the prover needs of a queue: its elements are batches.
LEMMA Elements ==
    ASSUME NEW q \in Seq(Batch), NEW i \in 1 .. Len(q)
    PROVE  q[i] \in Batch /\ q[i].id \in Nat /\ q[i].write \in Writes
<1>1. q[i] \in Batch
    OBVIOUS
<1> QED BY <1>1 DEF Batch

\* The batches of a queue up to the last one of a prefix are that prefix.
LEMMA SplitAtPrefix ==
    ASSUME NEW q \in Seq(Batch), Ascending(q),
           \A i \in 1 .. Len(q) : q[i].id >= 1,
           NEW p \in Seq(Batch), IsPrefix(p, q),
           NEW n \in 0 .. Len(q),
           SplitsAt(q, n, IF p = <<>> THEN kBatchIdUnknown ELSE p[Len(p)].id)
    PROVE  n = Len(p)
<1>1. Len(p) \in Nat /\ Len(q) \in Nat /\ Len(p) <= Len(q) /\ n \in Nat
    BY DEF IsPrefix
<1>2. \A i \in 1 .. Len(q) : q[i].id \in Nat
    BY Elements
<1>3. CASE p = <<>>
    <2>1. \A i \in 1 .. n : q[i].id <= -1
        BY <1>3 DEF SplitsAt, kBatchIdUnknown
    <2> QED BY <1>1, <1>2, <1>3, <2>1
<1>4. CASE p # <<>>
    <2>1. Len(p) >= 1 /\ Len(p) \in 1 .. Len(q)
        BY <1>1, <1>4
    <2>2. p[Len(p)] = q[Len(p)]
        BY <2>1 DEF IsPrefix
    <2>3. /\ \A i \in 1 .. n : q[i].id <= q[Len(p)].id
          /\ \A i \in n + 1 .. Len(q) : q[i].id > q[Len(p)].id
        BY <1>4, <2>2 DEF SplitsAt
    <2>4. ~(n < Len(p))
        BY <1>1, <1>2, <2>1, <2>3
    <2>5. ~(Len(p) < n)
        <3> SUFFICES ASSUME Len(p) < n PROVE FALSE
            OBVIOUS
        <3>1. n \in 1 .. n /\ n \in 1 .. Len(q)
            BY <1>1, <2>1
        <3>2. q[Len(p)].id < q[n].id
            BY <2>1, <3>1 DEF Ascending
        <3> QED BY <1>2, <2>1, <2>3, <3>1, <3>2
    <2> QED BY <1>1, <2>4, <2>5
<1> QED BY <1>3, <1>4

\* What FillWritePipeline makes of a queue q whose first batches are in p.
FilledTo(q, p, s, ready, sent) ==
    /\ pipeline' \in Seq(Batch) /\ IsPrefix(pipeline', q)
    /\ Len(pipeline') = Least(kMaxPendingWrites, Len(q))
    /\ Len(p) <= Len(pipeline')
    /\ requests' \in Seq(Batch)
    /\ ~CanWrite(s, ready) => requests' = sent
    /\ CanWrite(s, ready) =>
         /\ Len(requests') = Len(sent) + Len(pipeline') - Len(p)
         /\ \A i \in 1 .. Len(sent) : requests'[i] = sent[i]
         /\ \A i \in 1 .. Len(pipeline') - Len(p) :
               requests'[Len(sent) + i] = pipeline'[Len(p) + i]
    /\ state' \in StreamStates
    /\ pipeline' # <<>> => IsStarted(state')
    /\ IsStarted(s) \/ pipeline' = <<>> => state' = s
    /\ ~IsStarted(s) => state' # "Open"
    /\ idle' \in BOOLEAN
    /\ idle' => pipeline' = <<>> /\ s = "Open"

LEMMA Filled ==
    ASSUME NEW q \in Seq(Batch), Ascending(q),
           \A i \in 1 .. Len(q) : q[i].id >= 1,
           NEW p \in Seq(Batch), IsPrefix(p, q), Len(p) <= kMaxPendingWrites,
           NEW s \in StreamStates, NEW ready \in BOOLEAN, NEW sent \in Seq(Batch),
           NEW timer \in BOOLEAN, timer => p = <<>> /\ CanWrite(s, ready),
           FillWritePipeline(q, p, s, ready, sent, timer)
    PROVE  FilledTo(q, p, s, ready, sent)
<1> DEFINE k == kMaxPendingWrites
           m == Least(k, Len(q))
           added == SubSeq(q, Len(p) + 1, m)
           onStream == IF CanWrite(s, ready) THEN added ELSE <<>>
<1>1. k \in Nat \ {0}
    BY PipelineAssumption
<1>2. Len(p) \in Nat /\ Len(q) \in Nat /\ Len(p) <= Len(q) /\ Len(sent) \in Nat
    BY DEF IsPrefix
<1>3. m \in Nat /\ m <= k /\ m <= Len(q) /\ Len(p) <= m
    BY <1>1, <1>2 DEF Least
<1>4. /\ pipeline' = p \o added
      /\ requests' = sent \o onStream
      /\ idle' = IdleTimer(timer, s, p \o added = <<>>, onStream # <<>>)
      /\ state' = IF ~IsStarted(s) /\ p \o added # <<>> THEN Started(s) ELSE s
    <2> DEFINE last == IF p = <<>> THEN kBatchIdUnknown ELSE p[Len(p)].id
               more(n) == SubSeq(q, n + 1, Least(n + k - Len(p), Len(q)))
               onS(n) == IF CanWrite(s, ready) THEN more(n) ELSE <<>>
    <2>1. PICK n \in 0 .. Len(q) :
            /\ SplitsAt(q, n, last)
            /\ pipeline' = p \o more(n)
            /\ requests' = sent \o onS(n)
            /\ idle' = IdleTimer(timer, s, p \o more(n) = <<>>, onS(n) # <<>>)
            /\ state' = IF ~IsStarted(s) /\ p \o more(n) # <<>> THEN Started(s) ELSE s
        BY Zenon DEF FillWritePipeline
    <2>2. n = Len(p)
        BY <2>1, SplitAtPrefix
    <2>3. n + k - Len(p) = k
        BY <1>1, <1>2, <2>2
    <2>4. more(n) = added
        BY <2>2, <2>3, Zenon
    <2>5. onS(n) = onStream
        BY <2>4, Zenon
    <2> HIDE DEF more, onS, added, onStream, last
    <2> QED BY <2>1, <2>4, <2>5, Zenon
<1> DEFINE S == Batch
<1>5. q \in Seq(S) /\ p \in Seq(S) /\ sent \in Seq(S)
    OBVIOUS
<1> HIDE DEF S, m
<1>6. /\ added \in Seq(S) /\ Len(added) = m - Len(p)
      /\ \A i \in 1 .. m - Len(p) : added[i] = q[Len(p) + i]
    BY <1>2, <1>3, <1>5
<1> HIDE DEF added
<1>7. /\ pipeline' \in Seq(S) /\ Len(pipeline') = m
      /\ \A i \in 1 .. m : pipeline'[i] = IF i <= Len(p) THEN p[i]
                                          ELSE added[i - Len(p)]
    BY <1>2, <1>3, <1>4, <1>5, <1>6, Concatenation
<1>8. \A i \in 1 .. m : pipeline'[i] = q[i]
    <2> SUFFICES ASSUME NEW i \in 1 .. m PROVE pipeline'[i] = q[i]
        OBVIOUS
    <2>1. CASE i <= Len(p)
        BY <1>2, <1>7, <2>1 DEF IsPrefix
    <2>2. CASE ~(i <= Len(p))
        <3>1. i - Len(p) \in 1 .. m - Len(p) /\ Len(p) + (i - Len(p)) = i
            BY <1>2, <1>3, <2>2
        <3> QED BY <1>6, <1>7, <2>2, <3>1
    <2> QED BY <2>1, <2>2
<1>9. \A i \in 1 .. m - Len(p) : pipeline'[Len(p) + i] = added[i]
    <2> SUFFICES ASSUME NEW i \in 1 .. m - Len(p)
                 PROVE  pipeline'[Len(p) + i] = added[i]
        OBVIOUS
    <2>1. Len(p) + i \in 1 .. m
        BY <1>2, <1>3
    <2> QED BY <1>6, <1>8, <2>1
<1>10. IsPrefix(pipeline', q)
    BY <1>3, <1>7, <1>8 DEF IsPrefix
<1>11. /\ requests' \in Seq(S)
       /\ ~CanWrite(s, ready) => requests' = sent
    BY <1>4, <1>5, <1>6
<1>12. CanWrite(s, ready) =>
         /\ Len(requests') = Len(sent) + (m - Len(p))
         /\ \A i \in 1 .. Len(sent) : requests'[i] = sent[i]
         /\ \A i \in 1 .. m - Len(p) : requests'[Len(sent) + i] = pipeline'[Len(p) + i]
    <2> SUFFICES ASSUME CanWrite(s, ready)
                 PROVE  /\ Len(requests') = Len(sent) + (m - Len(p))
                        /\ \A i \in 1 .. Len(sent) : requests'[i] = sent[i]
                        /\ \A i \in 1 .. m - Len(p) : requests'[Len(sent) + i] = added[i]
        BY <1>9
    <2>1. requests' = sent \o added
        BY <1>4
    <2>2. /\ Len(requests') = Len(sent) + Len(added)
          /\ \A i \in 1 .. Len(sent) + Len(added) :
                requests'[i] = IF i <= Len(sent) THEN sent[i] ELSE added[i - Len(sent)]
        BY <1>5, <1>6, <2>1, Concatenation
    <2>3. ASSUME NEW i \in 1 .. m - Len(p)
          PROVE  requests'[Len(sent) + i] = added[i]
        <3>1. /\ Len(sent) + i \in 1 .. Len(sent) + Len(added)
              /\ ~(Len(sent) + i <= Len(sent)) /\ (Len(sent) + i) - Len(sent) = i
            BY <1>2, <1>3, <1>6
        <3> QED BY <2>2, <3>1
    <2>4. ASSUME NEW i \in 1 .. Len(sent)
          PROVE  requests'[i] = sent[i]
        <3>1. i \in 1 .. Len(sent) + Len(added) /\ i <= Len(sent)
            BY <1>2, <1>3, <1>6
        <3> QED BY <2>2, <3>1
    <2>5. Len(requests') = Len(sent) + (m - Len(p))
        BY <1>6, <2>2
    <2> QED BY <2>3, <2>4, <2>5
<1>13. /\ state' \in StreamStates
       /\ pipeline' # <<>> => IsStarted(state')
       /\ IsStarted(s) \/ pipeline' = <<>> => state' = s
       /\ ~IsStarted(s) => state' # "Open"
    BY <1>4 DEF Started, IsStarted, StreamStates
<1>14. idle' \in BOOLEAN
    BY <1>4, Zenon DEF IdleTimer
<1>15. idle' => pipeline' = <<>> /\ s = "Open"
    <2> SUFFICES ASSUME idle' PROVE pipeline' = <<>> /\ s = "Open"
        OBVIOUS
    <2>1. (timer /\ onStream = <<>>) \/ (s = "Open" /\ pipeline' = <<>>)
        BY <1>4, Zenon DEF IdleTimer
    <2>2. CASE timer /\ onStream = <<>>
        <3>1. added = <<>> /\ p = <<>> /\ s = "Open"
            BY <2>2 DEF CanWrite
        <3>2. Len(added) = 0 /\ Len(p) = 0
            BY <3>1
        <3>3. Len(added) = m - Len(p) /\ m \in Nat
            BY ONLY <1>3, <1>6
        <3>4. m = 0
            BY ONLY <3>2, <3>3
        <3>5. pipeline' \in Seq(S) /\ Len(pipeline') = 0
            BY <1>7, <3>4
        <3> QED BY <3>1, <3>5
    <2> QED BY <2>1, <2>2
<1>16. Len(requests') = Len(sent) + m - Len(p) <=> Len(requests') = Len(sent) + (m - Len(p))
    BY <1>2, <1>3
<1>17. Len(pipeline') = m /\ m = Least(k, Len(q))
    BY <1>7 DEF m
<1> HIDE DEF onStream
<1> QED BY <1>3, <1>7, <1>10, <1>11, <1>12, <1>13, <1>14, <1>15, <1>16, <1>17
        DEF S, FilledTo

----------------------------------------------------------------------------
LEMMA InitHolds == Init => WriteInv
<1> SUFFICES ASSUME Init PROVE WriteInv
    OBVIOUS
<1>1. \A u \in Users : queue[u] = <<>> /\ callbacks[u] = {}
    BY DEF Init
<1>2. StreamInv
    <2>1. StreamTyped
        <3>1. refusal \in 0 .. MaxWrites
            BY PipelineAssumption DEF Init
        <3>2. pipeline \in Seq(Batch) /\ requests \in Seq(Batch) /\ responses \in Seq(Nat)
            BY DEF Init
        <3> QED BY <3>1, <3>2, Zenon DEF Init, StreamTyped, StreamStates
    <2>2. StreamSound
        BY DEF Init, StreamSound
    <2>3. PipelineIsOldest
        <3>1. user \in Users /\ pipeline = <<>> /\ queue[user] = <<>>
            BY <1>1, PipelineAssumption DEF Init
        <3>2. Least(kMaxPendingWrites, 0) = 0
            BY PipelineAssumption DEF Least
        <3> QED BY <3>1, <3>2 DEF PipelineIsOldest, IsPrefix
    <2>4. AnswersMatchPipeline /\ StreamWhenNeeded
        BY DEF Init, AnswersMatchPipeline, StreamWhenNeeded
    <2> QED BY <2>1, <2>2, <2>3, <2>4 DEF StreamInv
<1>3. DiskInv
    <2>1. DiskTyped
        BY PipelineAssumption DEF Init, DiskTyped, FirstBatchId
    <2>2. QueueSound /\ HandlersHaveBatches
        <3>1. nextBatchId >= 1
            BY DEF Init, FirstBatchId
        <3> QED BY <1>1, <3>1 DEF QueueSound, Ascending, HandlersHaveBatches
    <2> QED BY <2>1, <2>2 DEF DiskInv
<1>4. HistoryInv
    <2>1. HistoryTyped
        BY PipelineAssumption DEF Init, HistoryTyped
    <2>2. ServerSound
        BY PipelineAssumption DEF Init, ServerSound
    <2>3. KeptInOrder /\ ToldTheTruth
        BY DEF Init, KeptInOrder, NoWriteLost, CommittedInOrder, ToldTheTruth
    <2> QED BY <2>1, <2>2, <2>3 DEF HistoryInv
<1> QED BY <1>2, <1>3, <1>4, ThreeParts

\* Steps that leave the disk alone.
LEMMA SameDisk ==
    ASSUME DiskInv, UNCHANGED <<queue, callbacks, user, nextBatchId, written, told>>
    PROVE  DiskInv'
    BY DEF DiskInv, DiskTyped, QueueSound, BatchOf, HandlersHaveBatches

\* Steps that leave the server and the history alone, but for a refusal that is
\* forgotten.
LEMMA SameHistory ==
    ASSUME HistoryInv, UNCHANGED <<queue, cache, log, written, refused, told>>,
           refusal' \in {0, refusal}, faults' \in Nat
    PROVE  HistoryInv'
    BY DEF HistoryInv, HistoryTyped, ServerSound, KeptInOrder, NoWriteLost,
           CommittedInOrder, ToldTheTruth, Queued, Committed, ChargedForLater

\* A stream that is torn down and started again over q, with p in the pipeline.
LEMMA Restarted ==
    ASSUME NEW q \in Seq(Batch), q = queue'[user'], Ascending(q),
           \A i \in 1 .. Len(q) : q[i].id >= 1,
           NEW p \in Seq(Batch), IsPrefix(p, q), Len(p) <= kMaxPendingWrites,
           NEW s \in {"Initial", "Error"}, NEW ready \in BOOLEAN,
           FillWritePipeline(q, p, s, ready, <<>>, FALSE),
           handshake' = FALSE, CallDestroyed
    PROVE  StreamInv'
<1>1. s \in StreamStates /\ ~IsStarted(s) /\ ~CanWrite(s, ready)
      /\ <<>> \in Seq(Batch)
    BY DEF StreamStates, IsStarted, CanWrite
<1>2. /\ pipeline' \in Seq(Batch) /\ IsPrefix(pipeline', q)
      /\ Len(pipeline') = Least(kMaxPendingWrites, Len(q))
      /\ requests' = <<>>
      /\ state' \in StreamStates /\ state' # "Open"
      /\ pipeline' # <<>> => IsStarted(state')
      /\ pipeline' = <<>> => state' = s
      /\ idle' \in BOOLEAN /\ ~idle'
    <2>1. PICK timer \in BOOLEAN : timer = FALSE
        OBVIOUS
    <2>2. FillWritePipeline(q, p, s, ready, <<>>, timer)
        BY <2>1, Zenon
    <2>3. (timer => p = <<>> /\ CanWrite(s, ready)) /\ s # "Open"
        BY <2>1
    <2>4. FilledTo(q, p, s, ready, <<>>)
        <3>1. Len(p) <= kMaxPendingWrites /\ s \in StreamStates /\ ready \in BOOLEAN
              /\ timer \in BOOLEAN /\ q \in Seq(Batch) /\ p \in Seq(Batch)
            BY <1>1
        <3>2. Ascending(q) /\ (\A i \in 1 .. Len(q) : q[i].id >= 1) /\ IsPrefix(p, q)
            OBVIOUS
        <3> QED BY ONLY <1>1, <2>2, <2>3, <3>1, <3>2, Filled, Zenon
    <2> QED BY <1>1, <2>3, <2>4 DEF FilledTo
<1>3. hello' = "none" /\ responses' = <<>> /\ refusal' = 0 /\ ~handshake'
      /\ handshake' \in BOOLEAN
    BY DEF CallDestroyed
<1>4. StreamTyped'
    BY <1>1, <1>2, <1>3, PipelineAssumption DEF StreamTyped
<1>5. StreamSound'
    BY <1>2, <1>3 DEF StreamSound
<1>6. PipelineIsOldest'
    BY <1>2 DEF PipelineIsOldest
<1>7. AnswersMatchPipeline' /\ StreamWhenNeeded'
    BY <1>2, <1>3 DEF AnswersMatchPipeline, StreamWhenNeeded
<1> QED BY <1>4, <1>5, <1>6, <1>7 DEF StreamInv

----------------------------------------------------------------------------
\* AnswersMatchPipeline for any pipeline, requests and responses.
Closed == IF refusal = 0 THEN 0 ELSE 1

Matches(p, reqs, resps) ==
    /\ Len(resps) + Closed + Len(reqs) = Len(p)
    /\ \A i \in 1 .. Len(resps) :
          resps[i] \in 1 .. Len(log) /\ log[resps[i]].write = p[i].write
    /\ refusal # 0 => p[Len(resps) + 1].write = refusal
    /\ \A i \in 1 .. Len(reqs) : reqs[i] = p[Len(resps) + Closed + i]

LEMMA MatchesPipeline ==
    ASSUME StreamTyped, log \in Seq(Commit)
    PROVE  AnswersMatchPipeline <=> (handshake => Matches(pipeline, requests, responses))
<1>1. /\ DOMAIN log = 1 .. Len(log) /\ DOMAIN requests = 1 .. Len(requests)
    BY DEF StreamTyped
<1> QED BY <1>1 DEF AnswersMatchPipeline, Matches, Closed

\* Batches added to the pipeline and to the requests keep the match.
LEMMA MatchKept ==
    ASSUME NEW p, NEW reqs, NEW resps, NEW p2, NEW reqs2,
           p \in Seq(Batch), reqs \in Seq(Batch), resps \in Seq(Nat),
           p2 \in Seq(Batch), reqs2 \in Seq(Batch),
           Matches(p, reqs, resps), Len(p) <= Len(p2), \A i \in 1 .. Len(p) : p2[i] = p[i],
           Len(reqs2) = Len(reqs) + Len(p2) - Len(p),
           \A i \in 1 .. Len(reqs) : reqs2[i] = reqs[i],
           \A i \in 1 .. Len(p2) - Len(p) : reqs2[Len(reqs) + i] = p2[Len(p) + i]
    PROVE  Matches(p2, reqs2, resps)
<1>0. Len(reqs2) = Len(reqs) + Len(p2) - Len(p) /\ Len(p) <= Len(p2)
    OBVIOUS
<1>1. /\ Closed \in Nat /\ Closed <= 1
      /\ Len(p) \in Nat /\ Len(reqs) \in Nat /\ Len(resps) \in Nat
      /\ Len(p2) \in Nat /\ Len(reqs2) \in Nat
      /\ Len(resps) + Closed + Len(reqs) = Len(p)
      /\ refusal # 0 => Closed = 1
    BY DEF Closed, Matches
<1>2. Len(resps) + Closed + Len(reqs2) = Len(p2)
    BY ONLY <1>0, <1>1
<1>3. ASSUME NEW i \in 1 .. Len(resps)
      PROVE  resps[i] \in 1 .. Len(log) /\ log[resps[i]].write = p2[i].write
    <2>1. i \in 1 .. Len(p)
        BY <1>1
    <2> QED BY <2>1 DEF Matches
<1>4. ASSUME refusal # 0 PROVE p2[Len(resps) + 1].write = refusal
    <2>1. Len(resps) + 1 \in 1 .. Len(p)
        BY <1>1, <1>4
    <2> QED BY <1>4, <2>1 DEF Matches
<1>5. ASSUME NEW i \in 1 .. Len(reqs2)
      PROVE  reqs2[i] = p2[Len(resps) + Closed + i]
    <2>1. CASE i <= Len(reqs)
        <3>1. i \in 1 .. Len(reqs) /\ Len(resps) + Closed + i \in 1 .. Len(p)
            BY <1>1, <2>1
        <3> QED BY <3>1 DEF Matches
    <2>2. CASE ~(i <= Len(reqs))
        <3> DEFINE j == i - Len(reqs)
        <3>1. /\ j \in 1 .. Len(p2) - Len(p) /\ Len(reqs) + j = i
              /\ Len(p) + j = Len(resps) + Closed + i
            <4>1. i \in 1 .. Len(reqs2)
                OBVIOUS
            <4> QED BY ONLY <1>0, <1>1, <2>2, <4>1
        <3> HIDE DEF j
        <3>2. reqs2[Len(reqs) + j] = p2[Len(p) + j]
            BY <3>1
        <3> QED BY ONLY <3>1, <3>2
    <2> QED BY <2>1, <2>2
<1> QED BY <1>2, <1>3, <1>4, <1>5 DEF Matches

\* A stream that goes on, with p left in the pipeline and resps to be read.
LEMMA Continued ==
    ASSUME StreamTyped, StreamSound, log \in Seq(Commit),
           NEW q \in Seq(Batch), q = queue'[user'], Ascending(q),
           \A i \in 1 .. Len(q) : q[i].id >= 1,
           NEW p \in Seq(Batch), IsPrefix(p, q), Len(p) <= kMaxPendingWrites,
           NEW resps \in Seq(Nat), handshake => Matches(p, requests, resps),
           ~handshake => resps = <<>>,
           idle => p = <<>> /\ handshake,
           state = "Open" /\ ~handshake => p # <<>>,
           p = <<>> => state \notin {"Starting", "Backoff"},
           FillWritePipeline(q, p, state, handshake, requests, idle),
           responses' = resps, UNCHANGED <<handshake, hello, refusal, log>>
    PROVE  StreamInv'
<1>1. /\ state \in StreamStates /\ handshake \in BOOLEAN /\ idle \in BOOLEAN
      /\ requests \in Seq(Batch)
      /\ handshake => state = "Open"
      /\ CanWrite(state, handshake) <=> handshake
    BY DEF StreamTyped, StreamSound, CanWrite
<1>2. FilledTo(q, p, state, handshake, requests)
    <2>1. idle => p = <<>> /\ CanWrite(state, handshake)
        BY <1>1
    <2>2. Ascending(q) /\ (\A i \in 1 .. Len(q) : q[i].id >= 1) /\ IsPrefix(p, q)
        OBVIOUS
    <2>3. /\ Len(p) <= kMaxPendingWrites /\ q \in Seq(Batch) /\ p \in Seq(Batch)
          /\ FillWritePipeline(q, p, state, handshake, requests, idle)
        OBVIOUS
    <2> QED BY ONLY <1>1, <2>1, <2>2, <2>3, Filled, Zenon
<1>3. /\ pipeline' \in Seq(Batch) /\ IsPrefix(pipeline', q)
      /\ Len(pipeline') = Least(kMaxPendingWrites, Len(q)) /\ Len(p) <= Len(pipeline')
      /\ requests' \in Seq(Batch)
      /\ state' \in StreamStates /\ idle' \in BOOLEAN
      /\ pipeline' # <<>> => IsStarted(state')
      /\ IsStarted(state) \/ pipeline' = <<>> => state' = state
      /\ ~IsStarted(state) => state' # "Open"
      /\ idle' => pipeline' = <<>> /\ state = "Open"
    BY <1>2 DEF FilledTo
<1>4. p # <<>> => pipeline' # <<>>
    BY <1>3
<1>5. StreamTyped'
    BY <1>1, <1>3 DEF StreamTyped
<1>6. StreamSound'
    <2>1. handshake' => state' = "Open"
        BY <1>1, <1>3 DEF IsStarted
    <2>2. ~handshake' => requests' = <<>> /\ responses' = <<>> /\ refusal' = 0
        BY <1>1, <1>2 DEF FilledTo, StreamSound
    <2>3. state' = "Open" => state = "Open"
        BY <1>3 DEF IsStarted
    <2>4. idle' => state' = "Open"
        BY <1>3 DEF IsStarted
    <2> QED BY <1>4, <2>1, <2>2, <2>3, <2>4 DEF StreamSound
<1>7. PipelineIsOldest'
    BY <1>3 DEF PipelineIsOldest
<1>8. StreamWhenNeeded'
    BY <1>3, <1>4 DEF StreamWhenNeeded
<1>9. AnswersMatchPipeline'
    <2> SUFFICES ASSUME handshake PROVE Matches(pipeline, requests, responses)'
        <3>1. DOMAIN log' = 1 .. Len(log') /\ DOMAIN requests' = 1 .. Len(requests')
            BY <1>5 DEF StreamTyped
        <3> QED BY <3>1 DEF AnswersMatchPipeline, Matches, Closed
    <2>1. /\ Len(requests') = Len(requests) + Len(pipeline') - Len(p)
          /\ \A i \in 1 .. Len(requests) : requests'[i] = requests[i]
          /\ \A i \in 1 .. Len(pipeline') - Len(p) :
                requests'[Len(requests) + i] = pipeline'[Len(p) + i]
        BY <1>1, <1>2 DEF FilledTo
    <2>2. \A i \in 1 .. Len(p) : pipeline'[i] = p[i]
        <3> SUFFICES ASSUME NEW i \in 1 .. Len(p) PROVE pipeline'[i] = p[i]
            OBVIOUS
        <3>1. i \in 1 .. Len(pipeline')
            BY <1>3
        <3>2. p[i] = q[i] /\ pipeline'[i] = q[i]
            BY <1>3, <3>1 DEF IsPrefix
        <3> QED BY <3>2
    <2>3. Matches(p, requests, resps)
        OBVIOUS
    <2>4. Matches(pipeline', requests', resps)
        BY <1>1, <1>3, <2>1, <2>2, <2>3, MatchKept
    <2> QED BY <2>4 DEF Matches, Closed
<1> QED BY <1>5, <1>6, <1>7, <1>8, <1>9 DEF StreamInv

----------------------------------------------------------------------------
\* The oldest batch of the user, which is the first of the pipeline.
Oldest == queue[user][1]

LEMMA OldestFirst ==
    ASSUME WriteInv, pipeline # <<>>
    PROVE  /\ Len(queue[user]) >= 1 /\ Head(pipeline) = Oldest /\ pipeline[1] = Oldest
           /\ Oldest \in Batch /\ BatchOf(user, Oldest)
           /\ Oldest.id \in Nat /\ Oldest.write \in Writes
<1>1. /\ pipeline \in Seq(Batch) /\ user \in Users /\ queue[user] \in Seq(Batch)
      /\ Len(pipeline) >= 1 /\ 1 \in 1 .. Len(pipeline)
    BY DEF WriteInv, TypeOK
<1>2. Len(pipeline) <= Len(queue[user]) /\ pipeline[1] = queue[user][1]
    BY <1>1 DEF WriteInv, PipelineConsistent, PipelineIsOldest, IsPrefix
<1>3. 1 \in 1 .. Len(queue[user])
    BY <1>1, <1>2
<1>4. BatchOf(user, Oldest)
    BY <1>1, <1>3 DEF WriteInv, QueueSound, Oldest
<1> QED BY <1>1, <1>2, <1>3, <1>4, Elements DEF Oldest

\* It is the one that RemoveMutationBatch deletes.
LEMMA Removed ==
    ASSUME WriteInv, pipeline # <<>>, RemoveMutationBatch(Head(pipeline))
    PROVE  /\ queue' \in [Users -> Seq(Batch)]
           /\ \A u \in Users : u # user => queue'[u] = queue[u]
           /\ Len(queue'[user]) = Len(queue[user]) - 1
           /\ \A i \in 1 .. Len(queue[user]) - 1 : queue'[user][i] = queue[user][i + 1]
<1>1. user \in Users /\ queue \in [Users -> Seq(Batch)] /\ queue[user] \in Seq(Batch)
    BY DEF WriteInv, TypeOK
<1>2. PICK i \in 1 .. Len(queue[user]) :
        /\ queue[user][i].id = Oldest.id
        /\ queue' = [queue EXCEPT ![user] = Without(queue[user], i)]
    <2>1. Head(pipeline) = Oldest
        BY OldestFirst
    <2>2. PICK i \in DOMAIN queue[user] :
            /\ queue[user][i].id = Head(pipeline).id
            /\ queue' = [queue EXCEPT ![user] = Without(queue[user], i)]
        BY Zenon DEF RemoveMutationBatch
    <2>3. i \in 1 .. Len(queue[user])
        BY <1>1
    <2> QED BY <2>1, <2>2, <2>3, Zenon
<1>3. i = 1
    <2>1. Ascending(queue[user]) /\ 1 \in 1 .. Len(queue[user])
        BY <1>1, OldestFirst DEF WriteInv, QueueSound
    <2>2. ~(1 < i)
        BY <1>1, <1>2, <2>1, Elements DEF Ascending, Oldest
    <2> QED BY <2>2
<1> DEFINE r == Without(queue[user], 1)
           S == Batch
<1>4. queue[user] \in Seq(S) /\ 1 \in 1 .. Len(queue[user])
    BY <1>1, OldestFirst
<1>5. r = SubSeq(queue[user], 1, 1 - 1) \o SubSeq(queue[user], 1 + 1, Len(queue[user]))
    BY DEF Without
<1> HIDE DEF S, r
<1>6. /\ r \in Seq(S) /\ Len(r) = Len(queue[user]) - 1
      /\ \A k \in 1 .. Len(queue[user]) - 1 :
            r[k] = IF k < 1 THEN queue[user][k] ELSE queue[user][k + 1]
    BY ONLY <1>4, <1>5, TakenOut
<1>7. queue' = [queue EXCEPT ![user] = r]
    BY <1>2, <1>3 DEF r
<1> QED BY <1>1, <1>6, <1>7 DEF S

\* Its handler, if it is still there, is called, and it is nobody else's.
LEMMA Notified ==
    ASSUME WriteInv, pipeline # <<>>, NEW status \in {"ok", "error"},
           NotifyUser(Head(pipeline).id, status)
    PROVE  /\ told' \in [Writes -> {"none", "ok", "error"}]
           /\ \A w \in Writes :
                 told'[w] # told[w] => w = Oldest.write /\ told'[w] = status
           /\ told' \in {told, [told EXCEPT ![Oldest.write] = status]}
           /\ callbacks' \in [Users -> SUBSET Batch]
           /\ \A u \in Users : \A c \in callbacks'[u] :
                 c \in callbacks[u] /\ (u = user => c.id # Oldest.id)
<1>1. /\ user \in Users /\ callbacks \in [Users -> SUBSET Batch]
      /\ told \in [Writes -> {"none", "ok", "error"}] /\ queue[user] \in Seq(Batch)
    BY DEF WriteInv, TypeOK
<1>2. Head(pipeline) = Oldest /\ Oldest.write \in Writes /\ Len(queue[user]) >= 1
    BY OldestFirst
<1>3. ASSUME NEW c \in callbacks[user], c.id = Oldest.id
      PROVE  c = Oldest
    <2>1. PICK i \in 1 .. Len(queue[user]) : queue[user][i] = c
        BY <1>1, <1>3 DEF WriteInv, PipelineConsistent, HandlersHaveBatches
    <2>2. ~(1 < i)
        <3>1. Ascending(queue[user]) /\ 1 \in 1 .. Len(queue[user])
            BY <1>1, <1>2 DEF WriteInv, QueueSound
        <3> QED BY <1>1, <1>3, <2>1, <3>1, Elements DEF Ascending, Oldest
    <2>3. i = 1
        BY <2>2
    <2> QED BY <2>1, <2>3 DEF Oldest
<1>4. told' = [w \in Writes |->
                 IF \E c \in callbacks[user] : c.id = Oldest.id /\ c.write = w
                 THEN status ELSE told[w]]
    BY <1>2 DEF NotifyUser
<1>5. callbacks' = [callbacks EXCEPT ![user] = {c \in callbacks[user] : c.id # Oldest.id}]
    BY <1>2 DEF NotifyUser
<1>6. \A w \in Writes :
         told'[w] = IF w = Oldest.write /\ Oldest \in callbacks[user]
                    THEN status ELSE told[w]
    BY <1>3, <1>4
<1>7. told' \in [Writes -> {"none", "ok", "error"}]
    BY <1>1, <1>4
<1>8. told' \in {told, [told EXCEPT ![Oldest.write] = status]}
    <2>1. CASE Oldest \in callbacks[user]
        BY <1>1, <1>6, <1>7, <2>1
    <2>2. CASE Oldest \notin callbacks[user]
        BY <1>1, <1>6, <1>7, <2>2
    <2> QED BY <2>1, <2>2
<1>9. callbacks' \in [Users -> SUBSET Batch]
    BY <1>1, <1>5
<1>10. \A u \in Users : \A c \in callbacks'[u] :
          c \in callbacks[u] /\ (u = user => c.id # Oldest.id)
    BY <1>1, <1>5
<1> QED BY <1>6, <1>7, <1>8, <1>9, <1>10

\* The disk after both.
LEMMA Settled ==
    ASSUME WriteInv, pipeline # <<>>, RemoveMutationBatch(Head(pipeline)),
           NEW status \in {"ok", "error"}, NotifyUser(Head(pipeline).id, status),
           UNCHANGED <<user, nextBatchId, written>>
    PROVE  DiskInv'
<1>1. /\ queue' \in [Users -> Seq(Batch)]
      /\ \A u \in Users : u # user => queue'[u] = queue[u]
      /\ Len(queue'[user]) = Len(queue[user]) - 1
      /\ \A i \in 1 .. Len(queue[user]) - 1 : queue'[user][i] = queue[user][i + 1]
    BY Removed
<1>2. /\ \A w \in Writes : told'[w] # told[w] => w = Oldest.write
      /\ callbacks' \in [Users -> SUBSET Batch]
      /\ \A u \in Users : \A c \in callbacks'[u] :
            c \in callbacks[u] /\ (u = user => c.id # Oldest.id)
    BY Notified
<1>3. /\ user \in Users /\ \A u \in Users : queue[u] \in Seq(Batch)
      /\ BatchOf(user, Oldest) /\ Len(queue[user]) >= 1
    BY OldestFirst DEF WriteInv, TypeOK
<1>4. DiskTyped'
    BY <1>1, <1>2 DEF WriteInv, TypeOK, DiskTyped
<1>5. ASSUME NEW u \in Users, NEW i \in 1 .. Len(queue'[u])
      PROVE  \E j \in 1 .. Len(queue[u]) :
                /\ queue'[u][i] = queue[u][j]
                /\ j = IF u = user THEN i + 1 ELSE i
    <2>1. CASE u = user
        <3>1. i + 1 \in 1 .. Len(queue[u]) /\ i \in 1 .. Len(queue[user]) - 1
            BY <1>1, <1>3, <2>1
        <3> QED BY <1>1, <2>1, <3>1
    <2>2. CASE u # user
        BY <1>1, <2>2
    <2> QED BY <2>1, <2>2
<1>6. QueueSound'
    <2> SUFFICES ASSUME NEW u \in Users
                 PROVE  /\ Ascending(queue'[u])
                        /\ \A i \in 1 .. Len(queue'[u]) :
                              BatchIn(u, queue'[u][i], nextBatchId', written', told')
        <3>1. nextBatchId' >= 1
            BY DEF WriteInv, QueueSound
        <3> QED BY <3>1 DEF QueueSound, BatchOf
    <2>1. Ascending(queue[u]) /\ \A i \in 1 .. Len(queue[u]) : BatchOf(u, queue[u][i])
        BY DEF WriteInv, QueueSound
    <2>2. Ascending(queue'[u])
        <3> SUFFICES ASSUME NEW i \in 1 .. Len(queue'[u]), NEW j \in 1 .. Len(queue'[u]),
                            i < j
                     PROVE  /\ queue'[u][i].id < queue'[u][j].id
                            /\ queue'[u][i].write < queue'[u][j].write
            BY DEF Ascending
        <3>1. PICK m \in 1 .. Len(queue[u]) :
                queue'[u][i] = queue[u][m] /\ m = IF u = user THEN i + 1 ELSE i
            BY <1>5
        <3>2. PICK n \in 1 .. Len(queue[u]) :
                queue'[u][j] = queue[u][n] /\ n = IF u = user THEN j + 1 ELSE j
            BY <1>5
        <3>3. m < n
            BY <3>1, <3>2
        <3> QED BY <2>1, <3>1, <3>2, <3>3 DEF Ascending
    <2>3. ASSUME NEW i \in 1 .. Len(queue'[u]) 
          PROVE  BatchIn(u, queue'[u][i], nextBatchId', written', told')
        <3>1. PICK j \in 1 .. Len(queue[u]) :
                queue'[u][i] = queue[u][j] /\ j = IF u = user THEN i + 1 ELSE i
            BY <1>5, <2>3
        <3>2. BatchIn(u, queue[u][j], nextBatchId, written, told) /\ queue[u][j].write \in Writes
            BY <1>3, <2>1, Elements DEF BatchOf
        <3>3. queue[u][j].write # Oldest.write
            <4>1. CASE u = user
                <5>1. 1 \in 1 .. Len(queue[u]) /\ 1 < j
                    BY <2>3, <3>1, <4>1
                <5>2. queue[u][1].write < queue[u][j].write
                    BY <2>1, <5>1 DEF Ascending
                <5>3. queue[u][1].write \in Nat
                    BY <1>3, <5>1, Elements DEF Writes
                <5> QED BY <3>2, <4>1, <5>2, <5>3 DEF Oldest, Writes
            <4>2. CASE u # user
                BY <1>3, <3>2, <4>2 DEF BatchOf, BatchIn
            <4> QED BY <4>1, <4>2
        <3>4. told'[queue[u][j].write] = told[queue[u][j].write]
            BY <1>2, <3>2, <3>3
        <3> QED BY <3>1, <3>2, <3>4 DEF BatchIn
    <2> QED BY <2>2, <2>3
<1>7. HandlersHaveBatches'
    <2> SUFFICES ASSUME NEW u \in Users, NEW c \in callbacks'[u]
                 PROVE  \E i \in 1 .. Len(queue'[u]) : queue'[u][i] = c
        BY <1>4 DEF HandlersHaveBatches, DiskTyped
    <2>1. PICK j \in 1 .. Len(queue[u]) : queue[u][j] = c
        <3>1. c \in callbacks[u]
            BY <1>2
        <3>2. HandlersHaveBatches
            BY DEF WriteInv, PipelineConsistent
        <3>3. PICK j \in DOMAIN queue[u] : queue[u][j] = c
            BY <3>1, <3>2, Zenon DEF HandlersHaveBatches
        <3>4. j \in 1 .. Len(queue[u])
            <4>1. queue[u] \in Seq(Batch)
                BY <1>3
            <4> QED BY <4>1
        <3> QED BY <3>3, <3>4
    <2>2. CASE u = user
        <3>1. j # 1
            BY <1>2, <2>1, <2>2 DEF Oldest
        <3>2. j - 1 \in 1 .. Len(queue[user]) - 1 /\ (j - 1) + 1 = j
            BY <1>3, <2>2, <3>1
        <3>3. queue'[user][j - 1] = queue[user][j]
            BY <1>1, <3>2
        <3> QED BY <1>1, <2>1, <2>2, <3>2, <3>3
    <2>3. CASE u # user
        BY <1>1, <2>1, <2>3
    <2> QED BY <2>2, <2>3
<1> QED BY <1>4, <1>6, <1>7 DEF DiskInv

----------------------------------------------------------------------------
\* What most steps need of the state they start from.
LEMMA Current ==
    ASSUME WriteInv
    PROVE  /\ StreamInv /\ DiskInv /\ HistoryInv
           /\ \A u \in Users :
                 /\ queue[u] \in Seq(Batch) /\ Ascending(queue[u])
                 /\ \A i \in 1 .. Len(queue[u]) : queue[u][i].id >= 1
           /\ user \in Users
           /\ pipeline \in Seq(Batch) /\ IsPrefix(pipeline, queue[user])
           /\ Len(pipeline) <= kMaxPendingWrites /\ Len(pipeline) <= Len(queue[user])
           /\ handshake => Matches(pipeline, requests, responses)
<1>1. StreamInv /\ DiskInv /\ HistoryInv
    BY ThreeParts
<1>2. user \in Users /\ \A u \in Users : queue[u] \in Seq(Batch)
    BY <1>1 DEF DiskInv, DiskTyped
<1>3. \A u \in Users : /\ Ascending(queue[u])
                       /\ \A i \in 1 .. Len(queue[u]) : queue[u][i].id >= 1
    BY <1>1 DEF DiskInv, QueueSound, BatchOf, BatchIn
<1>4. pipeline \in Seq(Batch) /\ IsPrefix(pipeline, queue[user])
      /\ Len(pipeline) = Least(kMaxPendingWrites, Len(queue[user]))
    BY <1>1 DEF StreamInv, StreamTyped, PipelineIsOldest
<1>5. Len(pipeline) <= kMaxPendingWrites /\ Len(pipeline) <= Len(queue[user])
    BY <1>2, <1>4, PipelineAssumption DEF Least
<1>6. handshake => Matches(pipeline, requests, responses)
    BY <1>1, MatchesPipeline DEF StreamInv, HistoryInv, HistoryTyped
<1> QED BY <1>1, <1>2, <1>3, <1>4, <1>5, <1>6

\* The streams torn down and started again over the queue of a user.
LEMMA Reset ==
    ASSUME WriteInv, NEW u \in Users, user' = u, queue' = queue,
           NEW s \in {"Initial", "Error"},
           FillWritePipeline(queue[u], <<>>, s, FALSE, <<>>, FALSE),
           handshake' = FALSE, CallDestroyed
    PROVE  StreamInv'
<1>1. PICK ready \in BOOLEAN : ready = FALSE
    OBVIOUS
<1>2. PICK p \in Seq(Batch) : p = <<>>
    <2>1. <<>> \in Seq(Batch)
        OBVIOUS
    <2> QED BY <2>1, Zenon
<1>3. PICK q \in Seq(Batch) : q = queue[u]
    BY Current
<1>4. FillWritePipeline(q, p, s, ready, <<>>, FALSE)
    BY <1>1, <1>2, <1>3, Zenon
<1>5. Ascending(q) /\ \A i \in 1 .. Len(q) : q[i].id >= 1
    BY <1>3, Current
<1>6. IsPrefix(p, q) /\ Len(p) <= kMaxPendingWrites /\ q = queue'[user']
    BY <1>2, <1>3, PipelineAssumption DEF IsPrefix
<1> QED BY <1>4, <1>5, <1>6, Restarted, Zenon

\* The ids given out after the mutation queue was loaded are above all ids in it.
LEMMA Reloaded ==
    ASSUME DiskInv, UNCHANGED <<queue, written, told>>, user' \in Users,
           callbacks' \in [Users -> SUBSET Batch],
           \A u \in Users : callbacks'[u] \subseteq callbacks[u],
           \/ nextBatchId' = nextBatchId
           \/ \E n \in 1 .. MaxWrites + 1 : IsNextBatchId(n) /\ nextBatchId' = n
    PROVE  DiskInv'
<1>1. nextBatchId' \in Nat
    BY PipelineAssumption DEF DiskInv, DiskTyped
<1>2. \A u \in Users : \A i \in 1 .. Len(queue[u]) : queue[u][i].id < nextBatchId'
    <2>1. ASSUME NEW n \in 1 .. MaxWrites + 1, IsNextBatchId(n), nextBatchId' = n,
                 NEW u \in Users, NEW i \in 1 .. Len(queue[u])
          PROVE  queue[u][i].id < nextBatchId'
        <3>1. queue[u] \in Seq(Batch)
            BY DEF DiskInv, DiskTyped
        <3>2. i \in DOMAIN queue[u]
            BY <3>1
        <3> QED BY <2>1, <3>2 DEF IsNextBatchId
    <2>2. CASE nextBatchId' = nextBatchId
        BY <2>2 DEF DiskInv, QueueSound, BatchOf, BatchIn
    <2> QED BY <2>1, <2>2
<1>3. DiskTyped'
    BY <1>1 DEF DiskInv, DiskTyped
<1>4. QueueSound'
    BY <1>2 DEF DiskInv, QueueSound, BatchOf, BatchIn
<1>5. HandlersHaveBatches'
    BY DEF DiskInv, HandlersHaveBatches
<1> QED BY <1>3, <1>4, <1>5 DEF DiskInv

LEMMA HandleCredentialChangeKeeps ==
    ASSUME WriteInv, NEW u \in Users, HandleCredentialChange(u)
    PROVE  WriteInv'
<1>1. /\ queue' = queue /\ callbacks' = callbacks /\ user' = u
      /\ UNCHANGED <<cache, log, written, refused, told>> /\ refusal' = 0
      /\ faults' = faults + 1
      /\ \/ nextBatchId' = nextBatchId
         \/ \E n \in 1 .. MaxWrites + 1 : IsNextBatchId(n) /\ nextBatchId' = n
    BY Zenon DEF HandleCredentialChange, CallDestroyed, store
<1>2. StreamInv'
    <2>1. Stopped(state) \in {"Initial", "Error"}
        BY Current DEF StreamInv, StreamTyped, StreamStates, Stopped, IsStarted
    <2>2. handshake' = FALSE
        <3>1. handshake \in BOOLEAN /\ (handshake => IsStarted(state))
            BY Current DEF StreamInv, StreamTyped, StreamSound, IsStarted
        <3>2. handshake' = IF IsStarted(state) THEN FALSE ELSE handshake
            BY Zenon DEF HandleCredentialChange
        <3> QED BY <3>1, <3>2, Zenon
    <2>3. FillWritePipeline(queue[u], <<>>, Stopped(state), FALSE, <<>>, FALSE)
          /\ CallDestroyed
        BY Zenon DEF HandleCredentialChange
    <2> QED BY <1>1, <2>1, <2>2, <2>3, Reset, Zenon
<1>3. DiskInv'
    BY <1>1, Current, Reloaded DEF DiskInv, DiskTyped
<1>4. HistoryInv'
    <2>1. faults' \in Nat
        BY <1>1, Current DEF HistoryInv, HistoryTyped
    <2> QED BY <1>1, <2>1, Current, SameHistory
<1> QED BY <1>2, <1>3, <1>4, ThreeParts, PTL

LEMMA RelaunchKeeps ==
    ASSUME WriteInv, Relaunch
    PROVE  WriteInv'
<1>1. /\ queue' = queue /\ callbacks' = [u \in Users |-> {}] /\ user' = user
      /\ UNCHANGED <<cache, log, written, refused, told>> /\ refusal' = 0
      /\ faults' = faults + 1
      /\ \E n \in 1 .. MaxWrites + 1 : IsNextBatchId(n) /\ nextBatchId' = n
    BY Zenon DEF Relaunch, CallDestroyed, store
<1>2. StreamInv'
    <2>1. FillWritePipeline(queue[user], <<>>, "Initial", FALSE, <<>>, FALSE)
          /\ CallDestroyed /\ handshake' = FALSE
        BY Zenon DEF Relaunch
    <2>2. "Initial" \in {"Initial", "Error"} /\ user \in Users
        BY Current
    <2> QED BY <1>1, <2>1, <2>2, Reset, Zenon
<1>3. DiskInv'
    BY <1>1, Current, Reloaded
<1>4. HistoryInv'
    <2>1. faults' \in Nat
        BY <1>1, Current DEF HistoryInv, HistoryTyped
    <2> QED BY <1>1, <2>1, Current, SameHistory
<1> QED BY <1>2, <1>3, <1>4, ThreeParts, PTL

----------------------------------------------------------------------------
LEMMA WriteMutationsKeeps ==
    ASSUME WriteInv, NEW k \in Keys, WriteMutations(k)
    PROVE  WriteInv'
<1> DEFINE w == Len(written) + 1
           b == [id |-> nextBatchId, write |-> w]
           q == Append(queue[user], b)
<1>1. /\ Len(written) < MaxWrites
      /\ queue' = [queue EXCEPT ![user] = q]
      /\ callbacks' = [callbacks EXCEPT ![user] = callbacks[user] \cup {b}]
      /\ written' = Append(written, [user |-> user, key |-> k])
      /\ nextBatchId' = nextBatchId + 1
      /\ FillWritePipeline(queue'[user], pipeline, state, handshake, requests, idle)
      /\ UNCHANGED <<cache, user, handshake, hello, responses, refusal, log,
                     refused, told, faults>>
    BY Zenon DEF WriteMutations
<1>2. /\ user \in Users /\ nextBatchId \in Nat /\ queue \in [Users -> Seq(Batch)]
      /\ callbacks \in [Users -> SUBSET Batch]
      /\ written \in Seq([user : Users, key : Keys]) /\ Len(written) \in Nat
      /\ log \in Seq(Commit) /\ told \in [Writes -> {"none", "ok", "error"}]
    BY DEF WriteInv, TypeOK
<1>3. w \in Writes /\ w = Len(written) + 1 /\ w <= MaxWrites
    BY <1>1, <1>2, PipelineAssumption DEF Writes
<1>4. b \in Batch /\ b.id = nextBatchId /\ b.write = w
    BY <1>2, <1>3 DEF Batch
<1>5. /\ q \in Seq(Batch) /\ Len(q) = Len(queue[user]) + 1 /\ q[Len(q)] = b
      /\ \A i \in 1 .. Len(queue[user]) : q[i] = queue[user][i]
    BY <1>2, <1>4
<1>6. /\ written' \in Seq([user : Users, key : Keys]) /\ Len(written') = w
      /\ \A i \in 1 .. Len(written) : written'[i] = written[i]
      /\ written'[w].user = user
    BY <1>1, <1>2
<1> HIDE DEF w, b, q
<1>7. queue' \in [Users -> Seq(Batch)] /\ queue'[user] = q
      /\ \A u \in Users : u # user => queue'[u] = queue[u]
    BY <1>1, <1>2, <1>5
<1>7a. ASSUME NEW u \in Users, NEW i \in 1 .. Len(queue[u])
       PROVE  i \in 1 .. Len(queue'[u]) /\ queue'[u][i] = queue[u][i]
    <2>1. CASE u = user
        <3>1. i \in 1 .. Len(queue[user]) /\ Len(queue[user]) \in Nat
            BY <1>2, <1>7a, <2>1
        <3>2. i \in 1 .. Len(q)
            BY ONLY <1>5, <3>1
        <3> QED BY <1>5, <1>7, <2>1, <3>1, <3>2
    <2>2. CASE u # user
        BY <1>7, <1>7a, <2>2
    <2> QED BY <2>1, <2>2
<1>8. told[w] = "none"
    <2>1. \A v \in Writes : told[v] # "none" => v <= Len(written)
        BY Current DEF HistoryInv, ServerSound
    <2> QED BY <1>2, <1>3, <2>1
<1>9. \A u \in Users : \A i \in 1 .. Len(queue[u]) :
         /\ queue[u][i] \in Batch /\ queue[u][i].id \in Nat /\ queue[u][i].write \in Nat
         /\ BatchIn(u, queue[u][i], nextBatchId, written, told)
    BY <1>2, Elements DEF WriteInv, QueueSound, BatchOf, Writes
<1>10. nextBatchId >= 1
    BY DEF WriteInv, QueueSound
<1>11. Ascending(q)
    <2> SUFFICES ASSUME NEW i \in 1 .. Len(q), NEW j \in 1 .. Len(q), i < j
                 PROVE  q[i].id < q[j].id /\ q[i].write < q[j].write
        BY DEF Ascending
    <2>1. i \in 1 .. Len(queue[user])
        BY <1>2, <1>5
    <2>2. CASE j \in 1 .. Len(queue[user])
        <3>1. Ascending(queue[user])
            BY <1>2, Current
        <3>2. queue[user][i].id < queue[user][j].id
              /\ queue[user][i].write < queue[user][j].write
            BY <2>1, <2>2, <3>1 DEF Ascending
        <3> QED BY <1>5, <2>1, <2>2, <3>2
    <2>3. CASE j \notin 1 .. Len(queue[user])
        <3>1. q[j] = b
            <4>1. j \in 1 .. Len(q) /\ Len(queue[user]) \in Nat
                BY <1>2
            <4>2. j = Len(q)
                BY ONLY <1>5, <2>3, <4>1
            <4> QED BY <1>5, <4>2
        <3>2. q[i].id < nextBatchId /\ q[i].write <= Len(written) /\ q[i].write \in Nat
            BY <1>2, <1>5, <1>9, <2>1 DEF BatchIn
        <3> QED BY <1>2, <1>3, <1>4, <3>1, <3>2
    <2> QED BY <2>2, <2>3
<1>12. ASSUME NEW u \in Users, NEW x \in Batch,
              x.id \in Nat, x.write \in Nat, x.write >= 1,
              BatchIn(u, x, nextBatchId, written, told)
       PROVE  BatchIn(u, x, nextBatchId', written', told')
    <2>1. x.write \in 1 .. Len(written)
        BY <1>2, <1>12 DEF BatchIn
    <2> QED BY <1>1, <1>2, <1>3, <1>6, <1>12, <2>1 DEF BatchIn
<1>13. BatchIn(user, b, nextBatchId', written', told')
    BY <1>1, <1>2, <1>3, <1>4, <1>6, <1>8, <1>10 DEF BatchIn
<1>14. ASSUME NEW u \in Users, NEW i \in 1 .. Len(queue'[u])
       PROVE  BatchIn(u, queue'[u][i], nextBatchId', written', told')
    <2>1. CASE u = user /\ i = Len(q)
        BY <1>5, <1>7, <1>13, <2>1
    <2>2. CASE ~(u = user /\ i = Len(q))
        <3>1. i \in 1 .. Len(queue[u]) /\ queue'[u][i] = queue[u][i]
            <4>1. CASE u = user
                <5>1. i \in 1 .. Len(q) /\ i # Len(q) /\ Len(queue[user]) \in Nat
                      /\ Len(q) = Len(queue[user]) + 1
                    BY <1>2, <1>5, <1>7, <1>14, <2>2, <4>1
                <5>2. i \in 1 .. Len(queue[user])
                    BY ONLY <5>1
                <5> QED BY <1>5, <1>7, <4>1, <5>2
            <4>2. CASE u # user
                BY <1>7, <1>14, <4>2
            <4> QED BY <4>1, <4>2
        <3>2. queue[u][i].write >= 1
            BY <1>2, <3>1, Elements DEF Writes
        <3> QED BY <1>9, <1>12, <3>1, <3>2
    <2> QED BY <2>1, <2>2
<1>15. DiskInv'
    <2>1. DiskTyped'
        BY <1>1, <1>2, <1>4, <1>7 DEF DiskTyped
    <2>2. QueueSound'
        <3>1. \A u \in Users : Ascending(queue'[u])
            BY <1>7, <1>11, Current
        <3>2. nextBatchId' >= 1
            BY <1>1, <1>2, <1>10
        <3> QED BY <1>14, <3>1, <3>2 DEF QueueSound, BatchOf
    <2>3. HandlersHaveBatches'
        <3> SUFFICES ASSUME NEW u \in Users, NEW c \in callbacks'[u]
                     PROVE  \E i \in 1 .. Len(queue'[u]) : queue'[u][i] = c
            BY <1>7 DEF HandlersHaveBatches
        <3>1. CASE c \in callbacks[u]
            <4>1. PICK i \in 1 .. Len(queue[u]) : queue[u][i] = c
                BY <1>2, <3>1 DEF WriteInv, PipelineConsistent, HandlersHaveBatches
            <4>2. i \in 1 .. Len(queue'[u]) /\ queue'[u][i] = queue[u][i]
                BY <1>7a
            <4> QED BY <4>1, <4>2
        <3>2. CASE c \notin callbacks[u]
            <4>1. u = user /\ c = b
                BY <1>1, <1>2, <3>2
            <4>2. Len(q) \in 1 .. Len(q)
                BY <1>2, <1>5
            <4> QED BY <1>5, <1>7, <4>1, <4>2
        <3> QED BY <3>1, <3>2
    <2> QED BY <2>1, <2>2, <2>3 DEF DiskInv
<1>16. StreamInv'
    <2>1. StreamTyped /\ StreamSound /\ StreamWhenNeeded
        BY Current DEF StreamInv
    <2>2. /\ q \in Seq(Batch) /\ q = queue'[user'] /\ Ascending(q)
          /\ \A i \in 1 .. Len(q) : q[i].id >= 1
        BY <1>1, <1>2, <1>5, <1>7, <1>11, <1>14 DEF BatchIn
    <2>3. pipeline \in Seq(Batch) /\ IsPrefix(pipeline, q)
          /\ Len(pipeline) <= kMaxPendingWrites
        <3>1. pipeline \in Seq(Batch) /\ IsPrefix(pipeline, queue[user])
              /\ Len(pipeline) <= kMaxPendingWrites
            BY Current
        <3>2. /\ Len(pipeline) <= Len(queue[user])
              /\ \A i \in 1 .. Len(pipeline) : pipeline[i] = queue[user][i]
            BY <3>1 DEF IsPrefix
        <3>3. Len(pipeline) \in Nat /\ Len(queue[user]) \in Nat
            BY <1>2, <3>1
        <3>4. Len(pipeline) <= Len(q)
              /\ \A i \in 1 .. Len(pipeline) : i \in 1 .. Len(queue[user])
            BY ONLY <1>5, <3>2, <3>3
        <3>5. \A i \in 1 .. Len(pipeline) : pipeline[i] = q[i]
            BY <1>5, <3>2, <3>4
        <3> QED BY <3>1, <3>4, <3>5 DEF IsPrefix
    <2>4. responses \in Seq(Nat) /\ (handshake => Matches(pipeline, requests, responses))
          /\ (~handshake => responses = <<>>)
        BY <2>1, Current DEF StreamTyped, StreamSound
    <2>5. /\ idle => pipeline = <<>> /\ handshake
          /\ state = "Open" /\ ~handshake => pipeline # <<>>
          /\ pipeline = <<>> => state \notin {"Starting", "Backoff"}
        BY <2>1 DEF StreamSound, StreamWhenNeeded
    <2>6. FillWritePipeline(q, pipeline, state, handshake, requests, idle)
        BY <1>1, <1>7, Zenon
    <2>7. responses' = responses /\ UNCHANGED <<handshake, hello, refusal, log>>
        BY <1>1
    <2> QED BY ONLY <1>2, <2>1, <2>2, <2>3, <2>4, <2>5, <2>6, <2>7, Continued, Zenon
<1>17. HistoryInv'
    <2>1. HistoryTyped'
        BY <1>1, <1>2, <1>3, <1>6, Current DEF HistoryInv, HistoryTyped
    <2>2. ServerSound'
        <3>0. \A v \in 1 .. Len(log) : v \in DOMAIN log
            BY <1>2
        <3>1. ServerSound /\ \A v \in 1 .. Len(log) : log[v].write \in Nat
            BY <1>2, <3>0, Current, CommitWrite DEF HistoryInv
        <3>2. /\ log' = log /\ refused' = refused /\ refusal' = refusal
              /\ cache' = cache /\ told' = told
            BY <1>1
        <3>3. \A v \in 1 .. Len(log) : log[v].write <= Len(written')
            BY <1>2, <1>3, <1>6, <3>1 DEF ServerSound
        <3>4. \A v \in Writes : told[v] # "none" => v <= Len(written')
            <4>1. \A v \in Writes : told[v] # "none" => v <= Len(written)
                BY <3>1 DEF ServerSound
            <4> QED BY <1>2, <1>3, <1>6, <4>1 DEF Writes
        <3>5. \A v \in refused : v <= Len(written')
            <4>1. refused \subseteq Writes
                BY Current DEF HistoryInv, HistoryTyped
            <4> QED BY <1>2, <1>3, <1>6, <3>1, <4>1 DEF ServerSound, Writes
        <3> QED BY <3>1, <3>2, <3>3, <3>4, <3>5 DEF ServerSound
    <2>3. NoWriteLost'
        <3> SUFFICES ASSUME NEW v \in 1 .. w
                     PROVE  \/ Queued(written[v].user, v)'
                            \/ Committed(v)'
                            \/ v \in refused
            BY <1>1, <1>6 DEF NoWriteLost
        <3>1. CASE v \in 1 .. Len(written)
            <4>1. /\ written'[v].user = written[v].user /\ written[v].user \in Users
                  /\ v \in DOMAIN written
                <5>1. written[v] \in [user : Users, key : Keys] /\ v \in DOMAIN written
                    BY ONLY <1>2, <3>1, Element
                <5> QED BY <1>6, <3>1, <5>1
            <4>2. Queued(written[v].user, v) \/ Committed(v) \/ v \in refused
                BY <4>1, Current DEF HistoryInv, KeptInOrder, NoWriteLost
            <4>3. ASSUME Queued(written[v].user, v) PROVE Queued(written[v].user, v)'
                <5>1. PICK i \in 1 .. Len(queue[written[v].user]) :
                        queue[written[v].user][i].write = v
                    BY <1>2, <4>1, <4>3 DEF Queued
                <5>2. i \in DOMAIN queue'[written[v].user]
                      /\ queue'[written[v].user][i].write = v
                    BY <1>7, <1>7a, <4>1, <5>1
                <5> QED BY <4>1, <5>2 DEF Queued
            <4> QED BY <1>1, <4>2, <4>3 DEF Committed
        <3>2. CASE v \notin 1 .. Len(written)
            <4>1. v = w
                BY <1>2, <1>3, <3>2
            <4>2. Len(q) \in DOMAIN q
                BY <1>2, <1>5
            <4> QED BY <1>4, <1>5, <1>6, <1>7, <4>1, <4>2 DEF Queued
        <3> QED BY <3>1, <3>2
    <2>4. CommittedInOrder'
        <3> SUFFICES ASSUME NEW v \in DOMAIN log, NEW x \in 1 .. log[v].write - 1,
                            written'[x].user = written'[log[v].write].user
                     PROVE  x \in refused \/ \E n \in 1 .. v - 1 : log[n].write = x
            <4>1. log' = log /\ refused' = refused
                BY <1>1
            <4> QED BY <4>1 DEF CommittedInOrder
        <3>1. log[v].write \in Nat /\ log[v].write <= Len(written)
            BY <1>2, Current, CommitWrite DEF HistoryInv, ServerSound
        <3>2. x \in 1 .. Len(written) /\ log[v].write \in 1 .. Len(written)
            BY <1>2, <3>1
        <3> QED BY <1>6, <3>2, Current DEF HistoryInv, KeptInOrder, CommittedInOrder
    <2>5. ToldTheTruth'
        <3> SUFFICES ASSUME NEW v \in Writes
                     PROVE  /\ told[v] = "ok" => Committed(v)
                            /\ told[v] = "error" =>
                                  v \in refused \/ (Committed(v) /\ ChargedForLater(v)')
            BY <1>1 DEF ToldTheTruth, Committed
        <3>1. told[v] # "none" => v \in 1 .. Len(written)
            BY <1>2, Current DEF HistoryInv, ServerSound, Writes
        <3>2. ASSUME told[v] # "none", ChargedForLater(v) PROVE ChargedForLater(v)'
            <4>1. PICK x \in refused : x > v /\ written[x].user = written[v].user
                BY <3>2 DEF ChargedForLater
            <4>2. x \in 1 .. Len(written)
                BY Current DEF HistoryInv, HistoryTyped, ServerSound, Writes
            <4>3. written'[x] = written[x] /\ written'[v] = written[v]
                BY <1>6, <3>1, <3>2, <4>2
            <4> QED BY <1>1, <4>1, <4>3 DEF ChargedForLater
        <3> QED BY <3>2, Current DEF HistoryInv, ToldTheTruth
    <2> QED BY <2>1, <2>2, <2>3, <2>4, <2>5 DEF HistoryInv, KeptInOrder
<1> QED BY <1>15, <1>16, <1>17, ThreeParts, PTL

----------------------------------------------------------------------------
\* Steps of the stream alone: they leave the disk and the history as they are.
StreamStep == UNCHANGED <<queue, callbacks, user, nextBatchId, written, told,
                          cache, log, refused>>

LEMMA StreamStepKeeps ==
    ASSUME WriteInv, StreamStep, StreamInv', refusal' \in {0, refusal}, faults' \in Nat
    PROVE  WriteInv'
<1>1. DiskInv' /\ HistoryInv'
    BY Current, SameDisk, SameHistory DEF StreamStep
<1> QED BY <1>1, ThreeParts, PTL

LEMMA ResumeStartWithCredentialsKeeps ==
    ASSUME WriteInv, ResumeStartWithCredentials PROVE WriteInv'
<1>1. /\ StreamInv /\ state = "Starting" /\ state' = "Open" /\ hello' = "asked"
      /\ UNCHANGED <<pipeline, handshake, idle, requests, responses, refusal, queue,
                     user, log, faults>>
      /\ StreamStep
    BY Current DEF ResumeStartWithCredentials, StreamStep, store, client, history
<1>2. StreamTyped'
    BY <1>1 DEF StreamInv, StreamTyped, StreamStates
<1>3. StreamSound' /\ StreamWhenNeeded'
    BY <1>1 DEF StreamInv, StreamSound, StreamWhenNeeded, IsStarted
<1>4. PipelineIsOldest' /\ AnswersMatchPipeline'
    BY <1>1 DEF StreamInv, PipelineIsOldest, AnswersMatchPipeline
<1>5. faults' \in Nat
    BY <1>1, Current DEF HistoryInv, HistoryTyped
<1> QED BY <1>1, <1>2, <1>3, <1>4, <1>5, StreamStepKeeps DEF StreamInv

LEMMA OnWriteStreamHandshakeCompleteKeeps ==
    ASSUME WriteInv, OnWriteStreamHandshakeComplete PROVE WriteInv'
<1>1. /\ StreamInv /\ state = "Open" /\ ~handshake /\ handshake' = TRUE
      /\ requests' = requests \o pipeline /\ idle' = (idle /\ pipeline = <<>>)
      /\ UNCHANGED <<pipeline, state, hello, responses, refusal, queue,
                     user, log, faults>>
      /\ StreamStep
    BY Current DEF OnWriteStreamHandshakeComplete, StreamStep, store, client, history
<1>2. /\ requests = <<>> /\ responses = <<>> /\ refusal = 0 /\ pipeline # <<>>
      /\ pipeline \in Seq(Batch)
    BY <1>1 DEF StreamInv, StreamSound, StreamTyped
<1>3. requests' = pipeline
    BY <1>1, <1>2
<1>4. ~idle' /\ idle' \in BOOLEAN
    BY <1>1, <1>2, Zenon
<1>5. StreamTyped'
    <2>1. /\ pipeline' \in Seq(Batch) /\ state' \in StreamStates
          /\ hello' \in {"none", "asked", "answered"}
          /\ requests' \in Seq(Batch) /\ responses' \in Seq(Nat)
          /\ refusal' \in 0 .. MaxWrites
        BY <1>1, <1>2, <1>3 DEF StreamInv, StreamTyped
    <2>2. handshake' \in BOOLEAN
        BY <1>1, Zenon
    <2> QED BY <1>4, <2>1, <2>2, Zenon DEF StreamTyped
<1>6. StreamSound' /\ StreamWhenNeeded'
    BY <1>1, <1>2, <1>4 DEF StreamInv, StreamSound, StreamWhenNeeded, IsStarted
<1>7. PipelineIsOldest'
    BY <1>1 DEF StreamInv, PipelineIsOldest
<1>8. AnswersMatchPipeline'
    BY <1>1, <1>2, <1>3 DEF AnswersMatchPipeline
<1>9. faults' \in Nat
    BY <1>1, Current DEF HistoryInv, HistoryTyped
<1> QED BY <1>1, <1>5, <1>6, <1>7, <1>8, <1>9, StreamStepKeeps DEF StreamInv

LEMMA OnWriteStreamErrorKeeps ==
    ASSUME WriteInv, OnWriteStreamError PROVE WriteInv'
<1>1. /\ StreamInv
      /\ state' = IF pipeline # <<>> THEN "Backoff" ELSE "Error"
      /\ handshake' = FALSE /\ idle' = FALSE
      /\ hello' = "none" /\ responses' = <<>> /\ refusal' = 0 /\ requests' = <<>>
      /\ UNCHANGED <<pipeline, queue, user, log>> /\ faults' = faults + 1
      /\ StreamStep
    BY Current DEF OnWriteStreamError, CallDestroyed, Started, StreamStep, store, client
<1>2. StreamTyped'
    <2>1. /\ pipeline' \in Seq(Batch) /\ state' \in StreamStates
          /\ hello' \in {"none", "asked", "answered"}
          /\ requests' \in Seq(Batch) /\ responses' \in Seq(Nat)
          /\ refusal' \in 0 .. MaxWrites
        BY <1>1, PipelineAssumption DEF StreamInv, StreamTyped, StreamStates
    <2>2. handshake' \in BOOLEAN /\ idle' \in BOOLEAN
        BY <1>1, Zenon
    <2> QED BY <2>1, <2>2, Zenon DEF StreamTyped
<1>3. StreamSound' /\ StreamWhenNeeded'
    BY <1>1 DEF StreamSound, StreamWhenNeeded, IsStarted
<1>4. PipelineIsOldest' /\ AnswersMatchPipeline'
    BY <1>1 DEF StreamInv, PipelineIsOldest, AnswersMatchPipeline
<1>5. faults' \in Nat
    BY <1>1, Current DEF HistoryInv, HistoryTyped
<1> QED BY <1>1, <1>2, <1>3, <1>4, <1>5, StreamStepKeeps DEF StreamInv

LEMMA BackoffElapsesKeeps ==
    ASSUME WriteInv, BackoffElapses PROVE WriteInv'
<1>1. /\ StreamInv /\ state = "Backoff" /\ state' = "Starting"
      /\ UNCHANGED <<pipeline, handshake, idle, hello, requests, responses, refusal,
                     queue, user, log, faults>>
      /\ StreamStep
    BY Current DEF BackoffElapses, StreamStep, store, client, call, history
<1>2. StreamTyped'
    BY <1>1 DEF StreamInv, StreamTyped, StreamStates
<1>3. StreamSound' /\ StreamWhenNeeded'
    BY <1>1 DEF StreamInv, StreamSound, StreamWhenNeeded, IsStarted
<1>4. PipelineIsOldest' /\ AnswersMatchPipeline'
    BY <1>1 DEF StreamInv, PipelineIsOldest, AnswersMatchPipeline
<1>5. faults' \in Nat
    BY <1>1, Current DEF HistoryInv, HistoryTyped
<1> QED BY <1>1, <1>2, <1>3, <1>4, <1>5, StreamStepKeeps DEF StreamInv

LEMMA IdleElapsesKeeps ==
    ASSUME WriteInv, IdleElapses PROVE WriteInv'
<1>1. /\ StreamInv /\ idle /\ state' = Stopped(state)
      /\ handshake' = FALSE /\ idle' = FALSE
      /\ hello' = "none" /\ responses' = <<>> /\ refusal' = 0 /\ requests' = <<>>
      /\ UNCHANGED <<pipeline, queue, user, log, faults>>
      /\ StreamStep
    BY Current DEF IdleElapses, CallDestroyed, StreamStep, store, client, history
<1>2. pipeline = <<>> /\ state' = "Initial"
    BY <1>1 DEF StreamInv, StreamSound, StreamWhenNeeded, Stopped, IsStarted
<1>3. StreamTyped'
    <2>1. /\ pipeline' \in Seq(Batch) /\ state' \in StreamStates
          /\ hello' \in {"none", "asked", "answered"}
          /\ requests' \in Seq(Batch) /\ responses' \in Seq(Nat)
          /\ refusal' \in 0 .. MaxWrites
        BY <1>1, <1>2, PipelineAssumption DEF StreamInv, StreamTyped, StreamStates
    <2>2. handshake' \in BOOLEAN /\ idle' \in BOOLEAN
        BY <1>1, Zenon
    <2> QED BY <2>1, <2>2, Zenon DEF StreamTyped
<1>4. StreamSound' /\ StreamWhenNeeded'
    BY <1>1, <1>2 DEF StreamSound, StreamWhenNeeded
<1>5. PipelineIsOldest' /\ AnswersMatchPipeline'
    BY <1>1 DEF StreamInv, PipelineIsOldest, AnswersMatchPipeline
<1>6. faults' \in Nat
    BY <1>1, Current DEF HistoryInv, HistoryTyped
<1> QED BY <1>1, <1>3, <1>4, <1>5, <1>6, StreamStepKeeps DEF StreamInv

LEMMA ServerHandshakeKeeps ==
    ASSUME WriteInv, ServerHandshake PROVE WriteInv'
<1>1. /\ StreamInv /\ hello' = "answered"
      /\ UNCHANGED <<pipeline, state, handshake, idle, requests, responses, refusal,
                     queue, user, log, faults>>
      /\ StreamStep
    BY Current DEF ServerHandshake, StreamStep, store, client, stream, history
<1>2. StreamInv'
    BY <1>1 DEF StreamInv, StreamTyped, StreamSound, StreamWhenNeeded,
               PipelineIsOldest, AnswersMatchPipeline
<1>3. faults' \in Nat
    BY <1>1, Current DEF HistoryInv, HistoryTyped
<1> QED BY <1>1, <1>2, <1>3, StreamStepKeeps

----------------------------------------------------------------------------
\* The server commits c: nothing that was true of its log before is undone.
LEMMA LogGrows ==
    ASSUME HistoryInv, NEW c \in Commit, log' = Append(log, c), c.write <= Len(written),
           \A w \in 1 .. c.write - 1 :
              written[w].user = written[c.write].user => w \in refused \/ Committed(w),
           UNCHANGED <<queue, cache, written, refused, told, faults, refusal>>
    PROVE  /\ HistoryInv'
           /\ Len(log') = Len(log) + 1
           /\ \A v \in 1 .. Len(log) : v \in 1 .. Len(log') /\ log'[v] = log[v]
<1>1. /\ log \in Seq(Commit) /\ Len(log) \in Nat /\ DOMAIN log = 1 .. Len(log)
      /\ \A v \in DOMAIN log : log[v].write \in Nat
    <2>1. log \in Seq(Commit)
        BY DEF HistoryInv, HistoryTyped
    <2> QED BY <2>1, CommitWrite
<1>2. /\ log' \in Seq(Commit) /\ Len(log') = Len(log) + 1
      /\ DOMAIN log' = 1 .. Len(log) + 1
      /\ log'[Len(log) + 1] = c
      /\ \A v \in 1 .. Len(log) : log'[v] = log[v]
    BY <1>1
<1>3. \A v \in 1 .. Len(log) : v \in 1 .. Len(log')
    BY <1>1, <1>2
<1>4. HistoryTyped'
    BY <1>2 DEF HistoryInv, HistoryTyped
<1>5. ServerSound'
    <2>1. \A v \in 1 .. Len(log') : log'[v].write <= Len(written)
        <3> SUFFICES ASSUME NEW v \in 1 .. Len(log') PROVE log'[v].write <= Len(written)
            OBVIOUS
        <3>1. CASE v \in 1 .. Len(log)
            BY <1>2, <3>1 DEF HistoryInv, ServerSound
        <3>2. CASE v \notin 1 .. Len(log)
            <4>1. v = Len(log) + 1
                BY <1>1, <1>2, <3>2
            <4> QED BY <1>2, <4>1
        <3> QED BY <3>1, <3>2
    <2>2. \A k \in Keys : cache[k].version <= Len(log')
        <3>1. \A k \in Keys : cache[k].version <= Len(log) /\ cache[k].version \in Nat
            BY DEF HistoryInv, HistoryTyped, ServerSound
        <3> QED BY <1>1, <1>2, <3>1
    <2> QED BY <2>1, <2>2 DEF HistoryInv, ServerSound
<1>6. ASSUME NEW w, Committed(w) PROVE Committed(w)'
    BY <1>1, <1>2, <1>3, <1>6 DEF Committed
<1>7. NoWriteLost'
    BY <1>6 DEF HistoryInv, KeptInOrder, NoWriteLost, Queued
<1>8. CommittedInOrder'
    <2> SUFFICES ASSUME NEW v \in DOMAIN log', NEW w \in 1 .. log'[v].write - 1,
                        written[w].user = written[log'[v].write].user
                 PROVE  w \in refused \/ \E n \in 1 .. v - 1 : log'[n].write = w
        <3>1. written' = written /\ refused' = refused
            OBVIOUS
        <3> QED BY <3>1 DEF CommittedInOrder
    <2>1. CASE v \in DOMAIN log
        <3>1. w \in refused \/ \E n \in 1 .. v - 1 : log[n].write = w
            <4>1. log'[v] = log[v]
                BY <1>1, <1>2, <2>1
            <4> QED BY <2>1, <4>1 DEF HistoryInv, KeptInOrder, CommittedInOrder
        <3>2. \A n \in 1 .. v - 1 : log'[n] = log[n]
            BY <1>1, <1>2, <2>1
        <3> QED BY <3>1, <3>2
    <2>2. CASE v \notin DOMAIN log
        <3>1. v = Len(log) + 1 /\ log'[v] = c
            BY <1>1, <1>2, <2>2
        <3>2. w \in refused \/ Committed(w)
            BY <3>1
        <3>3. ASSUME Committed(w) PROVE \E n \in 1 .. v - 1 : log'[n].write = w
            <4>1. PICK n \in 1 .. Len(log) : log[n].write = w
                BY <1>1, <3>3 DEF Committed
            <4>2. n \in 1 .. v - 1
                BY <1>1, <3>1
            <4> QED BY <1>2, <4>1, <4>2
        <3> QED BY <3>2, <3>3
    <2> QED BY <2>1, <2>2
<1>9. ToldTheTruth'
    BY <1>6 DEF HistoryInv, ToldTheTruth, ChargedForLater
<1> QED BY <1>2, <1>3, <1>4, <1>5, <1>7, <1>8, <1>9 DEF HistoryInv, KeptInOrder

LEMMA ForeignWriteKeeps ==
    ASSUME WriteInv, NEW k \in Keys, ForeignWrite(k) PROVE WriteInv'
<1> DEFINE c == [key |-> k, write |-> 0]
<1>1. /\ log' = Append(log, c)
      /\ UNCHANGED <<queue, cache, user, nextBatchId, callbacks, pipeline, state,
                     handshake, idle, hello, requests, responses, refusal, written,
                     refused, told, faults>>
    BY DEF ForeignWrite, store, client, stream, call, history
<1>2. c \in Commit /\ c.write = 0
    BY PipelineAssumption DEF Commit
<1> HIDE DEF c
<1>3. /\ c.write <= Len(written)
      /\ \A w \in 1 .. c.write - 1 :
            written[w].user = written[c.write].user => w \in refused \/ Committed(w)
    BY <1>2, Current DEF HistoryInv, HistoryTyped
<1>4. /\ HistoryInv' /\ Len(log') = Len(log) + 1
      /\ \A v \in 1 .. Len(log) : v \in 1 .. Len(log') /\ log'[v] = log[v]
    <2>1. UNCHANGED <<queue, cache, written, refused, told, faults, refusal>>
        BY <1>1
    <2> QED BY ONLY <1>1, <1>2, <1>3, <2>1, Current, LogGrows, WriteInv
<1>5. DiskInv'
    BY <1>1, Current, SameDisk
<1>6. StreamInv'
    <2>1. StreamTyped' /\ StreamSound' /\ StreamWhenNeeded' /\ PipelineIsOldest'
        BY <1>1, Current DEF StreamInv, StreamTyped, StreamSound, StreamWhenNeeded,
                             PipelineIsOldest
    <2>2. AnswersMatchPipeline'
        <3>1. DOMAIN log = 1 .. Len(log) /\ DOMAIN log' = 1 .. Len(log')
            BY <1>1, <1>4, Current DEF HistoryInv, HistoryTyped
        <3> QED BY <1>1, <1>4, <3>1, Current DEF StreamInv, AnswersMatchPipeline
    <2> QED BY <2>1, <2>2 DEF StreamInv
<1> QED BY <1>4, <1>5, <1>6, ThreeParts, PTL

\* The request the server reads is the batch of the pipeline after those it has
\* answered, and those are in its log.
LEMMA Read ==
    ASSUME WriteInv, requests # <<>>, refusal = 0
    PROVE  /\ handshake
           /\ Len(responses) + 1 \in 1 .. Len(pipeline)
           /\ Head(requests) = pipeline[Len(responses) + 1]
           /\ Head(requests) \in Batch /\ Head(requests).write \in Writes
           /\ Head(requests).write <= Len(written)
           /\ written[Head(requests).write].user = user
           /\ Len(responses) + Len(requests) = Len(pipeline)
           /\ \A i \in 1 .. Len(requests) : requests[i] = pipeline[Len(responses) + i]
           /\ \A i \in 1 .. Len(responses) :
                 /\ i \in 1 .. Len(pipeline)
                 /\ responses[i] \in 1 .. Len(log)
                 /\ log[responses[i]].write = pipeline[i].write
           /\ \A w \in 1 .. Head(requests).write - 1 :
                 written[w].user = user => w \in refused \/ Committed(w)
<1> DEFINE n == Len(responses)
           q == queue[user]
<1>1. /\ requests \in Seq(Batch) /\ responses \in Seq(Nat) /\ n \in Nat
      /\ log \in Seq(Commit) /\ q \in Seq(Batch) /\ pipeline \in Seq(Batch)
      /\ user \in Users /\ Len(written) \in Nat /\ written \in Seq([user : Users, key : Keys])
    BY DEF WriteInv, TypeOK
<1>2. handshake /\ Matches(pipeline, requests, responses)
    BY Current DEF StreamInv, StreamSound
<1>3. /\ n + Len(requests) = Len(pipeline)
      /\ \A i \in 1 .. n : responses[i] \in 1 .. Len(log)
                           /\ log[responses[i]].write = pipeline[i].write
      /\ \A i \in 1 .. Len(requests) : requests[i] = pipeline[n + i]
    BY <1>1, <1>2 DEF Matches, Closed
<1>4. Len(requests) >= 1 /\ Len(requests) \in Nat /\ Len(pipeline) \in Nat
    BY <1>1
<1>5. n + 1 \in 1 .. Len(pipeline) /\ Head(requests) = pipeline[n + 1]
      /\ \A i \in 1 .. n : i \in 1 .. Len(pipeline)
    BY <1>1, <1>3, <1>4
<1>6. /\ Len(pipeline) <= Len(q) /\ Ascending(q)
      /\ \A i \in 1 .. Len(pipeline) : pipeline[i] = q[i] /\ i \in 1 .. Len(q)
    BY <1>1, <1>4, Current DEF IsPrefix
<1>7. /\ q[n + 1] \in Batch /\ q[n + 1].write \in Writes
      /\ BatchIn(user, q[n + 1], nextBatchId, written, told)
    BY <1>1, <1>5, <1>6, Elements, Current DEF DiskInv, QueueSound, BatchOf
<1>8. ASSUME NEW w \in 1 .. q[n + 1].write - 1, written[w].user = user
      PROVE  w \in refused \/ Committed(w)
    <2>1. w \in 1 .. Len(written) /\ w < q[n + 1].write
        BY <1>1, <1>7 DEF BatchIn, Writes
    <2>2. w \in DOMAIN written
        BY <1>1, <2>1
    <2>3. Queued(user, w) \/ Committed(w) \/ w \in refused
        BY <1>8, <2>2, Current DEF HistoryInv, KeptInOrder, NoWriteLost
    <2>4. ASSUME Queued(user, w) PROVE Committed(w)
        <3>1. PICK i \in 1 .. Len(q) : q[i].write = w
            BY <1>1, <2>4 DEF Queued
        <3>2. ~(n + 1 < i) /\ i # n + 1
            <4>1. ASSUME n + 1 < i PROVE q[n + 1].write < w
                BY <1>5, <1>6, <3>1, <4>1 DEF Ascending
            <4> QED BY <1>7, <2>1, <3>1, <4>1 DEF Writes
        <3>3. i \in 1 .. n
            BY <1>1, <3>2
        <3>4. responses[i] \in 1 .. Len(log) /\ log[responses[i]].write = w
            BY <1>3, <1>5, <1>6, <3>1, <3>3
        <3>5. responses[i] \in DOMAIN log
            BY <1>1, <3>4
        <3> QED BY <3>4, <3>5 DEF Committed
    <2> QED BY <2>3, <2>4
<1>9. Head(requests) = q[n + 1]
    BY <1>5, <1>6
<1> QED BY <1>2, <1>3, <1>5, <1>7, <1>8, <1>9 DEF BatchIn

LEMMA ServerCommitKeeps ==
    ASSUME WriteInv, ServerCommit PROVE WriteInv'
<1> DEFINE w == Head(requests).write
           c == [key |-> written[w].key, write |-> w]
<1>1. /\ requests # <<>> /\ refusal = 0 /\ log' = Append(log, c)
      /\ responses' = Append(responses, Len(log')) /\ requests' = Tail(requests)
      /\ UNCHANGED <<queue, cache, user, nextBatchId, callbacks, pipeline, state,
                     handshake, idle, hello, refusal, written, refused, told, faults>>
    BY DEF ServerCommit, store, client, stream, history
<1>2. /\ w \in Writes /\ w <= Len(written) /\ written[w].user = user /\ handshake
      /\ \A x \in 1 .. w - 1 : written[x].user = user => x \in refused \/ Committed(x)
    BY <1>1, Read
<1>3. c \in Commit /\ c.write = w
    <2>1. written \in Seq([user : Users, key : Keys])
        BY DEF WriteInv, TypeOK
    <2>2. w \in 1 .. Len(written)
        BY <1>2, <2>1 DEF Writes
    <2>3. written[w] \in [user : Users, key : Keys]
        BY <2>1, <2>2, Element
    <2> QED BY <1>2, <2>3 DEF Commit, Writes
<1> HIDE DEF c
<1>4. /\ HistoryInv' /\ Len(log') = Len(log) + 1
      /\ \A v \in 1 .. Len(log) : v \in 1 .. Len(log') /\ log'[v] = log[v]
    <2>1. UNCHANGED <<queue, cache, written, refused, told, faults, refusal>>
        BY <1>1
    <2>2. HistoryInv /\ log' = Append(log, c)
        BY <1>1, Current
    <2>3. /\ c.write <= Len(written)
          /\ \A x \in 1 .. c.write - 1 :
                written[x].user = written[c.write].user => x \in refused \/ Committed(x)
        BY <1>2, <1>3
    <2> QED BY ONLY <1>3, <2>1, <2>2, <2>3, LogGrows
<1>5. DiskInv'
    BY <1>1, Current, SameDisk
<1>6. log \in Seq(Commit) /\ requests \in Seq(Batch) /\ responses \in Seq(Nat)
      /\ log' \in Seq(Commit) /\ Len(log') \in Nat
    BY <1>1, <1>4, Current DEF StreamInv, StreamTyped, HistoryInv, HistoryTyped
<1>7. log'[Len(log')].write = w
    BY <1>1, <1>3, <1>4, <1>6
<1>8. /\ requests' \in Seq(Batch) /\ Len(requests') = Len(requests) - 1
      /\ \A i \in 1 .. Len(requests) - 1 : requests'[i] = requests[i + 1]
    BY <1>1, <1>6
<1>9. /\ responses' \in Seq(Nat) /\ Len(responses') = Len(responses) + 1
      /\ responses'[Len(responses) + 1] = Len(log')
      /\ \A i \in 1 .. Len(responses) : responses'[i] = responses[i]
    BY <1>1, <1>6
<1>10. StreamInv'
    <2>1. StreamTyped' /\ StreamSound' /\ StreamWhenNeeded' /\ PipelineIsOldest'
        BY <1>1, <1>2, <1>8, <1>9, Current DEF StreamInv, StreamTyped, StreamSound,
           StreamWhenNeeded, PipelineIsOldest
    <2>2. Len(responses') + Len(requests') = Len(pipeline)
        BY <1>1, <1>6, <1>8, <1>9, Read
    <2>3. ASSUME NEW i \in 1 .. Len(responses')
          PROVE  responses'[i] \in 1 .. Len(log')
                 /\ log'[responses'[i]].write = pipeline[i].write
        <3>1. CASE i \in 1 .. Len(responses)
            BY <1>1, <1>4, <1>9, <3>1, Read
        <3>2. CASE i \notin 1 .. Len(responses)
            <4>1. i = Len(responses) + 1
                BY <1>6, <1>9, <2>3, <3>2
            <4>2. w = pipeline[i].write
                BY <1>1, <4>1, Read
            <4>3. Len(log') \in 1 .. Len(log')
                BY <1>4, <1>6
            <4> QED BY <1>7, <1>9, <4>1, <4>2, <4>3
        <3> QED BY <3>1, <3>2
    <2>4. ASSUME NEW i \in 1 .. Len(requests')
          PROVE  requests'[i] = pipeline[Len(responses') + i]
        <3>1. i + 1 \in 1 .. Len(requests) /\ i \in 1 .. Len(requests) - 1
              /\ Len(responses) + (i + 1) = Len(responses') + i
            BY <1>6, <1>8, <1>9
        <3>2. requests'[i] = requests[i + 1]
            BY <1>8, <3>1
        <3>3. requests[i + 1] = pipeline[Len(responses) + (i + 1)]
            BY <1>1, <3>1, Read
        <3> QED BY <3>1, <3>2, <3>3
    <2>5. AnswersMatchPipeline'
        <3>1. DOMAIN log' = 1 .. Len(log') /\ DOMAIN requests' = 1 .. Len(requests')
            BY <1>6, <1>8
        <3>2. pipeline' = pipeline /\ refusal' = 0
            BY <1>1
        <3>3. /\ Len(responses') + 0 + Len(requests') = Len(pipeline)
              /\ \A i \in 1 .. Len(requests') :
                    requests'[i] = pipeline[Len(responses') + 0 + i]
            BY <1>6, <1>8, <1>9, <2>2, <2>4
        <3> QED BY <2>3, <3>1, <3>2, <3>3 DEF AnswersMatchPipeline
    <2> QED BY <2>1, <2>5 DEF StreamInv
<1> QED BY <1>4, <1>5, <1>10, ThreeParts, PTL

LEMMA ServerRefuseKeeps ==
    ASSUME WriteInv, ServerRefuse PROVE WriteInv'
<1> DEFINE w == Head(requests).write
<1>1. /\ requests # <<>> /\ refusal = 0 /\ refusal' = w /\ refused' = refused \cup {w}
      /\ requests' = Tail(requests)
      /\ UNCHANGED <<queue, cache, user, nextBatchId, callbacks, pipeline, state, log,
                     handshake, idle, hello, responses, written, told, faults>>
    BY DEF ServerRefuse, store, client, stream
<1>2. w \in Writes /\ w \in Nat /\ w # 0 /\ handshake
    BY <1>1, Read DEF Writes
<1>3. requests \in Seq(Batch) /\ responses \in Seq(Nat)
    BY DEF WriteInv, TypeOK
<1>4. /\ requests' \in Seq(Batch) /\ Len(requests') = Len(requests) - 1
      /\ \A i \in 1 .. Len(requests) - 1 : requests'[i] = requests[i + 1]
    BY <1>1, <1>3
<1>5. w = pipeline[Len(responses) + 1].write
    BY <1>1, Read
<1> HIDE DEF w
<1>6. DiskInv'
    BY <1>1, Current, SameDisk
<1>7. HistoryInv'
    <2>1. HistoryTyped' /\ ServerSound'
        <3>1. w <= Len(written)
            BY <1>1, Read DEF w
        <3> QED BY <1>1, <1>2, <3>1, Current DEF HistoryInv, HistoryTyped, ServerSound
    <2>2. KeptInOrder' /\ ToldTheTruth'
        BY <1>1, Current DEF HistoryInv, KeptInOrder, NoWriteLost, CommittedInOrder,
                             ToldTheTruth, Queued, Committed, ChargedForLater
    <2> QED BY <2>1, <2>2 DEF HistoryInv
<1>8. StreamInv'
    <2>1. StreamTyped' /\ StreamSound' /\ StreamWhenNeeded' /\ PipelineIsOldest'
        BY <1>1, <1>2, <1>4, Current DEF StreamInv, StreamTyped, StreamSound,
           StreamWhenNeeded, PipelineIsOldest, Writes
    <2>2. Len(responses) + 1 + Len(requests') = Len(pipeline)
        BY <1>1, <1>3, <1>4, Read
    <2>3. ASSUME NEW i \in 1 .. Len(requests')
          PROVE  requests'[i] = pipeline[Len(responses) + 1 + i]
        <3>1. i + 1 \in 1 .. Len(requests) /\ i \in 1 .. Len(requests) - 1
              /\ Len(responses) + (i + 1) = Len(responses) + 1 + i
            BY <1>3, <1>4
        <3>2. requests'[i] = requests[i + 1]
            BY <1>4, <3>1
        <3>3. requests[i + 1] = pipeline[Len(responses) + (i + 1)]
            BY <1>1, <3>1, Read
        <3> QED BY <3>1, <3>2, <3>3
    <2>4. \A i \in 1 .. Len(responses) :
             responses[i] \in DOMAIN log /\ log[responses[i]].write = pipeline[i].write
        <3>1. DOMAIN log = 1 .. Len(log)
            BY DEF WriteInv, TypeOK
        <3> QED BY <1>1, <3>1, Read
    <2>5. AnswersMatchPipeline'
        <3>1. DOMAIN requests' = 1 .. Len(requests')
            BY <1>4
        <3>2. pipeline' = pipeline /\ refusal' = w /\ log' = log /\ responses' = responses
            BY <1>1
        <3> QED BY <1>2, <1>5, <2>2, <2>3, <2>4, <3>1, <3>2 DEF AnswersMatchPipeline
    <2> QED BY <2>1, <2>5 DEF StreamInv
<1> QED BY <1>6, <1>7, <1>8, ThreeParts, PTL

----------------------------------------------------------------------------
\* The versions in the cache never go back.
CacheGrows ==
    /\ cache' \in [Keys -> [version : Nat, committed : BOOLEAN]]
    /\ \A k \in Keys : /\ cache[k].version <= cache'[k].version
                       /\ cache'[k].version <= Len(log)

\* The write named has been committed at a version the cache has reached.
Reached(w) == \E v \in 1 .. cache'[written[w].key].version : log[v].write = w

LEMMA KeyOf ==
    ASSUME WriteInv, NEW w \in Writes, w <= Len(written)
    PROVE  w \in DOMAIN written /\ written[w].key \in Keys /\ written[w].user \in Users
<1>1. written \in Seq([user : Users, key : Keys]) /\ w \in 1 .. Len(written)
    BY DEF WriteInv, TypeOK, Writes
<1>2. written[w] \in [user : Users, key : Keys] /\ w \in DOMAIN written
    BY <1>1, Element
<1> QED BY <1>2

LEMMA ApplyRemoteEventKeeps ==
    ASSUME WriteInv, NEW k \in Keys, NEW v \in {NoVersion} \cup DOMAIN log,
           ApplyRemoteEvent(k, v)
    PROVE  WriteInv'
<1>1. /\ cache' = [cache EXCEPT ![k] = [version |-> v, committed |-> FALSE]]
      /\ UNCHANGED <<queue, user, nextBatchId, callbacks, pipeline, state, handshake,
                     idle, hello, requests, responses, refusal, log, written, refused,
                     told, faults>>
    BY DEF ApplyRemoteEvent, client, stream, call, history
<1>2. /\ cache' \in [Keys -> [version : Nat, committed : BOOLEAN]]
      /\ \A j \in Keys : cache'[j].version <= Len(log)
    <2>1. log \in Seq(Commit) /\ cache \in [Keys -> [version : Nat, committed : BOOLEAN]]
          /\ \A j \in Keys : cache[j].version <= Len(log)
        BY Current DEF HistoryInv, HistoryTyped, ServerSound
    <2>2. v \in Nat /\ v <= Len(log)
        BY <2>1 DEF NoVersion
    <2>3. [version |-> v, committed |-> FALSE] \in [version : Nat, committed : BOOLEAN]
        BY <2>2, Zenon
    <2>4. cache' \in [Keys -> [version : Nat, committed : BOOLEAN]]
        BY <1>1, <2>1, <2>3, Zenon
    <2>5. \A j \in Keys : cache'[j].version = IF j = k THEN v ELSE cache[j].version
        BY <1>1, <2>1
    <2> QED BY <2>1, <2>2, <2>4, <2>5
<1>3. HistoryInv'
    BY <1>1, <1>2, Current DEF HistoryInv, HistoryTyped, ServerSound, KeptInOrder,
       NoWriteLost, CommittedInOrder, ToldTheTruth, Queued, Committed, ChargedForLater
<1>4. DiskInv'
    BY <1>1, Current, SameDisk
<1>5. StreamInv'
    BY <1>1, Current DEF StreamInv, StreamTyped, StreamSound, StreamWhenNeeded,
                         PipelineIsOldest, AnswersMatchPipeline
<1> QED BY <1>3, <1>4, <1>5, ThreeParts, PTL

\* The other batches stay queued when the oldest is deleted.
LEMMA StillQueued ==
    ASSUME WriteInv, pipeline # <<>>, RemoveMutationBatch(Head(pipeline)),
           NEW u \in Users, NEW w, Queued(u, w)
    PROVE  Queued(u, w)' \/ (u = user /\ w = Oldest.write)
<1>1. /\ queue' \in [Users -> Seq(Batch)]
      /\ u # user => queue'[u] = queue[u]
      /\ Len(queue'[user]) = Len(queue[user]) - 1
      /\ \A i \in 1 .. Len(queue[user]) - 1 : queue'[user][i] = queue[user][i + 1]
    BY Removed
<1>2. user \in Users /\ queue[u] \in Seq(Batch)
    BY Current
<1>3. PICK i \in 1 .. Len(queue[u]) : queue[u][i].write = w
    BY <1>2 DEF Queued
<1>4. CASE u # user
    BY <1>1, <1>4 DEF Queued
<1>5. CASE u = user /\ i = 1
    BY <1>3, <1>5 DEF Oldest
<1>6. CASE u = user /\ i # 1
    <2>1. i - 1 \in 1 .. Len(queue[user]) - 1 /\ (i - 1) + 1 = i
        BY <1>2, <1>6
    <2>2. queue'[user][i - 1].write = w
        BY <1>1, <1>3, <1>6, <2>1
    <2>3. queue'[user] \in Seq(Batch) /\ i - 1 \in 1 .. Len(queue'[user])
        BY <1>1, <1>2, <2>1
    <2>4. i - 1 \in DOMAIN queue'[user]
        BY <2>3
    <2> QED BY <1>6, <2>2, <2>4 DEF Queued
<1> QED BY <1>4, <1>5, <1>6

\* The history after the oldest batch has been settled.
LEMMA SettledHistory ==
    ASSUME WriteInv, pipeline # <<>>, RemoveMutationBatch(Head(pipeline)),
           NEW status \in {"ok", "error"}, NotifyUser(Head(pipeline).id, status),
           CacheGrows, UNCHANGED <<user, log, written, refused, faults>>,
           refusal' \in {0, refusal},
           status = "ok" => Committed(Oldest.write),
           status = "error" => \/ Oldest.write \in refused
                               \/ Committed(Oldest.write) /\ ChargedForLater(Oldest.write)
    PROVE  HistoryInv'
<1>1. /\ queue' \in [Users -> Seq(Batch)]
      /\ \A u \in Users : u # user => queue'[u] = queue[u]
      /\ Len(queue'[user]) = Len(queue[user]) - 1
      /\ \A i \in 1 .. Len(queue[user]) - 1 : queue'[user][i] = queue[user][i + 1]
    BY Removed
<1>2. /\ told' \in [Writes -> {"none", "ok", "error"}]
      /\ \A w \in Writes : told'[w] # told[w] => w = Oldest.write /\ told'[w] = status
    BY Notified
<1>3. /\ user \in Users /\ Oldest.write \in Writes /\ Oldest.write <= Len(written)
      /\ Len(queue[user]) >= 1 /\ \A u \in Users : queue[u] \in Seq(Batch)
    BY OldestFirst DEF WriteInv, TypeOK, BatchOf, BatchIn
<1>4. HistoryTyped'
    BY <1>2, Current DEF HistoryInv, HistoryTyped, CacheGrows
<1>5. ServerSound'
    BY <1>2, <1>3, Current DEF HistoryInv, ServerSound, CacheGrows
<1>6. Committed(Oldest.write) \/ Oldest.write \in refused
    OBVIOUS
<1>8. KeptInOrder'
    <2>1. NoWriteLost'
        <3> SUFFICES ASSUME NEW w \in DOMAIN written
                     PROVE  \/ Queued(written[w].user, w)'
                            \/ Committed(w) \/ w \in refused
            BY DEF NoWriteLost, Committed
        <3>1. Queued(written[w].user, w) \/ Committed(w) \/ w \in refused
            BY Current DEF HistoryInv, KeptInOrder, NoWriteLost
        <3>2. written[w].user \in Users
            <4>1. written \in Seq([user : Users, key : Keys])
                BY DEF WriteInv, TypeOK
            <4>2. written[w] \in [user : Users, key : Keys]
                <5>1. w \in 1 .. Len(written)
                    BY <4>1
                <5> QED BY <4>1, <5>1, Element
            <4> QED BY <4>2
        <3> QED BY <1>6, <3>1, <3>2, StillQueued
    <2>2. CommittedInOrder'
        BY Current DEF HistoryInv, KeptInOrder, CommittedInOrder
    <2> QED BY <2>1, <2>2 DEF KeptInOrder
<1>9. ToldTheTruth'
    <2> SUFFICES ASSUME NEW w \in Writes
                 PROVE  /\ told'[w] = "ok" => Committed(w)
                        /\ told'[w] = "error" =>
                              w \in refused \/ (Committed(w) /\ ChargedForLater(w))
        BY DEF ToldTheTruth, Committed, ChargedForLater
    <2>1. CASE told'[w] = told[w]
        BY <2>1 DEF WriteInv, ToldTheTruth
    <2>2. CASE told'[w] # told[w]
        BY <1>2, <2>2
    <2> QED BY <2>1, <2>2
<1> QED BY <1>4, <1>5, <1>8, <1>9 DEF HistoryInv

\* The rest of the pipeline is the beginning of the rest of the queue.
LEMMA RestOfPipeline ==
    ASSUME WriteInv, pipeline # <<>>, RemoveMutationBatch(Head(pipeline))
    PROVE  /\ Tail(pipeline) \in Seq(Batch) /\ IsPrefix(Tail(pipeline), queue'[user])
           /\ Len(Tail(pipeline)) <= kMaxPendingWrites
           /\ Len(Tail(pipeline)) = Len(pipeline) - 1
           /\ \A i \in 1 .. Len(pipeline) - 1 : Tail(pipeline)[i] = pipeline[i + 1]
<1>1. /\ queue'[user] \in Seq(Batch) /\ Len(queue'[user]) = Len(queue[user]) - 1
      /\ \A i \in 1 .. Len(queue[user]) - 1 : queue'[user][i] = queue[user][i + 1]
    BY Removed, Current
<1>2. /\ pipeline \in Seq(Batch) /\ queue[user] \in Seq(Batch)
      /\ Len(pipeline) <= kMaxPendingWrites /\ Len(pipeline) <= Len(queue[user])
      /\ \A i \in 1 .. Len(pipeline) : pipeline[i] = queue[user][i]
    BY Current DEF IsPrefix
<1>3. /\ Tail(pipeline) \in Seq(Batch) /\ Len(Tail(pipeline)) = Len(pipeline) - 1
      /\ \A i \in 1 .. Len(pipeline) - 1 : Tail(pipeline)[i] = pipeline[i + 1]
    BY <1>2
<1>4. Len(pipeline) \in Nat /\ Len(queue[user]) \in Nat
      /\ kMaxPendingWrites \in Nat /\ Len(queue'[user]) \in Nat
    BY <1>1, <1>2, PipelineAssumption
<1>5. Len(Tail(pipeline)) <= kMaxPendingWrites /\ Len(Tail(pipeline)) <= Len(queue'[user])
    BY ONLY <1>1, <1>2, <1>3, <1>4
<1>6. ASSUME NEW i \in 1 .. Len(Tail(pipeline))
      PROVE  Tail(pipeline)[i] = queue'[user][i]
    <2>1. i \in 1 .. Len(pipeline) - 1 /\ i + 1 \in 1 .. Len(pipeline)
          /\ i \in 1 .. Len(queue[user]) - 1
        BY <1>2, <1>3, <1>4
    <2> QED BY <1>1, <1>2, <1>3, <2>1
<1> QED BY <1>3, <1>5, <1>6 DEF IsPrefix

\* The result of the oldest batch is in the server's log, and the cache then
\* has that version, or a later one.
LEMMA ResultReached ==
    ASSUME WriteInv, OnWriteStreamMutationResult
    PROVE  CacheGrows /\ Reached(Oldest.write) /\ Committed(Oldest.write)
<1> DEFINE v == Head(responses)
           key == written[Oldest.write].key
<1>1. /\ state = "Open" /\ handshake /\ responses # <<>> /\ pipeline # <<>>
      /\ Head(pipeline) = Oldest
      /\ cache' = [cache EXCEPT ![key] = Acknowledged(cache[key], v)]
      /\ written' = written
    <2>1. pipeline # <<>>
        BY DEF OnWriteStreamMutationResult
    <2>2. Head(pipeline) = Oldest
        BY <2>1, OldestFirst
    <2> QED BY <2>2, Zenon DEF OnWriteStreamMutationResult
<1>2. /\ StreamTyped /\ StreamSound /\ StreamWhenNeeded
      /\ log \in Seq(Commit) /\ responses \in Seq(Nat) /\ requests \in Seq(Batch)
      /\ pipeline \in Seq(Batch) /\ user \in Users
      /\ Matches(pipeline, requests, responses)
    BY <1>1, Current DEF StreamInv, StreamTyped, HistoryInv, HistoryTyped
<1>3. /\ Oldest.write \in Writes /\ Oldest.write <= Len(written) /\ key \in Keys
      /\ pipeline[1] = Oldest
    <2>1. Oldest.write \in Writes /\ Oldest.write <= Len(written) /\ pipeline[1] = Oldest
        BY <1>1, OldestFirst DEF BatchOf, BatchIn
    <2> QED BY <2>1, KeyOf
<1>4. v \in 1 .. Len(log) /\ log[v].write = Oldest.write
    <2>1. 1 \in 1 .. Len(responses) /\ responses[1] = v
        BY <1>1, <1>2
    <2>2. responses[1] \in 1 .. Len(log) /\ log[responses[1]].write = pipeline[1].write
        BY <1>2, <2>1 DEF Matches
    <2> QED BY <1>3, <2>1, <2>2
<1>5. /\ cache \in [Keys -> [version : Nat, committed : BOOLEAN]]
      /\ cache[key] \in [version : Nat, committed : BOOLEAN]
      /\ \A k \in Keys : cache[k].version \in Nat /\ cache[k].version <= Len(log)
    BY <1>3, Current DEF HistoryInv, HistoryTyped, ServerSound
<1>6. /\ Acknowledged(cache[key], v) \in [version : Nat, committed : BOOLEAN]
      /\ cache[key].version <= Acknowledged(cache[key], v).version
      /\ Acknowledged(cache[key], v).version <= Len(log)
      /\ v <= Acknowledged(cache[key], v).version
    <2>1. v \in Nat /\ v <= Len(log) /\ Len(log) \in Nat /\ cache[key].version \in Nat
          /\ cache[key].version <= Len(log)
        BY <1>2, <1>3, <1>4, <1>5
    <2>2. CASE cache[key].version < v
        <3>1. Acknowledged(cache[key], v) = [version |-> v, committed |-> TRUE]
            BY <2>2 DEF Acknowledged
        <3>2. Acknowledged(cache[key], v) \in [version : Nat, committed : BOOLEAN]
            <4>1. [version |-> v, committed |-> TRUE] \in [version : Nat, committed : BOOLEAN]
                BY <2>1, Zenon
            <4> QED BY <3>1, <4>1, Zenon
        <3>3. Acknowledged(cache[key], v).version = v
            BY <3>1
        <3> QED BY <2>1, <2>2, <3>2, <3>3
    <2>3. CASE ~(cache[key].version < v)
        BY <1>5, <2>1, <2>3 DEF Acknowledged
    <2> QED BY <2>2, <2>3
<1> DEFINE a == Acknowledged(cache[key], v)
<1> HIDE DEF a, key, v
<1>7. cache' = [cache EXCEPT ![key] = a]
    BY <1>1 DEF a
<1>8. CacheGrows
    <2>1. cache' \in [Keys -> [version : Nat, committed : BOOLEAN]]
        BY <1>5, <1>6, <1>7, Zenon DEF a
    <2>2. \A k \in Keys : cache'[k] = IF k = key THEN a ELSE cache[k]
        BY <1>5, <1>7
    <2>3. ASSUME NEW k \in Keys
          PROVE  cache[k].version <= cache'[k].version /\ cache'[k].version <= Len(log)
        BY <1>5, <1>6, <2>2 DEF a
    <2> QED BY <2>1, <2>3 DEF CacheGrows
<1>9. Reached(Oldest.write)
    <2>1. cache'[key] = a /\ v <= a.version /\ a.version \in Nat /\ v \in Nat /\ v >= 1
        BY <1>2, <1>3, <1>4, <1>5, <1>6, <1>7 DEF a
    <2>2. v \in 1 .. cache'[key].version
        BY <2>1
    <2> QED BY <1>4, <2>2 DEF Reached, key
<1>10. Committed(Oldest.write)
    <2>1. v \in DOMAIN log
        BY <1>2, <1>4
    <2> QED BY <1>4, <2>1 DEF Committed
<1> QED BY <1>8, <1>9, <1>10

LEMMA OnWriteStreamMutationResultKeeps ==
    ASSUME WriteInv, OnWriteStreamMutationResult PROVE WriteInv'
<1> DEFINE p == Tail(pipeline)
           resps == Tail(responses)
           q == queue'[user]
<1>1. /\ state = "Open" /\ handshake /\ responses # <<>> /\ pipeline # <<>>
      /\ NotifyUser(Head(pipeline).id, "ok") /\ RemoveMutationBatch(Head(pipeline))
      /\ FillWritePipeline(q, p, state, handshake, requests, idle)
      /\ responses' = resps
      /\ UNCHANGED <<user, nextBatchId, handshake, hello, refusal, log, written,
                     refused, faults>>
    BY Zenon DEF OnWriteStreamMutationResult
<1>2. /\ StreamTyped /\ StreamSound /\ StreamWhenNeeded
      /\ log \in Seq(Commit) /\ responses \in Seq(Nat) /\ requests \in Seq(Batch)
      /\ pipeline \in Seq(Batch) /\ user \in Users
      /\ Matches(pipeline, requests, responses)
    BY <1>1, Current DEF StreamInv, StreamTyped, HistoryInv, HistoryTyped
<1> HIDE DEF p, q, resps
<1>10. DiskInv'
    BY <1>1, Settled
<1>11. HistoryInv'
    <2>1. PICK status \in {"ok", "error"} : status = "ok"
        OBVIOUS
    <2>2. NotifyUser(Head(pipeline).id, status)
          /\ status # "error"
        BY <1>1, <2>1
    <2> QED BY <1>1, <2>2, ResultReached, SettledHistory
<1>12. /\ p \in Seq(Batch) /\ IsPrefix(p, q) /\ Len(p) <= kMaxPendingWrites
       /\ Len(p) = Len(pipeline) - 1
       /\ \A i \in 1 .. Len(pipeline) - 1 : p[i] = pipeline[i + 1]
    BY <1>1, RestOfPipeline DEF p, q
<1>13. /\ resps \in Seq(Nat) /\ Len(resps) = Len(responses) - 1
       /\ \A i \in 1 .. Len(responses) - 1 : resps[i] = responses[i + 1]
    BY <1>1, <1>2 DEF resps
<1>14. Matches(p, requests, resps)
    <2>1. /\ Len(responses) \in Nat /\ Len(pipeline) \in Nat /\ Len(requests) \in Nat
          /\ Closed \in Nat /\ (refusal # 0 => Closed = 1)
          /\ Len(responses) + Closed + Len(requests) = Len(pipeline)
          /\ Len(responses) >= 1
        BY <1>1, <1>2 DEF Matches, Closed
    <2>2. ASSUME NEW i \in 1 .. Len(resps)
          PROVE  resps[i] \in 1 .. Len(log) /\ log[resps[i]].write = p[i].write
        <3>1. /\ i + 1 \in 1 .. Len(responses) /\ i \in 1 .. Len(responses) - 1
              /\ i \in 1 .. Len(pipeline) - 1
            BY <1>13, <2>1
        <3>2. resps[i] = responses[i + 1] /\ p[i] = pipeline[i + 1]
            BY <1>12, <1>13, <3>1
        <3> QED BY <1>2, <3>1, <3>2 DEF Matches
    <2>3. ASSUME refusal # 0 PROVE p[Len(resps) + 1].write = refusal
        <3>1. Len(responses) \in 1 .. Len(pipeline) - 1 /\ Len(resps) + 1 = Len(responses)
            BY <1>13, <2>1, <2>3
        <3>2. p[Len(responses)] = pipeline[Len(responses) + 1]
            BY <1>12, <3>1
        <3> QED BY <1>2, <2>3, <3>1, <3>2 DEF Matches
    <2>4. ASSUME NEW i \in 1 .. Len(requests)
          PROVE  requests[i] = p[Len(resps) + Closed + i]
        <3>1. /\ Len(resps) + Closed + i \in 1 .. Len(pipeline) - 1
              /\ Len(resps) + Closed + i + 1 = Len(responses) + Closed + i
            BY <1>13, <2>1
        <3>2. p[Len(resps) + Closed + i] = pipeline[Len(resps) + Closed + i + 1]
            BY <1>12, <3>1
        <3> QED BY <1>2, <3>1, <3>2 DEF Matches
    <2>5. Len(resps) + Closed + Len(requests) = Len(p)
        BY ONLY <1>12, <1>13, <2>1
    <2> QED BY <2>2, <2>3, <2>4, <2>5 DEF Matches
<1>15. StreamInv'
    <2>1. /\ q \in Seq(Batch) /\ q = queue'[user'] /\ Ascending(q)
          /\ \A i \in 1 .. Len(q) : q[i].id >= 1
        <3>1. user' = user /\ user \in Users
            BY <1>1, <1>2
        <3> QED BY <1>10, <3>1 DEF DiskInv, DiskTyped, QueueSound, BatchOf, BatchIn, q
    <2>2. /\ idle => p = <<>> /\ handshake
          /\ state = "Open" /\ ~handshake => p # <<>>
          /\ p = <<>> => state \notin {"Starting", "Backoff"}
          /\ handshake => Matches(p, requests, resps)
          /\ ~handshake => resps = <<>>
        BY <1>1, <1>2, <1>14 DEF StreamWhenNeeded
    <2>3. /\ p \in Seq(Batch) /\ IsPrefix(p, q) /\ Len(p) <= kMaxPendingWrites
          /\ resps \in Seq(Nat)
        BY <1>12, <1>13
    <2>4. /\ FillWritePipeline(q, p, state, handshake, requests, idle)
          /\ responses' = resps /\ UNCHANGED <<handshake, hello, refusal, log>>
        BY <1>1
    <2>5. StreamTyped /\ StreamSound /\ log \in Seq(Commit)
        BY <1>2
    <2> QED BY ONLY <2>1, <2>2, <2>3, <2>4, <2>5, Continued, Zenon
<1> QED BY <1>10, <1>11, <1>15, ThreeParts, PTL

\* The batch that is rejected is the one the server has refused, or it was
\* committed and its answer is lost with the refusal of a later one.
LEMMA RejectedOldest ==
    ASSUME WriteInv, HandleWriteError
    PROVE  \/ Oldest.write \in refused
           \/ Committed(Oldest.write) /\ ChargedForLater(Oldest.write)
<1> DEFINE n == Len(responses) + 1
<1>1. pipeline # <<>> /\ handshake /\ refusal # 0
    BY DEF HandleWriteError, PermanentError
<1>2. /\ Matches(pipeline, requests, responses)
      /\ pipeline[1] = Oldest /\ Oldest = queue[user][1] /\ BatchOf(user, Oldest)
    BY <1>1, Current, OldestFirst DEF Oldest
<1>3. /\ responses \in Seq(Nat) /\ requests \in Seq(Batch)
      /\ pipeline \in Seq(Batch) /\ log \in Seq(Commit)
      /\ user \in Users /\ queue[user] \in Seq(Batch)
    BY DEF WriteInv, TypeOK
<1>4. refusal \in refused /\ pipeline[n].write = refusal
    <2>1. refusal \in refused
        BY <1>1, Current DEF HistoryInv, ServerSound
    <2> QED BY <1>1, <1>2, <2>1 DEF Matches
<1>5. n \in 1 .. Len(pipeline)
    BY <1>1, <1>2, <1>3 DEF Matches, Closed
<1>6. CASE responses = <<>>
    <2>1. n = 1
        BY <1>6
    <2> QED BY <1>2, <1>4, <2>1
<1>7. CASE responses # <<>>
    <2>1. 1 \in 1 .. Len(responses) /\ n > 1
        BY <1>3, <1>7
    <2>2. responses[1] \in DOMAIN log /\ log[responses[1]].write = Oldest.write
        <3>1. responses[1] \in 1 .. Len(log)
              /\ log[responses[1]].write = pipeline[1].write
            BY <1>2, <2>1 DEF Matches
        <3> QED BY <1>2, <1>3, <3>1
    <2>3. n \in 1 .. Len(queue[user]) /\ pipeline[n] = queue[user][n]
        BY <1>3, <1>5, Current DEF IsPrefix
    <2>4. refusal > Oldest.write
        <3>1. Ascending(queue[user]) /\ 1 \in 1 .. Len(queue[user])
            BY <1>3, <2>1, <2>3, Current
        <3>2. queue[user][1].write < queue[user][n].write
            BY <2>1, <2>3, <3>1 DEF Ascending
        <3>3. queue[user][1].write \in Writes /\ queue[user][n].write \in Writes
            BY <1>3, <2>3, <3>1, Elements
        <3> QED BY <1>2, <1>4, <2>3, <3>2, <3>3 DEF Writes
    <2>5. written[refusal].user = user /\ written[Oldest.write].user = user
        <3>1. BatchOf(user, queue[user][n])
            BY <1>3, <2>3, Current DEF DiskInv, QueueSound
        <3> QED BY <1>2, <1>4, <2>3, <3>1 DEF BatchOf, BatchIn
    <2> QED BY <1>4, <2>2, <2>4, <2>5 DEF Committed, ChargedForLater
<1> QED BY <1>6, <1>7

LEMMA HandleWriteErrorKeeps ==
    ASSUME WriteInv, HandleWriteError PROVE WriteInv'
<1> DEFINE p == Tail(pipeline)
           q == queue'[user]
<1>1. /\ handshake /\ pipeline # <<>> /\ refusal # 0
      /\ NotifyUser(Head(pipeline).id, "error") /\ RemoveMutationBatch(Head(pipeline))
      /\ FillWritePipeline(q, p, "Initial", handshake, <<>>, FALSE)
      /\ handshake' = FALSE /\ CallDestroyed
      /\ UNCHANGED <<cache, user, nextBatchId, log, written, refused, faults>>
    BY Zenon DEF HandleWriteError, PermanentError
<1>2. \/ Oldest.write \in refused
      \/ Committed(Oldest.write) /\ ChargedForLater(Oldest.write)
    BY RejectedOldest
<1>3. DiskInv'
    BY <1>1, Settled
<1>4. HistoryInv'
    <2>1. CacheGrows
        <3>1. /\ cache \in [Keys -> [version : Nat, committed : BOOLEAN]]
              /\ \A k \in Keys : cache[k].version <= Len(log)
            BY Current DEF HistoryInv, HistoryTyped, ServerSound
        <3> QED BY <1>1, <3>1 DEF CacheGrows
    <2>2. PICK status \in {"ok", "error"} : status = "error"
        OBVIOUS
    <2>3. NotifyUser(Head(pipeline).id, status)
          /\ status # "ok"
        BY <1>1, <2>2
    <2>4. refusal' \in {0, refusal}
        BY <1>1 DEF CallDestroyed
    <2> QED BY <1>1, <1>2, <2>1, <2>3, <2>4, SettledHistory
<1>5. StreamInv'
    <2>1. /\ q \in Seq(Batch) /\ q = queue'[user'] /\ Ascending(q)
          /\ \A i \in 1 .. Len(q) : q[i].id >= 1
        <3>1. user' = user /\ user \in Users
            BY <1>1, Current
        <3> QED BY <1>3, <3>1 DEF DiskInv, DiskTyped, QueueSound, BatchOf, BatchIn
    <2>2. p \in Seq(Batch) /\ IsPrefix(p, q) /\ Len(p) <= kMaxPendingWrites
        BY <1>1, RestOfPipeline
    <2>3. handshake \in BOOLEAN /\ "Initial" \in {"Initial", "Error"}
        BY Current DEF StreamInv, StreamTyped
    <2>4. /\ FillWritePipeline(q, p, "Initial", handshake, <<>>, FALSE)
          /\ handshake' = FALSE /\ CallDestroyed
        BY <1>1
    <2> HIDE DEF p, q
    <2> QED BY ONLY <2>1, <2>2, <2>3, <2>4, Restarted, Zenon
<1> QED BY <1>3, <1>4, <1>5, ThreeParts, PTL

----------------------------------------------------------------------------
LEMMA StepHolds == WriteInv /\ [Next]_vars => WriteInv'
<1> SUFFICES ASSUME WriteInv, [Next]_vars PROVE WriteInv'
    OBVIOUS
<1>1. CASE Server
    BY <1>1, ServerHandshakeKeeps, ServerCommitKeeps, ServerRefuseKeeps DEF Server
<1>2. CASE Client
    BY <1>2, ResumeStartWithCredentialsKeeps, OnWriteStreamHandshakeCompleteKeeps,
       OnWriteStreamMutationResultKeeps, HandleWriteErrorKeeps, BackoffElapsesKeeps
       DEF Client
<1>3. CASE Environment
    BY <1>3, WriteMutationsKeeps, ForeignWriteKeeps, HandleCredentialChangeKeeps,
       RelaunchKeeps, OnWriteStreamErrorKeeps, IdleElapsesKeeps, ApplyRemoteEventKeeps
       DEF Environment
<1>4. CASE UNCHANGED vars
    <2>1. UNCHANGED <<queue, cache, user, nextBatchId, callbacks, pipeline, state,
                      handshake, idle, hello, requests, responses, refusal, log,
                      written, refused, told, faults>>
        BY <1>4 DEF vars, store, client, stream, call, history
    <2>2. DiskInv'
        BY <2>1, Current, SameDisk
    <2>3. HistoryInv'
        BY <2>1, Current, SameHistory DEF HistoryInv, HistoryTyped
    <2>4. StreamInv'
        BY <2>1, Current DEF StreamInv, StreamTyped, StreamSound, StreamWhenNeeded,
                             PipelineIsOldest, AnswersMatchPipeline
    <2> QED BY <2>2, <2>3, <2>4, ThreeParts, PTL
<1> QED BY <1>1, <1>2, <1>3, <1>4 DEF Next

LEMMA Invariance == Spec => []WriteInv
    BY InitHolds, StepHolds, PTL DEF Spec

(* Every variable of the pipeline keeps its type.                            *)
THEOREM WritesTypeOK == Spec => []TypeOK
<1>1. WriteInv => TypeOK
    BY DEF WriteInv
<1> QED BY <1>1, Invariance, PTL

(* The queue on disk, the handlers, the pipeline and what is under way on    *)
(* the stream agree (LevelDbMutationQueue, SyncEngine, RemoteStore), for any *)
(* limit of batches under way and any number of faults.                      *)
THEOREM WritesPipelineConsistent == Spec => []PipelineConsistent
<1>1. WriteInv => PipelineConsistent
    BY DEF WriteInv
<1> QED BY <1>1, Invariance, PTL

(* No write is lost and none is overtaken by a later one of its user,        *)
(* whatever breaks and however often the app is launched again.              *)
THEOREM WritesKeptInOrder == Spec => []KeptInOrder
<1>1. WriteInv => KeptInOrder
    BY DEF WriteInv
<1> QED BY <1>1, Invariance, PTL

(* A completion handler hears "ok" of a committed write only, and an error   *)
(* of a refused one, or of a committed one whose answer was lost with the    *)
(* refusal of a later write of its user (RemoteStore::HandleWriteError).     *)
THEOREM WritesToldTheTruth == Spec => []ToldTheTruth
<1>1. WriteInv => ToldTheTruth
    BY DEF WriteInv
<1> QED BY <1>1, Invariance, PTL

----------------------------------------------------------------------------
\* What ViewHandedOver says of a step.
ViewKept ==
    \A k \in Keys :
        /\ cache[k].version <= cache'[k].version \/ cache'[k].version = NoVersion
        /\ \A w \in QueuedOn(k) :
              \/ user' # user
              \/ w \in QueuedOn(k)'
              \/ RejectedBy(w)
              \/ \E v \in 1 .. cache'[k].version : log'[v].write = w

LEMMA ViewKeptByFrame ==
    ASSUME WriteInv, queue' = queue, written' = written, cache' = cache
    PROVE  ViewKept
<1>1. \A k \in Keys : cache[k].version \in Nat
    BY Current DEF HistoryInv, HistoryTyped
<1> QED BY <1>1 DEF ViewKept, QueuedOn, Queued

LEMMA StepKeepsView == WriteInv /\ [Next]_vars => ViewKept
<1> SUFFICES ASSUME WriteInv, [Next]_vars PROVE ViewKept
    OBVIOUS
<1>0. /\ cache \in [Keys -> [version : Nat, committed : BOOLEAN]]
      /\ \A k \in Keys : cache[k].version \in Nat /\ cache[k].version <= Len(log)
      /\ log \in Seq(Commit) /\ written \in Seq([user : Users, key : Keys])
      /\ user \in Users /\ \A u \in Users : queue[u] \in Seq(Batch)
    BY Current DEF HistoryInv, HistoryTyped, ServerSound
<1>1. CASE OnWriteStreamMutationResult
    <2>1. pipeline # <<>> /\ RemoveMutationBatch(Head(pipeline))
          /\ UNCHANGED <<user, written, log>>
        BY <1>1, Zenon DEF OnWriteStreamMutationResult
    <2>2. CacheGrows /\ Reached(Oldest.write)
        BY <1>1, ResultReached
    <2>3. ASSUME NEW k \in Keys, NEW w \in QueuedOn(k), w \notin QueuedOn(k)'
          PROVE  \E v \in 1 .. cache'[k].version : log'[v].write = w
        <3>1. Queued(user, w) /\ written[w].key = k /\ w \in DOMAIN written
            BY <2>3 DEF QueuedOn
        <3>2. ~Queued(user, w)'
            BY <2>1, <2>3, <3>1 DEF QueuedOn
        <3>3. Queued(user, w)' \/ w = Oldest.write
            BY <1>0, <2>1, <3>1, StillQueued
        <3> QED BY <2>1, <2>2, <3>1, <3>2, <3>3 DEF Reached
    <2> QED BY <2>2, <2>3 DEF ViewKept, CacheGrows
<1>2. CASE HandleWriteError
    <2>1. pipeline # <<>> /\ RemoveMutationBatch(Head(pipeline))
          /\ refusal # 0 /\ CallDestroyed /\ UNCHANGED <<user, written, log, cache>>
        BY <1>2, Zenon DEF HandleWriteError, PermanentError
    <2>2. /\ Oldest.write \in refused \/ Committed(Oldest.write)
          /\ Head(pipeline).write = Oldest.write /\ refusal' = 0
        BY <1>2, <2>1, RejectedOldest, OldestFirst DEF CallDestroyed
    <2>3. ASSUME NEW k \in Keys, NEW w \in QueuedOn(k), w \notin QueuedOn(k)'
          PROVE  RejectedBy(w)
        <3>1. Queued(user, w) /\ written[w].key = k /\ w \in DOMAIN written
            BY <2>3 DEF QueuedOn
        <3>2. ~Queued(user, w)'
            BY <2>1, <2>3, <3>1 DEF QueuedOn
        <3>3. Queued(user, w)' \/ w = Oldest.write
            BY <1>0, <2>1, <3>1, StillQueued
        <3> QED BY <2>1, <2>2, <3>2, <3>3 DEF RejectedBy
    <2> QED BY <1>0, <2>1, <2>3 DEF ViewKept
<1>3. ASSUME NEW j \in Keys, WriteMutations(j) PROVE ViewKept
    <2> DEFINE b == [id |-> nextBatchId, write |-> Len(written) + 1]
               x == [user |-> user, key |-> j]
    <2>1. /\ queue' = [queue EXCEPT ![user] = Append(queue[user], b)]
          /\ written' = Append(written, x) /\ user' = user /\ cache' = cache
        BY <1>3, Zenon DEF WriteMutations
    <2> HIDE DEF b, x
    <2>2. queue'[user] = Append(queue[user], b)
        BY <1>0, <2>1, Current DEF DiskInv, DiskTyped
    <2>3. ASSUME NEW k \in Keys, NEW w \in QueuedOn(k) PROVE w \in QueuedOn(k)'
        <3>1. w \in DOMAIN written /\ written[w].key = k
            BY <2>3 DEF QueuedOn
        <3>2. w \in DOMAIN written' /\ written'[w] = written[w]
            BY <1>0, <2>1, <3>1
        <3>3. PICK i \in DOMAIN queue[user] : queue[user][i].write = w
            BY <2>3 DEF QueuedOn, Queued
        <3>4. queue[user] \in Seq(Batch) /\ i \in 1 .. Len(queue[user])
            BY <1>0, <3>3
        <3>5. i \in DOMAIN Append(queue[user], b)
              /\ Append(queue[user], b)[i] = queue[user][i]
            BY ONLY <3>4
        <3>6. Queued(user, w)'
            BY <2>1, <2>2, <3>3, <3>5 DEF Queued
        <3> QED BY <2>1, <3>1, <3>2, <3>6 DEF QueuedOn
    <2> QED BY <1>0, <2>1, <2>3 DEF ViewKept
<1>4. ASSUME NEW k \in Keys, NEW v \in {NoVersion} \cup DOMAIN log,
             ApplyRemoteEvent(k, v)
      PROVE  ViewKept
    <2>1. /\ queue' = queue /\ written' = written /\ user' = user
          /\ cache' = [cache EXCEPT ![k] = [version |-> v, committed |-> FALSE]]
        BY <1>4 DEF ApplyRemoteEvent, client, history
    <2>2. v \in Nat /\ (v >= cache[k].version \/ v = NoVersion)
        <3>1. v \in Nat
            BY <1>0 DEF NoVersion
        <3> QED BY <1>0, <1>4, <3>1 DEF ApplyRemoteEvent
    <2>3. \A j \in Keys :
             cache[j].version <= cache'[j].version \/ cache'[j].version = NoVersion
        BY <1>0, <2>1, <2>2
    <2> QED BY <2>1, <2>3 DEF ViewKept, QueuedOn, Queued
<1>5. ASSUME NEW u \in Users, HandleCredentialChange(u) PROVE ViewKept
    <2>1. queue' = queue /\ written' = written /\ cache' = cache
        BY <1>5, Zenon DEF HandleCredentialChange, store
    <2> QED BY <2>1, ViewKeptByFrame
<1>6. CASE Relaunch
    <2>1. queue' = queue /\ written' = written /\ cache' = cache
        BY <1>6, Zenon DEF Relaunch, store
    <2> QED BY <2>1, ViewKeptByFrame
<1>7. CASE Server \/ ResumeStartWithCredentials \/ OnWriteStreamHandshakeComplete
           \/ BackoffElapses \/ OnWriteStreamError \/ IdleElapses
           \/ (\E k \in Keys : ForeignWrite(k)) \/ UNCHANGED vars
    <2>1. queue' = queue /\ written' = written /\ cache' = cache
        BY <1>7 DEF Server, ServerHandshake, ServerCommit, ServerRefuse,
           ResumeStartWithCredentials, OnWriteStreamHandshakeComplete, BackoffElapses,
           OnWriteStreamError, IdleElapses, ForeignWrite, vars, store, history
    <2> QED BY <2>1, ViewKeptByFrame
<1> QED BY <1>1, <1>2, <1>3, <1>4, <1>5, <1>6, <1>7 DEF Next, Client, Environment

(* While a user stays, a queued write goes out of the app's sight only for   *)
(* a version as new as itself (LocalStore::AcknowledgeBatch) or by a refusal *)
(* (RejectBatch), and a version of the cache only for a newer one or none.   *)
THEOREM WritesViewHandedOver == Spec => ViewHandedOver
<1>1. WriteInv /\ [Next]_vars =>
        [\A k \in Keys :
            /\ cache[k].version <= cache'[k].version \/ cache'[k].version = NoVersion
            /\ \A w \in QueuedOn(k) :
                  \/ user' # user
                  \/ w \in QueuedOn(k)'
                  \/ RejectedBy(w)
                  \/ \E v \in 1 .. cache'[k].version : log'[v].write = w]_vars
    BY StepKeepsView DEF ViewKept
<1> QED BY <1>1, Invariance, PTL DEF Spec, ViewHandedOver

----------------------------------------------------------------------------
\* The numbers of the writes in a sequence of batches or commits.
WritesOf(s) == [i \in DOMAIN s |-> s[i].write]

LEMMA Numbers ==
    ASSUME NEW S, NEW s \in Seq(S), \A x \in S : x.write \in Nat
    PROVE  /\ WritesOf(s) \in Seq(Nat) /\ Len(WritesOf(s)) = Len(s)
           /\ DOMAIN WritesOf(s) = 1 .. Len(s)
           /\ \A i \in 1 .. Len(s) : WritesOf(s)[i] = s[i].write
<1>1. DOMAIN s = 1 .. Len(s) /\ Len(s) \in Nat /\ \A i \in 1 .. Len(s) : s[i] \in S
    OBVIOUS
<1>2. WritesOf(s) = [i \in 1 .. Len(s) |-> s[i].write]
    BY <1>1 DEF WritesOf
<1>3. \A i \in 1 .. Len(s) : s[i].write \in Nat
    BY <1>1
<1> QED BY <1>1, <1>2, <1>3

LEMMA NumbersAppend ==
    ASSUME NEW S, NEW s \in Seq(S), \A x \in S : x.write \in Nat, NEW e \in S
    PROVE  WritesOf(Append(s, e)) = Append(WritesOf(s), e.write)
<1> DEFINE t == Append(s, e)
           left == WritesOf(t)
           right == Append(WritesOf(s), e.write)
<1>1. t \in Seq(S) /\ Len(t) = Len(s) + 1 /\ Len(s) \in Nat
      /\ \A i \in 1 .. Len(s) + 1 : t[i] = IF i = Len(s) + 1 THEN e ELSE s[i]
    OBVIOUS
<1>2. /\ left \in Seq(Nat) /\ Len(left) = Len(t)
      /\ \A i \in 1 .. Len(t) : left[i] = t[i].write
    BY <1>1, Numbers
<1>3. /\ WritesOf(s) \in Seq(Nat) /\ Len(WritesOf(s)) = Len(s)
      /\ \A i \in 1 .. Len(s) : WritesOf(s)[i] = s[i].write
    BY Numbers
<1>4. /\ right \in Seq(Nat) /\ Len(right) = Len(s) + 1
      /\ \A i \in 1 .. Len(s) + 1 :
            right[i] = IF i = Len(s) + 1 THEN e.write ELSE WritesOf(s)[i]
    BY <1>3
<1>5. ASSUME NEW i \in 1 .. Len(left) PROVE left[i] = right[i]
    <2>1. CASE i = Len(s) + 1
        BY <1>1, <1>2, <1>4, <2>1
    <2>2. CASE i # Len(s) + 1
        <3>1. i \in 1 .. Len(s)
            BY <1>1, <1>2, <2>2
        <3> QED BY <1>1, <1>2, <1>3, <1>4, <2>2, <3>1
    <2> QED BY <2>1, <2>2
<1> HIDE DEF left, right
<1>6. Len(left) = Len(right)
    BY <1>1, <1>2, <1>4
<1>7. left = right
    BY <1>2, <1>4, <1>5, <1>6, SeqEqual
<1> QED BY <1>7 DEF left, right

LEMMA NumbersTail ==
    ASSUME NEW S, NEW s \in Seq(S), \A x \in S : x.write \in Nat, Len(s) >= 1,
           NEW t \in Seq(S), Len(t) = Len(s) - 1,
           \A i \in 1 .. Len(s) - 1 : t[i] = s[i + 1]
    PROVE  WritesOf(t) = Tail(WritesOf(s)) /\ WritesOf(s) # <<>>
           /\ Head(WritesOf(s)) = s[1].write
<1>1. /\ WritesOf(s) \in Seq(Nat) /\ Len(WritesOf(s)) = Len(s) /\ Len(s) \in Nat
      /\ \A i \in 1 .. Len(s) : WritesOf(s)[i] = s[i].write
    BY Numbers
<1>2. /\ WritesOf(t) \in Seq(Nat) /\ Len(WritesOf(t)) = Len(t)
      /\ \A i \in 1 .. Len(t) : WritesOf(t)[i] = t[i].write
    BY Numbers
<1>3. WritesOf(s) # <<>> /\ Head(WritesOf(s)) = s[1].write
    BY <1>1
<1> DEFINE left == WritesOf(t)
           right == Tail(WritesOf(s))
<1>4. /\ right \in Seq(Nat) /\ Len(right) = Len(s) - 1
      /\ \A i \in 1 .. Len(s) - 1 : right[i] = WritesOf(s)[i + 1]
    BY <1>1, <1>3
<1>5. ASSUME NEW i \in 1 .. Len(left) PROVE left[i] = right[i]
    <2>1. i \in 1 .. Len(t) /\ i \in 1 .. Len(s) - 1 /\ i + 1 \in 1 .. Len(s)
        BY <1>1, <1>2
    <2> QED BY <1>1, <1>2, <1>4, <2>1
<1> HIDE DEF left, right
<1>6. Len(left) = Len(right) /\ left \in Seq(Nat)
    BY <1>2, <1>4 DEF left
<1>7. left = right
    BY <1>4, <1>5, <1>6, SeqEqual
<1> QED BY <1>3, <1>7 DEF left, right

LEMMA WriteNumbers ==
    /\ \A x \in Batch : x.write \in Nat
    /\ \A x \in Commit : x.write \in Nat
    BY PipelineAssumption DEF Batch, Commit, Writes

\* The state of WriteQueue: its queues and its log.
Queues == [u \in Users |-> WritesOf(queue[u])]

LEMMA InitDelivers == Init => Promise!Init
<1> SUFFICES ASSUME Init PROVE Promise!Init
    OBVIOUS
<1>1. \A u \in Users : queue[u] = <<>>
    BY DEF Init
<1>2. \A u \in Users : [i \in DOMAIN queue[u] |-> queue[u][i].write] = <<>>
    BY <1>1
<1>3. [v \in DOMAIN log |-> log[v].write] = <<>>
    BY DEF Init
<1>4. user \in Users /\ Len(written) = 0
    BY PipelineAssumption DEF Init
<1>5. told = [w \in 1 .. MaxWrites |-> "none"]
    BY DEF Init, Writes
<1> QED BY <1>2, <1>3, <1>4, <1>5 DEF Promise!Init

LEMMA WriteDelivers ==
    ASSUME WriteInv, NEW k \in Keys, WriteMutations(k) PROVE Promise!Write
<1> DEFINE w == Len(written) + 1
           b == [id |-> nextBatchId, write |-> w]
<1>1. /\ queue \in [Users -> Seq(Batch)] /\ user \in Users /\ nextBatchId \in Nat
      /\ written \in Seq([user : Users, key : Keys]) /\ Len(written) \in Nat
    BY DEF WriteInv, TypeOK
<1>2. /\ Len(written) < MaxWrites
      /\ queue' = [queue EXCEPT ![user] = Append(queue[user], b)]
      /\ written' = Append(written, [user |-> user, key |-> k])
      /\ user' = user /\ log' = log /\ told' = told
    BY Zenon DEF WriteMutations
<1>3. b \in Batch /\ b.write = w
    BY <1>1, <1>2, PipelineAssumption DEF Batch, Writes
<1>4. Len(written') = w
    BY <1>1, <1>2
<1> HIDE DEF b
<1>5. \A u \in Users : queue'[u] = IF u = user THEN Append(queue[user], b) ELSE queue[u]
    BY <1>1, <1>2
<1>6. WritesOf(Append(queue[user], b)) = Append(WritesOf(queue[user]), w)
    <2>1. queue[user] \in Seq(Batch)
        BY <1>1
    <2> QED BY <1>3, <2>1, WriteNumbers, NumbersAppend
<1>7. Queues' = [Queues EXCEPT ![user] = Append(Queues[user], w)]
    <2>1. \A u \in Users : WritesOf(queue'[u]) =
             IF u = user THEN Append(WritesOf(queue[user]), w) ELSE WritesOf(queue[u])
        BY <1>5, <1>6, Zenon
    <2>2. Queues' = [u \in Users |-> WritesOf(queue'[u])]
        BY DEF Queues, WritesOf
    <2>3. Queues[user] = WritesOf(queue[user])
        BY <1>1 DEF Queues
    <2> QED BY <1>1, <2>1, <2>2, <2>3 DEF Queues
<1> QED BY <1>2, <1>4, <1>7 DEF Promise!Write, Queues, WritesOf

LEMMA CommitDelivers ==
    ASSUME WriteInv, ServerCommit PROVE Promise!Deliver
<1> DEFINE w == Head(requests).write
           c == [key |-> written[w].key, write |-> w]
           n == Len(responses) + 1
           q == queue[user]
<1>1. /\ requests # <<>> /\ refusal = 0 /\ log' = Append(log, c)
      /\ queue' = queue /\ user' = user /\ written' = written /\ told' = told
    BY DEF ServerCommit, store, client, stream, history
<1>2. /\ w \in Writes /\ w <= Len(written) /\ n \in 1 .. Len(pipeline)
      /\ Head(requests) = pipeline[n]
      /\ \A i \in 1 .. Len(responses) :
            /\ i \in 1 .. Len(pipeline) /\ responses[i] \in 1 .. Len(log)
            /\ log[responses[i]].write = pipeline[i].write
    BY <1>1, Read
<1>3. /\ q \in Seq(Batch) /\ user \in Users /\ Len(pipeline) <= Len(q)
      /\ pipeline \in Seq(Batch) /\ log \in Seq(Commit) /\ Len(responses) \in Nat
      /\ \A i \in 1 .. Len(pipeline) : pipeline[i] = q[i]
    BY Current DEF IsPrefix, StreamInv, StreamTyped, HistoryInv, HistoryTyped
<1>4. c \in Commit /\ c.write = w
    BY <1>2, KeyOf DEF Commit, Writes
<1>5. /\ DOMAIN WritesOf(q) = 1 .. Len(q)
      /\ \A i \in 1 .. Len(q) : WritesOf(q)[i] = q[i].write
    BY <1>3, WriteNumbers, Numbers
<1>6. /\ DOMAIN WritesOf(log) = 1 .. Len(log)
      /\ \A v \in 1 .. Len(log) : WritesOf(log)[v] = log[v].write
    BY <1>3, WriteNumbers, Numbers
<1>7. n \in DOMAIN WritesOf(q) /\ WritesOf(q)[n] = w
    <2>1. n \in 1 .. Len(q)
        BY <1>2, <1>3
    <2> QED BY <1>2, <1>3, <1>5, <2>1
<1>8. ASSUME NEW i \in 1 .. n - 1
      PROVE  \E v \in DOMAIN WritesOf(log) : WritesOf(log)[v] = WritesOf(q)[i]
    <2>1. i \in 1 .. Len(responses) /\ i \in 1 .. Len(q)
        BY <1>2, <1>3
    <2>2. responses[i] \in 1 .. Len(log) /\ log[responses[i]].write = q[i].write
        BY <1>2, <1>3, <2>1
    <2> QED BY <1>5, <1>6, <2>1, <2>2
<1> HIDE DEF c, w, n, q
<1>9. WritesOf(log') = Append(WritesOf(log), w)
    BY <1>1, <1>3, <1>4, WriteNumbers, NumbersAppend
<1>10. Queues[user] = WritesOf(q)
    BY <1>3 DEF Queues, q
<1>11. /\ n \in DOMAIN Queues[user]
       /\ \A i \in 1 .. n - 1 :
             \E v \in DOMAIN WritesOf(log) : WritesOf(log)[v] = Queues[user][i]
       /\ WritesOf(log') = Append(WritesOf(log), Queues[user][n])
    BY <1>7, <1>8, <1>9, <1>10, Zenon
<1> QED BY <1>1, <1>11 DEF Promise!Deliver, Promise!Delivered, Queues, WritesOf

\* The oldest batch is settled in both.
LEMMA SettleDelivers ==
    ASSUME WriteInv, pipeline # <<>>, RemoveMutationBatch(Head(pipeline)),
           NEW status \in {"ok", "error"}, NotifyUser(Head(pipeline).id, status),
           UNCHANGED <<user, written, log>>,
           status = "ok" => Committed(Oldest.write)
    PROVE  Promise!Settle(status)
<1>1. /\ queue' \in [Users -> Seq(Batch)] /\ queue \in [Users -> Seq(Batch)]
      /\ user \in Users /\ log \in Seq(Commit)
      /\ \A u \in Users : u # user => queue'[u] = queue[u]
      /\ Len(queue'[user]) = Len(queue[user]) - 1
      /\ \A i \in 1 .. Len(queue[user]) - 1 : queue'[user][i] = queue[user][i + 1]
    BY Removed DEF WriteInv, TypeOK
<1>2. told' \in {told, [told EXCEPT ![Oldest.write] = status]}
    BY Notified
<1>3. Len(queue[user]) >= 1 /\ told[Oldest.write] = "none"
    BY OldestFirst DEF BatchOf, BatchIn
<1>4. queue[user] \in Seq(Batch) /\ queue'[user] \in Seq(Batch)
    BY <1>1
<1>5. /\ WritesOf(queue'[user]) = Tail(WritesOf(queue[user]))
      /\ WritesOf(queue[user]) # <<>>
      /\ Head(WritesOf(queue[user])) = Oldest.write
    BY <1>1, <1>3, <1>4, WriteNumbers, NumbersTail DEF Oldest
<1>6. Queues[user] = WritesOf(queue[user])
    BY <1>1 DEF Queues
<1>7. Queues' = [Queues EXCEPT ![user] = Tail(Queues[user])]
    <2>1. \A u \in Users : WritesOf(queue'[u]) =
             IF u = user THEN Tail(WritesOf(queue[user])) ELSE WritesOf(queue[u])
        BY <1>1, <1>5
    <2>2. Queues' = [u \in Users |-> WritesOf(queue'[u])]
        BY DEF Queues, WritesOf
    <2> QED BY <1>1, <1>6, <2>1, <2>2 DEF Queues
<1>8. status = "ok" =>
         \E v \in DOMAIN WritesOf(log) : WritesOf(log)[v] = Head(Queues[user])
    BY <1>5, <1>6 DEF Committed, WritesOf
<1>9. /\ Queues[user] # <<>> /\ told[Head(Queues[user])] = "none"
      /\ told' \in {told, [told EXCEPT ![Head(Queues[user])] = status]}
    BY <1>2, <1>3, <1>5, <1>6
<1>10. user' = user /\ Len(written)' = Len(written) /\ WritesOf(log)' = WritesOf(log)
    BY DEF WritesOf
<1> QED BY <1>7, <1>8, <1>9, <1>10
        DEF Promise!Settle, Promise!Delivered, Queues, WritesOf

LEMMA StepDelivers == WriteInv /\ [Next]_vars => [Promise!Next]_Promise!vars
<1> SUFFICES ASSUME WriteInv, [Next]_vars PROVE [Promise!Next]_Promise!vars
    OBVIOUS
<1>1. ASSUME NEW k \in Keys, WriteMutations(k) PROVE Promise!Next
    BY <1>1, WriteDelivers DEF Promise!Next
<1>2. CASE ServerCommit
    BY <1>2, CommitDelivers DEF Promise!Next
<1>3. CASE OnWriteStreamMutationResult
    <2>1. /\ pipeline # <<>> /\ RemoveMutationBatch(Head(pipeline))
          /\ NotifyUser(Head(pipeline).id, "ok") /\ UNCHANGED <<user, written, log>>
        BY <1>3, Zenon DEF OnWriteStreamMutationResult
    <2>2. Committed(Oldest.write)
        BY <1>3, ResultReached
    <2>3. Promise!Settle("ok")
        BY <2>1, <2>2, SettleDelivers
    <2> QED BY <2>3 DEF Promise!Next
<1>4. CASE HandleWriteError
    <2>1. /\ pipeline # <<>> /\ RemoveMutationBatch(Head(pipeline))
          /\ NotifyUser(Head(pipeline).id, "error") /\ UNCHANGED <<user, written, log>>
        BY <1>4, Zenon DEF HandleWriteError
    <2>2. Promise!Settle("error")
        BY <2>1, SettleDelivers
    <2> QED BY <2>2 DEF Promise!Next
<1>5. ASSUME NEW k \in Keys, ForeignWrite(k) PROVE Promise!Next
    <2> DEFINE c == [key |-> k, write |-> 0]
    <2>1. /\ log' = Append(log, c) /\ queue' = queue /\ user' = user
          /\ written' = written /\ told' = told
        BY <1>5 DEF ForeignWrite, store, client, history
    <2>2. c \in Commit /\ c.write = 0 /\ log \in Seq(Commit)
        BY PipelineAssumption, Current DEF Commit, HistoryInv, HistoryTyped
    <2> HIDE DEF c
    <2>3. WritesOf(log') = Append(WritesOf(log), 0)
        BY <2>1, <2>2, WriteNumbers, NumbersAppend
    <2>4. Promise!ForeignWrite
        BY <2>1, <2>3 DEF Promise!ForeignWrite, WritesOf
    <2> QED BY <2>4 DEF Promise!Next
<1>6. ASSUME UNCHANGED <<queue, written, log, told>>, user' \in Users
      PROVE  Promise!Next
    BY <1>6 DEF Promise!Next, Promise!ChangeUser
<1>7. ASSUME NEW u \in Users, HandleCredentialChange(u) PROVE Promise!Next
    <2>1. UNCHANGED <<queue, written, log, told>> /\ user' = u
        BY <1>7, Zenon DEF HandleCredentialChange, store
    <2> QED BY <1>6, <2>1
<1>8. CASE Relaunch \/ ServerHandshake \/ ServerRefuse \/ ResumeStartWithCredentials
           \/ OnWriteStreamHandshakeComplete \/ BackoffElapses \/ OnWriteStreamError
           \/ IdleElapses \/ UNCHANGED vars
           \/ \E k \in Keys : \E v \in {NoVersion} \cup DOMAIN log : ApplyRemoteEvent(k, v)
    <2>1. UNCHANGED <<queue, written, log, told, user>>
        BY <1>8 DEF Relaunch, ServerHandshake, ServerRefuse, ResumeStartWithCredentials,
           OnWriteStreamHandshakeComplete, BackoffElapses, OnWriteStreamError,
           IdleElapses, ApplyRemoteEvent, vars, store, client, history
    <2> QED BY <2>1 DEF Promise!vars
<1> QED BY <1>1, <1>2, <1>3, <1>4, <1>5, <1>7, <1>8
        DEF Next, Server, Client, Environment

(* The machinery of queue, pipeline and stream implements WriteQueue: per    *)
(* user in order, at least once, settled from the front with the server's    *)
(* answer, each handler called at most once.                                 *)
THEOREM WritesDeliver == Spec => Delivers
    BY InitHolds, StepHolds, InitDelivers, StepDelivers, PTL
       DEF Spec, Delivers, Promise!Spec
=============================================================================
