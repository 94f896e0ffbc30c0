------------------------- MODULE WatchTargetProofs -------------------------
(* The safety properties of WatchTarget, for any set of documents and any   *)
(* bounds.  What the view and LevelDB have is explained by what is still on *)
(* its way: the invariant follows the messages in toClient one by one.      *)
EXTENDS WatchTarget, FiniteSetTheorems, TLAPS

USE TargetAssumption

(* What travels on the stream.                                              *)
Requests == [type : {"unwatch"}] \cup [type : {"watch"}, token : 0 .. MaxVersion, r : Nat]

Responses ==
    [type : {"added"}, token : {0}]
      \cup [type : {"removed"}]
      \cup [type : {"error"}, alone : BOOLEAN]
      \cup [type : {"add", "remove"}, doc : Docs, r : Nat]
      \cup [type : {"reset"}, token : {0}, r : Nat]
      \cup [type : {"current"}, token : 0 .. MaxVersion, r : Nat]
      \cup [type : {"filter"}, count : Nat, r : Nat]
      \cup [type : {"snapshot"}, version : 1 .. MaxVersion, token : 0 .. MaxVersion]

Served ==
    [on : {TRUE}, r : Nat, has : SUBSET Docs, started : BOOLEAN, current : BOOLEAN,
     filter : {"none", "due", "sent"}, news : BOOLEAN]

(* The answer to a request: a refusal is one when it is the only one.       *)
Acks(m) == m.type \in {"added", "removed"} \/ (m.type = "error" /\ m.alone)
Numbered(m) == m.type \in {"add", "remove", "reset", "current", "filter"}

Out(s) == IF s = NoState THEN 0 ELSE s.outstanding
Outstanding == Out(agg)

Typed ==
    /\ Types
    /\ toServer \in Seq(Requests) /\ toClient \in Seq(Responses)
    /\ srv \in Served \cup [on : {FALSE}, r : Nat] \cup {Off}

(* No version or token is ahead of the server.                              *)
Known ==
    /\ Latest \in 1 .. MaxVersion
    /\ at <= Latest /\ token <= Latest /\ heldToken <= Latest /\ sentToken <= Latest
    /\ agg # NoState => agg.token <= Latest
    /\ \A i \in 1 .. Len(toServer) :
          toServer[i].type = "watch" => toServer[i].token <= Latest
    /\ \A i \in 1 .. Len(toClient) :
          /\ toClient[i].type \in {"current", "snapshot"} => toClient[i].token <= Latest
          /\ toClient[i].type = "snapshot" => toClient[i].version <= Latest

(* Nothing is left of a closed stream; on an open one a target listened to  *)
(* has a state, or the count is upset and no target has been requested that *)
(* could be trusted.                                                        *)
Closed ==
    /\ ~open => /\ agg = NoState /\ ~mismatch /\ ~miscounted /\ srv = Off
                /\ toServer = <<>> /\ toClient = <<>>
    /\ open /\ listening /\ ~miscounted => agg # NoState
    /\ miscounted /\ listening => misled

(* The last request says whether the app listens, and what the view had.    *)
LastRequest ==
    /\ toServer = <<>> => /\ srv.on => open /\ listening
                          /\ open /\ listening => srv # Off /\ srv.r = requests
    /\ toServer # <<>> =>
          LET q == toServer[Len(toServer)]
          IN  /\ q.type = "watch" <=> listening
              /\ listening => /\ q.r = requests
                              /\ ~misled => At(q.token) = synced

(* g[i] is the number of answers awaited once i messages have been taken.   *)
(* All but those to the requests not received yet are in toClient; a        *)
(* response taken when none is awaited is one to the request being served,  *)
(* and finds the app listening; the last answer a target listened to awaits *)
(* adds it or refuses it, a count goes down only by answers to come, and a  *)
(* refusal that none follows is the last message.                           *)
Counts(g) ==
    /\ g \in [0 .. Len(toClient) -> Nat]
    /\ g[0] = Outstanding /\ g[Len(toClient)] = Len(toServer)
    /\ g[0] >= Len(toServer)
    /\ \A i \in 0 .. Len(toClient) :
          g[i] # Len(toServer) => \E j \in i + 1 .. Len(toClient) : Acks(toClient[j])
    /\ \A i \in 1 .. Len(toClient) :
          /\ g[i] = IF Acks(toClient[i]) THEN g[i - 1] - 1 ELSE g[i - 1]
          /\ g[i] >= Len(toServer)
          /\ Numbered(toClient[i]) /\ g[i - 1] = Len(toServer) =>
                srv # Off /\ toClient[i].r = srv.r
          /\ listening \/ g[i - 1] # 0
          /\ listening /\ g[i - 1] # 0 /\ g[i] = 0 =>
                toClient[i].type \in {"added", "error"}
          /\ toClient[i].type = "error" /\ g[i] = Len(toServer) =>
                i = Len(toClient) /\ ~srv.on

(* What a message makes of a set of documents.                              *)
Effect(S, m) ==
    CASE m.type = "add" -> S \cup {m.doc}
      [] m.type = "remove" -> S \ {m.doc}
      [] m.type = "reset" -> {}
      [] OTHER -> S

(* The documents are the server's until an existence filter says that they  *)
(* are not; the snapshot after it requests the target again.                *)
NextStage(e, m) ==
    CASE e = "good" /\ m.type = "filter" -> "lost"
      [] e = "lost" /\ m.type = "snapshot" -> "over"
      [] OTHER -> e

(* Nothing is pending for the target once i messages have been taken: the   *)
(* last one was an answer.                                                  *)
Idle(g, i) == IF i = 0 THEN ~agg.pending ELSE g[i - 1] # 0

(* A filter is sent only when documents have been forgotten; a snapshot has *)
(* a token when it is consistent with the documents sent, and else comes    *)
(* before any of them.                                                      *)
Honest(g, S, i) ==
    LET m == toClient[i]
    IN  /\ m.type = "filter" => m.count # Cardinality(S)
        /\ m.type = "snapshot" =>
              IF m.token = 0 THEN Idle(g, i - 1)
              ELSE m.token = m.version /\ S = results[m.version]

Viewed == IF Outstanding = 0 THEN (synced \cup agg.added) \ agg.removed ELSE synced

Starts(S, s) ==
    /\ s # "over"
    /\ s = "good" => S = Viewed
    /\ s = "lost" => Outstanding = 0 /\ mismatch /\ ~agg.current

Follows(g, f, e, i) ==
    /\ e[i] = IF g[i - 1] # 0 THEN e[i - 1] ELSE NextStage(e[i - 1], toClient[i])
    /\ e[i] = "good" =>
          f[i] = IF g[i - 1] # 0 THEN f[i - 1] ELSE Effect(f[i - 1], toClient[i])
    /\ g[i - 1] = 0 /\ e[i - 1] = "good" => Honest(g, f[i - 1], i)
    /\ g[i - 1] = 0 /\ e[i - 1] = "lost" => toClient[i].type # "current"

Ends(S, s, idle) ==
    srv.on =>
        /\ s = "good" =>
              /\ \/ srv.filter = "none" /\ srv.has = S
                 \/ srv.filter = "due" /\ srv.has \subseteq S /\ srv.has # S
              /\ ~srv.started /\ ~srv.current /\ srv.news => idle
        /\ s = "lost" => srv.filter = "sent"

(* f[i] is what the view would have, and e[i] the stage, once i messages    *)
(* have been taken; at the end of toClient it is what the server thinks the *)
(* client has.                                                              *)
Path(g, f, e) ==
    LET n == Len(toClient)
    IN  /\ f \in [0 .. n -> SUBSET Docs]
        /\ e \in [0 .. n -> {"good", "lost", "over"}]
        /\ Starts(f[0], e[0])
        /\ \A i \in 1 .. n : Follows(g, f, e, i)
        /\ Ends(f[n], e[n], Idle(g, n))

(* The documents on disk and in the view are those of their tokens.         *)
Stored ==
    ~misled =>
        /\ token \notin dated => keys = At(token)
        /\ listening /\ heldToken # 0 /\ heldToken \notin dated => keys = At(heldToken)
        /\ listening => synced = At(sentToken)
        /\ SyncedIsServer

(* What a state accumulated fits a view.                                    *)
Fits(S, s) ==
    s.modified \subseteq S /\ s.removed \subseteq S /\ s.added \cap S = {}

Sets == KeysOfView /\ (agg # NoState => Fits(keys, agg))

Quiet == open /\ listening /\ ~misled /\ toServer = <<>>

Chained == \E g : Counts(g) /\ (Quiet => \E f, e : Path(g, f, e))

(* The inductive invariant: the messages say what is to come as long as     *)
(* their answers are counted.                                               *)
Whole ==
    /\ Typed /\ Known /\ Closed /\ Stored /\ Sets
    /\ ~miscounted => LastRequest /\ Chained

-----------------------------------------------------------------------------
(* The fields a response has.                                               *)
LEMMA ResponseShape ==
  ASSUME NEW m \in Responses
  PROVE  /\ Acks(m) \/ Numbered(m) \/ m.type \in {"snapshot", "error"}
         /\ ~(Acks(m) /\ Numbered(m))
         /\ "r" \in DOMAIN m => Numbered(m)
         /\ Numbered(m) => m.r \in Nat
         /\ m.type \in {"add", "remove"} => m.doc \in Docs
         /\ m.type \in {"current", "snapshot"} => m.token \in 0 .. MaxVersion
         /\ m.type = "snapshot" => m.version \in 1 .. MaxVersion
         /\ m.type = "filter" => m.count \in Nat
         /\ m.type \in {"added", "reset"} => m.token = 0
         /\ m.type = "error" => m.alone \in BOOLEAN
         /\ \/ m.type \in {"added", "removed", "error", "snapshot"}
            \/ m.type \in {"add", "remove", "reset", "current", "filter"}
<1>0. CASE m \in [type : {"added"}, token : {0}]
  BY <1>0 DEF Acks, Numbered
<1>1. CASE m \in [type : {"removed"}]
  BY <1>1 DEF Acks, Numbered
<1>7. CASE m \in [type : {"error"}, alone : BOOLEAN]
  BY <1>7 DEF Acks, Numbered
<1>2. CASE m \in [type : {"add", "remove"}, doc : Docs, r : Nat]
  BY <1>2 DEF Acks, Numbered
<1>3. CASE m \in [type : {"reset"}, token : {0}, r : Nat]
  BY <1>3 DEF Acks, Numbered
<1>4. CASE m \in [type : {"current"}, token : 0 .. MaxVersion, r : Nat]
  BY <1>4 DEF Acks, Numbered
<1>5. CASE m \in [type : {"filter"}, count : Nat, r : Nat]
  BY <1>5 DEF Acks, Numbered
<1>6. CASE m \in [type : {"snapshot"}, version : 1 .. MaxVersion,
                  token : 0 .. MaxVersion]
  BY <1>6 DEF Acks, Numbered
<1> QED BY <1>0, <1>1, <1>2, <1>3, <1>4, <1>5, <1>6, <1>7 DEF Responses

(* The fields a request has.                                                *)
LEMMA RequestShape ==
  ASSUME NEW q \in Requests
  PROVE  /\ q.type \in {"watch", "unwatch"}
         /\ q.type = "watch" => q.token \in 0 .. MaxVersion /\ q.r \in Nat
<1>1. CASE q \in [type : {"unwatch"}]
  BY <1>1
<1>2. CASE q \in [type : {"watch"}, token : 0 .. MaxVersion, r : Nat]
  BY <1>2
<1> QED BY <1>1, <1>2 DEF Requests

(* A queue is empty when its length is zero.                                *)
LEMMA EmptyQueue ==
  ASSUME NEW S, NEW s \in Seq(S)
  PROVE  (s = <<>> <=> Len(s) = 0) /\ Len(s) \in Nat
  OBVIOUS

(* The first message taken from a queue.                                    *)
LEMMA Taken ==
  ASSUME NEW S, NEW s \in Seq(S), s # <<>>
  PROVE  /\ Len(s) \in Nat \ {0} /\ Head(s) = s[1] /\ s[1] \in S
         /\ Tail(s) \in Seq(S) /\ Len(Tail(s)) = Len(s) - 1
         /\ \A i \in 1 .. Len(s) - 1 : Tail(s)[i] = s[i + 1]
         /\ \A i \in 1 .. Len(s) : s[i] \in S
         /\ Tail(s) # s
         /\ Tail(s) = <<>> <=> Len(s) = 1
<1>1. /\ Len(s) \in Nat \ {0} /\ Head(s) = s[1] /\ s[1] \in S
      /\ Tail(s) \in Seq(S) /\ Len(Tail(s)) = Len(s) - 1
      /\ \A i \in 1 .. Len(s) - 1 : Tail(s)[i] = s[i + 1]
      /\ \A i \in 1 .. Len(s) : s[i] \in S
  OBVIOUS
<1>2. ASSUME NEW t \in Seq(S), Len(t) = Len(s) - 1
      PROVE  t # s /\ (t = <<>> <=> Len(s) = 1)
  BY <1>1, <1>2, EmptyQueue
<1>3. Tail(s) # s /\ (Tail(s) = <<>> <=> Len(s) = 1)
  BY <1>1, <1>2, Zenon
<1> QED BY <1>1, <1>2, <1>3

(* A message put at the end of a queue.                                     *)
LEMMA Added ==
  ASSUME NEW S, NEW s \in Seq(S), NEW x \in S
  PROVE  /\ Append(s, x) \in Seq(S) /\ Len(Append(s, x)) = Len(s) + 1 /\ Len(s) \in Nat
         /\ \A i \in 1 .. Len(s) : Append(s, x)[i] = s[i] /\ s[i] \in S
         /\ Append(s, x)[Len(s) + 1] = x
         /\ Append(s, x) # <<>> /\ Append(s, x) # s
         /\ s # <<>> => Append(s, x) # Tail(s)
<1>1. /\ Append(s, x) \in Seq(S) /\ Len(Append(s, x)) = Len(s) + 1 /\ Len(s) \in Nat
      /\ \A i \in 1 .. Len(s) : Append(s, x)[i] = s[i] /\ s[i] \in S
      /\ Append(s, x)[Len(s) + 1] = x
      /\ Append(s, x) # <<>> /\ Append(s, x) # s
  OBVIOUS
<1>2. s # <<>> => Append(s, x) # Tail(s)
  BY <1>1, Taken
<1> QED BY <1>1, <1>2

-----------------------------------------------------------------------------
(* The documents the view will have once a state's changes are applied.     *)
Applied(S, s) == (S \cup s.added) \ s.removed

(* A state has its fields; no entry is none.                                *)
LEMMA StateShape ==
  /\ Fresh \in TargetStates /\ \A S : Fits(S, Fresh)
  /\ Fresh.outstanding = 0 /\ Fresh.token = 0 /\ ~Fresh.current
  /\ \A s \in TargetStates :
        /\ s # NoState /\ s.outstanding \in Int /\ s.current \in BOOLEAN
        /\ s.pending \in BOOLEAN /\ s.token \in 0 .. MaxVersion
        /\ s.added \subseteq Docs /\ s.modified \subseteq Docs /\ s.removed \subseteq Docs
<1>1. /\ Fresh \in TargetStates /\ \A S : Fits(S, Fresh)
      /\ Fresh.outstanding = 0 /\ Fresh.token = 0 /\ ~Fresh.current
  BY DEF Fresh, TargetStates, Fits
<1>2. ASSUME NEW s \in TargetStates
      PROVE  /\ s # NoState /\ s.outstanding \in Int /\ s.current \in BOOLEAN
             /\ s.pending \in BOOLEAN /\ s.token \in 0 .. MaxVersion
             /\ s.added \subseteq Docs /\ s.modified \subseteq Docs
             /\ s.removed \subseteq Docs
  BY DEF TargetStates, NoState
<1> QED BY <1>1, <1>2

(* The entry that a handler looks up or makes.                              *)
LEMMA EnsuredShape ==
  ASSUME Typed
  PROVE  /\ Ensured \in TargetStates /\ Ensured.outstanding = Outstanding
         /\ Outstanding \in Int
         /\ agg # NoState => agg \in TargetStates /\ Ensured = agg
         /\ agg = NoState => Ensured = Fresh
         /\ IsPending(agg) <=> Outstanding # 0
  BY StateShape DEF Typed, Types, Ensured, EnsureTargetState, Outstanding, Out, IsPending

(* One more request awaits its answer.                                      *)
LEMMA Requested ==
  ASSUME NEW s \in TargetStates \cup {NoState}
  PROVE  LET u == RecordPendingTargetRequest(s)
         IN  /\ u \in TargetStates /\ u # NoState /\ Out(u) = Out(s) + 1
             /\ u.token = IF s = NoState THEN 0 ELSE s.token
             /\ \A S : (s # NoState => Fits(S, s)) => Fits(S, u)
<1> DEFINE t == EnsureTargetState(s)
<1>1. /\ t \in TargetStates /\ t.outstanding = Out(s)
      /\ t.token = IF s = NoState THEN 0 ELSE s.token
      /\ \A S : (s # NoState => Fits(S, s)) => Fits(S, t)
  BY StateShape DEF EnsureTargetState, Out
<1>2. t.outstanding \in Int
  BY <1>1, StateShape
<1>3. LET u == RecordPendingTargetRequest(s)
      IN  /\ u = [t EXCEPT !.outstanding = t.outstanding + 1]
          /\ u \in TargetStates /\ u.outstanding = t.outstanding + 1 /\ u.token = t.token
          /\ u.added = t.added /\ u.modified = t.modified /\ u.removed = t.removed
  BY <1>1, <1>2 DEF TargetStates, RecordPendingTargetRequest
<1> QED BY <1>1, <1>3, StateShape DEF Out, Fits

(* A token marks the state as changed.                                      *)
LEMMA Tokened ==
  ASSUME NEW s \in TargetStates, NEW t \in 0 .. MaxVersion
  PROVE  LET u == UpdateResumeToken(s, t)
         IN  /\ u \in TargetStates
             /\ t = 0 => u = s
             /\ t # 0 => u.pending /\ u.token = t
             /\ u.outstanding = s.outstanding /\ u.current = s.current
             /\ u.added = s.added /\ u.modified = s.modified /\ u.removed = s.removed
  BY DEF TargetStates, UpdateResumeToken

(* A state whose changes were applied has none.                             *)
LEMMA Cleared ==
  ASSUME NEW s \in TargetStates
  PROVE  LET u == ClearPendingChanges(s)
         IN  /\ u \in TargetStates /\ ~u.pending
             /\ u.outstanding = s.outstanding /\ u.current = s.current
             /\ u.token = s.token
             /\ u.added = {} /\ u.modified = {} /\ u.removed = {}
  BY DEF TargetStates, ClearPendingChanges

(* An answer: nothing else of the state changes until the last one has come.*)
LEMMA HandledAnswer ==
  ASSUME Typed, NEW m \in Responses, m.type \in {"added", "removed"}
  PROVE  LET s == Handled(m)
         IN  /\ s \in TargetStates \cup {NoState} /\ Out(s) = Outstanding - 1
             /\ s = NoState <=> m.type = "removed" /\ Outstanding = 1
             /\ s # NoState => s.token = Ensured.token
             /\ s # NoState /\ Outstanding = 1 =>
                   ~s.pending /\ s.added = {} /\ s.modified = {} /\ s.removed = {}
             /\ \A S : s # NoState /\ Fits(S, Ensured) => Fits(S, s)
<1>1. /\ Ensured \in TargetStates /\ Ensured.outstanding = Outstanding
      /\ Outstanding \in Int
  BY EnsuredShape
<1> DEFINE s == RecordTargetResponse(Ensured)
<1>2. /\ s \in TargetStates /\ s.outstanding = Outstanding - 1
      /\ s.token = Ensured.token
      /\ s.added = Ensured.added /\ s.modified = Ensured.modified
      /\ s.removed = Ensured.removed
  BY <1>1 DEF TargetStates, RecordTargetResponse
<1>3. s # NoState /\ (IsPending(s) <=> Outstanding # 1)
  BY <1>1, <1>2, StateShape DEF IsPending
<1> HIDE DEF s
<1>4. CASE m.type = "added"
  <2>1. Handled(m) = UpdateResumeToken(IF IsPending(s) THEN s ELSE ClearPendingChanges(s),
                                       m.token)
    BY <1>4 DEF Handled, s
  <2>2. Handled(m) = IF IsPending(s) THEN s ELSE ClearPendingChanges(s)
    BY <1>4, <2>1, ResponseShape DEF UpdateResumeToken
  <2> QED BY <1>1, <1>2, <1>3, <1>4, <2>2, Cleared, StateShape DEF Out, Fits
<1>5. CASE m.type = "removed"
  <2>1. Handled(m) = IF IsPending(s) THEN s ELSE NoState
    BY <1>5 DEF Handled, s
  <2>2. NoState.outstanding = 0
    BY DEF NoState
  <2> QED BY <1>1, <1>2, <1>3, <1>5, <2>1 DEF Out, Fits
<1> QED BY <1>4, <1>5

(* The app does not listen, or the target awaits an answer: a response      *)
(* changes nothing but may make an empty entry.                             *)
LEMMA HandledInactive ==
  ASSUME Typed, ~IsActive, NEW m \in Responses, m.type \notin {"added", "removed"}
  PROVE  /\ Handled(m) \in {agg, Ensured}
         /\ m.type = "snapshot" => Handled(m) = agg
  BY DEF Handled

(* A document that comes, and one that goes.                                *)
LEMMA DocumentChanged ==
  ASSUME NEW s \in TargetStates, Fits(synced, s), NEW d \in Docs
  PROVE  /\ AddDocumentToTarget(s, d) \in TargetStates
         /\ AddDocumentToTarget(s, d).outstanding = s.outstanding
         /\ AddDocumentToTarget(s, d).current = s.current
         /\ AddDocumentToTarget(s, d).token = s.token
         /\ Fits(synced, AddDocumentToTarget(s, d))
         /\ Applied(synced, AddDocumentToTarget(s, d)) = Applied(synced, s) \cup {d}
         /\ RemoveDocumentFromTarget(s, d) \in TargetStates
         /\ RemoveDocumentFromTarget(s, d).outstanding = s.outstanding
         /\ RemoveDocumentFromTarget(s, d).current = s.current
         /\ RemoveDocumentFromTarget(s, d).token = s.token
         /\ Fits(synced, RemoveDocumentFromTarget(s, d))
         /\ Applied(synced, RemoveDocumentFromTarget(s, d)) = Applied(synced, s) \ {d}
<1>0. /\ s.added \subseteq Docs /\ s.modified \subseteq Docs /\ s.removed \subseteq Docs
      /\ s.outstanding \in Int /\ s.current \in BOOLEAN /\ s.pending \in BOOLEAN
      /\ s.token \in 0 .. MaxVersion
  BY StateShape
<1>1. LET u == AddDocumentToTarget(s, d)
      IN  /\ u \in TargetStates
          /\ u.outstanding = s.outstanding /\ u.current = s.current /\ u.token = s.token
          /\ u.removed = s.removed \ {d}
          /\ u.added = IF d \in synced THEN s.added \ {d} ELSE s.added \cup {d}
          /\ u.modified = IF d \in synced THEN s.modified \cup {d} ELSE s.modified \ {d}
  BY <1>0 DEF AddDocumentToTarget, TargetStates
<1>2. LET u == RemoveDocumentFromTarget(s, d)
      IN  /\ u \in TargetStates
          /\ u.outstanding = s.outstanding /\ u.current = s.current /\ u.token = s.token
          /\ u.added = s.added \ {d} /\ u.modified = s.modified \ {d}
          /\ u.removed = IF d \in synced THEN s.removed \cup {d} ELSE s.removed \ {d}
  BY <1>0 DEF RemoveDocumentFromTarget, TargetStates
<1>3. /\ Fits(synced, AddDocumentToTarget(s, d))
      /\ Applied(synced, AddDocumentToTarget(s, d)) = Applied(synced, s) \cup {d}
  BY <1>1 DEF Fits, Applied
<1>4. /\ Fits(synced, RemoveDocumentFromTarget(s, d))
      /\ Applied(synced, RemoveDocumentFromTarget(s, d)) = Applied(synced, s) \ {d}
  BY <1>2 DEF Fits, Applied
<1> QED BY <1>1, <1>2, <1>3, <1>4

(* A new state, all documents of the view removed.                          *)
LEMMA StateReset ==
  ASSUME synced \subseteq Docs
  PROVE  /\ ResetTarget \in TargetStates /\ ResetTarget.outstanding = 0
         /\ ~ResetTarget.current /\ ResetTarget.token = 0
         /\ Fits(synced, ResetTarget) /\ Applied(synced, ResetTarget) = {}
<1>1. /\ ResetTarget \in TargetStates /\ ResetTarget.outstanding = 0
      /\ ~ResetTarget.current /\ ResetTarget.token = 0
      /\ ResetTarget.added = {} /\ ResetTarget.modified = {}
      /\ ResetTarget.removed = synced
  <2>1. /\ Fresh.outstanding = 0 /\ ~Fresh.current /\ Fresh.token = 0
        /\ Fresh.added = {} /\ Fresh.modified = {}
    BY DEF Fresh
  <2> QED BY <2>1, StateShape DEF ResetTarget, TargetStates
<1> QED BY <1>1 DEF Fits, Applied

(* The target is listened to and awaits no answer: a message does to the    *)
(* documents that the view will have what it says.                          *)
LEMMA HandledActive ==
  ASSUME Typed, IsActive, Fits(synced, Ensured), NEW m \in Responses,
         m.type \notin {"added", "removed", "error"},
         m.type = "snapshot" => agg # NoState
  PROVE  LET s == Handled(m)
         IN  /\ s \in TargetStates /\ s.outstanding = 0 /\ Fits(synced, s)
             /\ m.type = "snapshot" => s = UpdateResumeToken(agg, m.token)
             /\ m.type # "filter" => Applied(synced, s) = Effect(Applied(synced, Ensured), m)
             /\ m.type = "filter" => s = IF Differs(m) THEN ResetTarget ELSE Ensured
             /\ m.type # "current" /\ s.current => Ensured.current
             /\ \/ s.token \in {0, Ensured.token}
                \/ m.type \in {"current", "snapshot"} /\ s.token = m.token
<1>1. /\ Ensured \in TargetStates /\ Ensured.outstanding = 0 /\ IsActive
      /\ m.type = "snapshot" => agg # NoState /\ Ensured = agg
  BY EnsuredShape DEF IsActive
<1>2. synced \subseteq Docs
  BY DEF Typed, Types
<1>3. m.type \in {"add", "remove", "reset", "current", "filter", "snapshot"}
  BY ResponseShape
<1>4. CASE m.type = "add"
  <2>1. Handled(m) = AddDocumentToTarget(Ensured, m.doc)
    BY <1>1, <1>4 DEF Handled
  <2>2. m.doc \in Docs
    BY <1>4, ResponseShape
  <2>3. Effect(Applied(synced, Ensured), m) = Applied(synced, Ensured) \cup {m.doc}
    BY <1>4 DEF Effect
  <2> QED BY <1>1, <1>4, <2>1, <2>2, <2>3, DocumentChanged
<1>5. CASE m.type = "remove"
  <2>1. Handled(m) = RemoveDocumentFromTarget(Ensured, m.doc)
    BY <1>1, <1>5 DEF Handled
  <2>2. m.doc \in Docs
    BY <1>5, ResponseShape
  <2>3. Effect(Applied(synced, Ensured), m) = Applied(synced, Ensured) \ {m.doc}
    BY <1>5 DEF Effect
  <2> QED BY <1>1, <1>5, <2>1, <2>2, <2>3, DocumentChanged
<1>6. CASE m.type = "reset"
  <2>1. Handled(m) = ResetTarget
    BY <1>1, <1>6, ResponseShape DEF Handled, UpdateResumeToken
  <2>2. Effect(Applied(synced, Ensured), m) = {}
    BY <1>6 DEF Effect
  <2> QED BY <1>1, <1>2, <1>6, <2>1, <2>2, StateReset
<1>7. CASE m.type = "current"
  <2> DEFINE c == [Ensured EXCEPT !.current = TRUE, !.pending = TRUE]
  <2>1. Handled(m) = UpdateResumeToken(c, m.token)
    BY <1>1, <1>7 DEF Handled
  <2>2. m.token \in 0 .. MaxVersion
    BY <1>7, ResponseShape
  <2>3. /\ c \in TargetStates /\ c.outstanding = 0 /\ c.token = Ensured.token
        /\ c.added = Ensured.added /\ c.modified = Ensured.modified /\ c.removed = Ensured.removed
    BY <1>1 DEF TargetStates
  <2>4. Effect(Applied(synced, Ensured), m) = Applied(synced, Ensured)
    BY <1>7 DEF Effect
  <2> HIDE DEF c
  <2>5. LET u == Handled(m)
        IN  /\ u \in TargetStates /\ u.outstanding = 0 /\ u.token \in {Ensured.token, m.token}
            /\ u.added = Ensured.added /\ u.modified = Ensured.modified
            /\ u.removed = Ensured.removed
    BY <2>1, <2>2, <2>3, Tokened
  <2>6. Fits(synced, Handled(m)) /\ Applied(synced, Handled(m)) = Applied(synced, Ensured)
    BY <2>5 DEF Fits, Applied
  <2> QED BY <1>1, <1>7, <2>4, <2>5, <2>6
<1>8. CASE m.type = "filter"
  <2>1. Handled(m) = IF Differs(m) THEN ResetTarget ELSE Ensured
    BY <1>1, <1>8 DEF Handled
  <2> QED BY <1>1, <1>2, <1>8, <2>1, StateReset
<1>9. CASE m.type = "snapshot"
  <2>1. Handled(m) = UpdateResumeToken(agg, m.token)
    BY <1>1, <1>9 DEF Handled
  <2>2. m.token \in 0 .. MaxVersion
    BY <1>9, ResponseShape
  <2>3. Effect(Applied(synced, Ensured), m) = Applied(synced, Ensured)
    BY <1>9 DEF Effect
  <2>4. LET u == Handled(m)
        IN  /\ u \in TargetStates /\ u.outstanding = 0 /\ u.current = Ensured.current
            /\ u.token \in {Ensured.token, m.token}
            /\ u.added = Ensured.added /\ u.modified = Ensured.modified
            /\ u.removed = Ensured.removed
    <3>1. agg \in TargetStates /\ Ensured = agg
      BY <1>1, <1>9
    <3>2. CASE m.token = 0
      BY ONLY <1>1, <2>1, <2>2, <3>1, <3>2, Tokened
    <3>3. CASE m.token # 0
      BY ONLY <1>1, <2>1, <2>2, <3>1, <3>3, Tokened
    <3> QED BY <3>2, <3>3
  <2>5. Fits(synced, Handled(m)) /\ Applied(synced, Handled(m)) = Applied(synced, Ensured)
    BY <2>4 DEF Fits, Applied
  <2> QED BY <1>1, <1>9, <2>1, <2>3, <2>4, <2>5
<1> QED BY <1>3, <1>4, <1>5, <1>6, <1>7, <1>8, <1>9

(* Whatever a response other than a refusal does, the state fits the view,  *)
(* and its token is one the server has given.                               *)
LEMMA HandledFits ==
  ASSUME Typed, Known, Sets, NEW m \in Responses, m.type # "error",
         m.type \in {"current", "snapshot"} => m.token <= Latest
  PROVE  LET s == Handled(m)
         IN  /\ s \in TargetStates \cup {NoState}
             /\ s # NoState => s.token <= Latest /\ Fits(keys, s)
<1>1. /\ Ensured \in TargetStates /\ Ensured.token <= Latest /\ Fits(keys, Ensured)
      /\ agg \in TargetStates \cup {NoState}
      /\ agg # NoState => agg.token <= Latest /\ Fits(keys, agg)
      /\ Latest \in Nat /\ 0 <= Latest
  BY EnsuredShape, StateShape DEF Known, Sets
<1>2. CASE m.type \in {"added", "removed"}
  BY <1>1, <1>2, HandledAnswer
<1>3. CASE m.type \notin {"added", "removed"} /\ ~IsActive
  BY <1>1, <1>3, HandledInactive
<1>4. CASE m.type \notin {"added", "removed"} /\ IsActive
  <2>1. CASE m.type = "snapshot" /\ agg = NoState
    <3>1. Handled(m) = agg
      BY <2>1 DEF Handled
    <3> QED BY <1>1, <3>1
  <2>2. CASE m.type = "snapshot" => agg # NoState
    <3>1. listening /\ synced = keys
      BY <1>4 DEF IsActive, Sets, KeysOfView
    <3>2. LET s == Handled(m)
          IN  /\ s \in TargetStates /\ Fits(synced, s)
              /\ \/ s.token \in {0, Ensured.token}
                 \/ m.type \in {"current", "snapshot"} /\ s.token = m.token
      BY <1>1, <1>4, <2>2, <3>1, HandledActive
    <3> QED BY <1>1, <3>1, <3>2
  <2> QED BY <2>1, <2>2
<1> QED BY <1>2, <1>3, <1>4

(* The count the client compares is that of the view once its changes are   *)
(* applied.                                                                 *)
LEMMA DiffersExactly ==
  ASSUME Typed, agg # NoState, Fits(synced, agg), NEW m
  PROVE  Differs(m) <=> m.count # Cardinality(Applied(synced, agg))
<1>1. /\ Ensured = agg /\ synced \subseteq Docs
      /\ agg.added \subseteq Docs /\ agg.removed \subseteq Docs
  BY EnsuredShape, StateShape DEF Typed, Types
<1> DEFINE S == synced \cup agg.added
<1>2. IsFiniteSet(S) /\ agg.removed \subseteq S
  BY <1>1, FS_Subset, TargetAssumption DEF Fits, TargetAssumption
<1>3. IsFiniteSet(agg.removed) /\ S \cap agg.removed = agg.removed
  BY <1>2, FS_Subset
<1>4. Cardinality(S \ agg.removed) = Cardinality(S) - Cardinality(agg.removed)
  BY <1>2, <1>3, FS_Difference
<1> QED BY <1>1, <1>4 DEF Differs, Applied

-----------------------------------------------------------------------------
(* What Counts says of each count.                                          *)
LEMMA CountsShape ==
  ASSUME Typed, NEW g, Counts(g)
  PROVE  /\ Len(toClient) \in Nat /\ Len(toServer) \in Nat /\ Outstanding \in Nat
         /\ \A i \in 0 .. Len(toClient) : g[i] \in Nat /\ g[i] >= Len(toServer)
         /\ g[0] = Outstanding /\ g[Len(toClient)] = Len(toServer)
<1>1. Len(toClient) \in Nat /\ Len(toServer) \in Nat
  BY EmptyQueue DEF Typed
<1>2. g \in [0 .. Len(toClient) -> Nat] /\ Outstanding \in Nat
  <2>1. g \in [0 .. Len(toClient) -> Nat] /\ g[0] = Outstanding /\ 0 \in 0 .. Len(toClient)
    BY <1>1 DEF Counts
  <2> QED BY <2>1
<1>3. ASSUME NEW i \in 0 .. Len(toClient)
      PROVE  g[i] \in Nat /\ g[i] >= Len(toServer)
  <2>1. g[i] \in Nat
    BY <1>2
  <2>2. CASE i = 0
    BY <2>1, <2>2 DEF Counts
  <2>3. CASE i # 0
    <3>1. i \in 1 .. Len(toClient)
      BY <1>1, <2>3
    <3> QED BY <2>1, <3>1 DEF Counts
  <2> QED BY <2>2, <2>3
<1> QED BY <1>1, <1>2, <1>3 DEF Counts

(* The counts along toClient, when it is as long as it was.                 *)
LEMMA CountsRequested ==
  ASSUME Typed, NEW g, Counts(g), UNCHANGED <<toClient, srv>>,
         Len(toServer') = Len(toServer) + 1, Outstanding' = Outstanding + 1
  PROVE  \E h : Counts(h)'
<1>1. Len(toClient) \in Nat /\ Len(toServer) \in Nat
  BY CountsShape
<1>2. PICK h : h = [i \in 0 .. Len(toClient) |-> g[i] + 1]
  OBVIOUS
<1>3. \A i \in 0 .. Len(toClient) : g[i] \in Nat /\ h[i] = g[i] + 1 /\ h[i] \in Nat
  BY <1>2, CountsShape
<1>4. h \in [0 .. Len(toClient) -> Nat]
  BY <1>2, <1>3
<1>5. h[0] = Outstanding' /\ h[Len(toClient)] = Len(toServer') /\ h[0] >= Len(toServer')
  BY <1>1, <1>3 DEF Counts
<1>6. ASSUME NEW i \in 1 .. Len(toClient)
      PROVE  /\ h[i] = IF Acks(toClient[i]) THEN h[i - 1] - 1 ELSE h[i - 1]
             /\ h[i] >= Len(toServer') /\ h[i] # 0 /\ h[i - 1] # 0
             /\ Numbered(toClient[i]) /\ h[i - 1] = Len(toServer') =>
                   srv # Off /\ toClient[i].r = srv.r
             /\ toClient[i].type = "error" /\ h[i] = Len(toServer') =>
                   i = Len(toClient) /\ ~srv.on
  <2>1. i \in 0 .. Len(toClient) /\ i - 1 \in 0 .. Len(toClient)
    BY <1>1
  <2>2. /\ h[i] = g[i] + 1 /\ h[i - 1] = g[i - 1] + 1
        /\ g[i] \in Nat /\ g[i - 1] \in Nat
    BY <1>3, <2>1
  <2>3. /\ g[i] = IF Acks(toClient[i]) THEN g[i - 1] - 1 ELSE g[i - 1]
        /\ g[i] >= Len(toServer)
        /\ Numbered(toClient[i]) /\ g[i - 1] = Len(toServer) =>
              srv # Off /\ toClient[i].r = srv.r
        /\ toClient[i].type = "error" /\ g[i] = Len(toServer) =>
              i = Len(toClient) /\ ~srv.on
    BY DEF Counts
  <2>4. h[i] = IF Acks(toClient[i]) THEN h[i - 1] - 1 ELSE h[i - 1]
    BY <2>2, <2>3
  <2>5. h[i] >= Len(toServer') /\ h[i] # 0 /\ h[i - 1] # 0
    BY <1>1, <2>2, <2>3
  <2>6. /\ h[i - 1] = Len(toServer') => g[i - 1] = Len(toServer)
        /\ h[i] = Len(toServer') => g[i] = Len(toServer)
    BY <1>1, <2>2
  <2> QED BY <2>3, <2>4, <2>5, <2>6
<1>7. ASSUME NEW i \in 0 .. Len(toClient), h[i] # Len(toServer')
      PROVE  \E j \in i + 1 .. Len(toClient) : Acks(toClient[j])
  <2>1. g[i] # Len(toServer)
    BY <1>1, <1>3, <1>7
  <2> QED BY <2>1 DEF Counts
<1>8. Counts(h)'
  BY <1>4, <1>5, <1>6, <1>7 DEF Counts, Acks, Numbered
<1> QED BY <1>8

(* The counts once a message has been taken, k more requests being sent.    *)
LEMMA CountsTaken ==
  ASSUME Typed, NEW g, Counts(g), toClient # <<>>, toClient' = Tail(toClient),
         UNCHANGED <<srv, listening>>, NEW k \in Nat,
         Len(toServer') = Len(toServer) + k, Outstanding' = g[1] + k,
         NEW h, h = [i \in 0 .. Len(toClient) - 1 |-> g[i + 1] + k]
  PROVE  Counts(h)'
<1> DEFINE n == Len(toClient)
<1>1. /\ n \in Nat \ {0} /\ Len(toServer) \in Nat
      /\ Len(toClient') = n - 1
      /\ \A i \in 1 .. n - 1 : toClient'[i] = toClient[i + 1]
  BY EmptyQueue, Taken DEF Typed
<1>2. \A i \in 0 .. n - 1 : g[i + 1] \in Nat /\ h[i] = g[i + 1] + k /\ h[i] \in Nat
  BY <1>1, CountsShape
<1>3. h \in [0 .. n - 1 -> Nat]
  BY <1>2
<1>4. h[0] = Outstanding' /\ h[n - 1] = Len(toServer') /\ h[0] >= Len(toServer')
  <2>1. g[1] >= Len(toServer) /\ g[n] = Len(toServer) /\ g[1] \in Nat
    BY <1>1, CountsShape
  <2>2. 0 \in 0 .. n - 1 /\ n - 1 \in 0 .. n - 1 /\ 0 + 1 = 1 /\ (n - 1) + 1 = n
    BY <1>1
  <2>3. h[0] = g[1] + k /\ h[n - 1] = g[n] + k
    BY <1>2, <2>2
  <2> QED BY <1>1, <2>1, <2>3
<1>5. ASSUME NEW i \in 1 .. n - 1
      PROVE  /\ h[i] = IF Acks(toClient'[i]) THEN h[i - 1] - 1 ELSE h[i - 1]
             /\ h[i] >= Len(toServer')
             /\ Numbered(toClient'[i]) /\ h[i - 1] = Len(toServer') =>
                   srv # Off /\ toClient'[i].r = srv.r
             /\ listening \/ h[i - 1] # 0
             /\ listening /\ h[i - 1] # 0 /\ h[i] = 0 =>
                   toClient'[i].type \in {"added", "error"}
             /\ toClient'[i].type = "error" /\ h[i] = Len(toServer') =>
                   i = n - 1 /\ ~srv.on
  <2>1. /\ i \in 0 .. n - 1 /\ i - 1 \in 0 .. n - 1 /\ (i - 1) + 1 = i
        /\ i + 1 \in 1 .. n /\ (i + 1) - 1 = i
    BY <1>1
  <2>2. /\ h[i] = g[i + 1] + k /\ h[i - 1] = g[i] + k
        /\ g[i + 1] \in Nat /\ g[i] \in Nat /\ k \in Nat
    BY <1>2, <2>1
  <2>3. /\ g[i + 1] = IF Acks(toClient[i + 1]) THEN g[i] - 1 ELSE g[i]
        /\ g[i + 1] >= Len(toServer)
        /\ Numbered(toClient[i + 1]) /\ g[i] = Len(toServer) =>
              srv # Off /\ toClient[i + 1].r = srv.r
        /\ listening \/ g[i] # 0
        /\ listening /\ g[i] # 0 /\ g[i + 1] = 0 =>
              toClient[i + 1].type \in {"added", "error"}
        /\ toClient[i + 1].type = "error" /\ g[i + 1] = Len(toServer) =>
              i + 1 = n /\ ~srv.on
    BY <2>1 DEF Counts
  <2>4. toClient'[i] = toClient[i + 1]
    BY <1>1
  <2>5. h[i] = IF Acks(toClient'[i]) THEN h[i - 1] - 1 ELSE h[i - 1]
    <3>1. CASE Acks(toClient[i + 1])
      <4>1. g[i + 1] = g[i] - 1
        BY <2>3, <3>1
      <4>2. h[i] = h[i - 1] - 1
        BY ONLY <2>2, <4>1
      <4> QED BY <2>4, <3>1, <4>2
    <3>2. CASE ~Acks(toClient[i + 1])
      <4>1. h[i] = h[i - 1]
        BY ONLY <2>2, <2>3, <3>2
      <4> QED BY <2>4, <3>2, <4>1
    <3> QED BY <3>1, <3>2
  <2>6. h[i] >= Len(toServer')
    BY <1>1, <2>2, <2>3
  <2>7. /\ h[i - 1] = Len(toServer') => g[i] = Len(toServer)
        /\ h[i] = Len(toServer') => g[i + 1] = Len(toServer)
        /\ g[i] # 0 => h[i - 1] # 0
    BY <1>1, <2>2
  <2>8. h[i - 1] # 0 /\ h[i] = 0 => g[i] # 0 /\ g[i + 1] = 0
    <3>1. h[i] = 0 => k = 0 /\ g[i + 1] = 0
      BY ONLY <2>2
    <3>2. k = 0 => h[i - 1] = g[i]
      BY ONLY <2>2
    <3> QED BY ONLY <3>1, <3>2
  <2>9. i + 1 = n => i = n - 1
    <3>1. i \in Int /\ n \in Int
      BY <1>1
    <3> HIDE DEF n
    <3> QED BY ONLY <3>1
  <2> QED BY <2>3, <2>4, <2>5, <2>6, <2>7, <2>8, <2>9
<1>6. ASSUME NEW i \in 0 .. n - 1, h[i] # Len(toServer')
      PROVE  \E j \in i + 1 .. n - 1 : Acks(toClient'[j])
  <2>1. i + 1 \in 0 .. n
    BY <1>1
  <2>2. g[i + 1] # Len(toServer)
    BY <1>2, <1>6
  <2>3. PICK j \in (i + 1) + 1 .. n : Acks(toClient[j])
    BY <2>1, <2>2 DEF Counts
  <2>4. j - 1 \in i + 1 .. n - 1 /\ j - 1 \in 1 .. n - 1 /\ (j - 1) + 1 = j
    BY <1>1
  <2>5. toClient'[j - 1] = toClient[j]
    BY <1>1, <2>4
  <2> QED BY <2>3, <2>4, <2>5
<1> QED BY <1>1, <1>3, <1>4, <1>5, <1>6 DEF Counts, Acks, Numbered

(* The counts once the server has sent a message: v is the last.            *)
LEMMA CountsSent ==
  ASSUME Typed, NEW g, Counts(g), NEW m \in Responses, toClient' = Append(toClient, m),
         UNCHANGED <<agg, listening>>, Len(toServer') \in Nat,
         NEW h, h = [i \in 0 .. Len(toClient) + 1 |->
                        IF i <= Len(toClient) THEN g[i] ELSE Len(toServer')],
         m.type = "error" => ~srv'.on,
         \/ /\ Len(toServer') = Len(toServer) /\ ~Acks(m)
            /\ srv.on /\ srv' # Off /\ srv'.r = srv.r
            /\ listening \/ Len(toServer) # 0
            /\ Numbered(m) => m.r = srv.r
         \/ /\ Len(toServer') = Len(toServer) - 1 /\ Acks(m)
            /\ listening /\ Len(toServer) = 1 => m.type \in {"added", "error"}
  PROVE  Counts(h)'
<1> DEFINE n == Len(toClient)
<1>1. /\ n \in Nat /\ Len(toServer) \in Nat
      /\ Len(toClient') = n + 1
      /\ \A i \in 1 .. n : toClient'[i] = toClient[i]
      /\ toClient'[n + 1] = m
  BY EmptyQueue, Added DEF Typed
<1>2. /\ \A i \in 0 .. n : g[i] \in Nat /\ h[i] = g[i] /\ h[i] >= Len(toServer)
      /\ g[n] = Len(toServer) /\ h[n + 1] = Len(toServer')
  BY <1>1, CountsShape
<1>3. h \in [0 .. n + 1 -> Nat]
  BY <1>1, <1>2 DEF Counts
<1>4. Outstanding' = Outstanding /\ Len(toServer') <= Len(toServer)
  BY <1>1 DEF Outstanding
<1>5. h[0] = Outstanding' /\ h[n + 1] = Len(toServer') /\ h[0] >= Len(toServer')
  BY <1>1, <1>2, <1>4 DEF Counts
<1>6. ASSUME NEW i \in 1 .. n + 1
      PROVE  /\ h[i] = IF Acks(toClient'[i]) THEN h[i - 1] - 1 ELSE h[i - 1]
             /\ h[i] >= Len(toServer')
             /\ Numbered(toClient'[i]) /\ h[i - 1] = Len(toServer') =>
                   srv' # Off /\ toClient'[i].r = srv'.r
             /\ listening \/ h[i - 1] # 0
             /\ listening /\ h[i - 1] # 0 /\ h[i] = 0 =>
                   toClient'[i].type \in {"added", "error"}
             /\ toClient'[i].type = "error" /\ h[i] = Len(toServer') =>
                   i = n + 1 /\ ~srv'.on
  <2>1. CASE i = n + 1
    <3>1. h[i - 1] = Len(toServer) /\ h[i] = Len(toServer') /\ toClient'[i] = m
      BY <1>1, <1>2, <2>1
    <3>2. ~(Acks(m) /\ Numbered(m))
      BY ResponseShape
    <3>3. h[i] = IF Acks(m) THEN h[i - 1] - 1 ELSE h[i - 1]
      BY <1>1, <3>1
    <3>4. h[i - 1] # 0 /\ h[i] = 0 => Len(toServer) = 1 /\ Acks(m)
      BY <1>1, <3>1
    <3>5. h[i] >= Len(toServer') /\ h[i - 1] \in Nat /\ (~Acks(m) \/ h[i - 1] # 0)
      BY <1>1, <3>1
    <3>6. ~Acks(m) => srv' # Off /\ srv'.r = srv.r /\ (Numbered(m) => m.r = srv'.r)
      OBVIOUS
    <3>7. listening \/ h[i - 1] # 0
      BY <1>1, <3>1, <3>5
    <3> QED BY <2>1, <3>1, <3>2, <3>3, <3>4, <3>5, <3>6, <3>7
  <2>2. CASE i # n + 1
    <3>1. i \in 1 .. n /\ i \in 0 .. n /\ i - 1 \in 0 .. n
      BY <1>1, <2>2
    <3>2. /\ h[i] = g[i] /\ h[i - 1] = g[i - 1] /\ toClient'[i] = toClient[i]
          /\ h[i - 1] >= Len(toServer) /\ h[i] >= Len(toServer)
          /\ h[i] \in Nat /\ h[i - 1] \in Nat
      BY <1>1, <1>2, <3>1
    <3>3. /\ g[i] = IF Acks(toClient[i]) THEN g[i - 1] - 1 ELSE g[i - 1]
          /\ Numbered(toClient[i]) /\ g[i - 1] = Len(toServer) =>
                srv # Off /\ toClient[i].r = srv.r
          /\ listening \/ g[i - 1] # 0
          /\ listening /\ g[i - 1] # 0 /\ g[i] = 0 =>
                toClient[i].type \in {"added", "error"}
          /\ toClient[i].type = "error" /\ g[i] = Len(toServer) => ~srv.on
      BY <3>1 DEF Counts
    <3>4. h[i] = IF Acks(toClient'[i]) THEN h[i - 1] - 1 ELSE h[i - 1]
      BY ONLY <3>2, <3>3
    <3>5. /\ h[i] >= Len(toServer')
          /\ h[i - 1] = Len(toServer') => Len(toServer') = Len(toServer)
          /\ h[i] = Len(toServer') => Len(toServer') = Len(toServer)
      BY <1>1, <3>2
    <3> QED BY <1>1, <3>2, <3>3, <3>4, <3>5
  <2> QED BY <2>1, <2>2
<1>7. ASSUME NEW i \in 0 .. n + 1, h[i] # Len(toServer')
      PROVE  \E j \in i + 1 .. n + 1 : Acks(toClient'[j])
  <2>1. i \in 0 .. n /\ n + 1 \in i + 1 .. n + 1
    BY <1>1, <1>2, <1>7
  <2>2. CASE Acks(m)
    BY <1>1, <2>1, <2>2
  <2>3. CASE ~Acks(m)
    <3>1. g[i] # Len(toServer)
      BY <1>2, <1>7, <2>1, <2>3
    <3>2. PICK j \in i + 1 .. n : Acks(toClient[j])
      BY <2>1, <3>1 DEF Counts
    <3>3. j \in i + 1 .. n + 1 /\ j \in 1 .. n
      BY <1>1, <2>1
    <3> QED BY <1>1, <3>2, <3>3
  <2> QED BY <2>2, <2>3
<1>8. Len(toClient') = n + 1
  BY <1>1
<1>9. \A i \in 0 .. n + 1 :
         h[i] # Len(toServer') => \E j \in i + 1 .. n + 1 : Acks(toClient[j])'
  BY <1>7 DEF Acks
<1> QED BY <1>3, <1>5, <1>6, <1>8, <1>9 DEF Counts, Acks, Numbered

(* The counts of a stream that nothing has been received on.                *)
LEMMA CountsNone ==
  ASSUME toClient' = <<>>, Outstanding' = Len(toServer'), Len(toServer') \in Nat
  PROVE  \E h : Counts(h)'
<1>1. PICK h : h = [i \in 0 .. 0 |-> Len(toServer')]
  OBVIOUS
<1>2. Len(toClient') = 0
  OBVIOUS
<1>3. Counts(h)'
  BY <1>1, <1>2 DEF Counts
<1> QED BY <1>3

-----------------------------------------------------------------------------
(* The path once a message has been taken.                                  *)
LEMMA PathTaken ==
  ASSUME Typed, toServer = <<>>, NEW g, NEW f, NEW e, Counts(g), Path(g, f, e),
         toClient # <<>>, toClient' = Tail(toClient), UNCHANGED <<results, srv>>,
         g[0] # 0 /\ g[1] = 0 => ~agg'.pending,
         Starts(f[1], e[1])',
         NEW h, h = [i \in 0 .. Len(toClient) - 1 |-> g[i + 1] + 0]
  PROVE  \E f1, e1 : Path(h, f1, e1)'
<1>0. PICK n : n = Len(toClient)
  OBVIOUS
<1>1. /\ n \in Nat \ {0} /\ Len(toClient') = n - 1
      /\ \A i \in 1 .. n - 1 : toClient'[i] = toClient[i + 1]
  BY <1>0, EmptyQueue, Taken DEF Typed
<1>2. PICK f1 : f1 = [i \in 0 .. n - 1 |-> f[i + 1]]
  OBVIOUS
<1>3. PICK e1 : e1 = [i \in 0 .. n - 1 |-> e[i + 1]]
  OBVIOUS
<1>4. ASSUME NEW i \in 0 .. n - 1
      PROVE  /\ i + 1 \in 0 .. n /\ h[i] = g[i + 1] /\ g[i + 1] \in Nat
             /\ f1[i] = f[i + 1] /\ f[i + 1] \in SUBSET Docs
             /\ e1[i] = e[i + 1] /\ e[i + 1] \in {"good", "lost", "over"}
  <2>1. i + 1 \in 0 .. n
    BY <1>1
  <2>2. g[i + 1] \in Nat
    BY <1>0, <2>1, CountsShape
  <2>3. h[i] = g[i + 1]
    BY <1>0, <2>2
  <2> QED BY <1>0, <1>2, <1>3, <2>1, <2>2, <2>3 DEF Path
<1>5. f1 \in [0 .. n - 1 -> SUBSET Docs] /\ e1 \in [0 .. n - 1 -> {"good", "lost", "over"}]
  BY <1>2, <1>3, <1>4
<1>6. Starts(f1[0], e1[0])'
  <2>0. 0 \in 0 .. n - 1 /\ 0 + 1 = 1
    BY <1>1
  <2>1. f1[0] = f[1] /\ e1[0] = e[1]
    BY <1>4, <2>0
  <2> QED BY <2>1 DEF Starts
<1>7. ASSUME NEW i \in 1 .. n, Idle(g, i), g[i] = 0
      PROVE  Idle(h, i - 1)'
  <2>1. CASE i = 1
    BY <1>7, <2>1 DEF Idle
  <2>2. CASE i # 1
    <3>1. i - 2 \in 0 .. n - 1 /\ (i - 2) + 1 = i - 1 /\ (i - 1) - 1 = i - 2 /\ i - 1 # 0
      BY <1>1, <2>2
    <3>2. h[i - 2] = g[i - 1]
      BY <1>4, <3>1
    <3>3. g[i - 1] # 0
      BY <1>1, <1>7 DEF Idle
    <3> QED BY <3>1, <3>2, <3>3 DEF Idle
  <2> QED BY <2>1, <2>2
<1>8. ASSUME NEW i \in 1 .. n - 1
      PROVE  Follows(h, f1, e1, i)'
  <2>1. /\ i - 1 \in 0 .. n - 1 /\ (i - 1) + 1 = i /\ i \in 0 .. n - 1 /\ i \in 1 .. n
        /\ i + 1 \in 1 .. n /\ (i + 1) - 1 = i
    BY <1>1
  <2>2. /\ h[i - 1] = g[i]
        /\ f1[i - 1] = f[i] /\ f1[i] = f[i + 1]
        /\ e1[i - 1] = e[i] /\ e1[i] = e[i + 1]
        /\ toClient'[i] = toClient[i + 1]
    BY <1>1, <1>4, <2>1
  <2>3. Follows(g, f, e, i + 1)
    BY <1>0, <2>1 DEF Path
  <2>4. g[i] = 0 /\ Honest(g, f[i], i + 1) => Honest(h, f[i], i)'
    BY <1>7, <2>1, <2>2 DEF Honest
  <2> QED BY <2>1, <2>2, <2>3, <2>4 DEF Follows, NextStage, Effect
<1>9. Ends(f1[n - 1], e1[n - 1], Idle(h, n - 1))'
  <2>1. n - 1 \in 0 .. n - 1 /\ (n - 1) + 1 = n /\ n \in 1 .. n
    BY <1>1
  <2>2. f1[n - 1] = f[n] /\ e1[n - 1] = e[n]
    BY <1>4, <2>1
  <2>3. g[n] = 0
    BY <1>0, CountsShape, EmptyQueue DEF Typed
  <2>4. Ends(f[n], e[n], Idle(g, n))
    BY <1>0 DEF Path
  <2>5. Idle(g, n) => Idle(h, n - 1)'
    BY <1>7, <2>1, <2>3
  <2> QED BY <2>2, <2>4, <2>5 DEF Ends
<1>10. Path(h, f1, e1)'
  BY <1>1, <1>5, <1>6, <1>8, <1>9 DEF Path
<1> QED BY <1>10

(* What a message must say, and the server know after it, when the client   *)
(* will have S, at the stage s, with nothing pending if idle.               *)
Sound(S, s, idle, m) ==
    /\ s = "good" /\ m.type = "filter" => m.count # Cardinality(S)
    /\ s = "good" /\ m.type = "snapshot" =>
          IF m.token = 0 THEN idle ELSE m.token = m.version /\ S = results[m.version]
    /\ s = "lost" => m.type # "current"
    /\ srv'.on /\ NextStage(s, m) = "good" =>
          /\ srv'.filter = "none" /\ srv'.has = Effect(S, m)
          /\ srv'.started \/ srv'.current \/ ~srv'.news
    /\ srv'.on /\ NextStage(s, m) = "lost" => srv'.filter = "sent"

(* The path once the server has sent a message.                             *)
LEMMA PathSent ==
  ASSUME Typed, toServer = <<>>, NEW g, NEW f, NEW e, Counts(g), Path(g, f, e),
         NEW m \in Responses, ~Acks(m), toClient' = Append(toClient, m),
         UNCHANGED <<agg, synced, mismatch, results, toServer>>,
         LET n == Len(toClient)
         IN  Sound(f[n], e[n], Idle(g, n), m),
         NEW h, h = [i \in 0 .. Len(toClient) + 1 |->
                        IF i <= Len(toClient) THEN g[i] ELSE Len(toServer')]
  PROVE  \E f1, e1 : Path(h, f1, e1)'
<1>n. PICK n : n = Len(toClient)
  OBVIOUS
<1>S. PICK S : S = Effect(f[n], m)
  OBVIOUS
<1>s. PICK s : s = NextStage(e[n], m)
  OBVIOUS
<1>0. /\ n \in Nat /\ S \in SUBSET Docs
      /\ e[n] = "good" /\ m.type = "filter" => m.count # Cardinality(f[n])
      /\ e[n] = "good" /\ m.type = "snapshot" =>
            IF m.token = 0 THEN Idle(g, n)
            ELSE m.token = m.version /\ f[n] = results[m.version]
      /\ e[n] = "lost" => m.type # "current"
      /\ srv'.on /\ s = "good" => /\ srv'.filter = "none" /\ srv'.has = S
                                  /\ srv'.started \/ srv'.current \/ ~srv'.news
      /\ srv'.on /\ s = "lost" => srv'.filter = "sent"
  <2>1. n \in Nat /\ n \in 0 .. n
    BY <1>n, EmptyQueue DEF Typed
  <2>2. f[n] \in SUBSET Docs
    BY <1>n, <2>1 DEF Path
  <2>3. S \in SUBSET Docs
    BY <1>S, <2>2, ResponseShape DEF Effect
  <2>4. Sound(f[n], e[n], Idle(g, n), m)
    BY <1>n
  <2> QED BY <1>S, <1>s, <2>1, <2>3, <2>4 DEF Sound
<1>1. /\ n \in Nat /\ Len(toClient') = n + 1
      /\ \A i \in 1 .. n : toClient'[i] = toClient[i]
      /\ toClient'[n + 1] = m
  BY <1>n, EmptyQueue, Added DEF Typed
<1>2. PICK f1 : f1 = [i \in 0 .. n + 1 |-> IF i <= n THEN f[i] ELSE S]
  OBVIOUS
<1>3. PICK e1 : e1 = [i \in 0 .. n + 1 |-> IF i <= n THEN e[i] ELSE s]
  OBVIOUS
<1>4. /\ n + 1 \in 0 .. n + 1 /\ ~(n + 1 <= n)
      /\ f1[n + 1] = S /\ e1[n + 1] = s
  BY <1>1, <1>2, <1>3
<1>5. ASSUME NEW i \in 0 .. n
      PROVE  /\ i \in 0 .. n + 1 /\ h[i] = g[i] /\ f1[i] = f[i] /\ e1[i] = e[i]
             /\ f[i] \in SUBSET Docs /\ e[i] \in {"good", "lost", "over"}
  <2>1. i \in 0 .. n + 1 /\ i <= n
    BY <1>1
  <2>2. f[i] \in SUBSET Docs /\ e[i] \in {"good", "lost", "over"}
    BY <1>n DEF Path
  <2> QED BY <1>n, <1>2, <1>3, <2>1, <2>2
<1>6. s \in {"good", "lost", "over"}
  <2>0. n \in 0 .. n
    BY <1>1
  <2>1. e[n] \in {"good", "lost", "over"}
    BY <1>5, <2>0
  <2> QED BY <1>s, <2>1 DEF NextStage
<1>7. f1 \in [0 .. n + 1 -> SUBSET Docs] /\ e1 \in [0 .. n + 1 -> {"good", "lost", "over"}]
  <2>1. ASSUME NEW i \in 0 .. n + 1
        PROVE  f1[i] \in SUBSET Docs /\ e1[i] \in {"good", "lost", "over"}
    <3>1. CASE i = n + 1
      BY <1>0, <1>4, <1>6, <3>1
    <3>2. CASE i # n + 1
      <4>1. i \in 0 .. n
        BY <1>1, <3>2
      <4> QED BY <1>5, <4>1
    <3> QED BY <3>1, <3>2
  <2> QED BY <1>2, <1>3, <2>1
<1>8. Starts(f1[0], e1[0])'
  <2>0. 0 \in 0 .. n
    BY <1>0
  <2>1. f1[0] = f[0] /\ e1[0] = e[0]
    BY <1>5, <2>0
  <2>2. Starts(f[0], e[0])
    BY DEF Path
  <2>3. Outstanding' = Outstanding /\ Viewed' = Viewed
    BY DEF Outstanding, Viewed
  <2> QED BY <2>1, <2>2, <2>3 DEF Starts
<1>9. ASSUME NEW i \in 0 .. n
      PROVE  Idle(h, i)' <=> Idle(g, i)
  <2>1. CASE i = 0
    BY <2>1 DEF Idle
  <2>2. CASE i # 0
    <3>1. i - 1 \in 0 .. n
      BY <1>1, <2>2
    <3>2. h[i - 1] = g[i - 1]
      BY <1>5, <3>1
    <3> QED BY <2>2, <3>2 DEF Idle
  <2> QED BY <2>1, <2>2
<1>10. g[n] = 0
  BY <1>n, CountsShape, EmptyQueue DEF Typed
<1>11. ASSUME NEW i \in 1 .. n + 1
       PROVE  Follows(h, f1, e1, i)'
  <2>1. i - 1 \in 0 .. n
    BY <1>1
  <2>2. h[i - 1] = g[i - 1] /\ f1[i - 1] = f[i - 1] /\ e1[i - 1] = e[i - 1]
    BY <1>5, <2>1
  <2>3. CASE i = n + 1
    <3>1. i - 1 = n
      BY <1>1, <2>3
    <3>2. toClient'[i] = m /\ f1[i] = S /\ e1[i] = s
      BY <1>1, <1>4, <2>3
    <3>3. e[n] = "good" => Honest(h, f[n], i)'
      BY <1>0, <1>1, <1>9, <3>1, <3>2 DEF Honest
    <3>4. s = "good" => e[n] = "good"
      BY <1>s DEF NextStage
    <3> QED BY <1>0, <1>S, <1>s, <1>10, <2>2, <3>1, <3>2, <3>3, <3>4
    DEF Follows, NextStage, Effect
  <2>4. CASE i # n + 1
    <3>1. i \in 1 .. n /\ i \in 0 .. n
      BY <1>1, <2>4
    <3>2. toClient'[i] = toClient[i] /\ f1[i] = f[i] /\ e1[i] = e[i]
      BY <1>1, <1>5, <3>1
    <3>3. Follows(g, f, e, i)
      BY <1>n, <3>1 DEF Path
    <3>4. Honest(g, f[i - 1], i) => Honest(h, f[i - 1], i)'
      BY <1>9, <2>1, <3>2 DEF Honest
    <3> QED BY <2>2, <3>2, <3>3, <3>4 DEF Follows, NextStage, Effect
  <2> QED BY <2>3, <2>4
<1>12. Ends(f1[n + 1], e1[n + 1], Idle(h, n + 1))'
  BY <1>0, <1>4 DEF Ends
<1>13. Path(h, f1, e1)'
  BY <1>1, <1>7, <1>8, <1>11, <1>12 DEF Path
<1> QED BY <1>13

(* The path when the server takes the last request: all before its answer   *)
(* is for an earlier one, and the server has what the request says.         *)
LEMMA PathReceived ==
  ASSUME Typed, NEW g, Counts(g), NEW n, n = Len(toClient),
         Len(toServer) = 1, Len(toServer') = 0,
         NEW m, Acks(m), toClient' = Append(toClient, m), m \in Responses,
         UNCHANGED <<agg, synced>>,
         srv'.on => srv'.filter = "none" /\ srv'.has = synced,
         NEW h, h = [i \in 0 .. Len(toClient) + 1 |->
                        IF i <= Len(toClient) THEN g[i] ELSE Len(toServer')]
  PROVE  \E f1, e1 : Path(h, f1, e1)'
<1>1. n \in Nat /\ Len(toClient') = n + 1
  BY EmptyQueue, Added DEF Typed
<1>2. \A i \in 0 .. n : h[i] = g[i] /\ g[i] # 0
  BY <1>1, CountsShape
<1>3. PICK f1 : f1 = [i \in 0 .. n + 1 |-> synced]
  OBVIOUS
<1>4. PICK e1 : e1 = [i \in 0 .. n + 1 |-> "good"]
  OBVIOUS
<1>5. synced \in SUBSET Docs
  BY DEF Typed, Types
<1>6. f1 \in [0 .. n + 1 -> SUBSET Docs] /\ e1 \in [0 .. n + 1 -> {"good", "lost", "over"}]
  BY <1>3, <1>4, <1>5
<1>7. Starts(f1[0], e1[0])'
  <2>1. f1[0] = synced /\ e1[0] = "good"
    BY <1>1, <1>3, <1>4
  <2>2. Outstanding' # 0
    <3>1. g[0] # 0
      <4>1. 0 \in 0 .. n
        BY ONLY <1>1
      <4> QED BY ONLY <1>2, <4>1
    <3> QED BY <3>1, CountsShape DEF Outstanding
  <2> QED BY <2>1, <2>2 DEF Starts, Viewed
<1>8. ASSUME NEW i \in 1 .. n + 1
      PROVE  Follows(h, f1, e1, i)'
  <2>1. i - 1 \in 0 .. n + 1 /\ i \in 0 .. n + 1 /\ i - 1 \in 0 .. n
    BY <1>1
  <2>2. f1[i] = synced /\ f1[i - 1] = synced /\ e1[i] = "good" /\ e1[i - 1] = "good"
    BY <1>3, <1>4, <2>1
  <2>3. h[i - 1] # 0
    BY <1>2, <2>1
  <2> QED BY <2>2, <2>3 DEF Follows
<1>9. Ends(f1[n + 1], e1[n + 1], Idle(h, n + 1))'
  <2>1. f1[n + 1] = synced /\ e1[n + 1] = "good" /\ n + 1 # 0 /\ (n + 1) - 1 = n
    BY <1>1, <1>3, <1>4
  <2>2. h[n] # 0
    BY <1>1, <1>2
  <2>3. Idle(h, n + 1)'
    BY <2>1, <2>2 DEF Idle
  <2> QED BY <2>1, <2>3 DEF Ends
<1>10. Path(h, f1, e1)'
  BY <1>1, <1>6, <1>7, <1>8, <1>9 DEF Path
<1> QED BY <1>10

(* The path when nothing comes or goes.                                     *)
LEMMA PathKept ==
  ASSUME NEW g, NEW f, NEW e, Path(g, f, e),
         UNCHANGED <<agg, synced, mismatch, toClient>>,
         \A i \in 1 .. Len(toClient) :
            toClient[i].type = "snapshot" =>
               results'[toClient[i].version] = results[toClient[i].version],
         LET n == Len(toClient)
         IN  Ends(f[n], e[n], Idle(g, n)) => Ends(f[n], e[n], Idle(g, n))'
  PROVE  Path(g, f, e)'
<1>1. Outstanding' = Outstanding /\ Viewed' = Viewed
  BY DEF Outstanding, Viewed
<1>2. Starts(f[0], e[0])'
  BY <1>1 DEF Path, Starts
<1>3. ASSUME NEW i \in 1 .. Len(toClient)
      PROVE  Follows(g, f, e, i)'
  <2>1. Follows(g, f, e, i)
    BY DEF Path
  <2>2. Idle(g, i - 1)' <=> Idle(g, i - 1)
    BY DEF Idle
  <2>3. Honest(g, f[i - 1], i) => Honest(g, f[i - 1], i)'
    BY <2>2 DEF Honest
  <2> QED BY <2>1, <2>3 DEF Follows, NextStage, Effect
<1> QED BY <1>2, <1>3 DEF Path

-----------------------------------------------------------------------------
(* When no answer is awaited every request has been received.               *)
LEMMA AllReceived ==
  ASSUME Typed, NEW g, Counts(g), Outstanding = 0
  PROVE  toServer = <<>>
  BY CountsShape, EmptyQueue DEF Counts, Typed

(* A response taken when no answer is awaited is one to the last request.   *)
LEMMA OwnResponse ==
  ASSUME Typed, LastRequest, NEW g, Counts(g), Outstanding = 0, open,
         toClient # <<>>, Numbered(Head(toClient))
  PROVE  listening /\ Head(toClient).r = requests
<1>1. 1 \in 1 .. Len(toClient) /\ Head(toClient) = toClient[1]
  BY Taken DEF Typed
<1>2. toServer = <<>> /\ Len(toServer) = 0
  BY AllReceived, EmptyQueue DEF Typed
<1>3. g[1 - 1] = Len(toServer)
  BY <1>2, CountsShape
<1>4. srv # Off /\ toClient[1].r = srv.r /\ listening
  BY <1>1, <1>3, CountsShape DEF Counts
<1> QED BY <1>1, <1>2, <1>4 DEF LastRequest

(* What no step of the server changes.                                      *)
LEMMA ClientKept ==
  ASSUME Typed, Known, Stored, Sets,
         UNCHANGED <<disk, client, stream, history>>,
         Latest' <= MaxVersion, Latest <= Latest', results' \in Seq(SUBSET Docs),
         \A v \in 1 .. Latest : results'[v] = results[v]
  PROVE  Types' /\ Stored' /\ Sets'
<1>1. Types'
  BY DEF Typed, Types, TargetStates, NoState, disk, client, stream, history
<1>2. Sets'
  BY DEF Sets, KeysOfView, Fits, disk, client, stream
<1>3. ASSUME NEW v \in Nat, v <= Latest
      PROVE  At(v)' = At(v)
  BY <1>3 DEF At, Latest
<1>4. /\ at' = at /\ token' = token /\ heldToken' = heldToken /\ sentToken' = sentToken
      /\ keys' = keys /\ synced' = synced /\ listening' = listening
      /\ current' = current /\ misled' = misled /\ dated' = dated
  BY DEF disk, client, history
<1>5. /\ at \in Nat /\ token \in Nat /\ heldToken \in Nat /\ sentToken \in Nat
      /\ at <= Latest /\ token <= Latest /\ heldToken <= Latest /\ sentToken <= Latest
  BY DEF Typed, Types, Known
<1>6. /\ At(at)' = At(at) /\ At(token)' = At(token)
      /\ At(heldToken)' = At(heldToken) /\ At(sentToken)' = At(sentToken)
  BY <1>3, <1>4, <1>5 DEF At
<1>7. Stored'
  BY <1>4, <1>6 DEF Stored, SyncedIsServer
<1> QED BY <1>1, <1>2, <1>7

(* A message sent keeps the invariant when it is sound for whatever the     *)
(* client will have.                                                        *)
LEMMA Sent ==
  ASSUME Whole, srv.on, NEW m \in Responses, ~Acks(m), Send(m),
         UNCHANGED <<disk, client, stream, toServer, results, history>>,
         srv' \in Served \cup [on : {FALSE}, r : Nat], srv'.r = srv.r,
         m.type = "error" => ~srv'.on, Numbered(m) => m.r = srv.r,
         m.type \in {"current", "snapshot"} => m.token <= Latest,
         m.type = "snapshot" => m.version <= Latest,
         \A s : \A S \in SUBSET Docs, idle \in BOOLEAN :
            Ends(S, s, idle) => Sound(S, s, idle, m)
  PROVE  Whole'
<1> USE DEF Whole
<1>1. /\ Len(toClient) \in Nat
      /\ toClient' \in Seq(Responses) /\ Len(toClient') = Len(toClient) + 1
      /\ \A i \in 1 .. Len(toClient) : toClient'[i] = toClient[i]
      /\ toClient'[Len(toClient) + 1] = m
      /\ toClient' = Append(toClient, m)
  BY Added, EmptyQueue DEF Typed, Send
<1>2. srv' # Off /\ open
  <2>1. srv' # Off
    <3>1. CASE srv' \in Served
      BY <3>1 DEF Served, Off
    <3>2. CASE srv' \in [on : {FALSE}, r : Nat]
      BY <3>2 DEF Off
    <3> QED BY <3>1, <3>2
  <2>2. srv # Off
    BY DEF Off
  <2> QED BY <2>1, <2>2 DEF Closed
<1>3. Types' /\ Stored' /\ Sets'
  <2>1. /\ results \in Seq(SUBSET Docs) /\ Latest \in Nat /\ Latest <= MaxVersion
        /\ Latest' = Latest
    BY DEF Known, Latest, Typed, Types
  <2> QED BY <2>1, ClientKept
<1>4. Typed'
  BY <1>1, <1>3 DEF Typed
<1>5. Known'
  <2>1. ASSUME NEW i \in 1 .. Len(toClient')
        PROVE  /\ toClient'[i].type \in {"current", "snapshot"} =>
                     toClient'[i].token <= Latest
               /\ toClient'[i].type = "snapshot" => toClient'[i].version <= Latest
    <3>1. CASE i = Len(toClient) + 1
      BY <1>1, <3>1
    <3>2. CASE i # Len(toClient) + 1
      <4>1. i \in 1 .. Len(toClient)
        BY <1>1, <3>2
      <4> QED BY <1>1, <4>1 DEF Known
    <3> QED BY <3>1, <3>2
  <2> QED BY <2>1 DEF Known, Latest, disk, client, stream, history
<1>6. Closed'
  BY <1>2 DEF Closed, client, stream, history
<1>7. ASSUME ~miscounted
      PROVE  LastRequest'
  BY <1>2, <1>7 DEF LastRequest, At, client, stream, history
<1>8. ASSUME ~miscounted
      PROVE  Chained'
  <2>0. LastRequest /\ Chained
    BY <1>8
  <2>1. PICK g : Counts(g) /\ (Quiet => \E f, e : Path(g, f, e))
    BY <2>0 DEF Chained
  <2>2. PICK h : h = [i \in 0 .. Len(toClient) + 1 |->
                         IF i <= Len(toClient) THEN g[i] ELSE Len(toServer')]
    OBVIOUS
  <2>3. UNCHANGED <<agg, listening, synced, mismatch, results, toServer, open, misled>>
    BY DEF client, stream, history
  <2>4. Len(toServer') = Len(toServer) /\ Len(toServer') \in Nat
    BY <2>3, EmptyQueue DEF Typed
  <2>8. listening \/ Len(toServer) # 0
    BY <2>0, EmptyQueue DEF LastRequest, Typed
  <2>5. Counts(h)'
    BY <1>1, <1>2, <2>1, <2>2, <2>3, <2>4, <2>8, CountsSent
  <2>6. ASSUME Quiet
        PROVE  \E f1, e1 : Path(h, f1, e1)'
    <3>1. PICK f, e : Path(g, f, e)
      BY <2>1, <2>6
    <3> DEFINE n == Len(toClient)
    <3>3. f[n] \in SUBSET Docs /\ Ends(f[n], e[n], Idle(g, n))
      BY <1>1, <3>1 DEF Path
    <3>4. Idle(g, n) \in BOOLEAN
      BY DEF Idle
    <3>5. Sound(f[n], e[n], Idle(g, n), m)
      BY <3>3, <3>4
    <3>6. toServer = <<>>
      BY <2>6 DEF Quiet
    <3>7. UNCHANGED <<agg, synced, mismatch, results, toServer>>
      BY <2>3
    <3> QED
      BY <1>1, <2>1, <2>2, <3>1, <3>5, <3>6, <3>7, PathSent
  <2>7. Quiet' => Quiet
    BY <2>3 DEF Quiet
  <2> QED BY <2>5, <2>6, <2>7 DEF Chained
<1>9. miscounted' = miscounted
  BY DEF stream
<1> QED BY <1>3, <1>4, <1>5, <1>6, <1>7, <1>8, <1>9

(* A server that serves has all its fields.                                 *)
LEMMA Serves ==
  ASSUME Typed, srv.on
  PROVE  /\ srv \in Served /\ srv.r \in Nat /\ srv.has \subseteq Docs
         /\ srv.filter \in {"none", "due", "sent"}
         /\ srv.started \in BOOLEAN /\ srv.current \in BOOLEAN /\ srv.news \in BOOLEAN
<1>1. ~Off.on /\ \A t \in [on : {FALSE}, r : Nat] : ~t.on
  BY DEF Off
<1>2. srv \in Served
  BY <1>1 DEF Typed
<1> QED BY <1>2 DEF Served

(* A document's message.                                                    *)
LEMMA SendDocumentKeeps ==
  ASSUME Whole, NEW d \in Docs, SendDocument(d)
  PROVE  Whole'
<1>0. Typed
  BY DEF Whole
<1>1. /\ srv.on /\ srv.filter # "due" /\ UNCHANGED <<disk, client, stream, toServer,
                                                    results, history>>
  BY DEF SendDocument, Serving
<1>2. srv \in Served /\ srv.r \in Nat
  BY <1>0, <1>1, Serves
<1>3. CASE /\ d \in results[Latest] \ srv.has
           /\ Send([type |-> "add", doc |-> d, r |-> srv.r])
           /\ Serving([srv EXCEPT !.has = @ \cup {d}, !.started = TRUE, !.news = TRUE])
  <2>1. PICK m : m = [type |-> "add", doc |-> d, r |-> srv.r]
    OBVIOUS
  <2>2. m \in Responses /\ m.type = "add" /\ m.doc = d /\ m.r = srv.r
    BY <1>2, <2>1 DEF Responses
  <2>3. /\ srv' \in Served /\ srv'.r = srv.r /\ srv'.has = srv.has \cup {d}
        /\ srv'.started /\ srv'.filter = srv.filter
    BY <1>2, <1>3 DEF Serving, Served
  <2>4. ASSUME NEW s, NEW S \in SUBSET Docs, NEW idle \in BOOLEAN, Ends(S, s, idle)
        PROVE  Sound(S, s, idle, m)
    BY <1>1, <2>2, <2>3, <2>4 DEF Sound, Ends, NextStage, Effect
  <2> QED
    BY <1>1, <1>3, <2>1, <2>2, <2>3, <2>4, Sent DEF Acks
<1>4. CASE /\ d \in srv.has \ results[Latest]
           /\ Send([type |-> "remove", doc |-> d, r |-> srv.r])
           /\ Serving([srv EXCEPT !.has = @ \ {d}, !.started = TRUE, !.news = TRUE])
  <2>1. PICK m : m = [type |-> "remove", doc |-> d, r |-> srv.r]
    OBVIOUS
  <2>2. m \in Responses /\ m.type = "remove" /\ m.doc = d /\ m.r = srv.r
    BY <1>2, <2>1 DEF Responses
  <2>3. /\ srv' \in Served /\ srv'.r = srv.r /\ srv'.has = srv.has \ {d}
        /\ srv'.started /\ srv'.filter = srv.filter
    BY <1>2, <1>4 DEF Serving, Served
  <2>4. ASSUME NEW s, NEW S \in SUBSET Docs, NEW idle \in BOOLEAN, Ends(S, s, idle)
        PROVE  Sound(S, s, idle, m)
    BY <1>1, <2>2, <2>3, <2>4 DEF Sound, Ends, NextStage, Effect
  <2> QED
    BY <1>1, <1>4, <2>1, <2>2, <2>3, <2>4, Sent DEF Acks
<1> QED BY <1>3, <1>4 DEF SendDocument

(* An existence filter: the server has forgotten documents, so that it      *)
(* counts fewer than the client will have.                                  *)
LEMMA SendFilterKeeps ==
  ASSUME Whole, SendFilter
  PROVE  Whole'
<1>0. Typed
  BY DEF Whole
<1>1. /\ srv.on /\ srv.filter = "due" /\ UNCHANGED <<disk, client, stream, toServer,
                                                    results, history>>
  BY DEF SendFilter, Serving
<1>2. srv \in Served /\ srv.r \in Nat /\ srv.has \subseteq Docs
  BY <1>0, <1>1, Serves
<1>3. IsFiniteSet(srv.has) /\ Cardinality(srv.has) \in Nat
  BY <1>2, FS_Subset, FS_CardinalityType, TargetAssumption DEF TargetAssumption
<1>4. PICK m : m = [type |-> "filter", count |-> Cardinality(srv.has), r |-> srv.r]
  OBVIOUS
<1>5. /\ m \in Responses /\ m.type = "filter" /\ m.r = srv.r
      /\ m.count = Cardinality(srv.has)
  BY <1>2, <1>3, <1>4 DEF Responses
<1>6. srv' \in Served /\ srv'.r = srv.r /\ srv'.filter = "sent"
  BY <1>2 DEF SendFilter, Serving, Served
<1>7. ASSUME NEW s, NEW S \in SUBSET Docs, NEW idle \in BOOLEAN, Ends(S, s, idle)
      PROVE  Sound(S, s, idle, m)
  <2>1. s = "good" => Cardinality(srv.has) # Cardinality(S)
    <3>1. SUFFICES ASSUME s = "good"
                   PROVE  Cardinality(srv.has) # Cardinality(S)
      OBVIOUS
    <3>2. srv.has \subseteq S /\ srv.has # S
      BY <1>1, <1>7, <3>1 DEF Ends
    <3>3. IsFiniteSet(S)
      BY FS_Subset, TargetAssumption DEF TargetAssumption
    <3>4. Cardinality(srv.has) < Cardinality(S)
      BY <3>2, <3>3, FS_Subset, FS_CardinalityType
    <3> QED BY <1>3, <3>3, <3>4, FS_CardinalityType
  <2> QED BY <1>5, <1>6, <2>1 DEF Sound, NextStage
<1> QED
  BY <1>1, <1>4, <1>5, <1>6, <1>7, Sent DEF Acks, SendFilter

(* A reset.                                                                 *)
LEMMA SendResetKeeps ==
  ASSUME Whole, SendReset
  PROVE  Whole'
<1>0. Typed
  BY DEF Whole
<1>1. /\ srv.on /\ srv.filter = "none" /\ UNCHANGED <<disk, client, stream, toServer,
                                                     results, history>>
  BY DEF SendReset, Serving
<1>2. srv \in Served /\ srv.r \in Nat
  BY <1>0, <1>1, Serves
<1>3. PICK m : m = [type |-> "reset", token |-> 0, r |-> srv.r]
  OBVIOUS
<1>4. m \in Responses /\ m.type = "reset" /\ m.r = srv.r
  BY <1>2, <1>3 DEF Responses
<1>5. /\ srv' \in Served /\ srv'.r = srv.r /\ srv'.has = {} /\ srv'.started
      /\ srv'.filter = srv.filter
  BY <1>2 DEF SendReset, Serving, Served
<1>6. ASSUME NEW s, NEW S \in SUBSET Docs, NEW idle \in BOOLEAN, Ends(S, s, idle)
      PROVE  Sound(S, s, idle, m)
  BY <1>1, <1>4, <1>5, <1>6 DEF Sound, Ends, NextStage, Effect
<1> QED
  BY <1>1, <1>3, <1>4, <1>5, <1>6, Sent DEF Acks, SendReset

(* CURRENT.                                                                 *)
LEMMA SendCurrentKeeps ==
  ASSUME Whole, SendCurrent
  PROVE  Whole'
<1>0. Typed /\ Latest \in 1 .. MaxVersion
  BY DEF Whole, Known
<1>1. /\ srv.on /\ srv.filter = "none" /\ UNCHANGED <<disk, client, stream, toServer,
                                                     results, history>>
  BY DEF SendCurrent, Serving
<1>2. srv \in Served /\ srv.r \in Nat
  BY <1>0, <1>1, Serves
<1>3. PICK m : m = [type |-> "current", token |-> Latest, r |-> srv.r]
  OBVIOUS
<1>4. m \in Responses /\ m.type = "current" /\ m.r = srv.r /\ m.token = Latest
  BY <1>0, <1>2, <1>3 DEF Responses
<1>5. /\ srv' \in Served /\ srv'.r = srv.r /\ srv'.has = srv.has /\ srv'.current
      /\ srv'.filter = srv.filter
  BY <1>2 DEF SendCurrent, Serving, Served
<1>6. ASSUME NEW s, NEW S \in SUBSET Docs, NEW idle \in BOOLEAN, Ends(S, s, idle)
      PROVE  Sound(S, s, idle, m)
  BY <1>1, <1>4, <1>5, <1>6 DEF Sound, Ends, NextStage, Effect
<1>7. Send(m) /\ ~Acks(m) /\ m.type # "error" /\ m.token <= Latest
  BY <1>0, <1>3, <1>4 DEF Acks, SendCurrent
<1> QED BY <1>1, <1>4, <1>5, <1>6, <1>7, Sent

(* A snapshot: with a token when the target has been sent everything.       *)
LEMMA SendSnapshotKeeps ==
  ASSUME Whole, SendSnapshot
  PROVE  Whole'
<1>0. Typed /\ Latest \in 1 .. MaxVersion
  BY DEF Whole, Known
<1>1. /\ srv.on /\ srv.news /\ srv.filter # "due"
      /\ UNCHANGED <<disk, client, stream, toServer, results, history>>
      /\ srv.has = results[Latest] \/ ~srv.started
      /\ srv.current => srv.has = results[Latest]
  BY DEF SendSnapshot, Serving
<1>2. srv \in Served /\ srv.r \in Nat
  BY <1>0, <1>1, Serves
<1>3. PICK m : m = [type |-> "snapshot", version |-> Latest,
                    token |-> IF srv.has = results[Latest] THEN Latest ELSE 0]
  OBVIOUS
<1>4. /\ m.type = "snapshot" /\ m.version = Latest
      /\ m.token = IF srv.has = results[Latest] THEN Latest ELSE 0
  BY <1>3
<1>5. m \in Responses /\ m.token <= Latest
  <2>1. m.token \in 0 .. MaxVersion /\ m.token <= Latest
    BY <1>0, <1>4
  <2>2. m = [type |-> "snapshot", version |-> m.version, token |-> m.token]
    BY <1>3
  <2> QED BY <1>0, <1>4, <2>1, <2>2 DEF Responses
<1>6. /\ srv' \in Served /\ srv'.r = srv.r /\ srv'.has = srv.has /\ ~srv'.news
      /\ srv'.filter = "none"
  BY <1>2 DEF SendSnapshot, Serving, Served
<1>7. ASSUME NEW s, NEW S \in SUBSET Docs, NEW idle \in BOOLEAN, Ends(S, s, idle)
      PROVE  Sound(S, s, idle, m)
  <2>1. s = "good" => srv.has = S /\ (~srv.started /\ ~srv.current => idle)
    BY <1>1, <1>7 DEF Ends
  <2>2. m.token = 0 => ~srv.started /\ ~srv.current
    BY <1>0, <1>1, <1>4
  <2>3. m.token # 0 => srv.has = results[Latest] /\ m.token = m.version
    BY <1>4
  <2>4. NextStage(s, m) = "good" => s = "good"
    BY <1>4 DEF NextStage
  <2>5. NextStage(s, m) # "lost"
    BY <1>4 DEF NextStage
  <2>6. Effect(S, m) = S
    BY <1>4 DEF Effect
  <2> QED BY <1>4, <1>6, <2>1, <2>2, <2>3, <2>4, <2>5, <2>6 DEF Sound
<1>8. Send(m) /\ ~Acks(m) /\ ~Numbered(m) /\ m.type # "error" /\ m.version <= Latest
  BY <1>0, <1>3, <1>4 DEF Acks, Numbered, SendSnapshot
<1> QED BY <1>1, <1>4, <1>5, <1>6, <1>7, <1>8, Sent

(* A step of the server that sends nothing.                                 *)
LEMMA Unsent ==
  ASSUME Whole, UNCHANGED <<disk, client, stream, channel, history>>,
         Latest' \in Latest .. MaxVersion, results' \in Seq(SUBSET Docs),
         \A v \in 1 .. Latest : results'[v] = results[v],
         srv' = srv \/ (srv.on /\ srv'.on /\ srv' \in Served /\ srv'.r = srv.r),
         \A s : \A S \in SUBSET Docs, idle \in BOOLEAN :
            srv.on /\ Ends(S, s, idle) => Ends(S, s, idle)'
  PROVE  Whole'
<1> USE DEF Whole
<1>0. /\ Latest \in Nat /\ Latest' \in Nat /\ Latest <= Latest' /\ Latest' <= MaxVersion
      /\ Latest >= 1
  BY DEF Known
<1>1. Types' /\ Stored' /\ Sets'
  BY <1>0, ClientKept
<1>2. Typed'
  BY <1>1 DEF Typed, channel
<1>3. Known'
  <2>1. /\ at \in Nat /\ token \in Nat /\ heldToken \in Nat /\ sentToken \in Nat
        /\ agg # NoState => agg.token \in Nat
    BY StateShape DEF Typed, Types
  <2>2. Latest' \in 1 .. MaxVersion
    BY <1>0
  <2>3. /\ at' <= Latest' /\ token' <= Latest' /\ heldToken' <= Latest'
        /\ sentToken' <= Latest' /\ (agg' # NoState => agg'.token <= Latest')
    BY <1>0, <2>1 DEF Known, disk, client, stream, history
  <2>4. ASSUME NEW i \in 1 .. Len(toServer), toServer[i].type = "watch"
        PROVE  toServer[i].token <= Latest'
    <3>1. toServer[i] \in Requests
      BY DEF Typed
    <3>2. toServer[i].token \in Nat /\ toServer[i].token <= Latest
      BY <2>4, <3>1, RequestShape DEF Known
    <3> QED BY <1>0, <3>2
  <2>5. ASSUME NEW i \in 1 .. Len(toClient)
        PROVE  /\ toClient[i].type \in {"current", "snapshot"} =>
                     toClient[i].token <= Latest'
               /\ toClient[i].type = "snapshot" => toClient[i].version <= Latest'
    <3>1. toClient[i] \in Responses
      BY DEF Typed
    <3>2. /\ toClient[i].type \in {"current", "snapshot"} =>
               toClient[i].token \in Nat /\ toClient[i].token <= Latest
          /\ toClient[i].type = "snapshot" =>
               toClient[i].version \in Nat /\ toClient[i].version <= Latest
      BY <3>1, ResponseShape DEF Known
    <3> QED BY <1>0, <3>2
  <2> QED BY <2>2, <2>3, <2>4, <2>5 DEF Known, channel
<1>4. Closed'
  <2>1. srv = Off => srv' = Off
    BY DEF Off
  <2> QED BY <2>1 DEF Closed, client, stream, channel, history
<1>7. /\ srv = Off <=> srv' = Off
      /\ srv.on <=> srv'.on
      /\ srv # Off => srv'.r = srv.r
  BY DEF Off
<1>5. ASSUME ~miscounted
      PROVE  LastRequest'
  <2>0. LastRequest
    BY <1>5
  <2>1. CASE toServer = <<>>
    BY <1>7, <2>0, <2>1 DEF LastRequest, client, stream, channel, history
  <2>2. CASE toServer # <<>>
    <3>1. Len(toServer) \in 1 .. Len(toServer)
      BY <2>2, EmptyQueue DEF Typed
    <3> DEFINE q == toServer[Len(toServer)]
    <3>2. q \in Requests /\ (q.type = "watch" => q.token \in Nat /\ q.token <= Latest)
      BY <3>1, RequestShape DEF Typed, Known
    <3>3. q.type = "watch" => (IF q.token = 0 THEN {} ELSE results'[q.token]) = At(q.token)
      BY <3>2 DEF At
    <3> QED BY <2>0, <2>2, <3>3 DEF LastRequest, At, client, stream, channel, history
  <2> QED BY <2>1, <2>2
<1>6. ASSUME ~miscounted
      PROVE  Chained'
  <2>0. Chained
    BY <1>6
  <2>1. PICK g : Counts(g) /\ (Quiet => \E f, e : Path(g, f, e))
    BY <2>0 DEF Chained
  <2>2. Counts(g)'
    BY <1>7, <2>1 DEF Counts, Outstanding, Acks, Numbered, client, stream, channel
  <2>3. ASSUME Quiet
        PROVE  \E f, e : Path(g, f, e)'
    <3>1. PICK f, e : Path(g, f, e)
      BY <2>1, <2>3
    <3> DEFINE n == Len(toClient)
    <3>3. f[n] \in SUBSET Docs /\ Idle(g, n) \in BOOLEAN
      <4>1. n \in 0 .. n
        BY EmptyQueue DEF Typed
      <4> QED BY <3>1, <4>1 DEF Path, Idle
    <3>4. Ends(f[n], e[n], Idle(g, n)) =>
             Ends(f[Len(toClient)], e[Len(toClient)], Idle(g, Len(toClient)))'
      BY <1>7, <3>3 DEF Ends, Idle, stream, channel
    <3>5. UNCHANGED <<agg, synced, mismatch, toClient>>
      BY DEF client, stream, channel
    <3>6. ASSUME NEW i \in 1 .. Len(toClient), toClient[i].type = "snapshot"
          PROVE  results'[toClient[i].version] = results[toClient[i].version]
      <4>1. toClient[i] \in Responses
        BY DEF Typed
      <4>2. toClient[i].version \in 1 .. Latest
        BY <1>0, <3>6, <4>1, ResponseShape DEF Known
      <4> QED BY <4>2
    <3> QED BY <3>1, <3>4, <3>5, <3>6, PathKept
  <2>4. Quiet' => Quiet
    BY DEF Quiet, client, stream, channel, history
  <2> QED BY <2>2, <2>3, <2>4 DEF Chained
<1>8. miscounted' = miscounted
  BY DEF stream
<1> QED BY <1>1, <1>2, <1>3, <1>4, <1>5, <1>6, <1>8

(* A document comes to match or ceases to.                                  *)
LEMMA ChangeKeeps ==
  ASSUME Whole, Change
  PROVE  Whole'
<1>1. /\ results \in Seq(SUBSET Docs) /\ Latest \in 1 .. MaxVersion /\ Latest < MaxVersion
      /\ srv \in Served \cup [on : {FALSE}, r : Nat] \cup {Off}
  BY DEF Whole, Typed, Types, Known, Change
<1>2. PICK S \in SUBSET Docs : results' = Append(results, S)
  <2>1. PICK d \in Docs :
           results' = Append(results, IF d \in results[Latest] THEN results[Latest] \ {d}
                                      ELSE results[Latest] \cup {d})
    BY DEF Change
  <2>2. results[Latest] \in SUBSET Docs
    BY <1>1 DEF Latest
  <2> QED BY <2>1, <2>2
<1>3. /\ results' \in Seq(SUBSET Docs) /\ Latest' = Latest + 1
      /\ \A v \in 1 .. Latest : results'[v] = results[v]
  BY <1>1, <1>2, Added DEF Latest
<1>4. UNCHANGED <<disk, client, stream, channel, history, srv>>
  BY DEF Change
<1>5. ASSUME NEW s, NEW T, NEW idle, Ends(T, s, idle)
      PROVE  Ends(T, s, idle)'
  BY <1>4, <1>5 DEF Ends
<1> QED BY <1>1, <1>3, <1>4, <1>5, Unsent

(* The server forgets documents that have ceased to match.                  *)
LEMMA ForgetKeeps ==
  ASSUME Whole, Forget
  PROVE  Whole'
<1>1. Typed /\ Latest \in 1 .. MaxVersion
  BY DEF Whole, Known
<1>2. /\ srv.on /\ srv.filter = "none" /\ srv.has \ results[Latest] # {}
      /\ UNCHANGED <<disk, client, stream, channel, results, history>>
  BY DEF Forget, Serving, channel
<1>3. srv \in Served
  BY <1>1, <1>2, Serves
<1>4. /\ srv' \in Served /\ srv'.on /\ srv'.r = srv.r /\ srv'.filter = "due"
      /\ srv'.has = srv.has \cap results[Latest]
      /\ srv'.started = srv.started /\ srv'.current = srv.current /\ srv'.news = srv.news
  BY <1>3 DEF Forget, Serving, Served
<1>5. ASSUME NEW s, NEW S, NEW idle, Ends(S, s, idle)
      PROVE  Ends(S, s, idle)'
  BY <1>2, <1>4, <1>5 DEF Ends
<1>6. Latest' = Latest /\ results \in Seq(SUBSET Docs) /\ srv # Off
  BY <1>1, <1>2 DEF Latest, Typed, Types, Off
<1> QED BY <1>1, <1>2, <1>4, <1>5, <1>6, Unsent

(* A request taken from the queue leaves the last one, unless it was it.    *)
LEMMA RequestTaken ==
  ASSUME Typed, toServer # <<>>
  PROVE  /\ Head(toServer) \in Requests
         /\ Tail(toServer) \in Seq(Requests) /\ Len(toServer) \in Nat \ {0}
         /\ Len(Tail(toServer)) = Len(toServer) - 1
         /\ \A i \in 1 .. Len(Tail(toServer)) :
               Tail(toServer)[i] = toServer[i + 1] /\ i + 1 \in 1 .. Len(toServer)
         /\ Tail(toServer) = <<>> => Head(toServer) = toServer[Len(toServer)]
         /\ Tail(toServer) # <<>> =>
               Tail(toServer)[Len(Tail(toServer))] = toServer[Len(toServer)]
<1>1. /\ Head(toServer) = toServer[1] /\ toServer[1] \in Requests
      /\ Tail(toServer) \in Seq(Requests) /\ Len(toServer) \in Nat \ {0}
      /\ Len(Tail(toServer)) = Len(toServer) - 1
      /\ \A i \in 1 .. Len(toServer) - 1 : Tail(toServer)[i] = toServer[i + 1]
      /\ Tail(toServer) = <<>> <=> Len(toServer) = 1
  BY Taken DEF Typed
<1>2. ASSUME NEW i \in 1 .. Len(Tail(toServer))
      PROVE  Tail(toServer)[i] = toServer[i + 1] /\ i + 1 \in 1 .. Len(toServer)
  BY <1>1
<1>3. ASSUME Tail(toServer) # <<>>
      PROVE  Tail(toServer)[Len(Tail(toServer))] = toServer[Len(toServer)]
  <2>1. /\ Len(toServer) - 1 \in 1 .. Len(toServer) - 1
        /\ (Len(toServer) - 1) + 1 = Len(toServer)
    BY <1>1, <1>3
  <2> QED BY <1>1, <2>1
<1> QED BY <1>1, <1>2, <1>3

(* The server takes a request and answers it.                               *)
LEMMA Answered ==
  ASSUME Whole, toServer # <<>>, toServer' = Tail(toServer),
         UNCHANGED <<disk, client, stream, results, history>>,
         NEW m \in Responses, Acks(m), Send(m),
         Head(toServer).type = "unwatch" => m.type = "removed" /\ srv' = Off,
         Head(toServer).type = "watch" =>
            /\ m.type \in {"added", "error"} /\ srv' # Off /\ srv'.r = Head(toServer).r
            /\ \/ /\ srv' \in Served /\ srv'.on /\ srv'.filter = "none"
                  /\ srv'.has = At(Head(toServer).token)
               \/ srv' \in [on : {FALSE}, r : Nat],
         m.type = "error" => ~srv'.on
  PROVE  Whole'
<1>0. Typed /\ Known /\ Closed /\ Stored /\ Sets /\ (~miscounted => LastRequest /\ Chained)
  BY DEF Whole
<1> DEFINE req == Head(toServer)
<1>1. open
  BY <1>0 DEF Closed
<1>3. \A u \in [on : {FALSE}, r : Nat] : ~u.on
  OBVIOUS
<1>4. /\ Len(toServer) \in Nat \ {0} /\ req \in Requests
      /\ toServer' \in Seq(Requests) /\ Len(toServer') = Len(toServer) - 1
      /\ \A i \in 1 .. Len(toServer') :
            toServer'[i] = toServer[i + 1] /\ i + 1 \in 1 .. Len(toServer)
      /\ toServer' = <<>> => req = toServer[Len(toServer)]
      /\ toServer' # <<>> => toServer'[Len(toServer')] = toServer[Len(toServer)]
  BY <1>0, <1>1, RequestTaken
<1>5. /\ Len(toClient) \in Nat
      /\ toClient' \in Seq(Responses) /\ Len(toClient') = Len(toClient) + 1
      /\ \A i \in 1 .. Len(toClient) : toClient'[i] = toClient[i]
      /\ toClient'[Len(toClient) + 1] = m
      /\ toClient' = Append(toClient, m)
  BY <1>0, <1>3, Added DEF Typed, Send
<1>9. Types' /\ Stored' /\ Sets'
  <2>1. /\ results \in Seq(SUBSET Docs) /\ Latest \in Nat /\ Latest <= MaxVersion
        /\ Latest' = Latest
    BY <1>0 DEF Known, Latest, Typed, Types
  <2> QED BY <1>0, <2>1, ClientKept
<1>10. Typed'
  BY <1>4, <1>5, <1>9, RequestShape DEF Typed
<1>11. Known'
  <2>1. ASSUME NEW i \in 1 .. Len(toClient')
        PROVE  /\ toClient'[i].type \in {"current", "snapshot"} =>
                     toClient'[i].token <= Latest
               /\ toClient'[i].type = "snapshot" => toClient'[i].version <= Latest
    <3>1. CASE i = Len(toClient) + 1
      BY <1>5, <3>1 DEF Acks
    <3>2. CASE i # Len(toClient) + 1
      <4>1. i \in 1 .. Len(toClient)
        BY <1>5, <3>2
      <4> QED BY <1>0, <1>5, <4>1 DEF Known
    <3> QED BY <3>1, <3>2
  <2>2. ASSUME NEW i \in 1 .. Len(toServer'), toServer'[i].type = "watch"
        PROVE  toServer'[i].token <= Latest
    BY <1>0, <1>4, <2>2 DEF Known
  <2> QED BY <1>0, <1>1, <2>1, <2>2 DEF Known, Latest, disk, client, stream, history
<1>12. Closed'
  BY <1>0, <1>1 DEF Closed, client, stream, history
<1>13. ASSUME ~miscounted
       PROVE  LastRequest'
  <2>1. CASE toServer' = <<>>
    <3>1. /\ req.type = "watch" <=> listening
          /\ listening => req.r = requests
      BY <1>0, <1>13, <1>4, <2>1 DEF LastRequest
    <3>2. srv'.on => open /\ listening
      BY <1>1, <1>4, <3>1, RequestShape DEF Off
    <3>3. listening => srv' # Off /\ srv'.r = requests
      BY <3>1
    <3> QED BY <1>1, <2>1, <3>2, <3>3 DEF LastRequest, client, stream, history
  <2>2. CASE toServer' # <<>>
    BY <1>0, <1>1, <1>13, <1>4, <2>2 DEF LastRequest, At, client, stream, history
  <2> QED BY <2>1, <2>2
<1>14. ASSUME ~miscounted
       PROVE  Chained'
  <2>0. LastRequest /\ Chained
    BY <1>0, <1>14
  <2>1. PICK g : Counts(g) /\ (Quiet => \E f, e : Path(g, f, e))
    BY <2>0 DEF Chained
  <2>2. PICK h : h = [i \in 0 .. Len(toClient) + 1 |->
                         IF i <= Len(toClient) THEN g[i] ELSE Len(toServer')]
    OBVIOUS
  <2>3. UNCHANGED <<agg, listening, synced, mismatch, results, open, misled>>
    BY DEF client, stream, history
  <2>4. Len(toServer') \in Nat /\ (Len(toServer) = 1 <=> toServer' = <<>>)
    BY <1>4, EmptyQueue
  <2>5. listening /\ Len(toServer) = 1 => m.type \in {"added", "error"}
    <3>1. CASE toServer' = <<>>
      BY <1>4, <2>0, <3>1 DEF LastRequest
    <3> QED BY <2>4, <3>1
  <2>6. Counts(h)'
    BY <1>0, <1>4, <1>5, <2>1, <2>2, <2>3, <2>4, <2>5, CountsSent
  <2>7. ASSUME Quiet'
        PROVE  \E f1, e1 : Path(h, f1, e1)'
    <3>1. toServer' = <<>> /\ listening /\ ~misled
      BY <2>3, <2>7 DEF Quiet
    <3>2. Len(toServer) = 1 /\ Len(toServer') = 0
      BY <1>4, <2>4, <3>1
    <3>3. req.type = "watch" /\ At(req.token) = synced
      BY <1>4, <2>0, <3>1 DEF LastRequest
    <3>4. srv'.on => srv'.filter = "none" /\ srv'.has = synced
      BY <1>3, <3>3
    <3> QED BY <1>0, <1>5, <2>1, <2>2, <2>3, <3>2, <3>4, PathReceived
  <2> QED BY <2>6, <2>7 DEF Chained
<1>15. miscounted' = miscounted
  BY DEF stream
<1> QED BY <1>9, <1>10, <1>11, <1>12, <1>13, <1>14, <1>15 DEF Whole

(* The server adds the target, or takes it away.                            *)
LEMMA ReceiveKeeps ==
  ASSUME Whole, Receive
  PROVE  Whole'
<1>0. Typed /\ Known
  BY DEF Whole
<1> DEFINE req == Head(toServer)
<1>1. /\ toServer # <<>> /\ toServer' = Tail(toServer)
      /\ UNCHANGED <<disk, client, stream, results, history>>
  BY DEF Receive
<1>2. req \in Requests /\ req = toServer[1] /\ 1 \in 1 .. Len(toServer)
  BY <1>0, <1>1, Taken DEF Typed
<1>3. CASE req.type = "unwatch"
  <2>1. PICK m : m = [type |-> "removed"]
    OBVIOUS
  <2>2. m \in Responses /\ Acks(m) /\ m.type = "removed"
    BY <2>1 DEF Acks, Responses
  <2>3. Send(m) /\ srv' = Off
    BY <1>3, <2>1 DEF Receive
  <2> QED BY <1>1, <1>3, <2>2, <2>3, Answered
<1>4. CASE req.type = "watch"
  <2>1. PICK m : m = [type |-> "added", token |-> 0]
    OBVIOUS
  <2>2. m \in Responses /\ Acks(m) /\ m.type = "added"
    BY <2>1 DEF Acks, Responses
  <2>3. /\ Send(m)
        /\ srv' = [on |-> TRUE, r |-> req.r, has |-> At(req.token), started |-> FALSE,
                   current |-> FALSE, filter |-> "none", news |-> TRUE]
    BY <1>4, <2>1 DEF Receive
  <2>4. req.token \in 0 .. MaxVersion /\ req.r \in Nat /\ req.token <= Latest
    BY <1>0, <1>2, <1>4, RequestShape DEF Known
  <2>5. At(req.token) \in SUBSET Docs
    BY <1>0, <2>4 DEF At, Latest, Typed, Types
  <2>6. /\ srv' \in Served /\ srv'.on /\ srv'.r = req.r /\ srv'.filter = "none"
        /\ srv'.has = At(req.token) /\ srv' # Off
    BY <2>3, <2>4, <2>5 DEF Served, Off
  <2> QED BY <1>1, <1>4, <2>2, <2>3, <2>6, Answered
<1> QED BY <1>2, <1>3, <1>4, RequestShape

(* The server refuses a target.                                             *)
LEMMA RefuseKeeps ==
  ASSUME Whole, Refuse
  PROVE  Whole'
<1>0. Typed
  BY DEF Whole
<1>1. UNCHANGED <<disk, client, stream, results, history>>
  BY DEF Refuse
<1>2. CASE /\ toServer # <<>> /\ Head(toServer).type = "watch"
           /\ toServer' = Tail(toServer)
           /\ Send([type |-> "error", alone |-> TRUE])
           /\ srv' = Refused(Head(toServer).r)
  <2>1. PICK m : m = [type |-> "error", alone |-> TRUE]
    OBVIOUS
  <2>2. m \in Responses /\ Acks(m) /\ m.type = "error"
    BY <2>1 DEF Acks, Responses
  <2>3. Head(toServer).r \in Nat
    BY <1>0, <1>2, Taken, RequestShape DEF Typed
  <2>4. /\ srv' \in [on : {FALSE}, r : Nat] /\ srv'.r = Head(toServer).r
        /\ ~srv'.on /\ srv' # Off
    BY <1>2, <2>3 DEF Refused, Off
  <2> QED BY <1>1, <1>2, <2>1, <2>2, <2>4, Answered
<1>3. CASE /\ srv.on
           /\ Send([type |-> "error", alone |-> FALSE])
           /\ srv' = Refused(srv.r)
           /\ UNCHANGED toServer
  <2>1. PICK m : m = [type |-> "error", alone |-> FALSE]
    OBVIOUS
  <2>2. m \in Responses /\ ~Acks(m) /\ ~Numbered(m) /\ m.type = "error"
    BY <2>1 DEF Acks, Numbered, Responses
  <2>3. srv' \in [on : {FALSE}, r : Nat] /\ srv'.r = srv.r /\ ~srv'.on
    BY <1>0, <1>3, Serves DEF Refused
  <2>4. ASSUME NEW s, NEW S \in SUBSET Docs, NEW idle \in BOOLEAN, Ends(S, s, idle)
        PROVE  Sound(S, s, idle, m)
    BY <2>2, <2>3 DEF Sound
  <2> QED BY <1>1, <1>3, <2>1, <2>2, <2>3, <2>4, Sent
<1> QED BY <1>2, <1>3 DEF Refuse

-----------------------------------------------------------------------------
(* A request put at the end of the queue is the last one.                   *)
LEMMA RequestPut ==
  ASSUME Typed, NEW q \in Requests, NEW s, s = Append(toServer, q)
  PROVE  /\ s \in Seq(Requests) /\ Len(s) = Len(toServer) + 1 /\ Len(toServer) \in Nat
         /\ s # <<>> /\ s[Len(s)] = q
         /\ \A i \in 1 .. Len(s) :
               s[i] = q \/ (i \in 1 .. Len(toServer) /\ s[i] = toServer[i])
  BY Added DEF Typed

(* The documents that matched at a version do not change.                   *)
LEMMA SameVersion ==
  ASSUME UNCHANGED results, NEW v
  PROVE  At(v)' = At(v)
  BY DEF At

(* What a request adds to the stream.                                       *)
LEMMA RequestSent ==
  ASSUME Typed, Known, Sets, open, UNCHANGED <<keys, open, mismatch, toClient, server>>,
         agg' = RecordPendingTargetRequest(agg),
         NEW q \in Requests, toServer' = Append(toServer, q),
         q.type = "watch" => q.token <= Latest
  PROVE  /\ agg' \in TargetStates /\ agg' # NoState /\ agg'.token <= Latest
         /\ Fits(keys', agg')
         /\ Chained => Chained'
         /\ toServer' \in Seq(Requests) /\ toServer' # <<>> /\ toServer'[Len(toServer')] = q
         /\ \A i \in 1 .. Len(toServer') :
               toServer'[i].type = "watch" => toServer'[i].token <= Latest
<1>1. /\ agg \in TargetStates \cup {NoState} /\ Latest \in Nat /\ 0 <= Latest
      /\ agg # NoState => agg.token <= Latest /\ Fits(keys, agg)
  BY DEF Typed, Types, Known, Sets
<1>2. /\ agg' \in TargetStates /\ agg' # NoState /\ Out(agg') = Out(agg) + 1
      /\ agg'.token = (IF agg = NoState THEN 0 ELSE agg.token)
      /\ \A S : (agg # NoState => Fits(S, agg)) => Fits(S, agg')
  BY <1>1, Requested
<1>3. agg'.token <= Latest /\ Outstanding' = Outstanding + 1 /\ Fits(keys, agg')
  BY <1>1, <1>2 DEF Outstanding
<1>4. Fits(keys', agg')
  BY <1>3
<1>5. /\ toServer' \in Seq(Requests) /\ Len(toServer') = Len(toServer) + 1
      /\ toServer' # <<>> /\ toServer'[Len(toServer')] = q
      /\ \A i \in 1 .. Len(toServer') :
            toServer'[i] = q \/ (i \in 1 .. Len(toServer) /\ toServer'[i] = toServer[i])
  BY RequestPut
<1>6. ASSUME Chained
      PROVE  Chained'
  <2>1. PICK g : Counts(g)
    BY <1>6 DEF Chained
  <2>2. \E h : Counts(h)'
    BY <1>3, <1>5, <2>1, CountsRequested DEF server
  <2>3. ~Quiet'
    BY <1>5 DEF Quiet
  <2> QED BY <2>2, <2>3 DEF Chained
<1>7. ASSUME NEW i \in 1 .. Len(toServer'), toServer'[i].type = "watch"
      PROVE  toServer'[i].token <= Latest
  BY <1>5, <1>7 DEF Known
<1> QED BY <1>2, <1>3, <1>4, <1>5, <1>6, <1>7

(* The app listens or stops while there is no stream.                       *)
LEMMA Offline ==
  ASSUME Typed, Closed, ~open, UNCHANGED <<open, stream, channel, server>>
  PROVE  Chained' /\ agg = NoState /\ toServer = <<>> /\ srv = Off /\ ~miscounted
<1>1. agg = NoState /\ toServer = <<>> /\ srv = Off /\ ~miscounted
  BY DEF Closed
<1>2. /\ toClient' = <<>> /\ Outstanding' = Len(toServer') /\ Len(toServer') \in Nat
      /\ ~Quiet'
  BY <1>1 DEF Closed, Quiet, Outstanding, Out, stream, channel
<1> QED BY <1>1, <1>2, CountsNone DEF Chained

(* The app listens.                                                         *)
LEMMA ListenKeeps ==
  ASSUME Whole, Listen
  PROVE  Whole'
<1>0. Typed /\ Known /\ Closed /\ Stored /\ Sets /\ (~miscounted => LastRequest /\ Chained)
  BY DEF Whole
<1>1. /\ listening' /\ heldToken' = token /\ sentToken' = token /\ synced' = keys
      /\ ~current' /\ (~misled' => ~misled /\ token \notin dated)
      /\ UNCHANGED <<keys, token, open, mismatch, miscounted, toClient, results, srv, at,
                     marked, dated>>
      /\ listening' = TRUE /\ current' = FALSE /\ misled' \in BOOLEAN
      /\ open /\ miscounted => misled'
  BY DEF Listen, GetRemoteDocumentKeys, disk, server
<1>2. /\ token \in 0 .. MaxVersion /\ token <= Latest /\ keys \subseteq Docs
      /\ requests \in Nat
  BY <1>0 DEF Typed, Types, Known
<1>6. marked \in Nat
  BY <1>0 DEF Typed, Types
<1>3. Stored' /\ KeysOfView'
  <2>1. ASSUME ~misled'
        PROVE  keys = At(token)'
    BY <1>0, <1>1, <2>1, SameVersion DEF Stored
  <2> QED BY <1>1, <2>1 DEF Stored, SyncedIsServer, KeysOfView, At
<1>4. CASE open
  <2>1. /\ agg' = RecordPendingTargetRequest(agg)
        /\ toServer' = Append(toServer, Watch(token)) /\ requests' = requests + 1
    BY <1>4 DEF Listen
  <2>2. PICK q : q = Watch(token)
    OBVIOUS
  <2>3. /\ q \in Requests /\ q.type = "watch" /\ q.token = token /\ q.r = requests'
    BY <1>2, <2>1, <2>2 DEF Watch, Requests
  <2>4. UNCHANGED <<keys, open, mismatch, toClient, server>>
    BY <1>1 DEF server
  <2>5. /\ agg' \in TargetStates /\ agg' # NoState /\ agg'.token <= Latest
        /\ Fits(keys', agg') /\ (Chained => Chained')
        /\ toServer' \in Seq(Requests) /\ toServer' # <<>> /\ toServer'[Len(toServer')] = q
        /\ \A i \in 1 .. Len(toServer') :
              toServer'[i].type = "watch" => toServer'[i].token <= Latest
    BY <1>0, <1>2, <1>4, <2>1, <2>2, <2>3, <2>4, RequestSent
  <2>6. Typed'
    <3>1. /\ agg' \in TargetStates \cup {NoState}
          /\ requests' \in Nat /\ marked' \in Nat
      BY <1>1, <1>2, <1>6, <2>1, <2>5
    <3> QED BY <1>0, <1>1, <1>2, <2>5, <3>1 DEF Typed, Types
  <2>7. Known'
    BY <1>0, <1>1, <1>2, <2>5 DEF Known, Latest
  <2>8. Closed'
    BY <1>0, <1>1, <1>4, <2>5 DEF Closed
  <2>9. ~miscounted => LastRequest'
    <3>1. ~misled' => At(token)' = synced'
      BY <1>0, <1>1, SameVersion DEF Stored
    <3> QED BY <1>1, <2>3, <2>5, <3>1 DEF LastRequest, At
  <2> QED BY <1>0, <1>1, <1>3, <2>5, <2>6, <2>7, <2>8, <2>9 DEF Whole, Sets
<1>5. CASE ~open
  <2>1. UNCHANGED <<agg, toServer, requests>>
    BY <1>5 DEF Listen
  <2>2. UNCHANGED <<open, stream, channel, server>>
    BY <1>1, <2>1 DEF stream, channel, server
  <2>3. Chained' /\ agg = NoState /\ toServer = <<>> /\ srv = Off /\ ~miscounted
    BY <1>0, <1>5, <2>2, Offline
  <2>4. Typed'
    BY <1>0, <1>1, <1>2, <2>1 DEF Typed, Types
  <2>5. Known'
    BY <1>0, <1>1, <1>2, <2>1 DEF Known, Latest
  <2>6. Closed'
    BY <1>0, <1>1, <1>5, <2>1 DEF Closed
  <2>7. LastRequest'
    BY <1>1, <1>5, <2>1, <2>3 DEF LastRequest, Off
  <2> QED BY <1>1, <1>3, <2>1, <2>3, <2>4, <2>5, <2>6, <2>7 DEF Whole, Sets
<1> QED BY <1>4, <1>5

(* What a target stopped for has on disk: the token that was only held in   *)
(* memory, with the documents of its version.                               *)
LEMMA Released ==
  ASSUME Typed, Known, Stored, listening, ReleaseQuery,
         UNCHANGED <<keys, results, at, misled, dated>>
  PROVE  /\ Stored' /\ KeysOfView'
         /\ token' \in 0 .. MaxVersion /\ token' <= Latest
<1>1. /\ listening' = FALSE /\ heldToken' = 0 /\ sentToken' = 0
      /\ synced' = {} /\ current' = FALSE
      /\ token' = IF heldToken > token THEN heldToken ELSE token
  BY DEF ReleaseQuery
<1>2. /\ token \in 0 .. MaxVersion /\ heldToken \in 0 .. MaxVersion
      /\ token <= Latest /\ heldToken <= Latest /\ Latest \in Nat
  BY DEF Typed, Types, Known
<1>3. token' \in 0 .. MaxVersion /\ token' <= Latest
  BY <1>1, <1>2
<1>4. ASSUME ~misled, token' \notin dated
      PROVE  keys = At(token')
  BY <1>1, <1>2, <1>4 DEF Stored
<1> QED BY <1>1, <1>3, <1>4, SameVersion DEF Stored, SyncedIsServer, KeysOfView, At

(* The app stops listening.                                                 *)
LEMMA StopListeningKeeps ==
  ASSUME Whole, StopListening
  PROVE  Whole'
<1>0. Typed /\ Known /\ Closed /\ Stored /\ Sets /\ (~miscounted => LastRequest /\ Chained)
  BY DEF Whole
<1>1. /\ listening /\ listening' = FALSE /\ heldToken' = 0 /\ sentToken' = 0
      /\ synced' = {} /\ current' = FALSE
      /\ token' = IF heldToken > token THEN heldToken ELSE token
      /\ UNCHANGED <<keys, open, mismatch, miscounted, toClient, results, srv, at,
                     requests, marked, dated, misled>>
  BY DEF StopListening, ReleaseQuery, server, history
<1>2. /\ token \in 0 .. MaxVersion /\ heldToken \in 0 .. MaxVersion
      /\ token <= Latest /\ heldToken <= Latest /\ Latest \in Nat
  BY <1>0 DEF Typed, Types, Known
<1>3. Stored' /\ KeysOfView' /\ token' \in 0 .. MaxVersion /\ token' <= Latest
  BY <1>0, <1>1, Released DEF StopListening
<1>4. CASE open
  <2>1. /\ agg' = RecordPendingTargetRequest(agg)
        /\ toServer' = Append(toServer, Unwatch)
    BY <1>4 DEF StopListening
  <2>2. PICK q : q = Unwatch
    OBVIOUS
  <2>3. /\ q \in Requests /\ q.type = "unwatch"
    BY <2>2 DEF Unwatch, Requests
  <2>4. UNCHANGED <<keys, open, mismatch, toClient, server>>
    BY <1>1 DEF server
  <2>5. /\ agg' \in TargetStates /\ agg' # NoState /\ agg'.token <= Latest
        /\ Fits(keys', agg') /\ (Chained => Chained')
        /\ toServer' \in Seq(Requests) /\ toServer' # <<>> /\ toServer'[Len(toServer')] = q
        /\ \A i \in 1 .. Len(toServer') :
              toServer'[i].type = "watch" => toServer'[i].token <= Latest
    BY <1>0, <1>2, <1>4, <2>1, <2>2, <2>3, <2>4, RequestSent
  <2>6. Typed'
    <3>1. /\ 0 \in 0 .. MaxVersion /\ agg' \in TargetStates \cup {NoState}
          /\ {} \subseteq Docs
      BY <2>5
    <3> QED BY <1>0, <1>1, <1>3, <2>5, <3>1 DEF Typed, Types
  <2>7. Known'
    BY <1>0, <1>1, <1>2, <2>5 DEF Known, Latest
  <2>8. Closed'
    BY <1>0, <1>1, <1>4 DEF Closed
  <2>9. ~miscounted => LastRequest'
    BY <1>1, <2>3, <2>5 DEF LastRequest
  <2> QED BY <1>0, <1>1, <1>3, <2>5, <2>6, <2>7, <2>8, <2>9 DEF Whole, Sets
<1>5. CASE ~open
  <2>1. UNCHANGED <<agg, toServer>>
    BY <1>5 DEF StopListening
  <2>2. UNCHANGED <<open, stream, channel, server>>
    BY <1>1, <2>1 DEF stream, channel, server
  <2>3. Chained' /\ agg = NoState /\ toServer = <<>> /\ srv = Off /\ ~miscounted
    BY <1>0, <1>5, <2>2, Offline
  <2>4. Typed'
    <3>1. 0 \in 0 .. MaxVersion /\ {} \subseteq Docs
      OBVIOUS
    <3> QED BY <1>0, <1>1, <1>3, <2>1, <3>1 DEF Typed, Types
  <2>5. Known'
    BY <1>0, <1>1, <1>2, <2>1 DEF Known, Latest
  <2>6. Closed'
    BY <1>0, <1>1, <1>5, <2>1 DEF Closed
  <2>7. LastRequest'
    BY <1>1, <1>5, <2>1, <2>3 DEF LastRequest, Off
  <2> QED BY <1>1, <1>3, <2>1, <2>3, <2>4, <2>5, <2>6, <2>7 DEF Whole, Sets
<1> QED BY <1>4, <1>5

-----------------------------------------------------------------------------
(* Nothing has been received on a stream yet, or there is none.             *)
LEMMA NothingReceived ==
  ASSUME toClient' = <<>>, toServer' \in Seq(Requests), Outstanding' = Len(toServer'),
         ~open' \/ toServer' # <<>>
  PROVE  Chained'
<1>1. Len(toServer') \in Nat /\ ~Quiet'
  BY EmptyQueue DEF Quiet
<1>2. PICK g : Counts(g)'
  BY <1>1, CountsNone
<1> QED BY <1>1, <1>2 DEF Chained

(* The stream opens, and the target is requested from where it got to.      *)
LEMMA OnWatchStreamOpenKeeps ==
  ASSUME Whole, OnWatchStreamOpen
  PROVE  Whole'
<1>0. Typed /\ Known /\ Closed /\ Stored /\ Sets
  BY DEF Whole
<1>1. /\ ~open /\ listening /\ open' = TRUE
      /\ agg' = RecordPendingTargetRequest(NoState)
      /\ requests' = requests + 1
      /\ UNCHANGED <<keys, token, listening, heldToken, sentToken, synced, current,
                     mismatch, miscounted, toClient, results, srv, at, marked, dated, misled>>
  BY DEF OnWatchStreamOpen, disk, client, server
<1>2. /\ sentToken \in 0 .. MaxVersion /\ sentToken <= Latest /\ Latest \in Nat
      /\ requests \in Nat /\ marked \in Nat
  BY <1>0 DEF Typed, Types, Known
<1>3. PICK q : q = Watch(sentToken)
  OBVIOUS
<1>4. /\ q \in Requests /\ q.type = "watch" /\ q.token = sentToken /\ q.r = requests'
  BY <1>1, <1>2, <1>3 DEF Watch, Requests
<1>5. /\ toServer' = <<q>> /\ toServer' \in Seq(Requests) /\ Len(toServer') = 1
      /\ toServer' # <<>> /\ toServer'[1] = q
  BY <1>3, <1>4 DEF OnWatchStreamOpen
<1>6. /\ agg' \in TargetStates /\ agg' # NoState /\ agg'.token = 0 /\ Outstanding' = 1
      /\ Fits(keys', agg')
  BY <1>1, Requested DEF Outstanding, Out
<1>7. toClient' = <<>> /\ ~mismatch' /\ ~miscounted'
  BY <1>0, <1>1 DEF Closed
<1>8. Stored' /\ KeysOfView'
  BY <1>0, <1>1 DEF Stored, SyncedIsServer, KeysOfView, Sets, At
<1>10. Typed'
  <2>1. /\ agg' \in TargetStates \cup {NoState}
        /\ requests' \in Nat /\ marked' \in Nat
    BY <1>1, <1>2, <1>6
  <2> QED BY <1>0, <1>1, <1>5, <2>1 DEF Typed, Types
<1>11. Known'
  <2>1. agg'.token <= Latest
    BY <1>2, <1>6
  <2>2. \A i \in 1 .. Len(toServer') : toServer'[i] = q
    BY <1>5
  <2>3. Len(toClient') = 0
    BY <1>7
  <2> QED BY <1>0, <1>1, <1>2, <1>4, <2>1, <2>2, <2>3 DEF Known, Latest
<1>12. Closed'
  BY <1>1, <1>6, <1>7 DEF Closed
<1>13. LastRequest'
  BY <1>0, <1>1, <1>4, <1>5 DEF LastRequest, Stored, At
<1>14. Chained'
  BY <1>5, <1>6, <1>7, NothingReceived
<1> QED BY <1>6, <1>8, <1>10, <1>11, <1>12, <1>13, <1>14 DEF Whole, Sets

(* The stream closes, or the app is launched again.                         *)
LEMMA StreamGoneKeeps ==
  ASSUME Whole, StreamGone, UNCHANGED <<disk, results, history>>,
         \/ UNCHANGED client
         \/ /\ listening' = FALSE /\ synced' = {} /\ current' = FALSE
            /\ heldToken' = 0 /\ sentToken' = 0
  PROVE  Whole'
<1>0. Typed /\ Known /\ Closed /\ Stored /\ Sets
  BY DEF Whole
<1>1. /\ open' = FALSE /\ agg' = NoState /\ mismatch' = FALSE /\ miscounted' = FALSE
      /\ toServer' = <<>> /\ toClient' = <<>> /\ srv' = Off
      /\ UNCHANGED <<keys, token, results, at, requests, marked, dated, misled>>
  BY DEF StreamGone, disk, history
<1>2. \/ UNCHANGED <<listening, heldToken, sentToken, synced, current>>
      \/ /\ listening' = FALSE /\ synced' = {} /\ current' = FALSE
         /\ heldToken' = 0 /\ sentToken' = 0
  BY DEF client
<1>3. /\ <<>> \in Seq(Requests) /\ <<>> \in Seq(Responses) /\ 0 \in 0 .. MaxVersion
      /\ {} \subseteq Docs /\ Len(toServer') = 0 /\ Len(toClient') = 0
  BY <1>1
<1>4. Stored' /\ KeysOfView'
  BY <1>0, <1>1, <1>2 DEF Stored, SyncedIsServer, KeysOfView, Sets, At
<1>6. Typed'
  BY <1>0, <1>1, <1>2, <1>3 DEF Typed, Types
<1>7. Known'
  <2>1. Latest \in Nat /\ 0 <= Latest
    BY <1>0 DEF Known
  <2> QED BY <1>0, <1>1, <1>2, <1>3, <2>1 DEF Known, Latest
<1>8. Closed'
  BY <1>1 DEF Closed
<1>9. LastRequest'
  BY <1>1 DEF LastRequest, Off
<1>10. Chained'
  BY <1>1, <1>3, NothingReceived DEF Outstanding, Out
<1> QED BY <1>1, <1>4, <1>6, <1>7, <1>8, <1>9, <1>10 DEF Whole, Sets

(* The invariant holds at first.                                            *)
LEMMA InitHolds == Init => Whole
<1> SUFFICES ASSUME Init PROVE Whole
  OBVIOUS
<1>1. PICK m \in SUBSET Docs : results = <<m>>
  BY DEF Init
<1>2. /\ keys = {} /\ token = 0 /\ listening = FALSE /\ heldToken = 0 /\ sentToken = 0
      /\ synced = {} /\ current = FALSE /\ open = FALSE /\ agg = NoState
      /\ mismatch = FALSE /\ miscounted = FALSE /\ toServer = <<>> /\ toClient = <<>> /\ srv = Off
      /\ at = 0 /\ requests = 0 /\ marked = 0 /\ dated = {} /\ misled = FALSE
  BY DEF Init
<1>3. results \in Seq(SUBSET Docs) /\ Latest = 1
  BY <1>1 DEF Latest
<1>4. /\ <<>> \in Seq(Requests) /\ <<>> \in Seq(Responses)
      /\ Len(toServer) = 0 /\ Len(toClient) = 0
  BY <1>2
<1>5. Typed
  <2>1. 0 \in 0 .. MaxVersion /\ 0 \in Nat
    OBVIOUS
  <2> QED BY <1>2, <1>3, <1>4, <2>1 DEF Typed, Types
<1>6. Known
  BY <1>2, <1>3, <1>4 DEF Known
<1>7. Closed /\ LastRequest /\ Stored /\ Sets
  BY <1>2
  DEF Closed, LastRequest, Stored, SyncedIsServer, Sets, KeysOfView, At, Off
<1>8. Chained
  <2>1. PICK g : g = [i \in 0 .. 0 |-> 0]
    OBVIOUS
  <2>2. Counts(g)
    BY <1>2, <1>4, <2>1 DEF Counts, Outstanding, Out
  <2> QED BY <1>2, <2>2 DEF Chained, Quiet
<1> QED BY <1>5, <1>6, <1>7, <1>8 DEF Whole

-----------------------------------------------------------------------------
(* The message to take.                                                     *)
LEMMA FirstMessage ==
  ASSUME Typed, Known, toClient # <<>>, NEW m, m = Head(toClient)
  PROVE  /\ m \in Responses /\ m = toClient[1] /\ 1 \in 1 .. Len(toClient)
         /\ Len(toClient) \in Nat /\ Len(Tail(toClient)) = Len(toClient) - 1
         /\ Tail(toClient) \in Seq(Responses)
         /\ \A i \in 1 .. Len(toClient) - 1 : Tail(toClient)[i] = toClient[i + 1]
         /\ m.type \in {"current", "snapshot"} => m.token <= Latest
         /\ m.type = "snapshot" => m.version <= Latest
<1>1. /\ m \in Responses /\ m = toClient[1] /\ 1 \in 1 .. Len(toClient)
      /\ Len(toClient) \in Nat /\ Len(Tail(toClient)) = Len(toClient) - 1
      /\ Tail(toClient) \in Seq(Responses)
      /\ \A i \in 1 .. Len(toClient) - 1 : Tail(toClient)[i] = toClient[i + 1]
  BY Taken DEF Typed
<1>2. /\ m.type \in {"current", "snapshot"} => m.token <= Latest
      /\ m.type = "snapshot" => m.version <= Latest
  BY <1>1 DEF Known
<1> QED BY <1>1, <1>2

(* The number of answers awaited once it has been taken.                    *)
LEMMA FirstCount ==
  ASSUME Typed, Known, NEW g, Counts(g), toClient # <<>>, NEW m, m = Head(toClient)
  PROVE  /\ g[0] = Outstanding /\ g[1] \in Nat /\ Outstanding \in Nat
         /\ g[1] = IF Acks(m) THEN Outstanding - 1 ELSE Outstanding
         /\ listening /\ Outstanding # 0 /\ g[1] = 0 => m.type \in {"added", "error"}
<1>1. m = toClient[1] /\ 1 \in 1 .. Len(toClient) /\ Len(toClient) \in Nat
  BY FirstMessage
<1>2. g[0] = Outstanding /\ g[1] \in Nat /\ Outstanding \in Nat
  BY <1>1, CountsShape
<1>3. /\ g[1] = IF Acks(toClient[1]) THEN g[1 - 1] - 1 ELSE g[1 - 1]
      /\ listening /\ g[1 - 1] # 0 /\ g[1] = 0 =>
            toClient[1].type \in {"added", "error"}
  BY <1>1 DEF Counts
<1> QED BY <1>1, <1>2, <1>3

(* What is left in the queue is known as it was.                            *)
LEMMA TailKnown ==
  ASSUME Typed, Known, toClient # <<>>, NEW i \in 1 .. Len(Tail(toClient))
  PROVE  LET m == Tail(toClient)[i]
         IN  /\ m.type \in {"current", "snapshot"} => m.token <= Latest
             /\ m.type = "snapshot" => m.version <= Latest
<1>1. /\ Len(toClient) \in Nat \ {0} /\ Len(Tail(toClient)) = Len(toClient) - 1
      /\ \A j \in 1 .. Len(toClient) - 1 : Tail(toClient)[j] = toClient[j + 1]
  BY Taken DEF Typed
<1>2. i + 1 \in 1 .. Len(toClient) /\ Tail(toClient)[i] = toClient[i + 1]
  BY <1>1
<1> QED BY <1>2 DEF Known

(* The state of the target once a message other than a snapshot is handled, *)
(* while its answers are counted.                                           *)
LEMMA Handles ==
  ASSUME Typed, Known, Closed, LastRequest, Sets, ~miscounted, NEW g, Counts(g), open,
         toClient # <<>>, NEW m, m = Head(toClient), m.type \notin {"snapshot", "error"},
         agg' = Handled(m), UNCHANGED <<listening, synced>>
  PROVE  /\ Outstanding' = g[1]
         /\ listening => agg' # NoState
         /\ Outstanding # 0 /\ g[1] = 0 /\ listening =>
               ~agg'.pending /\ agg'.added = {} /\ agg'.removed = {}
         /\ Outstanding # 0 /\ ~Acks(m) => agg' = agg
         /\ Outstanding = 0 =>
               /\ listening /\ IsActive /\ agg # NoState /\ Fits(synced, agg)
               /\ Numbered(m) /\ m.r = requests
<1>1. /\ m \in Responses
      /\ g[0] = Outstanding /\ g[1] \in Nat /\ Outstanding \in Nat
      /\ g[1] = IF Acks(m) THEN Outstanding - 1 ELSE Outstanding
      /\ listening /\ Outstanding # 0 /\ g[1] = 0 => m.type = "added"
      /\ Acks(m) <=> m.type \in {"added", "removed"}
  BY FirstMessage, FirstCount DEF Acks
<1>2. listening => agg # NoState
  BY DEF Closed
<1>3. CASE Acks(m)
  <2>1. Outstanding # 0 /\ Outstanding \in Nat /\ g[1] = Outstanding - 1
    BY <1>1, <1>3
  <2>2. /\ Out(agg') = Outstanding - 1
        /\ agg' = NoState <=> m.type = "removed" /\ Outstanding = 1
        /\ agg' # NoState /\ Outstanding = 1 =>
              ~agg'.pending /\ agg'.added = {} /\ agg'.modified = {} /\ agg'.removed = {}
    BY <1>1, <1>3, HandledAnswer
  <2>3. Outstanding' = g[1] /\ (g[1] = 0 <=> Outstanding = 1)
    BY <1>1, <2>1, <2>2 DEF Outstanding
  <2>4. listening => agg' # NoState
    BY <1>1, <2>1, <2>2, <2>3
  <2> QED BY <1>3, <2>1, <2>2, <2>3, <2>4
<1>4. CASE ~Acks(m) /\ Outstanding # 0
  <2>1. agg # NoState /\ Ensured = agg /\ ~IsActive
    BY <1>4, EnsuredShape DEF Outstanding, Out, IsActive
  <2>2. agg' = agg
    BY <1>1, <1>4, <2>1, HandledInactive
  <2>3. Outstanding' = Outstanding /\ g[1] = Outstanding
    BY <1>1, <1>4, <2>2 DEF Outstanding
  <2> QED BY <1>4, <2>1, <2>2, <2>3
<1>5. CASE ~Acks(m) /\ Outstanding = 0
  <2>1. Numbered(m)
    BY <1>1, <1>5, ResponseShape
  <2>2. listening /\ m.r = requests
    BY <1>5, <2>1, OwnResponse
  <2>3. agg # NoState /\ Ensured = agg
    BY <1>2, <2>2, EnsuredShape
  <2>4. IsActive
    BY <1>5, <2>2, EnsuredShape DEF IsActive
  <2>5. Fits(synced, agg)
    BY <2>2, <2>3 DEF Sets, KeysOfView
  <2>6. Handled(m) \in TargetStates /\ Handled(m).outstanding = 0
    BY <1>1, <1>5, <2>3, <2>4, <2>5, HandledActive
  <2>7. agg' # NoState /\ Outstanding' = 0
    BY <2>6, StateShape DEF Outstanding, Out
  <2> QED BY <1>1, <1>5, <2>1, <2>2, <2>3, <2>4, <2>5, <2>7
<1> QED BY <1>3, <1>4, <1>5

(* What the view would have once the message is handled.                    *)
LEMMA StartsAgain ==
  ASSUME Typed, Known, Closed, LastRequest, Sets, ~miscounted, NEW g, NEW f, NEW e,
         Counts(g), Path(g, f, e), open, listening,
         toClient # <<>>, NEW m, m = Head(toClient), m.type \notin {"snapshot", "error"},
         agg' = Handled(m), UNCHANGED <<listening, synced>>,
         mismatch' = \/ mismatch
                     \/ m.type = "filter" /\ IsActive /\ Differs(m)
  PROVE  Starts(f[1], e[1])'
<1>1. /\ m \in Responses /\ m = toClient[1] /\ 1 \in 1 .. Len(toClient)
      /\ Len(toClient) \in Nat
      /\ g[0] = Outstanding /\ g[1] \in Nat /\ Outstanding \in Nat
      /\ g[1] = IF Acks(m) THEN Outstanding - 1 ELSE Outstanding
  BY FirstMessage, FirstCount
<1>2. /\ Outstanding' = g[1]
      /\ Outstanding # 0 /\ g[1] = 0 /\ listening =>
               ~agg'.pending /\ agg'.added = {} /\ agg'.removed = {}
      /\ Outstanding = 0 =>
               /\ listening /\ IsActive /\ agg # NoState /\ Fits(synced, agg)
               /\ Numbered(m) /\ m.r = requests
      /\ agg # NoState => Ensured = agg
  BY Handles, EnsuredShape
<1>3. Starts(f[0], e[0]) /\ e[0] \in {"good", "lost", "over"}
  <2>1. 0 \in 0 .. Len(toClient)
    BY <1>1
  <2> QED BY <2>1 DEF Path
<1>4. /\ e[1] = IF Outstanding # 0 THEN e[0] ELSE NextStage(e[0], m)
      /\ e[1] = "good" => f[1] = IF Outstanding # 0 THEN f[0] ELSE Effect(f[0], m)
      /\ Outstanding = 0 /\ e[0] = "good" /\ m.type = "filter" =>
            m.count # Cardinality(f[0])
      /\ Outstanding = 0 /\ e[0] = "lost" => m.type # "current"
  <2>1. Follows(g, f, e, 1) /\ 1 - 1 = 0
    BY <1>1 DEF Path
  <2> QED BY <1>1, <2>1 DEF Follows, Honest
<1>5. CASE Outstanding # 0
  <2>1. e[0] = "good" /\ e[1] = "good" /\ f[1] = synced
    BY <1>3, <1>4, <1>5 DEF Starts, Viewed
  <2>2. Viewed' = synced
    BY <1>2, <1>5 DEF Viewed
  <2> QED BY <2>1, <2>2 DEF Starts
<1>6. CASE Outstanding = 0
  <2>1. /\ IsActive /\ agg # NoState /\ Fits(synced, agg) /\ Numbered(m)
        /\ ~Acks(m) /\ Outstanding' = 0 /\ Ensured = agg
        /\ m.type \notin {"added", "removed", "error"}
    BY <1>1, <1>2, <1>6, ResponseShape DEF Acks
  <2>2. LET s == Handled(m)
        IN  /\ m.type # "filter" => Applied(synced, s) = Effect(Applied(synced, agg), m)
            /\ m.type = "filter" => s = IF Differs(m) THEN ResetTarget ELSE agg
            /\ m.type # "current" /\ s.current => agg.current
    BY <1>1, <1>6, <2>1, HandledActive
  <2>3. Viewed' = Applied(synced, agg')
    BY <2>1 DEF Viewed, Applied
  <2>4. CASE e[0] = "good"
    <3>1. f[0] = Applied(synced, agg)
      BY <1>3, <1>6, <2>4 DEF Starts, Viewed, Applied
    <3>2. CASE m.type = "filter"
      <4>1. Differs(m)
        BY <1>4, <1>6, <2>1, <2>4, <3>1, <3>2, DiffersExactly
      <4>2. agg' = ResetTarget /\ mismatch'
        BY <2>1, <2>2, <3>2, <4>1
      <4>3. ~agg'.current
        BY <4>2, StateReset DEF Typed, Types
      <4>4. e[1] = "lost"
        BY <1>4, <1>6, <2>4, <3>2 DEF NextStage
      <4> QED BY <2>1, <4>2, <4>3, <4>4 DEF Starts
    <3>3. CASE m.type # "filter"
      <4>1. e[1] = "good"
        BY <1>4, <1>6, <2>4, <3>3 DEF NextStage
      <4>2. f[1] = Effect(f[0], m)
        BY <1>4, <1>6, <4>1
      <4> QED BY <2>2, <2>3, <3>1, <3>3, <4>1, <4>2 DEF Starts
    <3> QED BY <3>2, <3>3
  <2>5. CASE e[0] = "lost"
    <3>1. e[1] = "lost"
      BY <1>4, <1>6, <2>5 DEF NextStage
    <3>2. mismatch /\ ~agg.current /\ m.type # "current"
      BY <1>3, <1>4, <1>6, <2>5 DEF Starts
    <3>3. ~agg'.current
      BY <2>2, <3>2
    <3> QED BY <2>1, <3>1, <3>2, <3>3 DEF Starts
  <2> QED BY <1>3, <2>4, <2>5 DEF Starts
<1> QED BY <1>5, <1>6

(* What is awaited once it is taken.                                        *)
LEMMA ChangeChained ==
  ASSUME Typed, Known, Closed, LastRequest, Sets, Chained, ~miscounted,
         OnWatchStreamChange
  PROVE  Chained' /\ (listening => agg' # NoState)
<1>1. PICK m : m = Head(toClient)
  OBVIOUS
<1>2. /\ open /\ toClient # <<>> /\ m.type \notin {"snapshot", "error"}
      /\ agg' = Handled(m)
      /\ mismatch' = (mismatch \/ (m.type = "filter" /\ IsActive /\ Differs(m)))
      /\ toClient' = Tail(toClient)
      /\ UNCHANGED <<listening, synced, open, toServer, results, srv, misled>>
  BY <1>1 DEF OnWatchStreamChange, client, server
<1>3. PICK g : Counts(g) /\ (Quiet => \E f, e : Path(g, f, e))
  BY DEF Chained
<1>4. Len(toClient) \in Nat /\ g[0] = Outstanding /\ g[1] \in Nat
  BY <1>1, <1>2, <1>3, FirstMessage, FirstCount
<1>5. /\ Outstanding' = g[1]
      /\ listening => agg' # NoState
      /\ Outstanding # 0 /\ g[1] = 0 /\ listening => ~agg'.pending
  BY <1>1, <1>2, <1>3, Handles
<1>6. PICK h : h = [i \in 0 .. Len(toClient) - 1 |-> g[i + 1] + 0]
  OBVIOUS
<1>7. Counts(h)'
  <2>1. Len(toServer') = Len(toServer) + 0 /\ Outstanding' = g[1] + 0 /\ 0 \in Nat
    BY <1>2, <1>4, <1>5, EmptyQueue DEF Typed
  <2> QED BY <1>2, <1>3, <1>6, <2>1, CountsTaken
<1>8. ASSUME Quiet'
      PROVE  \E f1, e1 : Path(h, f1, e1)'
  <2>1. Quiet
    BY <1>2, <1>8 DEF Quiet
  <2>2. toServer = <<>> /\ listening
    BY <2>1 DEF Quiet
  <2>3. PICK f, e : Path(g, f, e)
    BY <1>3, <2>1
  <2>4. Starts(f[1], e[1])'
    BY <1>1, <1>2, <1>3, <2>2, <2>3, StartsAgain
  <2>5. g[0] # 0 /\ g[1] = 0 => ~agg'.pending
    BY <1>4, <1>5, <2>2
  <2>6. UNCHANGED <<results, srv>>
    BY <1>2
  <2> QED BY <1>2, <1>3, <1>6, <2>2, <2>3, <2>4, <2>5, <2>6, PathTaken
<1> QED BY <1>5, <1>7, <1>8 DEF Chained

(* A message other than a snapshot is taken.                                *)
LEMMA OnWatchStreamChangeKeeps ==
  ASSUME Whole, OnWatchStreamChange
  PROVE  Whole'
<1>0. Typed /\ Known /\ Closed /\ Stored /\ Sets /\ (~miscounted => LastRequest /\ Chained)
  BY DEF Whole
<1>1. PICK m : m = Head(toClient)
  OBVIOUS
<1>2. /\ open /\ toClient # <<>> /\ m.type \notin {"snapshot", "error"}
      /\ agg' = Handled(m)
      /\ mismatch' = (mismatch \/ (m.type = "filter" /\ IsActive /\ Differs(m)))
      /\ marked' = IF m.type = "current" /\ IsActive THEN m.r ELSE marked
      /\ toClient' = Tail(toClient)
      /\ UNCHANGED <<keys, token, listening, heldToken, sentToken, synced, current, open,
                     miscounted, toServer, results, srv, at, requests, dated, misled>>
  BY <1>1 DEF OnWatchStreamChange, disk, client, server
<1>3. /\ m \in Responses /\ Tail(toClient) \in Seq(Responses)
      /\ m.type \in {"current", "snapshot"} => m.token <= Latest
  BY <1>0, <1>1, <1>2, FirstMessage
<1>4. /\ agg' \in TargetStates \cup {NoState}
      /\ agg' # NoState => agg'.token <= Latest /\ Fits(keys, agg')
  BY <1>0, <1>2, <1>3, HandledFits
<1>5. ~miscounted => Chained' /\ (listening => agg' # NoState)
  BY <1>0, ChangeChained
<1>6. marked' \in Nat
  BY <1>0, <1>2, <1>3, ResponseShape DEF Typed, Types, Numbered
<1>7. Typed'
  <2>1. mismatch' \in BOOLEAN /\ toClient' \in Seq(Responses)
    BY <1>0, <1>2, <1>3
  <2> QED BY <1>0, <1>2, <1>4, <1>6, <2>1 DEF Typed, Types
<1>8. Known'
  <2>1. ASSUME NEW i \in 1 .. Len(toClient')
        PROVE  /\ toClient'[i].type \in {"current", "snapshot"} =>
                     toClient'[i].token <= Latest
               /\ toClient'[i].type = "snapshot" => toClient'[i].version <= Latest
    BY <1>0, <1>2, TailKnown
  <2> QED BY <1>0, <1>2, <1>4, <2>1 DEF Known, Latest
<1>9. Closed'
  BY <1>0, <1>2, <1>5 DEF Closed
<1>10. ~miscounted => LastRequest'
  BY <1>0, <1>2 DEF LastRequest, At
<1>11. Stored' /\ Sets'
  BY <1>0, <1>2, <1>4 DEF Stored, SyncedIsServer, Sets, KeysOfView, At
<1> QED BY <1>2, <1>5, <1>7, <1>8, <1>9, <1>10, <1>11 DEF Whole

(* A refusal is taken: the app stops for it, or has stopped already.        *)
LEMMA ProcessTargetErrorKeeps ==
  ASSUME Whole, ProcessTargetError
  PROVE  Whole'
<1>0. Typed /\ Known /\ Closed /\ Stored /\ Sets /\ (~miscounted => LastRequest /\ Chained)
  BY DEF Whole
<1>1. PICK m : m = Head(toClient)
  OBVIOUS
<1>2. /\ open /\ toClient # <<>> /\ m.type = "error" /\ toClient' = Tail(toClient)
      /\ miscounted' = \/ miscounted
                        \/ IF listening THEN toServer # <<>> \/ Answers(Tail(toClient))
                           ELSE m.alone
      /\ UNCHANGED <<keys, open, mismatch, toServer, results, srv, at, requests, marked,
                     dated, misled>>
      /\ listening => ReleaseQuery /\ agg' = NoState
      /\ ~listening => UNCHANGED <<token, client, agg>>
  BY <1>1 DEF ProcessTargetError, server, history
<1>3. /\ m \in Responses /\ m = toClient[1] /\ 1 \in 1 .. Len(toClient)
      /\ Len(toClient) \in Nat \ {0} /\ Tail(toClient) \in Seq(Responses)
      /\ Len(Tail(toClient)) = Len(toClient) - 1
      /\ \A i \in 1 .. Len(toClient) - 1 : Tail(toClient)[i] = toClient[i + 1]
      /\ m.alone \in BOOLEAN
  BY <1>0, <1>1, <1>2, FirstMessage, Taken, ResponseShape DEF Typed
<1>4. /\ Stored' /\ Sets'
      /\ token' \in 0 .. MaxVersion /\ token' <= Latest
  <2>1. CASE listening
    BY <1>0, <1>2, <2>1, Released DEF Sets
  <2>2. CASE ~listening
    BY <1>0, <1>2, <2>2
    DEF Stored, SyncedIsServer, Sets, KeysOfView, At, Typed, Types, Known, client
  <2> QED BY <2>1, <2>2
<1>5. \/ UNCHANGED <<listening, heldToken, sentToken, synced, current, agg>>
      \/ /\ listening' = FALSE /\ heldToken' = 0 /\ sentToken' = 0 /\ synced' = {}
         /\ current' = FALSE /\ agg' = NoState
  BY <1>2 DEF ReleaseQuery, client
<1>6. ~listening'
  BY <1>2 DEF ReleaseQuery, client
<1>7. Typed'
  <2>1. 0 \in 0 .. MaxVersion /\ {} \subseteq Docs /\ toClient' \in Seq(Responses)
    BY <1>2, <1>3
  <2>2. miscounted' \in BOOLEAN
    BY <1>0, <1>2, <1>3 DEF Typed, Types, Answers
  <2> QED BY <1>0, <1>2, <1>4, <1>5, <2>1, <2>2 DEF Typed, Types
<1>8. Known'
  <2>1. ASSUME NEW i \in 1 .. Len(toClient')
        PROVE  /\ toClient'[i].type \in {"current", "snapshot"} =>
                     toClient'[i].token <= Latest
               /\ toClient'[i].type = "snapshot" => toClient'[i].version <= Latest
    BY <1>0, <1>2, TailKnown
  <2>2. Latest \in Nat /\ 0 <= Latest
    BY <1>0 DEF Known
  <2> QED BY <1>0, <1>2, <1>4, <1>5, <2>1, <2>2 DEF Known, Latest
<1>9. Closed'
  BY <1>2, <1>6 DEF Closed
<1>10. ASSUME ~miscounted'
       PROVE  LastRequest' /\ Chained'
  <2>1. ~miscounted /\ LastRequest /\ Chained
    BY <1>0, <1>2, <1>10
  <2>2. PICK g : Counts(g)
    BY <2>1 DEF Chained
  <2>3. CASE listening
    <3>1. toServer = <<>> /\ ~Answers(Tail(toClient)) /\ Len(toServer) = 0
      BY <1>0, <1>2, <1>10, <2>3
    <3>2. g[1] = 0
      <4>1. SUFFICES ASSUME g[1] # 0 PROVE FALSE
        OBVIOUS
      <4>2. PICK j \in 1 + 1 .. Len(toClient) : Acks(toClient[j])
        <5>1. 1 \in 0 .. Len(toClient) /\ g[1] # Len(toServer)
          BY <1>3, <3>1, <4>1
        <5> QED BY <2>2, <5>1 DEF Counts
      <4>3. j - 1 \in 1 .. Len(toClient) - 1 /\ (j - 1) + 1 = j
        BY <1>3
      <4>4. j - 1 \in DOMAIN Tail(toClient) /\ Tail(toClient)[j - 1] = toClient[j]
        BY <1>3, <4>3
      <4> QED BY <3>1, <4>2, <4>4 DEF Answers, Acks
    <3>3. Len(toClient) = 1 /\ ~srv.on
      BY <1>2, <1>3, <2>2, <3>1, <3>2 DEF Counts
    <3>4. toClient' = <<>> /\ toServer' = <<>> /\ Outstanding' = Len(toServer')
      BY <1>2, <1>3, <2>3, <3>1, <3>3 DEF Outstanding, Out
    <3>5. \E h : Counts(h)'
      BY <3>1, <3>4, CountsNone
    <3>6. LastRequest'
      BY <1>2, <1>6, <3>3, <3>4 DEF LastRequest
    <3> QED BY <1>6, <3>5, <3>6 DEF Chained, Quiet
  <2>4. CASE ~listening
    <3>1. ~m.alone /\ ~Acks(m) /\ UNCHANGED <<listening, agg, synced>>
      BY <1>2, <1>10, <2>4 DEF Acks, client
    <3>2. Outstanding' = g[1] + 0 /\ Len(toServer') = Len(toServer) + 0 /\ 0 \in Nat
      <4>1. g[1] = Outstanding /\ g[1] \in Nat
        BY <1>0, <1>1, <1>2, <2>2, <3>1, FirstCount
      <4>2. Outstanding' = Outstanding
        BY <3>1 DEF Outstanding
      <4>3. toServer' = toServer /\ Len(toServer) \in Nat
        BY <1>0, <1>2, EmptyQueue DEF Typed
      <4> QED BY <4>1, <4>2, <4>3
    <3>3. PICK h : h = [i \in 0 .. Len(toClient) - 1 |-> g[i + 1] + 0]
      OBVIOUS
    <3>4. UNCHANGED <<srv, listening>>
      BY <1>2, <3>1
    <3>5. Counts(h)'
      BY <1>0, <1>2, <2>2, <3>2, <3>3, <3>4, CountsTaken
    <3>6. LastRequest'
      BY <1>2, <2>1, <3>1 DEF LastRequest, At
    <3> QED BY <1>6, <3>5, <3>6 DEF Chained, Quiet
  <2> QED BY <2>3, <2>4
<1> QED BY <1>4, <1>7, <1>8, <1>9, <1>10 DEF Whole

-----------------------------------------------------------------------------
(* A snapshot: the state it finds, whether it has changes for the view, and *)
(* whether the target is requested anew.                                    *)
Got == Handled(Head(toClient))
Raised == IsActive /\ Got # NoState /\ Got.pending
Again == mismatch /\ listening

(* The state left by the snapshot, before the target is requested anew.     *)
Left == IF Raised THEN ClearPendingChanges(Got) ELSE Got

(* What a snapshot does, in parts.                                          *)
LEMMA SnapshotStep ==
  ASSUME RaiseWatchSnapshot, NEW m, m = Head(toClient)
  PROVE  /\ open /\ toClient # <<>> /\ m.type = "snapshot"
         /\ toClient' = Tail(toClient) /\ mismatch' = FALSE
         /\ UNCHANGED <<listening, open, miscounted, results, srv, marked>>
         /\ at' = IF Raised THEN m.version ELSE at
         /\ Raised => /\ keys' = (keys \ Got.removed) \cup Got.added
                      /\ synced' = Applied(synced, Got)
                      /\ current' = Got.current
                      /\ PersistToken(Got.token,
                                      Got.added \cup Got.modified \cup Got.removed # {})
         /\ ~Raised => UNCHANGED <<keys, token, synced, current, heldToken>>
         /\ sentToken' = IF Again THEN 0
                         ELSE IF Raised /\ Got.token # 0 THEN Got.token ELSE sentToken
         /\ Again => /\ agg' = RecordPendingTargetRequest(RecordPendingTargetRequest(Left))
                     /\ toServer' = toServer \o <<Unwatch, Watch(0)>>
                     /\ requests' = requests + 1
         /\ ~Again => agg' = Left /\ UNCHANGED <<toServer, requests>>
         /\ misled' = (misled \/ (Again /\ synced' # {}))
         /\ dated' = IF Again THEN {token', heldToken'} \ {0}
                     ELSE IF Raised THEN dated \ {Got.token} ELSE dated
<1> DEFINE raised == IsActive /\ Handled(m) # NoState /\ Handled(m).pending
           again == mismatch /\ listening
<1>1. (raised <=> Raised) /\ (again <=> Again) /\ Handled(m) = Got
  BY DEF Raised, Again, Got
<1>2. /\ open /\ toClient # <<>> /\ m.type = "snapshot"
      /\ toClient' = Tail(toClient) /\ mismatch' = FALSE
      /\ UNCHANGED <<listening, open, miscounted, results, srv, marked>>
      /\ at' = IF raised THEN m.version ELSE at
  BY DEF RaiseWatchSnapshot, server
<1>3. raised => /\ keys' = (keys \ Got.removed) \cup Got.added
                /\ synced' = Applied(synced, Got)
                /\ current' = Got.current
                /\ PersistToken(Got.token,
                                Got.added \cup Got.modified \cup Got.removed # {})
  BY <1>1 DEF RaiseWatchSnapshot, Applied
<1>4. ~raised => UNCHANGED <<keys, token, synced, current, heldToken>>
  BY DEF RaiseWatchSnapshot, disk
<1>5. sentToken' = IF again THEN 0
                   ELSE IF raised /\ Got.token # 0 THEN Got.token ELSE sentToken
  BY <1>1 DEF RaiseWatchSnapshot
<1>6. Left = IF raised THEN ClearPendingChanges(Handled(m)) ELSE Handled(m)
  BY <1>1 DEF Left
<1>7. /\ again => /\ agg' = RecordPendingTargetRequest(RecordPendingTargetRequest(Left))
                  /\ toServer' = toServer \o <<Unwatch, Watch(0)>>
                  /\ requests' = requests + 1
      /\ ~again => agg' = Left /\ UNCHANGED <<toServer, requests>>
  BY <1>6, Zenon DEF RaiseWatchSnapshot
<1>8. /\ misled' = (misled \/ (again /\ synced' # {}))
      /\ dated' = IF again THEN {token', heldToken'} \ {0}
                  ELSE IF raised THEN dated \ {Got.token} ELSE dated
  BY <1>1 DEF RaiseWatchSnapshot
<1> HIDE DEF raised, again
<1> QED BY <1>1, <1>2, <1>3, <1>4, <1>5, <1>7, <1>8

(* The state a snapshot finds.                                              *)
LEMMA SnapshotFinds ==
  ASSUME Typed, Known, Sets, toClient # <<>>, NEW m, m = Head(toClient),
         m.type = "snapshot"
  PROVE  /\ Got \in TargetStates \cup {NoState} /\ Out(Got) = Outstanding
         /\ Got # NoState => Got.token \in 0 .. MaxVersion /\ Got.token <= Latest
         /\ agg # NoState => Got # NoState
         /\ ~Raised => Got = agg
         /\ Raised => /\ listening /\ Outstanding = 0 /\ agg # NoState
                      /\ Got \in TargetStates /\ Fits(synced, Got) /\ Fits(synced, agg)
                      /\ Applied(synced, Got) = Applied(synced, agg)
                      /\ Got = UpdateResumeToken(agg, m.token)
                      /\ Got.current = agg.current
<1>1. /\ m \in Responses /\ m.token \in 0 .. MaxVersion /\ m.token <= Latest
      /\ m.token = 0 \/ m.token # 0
  BY FirstMessage, ResponseShape
<1>2. Got = Handled(m)
  BY DEF Got
<1>3. /\ agg \in TargetStates \cup {NoState}
      /\ agg # NoState => agg.token \in 0 .. MaxVersion /\ agg.token <= Latest
  BY StateShape DEF Typed, Types, Known
<1>4. CASE ~IsActive
  <2>1. Got = agg /\ ~Raised
    BY <1>1, <1>2, <1>4, HandledInactive DEF Raised
  <2> QED BY <1>3, <2>1 DEF Outstanding
<1>5. CASE agg = NoState
  <2>1. Got = agg
    BY <1>2, <1>5 DEF Handled
  <2> QED BY <1>3, <1>5, <2>1 DEF Outstanding, Raised
<1>6. CASE IsActive /\ agg # NoState
  <2>1. agg \in TargetStates /\ Ensured = agg /\ listening /\ Outstanding = 0
    BY <1>3, <1>6, EnsuredShape DEF IsActive
  <2>2. Fits(synced, agg)
    BY <1>6, <2>1 DEF Sets, KeysOfView
  <2>3. /\ Got \in TargetStates /\ Got.outstanding = 0 /\ Fits(synced, Got)
        /\ Got = UpdateResumeToken(agg, m.token)
    BY <1>1, <1>2, <1>6, <2>1, <2>2, HandledActive
  <2>4. /\ Got.current = agg.current
        /\ Got.added = agg.added /\ Got.removed = agg.removed
        /\ m.token = 0 => Got = agg
        /\ m.token # 0 => Got.pending /\ Got.token = m.token
    BY ONLY <1>1, <2>1, <2>3, Tokened
  <2>5. Got # NoState
    BY <2>3, StateShape
  <2>6. m.token # 0 => Raised
    BY <1>6, <2>4, <2>5 DEF Raised
  <2>7. Got.token \in 0 .. MaxVersion /\ Got.token <= Latest
    BY <1>1, <1>3, <1>6, <2>4
  <2> QED BY <1>1, <1>6, <2>1, <2>2, <2>3, <2>4, <2>5, <2>6, <2>7 DEF Out, Applied
<1> QED BY <1>4, <1>5, <1>6

(* What a snapshot raises is what the server has, unless a filter has said  *)
(* that it is not.                                                          *)
LEMMA SnapshotHonest ==
  ASSUME Typed, Known, Sets, NEW g, NEW f, NEW e, Counts(g), Path(g, f, e),
         toClient # <<>>, NEW m, m = Head(toClient), m.type = "snapshot",
         listening, Outstanding = 0
  PROVE  \/ /\ e[0] = "lost" /\ mismatch
            /\ Raised => ~Got.current
         \/ /\ e[0] = "good" /\ e[1] = "good" /\ f[1] = Applied(synced, agg)
            /\ Raised => /\ m.token # 0 /\ Got.token = m.version
                         /\ Applied(synced, Got) = results[m.version]
<1>1. /\ m = toClient[1] /\ 1 \in 1 .. Len(toClient) /\ Len(toClient) \in Nat
      /\ g[0] = Outstanding /\ m.token \in 0 .. MaxVersion
  BY FirstMessage, FirstCount, ResponseShape
<1>2. /\ Raised => /\ agg # NoState /\ agg \in TargetStates
                   /\ Applied(synced, Got) = Applied(synced, agg)
                   /\ Got = UpdateResumeToken(agg, m.token)
                   /\ Got.current = agg.current
  BY SnapshotFinds, EnsuredShape
<1>3. m.token = 0 /\ Raised => Got = agg
  BY ONLY <1>1, <1>2, Tokened
<1>4. m.token # 0 /\ Raised => Got.token = m.token
  BY ONLY <1>1, <1>2, Tokened
<1>5. Starts(f[0], e[0]) /\ e[0] \in {"good", "lost", "over"}
  <2>1. 0 \in 0 .. Len(toClient)
    BY <1>1
  <2> QED BY <2>1 DEF Path
<1>6. /\ e[1] = NextStage(e[0], m)
      /\ e[1] = "good" => f[1] = Effect(f[0], m)
      /\ e[0] = "good" => IF m.token = 0 THEN Idle(g, 0)
                          ELSE m.token = m.version /\ f[0] = results[m.version]
  <2>1. Follows(g, f, e, 1) /\ 1 - 1 = 0
    BY <1>1 DEF Path
  <2> QED BY <1>1, <2>1 DEF Follows, Honest
<1>7. CASE e[0] = "lost"
  BY <1>2, <1>5, <1>7 DEF Starts
<1>8. CASE e[0] = "good"
  <2>1. f[0] = Applied(synced, agg)
    BY <1>5, <1>8 DEF Starts, Viewed, Applied
  <2>2. e[1] = "good" /\ f[1] = f[0]
    BY <1>6, <1>8 DEF NextStage, Effect
  <2>3. Raised => m.token # 0
    <3>1. SUFFICES ASSUME Raised, m.token = 0 PROVE FALSE
      OBVIOUS
    <3>2. ~agg.pending
      BY <1>6, <1>8, <3>1 DEF Idle
    <3>3. Got = agg
      BY <1>3, <3>1
    <3> QED BY <3>1, <3>2, <3>3 DEF Raised
  <2>4. Raised => Got.token = m.token
    BY <1>4, <2>3
  <2> QED BY <1>2, <1>6, <1>8, <2>1, <2>2, <2>3, <2>4
<1> QED BY <1>5, <1>7, <1>8 DEF Starts

(* The state that a snapshot leaves.                                        *)
LEMMA SnapshotLeft ==
  ASSUME Typed, Known, Sets, RaiseWatchSnapshot
  PROVE  /\ agg' \in TargetStates \cup {NoState}
         /\ agg' # NoState => agg'.token <= Latest /\ Fits(keys', agg')
         /\ agg # NoState => agg' # NoState
         /\ Again => Outstanding' = Outstanding + 2
         /\ ~Again => Outstanding' = Outstanding
         /\ ~Again /\ ~Raised => agg' = agg
         /\ ~Again /\ Raised => /\ agg'.added = {} /\ agg'.modified = {}
                                /\ agg'.removed = {}
<1>1. PICK m : m = Head(toClient)
  OBVIOUS
<1>2. /\ open /\ toClient # <<>> /\ m.type = "snapshot"
      /\ Again => agg' = RecordPendingTargetRequest(RecordPendingTargetRequest(Left))
      /\ ~Again => agg' = Left
      /\ ~Raised => keys' = keys
  BY <1>1, SnapshotStep
<1>3. /\ Got \in TargetStates \cup {NoState} /\ Out(Got) = Outstanding
      /\ Got # NoState => Got.token <= Latest
      /\ agg # NoState => Got # NoState
      /\ ~Raised => Got = agg
      /\ Raised => listening /\ Got \in TargetStates
      /\ Outstanding \in Int /\ Latest \in Nat /\ 0 <= Latest
  BY <1>1, <1>2, SnapshotFinds, EnsuredShape DEF Known
<1>4. /\ Left \in TargetStates \cup {NoState} /\ Out(Left) = Outstanding
      /\ Left # NoState => Left.token <= Latest /\ Fits(keys', Left)
      /\ agg # NoState => Left # NoState
      /\ ~Raised => Left = agg
      /\ Raised => Left.added = {} /\ Left.modified = {} /\ Left.removed = {}
  <2>1. CASE Raised
    <3>1. Left = ClearPendingChanges(Got)
      BY <2>1 DEF Left
    <3>2. /\ Left \in TargetStates /\ Left.outstanding = Got.outstanding
          /\ Left.token = Got.token
          /\ Left.added = {} /\ Left.modified = {} /\ Left.removed = {}
      BY <1>3, <2>1, <3>1, Cleared
    <3>3. Got # NoState /\ Left # NoState /\ Fits(keys', Left)
      BY <1>3, <2>1, <3>2, StateShape DEF Fits
    <3> QED BY <1>3, <2>1, <3>2, <3>3 DEF Out
  <2>2. CASE ~Raised
    <3>1. Left = agg
      BY <1>3, <2>2 DEF Left
    <3> QED BY <1>2, <1>3, <2>2, <3>1 DEF Sets
  <2> QED BY <2>1, <2>2
<1>5. CASE Again
  <2>1. PICK u : u = RecordPendingTargetRequest(Left)
    OBVIOUS
  <2>2. /\ u \in TargetStates /\ u # NoState /\ Out(u) = Outstanding + 1
        /\ u.token <= Latest /\ Fits(keys', u)
    BY <1>3, <1>4, <2>1, Requested
  <2>3. agg' = RecordPendingTargetRequest(u)
    BY <1>2, <1>5, <2>1
  <2>4. /\ agg' \in TargetStates /\ Out(agg') = (Outstanding + 1) + 1
        /\ agg' # NoState /\ agg'.token = u.token /\ Fits(keys', agg')
    BY <2>2, <2>3, Requested
  <2>5. Outstanding' = Outstanding + 2
    BY <1>3, <2>4 DEF Outstanding
  <2> QED BY <1>5, <2>2, <2>4, <2>5
<1>6. CASE ~Again
  <2>1. Outstanding' = Outstanding
    BY <1>2, <1>4, <1>6 DEF Outstanding
  <2> QED BY <1>2, <1>3, <1>4, <1>6, <2>1
<1> QED BY <1>5, <1>6

(* The requests that it sends.                                              *)
LEMMA SnapshotRequests ==
  ASSUME Typed, Known, RaiseWatchSnapshot
  PROVE  /\ toServer' \in Seq(Requests)
         /\ \A i \in 1 .. Len(toServer') :
               toServer'[i].type = "watch" => toServer'[i].token <= Latest
         /\ Again =>
               /\ Len(toServer') = Len(toServer) + 2 /\ toServer' # <<>>
               /\ LET q == toServer'[Len(toServer')]
                  IN  q.type = "watch" /\ q.token = 0 /\ q.r = requests'
         /\ ~Again => toServer' = toServer /\ requests' = requests
<1>1. /\ Again => /\ toServer' = toServer \o <<Unwatch, Watch(0)>>
                  /\ requests' = requests + 1
      /\ ~Again => toServer' = toServer /\ requests' = requests
  BY SnapshotStep
<1>2. CASE Again
  <2>1. PICK q : q = Watch(0)
    OBVIOUS
  <2>2. /\ q \in Requests /\ q.type = "watch" /\ q.token = 0 /\ q.r = requests'
    BY <1>1, <1>2, <2>1 DEF Watch, Requests, Typed, Types
  <2>3. Unwatch \in Requests /\ Unwatch.type = "unwatch"
    BY DEF Unwatch, Requests
  <2>4. toServer' = toServer \o <<Unwatch, q>> /\ toServer \in Seq(Requests)
    BY <1>1, <1>2, <2>1 DEF Typed
  <2>5. /\ toServer' \in Seq(Requests)
        /\ Len(toServer') = Len(toServer) + 2 /\ Len(toServer) \in Nat
        /\ \A i \in 1 .. Len(toServer) : toServer'[i] = toServer[i]
        /\ toServer'[Len(toServer) + 1] = Unwatch
        /\ toServer'[Len(toServer) + 2] = q
    BY <2>2, <2>3, <2>4
  <2>6. ASSUME NEW i \in 1 .. Len(toServer'), toServer'[i].type = "watch"
        PROVE  toServer'[i].token <= Latest
    <3>1. i \in 1 .. Len(toServer) \/ i = Len(toServer) + 1 \/ i = Len(toServer) + 2
      BY <2>5
    <3> QED BY <2>2, <2>3, <2>5, <2>6, <3>1 DEF Known
  <2>7. toServer' # <<>>
    BY <2>5, EmptyQueue
  <2> QED BY <1>2, <2>2, <2>5, <2>6, <2>7
<1>3. CASE ~Again
  BY <1>1, <1>3 DEF Typed, Known
<1> QED BY <1>2, <1>3

(* The versions and tokens after a snapshot.                                *)
LEMMA SnapshotTokens ==
  ASSUME Typed, Known, Sets, RaiseWatchSnapshot
  PROVE  /\ at' \in 0 .. MaxVersion /\ at' <= Latest
         /\ token' \in 0 .. MaxVersion /\ token' <= Latest
         /\ heldToken' \in 0 .. MaxVersion /\ heldToken' <= Latest
         /\ sentToken' \in 0 .. MaxVersion /\ sentToken' <= Latest
         /\ dated' \subseteq 1 .. MaxVersion
<1>1. PICK m : m = Head(toClient)
  OBVIOUS
<1>3. /\ open /\ toClient # <<>> /\ m.type = "snapshot"
      /\ at' = IF Raised THEN m.version ELSE at
      /\ Raised => PersistToken(Got.token,
                                Got.added \cup Got.modified \cup Got.removed # {})
      /\ ~Raised => UNCHANGED <<token, heldToken>>
      /\ sentToken' = IF Again THEN 0
                      ELSE IF Raised /\ Got.token # 0 THEN Got.token ELSE sentToken
      /\ dated' = IF Again THEN {token', heldToken'} \ {0}
                  ELSE IF Raised THEN dated \ {Got.token} ELSE dated
  BY <1>1, SnapshotStep
<1>4. Raised => Got.token \in 0 .. MaxVersion /\ Got.token <= Latest
  BY <1>1, <1>3, SnapshotFinds, StateShape
<1>5. m.version \in 1 .. MaxVersion /\ m.version <= Latest
  BY <1>1, <1>3, FirstMessage, ResponseShape
<1>6. /\ token \in 0 .. MaxVersion /\ heldToken \in 0 .. MaxVersion
      /\ sentToken \in 0 .. MaxVersion /\ at \in 0 .. MaxVersion
      /\ token <= Latest /\ heldToken <= Latest /\ sentToken <= Latest /\ at <= Latest
      /\ dated \subseteq 1 .. MaxVersion /\ Latest \in Nat
  BY DEF Typed, Types, Known
<1>7. Raised => /\ token' \in {token, Got.token}
                /\ heldToken' \in {heldToken, Got.token}
  BY <1>3 DEF PersistToken
<1>8. /\ token' \in 0 .. MaxVersion /\ token' <= Latest
      /\ heldToken' \in 0 .. MaxVersion /\ heldToken' <= Latest
  BY <1>3, <1>4, <1>6, <1>7
<1>9. sentToken' \in 0 .. MaxVersion /\ sentToken' <= Latest
  BY <1>3, <1>4, <1>6
<1>10. at' \in 0 .. MaxVersion /\ at' <= Latest
  BY <1>3, <1>5, <1>6
<1>11. dated' \subseteq 1 .. MaxVersion
  <2>1. {token', heldToken'} \ {0} \subseteq 1 .. MaxVersion
    BY <1>8
  <2> QED BY <1>3, <1>6, <2>1
<1> QED BY <1>8, <1>9, <1>10, <1>11

(* The documents after a snapshot: the view and LevelDB take the same.      *)
LEMMA SnapshotSets ==
  ASSUME Typed, Known, Sets, RaiseWatchSnapshot
  PROVE  /\ Sets'
         /\ keys' \subseteq Docs /\ synced' \subseteq Docs /\ current' \in BOOLEAN
<1>1. PICK m : m = Head(toClient)
  OBVIOUS
<1>3. /\ open /\ toClient # <<>> /\ m.type = "snapshot" /\ listening' = listening
      /\ Raised => /\ keys' = (keys \ Got.removed) \cup Got.added
                   /\ synced' = Applied(synced, Got)
                   /\ current' = Got.current
      /\ ~Raised => UNCHANGED <<keys, synced, current>>
  BY <1>1, SnapshotStep
<1>4. Raised => /\ listening /\ Got \in TargetStates /\ Fits(synced, Got)
  BY <1>1, <1>3, SnapshotFinds
<1>5. keys \subseteq Docs /\ synced \subseteq Docs /\ current \in BOOLEAN
  BY DEF Typed, Types
<1>6. Raised => /\ Got.added \subseteq Docs /\ Got.current \in BOOLEAN
  BY <1>4, StateShape
<1>7. keys' \subseteq Docs /\ synced' \subseteq Docs /\ current' \in BOOLEAN
  BY <1>3, <1>5, <1>6 DEF Applied
<1>8. listening => synced = keys
  BY DEF Sets, KeysOfView
<1>9. KeysOfView'
  BY <1>3, <1>4, <1>8 DEF KeysOfView, Applied, Fits
<1> QED BY <1>7, <1>9, SnapshotLeft DEF Sets

(* What the view and LevelDB have after a snapshot is what the server had   *)
(* at its version.                                                          *)
LEMMA SnapshotStored ==
  ASSUME Whole, RaiseWatchSnapshot
  PROVE  Stored'
<1>0. Typed /\ Known /\ Closed /\ Stored /\ Sets /\ (~miscounted => LastRequest /\ Chained)
  BY DEF Whole
<1>1. PICK m : m = Head(toClient)
  OBVIOUS
<1>3. /\ open /\ toClient # <<>> /\ m.type = "snapshot"
      /\ UNCHANGED <<listening, results>>
      /\ at' = IF Raised THEN m.version ELSE at
      /\ Raised => /\ keys' = (keys \ Got.removed) \cup Got.added
                   /\ synced' = Applied(synced, Got)
                   /\ current' = Got.current
                   /\ PersistToken(Got.token,
                                   Got.added \cup Got.modified \cup Got.removed # {})
      /\ ~Raised => UNCHANGED <<keys, token, synced, current, heldToken>>
      /\ sentToken' = IF Again THEN 0
                      ELSE IF Raised /\ Got.token # 0 THEN Got.token ELSE sentToken
      /\ misled' = (misled \/ (Again /\ synced' # {}))
      /\ dated' = IF Again THEN {token', heldToken'} \ {0}
                  ELSE IF Raised THEN dated \ {Got.token} ELSE dated
  BY <1>1, SnapshotStep
<1>4. SUFFICES ASSUME ~misled'
               PROVE  /\ token' \notin dated' => keys' = At(token')
                      /\ listening /\ heldToken' # 0 /\ heldToken' \notin dated' =>
                            keys' = At(heldToken')
                      /\ listening => synced' = At(sentToken')
                      /\ listening /\ current' => synced' = At(at')
  BY <1>3 DEF Stored, SyncedIsServer, At
<1>5. ~misled /\ (Again => synced' = {})
  BY <1>3, <1>4
<1>6. /\ token \notin dated => keys = At(token)
      /\ listening /\ heldToken # 0 /\ heldToken \notin dated => keys = At(heldToken)
      /\ listening => synced = At(sentToken)
      /\ listening /\ current => synced = At(at)
  BY <1>0, <1>5 DEF Stored, SyncedIsServer
<1>7. /\ Raised => /\ listening /\ Outstanding = 0 /\ Got \in TargetStates
                   /\ m.version \in 1 .. MaxVersion
      /\ KeysOfView'
  BY <1>0, <1>1, <1>3, SnapshotFinds, SnapshotSets, FirstMessage, ResponseShape
  DEF Sets
<1>8. Raised => \/ mismatch /\ ~Got.current
                \/ /\ Got.token = m.version /\ Got.token # 0
                   /\ synced' = results[m.version]
  <2>1. SUFFICES ASSUME Raised
                 PROVE  \/ mismatch /\ ~Got.current
                        \/ /\ Got.token = m.version /\ Got.token # 0
                           /\ synced' = results[m.version]
    OBVIOUS
  <2>2. Chained
    BY <1>0, <1>5, <1>7, <2>1 DEF Closed
  <2>3. PICK g : Counts(g) /\ (Quiet => \E f, e : Path(g, f, e))
    BY <2>2 DEF Chained
  <2>4. toServer = <<>>
    BY <1>0, <1>7, <2>1, <2>3, AllReceived
  <2>5. PICK f, e : Path(g, f, e)
    BY <1>3, <1>5, <1>7, <2>1, <2>3, <2>4 DEF Quiet
  <2> QED BY <1>0, <1>1, <1>3, <1>7, <2>1, <2>3, <2>5, SnapshotHonest
<1>9. CASE Again
  <2>1. listening /\ synced' = {} /\ keys' = {} /\ sentToken' = 0
    BY <1>3, <1>5, <1>7, <1>9 DEF Again, KeysOfView
  <2>2. token' \notin dated' => token' = 0
    BY <1>3, <1>9
  <2>3. heldToken' # 0 => heldToken' \in dated'
    BY <1>3, <1>9
  <2>4. current' => synced' = At(at')
    <3>1. CASE Raised
      BY <1>3, <1>7, <1>8, <3>1 DEF At
    <3>2. CASE ~Raised
      BY <1>3, <1>6, <2>1, <3>2
    <3> QED BY <3>1, <3>2
  <2>5. At(0) = {}
    BY DEF At
  <2> QED BY <1>5, <2>1, <2>2, <2>3, <2>4, <2>5
<1>10. CASE ~Again /\ Raised
  <2>1. PICK t : t = Got.token
    OBVIOUS
  <2>2. /\ t = m.version /\ t # 0 /\ listening
        /\ synced' = At(t) /\ keys' = At(t) /\ sentToken' = t /\ at' = t
    BY <1>3, <1>7, <1>8, <1>10, <2>1 DEF Again, KeysOfView, At
  <2>3. /\ heldToken' = t
        /\ \/ token' = t
           \/ token' = token /\ Got.added \cup Got.modified \cup Got.removed = {}
        /\ dated' = dated \ {t}
    BY <1>3, <1>10, <2>1, <2>2 DEF PersistToken
  <2>4. token' = token /\ token # t /\ token \notin dated' => keys' = At(token)
    BY <1>3, <1>6, <1>10, <2>3
  <2> QED BY <1>5, <2>2, <2>3, <2>4
<1>11. CASE ~Again /\ ~Raised
  BY <1>3, <1>5, <1>6, <1>11
<1> QED BY <1>9, <1>10, <1>11

(* The last request after a snapshot.                                       *)
LEMMA SnapshotLastRequest ==
  ASSUME Whole, ~miscounted, RaiseWatchSnapshot
  PROVE  LastRequest'
<1>0. Typed /\ Known /\ Closed /\ LastRequest /\ Stored /\ Sets /\ Chained
  BY DEF Whole
<1>1. PICK m : m = Head(toClient)
  OBVIOUS
<1>2. PICK g : Counts(g)
  BY <1>0 DEF Chained
<1>3. /\ open /\ toClient # <<>> /\ m.type = "snapshot"
      /\ UNCHANGED <<listening, open, results, srv>>
      /\ ~Raised => UNCHANGED synced
      /\ misled' = (misled \/ (Again /\ synced' # {}))
  BY <1>1, SnapshotStep
<1>4. /\ Again =>
            /\ toServer' # <<>>
            /\ LET q == toServer'[Len(toServer')]
               IN  q.type = "watch" /\ q.token = 0 /\ q.r = requests'
      /\ ~Again => toServer' = toServer /\ requests' = requests
  BY <1>0, SnapshotRequests
<1>5. Raised => toServer = <<>>
  BY <1>0, <1>1, <1>2, <1>3, SnapshotFinds, AllReceived
<1>6. CASE Again
  BY <1>3, <1>4, <1>6 DEF LastRequest, At, Again
<1>7. CASE ~Again /\ toServer = <<>>
  BY <1>0, <1>3, <1>4, <1>7 DEF LastRequest
<1>8. CASE ~Again /\ toServer # <<>>
  <2>1. /\ toServer' = toServer /\ requests' = requests
        /\ synced' = synced /\ (misled' <=> misled)
    BY <1>3, <1>4, <1>5, <1>8
  <2> QED BY <1>0, <1>3, <1>8, <2>1 DEF LastRequest, At
<1> QED BY <1>6, <1>7, <1>8

(* The path after a snapshot: the changes it applies were already on it.    *)
LEMMA SnapshotChained ==
  ASSUME Whole, ~miscounted, RaiseWatchSnapshot
  PROVE  Chained'
<1>0. Typed /\ Known /\ Closed /\ LastRequest /\ Stored /\ Sets /\ Chained
  BY DEF Whole
<1>1. PICK m : m = Head(toClient)
  OBVIOUS
<1>2. PICK g : Counts(g) /\ (Quiet => \E f, e : Path(g, f, e))
  BY <1>0 DEF Chained
<1>3. /\ open /\ toClient # <<>> /\ m.type = "snapshot" /\ toClient' = Tail(toClient)
      /\ UNCHANGED <<listening, open, results, srv>>
      /\ Raised => synced' = Applied(synced, Got)
      /\ ~Raised => UNCHANGED synced
      /\ misled' = (misled \/ (Again /\ synced' # {}))
  BY <1>1, SnapshotStep
<1>4. /\ Again => Len(toServer') = Len(toServer) + 2 /\ toServer' # <<>>
      /\ ~Again => toServer' = toServer
      /\ Len(toServer) \in Nat
  BY <1>0, SnapshotRequests, EmptyQueue DEF Typed
<1>5. /\ g[1] = Outstanding
      /\ Again => Outstanding' = g[1] + 2
      /\ ~Again => Outstanding' = g[1]
      /\ ~Again /\ ~Raised => agg' = agg
      /\ ~Again /\ Raised => agg'.added = {} /\ agg'.removed = {}
      /\ g[0] = Outstanding /\ Outstanding \in Nat
  BY <1>0, <1>1, <1>2, <1>3, SnapshotLeft, FirstCount DEF Acks
<1>6. CASE Again
  <2>1. PICK h : h = [i \in 0 .. Len(toClient) - 1 |-> g[i + 1] + 2]
    OBVIOUS
  <2>2. UNCHANGED <<srv, listening>> /\ 2 \in Nat
    BY <1>3
  <2>3. Counts(h)'
    BY <1>0, <1>2, <1>3, <1>4, <1>5, <1>6, <2>1, <2>2, CountsTaken
  <2>4. ~Quiet'
    BY <1>4, <1>6 DEF Quiet
  <2> QED BY <2>3, <2>4 DEF Chained
<1>7. CASE ~Again
  <2>1. PICK h : h = [i \in 0 .. Len(toClient) - 1 |-> g[i + 1] + 0]
    OBVIOUS
  <2>2. /\ UNCHANGED <<srv, listening>> /\ 0 \in Nat
        /\ Len(toServer') = Len(toServer) + 0 /\ Outstanding' = g[1] + 0
    BY <1>3, <1>4, <1>5, <1>7
  <2>3. Counts(h)'
    BY <1>0, <1>2, <1>3, <2>1, <2>2, CountsTaken
  <2>4. ASSUME Quiet'
        PROVE  \E f1, e1 : Path(h, f1, e1)'
    <3>1. Quiet /\ toServer = <<>> /\ listening /\ ~mismatch
      BY <1>3, <1>4, <1>7, <2>4 DEF Quiet, Again
    <3>2. PICK f, e : Path(g, f, e)
      BY <1>2, <3>1
    <3>3. Starts(f[1], e[1])'
      <4>1. CASE Outstanding # 0
        <5>1. 1 \in 1 .. Len(toClient) /\ 0 \in 0 .. Len(toClient)
          BY <1>0, <1>1, <1>2, <1>3, FirstMessage
        <5>2. Starts(f[0], e[0]) /\ e[0] \in {"good", "lost", "over"}
          BY <3>2, <5>1 DEF Path
        <5>3. e[0] = "good" /\ f[0] = synced
          BY <4>1, <5>2 DEF Starts, Viewed
        <5>4. Follows(g, f, e, 1) /\ 1 - 1 = 0
          BY <3>2, <5>1 DEF Path
        <5>5. e[1] = "good" /\ f[1] = synced
          BY <1>5, <4>1, <5>3, <5>4 DEF Follows
        <5>6. ~Raised
          BY <1>0, <1>1, <1>2, <1>3, <4>1, SnapshotFinds
        <5>7. Viewed' = synced
          BY <1>3, <1>5, <1>7, <4>1, <5>6 DEF Viewed
        <5> QED BY <5>5, <5>7 DEF Starts
      <4>2. CASE Outstanding = 0
        <5>1. e[1] = "good" /\ f[1] = Applied(synced, agg)
          BY <1>0, <1>1, <1>2, <1>3, <3>1, <3>2, <4>2, SnapshotHonest
        <5>2. Raised => Applied(synced, Got) = Applied(synced, agg)
          BY <1>0, <1>1, <1>2, <1>3, SnapshotFinds
        <5>3. Viewed' = Applied(synced, agg)
          BY <1>3, <1>5, <1>7, <4>2, <5>2 DEF Viewed, Applied
        <5> QED BY <5>1, <5>3 DEF Starts
      <4> QED BY <4>1, <4>2
    <3>4. ~(g[0] # 0 /\ g[1] = 0)
      BY <1>5
    <3>5. UNCHANGED <<results, srv>>
      BY <1>3
    <3> QED BY <1>0, <1>2, <1>3, <2>1, <3>1, <3>2, <3>3, <3>4, <3>5, PathTaken
  <2> QED BY <2>3, <2>4 DEF Chained
<1> QED BY <1>6, <1>7

(* A snapshot is taken.                                                     *)
LEMMA RaiseWatchSnapshotKeeps ==
  ASSUME Whole, RaiseWatchSnapshot
  PROVE  Whole'
<1>0. Typed /\ Known /\ Closed /\ Stored /\ Sets
  BY DEF Whole
<1>2. /\ open /\ toClient # <<>> /\ toClient' = Tail(toClient) /\ mismatch' = FALSE
      /\ UNCHANGED <<listening, open, miscounted, results, srv, marked>>
      /\ misled' = (misled \/ (Again /\ synced' # {}))
      /\ Again => requests' = requests + 1
      /\ ~Again => requests' = requests
  BY SnapshotStep
<1>3. /\ at' \in 0 .. MaxVersion /\ at' <= Latest
      /\ token' \in 0 .. MaxVersion /\ token' <= Latest
      /\ heldToken' \in 0 .. MaxVersion /\ heldToken' <= Latest
      /\ sentToken' \in 0 .. MaxVersion /\ sentToken' <= Latest
      /\ dated' \subseteq 1 .. MaxVersion
  BY <1>0, <1>2, SnapshotTokens
<1>4. /\ Sets'
      /\ keys' \subseteq Docs /\ synced' \subseteq Docs /\ current' \in BOOLEAN
  BY <1>0, <1>2, SnapshotSets
<1>5. /\ agg' \in TargetStates \cup {NoState}
      /\ agg' # NoState => agg'.token <= Latest
      /\ agg # NoState => agg' # NoState
  BY <1>0, SnapshotLeft
<1>6. /\ toServer' \in Seq(Requests)
      /\ \A i \in 1 .. Len(toServer') :
            toServer'[i].type = "watch" => toServer'[i].token <= Latest
  BY <1>0, SnapshotRequests
<1>7. Typed'
  <2>1. requests' \in Nat /\ marked' \in Nat
    BY <1>0, <1>2 DEF Typed, Types
  <2>2. mismatch' \in BOOLEAN /\ misled' \in BOOLEAN
    BY <1>0, <1>2 DEF Typed, Types
  <2>3. toClient' \in Seq(Responses)
    BY <1>0, <1>2, Taken DEF Typed
  <2> QED BY <1>0, <1>2, <1>3, <1>4, <1>5, <1>6, <2>1, <2>2, <2>3 DEF Typed, Types
<1>8. Known'
  <2>1. ASSUME NEW i \in 1 .. Len(toClient')
        PROVE  /\ toClient'[i].type \in {"current", "snapshot"} =>
                     toClient'[i].token <= Latest
               /\ toClient'[i].type = "snapshot" => toClient'[i].version <= Latest
    BY <1>0, <1>2, TailKnown
  <2> QED BY <1>0, <1>2, <1>3, <1>5, <1>6, <2>1 DEF Known, Latest
<1>9. Closed'
  BY <1>0, <1>2, <1>5 DEF Closed
<1> QED
  BY <1>2, <1>4, <1>7, <1>8, <1>9, SnapshotStored, SnapshotLastRequest, SnapshotChained
  DEF Whole

-----------------------------------------------------------------------------
(* Every step keeps the invariant.                                          *)
LEMMA WholeKept == Whole /\ [Next]_vars => Whole'
<1> SUFFICES ASSUME Whole, [Next]_vars PROVE Whole'
  OBVIOUS
<1>1. CASE Listen
  BY <1>1, ListenKeeps
<1>2. CASE StopListening
  BY <1>2, StopListeningKeeps
<1>3. CASE OnWatchStreamOpen
  BY <1>3, OnWatchStreamOpenKeeps
<1>4. CASE OnWatchStreamClose
  <2>1. StreamGone /\ UNCHANGED <<disk, results, history>> /\ UNCHANGED client
    BY <1>4 DEF OnWatchStreamClose
  <2> QED BY <2>1, StreamGoneKeeps
<1>5. CASE Relaunch
  <2>1. /\ StreamGone /\ UNCHANGED <<disk, results, history>>
        /\ listening' = FALSE /\ synced' = {} /\ current' = FALSE
        /\ heldToken' = 0 /\ sentToken' = 0
    BY <1>5 DEF Relaunch
  <2> QED BY <2>1, StreamGoneKeeps
<1>6. CASE OnWatchStreamChange
  BY <1>6, OnWatchStreamChangeKeeps
<1>7. CASE RaiseWatchSnapshot
  BY <1>7, RaiseWatchSnapshotKeeps
<1>8. CASE Change
  BY <1>8, ChangeKeeps
<1>9. CASE Receive
  BY <1>9, ReceiveKeeps
<1>10. CASE Forget
  BY <1>10, ForgetKeeps
<1>11. CASE SendFilter
  BY <1>11, SendFilterKeeps
<1>12. CASE SendReset
  BY <1>12, SendResetKeeps
<1>13. CASE SendCurrent
  BY <1>13, SendCurrentKeeps
<1>14. CASE SendSnapshot
  BY <1>14, SendSnapshotKeeps
<1>15. CASE \E d \in Docs : SendDocument(d)
  BY <1>15, SendDocumentKeeps
<1>16. CASE ProcessTargetError
  BY <1>16, ProcessTargetErrorKeeps
<1>17. CASE Refuse
  BY <1>17, RefuseKeeps
<1>18. CASE UNCHANGED vars
  <2>1. /\ Typed' /\ Known' /\ Closed' /\ Stored' /\ Sets'
        /\ ~miscounted => LastRequest'
    <3>1. Typed'
      BY <1>18 DEF Whole, Typed, Types, vars, disk, client, stream, channel, server,
                   history
    <3>2. Known'
      BY <1>18 DEF Whole, Known, Latest, vars, disk, client, stream, channel, server,
                   history
    <3>3. Closed' /\ (~miscounted => LastRequest')
      BY <1>18 DEF Whole, Closed, LastRequest, At, vars, disk, client, stream, channel,
                   server, history
    <3>4. Stored' /\ Sets'
      BY <1>18 DEF Whole, Stored, SyncedIsServer, Sets, KeysOfView, Fits, At,
                   vars, disk, client, stream, channel, server,
                   history
    <3> QED BY <3>1, <3>2, <3>3, <3>4
  <2>2. UNCHANGED <<agg, synced, mismatch, listening, open, misled, miscounted, toServer,
                    toClient, results, srv>>
    BY <1>18 DEF vars, client, stream, channel, server, history
  <2>3. ASSUME ~miscounted
        PROVE  Chained'
    <3>1. PICK g : Counts(g) /\ (Quiet => \E f, e : Path(g, f, e))
      BY <2>3 DEF Whole, Chained
    <3>2. Counts(g)'
      BY <2>2, <3>1 DEF Counts, Outstanding, Acks, Numbered
    <3>3. ASSUME Quiet'
          PROVE  \E f, e : Path(g, f, e)'
      <4>1. Quiet
        BY <2>2, <3>3 DEF Quiet
      <4>2. PICK f, e : Path(g, f, e)
        BY <3>1, <4>1
      <4>3. LET n == Len(toClient)
            IN  Ends(f[n], e[n], Idle(g, n)) => Ends(f[n], e[n], Idle(g, n))'
        BY <2>2 DEF Ends, Idle
      <4>4. Path(g, f, e)'
        BY <2>2, <4>2, <4>3, PathKept
      <4> QED BY <4>4
    <3> QED BY <3>2, <3>3 DEF Chained
  <2> QED BY <2>1, <2>2, <2>3 DEF Whole
<1> QED
  BY <1>1, <1>2, <1>3, <1>4, <1>5, <1>6, <1>7, <1>8, <1>9, <1>10, <1>11, <1>12, <1>13,
     <1>14, <1>15, <1>16, <1>17, <1>18 DEF Next

(* The inductive invariant holds throughout.                                *)
LEMMA Invariance == Spec => []Whole
  BY InitHolds, WholeKept, PTL DEF Spec

(* A response taken for the view is one to the request being served.        *)
LEMMA OwnResponseTaken ==
  ASSUME Whole, [Next]_vars, open', toClient # <<>>, toClient' = Tail(toClient),
         agg' # agg, "r" \in DOMAIN Head(toClient), ~miscounted
  PROVE  Head(toClient).r = requests
<1>0. Typed /\ Known /\ Closed /\ LastRequest /\ Sets /\ Chained
  BY DEF Whole
<1>1. PICK m : m = Head(toClient)
  OBVIOUS
<1>2. m \in Responses /\ Tail(toClient) # toClient
  BY <1>0, <1>1, Taken DEF Typed
<1>3. Numbered(m) /\ ~Acks(m) /\ m.type \notin {"snapshot", "error"}
  BY <1>1, <1>2, ResponseShape DEF Numbered
<1>4. CASE OnWatchStreamChange
  <2>1. PICK g : Counts(g)
    BY <1>0 DEF Chained
  <2>2. open /\ agg' = Handled(m) /\ UNCHANGED <<listening, synced>>
    BY <1>1, <1>4 DEF OnWatchStreamChange, client
  <2>3. /\ Outstanding # 0 /\ ~Acks(m) => agg' = agg
        /\ Outstanding = 0 => m.r = requests
    BY <1>0, <1>1, <1>3, <2>1, <2>2, Handles
  <2> QED BY <1>1, <1>3, <2>3
<1>5. CASE RaiseWatchSnapshot
  BY <1>1, <1>3, <1>5, SnapshotStep
<1>6. CASE \/ Listen \/ StopListening \/ OnWatchStreamOpen
  <2>1. toClient' = toClient
    BY <1>6 DEF Listen, StopListening, OnWatchStreamOpen
  <2> QED BY <1>2, <2>1
<1>7. CASE OnWatchStreamClose \/ Relaunch
  BY <1>7 DEF OnWatchStreamClose, Relaunch, StreamGone
<1>8. CASE \/ Change \/ Receive \/ Refuse \/ Forget \/ SendFilter \/ SendReset \/ SendCurrent
           \/ SendSnapshot \/ \E d \in Docs : SendDocument(d)
  BY <1>8 DEF Change, Receive, Refuse, Forget, SendFilter, SendReset, SendCurrent, SendSnapshot,
              SendDocument, Serving, stream
<1>9. CASE UNCHANGED vars
  BY <1>9 DEF vars, stream
<1>10. CASE ProcessTargetError
  BY <1>1, <1>3, <1>10 DEF ProcessTargetError
<1> QED BY <1>4, <1>5, <1>6, <1>7, <1>8, <1>9, <1>10 DEF Next

(* Nothing the app, the stream or the server does gives a variable a value  *)
(* outside its type; LocalStore never holds a token that no snapshot gave,  *)
(* and the aggregator never awaits fewer answers than none, unless a        *)
(* refusal has upset its count.                                             *)
THEOREM TargetTypeOK == Spec => []TypeOK
<1>1. ASSUME Whole
      PROVE  TypeOK
  <2>1. Types
    BY <1>1 DEF Whole, Typed
  <2>2. ASSUME ~miscounted, agg # NoState
        PROVE  agg.outstanding >= 0
    <3>1. PICK g : Counts(g)
      BY <1>1, <2>2 DEF Whole, Chained
    <3>2. Outstanding \in Nat
      BY <1>1, <3>1, CountsShape DEF Whole
    <3> QED BY <2>2, <3>2 DEF Outstanding, Out
  <2> QED BY <2>1, <2>2 DEF TypeOK, Counted
<1> QED BY <1>1, Invariance, PTL

(* A synced view has the documents that match on the server at the version  *)
(* of its last snapshot, and LevelDB the same, however many requests,       *)
(* broken streams, resets, existence filters and refusals it took to get    *)
(* there; except after the requests that misled counts.                     *)
THEOREM TargetCopiesAgree == Spec => []CopiesAgree
<1>1. Whole => CopiesAgree
  BY DEF Whole, Stored, SyncedIsServer, Sets, CopiesAgree
<1> QED BY <1>1, Invariance, PTL

(* What WatchChangeAggregator accumulates fits the view: it never removes   *)
(* or modifies a document the view does not have nor adds one it has, also  *)
(* when a refusal has upset its count.                                      *)
THEOREM TargetChangesFitView == Spec => []ChangesFitView
<1>1. Whole => ChangesFitView
  BY DEF Whole, Sets, KeysOfView, Fits, IsActive, ChangesFitView
<1> QED BY <1>1, Invariance, PTL

(* No response to an earlier request is taken for the view: the count of    *)
(* outstanding requests (RecordPendingTargetRequest) holds them all back,   *)
(* refusals included, until one erases a count of answers still to come or  *)
(* goes uncounted (ProcessTargetError), and again on the next stream.       *)
THEOREM TargetOwnResponsesOnly == Spec => OwnResponsesOnly
<1>1. Whole /\ [Next]_vars =>
        [(/\ open' /\ toClient # <<>> /\ toClient' = Tail(toClient) /\ agg' # agg
          /\ "r" \in DOMAIN Head(toClient) /\ ~miscounted)
              => Head(toClient).r = requests]_vars
  BY OwnResponseTaken
<1> QED BY <1>1, Invariance, PTL DEF Spec, OwnResponsesOnly
=============================================================================
