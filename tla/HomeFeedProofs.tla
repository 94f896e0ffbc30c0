--------------------------- MODULE HomeFeedProofs ---------------------------
(* Type correctness of HomeFeed, its paging properties, the order of its    *)
(* deck and when its fetches overlap, for every set of uids, page size and  *)
(* number of fetches.                                                       *)
EXTENDS HomeFeed, Lemmas, SequenceTheorems

(* The part of the type invariant the paging argument needs; the HUDs are   *)
(* coherent, so that every call on them keeps their type.                   *)
Typed ==
  /\ users \subseteq Uids
  /\ cached \subseteq users
  /\ atLaunch \subseteq users
  /\ offline \in BOOLEAN
  /\ overlapped \in BOOLEAN
  /\ cards \in Seq(Uids)
  /\ lastFetchedUser \in Uids \cup {NoUser}
  /\ fetches \in Seq(Fetch)
  /\ \A f \in 1..Len(fetches) : Coherent(fetches[f].hud)
  /\ \A f \in 1..Len(fetches) : fetches[f].stage = "waiting" => fetches[f].docs = <<>>

(* A page in flight, or only the cursor of a query, already accounts for    *)
(* everyone up to it.                                                       *)
Reached(u, f) ==
  \/ u <= fetches[f].after
  \/ \E i \in 1..Len(fetches[f].docs) : u <= fetches[f].docs[i]

(* The inductive strengthening of NoSkippedUser: whoever sorts before the   *)
(* cursor or before a document of a page in flight has a card or is in that *)
(* page.  It speaks of every fetch, because a late page becomes the cursor  *)
(* whatever has been fetched in the meantime.                               *)
Covered ==
  ~offline =>
    /\ \A u \in atLaunch : u <= lastFetchedUser => u \in Elements(cards)
    /\ \A f \in 1..Len(fetches) : \A u \in atLaunch :
         Reached(u, f) =>
           u \in Elements(cards) \/ u \in Elements(fetches[f].docs)

FeedInv == Typed /\ Covered

-----------------------------------------------------------------------------
(* Uids, and the cursor before the first page, are numbers.                 *)
LEMMA UidNat == Uids \subseteq Nat /\ NoUser \in Nat /\ \A u \in Uids : u > NoUser
  BY FeedAssumption DEF NoUser

(* A page is a sequence of uids.                                            *)
LEMMA PageType ==
  ASSUME NEW docs \in Pages
  PROVE  docs \in Seq(Uids) /\ Len(docs) \in Nat
  BY FeedAssumption DEF Pages

LEMMA EmptyPage == <<>> \in Pages
  BY FeedAssumption DEF Pages

(* The first HUD of a fetch is coherent.                                    *)
LEMMA NewFetchType ==
  ASSUME NEW after \in Uids \cup {NoUser}
  PROVE  /\ NewFetch(after) \in Fetch
         /\ Coherent(NewFetch(after).hud)
         /\ NewFetch(after).after = after
         /\ NewFetch(after).docs = <<>>
  <1>1. Coherent(ShowInView(NewHUD, TRUE))
    BY NewHUDCoherent, ShowCoherent
  <1> QED BY <1>1, EmptyPage DEF NewFetch, Fetch, Stages, Coherent

(* What was on the cards stays on them, and a callback adds its page.       *)
LEMMA ElementsAppended ==
  ASSUME NEW s \in Seq(Uids), NEW t \in Seq(Uids)
  PROVE  /\ s \o t \in Seq(Uids)
         /\ Elements(s \o t) = Elements(s) \cup Elements(t)
<1>1. s \o t \in Seq(Uids) /\ Len(s \o t) = Len(s) + Len(t)
  OBVIOUS
<1>2. \A i \in 1..Len(s) : (s \o t)[i] = s[i]
  OBVIOUS
<1>3. \A i \in 1..Len(t) : (s \o t)[Len(s) + i] = t[i] /\ Len(s) + i \in 1..Len(s \o t)
  BY <1>1
<1>4. \A i \in 1..Len(s \o t) : i \notin 1..Len(s) =>
        i - Len(s) \in 1..Len(t) /\ (s \o t)[i] = t[i - Len(s)]
  BY <1>1
<1>5. Elements(s) \subseteq Elements(s \o t)
  BY <1>1, <1>2 DEF Elements
<1>6. Elements(t) \subseteq Elements(s \o t)
  BY <1>3 DEF Elements
<1>7. Elements(s \o t) \subseteq Elements(s) \cup Elements(t)
  BY <1>2, <1>4 DEF Elements
<1> QED BY <1>1, <1>5, <1>6, <1>7

LEMMA FeedInvInit == Init => FeedInv
<1> SUFFICES ASSUME Init PROVE FeedInv
  OBVIOUS
<1>1. /\ fetches = <<NewFetch(NoUser)>>
      /\ NewFetch(NoUser) \in Fetch
      /\ Coherent(NewFetch(NoUser).hud)
      /\ NewFetch(NoUser).after = NoUser
      /\ NewFetch(NoUser).docs = <<>>
  BY NewFetchType DEF Init
<1>2. fetches \in Seq(Fetch) /\ Len(fetches) = 1 /\ fetches[1] = NewFetch(NoUser)
  BY <1>1
<1>3. Typed
  <2>1. cards \in Seq(Uids)
    BY DEF Init
  <2>2. \A f \in 1..Len(fetches) :
          Coherent(fetches[f].hud) /\ fetches[f].docs = <<>>
    BY <1>1, <1>2
  <2> QED BY <1>2, <2>1, <2>2 DEF Init, Typed
<1>4. Covered
  <2>1. \A u \in atLaunch : u \in Nat /\ u > NoUser
    BY FeedAssumption DEF Init, NoUser
  <2>2. \A f \in 1..Len(fetches) :
          fetches[f].after = NoUser /\ fetches[f].docs = <<>>
    BY <1>1, <1>2
  <2>3. lastFetchedUser = NoUser
    BY DEF Init
  <2>4. \A u \in atLaunch : ~(u <= NoUser)
    BY <2>1 DEF NoUser
  <2>5. \A f \in 1..Len(fetches) : \A u \in atLaunch : ~Reached(u, f)
    BY <2>2, <2>4 DEF Reached
  <2> QED BY <2>3, <2>4, <2>5 DEF Covered
<1> QED BY <1>3, <1>4 DEF FeedInv

-----------------------------------------------------------------------------
(* Replacing one fetch by another of the right type and a coherent HUD.     *)
LEMMA FetchReplaced ==
  ASSUME NEW fs \in Seq(Fetch), \A g \in 1..Len(fs) : Coherent(fs[g].hud),
         NEW f \in 1..Len(fs), NEW r \in Fetch, Coherent(r.hud),
         NEW gs, gs = [fs EXCEPT ![f] = r]
  PROVE  /\ gs \in Seq(Fetch)
         /\ Len(gs) = Len(fs)
         /\ gs[f] = r
         /\ \A g \in 1..Len(fs) : g # f => gs[g] = fs[g]
         /\ \A g \in 1..Len(gs) : Coherent(gs[g].hud)
<1>1. gs \in Seq(Fetch) /\ Len(gs) = Len(fs) /\ gs[f] = r
  OBVIOUS
<1>2. \A g \in 1..Len(fs) : g # f => gs[g] = fs[g]
  OBVIOUS
<1> QED BY <1>1, <1>2

(* A fetch of the type, before and after, in the middle of a step.          *)
LEMMA StepType ==
  ASSUME Typed, NEW f \in 1..Len(fetches), NEW r \in Fetch, Coherent(r.hud),
         r.stage = "waiting" => r.docs = <<>>,
         fetches' = [fetches EXCEPT ![f] = r]
  PROVE  /\ fetches' \in Seq(Fetch)
         /\ Len(fetches') = Len(fetches)
         /\ fetches'[f] = r
         /\ \A g \in 1..Len(fetches) : g # f => fetches'[g] = fetches[g]
         /\ \A g \in 1..Len(fetches') : Coherent(fetches'[g].hud)
         /\ \A g \in 1..Len(fetches') :
              fetches'[g].stage = "waiting" => fetches'[g].docs = <<>>
<1>1. /\ fetches' \in Seq(Fetch)
      /\ Len(fetches') = Len(fetches)
      /\ fetches'[f] = r
      /\ \A g \in 1..Len(fetches) : g # f => fetches'[g] = fetches[g]
      /\ \A g \in 1..Len(fetches') : Coherent(fetches'[g].hud)
  BY FetchReplaced DEF Typed
<1> QED BY <1>1 DEF Typed

(* A step that changes the HUD or the stage of a fetch but not its query    *)
(* and its page.                                                            *)
LEMMA SameQuery ==
  ASSUME FeedInv, NEW f \in 1..Len(fetches), NEW r \in Fetch, Coherent(r.hud),
         r.stage = "waiting" => fetches[f].stage = "waiting",
         r.after = fetches[f].after, r.docs = fetches[f].docs,
         fetches' = [fetches EXCEPT ![f] = r],
         UNCHANGED <<users, cached, cards, lastFetchedUser, atLaunch, offline,
                     overlapped>>
  PROVE  FeedInv'
<1> USE DEF FeedInv
<1>1. r.stage = "waiting" => r.docs = <<>>
  BY DEF Typed
<1>2. /\ fetches' \in Seq(Fetch)
      /\ Len(fetches') = Len(fetches)
      /\ fetches'[f] = r
      /\ \A g \in 1..Len(fetches) : g # f => fetches'[g] = fetches[g]
      /\ \A g \in 1..Len(fetches') : Coherent(fetches'[g].hud)
      /\ \A g \in 1..Len(fetches') :
           fetches'[g].stage = "waiting" => fetches'[g].docs = <<>>
  BY <1>1, StepType
<1>3. \A g \in 1..Len(fetches) : /\ fetches'[g].after = fetches[g].after
                                 /\ fetches'[g].docs = fetches[g].docs
  BY <1>2
<1>4. Typed'
  BY <1>2 DEF Typed
<1>5. Covered'
  <2> SUFFICES ASSUME ~offline, NEW g \in 1..Len(fetches), NEW u \in atLaunch,
                      Reached(u, g)'
               PROVE  u \in Elements(cards) \/ u \in Elements(fetches'[g].docs)
    BY <1>2 DEF Covered
  <2>1. fetches'[g].after = fetches[g].after /\ fetches'[g].docs = fetches[g].docs
    BY <1>3
  <2>2. Reached(u, g)
    BY <2>1 DEF Reached
  <2> QED BY <2>1, <2>2 DEF Covered
<1> QED BY <1>4, <1>5

(* A page leaves nobody out between its cursor and its last document.       *)
LEMMA PageCovers ==
  ASSUME NEW S \in SUBSET Uids, NEW after \in Uids \cup {NoUser},
         NEW docs \in Pages, IsPage(docs, S, after),
         NEW u \in S, u > after, NEW i \in 1..Len(docs), u <= docs[i]
  PROVE  u \in Elements(docs)
<1>1. docs \in Seq(Uids) /\ Len(docs) \in Nat
  BY PageType
<1>2. ASSUME Len(docs) = PageSize, u > docs[PageSize] PROVE FALSE
  <2>1. PageSize \in 1..Len(docs) /\ i <= PageSize
    BY <1>1, <1>2, FeedAssumption
  <2>2. docs[i] \in Nat /\ docs[PageSize] \in Nat /\ u \in Nat
    BY <2>1, UidNat DEF IsPage
  <2>3. i = PageSize \/ docs[i] < docs[PageSize]
    BY <2>1 DEF IsPage
  <2> QED BY <1>2, <2>2, <2>3
<1> QED BY <1>2 DEF IsPage

(* A server's page keeps everyone covered: those it is the first to reach   *)
(* are in it.                                                               *)
LEMMA ServerStep ==
  ASSUME FeedInv, NEW f \in 1..Len(fetches), ServerAnswers(f)
  PROVE  FeedInv'
<1> USE DEF FeedInv
<1>1. PICK docs \in Pages :
        /\ IsPage(docs, users, fetches[f].after)
        /\ fetches' = [fetches EXCEPT ![f] =
                         [@ EXCEPT !.stage = "answered", !.docs = docs]]
        /\ cached' = cached \cup Elements(docs)
  BY DEF ServerAnswers
<1>2. /\ fetches[f].stage = "waiting" /\ fetches[f].docs = <<>>
      /\ UNCHANGED <<users, cards, lastFetchedUser, atLaunch, offline, overlapped>>
  BY DEF ServerAnswers, Typed
<1> DEFINE r == [fetches[f] EXCEPT !.stage = "answered", !.docs = docs]
<1>3. fetches[f] \in Fetch /\ Coherent(fetches[f].hud)
  BY DEF Typed
<1>4. /\ r \in Fetch /\ r.hud = fetches[f].hud /\ r.after = fetches[f].after
      /\ r.docs = docs /\ r.stage = "answered"
  BY <1>3 DEF Fetch, Stages
<1>5. fetches' = [fetches EXCEPT ![f] = r]
  BY <1>1
<1> HIDE DEF r
<1>6. /\ fetches' \in Seq(Fetch)
      /\ Len(fetches') = Len(fetches)
      /\ fetches'[f] = r
      /\ \A g \in 1..Len(fetches) : g # f => fetches'[g] = fetches[g]
      /\ \A g \in 1..Len(fetches') : Coherent(fetches'[g].hud)
      /\ \A g \in 1..Len(fetches') :
           fetches'[g].stage = "waiting" => fetches'[g].docs = <<>>
  BY <1>3, <1>4, <1>5, StepType
<1>7. Typed'
  <2>1. Elements(docs) \subseteq users
    BY <1>1 DEF IsPage, Elements
  <2> QED BY <1>1, <1>2, <1>6, <2>1 DEF Typed
<1>8. Covered'
  <2> SUFFICES ASSUME ~offline, NEW g \in 1..Len(fetches), NEW u \in atLaunch,
                      Reached(u, g)'
               PROVE  u \in Elements(cards) \/ u \in Elements(fetches'[g].docs)
    BY <1>2, <1>6 DEF Covered
  <2>1. CASE g # f
    <3>1. fetches'[g] = fetches[g]
      BY <1>6, <2>1
    <3> QED BY <3>1 DEF Reached, Covered
  <2>2. CASE g = f
    <3>1. fetches'[g].docs = docs /\ fetches'[g].after = fetches[f].after
      BY <1>4, <1>6, <2>2
    <3>2. CASE u <= fetches[f].after
      <4>1. u \in Elements(cards) \/ u \in Elements(fetches[f].docs)
        BY <3>2 DEF Reached, Covered
      <4> QED BY <1>2, <4>1 DEF Elements
    <3>3. CASE ~(u <= fetches[f].after)
      <4>1. PICK i \in 1..Len(docs) : u <= docs[i]
        BY <3>1, <3>3 DEF Reached
      <4>2. u \in users /\ users \in SUBSET Uids
            /\ fetches[f].after \in Uids \cup {NoUser}
        BY <1>3 DEF Typed, Fetch
      <4>3. u \in Nat /\ fetches[f].after \in Nat
        BY <4>2, UidNat
      <4>4. u > fetches[f].after
        BY <3>3, <4>3
      <4> QED BY <1>1, <3>1, <4>1, <4>2, <4>4, PageCovers
    <3> QED BY <3>2, <3>3
  <2> QED BY <2>1, <2>2
<1> QED BY <1>7, <1>8

(* After an answer from the cache nothing is claimed.                       *)
LEMMA CacheStep ==
  ASSUME FeedInv, NEW f \in 1..Len(fetches), CacheAnswers(f)
  PROVE  FeedInv'
<1> USE DEF FeedInv
<1>1. PICK docs \in Pages :
        fetches' = [fetches EXCEPT ![f] =
                      [@ EXCEPT !.stage = "answered", !.docs = docs]]
  BY DEF CacheAnswers
<1> DEFINE r == [fetches[f] EXCEPT !.stage = "answered", !.docs = docs]
<1>2. fetches[f] \in Fetch /\ Coherent(fetches[f].hud)
  BY DEF Typed
<1>3. r \in Fetch /\ r.hud = fetches[f].hud /\ r.stage = "answered"
  BY <1>2 DEF Fetch, Stages
<1>4. fetches' = [fetches EXCEPT ![f] = r]
  BY <1>1
<1> HIDE DEF r
<1>5. /\ fetches' \in Seq(Fetch)
      /\ \A g \in 1..Len(fetches') : Coherent(fetches'[g].hud)
      /\ \A g \in 1..Len(fetches') :
           fetches'[g].stage = "waiting" => fetches'[g].docs = <<>>
  BY <1>2, <1>3, <1>4, StepType
<1>6. Typed'
  BY <1>5 DEF CacheAnswers, Typed
<1>7. Covered'
  BY DEF CacheAnswers, Covered
<1> QED BY <1>6, <1>7

(* The completion block keeps everyone covered: the page it turns into      *)
(* cards reaches exactly as far as the cursor it leaves.                    *)
LEMMA CallbackStep ==
  ASSUME FeedInv, NEW f \in 1..Len(fetches), Callback(f)
  PROVE  FeedInv'
<1> USE DEF FeedInv
<1> DEFINE docs == fetches[f].docs
           h == DismissedHUD(f)
           r == [fetches[f] EXCEPT !.stage = "done", !.docs = <<>>, !.hud = h]
<1>1. /\ fetches' = [fetches EXCEPT ![f] = r]
      /\ cards' = cards \o docs
      /\ lastFetchedUser' = IF docs = <<>> THEN lastFetchedUser ELSE docs[Len(docs)]
      /\ UNCHANGED <<users, cached, atLaunch, offline, overlapped>>
  BY DEF Callback, Appended
<1>2. fetches[f] \in Fetch /\ Coherent(fetches[f].hud)
  BY DEF Typed
<1>3. docs \in Pages
  BY <1>2 DEF Fetch
<1>4. docs \in Seq(Uids) /\ Len(docs) \in Nat
  BY <1>3, PageType
<1>5. Coherent(h)
  BY <1>2, DelayCoherent DEF DismissedHUD
<1> HIDE DEF h
<1>6. /\ r \in Fetch /\ r.hud = h /\ r.after = fetches[f].after
      /\ r.docs = <<>> /\ r.stage = "done"
  BY <1>2, <1>5, EmptyPage DEF Fetch, Stages, Coherent
<1> HIDE DEF r
<1>7. /\ fetches' \in Seq(Fetch)
      /\ Len(fetches') = Len(fetches)
      /\ fetches'[f] = r
      /\ \A g \in 1..Len(fetches) : g # f => fetches'[g] = fetches[g]
      /\ \A g \in 1..Len(fetches') : Coherent(fetches'[g].hud)
      /\ \A g \in 1..Len(fetches') :
           fetches'[g].stage = "waiting" => fetches'[g].docs = <<>>
  BY <1>1, <1>5, <1>6, StepType
<1>8. cards' \in Seq(Uids) /\ Elements(cards') = Elements(cards) \cup Elements(docs)
  BY <1>1, <1>4, ElementsAppended DEF Typed
<1>9. docs = <<>> \/ (Len(docs) \in 1..Len(docs) /\ docs[Len(docs)] \in Uids)
  BY <1>4
<1>10. Typed'
  <2>1. lastFetchedUser' \in Uids \cup {NoUser}
    BY <1>1, <1>9 DEF Typed
  <2> QED BY <1>1, <1>7, <1>8, <2>1 DEF Typed
<1>11. Covered'
  <2>1. ASSUME ~offline, NEW u \in atLaunch, u <= lastFetchedUser'
        PROVE  u \in Elements(cards')
    <3>1. CASE docs = <<>>
      BY <1>1, <1>8, <2>1, <3>1 DEF Covered
    <3>2. CASE docs # <<>>
      <4>1. Reached(u, f)
        BY <1>1, <1>9, <2>1, <3>2 DEF Reached
      <4> QED BY <1>8, <2>1, <4>1 DEF Covered
    <3> QED BY <3>1, <3>2
  <2>2. ASSUME ~offline, NEW g \in 1..Len(fetches), NEW u \in atLaunch,
               Reached(u, g)'
        PROVE  u \in Elements(cards') \/ u \in Elements(fetches'[g].docs)
    <3>1. CASE g # f
      <4>1. fetches'[g] = fetches[g]
        BY <1>7, <3>1
      <4> QED BY <1>8, <2>2, <4>1 DEF Reached, Covered
    <3>2. CASE g = f
      <4>1. fetches'[g].docs = <<>> /\ fetches'[g].after = fetches[f].after
        BY <1>6, <1>7, <3>2
      <4>2. u <= fetches[f].after
        BY <2>2, <4>1 DEF Reached
      <4> QED BY <1>8, <2>2, <4>2 DEF Reached, Covered
    <3> QED BY <3>1, <3>2
  <2> QED BY <1>1, <1>7, <2>1, <2>2 DEF Covered
<1> QED BY <1>10, <1>11

(* A new query starts at the cursor, up to which everyone has a card.       *)
LEMMA RefreshStep ==
  ASSUME FeedInv, Refresh
  PROVE  FeedInv'
<1> USE DEF FeedInv
<1> DEFINE r == NewFetch(lastFetchedUser)
<1>1. /\ r \in Fetch /\ Coherent(r.hud) /\ r.after = lastFetchedUser
      /\ r.docs = <<>>
  BY NewFetchType DEF Typed
<1>2. /\ fetches' = Append(fetches, r)
      /\ UNCHANGED <<users, cached, cards, lastFetchedUser, atLaunch, offline>>
      /\ overlapped' \in BOOLEAN
  BY DEF Refresh, Typed
<1> HIDE DEF r
<1>3. /\ fetches' \in Seq(Fetch)
      /\ Len(fetches') = Len(fetches) + 1
      /\ Len(fetches) \in Nat
      /\ fetches'[Len(fetches) + 1] = r
      /\ \A g \in 1..Len(fetches) : fetches'[g] = fetches[g]
  BY <1>1, <1>2 DEF Typed
<1>4. \A g \in 1..Len(fetches') : g \in 1..Len(fetches) \/ fetches'[g] = r
  BY <1>3
<1>5. Typed'
  BY <1>1, <1>2, <1>3, <1>4 DEF Typed
<1>6. Covered'
  <2> SUFFICES ASSUME ~offline, NEW g \in 1..Len(fetches'), NEW u \in atLaunch,
                      Reached(u, g)'
               PROVE  u \in Elements(cards) \/ u \in Elements(fetches'[g].docs)
    BY <1>2 DEF Covered
  <2>1. CASE g \in 1..Len(fetches)
    <3>1. fetches'[g] = fetches[g]
      BY <1>3, <2>1
    <3> QED BY <2>1, <3>1 DEF Reached, Covered
  <2>2. CASE fetches'[g] = r
    <3>1. u <= lastFetchedUser
      BY <1>1, <2>2 DEF Reached
    <3> QED BY <3>1 DEF Covered
  <2> QED BY <1>4, <2>1, <2>2
<1> QED BY <1>5, <1>6

(* Every step of the screen, of Firestore and of the HUDs preserves it.     *)
LEMMA FeedInvNext == FeedInv /\ [Next]_vars => FeedInv'
<1> SUFFICES ASSUME FeedInv, [Next]_vars PROVE FeedInv'
  OBVIOUS
<1>0. DOMAIN fetches = 1..Len(fetches)
  BY DEF FeedInv, Typed
<1>1. ASSUME Refresh PROVE FeedInv'
  BY <1>1, RefreshStep
<1>2. ASSUME NEW f \in 1..Len(fetches), ServerAnswers(f) PROVE FeedInv'
  BY <1>2, ServerStep
<1>3. ASSUME NEW f \in 1..Len(fetches), CacheAnswers(f) PROVE FeedInv'
  BY <1>3, CacheStep
<1>4. ASSUME NEW f \in 1..Len(fetches), QueryFails(f) PROVE FeedInv'
  <2> DEFINE r == [fetches[f] EXCEPT !.stage = "failed"]
  <2>1. fetches[f] \in Fetch /\ Coherent(fetches[f].hud)
    BY DEF FeedInv, Typed
  <2>2. /\ r \in Fetch /\ r.hud = fetches[f].hud /\ r.after = fetches[f].after
        /\ r.docs = fetches[f].docs /\ r.stage = "failed"
    BY <2>1 DEF Fetch, Stages
  <2>3. fetches' = [fetches EXCEPT ![f] = r]
    BY <1>4 DEF QueryFails
  <2> HIDE DEF r
  <2> QED BY <1>4, <2>1, <2>2, <2>3, SameQuery DEF QueryFails
<1>5. ASSUME NEW f \in 1..Len(fetches), Callback(f) PROVE FeedInv'
  BY <1>5, CallbackStep
<1>6. ASSUME NEW f \in 1..Len(fetches), HUDDelay(f) PROVE FeedInv'
  <2> DEFINE h == TimerFires(fetches[f].hud, TRUE)
             r == [fetches[f] EXCEPT !.hud = h]
  <2>1. fetches[f] \in Fetch /\ Coherent(fetches[f].hud)
    BY DEF FeedInv, Typed
  <2>2. fetches' = [fetches EXCEPT ![f] = r]
    BY <1>6 DEF HUDDelay, HUDBecomes
  <2>3. Coherent(h)
    BY <1>6, <2>1, TimerCoherent DEF HUDDelay
  <2> HIDE DEF h
  <2>4. /\ r \in Fetch /\ r.hud = h /\ r.after = fetches[f].after
        /\ r.docs = fetches[f].docs /\ r.stage = fetches[f].stage
    BY <2>1, <2>3 DEF Fetch, Coherent
  <2> HIDE DEF r
  <2> QED BY <1>6, <2>2, <2>3, <2>4, SameQuery DEF HUDDelay
<1>7. ASSUME NEW f \in 1..Len(fetches), HUDFade(f) PROVE FeedInv'
  <2>1. PICK in \in BOOLEAN :
          /\ FadeOwed(fetches[f].hud, in)
          /\ HUDBecomes(f, AnimationFinished(fetches[f].hud, in))
    BY <1>7 DEF HUDFade
  <2> DEFINE h == AnimationFinished(fetches[f].hud, in)
             r == [fetches[f] EXCEPT !.hud = h]
  <2>2. fetches[f] \in Fetch /\ Coherent(fetches[f].hud)
    BY DEF FeedInv, Typed
  <2>3. fetches' = [fetches EXCEPT ![f] = r]
    BY <2>1 DEF HUDBecomes
  <2>4. Coherent(h)
    BY <2>1, <2>2, FadeCoherent
  <2> HIDE DEF h
  <2>5. /\ r \in Fetch /\ r.hud = h /\ r.after = fetches[f].after
        /\ r.docs = fetches[f].docs /\ r.stage = fetches[f].stage
    BY <2>2, <2>4 DEF Fetch, Coherent
  <2> HIDE DEF r
  <2> QED BY <1>7, <2>3, <2>4, <2>5, SameQuery DEF HUDFade
<1>8. ASSUME NEW u \in Uids, UserRegisters(u) PROVE FeedInv'
  BY <1>8 DEF UserRegisters, FeedInv, Typed, Covered, Reached
<1>9. ASSUME NEW i \in DOMAIN deck, SwipedAway(i) PROVE FeedInv'
  BY <1>9 DEF SwipedAway, FeedInv, Typed, Covered, Reached
<1>10. CASE UNCHANGED vars
  BY <1>10 DEF vars, FeedInv, Typed, Covered, Reached
<1> QED BY <1>0, <1>1, <1>2, <1>3, <1>4, <1>5, <1>6, <1>7, <1>8, <1>9, <1>10
        DEF Next, System

(* Paging misses nobody who was registered at launch, in every behaviour    *)
(* without an answer from the cache.                                        *)
THEOREM FeedSkipsNobody == Spec => []NoSkippedUser
<1>1. FeedInv => NoSkippedUser
  BY DEF FeedInv, Covered, NoSkippedUser
<1> QED BY <1>1, FeedInvInit, FeedInvNext, PTL DEF Spec

-----------------------------------------------------------------------------
(* The inductive strengthening of NoDuplicate: while fetches do not overlap *)
(* only the last one can be pending, its cursor is the user fetched last,   *)
(* every card is at or below that cursor, and every page is above its own.  *)
Sequential ==
  ~overlapped =>
    /\ \A i, j \in 1..Len(cards) : i < j => cards[i] < cards[j]
    /\ \A i \in 1..Len(cards) : cards[i] <= lastFetchedUser
    /\ \A f \in 1..Len(fetches) :
         /\ Pending(f) => f = Len(fetches) /\ fetches[f].after = lastFetchedUser
         /\ \A i \in 1..Len(fetches[f].docs) : fetches[f].docs[i] > fetches[f].after
         /\ \A i, j \in 1..Len(fetches[f].docs) :
              i < j => fetches[f].docs[i] < fetches[f].docs[j]

(* A fetch keeps its query while its page, stage or HUD changes.            *)
LEMMA SequentialStep ==
  ASSUME FeedInv, Sequential, NEW f \in 1..Len(fetches), NEW r,
         fetches' = [fetches EXCEPT ![f] = r],
         r.after = fetches[f].after,
         r.stage # "done" => Pending(f),
         \A i \in 1..Len(r.docs) : r.docs[i] > r.after,
         \A i, j \in 1..Len(r.docs) : i < j => r.docs[i] < r.docs[j],
         UNCHANGED <<cards, lastFetchedUser, overlapped>>
  PROVE  Sequential'
<1>1. /\ Len(fetches') = Len(fetches)
      /\ fetches'[f] = r
      /\ \A g \in 1..Len(fetches) : g # f => fetches'[g] = fetches[g]
  BY DEF FeedInv, Typed
<1> SUFFICES ASSUME ~overlapped, NEW g \in 1..Len(fetches)
             PROVE  /\ Pending(g)' => /\ g = Len(fetches)
                                      /\ fetches'[g].after = lastFetchedUser
                    /\ \A i \in 1..Len(fetches'[g].docs) :
                         fetches'[g].docs[i] > fetches'[g].after
                    /\ \A i, j \in 1..Len(fetches'[g].docs) :
                         i < j => fetches'[g].docs[i] < fetches'[g].docs[j]
  BY <1>1, ZenonT(60) DEF Sequential
<1>2. CASE g = f
  <2>1. fetches'[g] = r
    BY <1>1, <1>2
  <2>2. Pending(g)' => g = Len(fetches) /\ fetches'[g].after = lastFetchedUser
    BY <1>2, <2>1 DEF Sequential, Pending
  <2> QED BY <2>1, <2>2
<1>3. CASE g # f
  <2>1. fetches'[g] = fetches[g]
    BY <1>1, <1>3
  <2> QED BY <2>1 DEF Sequential, Pending
<1> QED BY <1>2, <1>3

(* A page appended behind cards that all lie at or below its cursor.        *)
LEMMA IncreasingAppended ==
  ASSUME NEW s \in Seq(Uids), NEW t \in Seq(Uids), NEW c \in Nat,
         \A i, j \in 1..Len(s) : i < j => s[i] < s[j],
         \A i \in 1..Len(s) : s[i] <= c,
         \A i \in 1..Len(t) : t[i] > c,
         \A i, j \in 1..Len(t) : i < j => t[i] < t[j]
  PROVE  /\ \A i, j \in 1..Len(s \o t) : i < j => (s \o t)[i] < (s \o t)[j]
         /\ \A i \in 1..Len(s \o t) :
              (s \o t)[i] <= IF t = <<>> THEN c ELSE t[Len(t)]
<1> DEFINE w == s \o t
<1>0. Len(s) \in Nat /\ Len(t) \in Nat /\ Len(w) = Len(s) + Len(t)
  OBVIOUS
<1>a. \A i \in 1..Len(s) : w[i] = s[i]
  OBVIOUS
<1>b. \A i \in 1..Len(w) : i \notin 1..Len(s) =>
        i - Len(s) \in 1..Len(t) /\ w[i] = t[i - Len(s)]
  BY <1>0
<1>1. /\ Len(s) \in Nat /\ Len(t) \in Nat
      /\ Len(w) = Len(s) + Len(t)
      /\ \A i \in 1..Len(s) : w[i] = s[i]
      /\ \A i \in 1..Len(w) : i \notin 1..Len(s) =>
           i - Len(s) \in 1..Len(t) /\ w[i] = t[i - Len(s)]
  BY <1>0, <1>a, <1>b
<1>2. /\ \A i \in 1..Len(s) : s[i] \in Nat
      /\ \A i \in 1..Len(t) : t[i] \in Nat
  <2>1. /\ \A i \in 1..Len(s) : s[i] \in Uids
        /\ \A i \in 1..Len(t) : t[i] \in Uids
    OBVIOUS
  <2> QED BY <2>1, UidNat
<1> HIDE DEF w
<1>3. ASSUME NEW i \in 1..Len(w), NEW j \in 1..Len(w), i < j
      PROVE  w[i] < w[j]
  <2>1. CASE j \in 1..Len(s)
    BY <1>1, <1>3, <2>1
  <2>2. CASE i \in 1..Len(s) /\ j \notin 1..Len(s)
    <3>1. w[i] <= c /\ w[i] \in Nat
      BY <1>1, <1>2, <2>2
    <3>2. w[j] > c /\ w[j] \in Nat
      BY <1>1, <1>2, <2>2
    <3> QED BY <3>1, <3>2
  <2>3. CASE i \notin 1..Len(s) /\ j \notin 1..Len(s)
    <3> DEFINE a == i - Len(s)
               b == j - Len(s)
    <3>1. a \in 1..Len(t) /\ b \in 1..Len(t) /\ w[i] = t[a] /\ w[j] = t[b]
      BY <1>1, <2>3
    <3>2. a < b
      BY <1>1, <1>3
    <3> HIDE DEF a, b
    <3> QED BY <3>1, <3>2
  <2>4. j \in 1..Len(s) => i \in 1..Len(s)
    BY <1>1, <1>3
  <2> QED BY <2>1, <2>2, <2>3, <2>4
<1>4. ASSUME NEW i \in 1..Len(w)
      PROVE  w[i] <= IF t = <<>> THEN c ELSE t[Len(t)]
  <2>1. CASE t = <<>>
    BY <1>1, <1>4, <2>1
  <2>2. CASE t # <<>> /\ i \in 1..Len(s)
    <3>1. Len(t) \in 1..Len(t)
      BY <1>1, <2>2
    <3> QED BY <1>1, <1>2, <2>2, <3>1
  <2>3. CASE t # <<>> /\ i \notin 1..Len(s)
    <3>1. Len(t) \in 1..Len(t) /\ i - Len(s) \in 1..Len(t) /\ w[i] = t[i - Len(s)]
      BY <1>1, <2>3
    <3>2. i - Len(s) = Len(t) \/ i - Len(s) < Len(t)
      BY <3>1
    <3>3. w[i] = t[Len(t)] \/ w[i] < t[Len(t)]
      BY <3>1, <3>2
    <3> QED BY <1>2, <2>3, <3>1, <3>3, SMTT(30)
  <2> QED BY <2>1, <2>2, <2>3
<1> QED BY <1>3, <1>4 DEF w

LEMMA SameDocs ==
  ASSUME FeedInv, Sequential, NEW f \in 1..Len(fetches), NEW r,
         fetches' = [fetches EXCEPT ![f] = r],
         r.after = fetches[f].after, r.docs = fetches[f].docs,
         r.stage # "done" => Pending(f),
         UNCHANGED <<cards, lastFetchedUser, overlapped>>
  PROVE  Sequential'
<1>1. CASE overlapped
  BY <1>1 DEF Sequential
<1>2. CASE ~overlapped
  <2>1. /\ \A i \in 1..Len(r.docs) : r.docs[i] > r.after
        /\ \A i, j \in 1..Len(r.docs) : i < j => r.docs[i] < r.docs[j]
    BY <1>2 DEF Sequential
  <2> QED BY <2>1, SequentialStep
<1> QED BY <1>1, <1>2

(* The callback of the only pending fetch: its page lies above every card,  *)
(* and its last document becomes the cursor.                                *)
LEMMA SequentialCallback ==
  ASSUME FeedInv, Sequential, NEW f \in 1..Len(fetches), Callback(f)
  PROVE  Sequential'
<1> DEFINE docs == fetches[f].docs
           r == [fetches[f] EXCEPT !.stage = "done", !.docs = <<>>,
                                   !.hud = DismissedHUD(f)]
<1>1. /\ fetches' = [fetches EXCEPT ![f] = r]
      /\ cards' = cards \o docs
      /\ lastFetchedUser' = IF docs = <<>> THEN lastFetchedUser ELSE docs[Len(docs)]
      /\ overlapped' = overlapped
      /\ Pending(f)
  BY DEF Callback, Appended, Pending
<1>2. fetches[f] \in Fetch
  BY DEF FeedInv, Typed
<1>3. r.after = fetches[f].after /\ r.docs = <<>> /\ r.stage = "done"
  BY <1>2 DEF Fetch
<1>4. docs \in Seq(Uids) /\ cards \in Seq(Uids) /\ lastFetchedUser \in Nat
  BY <1>2, PageType, UidNat DEF Fetch, FeedInv, Typed
<1> HIDE DEF r
<1>5. /\ Len(fetches') = Len(fetches)
      /\ fetches'[f] = r
      /\ \A g \in 1..Len(fetches) : g # f => fetches'[g] = fetches[g]
  BY <1>1 DEF FeedInv, Typed
<1> SUFFICES ASSUME ~overlapped PROVE Sequential'
  BY <1>1 DEF Sequential
<1>6. /\ \A i \in 1..Len(docs) : docs[i] > lastFetchedUser
      /\ \A i, j \in 1..Len(docs) : i < j => docs[i] < docs[j]
      /\ \A g \in 1..Len(fetches) : g # f => ~Pending(g)
  BY <1>1 DEF Sequential
<1>7. /\ \A i, j \in 1..Len(cards') : i < j => cards'[i] < cards'[j]
      /\ \A i \in 1..Len(cards') : cards'[i] <= lastFetchedUser'
  <2> HIDE DEF docs
  <2>1. /\ \A i, j \in 1..Len(cards) : i < j => cards[i] < cards[j]
        /\ \A i \in 1..Len(cards) : cards[i] <= lastFetchedUser
    BY DEF Sequential
  <2> QED BY <1>1, <1>4, <1>6, <2>1, IncreasingAppended
<1>8. ASSUME NEW g \in 1..Len(fetches')
      PROVE  /\ Pending(g)' => /\ g = Len(fetches')
                               /\ fetches'[g].after = lastFetchedUser'
             /\ \A i \in 1..Len(fetches'[g].docs) :
                  fetches'[g].docs[i] > fetches'[g].after
             /\ \A i, j \in 1..Len(fetches'[g].docs) :
                  i < j => fetches'[g].docs[i] < fetches'[g].docs[j]
  <2>1. CASE g = f
    BY <1>3, <1>5, <2>1 DEF Pending
  <2>2. CASE g # f
    <3>1. fetches'[g] = fetches[g] /\ ~Pending(g) /\ g \in 1..Len(fetches)
      BY <1>5, <1>6, <2>2
    <3> QED BY <3>1 DEF Sequential, Pending
  <2> QED BY <2>1, <2>2
<1> QED BY <1>7, <1>8 DEF Sequential

LEMMA SequentialInit == Init => Sequential
<1> SUFFICES ASSUME Init PROVE Sequential
  OBVIOUS
<1>1. /\ Len(fetches) = 1
      /\ fetches[1].after = NoUser
      /\ fetches[1].docs = <<>>
  BY NewFetchType DEF Init
<1> QED BY <1>1 DEF Init, Sequential

LEMMA SequentialNext == FeedInv /\ Sequential /\ [Next]_vars => Sequential'
<1> SUFFICES ASSUME FeedInv, Sequential, [Next]_vars PROVE Sequential'
  OBVIOUS
<1>0. DOMAIN fetches = 1..Len(fetches) /\ Len(fetches) \in Nat
  BY DEF FeedInv, Typed
<1>1. ASSUME Refresh PROVE Sequential'
  <2> DEFINE r == NewFetch(lastFetchedUser)
  <2>1. r.after = lastFetchedUser /\ r.docs = <<>>
    BY NewFetchType DEF FeedInv, Typed
  <2>2. /\ fetches' = Append(fetches, r)
        /\ UNCHANGED <<cards, lastFetchedUser>>
        /\ overlapped' = (overlapped \/ \E f \in 1..Len(fetches) : Pending(f))
    BY <1>0, <1>1 DEF Refresh
  <2> HIDE DEF r
  <2>3. /\ Len(fetches') = Len(fetches) + 1
        /\ fetches'[Len(fetches) + 1] = r
        /\ \A g \in 1..Len(fetches) : fetches'[g] = fetches[g]
    BY <2>2 DEF FeedInv, Typed
  <2> SUFFICES ASSUME ~overlapped', NEW g \in 1..Len(fetches')
               PROVE  /\ Pending(g)' => /\ g = Len(fetches')
                                        /\ fetches'[g].after = lastFetchedUser
                      /\ \A i \in 1..Len(fetches'[g].docs) :
                           fetches'[g].docs[i] > fetches'[g].after
                      /\ \A i, j \in 1..Len(fetches'[g].docs) :
                           i < j => fetches'[g].docs[i] < fetches'[g].docs[j]
    BY <2>2 DEF Sequential
  <2>4. ~overlapped /\ \A f \in 1..Len(fetches) : ~Pending(f)
    BY <2>2
  <2>5. CASE g \in 1..Len(fetches)
    <3>1. fetches'[g] = fetches[g]
      BY <2>3, <2>5
    <3> QED BY <2>4, <2>5, <3>1 DEF Sequential, Pending
  <2>6. CASE g = Len(fetches) + 1
    BY <2>1, <2>3, <2>6
  <2> QED BY <1>0, <2>3, <2>5, <2>6
<1>2. ASSUME NEW f \in 1..Len(fetches), NEW docs \in Pages, NEW S,
             IsPage(docs, S, fetches[f].after),
             fetches[f].stage = "waiting",
             fetches' = [fetches EXCEPT ![f] =
                           [@ EXCEPT !.stage = "answered", !.docs = docs]],
             UNCHANGED <<cards, lastFetchedUser, overlapped>>
      PROVE  Sequential'
  <2> DEFINE r == [fetches[f] EXCEPT !.stage = "answered", !.docs = docs]
  <2>1. fetches[f] \in Fetch
    BY DEF FeedInv, Typed
  <2>2. r.after = fetches[f].after /\ r.docs = docs /\ Pending(f)
    BY <1>2, <2>1 DEF Fetch, Pending
  <2>3. fetches' = [fetches EXCEPT ![f] = r]
    BY <1>2
  <2>4. /\ \A i \in 1..Len(docs) : docs[i] > fetches[f].after
        /\ \A i, j \in 1..Len(docs) : i < j => docs[i] < docs[j]
    BY <1>2 DEF IsPage
  <2> HIDE DEF r
  <2> QED BY <1>2, <2>2, <2>3, <2>4, SequentialStep
<1>3. ASSUME NEW f \in 1..Len(fetches), QueryFails(f) PROVE Sequential'
  <2> DEFINE r == [fetches[f] EXCEPT !.stage = "failed"]
  <2>1. fetches[f] \in Fetch
    BY DEF FeedInv, Typed
  <2>2. r.after = fetches[f].after /\ r.docs = fetches[f].docs /\ Pending(f)
    BY <1>3, <2>1 DEF Fetch, Pending, QueryFails
  <2>3. /\ fetches' = [fetches EXCEPT ![f] = r]
        /\ UNCHANGED <<cards, lastFetchedUser, overlapped>>
    BY <1>3 DEF QueryFails
  <2> HIDE DEF r
  <2> QED BY <2>2, <2>3, SameDocs
<1>4. ASSUME NEW f \in 1..Len(fetches), Callback(f) PROVE Sequential'
  BY <1>4, SequentialCallback
<1>5. ASSUME NEW f \in 1..Len(fetches), NEW h, HUDBecomes(f, h),
             UNCHANGED <<cards, lastFetchedUser, overlapped>>
      PROVE  Sequential'
  <2> DEFINE r == [fetches[f] EXCEPT !.hud = h]
  <2>1. fetches[f] \in Fetch
    BY DEF FeedInv, Typed
  <2>2. /\ r.after = fetches[f].after /\ r.docs = fetches[f].docs
        /\ r.stage = fetches[f].stage
    BY <2>1 DEF Fetch
  <2>3. fetches' = [fetches EXCEPT ![f] = r]
    BY <1>5 DEF HUDBecomes
  <2> HIDE DEF r
  <2> QED BY <1>5, <2>2, <2>3, SameDocs DEF Pending
<1>6. ASSUME NEW u \in Uids, UserRegisters(u) PROVE Sequential'
  BY <1>6 DEF UserRegisters, Sequential, Pending
<1>7. ASSUME NEW i \in DOMAIN deck, SwipedAway(i) PROVE Sequential'
  BY <1>7 DEF SwipedAway, Sequential, Pending
<1>8. CASE UNCHANGED vars
  BY <1>8 DEF vars, Sequential, Pending
<1>9. ASSUME NEW f \in 1..Len(fetches), System(f) PROVE Sequential'
  <2>1. CASE ServerAnswers(f)
    BY <1>2, <2>1 DEF ServerAnswers
  <2>2. CASE CacheAnswers(f)
    BY <1>2, <2>2 DEF CacheAnswers
  <2>3. CASE HUDDelay(f)
    BY <1>5, <2>3 DEF HUDDelay
  <2>4. CASE HUDFade(f)
    BY <1>5, <2>4 DEF HUDFade
  <2> QED BY <1>3, <1>4, <1>9, <2>1, <2>2, <2>3, <2>4 DEF System
<1> QED BY <1>0, <1>1, <1>6, <1>7, <1>8, <1>9 DEF Next

(* Nobody is dealt twice, and the cards are in the order of their uids, in  *)
(* every behaviour in which no two fetches overlap, answers from the cache  *)
(* included.                                                                *)
THEOREM FeedDealsNobodyTwice == Spec => []NoDuplicate
<1>1. Sequential => NoDuplicate
  BY DEF Sequential, NoDuplicate
<1> QED BY <1>1, FeedInvInit, FeedInvNext, SequentialInit, SequentialNext, PTL
        DEF Spec

-----------------------------------------------------------------------------
(* The deck refers to cards that exist.                                     *)
DeckTyped == deck \in Seq(1..Len(cards))

LEMMA SeqWidened ==
  ASSUME NEW m \in Nat, NEW n \in Nat, NEW s \in Seq(1..m)
  PROVE  s \in Seq(1..(m + n))
<1>1. \A i \in 1..Len(s) : s[i] \in 1..(m + n)
  OBVIOUS
<1> QED BY <1>1

LEMMA DealtType ==
  ASSUME NEW m \in Nat, NEW n \in Nat
  PROVE  [i \in 1..n |-> m + i] \in Seq(1..(m + n))
<1>1. \A i \in 1..n : m + i \in 1..(m + n)
  OBVIOUS
<1> QED BY <1>1

LEMMA DeckTypedNext == FeedInv /\ DeckTyped /\ [Next]_vars => DeckTyped'
<1> SUFFICES ASSUME FeedInv, DeckTyped, [Next]_vars PROVE DeckTyped'
  OBVIOUS
<1>0. DOMAIN fetches = 1..Len(fetches) /\ Len(cards) \in Nat
  BY DEF FeedInv, Typed
<1>1. ASSUME NEW f \in 1..Len(fetches), Callback(f) PROVE DeckTyped'
  <2> DEFINE docs == fetches[f].docs
             new == [i \in 1..Len(docs) |-> Len(cards) + i]
  <2>0. fetches[f] \in Fetch
    BY DEF FeedInv, Typed
  <2>1. docs \in Seq(Uids) /\ Len(docs) \in Nat
    BY <2>0, PageType DEF Fetch
  <2>2. Len(cards') = Len(cards) + Len(docs)
    BY <1>1, <2>1 DEF Callback, Appended, FeedInv, Typed
  <2>3. deck \in Seq(1..(Len(cards) + Len(docs)))
    BY <1>0, <2>1, SeqWidened DEF DeckTyped
  <2>4. new \in Seq(1..(Len(cards) + Len(docs)))
    BY <1>0, <2>1, DealtType
  <2>5. deck' = deck \o new
    BY <1>1 DEF Callback, Dealt
  <2> HIDE DEF new
  <2> QED BY <2>2, <2>3, <2>4, <2>5 DEF DeckTyped
<1>2. ASSUME NEW i \in DOMAIN deck, SwipedAway(i) PROVE DeckTyped'
  <2>1. i \in 1..Len(deck)
    BY DEF DeckTyped
  <2> DEFINE a == SubSeq(deck, 1, i - 1)
             b == SubSeq(deck, i + 1, Len(deck))
  <2>2. \A j \in 1..Len(deck) : deck[j] \in 1..Len(cards)
    BY DEF DeckTyped
  <2>3. /\ i \in Int /\ i - 1 \in Int /\ i + 1 \in Int /\ Len(deck) \in Nat
        /\ \A j \in 1..(i - 1) : j \in 1..Len(deck)
        /\ \A j \in (i + 1)..Len(deck) : j \in 1..Len(deck)
    BY <2>1 DEF DeckTyped
  <2>4. a \in Seq(1..Len(cards))
    BY <2>2, <2>3, SubSeqProperties
  <2>5. b \in Seq(1..Len(cards))
    BY <2>2, <2>3, SubSeqProperties
  <2>6. deck' = a \o b /\ cards' = cards
    BY <1>2 DEF SwipedAway
  <2> HIDE DEF a, b
  <2> QED BY <2>4, <2>5, <2>6 DEF DeckTyped
<1>3. ASSUME UNCHANGED <<cards, deck>> PROVE DeckTyped'
  BY <1>3 DEF DeckTyped
<1>4. ASSUME NEW f \in 1..Len(fetches), System(f) PROVE DeckTyped'
  BY <1>1, <1>3, <1>4 DEF System, ServerAnswers, CacheAnswers, QueryFails,
                          HUDDelay, HUDFade
<1> QED BY <1>0, <1>2, <1>3, <1>4 DEF Next, Refresh, UserRegisters, vars

(* Every variable keeps its type, for every instance.                       *)
THEOREM FeedTypeOK == Spec => []TypeOK
<1>1. Init => DeckTyped
  BY DEF Init, DeckTyped
<1>2. FeedInv /\ DeckTyped => TypeOK
  BY DEF FeedInv, Typed, DeckTyped, TypeOK
<1> QED BY <1>1, <1>2, FeedInvInit, FeedInvNext, DeckTypedNext, PTL DEF Spec

-----------------------------------------------------------------------------
(* Cards are dealt behind the deck's, and have higher indices than all of   *)
(* them; taking one out keeps the order of the others.                      *)
LEMMA DeckInOrderNext ==
  FeedInv /\ DeckTyped /\ DeckInOrder /\ [Next]_vars => DeckInOrder'
<1> SUFFICES ASSUME FeedInv, DeckTyped, DeckInOrder, [Next]_vars PROVE DeckInOrder'
  OBVIOUS
<1>0. /\ DOMAIN fetches = 1..Len(fetches) /\ Len(cards) \in Nat
      /\ DOMAIN deck = 1..Len(deck)
      /\ deck \in Seq(1..Len(cards)) /\ Len(deck) \in Nat
      /\ \A i \in 1..Len(deck) : deck[i] \in Nat /\ deck[i] <= Len(cards)
  BY DEF FeedInv, Typed, DeckTyped
<1>1. ASSUME NEW f \in 1..Len(fetches), Callback(f) PROVE DeckInOrder'
  <2> DEFINE docs == fetches[f].docs
             new == [i \in 1..Len(docs) |-> Len(cards) + i]
  <2>0. fetches[f] \in Fetch
    BY DEF FeedInv, Typed
  <2>1. docs \in Seq(Uids) /\ Len(docs) \in Nat
    BY <2>0, PageType DEF Fetch
  <2>2. new \in Seq(Nat) /\ Len(new) = Len(docs)
        /\ \A i \in 1..Len(docs) : new[i] = Len(cards) + i
    BY <1>0, <2>1
  <2>3. deck \in Seq(Nat) /\ deck' = deck \o new
    BY <1>0, <1>1 DEF Callback, Dealt
  <2> HIDE DEF new, docs
  <2>4. /\ Len(deck') = Len(deck) + Len(docs)
        /\ \A k \in 1..(Len(deck) + Len(docs)) :
             deck'[k] = IF k <= Len(deck) THEN deck[k] ELSE new[k - Len(deck)]
    BY ONLY <2>2, <2>3, Concatenation
  <2>5. ASSUME NEW i \in 1..Len(deck'), NEW j \in 1..Len(deck'), i < j
        PROVE  deck'[i] < deck'[j]
    <3>0. i \in 1..(Len(deck) + Len(docs)) /\ j \in 1..(Len(deck) + Len(docs))
      BY <2>4
    <3>1. CASE j <= Len(deck)
      <4>1. i \in 1..Len(deck) /\ j \in 1..Len(deck) /\ i <= Len(deck)
        BY <3>0, <3>1, <2>5, <1>0
      <4>2. deck'[i] = deck[i] /\ deck'[j] = deck[j]
        BY <2>4, <3>0, <3>1, <4>1, Zenon
      <4> QED BY <4>1, <4>2, <2>5 DEF DeckInOrder
    <3>2. CASE ~(j <= Len(deck))
      <4>1. j - Len(deck) \in 1..Len(docs)
        BY <3>0, <3>2, <1>0, <2>1
      <4>2. deck'[j] = Len(cards) + (j - Len(deck))
        BY <2>2, <2>4, <3>0, <3>2, <4>1, Zenon
      <4>3. CASE i <= Len(deck)
        <5>1. i \in 1..Len(deck) /\ deck'[i] = deck[i]
          BY <2>4, <3>0, <4>3, <1>0
        <5> QED BY <5>1, <4>1, <4>2, <1>0
      <4>4. CASE ~(i <= Len(deck))
        <5>1. i - Len(deck) \in 1..Len(docs)
          BY <3>0, <4>4, <1>0, <2>1
        <5>2. deck'[i] = Len(cards) + (i - Len(deck))
          BY <2>2, <2>4, <3>0, <4>4, <5>1, Zenon
        <5> QED BY <5>1, <5>2, <4>1, <4>2, <2>5, <1>0
      <4> QED BY <4>3, <4>4
    <3> QED BY <3>1, <3>2
  <2> QED BY <2>5 DEF DeckInOrder
<1>2. ASSUME NEW i \in 1..Len(deck), SwipedAway(i) PROVE DeckInOrder'
  <2>0. deck' = SubSeq(deck, 1, i - 1) \o SubSeq(deck, i + 1, Len(deck))
    BY <1>2, Zenon DEF SwipedAway
  <2> DEFINE S == 1..Len(cards)
  <2>a. deck \in Seq(S)
    BY <1>0
  <2> HIDE DEF S
  <2>1. /\ deck' \in Seq(S)
        /\ Len(deck') = Len(deck) - 1
        /\ \A k \in 1..(Len(deck) - 1) : deck'[k] = IF k < i THEN deck[k] ELSE deck[k + 1]
    BY ONLY <1>2, <2>0, <2>a, TakenOut, ZenonT(60)
  <2>2. ASSUME NEW k \in 1..Len(deck')
        PROVE  \E n \in 1..Len(deck) : /\ n = IF k < i THEN k ELSE k + 1
                                       /\ deck'[k] = deck[n]
    <3>1. k \in 1..(Len(deck) - 1) /\ k \in Nat /\ i \in Nat /\ Len(deck) \in Nat
      BY <1>0, <2>1
    <3>2. CASE k < i
      <4>1. k \in 1..Len(deck) /\ deck'[k] = deck[k]
        BY ONLY <2>1, <3>1, <3>2
      <4> QED BY <3>2, <4>1
    <3>3. CASE ~(k < i)
      <4>1. k + 1 \in 1..Len(deck) /\ deck'[k] = deck[k + 1]
        BY ONLY <2>1, <3>1, <3>3
      <4> QED BY <3>3, <4>1
    <3> QED BY <3>2, <3>3
  <2>3. ASSUME NEW k \in 1..Len(deck'), NEW l \in 1..Len(deck'), k < l
        PROVE  deck'[k] < deck'[l]
    <3>1. PICK n \in 1..Len(deck) : /\ n = IF k < i THEN k ELSE k + 1
                                    /\ deck'[k] = deck[n]
      BY <2>2
    <3>2. PICK p \in 1..Len(deck) : /\ p = IF l < i THEN l ELSE l + 1
                                    /\ deck'[l] = deck[p]
      BY <2>2
    <3>3. k \in Nat /\ l \in Nat /\ i \in Nat
      BY <1>0, <2>1
    <3>4. n < p
      BY ONLY <2>3, <3>1, <3>2, <3>3
    <3> QED BY <3>1, <3>2, <3>4 DEF DeckInOrder
  <2> QED BY <2>3 DEF DeckInOrder
<1>3. ASSUME UNCHANGED deck PROVE DeckInOrder'
  BY <1>3 DEF DeckInOrder
<1>4. ASSUME NEW f \in 1..Len(fetches), System(f) PROVE DeckInOrder'
  BY <1>1, <1>3, <1>4 DEF System, ServerAnswers, CacheAnswers, QueryFails,
                          HUDDelay, HUDFade
<1> QED BY <1>0, <1>2, <1>3, <1>4 DEF Next, Refresh, UserRegisters, vars

(* addSubview(_:) and sendSubviewToBack(_:) in fetchUsers: every card       *)
(* lies in front of the ones fetched after it, whatever is swiped away.     *)
THEOREM FeedDeckInOrder == Spec => []DeckInOrder
<1>1. Init => DeckTyped /\ DeckInOrder
  BY DEF Init, DeckTyped, DeckInOrder
<1> QED BY <1>1, FeedInvInit, FeedInvNext, DeckTypedNext, DeckInOrderNext, PTL
        DEF Spec

-----------------------------------------------------------------------------
(* The HUD of a fetch that waits for its callback is shown, or fading in,   *)
(* and nothing that would dismiss it is pending.                            *)
Shielded == \A f \in 1..Len(fetches) : Pending(f) => StaysShown(fetches[f].hud)

LEMMA NewStaysShown == \A after : StaysShown(NewFetch(after).hud)
<1> DEFINE h == ShowInView(NewHUD, TRUE)
<1>1. /\ h.superview /\ h.timers = [a \in BOOLEAN |-> 0]
      /\ ~h.dismissAfter /\ h.presenting
  BY DEF ShowInView, FadeIn, NewHUD
<1>2. \A after : NewFetch(after).hud = h
  BY DEF NewFetch
<1> HIDE DEF h
<1> QED BY <1>1, <1>2 DEF StaysShown

(* A step on one fetch.                                                     *)
LEMMA ShieldedStep ==
  ASSUME FeedInv, Shielded, NEW f \in 1..Len(fetches), NEW r,
         fetches' = [fetches EXCEPT ![f] = r],
         r.stage # "done" => StaysShown(r.hud)
  PROVE  Shielded'
<1>1. /\ Len(fetches') = Len(fetches)
      /\ fetches'[f] = r
      /\ \A g \in 1..Len(fetches) : g # f => fetches'[g] = fetches[g]
  BY DEF FeedInv, Typed
<1>2. ASSUME NEW g \in 1..Len(fetches), Pending(g)' PROVE StaysShown(fetches'[g].hud)
  <2>1. CASE g = f
    BY <1>1, <1>2, <2>1 DEF Pending
  <2>2. CASE g # f
    <3>1. fetches'[g] = fetches[g]
      BY <1>1, <2>2
    <3> QED BY <1>2, <3>1 DEF Shielded, Pending
  <2> QED BY <2>1, <2>2
<1> QED BY <1>1, <1>2 DEF Shielded

LEMMA ShieldedNext == FeedInv /\ Shielded /\ [Next]_vars => Shielded'
<1> SUFFICES ASSUME FeedInv, Shielded, [Next]_vars PROVE Shielded'
  OBVIOUS
<1>0. /\ DOMAIN fetches = 1..Len(fetches) /\ Len(fetches) \in Nat
      /\ \A f \in 1..Len(fetches) : fetches[f] \in Fetch /\ Coherent(fetches[f].hud)
  BY DEF FeedInv, Typed
<1>1. ASSUME Refresh PROVE Shielded'
  <2> DEFINE r == NewFetch(lastFetchedUser)
  <2>1. fetches' = Append(fetches, r) /\ StaysShown(r.hud)
    BY <1>1, NewStaysShown DEF Refresh
  <2> HIDE DEF r
  <2>2. /\ Len(fetches') = Len(fetches) + 1
        /\ fetches'[Len(fetches) + 1] = r
        /\ \A g \in 1..Len(fetches) : fetches'[g] = fetches[g]
    BY <2>1 DEF FeedInv, Typed
  <2>3. ASSUME NEW g \in 1..Len(fetches'), Pending(g)' PROVE StaysShown(fetches'[g].hud)
    <3>1. CASE g \in 1..Len(fetches)
      <4>1. fetches'[g] = fetches[g]
        BY <2>2, <3>1
      <4> QED BY <2>3, <3>1, <4>1 DEF Shielded, Pending
    <3>2. CASE g = Len(fetches) + 1
      BY <2>1, <2>2, <3>2
    <3> QED BY <1>0, <2>2, <3>1, <3>2
  <2> QED BY <2>3 DEF Shielded
<1>2. ASSUME NEW f \in 1..Len(fetches), NEW docs, Pending(f),
             fetches' = [fetches EXCEPT ![f] =
                           [@ EXCEPT !.stage = "answered", !.docs = docs]]
      PROVE  Shielded'
  <2> DEFINE r == [fetches[f] EXCEPT !.stage = "answered", !.docs = docs]
  <2>1. fetches' = [fetches EXCEPT ![f] = r] /\ r.hud = fetches[f].hud
    BY <1>0, <1>2 DEF Fetch
  <2> HIDE DEF r
  <2> QED BY <1>2, <2>1, ShieldedStep DEF Shielded
<1>3. ASSUME NEW f \in 1..Len(fetches), QueryFails(f) PROVE Shielded'
  <2> DEFINE r == [fetches[f] EXCEPT !.stage = "failed"]
  <2>1. fetches' = [fetches EXCEPT ![f] = r] /\ r.hud = fetches[f].hud /\ Pending(f)
    BY <1>0, <1>3 DEF Fetch, QueryFails, Pending
  <2> HIDE DEF r
  <2> QED BY <2>1, ShieldedStep DEF Shielded
<1>4. ASSUME NEW f \in 1..Len(fetches), Callback(f) PROVE Shielded'
  <2> DEFINE r == [fetches[f] EXCEPT !.stage = "done", !.docs = <<>>,
                                     !.hud = DismissedHUD(f)]
  <2>1. fetches' = [fetches EXCEPT ![f] = r] /\ r.stage = "done"
    BY <1>0, <1>4 DEF Fetch, Callback
  <2> HIDE DEF r
  <2> QED BY <2>1, ShieldedStep
<1>5. ASSUME NEW f \in 1..Len(fetches), HUDDelay(f) PROVE Shielded'
  <2> DEFINE r == [fetches[f] EXCEPT !.hud = TimerFires(fetches[f].hud, TRUE)]
  <2>1. fetches' = [fetches EXCEPT ![f] = r] /\ r.stage = fetches[f].stage
    BY <1>0, <1>5 DEF Fetch, HUDDelay, HUDBecomes
  <2>2. ~Pending(f)
    <3>1. fetches[f].hud.timers[TRUE] > 0
      BY <1>5 DEF HUDDelay
    <3>2. StaysShown(fetches[f].hud) => fetches[f].hud.timers[TRUE] = 0
      BY DEF StaysShown
    <3>3. ~(0 > 0)
      OBVIOUS
    <3>4. ~StaysShown(fetches[f].hud)
      BY <3>1, <3>2, <3>3
    <3> QED BY <3>4 DEF Shielded
  <2> HIDE DEF r
  <2> QED BY <2>1, <2>2, ShieldedStep DEF Pending
<1>6. ASSUME NEW f \in 1..Len(fetches), HUDFade(f) PROVE Shielded'
  <2>1. PICK in \in BOOLEAN :
          /\ FadeOwed(fetches[f].hud, in)
          /\ HUDBecomes(f, AnimationFinished(fetches[f].hud, in))
    BY <1>6 DEF HUDFade
  <2> DEFINE h == AnimationFinished(fetches[f].hud, in)
             r == [fetches[f] EXCEPT !.hud = h]
  <2>2. /\ fetches' = [fetches EXCEPT ![f] = r]
        /\ r.stage = fetches[f].stage
        /\ r.hud = h
    BY <1>0, <2>1 DEF Fetch, HUDBecomes
  <2>3. Pending(f) => StaysShown(h)
    BY <1>0, <2>1, StaysShownFaded DEF Shielded
  <2> HIDE DEF r, h
  <2> QED BY <2>2, <2>3, ShieldedStep DEF Pending
<1>7. ASSUME UNCHANGED fetches PROVE Shielded'
  BY <1>7 DEF Shielded, Pending
<1>8. ASSUME NEW f \in 1..Len(fetches), System(f) PROVE Shielded'
  <2>1. CASE ServerAnswers(f)
    BY <1>2, <2>1 DEF ServerAnswers, Pending
  <2>2. CASE CacheAnswers(f)
    BY <1>2, <2>2 DEF CacheAnswers, Pending
  <2> QED BY <1>3, <1>4, <1>5, <1>6, <1>8, <2>1, <2>2 DEF System
<1> QED BY <1>0, <1>1, <1>7, <1>8 DEF Next, UserRegisters, SwipedAway, vars

(* Only Refresh starts a fetch, and it starts one only while no HUD at rest *)
(* takes the tap.                                                           *)
LEMMA OnlyRefreshStarts ==
  FeedInv /\ Shielded /\ [Next]_vars =>
    (Len(fetches') > Len(fetches) =>
       \A f \in DOMAIN fetches : Pending(f) =>
         fetches[f].hud.transitioning /\ fetches[f].hud.presenting)
<1> SUFFICES ASSUME FeedInv, Shielded, [Next]_vars, Len(fetches') > Len(fetches),
                    NEW f \in DOMAIN fetches, Pending(f)
             PROVE  fetches[f].hud.transitioning /\ fetches[f].hud.presenting
  OBVIOUS
<1>0. DOMAIN fetches = 1..Len(fetches) /\ Len(fetches) \in Nat
  BY DEF FeedInv, Typed
<1>1. CASE Refresh
  <2>1. ~BlocksTouches(fetches[f].hud) /\ StaysShown(fetches[f].hud)
    BY <1>0, <1>1 DEF Refresh, Shielded
  <2> QED BY <2>1 DEF BlocksTouches, StaysShown
<1>2. ASSUME NEW g \in 1..Len(fetches), NEW r, fetches' = [fetches EXCEPT ![g] = r]
      PROVE  FALSE
  <2>1. Len(fetches') = Len(fetches)
    BY <1>2 DEF FeedInv, Typed
  <2> QED BY <1>0, <2>1
<1>3. ASSUME NEW g \in 1..Len(fetches), System(g) PROVE FALSE
  BY <1>2, <1>3 DEF System, ServerAnswers, CacheAnswers, QueryFails, Callback,
                    HUDDelay, HUDFade, HUDBecomes
<1>4. ASSUME UNCHANGED fetches PROVE FALSE
  BY <1>0, <1>4
<1> QED BY <1>0, <1>1, <1>3, <1>4 DEF Next, UserRegisters, SwipedAway, vars

(* Fetches overlap only by a tap during a fade in, in every behaviour.      *)
THEOREM FeedOverlap == Spec => OverlapOnlyDuringFadeIn
<1>1. Init => Shielded
  BY NewStaysShown DEF Init, Shielded
<1> QED BY <1>1, FeedInvInit, FeedInvNext, ShieldedNext, OnlyRefreshStarts, PTL
        DEF Spec, OverlapOnlyDuringFadeIn
=============================================================================
