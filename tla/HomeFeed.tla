------------------------------ MODULE HomeFeed ------------------------------
(* HomeViewController's feed: pages of the Firestore collection "users",    *)
(* fetched two documents at a time behind a progress HUD, become card view  *)
(* models and cards of the deck.                                            *)
(*                                                                          *)
(* Every handler runs on the main thread, so it is one atomic step.  What   *)
(* interleaves is the user's taps on the reload button, the evaluation of   *)
(* each query, the arrival of each completion block, and the life of each   *)
(* fetch's own HUD.  A HUD takes the taps only while it is at rest: the     *)
(* reload button can be tapped again during a fade, so fetches may overlap. *)
EXTENDS JGProgressHUD, Sequences, FiniteSets

CONSTANTS
  Uids,        \* document uids, as the numbers of their place in the order
  PageSize,    \* limit(to:) of the query
  MaxFetches,  \* bound: fetches of a behaviour
  MaxSwipes    \* bound: cards swiped away

NoUser == 0    \* lastFetchedUser?.uid ?? "": "" sorts before every uid

ASSUME FeedAssumption ==
  /\ Uids \subseteq Nat \ {NoUser}
  /\ PageSize \in Nat \ {0}
  /\ MaxFetches \in Nat
  /\ MaxSwipes \in Nat

VARIABLES
  users,            \* the uids in the collection, on the server
  cached,           \* those in Firestore's local cache
  cards,            \* uids of the card view models, in order
  lastFetchedUser,  \* uid of the user fetched last, or NoUser
  deck,             \* the deck's cards, front first, as indices into cards
  fetches,          \* every fetch so far, in the order they were started
  atLaunch,         \* history: users when the screen was loaded
  offline,          \* history: a fetch was answered from the cache
  overlapped        \* history: a fetch was started before another's callback

vars == <<users, cached, cards, lastFetchedUser, deck, fetches, atLaunch,
          offline, overlapped>>

Elements(s) == {s[i] : i \in 1..Len(s)}

Pages == UNION {[1..n -> Uids] : n \in 0..PageSize}

Stages == {"waiting", "answered", "failed", "done"}

Fetch == [after: Uids \cup {NoUser}, stage: Stages, docs: Pages, hud: HUDState]

TypeOK ==
  /\ users \subseteq Uids
  /\ cached \subseteq users
  /\ cards \in Seq(Uids)
  /\ lastFetchedUser \in Uids \cup {NoUser}
  /\ deck \in Seq(1..Len(cards))
  /\ fetches \in Seq(Fetch)
  /\ atLaunch \subseteq users
  /\ offline \in BOOLEAN
  /\ overlapped \in BOOLEAN

(* The query with start(at:) in place of start(after:).                     *)
IsPageInclusive(docs, S, after) ==
  /\ \A i \in 1..Len(docs) : docs[i] \in S /\ docs[i] >= after
  /\ \A i, j \in 1..Len(docs) : i < j => docs[i] < docs[j]
  /\ \A u \in S : u >= after =>
       \/ u \in Elements(docs)
       \/ Len(docs) = PageSize /\ u > docs[PageSize]

(* The query without order(by:): some page of documents after the cursor,   *)
(* not the next one.                                                        *)
IsPageUnordered(docs, S, after) ==
  /\ \A i \in 1..Len(docs) : docs[i] \in S /\ docs[i] > after
  /\ \A i, j \in 1..Len(docs) : i < j => docs[i] < docs[j]
  /\ Len(docs) < PageSize =>
       \A u \in S : u > after => u \in Elements(docs)

(* What the query returns over the documents S: ordered by uid, those after *)
(* the cursor, the first PageSize of them.                                  *)
IsPage(docs, S, after) ==
  /\ \A i \in 1..Len(docs) : docs[i] \in S /\ docs[i] > after
  /\ \A i, j \in 1..Len(docs) : i < j => docs[i] < docs[j]
  /\ \A u \in S : u > after =>
       \/ u \in Elements(docs)
       \/ Len(docs) = PageSize /\ u > docs[PageSize]

(* fetchUsers: a HUD of its own is shown and the query starts after the     *)
(* user fetched last, as it is now.                                         *)
NewFetch(after) ==
  [after |-> after, stage |-> "waiting", docs |-> <<>>,
   hud |-> ShowInView(NewHUD, TRUE)]

Pending(f) == fetches[f].stage # "done"

(* viewDidLoad has run: its fetch is the first.                             *)
Init ==
  /\ users \in SUBSET Uids
  /\ cached \in SUBSET users
  /\ cards = <<>>
  /\ lastFetchedUser = NoUser
  /\ deck = <<>>
  /\ fetches = <<NewFetch(NoUser)>>
  /\ atLaunch = users
  /\ offline = FALSE
  /\ overlapped = FALSE

(* refreshHandle: the tap reaches the button when no HUD takes it.          *)
Refresh ==
  /\ Len(fetches) < MaxFetches
  /\ \A f \in DOMAIN fetches : ~BlocksTouches(fetches[f].hud)
  /\ fetches' = Append(fetches, NewFetch(lastFetchedUser))
  /\ overlapped' = (overlapped \/ \E f \in DOMAIN fetches : Pending(f))
  /\ UNCHANGED <<users, cached, cards, lastFetchedUser, deck, atLaunch, offline>>

(* The server evaluates the query; the documents enter the cache.           *)
ServerAnswers(f) ==
  /\ fetches[f].stage = "waiting"
  /\ \E docs \in Pages :
       /\ IsPage(docs, users, fetches[f].after)
       /\ fetches' = [fetches EXCEPT ![f] = [@ EXCEPT !.stage = "answered", !.docs = docs]]
       /\ cached' = cached \cup Elements(docs)
  /\ UNCHANGED <<users, cards, lastFetchedUser, deck, atLaunch, offline, overlapped>>

(* The client is offline: getDocuments falls back on the local cache, which *)
(* holds what earlier reads, of this launch or another, have left there.    *)
CacheAnswers(f) ==
  /\ fetches[f].stage = "waiting"
  /\ \E docs \in Pages :
       /\ IsPage(docs, cached, fetches[f].after)
       /\ fetches' = [fetches EXCEPT ![f] = [@ EXCEPT !.stage = "answered", !.docs = docs]]
  /\ offline' = TRUE
  /\ UNCHANGED <<users, cached, cards, lastFetchedUser, deck, atLaunch, overlapped>>

QueryFails(f) ==
  /\ fetches[f].stage = "waiting"
  /\ fetches' = [fetches EXCEPT ![f] = [@ EXCEPT !.stage = "failed"]]
  /\ UNCHANGED <<users, cached, cards, lastFetchedUser, deck, atLaunch, offline,
                 overlapped>>

(* The deck when each new card is left in front of the older ones.          *)
DealtInFront(n) == [i \in 1..n |-> Len(cards) + n + 1 - i] \o deck

(* The deck after n new cards, each sent to the back of it.                 *)
Dealt(n) == deck \o [i \in 1..n |-> Len(cards) + i]

(* The cards when the loop only deals them and keeps no view models.        *)
NotAppended(docs) == cards

Appended(docs) == cards \o docs

(* The HUD when it is dismissed only with the documents, not on an error.   *)
AnsweredHUD(f) == IF fetches[f].stage = "failed" THEN fetches[f].hud
                  ELSE DismissAfterDelay(fetches[f].hud, TRUE)

(* The first statement of the completion block: hud.dismiss(afterDelay: 1). *)
DismissedHUD(f) == DismissAfterDelay(fetches[f].hud, TRUE)

(* The completion block of getDocuments, for a page or for an error (which  *)
(* is only printed).                                                        *)
Callback(f) ==
  LET docs == fetches[f].docs IN
  /\ fetches[f].stage \in {"answered", "failed"}
  /\ fetches' = [fetches EXCEPT ![f] =
                    [@ EXCEPT !.stage = "done", !.docs = <<>>, !.hud = DismissedHUD(f)]]
  /\ cards' = Appended(docs)
  /\ deck' = Dealt(Len(docs))
  /\ lastFetchedUser' = IF docs = <<>> THEN lastFetchedUser ELSE docs[Len(docs)]
  /\ UNCHANGED <<users, cached, atLaunch, offline, overlapped>>

(* The dispatch_after block and the completions of the fades of a HUD.      *)
HUDBecomes(f, h) == fetches' = [fetches EXCEPT ![f] = [@ EXCEPT !.hud = h]]

HUDDelay(f) ==
  /\ fetches[f].hud.timers[TRUE] > 0
  /\ HUDBecomes(f, TimerFires(fetches[f].hud, TRUE))
  /\ UNCHANGED <<users, cached, cards, lastFetchedUser, deck, atLaunch, offline,
                 overlapped>>

HUDFade(f) ==
  /\ \E in \in BOOLEAN :
       /\ FadeOwed(fetches[f].hud, in)
       /\ HUDBecomes(f, AnimationFinished(fetches[f].hud, in))
  /\ UNCHANGED <<users, cached, cards, lastFetchedUser, deck, atLaunch, offline,
                 overlapped>>

(* Someone registers, on this device or another: the collection grows.      *)
UserRegisters(u) ==
  /\ u \in Uids \ users
  /\ users' = users \cup {u}
  /\ UNCHANGED <<cached, cards, lastFetchedUser, deck, fetches, atLaunch, offline,
                 overlapped>>

(* A swipe's animation has ended and its card leaves the deck.              *)
SwipedAway(i) ==
  /\ Len(cards) - Len(deck) < MaxSwipes
  /\ deck' = SubSeq(deck, 1, i - 1) \o SubSeq(deck, i + 1, Len(deck))
  /\ UNCHANGED <<users, cached, cards, lastFetchedUser, fetches, atLaunch, offline,
                 overlapped>>

System(f) == \/ ServerAnswers(f) \/ CacheAnswers(f) \/ QueryFails(f)
             \/ Callback(f) \/ HUDDelay(f) \/ HUDFade(f)

Next == \/ Refresh
        \/ \E f \in DOMAIN fetches : System(f)
        \/ \E u \in Uids : UserRegisters(u)
        \/ \E i \in DOMAIN deck : SwipedAway(i)

(* Firestore answers every get, from the server, from the cache or with an  *)
(* error: so it does on a network that does not hang (see GetDocuments).    *)
(* UIKit and the main queue run the blocks they were given.                 *)
Fairness == \A f \in 1..MaxFetches :
              WF_vars(f \in DOMAIN fetches /\ System(f))

Spec == Init /\ [][Next]_vars /\ Fairness

-----------------------------------------------------------------------------
(* Paging misses nobody: whoever was registered when the screen was loaded  *)
(* and does not sort after the user fetched last has a card, whatever the   *)
(* order in which overlapping fetches are answered, unless a page came from *)
(* the cache.                                                               *)
NoSkippedUser ==
  ~offline => \A u \in atLaunch : u <= lastFetchedUser => u \in Elements(cards)

(* Without overlapping fetches nobody is dealt twice, and the cards are in  *)
(* the order of their uids: each page starts where the last one ended.      *)
NoDuplicate ==
  ~overlapped => \A i, j \in 1..Len(cards) : i < j => cards[i] < cards[j]

(* The deck shows the cards in the order they were fetched: every card lies *)
(* in front of the ones fetched after it.                                   *)
DeckInOrder == \A i, j \in 1..Len(deck) : i < j => deck[i] < deck[j]

(* Fetches overlap only by a tap during a fade in: a new fetch starts while *)
(* an older one still waits for its callback only if the older one's HUD is *)
(* on its way in.  Once that HUD is at rest it shields the reload button    *)
(* until the callback has run.                                              *)
OverlapOnlyDuringFadeIn ==
  [][Len(fetches') > Len(fetches) =>
       \A f \in DOMAIN fetches : Pending(f) =>
         fetches[f].hud.transitioning /\ fetches[f].hud.presenting]_vars

(* Every fetch's HUD leaves the screen, and with it what keeps the user     *)
(* from tapping anything, however the fetch ends.                           *)
HUDLeaves ==
  \A f \in 1..MaxFetches :
    f \in DOMAIN fetches ~>
      (f \in DOMAIN fetches /\ ~Pending(f) /\ ~fetches[f].hud.superview)
=============================================================================
