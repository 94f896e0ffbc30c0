-------------------------------- MODULE CardDeck --------------------------------
(* cardDesckView and the CardViews in it: a card follows the finger that    *)
(* drags it, springs back when it is let go near its place and flies off    *)
(* when it is let go further away; the completion block of that animation   *)
(* takes it out of the deck.                                                *)
(*                                                                          *)
(* The gestures of several fingers, the completion blocks and the pages of  *)
(* the feed interleave on the main thread.  A card's place is its transform *)
(* in the model layer, which the animation block sets at once.              *)
EXTENDS Sequences, Naturals

CONSTANTS
  MaxCards,  \* bound: cards dealt
  PageSize   \* cards dealt at once, at most

ASSUME CardDeckAssumption == MaxCards \in Nat /\ PageSize \in Nat

VARIABLES
  deck,      \* cardDesckView's cards, front first
  dealt,     \* how many cards have been dealt
  place,     \* each card's transform: identity, moved by a drag, flown away
  spring,    \* each card's animation whose completion block has not run
  cut,       \* the cards whose animation has been removed
  finger,    \* the cards a pan gesture is in progress on
  cancelled  \* history: the cards whose last gesture was cancelled

vars == <<deck, dealt, place, spring, cut, finger, cancelled>>

Cards == 1..MaxCards

InDeck == {deck[i] : i \in 1..Len(deck)}

Animated == {c \in Cards : spring[c] # "none"}

TypeOK ==
  /\ deck \in Seq(Cards)
  /\ dealt \in 0..MaxCards
  /\ place \in [Cards -> {"home", "moved", "away"}]
  /\ spring \in [Cards -> {"none", "back", "away"}]
  /\ Animated \subseteq InDeck
  /\ cut \subseteq Animated
  /\ finger \subseteq InDeck
  /\ cancelled \subseteq Cards

Init ==
  /\ deck = <<>>
  /\ dealt = 0
  /\ place = [c \in Cards |-> "home"]
  /\ spring = [c \in Cards |-> "none"]
  /\ cut = {} /\ finger = {} /\ cancelled = {}

(* A page of the feed with each card left in front.                         *)
DealInFront(n) ==
  /\ dealt + n <= MaxCards
  /\ deck' = [i \in 1..n |-> dealt + n + 1 - i] \o deck
  /\ dealt' = dealt + n
  /\ UNCHANGED <<place, spring, cut, finger, cancelled>>

(* A page of the feed: each card is added and sent to the back.             *)
Deal(n) ==
  /\ dealt + n <= MaxCards
  /\ deck' = deck \o [i \in 1..n |-> dealt + i]
  /\ dealt' = dealt + n
  /\ UNCHANGED <<place, spring, cut, finger, cancelled>>

-----------------------------------------------------------------------------
(* UIKit delivers no touches to a view that an animation moves, unless the  *)
(* animation allows it.                                                     *)
AcceptsAlways(c) == TRUE
Accepts(c) == spring[c] = "none"

(* A card at home hides the cards behind it.                                *)
Exposed(i) == \A j \in 1..(i - 1) : place[deck[j]] # "home" \/ ~Accepts(deck[j])

(* panHandle, began, when removing the animations drops their completions.  *)
BeganDropping(i) ==
  /\ deck[i] \notin finger /\ Accepts(deck[i]) /\ Exposed(i)
  /\ finger' = finger \cup {deck[i]}
  /\ spring' = [c \in Cards |-> "none"]
  /\ UNCHANGED <<deck, dealt, place, cut, cancelled>>

(* panHandle, began: every card of the deck loses its animation, and the    *)
(* completion blocks of those that had one will run at once.                *)
Began(i) ==
  /\ deck[i] \notin finger /\ Accepts(deck[i]) /\ Exposed(i)
  /\ finger' = finger \cup {deck[i]}
  /\ cut' = cut \cup Animated
  /\ UNCHANGED <<deck, dealt, place, spring, cancelled>>

(* handleChanged.                                                           *)
Changed(c) ==
  /\ c \in finger
  /\ place' = [place EXCEPT ![c] = "moved"]
  /\ UNCHANGED <<deck, dealt, spring, cut, finger, cancelled>>

ReleasedTo(c, away) == IF away THEN "away" ELSE "home"

(* handleEnded: beyond the threshold the card flies off, else it springs    *)
(* back.                                                                    *)
Ended(c, away) ==
  /\ c \in finger
  /\ finger' = finger \ {c}
  /\ place' = [place EXCEPT ![c] = ReleasedTo(c, away)]
  /\ spring' = [spring EXCEPT ![c] = IF away THEN "away" ELSE "back"]
  /\ cancelled' = cancelled \ {c}
  /\ UNCHANGED <<deck, dealt, cut>>

(* panHandle has no case for a gesture that the system cancels (or that     *)
(* fails): the card stays where the finger left it.                         *)
Cancelled(c) ==
  /\ c \in finger
  /\ finger' = finger \ {c}
  /\ cancelled' = cancelled \cup {c}
  /\ UNCHANGED <<deck, dealt, place, spring, cut>>

Without(i) == SubSeq(deck, 1, i - 1) \o SubSeq(deck, i + 1, Len(deck))

Removes(c) == spring[c] = "away"

(* The completion block, which does not look at its argument.               *)
Completion(i) ==
  LET c == deck[i] IN
  /\ spring[c] # "none"
  /\ deck' = IF Removes(c) THEN Without(i) ELSE deck
  /\ place' = [place EXCEPT ![c] = "home"]
  /\ spring' = [spring EXCEPT ![c] = "none"]
  /\ cut' = cut \ {c}
  /\ UNCHANGED <<dealt, finger, cancelled>>

Next == \/ \E n \in 1..PageSize : Deal(n)
        \/ \E i \in 1..Len(deck) : Began(i) \/ Completion(i)
        \/ \E c \in Cards : \/ Changed(c) \/ Cancelled(c)
                            \/ \E away \in BOOLEAN : Ended(c, away)

(* An animation ends, or is removed, and then its completion block runs.    *)
Fairness == \A c \in Cards :
              WF_vars(\E i \in 1..Len(deck) : deck[i] = c /\ Completion(i))

Spec == Init /\ [][Next]_vars /\ Fairness

-----------------------------------------------------------------------------
(* No ghosts: a card that lies off the screen is one whose completion block *)
(* is still to take it out of the deck, even when another card's gesture    *)
(* has removed its animation.                                               *)
NoGhost == \A c \in InDeck : place[c] = "away" => spring[c] = "away"

(* A card is not torn from under a finger: no animation that would bring it *)
(* home or remove it is pending while it is dragged.                        *)
HeldUndisturbed == \A c \in finger : spring[c] = "none"

(* A card that nobody holds and nothing animates is in its place, unless    *)
(* the last gesture on it was cancelled.                                    *)
AstrayOnlyIfCancelled ==
  \A c \in InDeck : c \notin finger /\ spring[c] = "none" =>
    place[c] = "home" \/ c \in cancelled

(* Every card is where somebody will find it: no ghosts off the screen, and *)
(* none left askew but by a gesture that was cancelled.                     *)
CardsSettled == NoGhost /\ AstrayOnlyIfCancelled

(* The deck keeps the promise of module Deck, with a swipe being a release  *)
(* beyond the threshold.                                                    *)
D == INSTANCE Deck WITH leaving <- {c \in Cards : spring[c] = "away"}

DeckKept == D!Spec
=============================================================================
