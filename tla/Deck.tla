---------------------------------- MODULE Deck ----------------------------------
(* What a deck of cards promises to the rest of the app: cards join it at   *)
(* the back, in the order they are dealt, and a card leaves it if and only  *)
(* if the user has swiped it, once, from wherever it lies by then.          *)
EXTENDS Sequences, Naturals

CONSTANTS
  MaxCards,  \* bound: cards dealt
  PageSize   \* cards dealt at once, at most

VARIABLES
  deck,    \* the cards in it, front first; a card is the number of its deal
  dealt,   \* how many cards have been dealt
  leaving  \* the cards swiped that have not left yet

vars == <<deck, dealt, leaving>>

Cards == 1..MaxCards

InDeck == {deck[i] : i \in 1..Len(deck)}

Init == deck = <<>> /\ dealt = 0 /\ leaving = {}

Deal(n) ==
  /\ dealt + n <= MaxCards
  /\ deck' = deck \o [i \in 1..n |-> dealt + i]
  /\ dealt' = dealt + n
  /\ UNCHANGED leaving

Swipe(i) ==
  /\ deck[i] \notin leaving
  /\ leaving' = leaving \cup {deck[i]}
  /\ UNCHANGED <<deck, dealt>>

Leave(i) ==
  /\ deck[i] \in leaving
  /\ deck' = SubSeq(deck, 1, i - 1) \o SubSeq(deck, i + 1, Len(deck))
  /\ leaving' = leaving \ {deck[i]}
  /\ UNCHANGED dealt

Next == \/ \E n \in 1..PageSize : Deal(n)
        \/ \E i \in 1..Len(deck) : Swipe(i) \/ Leave(i)

Fairness == \A c \in Cards : WF_vars(\E i \in 1..Len(deck) : deck[i] = c /\ Leave(i))

Spec == Init /\ [][Next]_vars /\ Fairness
=============================================================================
