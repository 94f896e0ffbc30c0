----------------------------- MODULE CardDeckProofs -----------------------------
(* The safety of the deck, and that it keeps the promise of module Deck,    *)
(* for every number of cards and every page size.                           *)
EXTENDS CardDeck, Lemmas

(* What NoGhost and AstrayOnlyIfCancelled say, of the cards that are still  *)
(* to be dealt or have left as well: a dealt card starts from there.        *)
Settled ==
  \A c \in Cards :
    /\ place[c] = "away" => spring[c] = "away"
    /\ c \notin finger /\ spring[c] = "none" => place[c] = "home" \/ c \in cancelled

DeckInv == TypeOK /\ HeldUndisturbed /\ Settled

LEMMA DeckOfCards ==
  ASSUME TypeOK
  PROVE  InDeck \subseteq Cards /\ Len(deck) \in Nat /\ \A i \in 1..Len(deck) : deck[i] \in Cards
BY DEF TypeOK, InDeck

LEMMA InitHolds == Init => DeckInv
<1> SUFFICES ASSUME Init PROVE DeckInv
  OBVIOUS
<1>1. MaxCards \in Nat
  BY CardDeckAssumption
<1>2. TypeOK
  BY <1>1 DEF Init, TypeOK, InDeck, Animated
<1>3. HeldUndisturbed /\ Settled
  BY DEF Init, HeldUndisturbed, Settled
<1> QED BY <1>2, <1>3 DEF DeckInv

(* What dealing and taking out a card do to the set of the deck's cards.    *)
LEMMA DealtCards ==
  ASSUME TypeOK, NEW n \in 1..PageSize, Deal(n)
  PROVE  deck' \in Seq(Cards) /\ InDeck \subseteq InDeck'
<1> DEFINE page == [i \in 1..n |-> dealt + i]
<1>1. n \in Nat /\ dealt \in Nat /\ dealt + n <= MaxCards /\ MaxCards \in Nat
  BY CardDeckAssumption DEF TypeOK, Deal
<1>2. page \in Seq(Cards)
  BY <1>1 DEF Cards
<1>3. deck \in Seq(Cards) /\ deck' = deck \o page
  BY DEF TypeOK, Deal
<1> HIDE DEF page
<1>4. /\ deck' \in Seq(Cards)
      /\ Len(deck') = Len(deck) + Len(page)
      /\ \A k \in 1..(Len(deck) + Len(page)) :
           deck'[k] = IF k <= Len(deck) THEN deck[k] ELSE page[k - Len(deck)]
  BY <1>2, <1>3, Concatenation
<1>5. Len(deck) \in Nat /\ Len(page) \in Nat
  BY <1>2, <1>3
<1>6. ASSUME NEW k \in 1..Len(deck) PROVE deck[k] \in InDeck'
  <2>1. k \in 1..(Len(deck) + Len(page)) /\ k <= Len(deck) /\ k \in 1..Len(deck')
    BY <1>4, <1>5
  <2>2. deck'[k] = deck[k]
    BY <2>1, <1>4, Zenon
  <2> QED BY <2>1, <2>2 DEF InDeck
<1> QED BY <1>4, <1>6 DEF InDeck

LEMMA CardsWithout ==
  ASSUME TypeOK, NEW i \in 1..Len(deck), deck' = Without(i)
  PROVE  deck' \in Seq(Cards) /\ InDeck \ {deck[i]} \subseteq InDeck'
<1>1. deck \in Seq(Cards) /\ Len(deck) \in Nat
  BY DEF TypeOK
<1>2. /\ deck' \in Seq(Cards)
      /\ Len(deck') = Len(deck) - 1
      /\ \A k \in 1..(Len(deck) - 1) : deck'[k] = IF k < i THEN deck[k] ELSE deck[k + 1]
  BY <1>1, TakenOut, SMTT(30) DEF Without
<1>3. ASSUME NEW k \in 1..Len(deck), k # i PROVE deck[k] \in InDeck'
  <2>1. CASE k < i
    <3>1. k \in 1..(Len(deck) - 1) /\ k \in 1..Len(deck')
      BY <2>1, <1>1, <1>2
    <3>2. deck'[k] = deck[k]
      BY <3>1, <2>1, <1>2
    <3> QED BY <3>1, <3>2 DEF InDeck
  <2>2. CASE k > i
    <3>1. k - 1 \in 1..(Len(deck) - 1) /\ k - 1 \in 1..Len(deck') /\ ~(k - 1 < i)
          /\ (k - 1) + 1 = k
      BY <2>2, <1>1, <1>2
    <3>2. deck'[k - 1] = deck[(k - 1) + 1]
      BY <3>1, <1>2
    <3> QED BY <3>1, <3>2 DEF InDeck
  <2> QED BY <2>1, <2>2, <1>3, <1>1
<1> QED BY <1>2, <1>3 DEF InDeck

-----------------------------------------------------------------------------
(* One lemma per action.                                                    *)
LEMMA DealStep ==
  ASSUME DeckInv, NEW n \in 1..PageSize, Deal(n)
  PROVE  DeckInv'
<1>1. deck' \in Seq(Cards) /\ InDeck \subseteq InDeck'
  BY DealtCards DEF DeckInv
<1>2. dealt' \in 0..MaxCards
  BY CardDeckAssumption DEF DeckInv, TypeOK, Deal
<1>3. UNCHANGED <<place, spring, cut, finger, cancelled>>
  BY DEF Deal
<1>4. TypeOK'
  BY <1>1, <1>2, <1>3 DEF DeckInv, TypeOK, Animated
<1> QED BY <1>3, <1>4 DEF DeckInv, HeldUndisturbed, Settled

LEMMA BeganStep ==
  ASSUME DeckInv, NEW i \in 1..Len(deck), Began(i)
  PROVE  DeckInv'
<1>1. deck[i] \in InDeck /\ deck[i] \in Cards
  BY DeckOfCards DEF DeckInv, InDeck
<1>2. spring[deck[i]] = "none"
  BY DEF Began, Accepts
<1>3. TypeOK'
  BY <1>1 DEF DeckInv, TypeOK, Began, InDeck, Animated
<1>4. HeldUndisturbed'
  BY <1>2 DEF DeckInv, HeldUndisturbed, Began
<1>5. Settled'
  BY DEF DeckInv, Settled, Began
<1> QED BY <1>3, <1>4, <1>5 DEF DeckInv

LEMMA ChangedStep ==
  ASSUME DeckInv, NEW c \in Cards, Changed(c)
  PROVE  DeckInv'
<1>1. TypeOK'
  BY DEF DeckInv, TypeOK, Changed, InDeck, Animated
<1>2. HeldUndisturbed' /\ Settled'
  BY DEF DeckInv, TypeOK, HeldUndisturbed, Settled, Changed
<1> QED BY <1>1, <1>2 DEF DeckInv

LEMMA EndedStep ==
  ASSUME DeckInv, NEW c \in Cards, NEW away \in BOOLEAN, Ended(c, away)
  PROVE  DeckInv'
<1>1. c \in finger /\ c \in InDeck
  BY DEF DeckInv, TypeOK, Ended
<1>2. /\ place' \in [Cards -> {"home", "moved", "away"}]
      /\ spring' \in [Cards -> {"none", "back", "away"}]
  BY DEF DeckInv, TypeOK, Ended, ReleasedTo
<1>3. Animated' = Animated \cup {c}
  BY DEF DeckInv, TypeOK, Ended, Animated
<1>4. TypeOK'
  BY <1>1, <1>2, <1>3 DEF DeckInv, TypeOK, Ended, InDeck
<1>5. HeldUndisturbed'
  BY DEF DeckInv, TypeOK, HeldUndisturbed, Ended
<1>6. ASSUME NEW d \in Cards
      PROVE  /\ place'[d] = "away" => spring'[d] = "away"
             /\ d \notin finger' /\ spring'[d] = "none" =>
                  place'[d] = "home" \/ d \in cancelled'
  <2>1. CASE d = c
    BY <2>1 DEF DeckInv, TypeOK, Ended, ReleasedTo
  <2>2. CASE d # c
    BY <2>2 DEF DeckInv, TypeOK, Settled, Ended
  <2> QED BY <2>1, <2>2
<1> QED BY <1>4, <1>5, <1>6 DEF DeckInv, Settled

LEMMA CancelledStep ==
  ASSUME DeckInv, NEW c \in Cards, Cancelled(c)
  PROVE  DeckInv'
<1>1. TypeOK'
  BY DEF DeckInv, TypeOK, Cancelled, InDeck, Animated
<1>2. HeldUndisturbed' /\ Settled'
  BY DEF DeckInv, TypeOK, HeldUndisturbed, Settled, Cancelled
<1> QED BY <1>1, <1>2 DEF DeckInv

LEMMA CompletionStep ==
  ASSUME DeckInv, NEW i \in 1..Len(deck), Completion(i)
  PROVE  DeckInv'
<1> DEFINE c == deck[i]
<1>1. c \in Cards /\ c \in InDeck /\ spring[c] # "none" /\ c \notin finger
  BY DeckOfCards DEF DeckInv, InDeck, HeldUndisturbed, Completion
<1>2. deck' \in Seq(Cards) /\ InDeck \ {c} \subseteq InDeck'
  <2>1. CASE deck' = Without(i)
    BY <2>1, CardsWithout DEF DeckInv
  <2>2. CASE deck' = deck
    BY <2>2 DEF DeckInv, TypeOK, InDeck
  <2> QED BY <2>1, <2>2 DEF Completion
<1>3. /\ place' = [place EXCEPT ![c] = "home"]
      /\ spring' = [spring EXCEPT ![c] = "none"]
      /\ cut' = cut \ {c}
      /\ UNCHANGED <<dealt, finger, cancelled>>
  BY DEF Completion
<1> HIDE DEF c
<1>4. Animated' = Animated \ {c}
  BY <1>1, <1>3 DEF DeckInv, TypeOK, Animated
<1>5. TypeOK'
  BY <1>1, <1>2, <1>3, <1>4 DEF DeckInv, TypeOK
<1>6. HeldUndisturbed' /\ Settled'
  BY <1>1, <1>3 DEF DeckInv, TypeOK, HeldUndisturbed, Settled
<1> QED BY <1>5, <1>6 DEF DeckInv

LEMMA StepHolds == DeckInv /\ [Next]_vars => DeckInv'
<1> SUFFICES ASSUME DeckInv, [Next]_vars PROVE DeckInv'
  OBVIOUS
<1>1. CASE \E n \in 1..PageSize : Deal(n)
  BY <1>1, DealStep
<1>2. CASE \E i \in 1..Len(deck) : Began(i) \/ Completion(i)
  BY <1>2, BeganStep, CompletionStep
<1>3. CASE \E c \in Cards : \/ Changed(c) \/ Cancelled(c)
                            \/ \E away \in BOOLEAN : Ended(c, away)
  BY <1>3, ChangedStep, CancelledStep, EndedStep
<1>4. CASE UNCHANGED vars
  BY <1>4 DEF DeckInv, TypeOK, HeldUndisturbed, Settled, InDeck, Animated, vars
<1> QED BY <1>1, <1>2, <1>3, <1>4 DEF Next

(* The invariant in every state of every behaviour.                         *)
LEMMA InvHolds == Spec => []DeckInv
  BY InitHolds, StepHolds, PTL DEF Spec

(* The deck is a sequence of the cards dealt, and the state of every card   *)
(* keeps its type.                                                          *)
THEOREM DeckTypeOK == Spec => []TypeOK
<1>1. DeckInv => TypeOK
  BY DEF DeckInv
<1> QED BY <1>1, InvHolds, PTL

(* A card off the screen is about to be removed, and only a cancelled       *)
(* gesture leaves a card of the deck astray.                                *)
THEOREM DeckCardsSettled == Spec => []CardsSettled
<1>1. DeckInv => CardsSettled
  BY DeckOfCards DEF DeckInv, CardsSettled, NoGhost, AstrayOnlyIfCancelled, Settled
<1> QED BY <1>1, InvHolds, PTL

(* No animation is pending that would tear a card from under a finger.      *)
THEOREM DeckHeldUndisturbed == Spec => []HeldUndisturbed
<1>1. DeckInv => HeldUndisturbed
  BY DEF DeckInv
<1> QED BY <1>1, InvHolds, PTL

-----------------------------------------------------------------------------
FlyingOff == {c \in Cards : spring[c] = "away"}

LEMMA InitImplements == Init => D!Init
BY DEF Init, D!Init

LEMMA EndedImplements ==
  ASSUME DeckInv, NEW c \in Cards, NEW away \in BOOLEAN, Ended(c, away)
  PROVE  [D!Next]_D!vars
<1>1. spring[c] = "none" /\ c \in InDeck
  BY DEF DeckInv, TypeOK, HeldUndisturbed, Ended
<1>2. CASE away
  <2>1. PICK i \in 1..Len(deck) : deck[i] = c
    BY <1>1 DEF InDeck
  <2>2. FlyingOff' = FlyingOff \cup {c} /\ c \notin FlyingOff
    BY <1>1, <1>2 DEF DeckInv, TypeOK, Ended, FlyingOff
  <2>3. D!Swipe(i)
    BY <2>1, <2>2 DEF D!Swipe, FlyingOff, Ended
  <2> QED BY <2>1, <2>3 DEF D!Next
<1>3. CASE ~away
  <2>1. FlyingOff' = FlyingOff
    BY <1>1, <1>3 DEF DeckInv, TypeOK, Ended, FlyingOff
  <2> QED BY <2>1 DEF D!vars, FlyingOff, Ended
<1> QED BY <1>2, <1>3

LEMMA CompletionImplements ==
  ASSUME DeckInv, NEW i \in 1..Len(deck), Completion(i)
  PROVE  [D!Next]_D!vars
<1>1. deck[i] \in Cards
  BY DeckOfCards DEF DeckInv
<1>2. FlyingOff' = FlyingOff \ {deck[i]} /\ dealt' = dealt
  BY <1>1 DEF DeckInv, TypeOK, Completion, FlyingOff
<1>3. CASE spring[deck[i]] = "away"
  <2>1. deck[i] \in FlyingOff /\ deck' = Without(i)
    BY <1>1, <1>3 DEF FlyingOff, Completion, Removes
  <2>2. D!Leave(i)
    BY <1>2, <2>1 DEF D!Leave, FlyingOff, Without
  <2> QED BY <2>2 DEF D!Next
<1>4. CASE spring[deck[i]] # "away"
  <2>1. deck[i] \notin FlyingOff /\ deck' = deck
    BY <1>4 DEF FlyingOff, Completion, Removes
  <2>2. FlyingOff' = FlyingOff
    BY <1>2, <2>1
  <2> QED BY <1>2, <2>1, <2>2 DEF D!vars, FlyingOff
<1> QED BY <1>3, <1>4

LEMMA StepImplements == DeckInv /\ [Next]_vars => [D!Next]_D!vars
<1> SUFFICES ASSUME DeckInv, [Next]_vars PROVE [D!Next]_D!vars
  OBVIOUS
<1>1. ASSUME NEW n \in 1..PageSize, Deal(n) PROVE [D!Next]_D!vars
  <2>1. D!Deal(n)
    BY <1>1 DEF Deal, D!Deal
  <2> QED BY <2>1 DEF D!Next
<1>2. CASE UNCHANGED <<deck, dealt, spring>>
  BY <1>2 DEF D!vars
<1>3. ASSUME NEW i \in 1..Len(deck), Began(i) PROVE [D!Next]_D!vars
  BY <1>2, <1>3 DEF Began
<1>4. ASSUME NEW c \in Cards, Changed(c) \/ Cancelled(c) PROVE [D!Next]_D!vars
  BY <1>2, <1>4 DEF Changed, Cancelled
<1>5. CASE UNCHANGED vars
  BY <1>2, <1>5 DEF vars
<1> QED
  BY <1>1, <1>3, <1>4, <1>5, EndedImplements, CompletionImplements DEF Next

(* Every behaviour of the deck is one that module Deck allows: cards join   *)
(* it at the back in the order of their deals, and leave it only by a       *)
(* swipe, one at a time.  (DeckKept adds that they do leave.)               *)
THEOREM DeckImplements == Spec => D!Init /\ [][D!Next]_D!vars
BY InitHolds, StepHolds, InitImplements, StepImplements, PTL DEF Spec
=============================================================================
