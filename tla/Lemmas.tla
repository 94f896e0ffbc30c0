------------------------------- MODULE Lemmas -------------------------------
(* What the proofs about several components cite: what every call on a HUD  *)
(* preserves, for any coherent state of it, sequences from which one        *)
(* element is taken out; and the properties of ProgressHUD.                 *)
EXTENDS ProgressHUD, Sequences, Integers, TLAPS

(* A new HUD is coherent, off the screen, and owes no timer.                *)
LEMMA NewHUDCoherent == Coherent(NewHUD) /\ ~NewHUD.superview
  BY DEF Coherent, OneFade, NothingStale, HUDState, NewHUD

(* A count of owed completions stays a count of at most one.                *)
LEMMA OwedFadeType ==
  ASSUME NEW h, h \in HUDState, NEW n \in 0..1
  PROVE  /\ [h EXCEPT !.fadesIn = n] \in HUDState
         /\ [h EXCEPT !.fadesOut = n] \in HUDState
  BY SMT DEF HUDState

(* Starting the fade out of a HUD at rest, or removing it at once.  What is *)
(* remembered does not matter here: cleanUpAfterPresentation calls          *)
(* dismissAnimated: before it clears the flags.                             *)
LEMMA HideSound ==
  ASSUME NEW h, h \in HUDState, OneFade(h), h.superview, ~h.transitioning,
         NEW a \in BOOLEAN
  PROVE  /\ Hide(h, a) \in HUDState
         /\ OneFade(Hide(h, a))
         /\ NothingStale(h) => NothingStale(Hide(h, a))
         /\ \/ ~Hide(h, a).superview
            \/ Hide(h, a).transitioning /\ ~Hide(h, a).presenting
         /\ Hide(h, a).timers = h.timers
<1>1. CASE a
  <2> DEFINE f == [h EXCEPT !.transitioning = TRUE]
             p == [f EXCEPT !.presenting = FALSE]
             g == [p EXCEPT !.fadesOut = @ + 1]
  <2>1. Hide(h, a) = g
    BY <1>1 DEF Hide, FadeOut
  <2>2. p \in HUDState
    BY Zenon DEF HUDState
  <2>3. p.fadesOut = 0 /\ p.fadesIn = 0
    BY DEF OneFade, HUDState
  <2>4. g \in HUDState
    <3> HIDE DEF p
    <3>1. p.fadesOut + 1 \in 0..1
      BY <2>3
    <3> QED BY <2>2, <3>1, OwedFadeType
  <2>5. g.transitioning /\ ~g.presenting /\ g.fadesIn = 0 /\ g.fadesOut = 1
    BY <2>2, <2>3 DEF HUDState
  <2>6. /\ g.superview = h.superview
        /\ g.targetView = h.targetView
        /\ g.timers = h.timers
        /\ g.dismissAfter = h.dismissAfter
        /\ g.dismissAnim = h.dismissAnim
    BY DEF HUDState
  <2> HIDE DEF g
  <2> QED BY <2>1, <2>4, <2>5, <2>6 DEF OneFade, NothingStale
<1>2. CASE ~a
  <2> DEFINE g == CleanUpAfterDismissal(h)
  <2>1. Hide(h, a) = g
    BY <1>2 DEF Hide
  <2>2. g \in HUDState
    BY Zenon DEF CleanUpAfterDismissal, HUDState
  <2>3. /\ g.superview = FALSE /\ g.targetView = FALSE /\ ~g.transitioning
        /\ ~g.dismissAfter /\ ~g.dismissAnim
        /\ g.timers = h.timers
        /\ g.fadesIn = h.fadesIn /\ g.fadesOut = h.fadesOut
    BY DEF CleanUpAfterDismissal, HUDState
  <2>4. h.fadesIn = 0 /\ h.fadesOut = 0
    BY DEF OneFade
  <2> HIDE DEF g
  <2> QED BY <2>1, <2>2, <2>3, <2>4 DEF OneFade, NothingStale
<1> QED BY <1>1, <1>2

(* dismissAnimated: keeps a HUD coherent and leaves it leaving.             *)
LEMMA DismissCoherent ==
  ASSUME NEW h, Coherent(h), NEW a \in BOOLEAN
  PROVE  /\ Coherent(DismissAnimated(h, a))
         /\ Leaving(DismissAnimated(h, a))
         /\ DismissAnimated(h, a).timers = h.timers
<1>1. CASE h.transitioning
  <2> DEFINE g == [h EXCEPT !.dismissAfter = TRUE, !.dismissAnim = a]
  <2>1. DismissAnimated(h, a) = g
    BY <1>1 DEF DismissAnimated
  <2>2. g \in HUDState
    BY Zenon DEF Coherent, HUDState
  <2>3. /\ g.dismissAfter
        /\ g.transitioning = h.transitioning /\ g.presenting = h.presenting
        /\ g.superview = h.superview /\ g.targetView = h.targetView
        /\ g.fadesIn = h.fadesIn /\ g.fadesOut = h.fadesOut
        /\ g.timers = h.timers
    BY DEF Coherent, HUDState
  <2> HIDE DEF g
  <2>4. OneFade(g) /\ NothingStale(g) /\ Leaving(g)
    BY <1>1, <2>3 DEF Coherent, OneFade, NothingStale, Leaving
  <2> QED BY <2>1, <2>2, <2>3, <2>4 DEF Coherent
<1>2. CASE ~h.transitioning /\ ~h.targetView
  BY <1>2 DEF DismissAnimated, Coherent, OneFade, Leaving
<1>3. CASE ~h.transitioning /\ h.targetView
  <2>1. h.superview
    BY <1>3 DEF Coherent, OneFade
  <2>2. DismissAnimated(h, a) = Hide(h, a)
    BY <1>3 DEF DismissAnimated
  <2> QED BY <1>3, <2>1, <2>2, HideSound DEF Coherent, Leaving
<1> QED BY <1>1, <1>2, <1>3

(* showInView:animated: keeps a HUD coherent and leaves it in its view.     *)
LEMMA ShowCoherent ==
  ASSUME NEW h, Coherent(h), NEW a \in BOOLEAN
  PROVE  /\ Coherent(ShowInView(h, a))
         /\ ShowInView(h, a).superview
         /\ ShowInView(h, a).timers = h.timers
<1> DEFINE added == [h EXCEPT !.targetView = TRUE, !.superview = TRUE,
                              !.transitioning = TRUE]
<1>1. CASE h.transitioning \/ h.targetView
  BY <1>1 DEF ShowInView, Coherent, OneFade
<1>2. CASE ~h.transitioning /\ ~h.targetView /\ a
  <2> DEFINE p == [added EXCEPT !.presenting = TRUE]
             g == [p EXCEPT !.fadesIn = @ + 1]
  <2>1. ShowInView(h, a) = g
    BY <1>2 DEF ShowInView, FadeIn
  <2>2. p \in HUDState
    BY Zenon DEF HUDState, Coherent
  <2>3. p.fadesOut = 0 /\ p.fadesIn = 0
    BY <1>2 DEF Coherent, OneFade, HUDState
  <2>4. g \in HUDState
    <3> HIDE DEF p
    <3>1. p.fadesIn + 1 \in 0..1
      BY <2>3
    <3> QED BY <2>2, <3>1, OwedFadeType
  <2>5. g.transitioning /\ g.presenting /\ g.fadesIn = 1 /\ g.fadesOut = 0
    BY <2>2, <2>3 DEF HUDState, Coherent
  <2>6. g.superview /\ g.targetView /\ g.timers = h.timers
    BY DEF HUDState, Coherent
  <2>7. ~g.dismissAfter /\ ~g.dismissAnim
    BY <1>2 DEF Coherent, NothingStale, HUDState
  <2>8. Coherent(g)
    <3> HIDE DEF g
    <3> QED BY <2>4, <2>5, <2>6, <2>7 DEF Coherent, OneFade, NothingStale
  <2> HIDE DEF g
  <2> QED BY <2>1, <2>6, <2>8
<1>3. CASE ~h.transitioning /\ ~h.targetView /\ ~a
  <2> DEFINE g == [added EXCEPT !.transitioning = FALSE]
  <2>1. ~h.dismissAfter /\ ~added.dismissAfter
    BY <1>3 DEF Coherent, NothingStale, HUDState
  <2>2. ShowInView(h, a) = g
    BY <1>3, <2>1 DEF ShowInView, CleanUpAfterPresentation
  <2>3. g \in HUDState
    BY Zenon DEF HUDState, Coherent
  <2>4. g.superview /\ g.targetView /\ g.timers = h.timers /\ ~g.transitioning
    BY DEF HUDState, Coherent
  <2>5. g.fadesIn = 0 /\ g.fadesOut = 0 /\ ~g.dismissAfter /\ ~g.dismissAnim
    BY <1>3 DEF Coherent, OneFade, NothingStale, HUDState
  <2> HIDE DEF g
  <2> QED BY <2>2, <2>3, <2>4, <2>5 DEF Coherent, OneFade, NothingStale
<1> QED BY <1>1, <1>2, <1>3

(* dismissAfterDelay: only adds a timer.                                    *)
LEMMA DelayCoherent ==
  ASSUME NEW h, Coherent(h), NEW a \in BOOLEAN
  PROVE  /\ Coherent(DismissAfterDelay(h, a))
         /\ Leaving(h) => Leaving(DismissAfterDelay(h, a))
         /\ DismissAfterDelay(h, a).superview = h.superview
  BY DEF Coherent, OneFade, NothingStale, HUDState, Leaving, DismissAfterDelay

(* A delayed dismissal that runs keeps the HUD coherent, and leaves it      *)
(* leaving.                                                                 *)
LEMMA TimerCoherent ==
  ASSUME NEW h, Coherent(h), NEW a \in BOOLEAN, h.timers[a] > 0
  PROVE  /\ Coherent(TimerFires(h, a))
         /\ Leaving(TimerFires(h, a))
<1> DEFINE fired == [h EXCEPT !.timers[a] = @ - 1]
<1>1. Coherent(fired) /\ fired.superview = h.superview
  BY DEF Coherent, OneFade, NothingStale, HUDState
<1>2. CASE h.superview
  <2>1. TimerFires(h, a) = DismissAnimated(fired, a)
    BY <1>2 DEF TimerFires
  <2> HIDE DEF fired
  <2> QED BY <1>1, <2>1, DismissCoherent
<1>3. CASE ~h.superview
  BY <1>1, <1>3 DEF TimerFires, Leaving
<1> QED BY <1>2, <1>3

(* The end of the fade in flight keeps the HUD coherent, and a dismissal    *)
(* asked for before it is not lost.                                         *)
LEMMA FadeCoherent ==
  ASSUME NEW h, Coherent(h), NEW in \in BOOLEAN, FadeOwed(h, in)
  PROVE  /\ Coherent(AnimationFinished(h, in))
         /\ Leaving(h) => Leaving(AnimationFinished(h, in))
<1>1. h.transitioning /\ h.superview /\ h.targetView
  BY DEF Coherent, OneFade, HUDState, FadeOwed
<1>2. CASE in
  <2> DEFINE run == [h EXCEPT !.fadesIn = @ - 1]
             shown == [run EXCEPT !.transitioning = FALSE]
  <2>1. h.presenting /\ h.fadesIn = 1 /\ h.fadesOut = 0
    BY <1>2 DEF Coherent, OneFade, HUDState, FadeOwed
  <2>2. run \in HUDState
    <3>1. h.fadesIn - 1 \in 0..1
      BY <2>1
    <3> QED BY <3>1, OwedFadeType DEF Coherent
  <2>3. shown \in HUDState
    <3> HIDE DEF run
    <3> QED BY Zenon, <2>2 DEF HUDState
  <2>4. /\ shown.fadesIn = 0 /\ shown.fadesOut = 0 /\ ~shown.transitioning
        /\ shown.superview /\ shown.targetView
        /\ shown.dismissAfter = h.dismissAfter /\ shown.dismissAnim = h.dismissAnim
    BY <1>1, <2>1, <2>2 DEF Coherent, HUDState
  <2>5. AnimationFinished(h, in) = CleanUpAfterPresentation(run)
    BY <1>2, <2>1 DEF AnimationFinished
  <2>6. run.dismissAfter = h.dismissAfter /\ run.dismissAnim = h.dismissAnim
    BY DEF Coherent, HUDState
  <2>7. CASE ~h.dismissAfter
    <3>1. AnimationFinished(h, in) = shown
      BY <2>5, <2>6, <2>7 DEF CleanUpAfterPresentation
    <3>2. ~Leaving(h)
      BY <1>1, <2>1, <2>7 DEF Leaving
    <3>3. ~h.dismissAnim
      BY <2>7 DEF Coherent, NothingStale
    <3> HIDE DEF shown
    <3>4. OneFade(shown) /\ NothingStale(shown)
      BY <2>4, <2>7, <3>3 DEF OneFade, NothingStale
    <3> QED BY <2>3, <3>1, <3>2, <3>4 DEF Coherent
  <2>8. CASE h.dismissAfter
    <3> DEFINE left == Hide(shown, h.dismissAnim)
               g == [left EXCEPT !.dismissAfter = FALSE, !.dismissAnim = FALSE]
    <3>1. DismissAnimated(shown, h.dismissAnim) = left
      <4> HIDE DEF shown
      <4> QED BY <2>4 DEF DismissAnimated
    <3>2. AnimationFinished(h, in) = g
      BY <2>5, <2>6, <2>8, <3>1 DEF CleanUpAfterPresentation
    <3>3. OneFade(shown)
      <4> HIDE DEF shown
      <4> QED BY <2>4 DEF OneFade
    <3>4. h.dismissAnim \in BOOLEAN
      BY DEF Coherent, HUDState
    <3>5. /\ left \in HUDState
          /\ OneFade(left)
          /\ ~left.superview \/ (left.transitioning /\ ~left.presenting)
      <4> HIDE DEF shown
      <4> QED BY <2>3, <2>4, <3>3, <3>4, HideSound
    <3> HIDE DEF left
    <3>6. g \in HUDState
      BY Zenon, <3>5 DEF HUDState
    <3>7. OneFade(g) /\ NothingStale(g) /\ Leaving(g)
      BY <3>5 DEF OneFade, NothingStale, Leaving, HUDState
    <3> HIDE DEF g
    <3> QED BY <3>2, <3>6, <3>7 DEF Coherent
  <2> QED BY <2>7, <2>8
<1>3. CASE ~in
  <2> DEFINE run == [h EXCEPT !.fadesOut = @ - 1]
             gone == CleanUpAfterDismissal(run)
  <2>1. ~h.presenting /\ h.fadesIn = 0 /\ h.fadesOut = 1
    BY <1>3 DEF Coherent, OneFade, HUDState, FadeOwed
  <2>2. run \in HUDState
    <3>1. h.fadesOut - 1 \in 0..1
      BY <2>1
    <3> QED BY <3>1, OwedFadeType DEF Coherent
  <2>3. AnimationFinished(h, in) = gone
    BY <1>3, <2>1 DEF AnimationFinished
  <2>4. run.fadesIn = 0 /\ run.fadesOut = 0
    BY <2>1, <2>2 DEF HUDState
  <2> HIDE DEF run
  <2>5. gone \in HUDState
    BY Zenon, <2>2 DEF CleanUpAfterDismissal, HUDState
  <2>6. OneFade(gone) /\ NothingStale(gone) /\ Leaving(gone)
    BY <2>2, <2>4 DEF CleanUpAfterDismissal, HUDState, OneFade, NothingStale,
                      Leaving
  <2> HIDE DEF gone
  <2> QED BY <2>3, <2>5, <2>6 DEF Coherent
<1> QED BY <1>2, <1>3

(* A HUD that is shown, or fading in, and nothing that would dismiss it is  *)
(* pending.                                                                 *)
StaysShown(h) ==
  /\ h.superview
  /\ h.timers = [a \in BOOLEAN |-> 0]
  /\ ~h.dismissAfter
  /\ h.transitioning => h.presenting

(* The HUD stays so when its fade in ends.                                  *)
LEMMA StaysShownFaded ==
  ASSUME NEW h, Coherent(h), StaysShown(h), NEW in \in BOOLEAN, FadeOwed(h, in)
  PROVE  StaysShown(AnimationFinished(h, in))
<1>1. h.transitioning /\ h.presenting /\ in
  BY DEF Coherent, OneFade, StaysShown, FadeOwed, HUDState
<1> DEFINE run == [h EXCEPT !.fadesIn = @ - 1]
           g == [run EXCEPT !.transitioning = FALSE]
<1>2. run.dismissAfter = h.dismissAfter
  BY DEF Coherent, HUDState
<1>3. AnimationFinished(h, in) = g
  BY <1>1, <1>2 DEF AnimationFinished, CleanUpAfterPresentation, StaysShown
<1>4. /\ g.superview = h.superview /\ g.timers = h.timers
      /\ g.dismissAfter = h.dismissAfter /\ ~g.transitioning
  BY DEF Coherent, HUDState
<1> HIDE DEF g
<1> QED BY <1>3, <1>4 DEF StaysShown

-----------------------------------------------------------------------------
(* A sequence with one element taken out, as a card leaves a deck and a     *)
(* batch a queue.                                                           *)

(* The elements of a concatenation, by their place in it.                   *)
LEMMA Concatenation ==
  ASSUME NEW S, NEW a \in Seq(S), NEW b \in Seq(S)
  PROVE  /\ a \o b \in Seq(S)
         /\ Len(a \o b) = Len(a) + Len(b)
         /\ \A k \in 1..(Len(a) + Len(b)) :
              (a \o b)[k] = IF k <= Len(a) THEN a[k] ELSE b[k - Len(a)]
OBVIOUS

(* What comes before the i-th element, and what comes after it.             *)
LEMMA Before ==
  ASSUME NEW S, NEW s \in Seq(S), NEW i \in 1..Len(s)
  PROVE  /\ SubSeq(s, 1, i - 1) \in Seq(S)
         /\ Len(SubSeq(s, 1, i - 1)) = i - 1
         /\ \A k \in 1..(i - 1) : SubSeq(s, 1, i - 1)[k] = s[k]
OBVIOUS

LEMMA After ==
  ASSUME NEW S, NEW s \in Seq(S), NEW i \in 1..Len(s)
  PROVE  /\ SubSeq(s, i + 1, Len(s)) \in Seq(S)
         /\ Len(SubSeq(s, i + 1, Len(s))) = Len(s) - i
         /\ \A k \in 1..(Len(s) - i) : SubSeq(s, i + 1, Len(s))[k] = s[k + i]
OBVIOUS

(* Taking out the i-th element of s leaves those before it where they are   *)
(* and moves those after it one place forward.                              *)
LEMMA TakenOut ==
  ASSUME NEW S, NEW s \in Seq(S), NEW i \in 1..Len(s),
         NEW t, t = SubSeq(s, 1, i - 1) \o SubSeq(s, i + 1, Len(s))
  PROVE  /\ t \in Seq(S)
         /\ Len(t) = Len(s) - 1
         /\ \A k \in 1..(Len(s) - 1) : t[k] = IF k < i THEN s[k] ELSE s[k + 1]
<1> DEFINE a == SubSeq(s, 1, i - 1)
           b == SubSeq(s, i + 1, Len(s))
<1>0. Len(s) \in Nat /\ i \in Nat /\ i >= 1 /\ i <= Len(s)
  OBVIOUS
<1>1. a \in Seq(S) /\ Len(a) = i - 1 /\ \A k \in 1..(i - 1) : a[k] = s[k]
  BY Before
<1>2. b \in Seq(S) /\ Len(b) = Len(s) - i /\ \A k \in 1..(Len(s) - i) : b[k] = s[k + i]
  BY After
<1>3. t = a \o b
  OBVIOUS
<1>. HIDE DEF a, b
<1>4. /\ t \in Seq(S)
      /\ Len(t) = Len(a) + Len(b)
      /\ \A k \in 1..(Len(a) + Len(b)) :
           t[k] = IF k <= Len(a) THEN a[k] ELSE b[k - Len(a)]
  BY ONLY <1>1, <1>2, <1>3, Concatenation
<1>5. Len(t) = Len(s) - 1
  BY ONLY <1>0, <1>1, <1>2, <1>4
<1>6. ASSUME NEW k \in 1..(Len(s) - 1)
      PROVE  t[k] = IF k < i THEN s[k] ELSE s[k + 1]
  <2>1. k \in 1..(Len(a) + Len(b)) /\ k \in Nat
    BY ONLY <1>0, <1>1, <1>2, <1>6
  <2>2. t[k] = IF k <= Len(a) THEN a[k] ELSE b[k - Len(a)]
    BY ONLY <1>4, <2>1
  <2>3. CASE k < i
    <3>1. k <= Len(a) /\ k \in 1..(i - 1)
      BY ONLY <2>3, <2>1, <1>0, <1>1
    <3>2. a[k] = s[k]
      BY ONLY <3>1, <1>1
    <3>. QED BY <3>1, <3>2, <2>2, <2>3, Zenon
  <2>4. CASE ~(k < i)
    <3>1. ~(k <= Len(a)) /\ k - Len(a) \in 1..(Len(s) - i) /\ (k - Len(a)) + i = k + 1
      BY ONLY <2>4, <2>1, <1>0, <1>1, <1>2
    <3>2. b[k - Len(a)] = s[(k - Len(a)) + i]
      BY ONLY <3>1, <1>2
    <3>. QED BY <3>1, <3>2, <2>2, <2>4, Zenon
  <2>. QED BY <2>3, <2>4
<1>. QED BY <1>4, <1>5, <1>6, Zenon

-----------------------------------------------------------------------------
(* The safety properties of ProgressHUD, for every bound on the timers: the *)
(* lemmas above, one per call, lifted to the behaviours of a HUD.           *)

(* The inductive invariant.  DismissHonoured alone is not one: that a       *)
(* remembered dismissal is carried out at the end of the fade in needs the  *)
(* fade that ends to be the one _presenting describes.                      *)
HUDInv == /\ Coherent(lone)
          /\ asked \in {"nothing", "show", "dismiss"}
          /\ DismissHonoured

(* The HUD starts off the screen and coherent.                              *)
LEMMA HUDInvInit == LoneInit => HUDInv
  BY NewHUDCoherent DEF LoneInit, HUDInv, DismissHonoured

(* Every call, timer and completion block preserves the invariant.          *)
LEMMA HUDInvNext == HUDInv /\ [LoneNext]_loneVars => HUDInv'
<1> SUFFICES ASSUME HUDInv, [LoneNext]_loneVars PROVE HUDInv'
  OBVIOUS
<1> USE DEF HUDInv, DismissHonoured
<1>1. ASSUME NEW b \in BOOLEAN, Show(b) PROVE HUDInv'
  BY <1>1, ShowCoherent DEF Show
<1>2. ASSUME NEW b \in BOOLEAN, Dismiss(b) PROVE HUDInv'
  BY <1>2, DismissCoherent DEF Dismiss
<1>3. ASSUME NEW b \in BOOLEAN, DismissLater(b) PROVE HUDInv'
  BY <1>3, DelayCoherent DEF DismissLater
<1>4. ASSUME NEW b \in BOOLEAN, DelayElapses(b) PROVE HUDInv'
  BY <1>4, TimerCoherent DEF DelayElapses
<1>5. ASSUME NEW b \in BOOLEAN, FadeEnds(b) PROVE HUDInv'
  BY <1>5, FadeCoherent DEF FadeEnds
<1>6. CASE UNCHANGED loneVars
  BY <1>6 DEF loneVars
<1> QED BY <1>1, <1>2, <1>3, <1>4, <1>5, <1>6 DEF LoneNext

(* The invariant in every state of every behaviour.                         *)
LEMMA HUDInvHolds == LoneSpec => []HUDInv
  BY HUDInvInit, HUDInvNext, PTL DEF LoneSpec

(* The flags, the fades in flight and the pending timers of the HUD keep    *)
(* their type.                                                              *)
THEOREM HUDTypeOK == LoneSpec => []LoneTypeOK
<1>1. HUDInv => LoneTypeOK
  BY DEF HUDInv, LoneTypeOK, Coherent
<1> QED BY <1>1, HUDInvHolds, PTL

(* One fade at a time, the one _presenting describes, and no dismissal      *)
(* remembered past its presentation.                                        *)
THEOREM HUDFadesCoherent == LoneSpec => []FadesCoherent
<1>1. HUDInv => FadesCoherent
  BY DEF HUDInv, FadesCoherent, OneFadeInFlight, NoStaleDismissal, Coherent
<1> QED BY <1>1, HUDInvHolds, PTL

(* No dismissal is lost: a HUD last told to leave is leaving or gone.       *)
THEOREM HUDDismissHonoured == LoneSpec => []DismissHonoured
<1>1. HUDInv => DismissHonoured
  BY DEF HUDInv
<1> QED BY <1>1, HUDInvHolds, PTL
=============================================================================
