--------------------------- MODULE JGProgressHUD ---------------------------
(* The presentation life cycle of one JGProgressHUD object, as operators    *)
(* from the HUD's state before a call to its state after it.  The screens   *)
(* that own a HUD (HomeFeed, Registration, Settings) use these operators    *)
(* for their own HUDs; ProgressHUD is the state machine of a HUD alone.     *)
(*                                                                          *)
(* All of it runs on the main thread, so every call is one atomic step;     *)
(* what is asynchronous is the completion of a fade and the dispatch_after  *)
(* block of a delayed dismissal.  The app never sets minimumDisplayTime, so *)
(* it is 0 and the branch that postpones a dismissal for it is not taken.   *)
EXTENDS Naturals

(* The fields keep the source's names without the underscores:              *)
(*   targetView     targetView # nil                                        *)
(*   superview      superview # nil, i.e. the property "visible"            *)
(*   transitioning  _transitioning                                          *)
(*   dismissAfter   _dismissAfterTransitionFinished                         *)
(*   dismissAnim    _dismissAfterTransitionFinishedWithAnimation            *)
(*   presenting     _presenting of the HUD's single animation object        *)
(*   fadesIn        completion blocks UIKit still owes for fades in         *)
(*   fadesOut       and for fades out                                       *)
(*   timers         dispatch_after blocks of dismissAfterDelay:animated:    *)
(*                  not yet run, by their argument "animated"               *)
HUDState ==
  [targetView: BOOLEAN, superview: BOOLEAN, transitioning: BOOLEAN,
   dismissAfter: BOOLEAN, dismissAnim: BOOLEAN, presenting: BOOLEAN,
   fadesIn: 0..1, fadesOut: 0..1, timers: [BOOLEAN -> Nat]]

NewHUD ==
  [targetView |-> FALSE, superview |-> FALSE, transitioning |-> FALSE,
   dismissAfter |-> FALSE, dismissAnim |-> FALSE, presenting |-> FALSE,
   fadesIn |-> 0, fadesOut |-> 0, timers |-> [a \in BOOLEAN |-> 0]]

(* -[JGProgressHUDFadeAnimation show] and hide: _presenting is overwritten  *)
(* and one more completion block is owed.                                   *)
FadeIn(h) ==
  LET super == [h EXCEPT !.presenting = TRUE]
  IN  [super EXCEPT !.fadesIn = @ + 1]

FadeOut(h) ==
  LET super == [h EXCEPT !.presenting = FALSE]
  IN  [super EXCEPT !.fadesOut = @ + 1]

CleanUpAfterDismissal(h) ==
  [h EXCEPT !.superview = FALSE, !.targetView = FALSE, !.transitioning = FALSE,
            !.dismissAfter = FALSE, !.dismissAnim = FALSE]

Hide(h, animated) ==
  IF animated THEN FadeOut([h EXCEPT !.transitioning = TRUE])
              ELSE CleanUpAfterDismissal(h)

(* dismissAnimated: without its test of _transitioning.                     *)
DismissAnimatedAnytime(h, animated) ==
  IF h.targetView THEN Hide(h, animated) ELSE h

(* dismissAnimated: that drops a dismissal asked for during a transition    *)
(* instead of remembering it.                                               *)
DismissAnimatedForgetful(h, animated) ==
  IF h.targetView /\ ~h.transitioning THEN Hide(h, animated) ELSE h

(* During a transition the dismissal is only remembered.                    *)
DismissAnimated(h, animated) ==
  IF h.transitioning
  THEN [h EXCEPT !.dismissAfter = TRUE, !.dismissAnim = animated]
  ELSE IF h.targetView THEN Hide(h, animated) ELSE h

(* The end of a fade in that does not look for a remembered dismissal.      *)
CleanUpAfterPresentationOnly(h) == [h EXCEPT !.transitioning = FALSE]

CleanUpAfterPresentation(h) ==
  LET shown == [h EXCEPT !.transitioning = FALSE]
  IN  IF h.dismissAfter
      THEN [DismissAnimated(shown, h.dismissAnim)
              EXCEPT !.dismissAfter = FALSE, !.dismissAnim = FALSE]
      ELSE shown

(* showInView:animated: that only refuses a HUD that is already shown and   *)
(* at rest.                                                                 *)
ShowInViewDuringTransition(h, animated) ==
  LET added == [h EXCEPT !.targetView = TRUE, !.superview = TRUE,
                         !.transitioning = TRUE]
  IN  IF h.targetView /\ ~h.transitioning THEN h
      ELSE IF animated THEN FadeIn(added)
                       ELSE CleanUpAfterPresentation(added)

(* Ignored during a transition and when the HUD is already in a view.       *)
ShowInView(h, animated) ==
  LET added == [h EXCEPT !.targetView = TRUE, !.superview = TRUE,
                         !.transitioning = TRUE]
  IN  IF h.transitioning \/ h.targetView THEN h
      ELSE IF animated THEN FadeIn(added)
                       ELSE CleanUpAfterPresentation(added)

DismissAfterDelay(h, animated) == [h EXCEPT !.timers[animated] = @ + 1]

(* The dispatch_after block: only a visible HUD is dismissed.  The dispatch *)
(* queue holds no reference to a particular presentation: whichever one is  *)
(* on the screen when the block runs is dismissed.                          *)
TimerFires(h, animated) ==
  LET fired == [h EXCEPT !.timers[animated] = @ - 1]
  IN  IF h.superview THEN DismissAnimated(fired, animated) ELSE fired

FadeOwed(h, in) == IF in THEN h.fadesIn > 0 ELSE h.fadesOut > 0

(* The completion block of a fade (in or out) runs: animationFinished *)
(* goes by what _presenting says now, not by the fade that has finished.    *)
AnimationFinished(h, in) ==
  LET run == IF in THEN [h EXCEPT !.fadesIn = @ - 1]
                   ELSE [h EXCEPT !.fadesOut = @ - 1]
  IN  IF h.presenting THEN CleanUpAfterPresentation(run)
                      ELSE CleanUpAfterDismissal(run)

(* A HUD at rest takes every touch of the view it covers (interaction type  *)
(* BlockAllTouches, the default).  While it fades its view is being         *)
(* animated without UIViewAnimationOptionAllowUserInteraction, which UIKit  *)
(* leaves out of hit testing: touches then reach the controls below.        *)
BlocksTouches(h) == h.superview /\ ~h.transitioning

-----------------------------------------------------------------------------
(* animationFinished reads _presenting when the fade ends, so it is only    *)
(* right if the fade that ends is the last one started: there is one fade   *)
(* in flight during a transition and none outside one, _presenting tells    *)
(* its direction, and the HUD is in its view until it has faded out.        *)
OneFade(h) ==
  /\ h.fadesIn = IF h.transitioning /\ h.presenting THEN 1 ELSE 0
  /\ h.fadesOut = IF h.transitioning /\ ~h.presenting THEN 1 ELSE 0
  /\ h.superview = h.targetView
  /\ h.transitioning => h.superview

(* A dismissal remembered during a transition belongs to that transition:   *)
(* once the HUD is at rest nothing is remembered, so the next presentation  *)
(* is not taken down by a dismissal of an earlier one.                      *)
NothingStale(h) ==
  /\ h.dismissAfter => h.transitioning
  /\ h.dismissAnim => h.dismissAfter

(* A dismissal of the HUD is under way or done: it is off the screen,       *)
(* fading out, or fading in with the dismissal remembered.                  *)
Leaving(h) ==
  \/ ~h.superview
  \/ h.transitioning /\ (~h.presenting \/ h.dismissAfter)

Coherent(h) == h \in HUDState /\ OneFade(h) /\ NothingStale(h)
=============================================================================
