---------------------------- MODULE ProgressHUD ----------------------------
(* One JGProgressHUD object driven by an arbitrary client: any sequence of  *)
(* showInView:animated:, dismissAnimated: and dismissAfterDelay:animated:   *)
(* calls, interleaved in every order with the fade completions and the      *)
(* delayed dismissals that the calls have started.  The names say that it   *)
(* is a HUD alone: the lemmas that the proofs about the screens share       *)
(* extend this module.                                                      *)
EXTENDS JGProgressHUD

CONSTANT
  MaxTimers   \* bound: delayed dismissals pending at once, per "animated"

ASSUME MaxTimersAssumption == MaxTimers \in Nat

VARIABLES
  lone,       \* the HUD
  asked       \* history: what the HUD was last told, "nothing" at first

loneVars == <<lone, asked>>

LoneTypeOK == /\ lone \in HUDState
              /\ asked \in {"nothing", "show", "dismiss"}

LoneInit == /\ lone = NewHUD
            /\ asked = "nothing"

Show(animated) ==
  /\ lone' = ShowInView(lone, animated)
  /\ asked' = "show"

Dismiss(animated) ==
  /\ lone' = DismissAnimated(lone, animated)
  /\ asked' = "dismiss"

DismissLater(animated) ==
  /\ lone.timers[animated] < MaxTimers
  /\ lone' = DismissAfterDelay(lone, animated)
  /\ UNCHANGED asked

(* A block that finds the HUD off the screen tells it nothing.              *)
DelayElapses(animated) ==
  /\ lone.timers[animated] > 0
  /\ lone' = TimerFires(lone, animated)
  /\ asked' = IF lone.superview THEN "dismiss" ELSE asked

FadeEnds(in) ==
  /\ FadeOwed(lone, in)
  /\ lone' = AnimationFinished(lone, in)
  /\ UNCHANGED asked

LoneNext ==
  \E b \in BOOLEAN :
    Show(b) \/ Dismiss(b) \/ DismissLater(b) \/ DelayElapses(b) \/ FadeEnds(b)

(* dispatch_after runs its block and UIKit runs a completion block; nothing *)
(* forces the client to call the HUD.                                       *)
LoneFairness ==
  \A b \in BOOLEAN : WF_loneVars(DelayElapses(b)) /\ WF_loneVars(FadeEnds(b))

LoneSpec == LoneInit /\ [][LoneNext]_loneVars /\ LoneFairness

-----------------------------------------------------------------------------
(* One fade at a time, in the direction _presenting says (OneFade): the     *)
(* tests of _transitioning in show and dismiss are what keeps a fade's      *)
(* completion from being taken for the other one's.                         *)
OneFadeInFlight == OneFade(lone)

(* No dismissal outlives the presentation it was meant for (NothingStale).  *)
NoStaleDismissal == NothingStale(lone)

(* What the code reads of itself when a fade ends is true: the fade that    *)
(* ended is the one _presenting describes, and the dismissal remembered is  *)
(* of this presentation.                                                    *)
FadesCoherent == OneFadeInFlight /\ NoStaleDismissal

(* A HUD last told to leave does not stay, whatever it was doing when told. *)
DismissHonoured == asked = "dismiss" => Leaving(lone)

(* A dismissal, immediate or delayed, takes the HUD off the screen however  *)
(* it interleaves with fades and with later calls of showInView:.           *)
DismissedEventually ==
  /\ asked = "dismiss" ~> ~lone.superview
  /\ \A a \in BOOLEAN : lone.timers[a] > 0 ~> ~lone.superview

(* What JGProgressHUD.h says of showInView:animated: ("Shows the HUD."): a  *)
(* HUD that was last told to show is on the screen once it is at rest.  The *)
(* code does not do this: a call made while the HUD fades out is dropped.   *)
ShowHonoured ==
  asked = "show" /\ ~lone.transitioning => lone.superview
=============================================================================
