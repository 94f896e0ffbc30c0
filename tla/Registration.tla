---------------------------- MODULE Registration ----------------------------
(* RegistrationViewController and its RegisterViewModel: the form, the      *)
(* register button it enables, and the chain of asynchronous calls a tap    *)
(* starts: create the account (Firebase Auth), upload the picture and ask   *)
(* for its URL (Storage), save the profile document (Firestore), under one  *)
(* progress HUD that the isRegistering binding shows and dismisses.         *)
(*                                                                          *)
(* Handlers and completion blocks run on the main thread, one atomic step   *)
(* each.  FirebaseAuth sets the current user on its own queue, before the   *)
(* completion block of createUser is run: those are two steps.  The form    *)
(* and the current user are shared by all attempts, which read them when    *)
(* their turn comes, not when they were started.                            *)
EXTENDS JGProgressHUD, Sequences, FiniteSets

CONSTANTS
  Names, Emails, Passwords,  \* texts a user types; an account's uid is its email
  Empty,                     \* a field that is nil or ""
  Nobody,                    \* no current user
  NoProfile,                 \* no document
  MaxAttempts                \* bound: registrations started

ASSUME RegistrationAssumption ==
  /\ Empty \notin Names \cup Emails \cup Passwords
  /\ Nobody \notin Emails
  /\ MaxAttempts \in Nat

VARIABLES
  fullName, email, pass, confirmPass,  \* the view model's fields
  image,          \* its image: none, one that encodes, one that does not
  isFormValid,    \* its value, which is also registerBtn.isEnabled
  isRegistering,  \* its value
  picker,         \* the image picker is presented
  hud,            \* hudView
  detail,         \* whose error is hudView's detail text, 0 for no text
  attempts,       \* every registration started
  accounts,       \* the emails Auth has accounts for
  currentUser,    \* Auth.auth().currentUser
  stored,         \* the images in Storage, by the attempt that put them there
  firestoreUser,  \* the user the Firestore client runs for
  writes,         \* its queues of writes not yet acknowledged, one per user
  profiles,       \* the collection "users", by uid
  signIns,        \* history: the attempts that signed in, in that order
  shielded        \* history: the last attempt found the HUD off and quiet

form == <<fullName, email, pass, confirmPass, isFormValid>>
firestore == <<firestoreUser, writes>>
server == <<accounts, stored, profiles>>
vars == <<form, image, isRegistering, picker, hud, detail, attempts,
          currentUser, firestore, server, signIns, shielded>>

Stages == {"creating",   \* createUser has been called
           "signedIn",   \* the account is the current user, callback to come
           "refused",    \* createUser failed, callback to come
           "uploading", "linking", "saving", "saved",
           "failed",     \* a call has failed and completion(error) has run
           "silent"}     \* given up without a word to the completion block

Profile == [name: Names \cup {Empty}, image: 1..MaxAttempts]

TypeOK ==
  /\ fullName \in Names \cup {Empty}
  /\ email \in Emails \cup {Empty}
  /\ pass \in Passwords \cup {Empty}
  /\ confirmPass \in Passwords \cup {Empty}
  /\ image \in {"none", "photo", "unencodable"}
  /\ isFormValid \in BOOLEAN /\ isRegistering \in BOOLEAN /\ picker \in BOOLEAN
  /\ hud \in HUDState
  /\ detail \in 0..Len(attempts)
  /\ attempts \in Seq([email: Emails \cup {Empty}, stage: Stages])
  /\ accounts \subseteq Emails
  /\ currentUser \in accounts \cup {Nobody}
  /\ stored \subseteq 1..Len(attempts)
  /\ firestoreUser \in accounts \cup {Nobody}
  /\ writes \in [Emails \cup {Nobody} -> Seq([uid: Emails, profile: Profile])]
  /\ profiles \in [Emails -> Profile \cup {NoProfile}]
  /\ signIns \in Seq(1..Len(attempts))
  /\ shielded \in BOOLEAN

(* The app may have been launched with a user signed in earlier.            *)
Init ==
  /\ fullName = Empty /\ email = Empty /\ pass = Empty /\ confirmPass = Empty
  /\ image = "none"
  /\ isFormValid = FALSE /\ isRegistering = FALSE /\ picker = FALSE
  /\ hud = NewHUD
  /\ detail = 0
  /\ attempts = <<>>
  /\ accounts \in SUBSET Emails
  /\ currentUser \in accounts \cup {Nobody}
  /\ stored = {}
  /\ firestoreUser = currentUser
  /\ writes = [u \in Emails \cup {Nobody} |-> <<>>]
  /\ profiles = [u \in Emails |-> NoProfile]
  /\ signIns = <<>>
  /\ shielded = TRUE

-----------------------------------------------------------------------------
(* The form.  A text field that got the focus during a fade of the HUD can  *)
(* be typed into while the HUD is at rest (the keyboard is not under it):   *)
(* editing only stops while the picker covers the screen.                   *)
FormComplete(n, e, p, c) ==
  n # Empty /\ e # Empty /\ p # Empty /\ c # Empty /\ c = p

EditUnchanged == UNCHANGED <<image, isRegistering, picker, hud, detail, attempts,
                             currentUser, firestore, server, signIns, shielded>>

EditName(v) ==
  /\ ~picker
  /\ fullName' = v
  /\ isFormValid' = FormComplete(v, email, pass, confirmPass)
  /\ UNCHANGED <<email, pass, confirmPass>> /\ EditUnchanged

EditEmail(v) ==
  /\ ~picker
  /\ email' = v
  /\ isFormValid' = FormComplete(fullName, v, pass, confirmPass)
  /\ UNCHANGED <<fullName, pass, confirmPass>> /\ EditUnchanged

(* The password field without isFormValidCheck in its didSet.               *)
EditPassUnchecked(v) ==
  /\ ~picker
  /\ pass' = v
  /\ UNCHANGED <<fullName, email, confirmPass, isFormValid>> /\ EditUnchanged

EditPass(v) ==
  /\ ~picker
  /\ pass' = v
  /\ isFormValid' = FormComplete(fullName, email, v, confirmPass)
  /\ UNCHANGED <<fullName, email, confirmPass>> /\ EditUnchanged

EditConfirmPass(v) ==
  /\ ~picker
  /\ confirmPass' = v
  /\ isFormValid' = FormComplete(fullName, email, pass, v)
  /\ UNCHANGED <<fullName, email, pass>> /\ EditUnchanged

Touchable == ~picker /\ ~BlocksTouches(hud)

OpenPicker ==
  /\ Touchable
  /\ picker' = TRUE
  /\ UNCHANGED <<form, image, isRegistering, hud, detail, attempts, currentUser,
                 firestore, server, signIns, shielded>>

(* didFinishPickingMediaWithInfo, with or without an image, and didCancel.  *)
ClosePicker ==
  /\ picker
  /\ picker' = FALSE
  /\ image' \in {image, "photo", "unencodable"}
  /\ UNCHANGED <<form, isRegistering, hud, detail, attempts, currentUser, firestore,
                 server, signIns, shielded>>

-----------------------------------------------------------------------------
(* The isRegistering observer: TRUE shows the HUD; FALSE dismisses it two   *)
(* seconds later.                                                           *)
HUDWhile(on) == IF on THEN ShowInView(hud, TRUE) ELSE DismissAfterDelay(hud, TRUE)

(* preformRegistration's own test, apart from isFormValidCheck's.           *)
Submittable == email # Empty /\ pass # Empty /\ confirmPass # Empty
               /\ confirmPass = pass

(* registerBtnHandle, with all of preformRegistration up to the first await.*)
Register ==
  LET shown == HUDWhile(TRUE)
      a == Len(attempts) + 1
  IN
  /\ Touchable
  /\ isFormValid
  /\ Len(attempts) < MaxAttempts
  /\ attempts' = Append(attempts, [email |-> email,
                   stage |-> IF Submittable THEN "creating" ELSE "failed"])
  /\ isRegistering' = Submittable
  /\ hud' = IF Submittable THEN shown ELSE DismissAfterDelay(shown, TRUE)
  /\ detail' = IF Submittable THEN detail ELSE a
  /\ shielded' = (hud = [NewHUD EXCEPT !.presenting = hud.presenting])
  /\ UNCHANGED <<form, image, picker, currentUser, firestore, server, signIns>>

Becomes(a, stage) == attempts' = [attempts EXCEPT ![a].stage = stage]

(* Auth creates the account and signs it in.                                *)
AccountCreated(a) ==
  /\ attempts[a].stage = "creating"
  /\ attempts[a].email \notin accounts
  /\ accounts' = accounts \cup {attempts[a].email}
  /\ currentUser' = attempts[a].email
  /\ Becomes(a, "signedIn")
  /\ signIns' = Append(signIns, a)
  /\ UNCHANGED <<form, image, isRegistering, picker, hud, detail, firestore, stored,
                 profiles, shielded>>

(* Auth refuses (the email is in use, the network fails), or the account    *)
(* exists and the answer is lost or the keychain cannot keep it.            *)
AccountRefused(a) ==
  /\ attempts[a].stage = "creating"
  /\ accounts' \in {accounts, accounts \cup {attempts[a].email}}
  /\ Becomes(a, "refused")
  /\ UNCHANGED <<form, image, isRegistering, picker, hud, detail, currentUser,
                 firestore, stored, profiles, signIns, shielded>>

(* What the callback of createUser goes on with when it ignores the error.  *)
AfterCreateUnchecked(a) == IF image = "photo" THEN "uploading" ELSE "silent"

(* What it goes on with: on an error completion(error); otherwise           *)
(* saveImageToFirebase starts the upload, or returns without a word if      *)
(* there is no image or none that can be encoded.                           *)
AfterCreate(a) ==
  IF attempts[a].stage = "refused" THEN "failed"
  ELSE IF image = "photo" THEN "uploading" ELSE "silent"

(* The reset of isRegistering only when the account has been created.       *)
ResetOnSuccess(a) ==
  IF attempts[a].stage = "refused"
  THEN detail' = a /\ UNCHANGED <<isRegistering, hud>>
  ELSE isRegistering' = FALSE /\ hud' = HUDWhile(FALSE) /\ detail' = 0

(* isRegistering.value = false, the callback's last statement: its observer *)
(* wipes the error that completion(error) has just put into the HUD.        *)
Reset(a) ==
  /\ isRegistering' = FALSE
  /\ hud' = HUDWhile(FALSE)
  /\ detail' = 0

(* The main queue runs, in the order of the sign-ins, Auth's notification   *)
(* of the new user, which makes the Firestore client change to that user's  *)
(* queue of writes, and then the callback; the callback of a refused        *)
(* createUser comes at any time.                                            *)
NextOnMainQueue(a) ==
  \A i, j \in DOMAIN signIns :
    signIns[i] = a /\ j < i => attempts[signIns[j]].stage # "signedIn"

CreateUserCallback(a) ==
  /\ attempts[a].stage \in {"refused", "signedIn"}
  /\ NextOnMainQueue(a)
  /\ Becomes(a, AfterCreate(a))
  /\ Reset(a)
  /\ firestoreUser' = IF attempts[a].stage = "signedIn" THEN attempts[a].email
                      ELSE firestoreUser
  /\ UNCHANGED <<form, image, picker, currentUser, writes, server, signIns, shielded>>

-----------------------------------------------------------------------------
(* The end of the upload.  A failed upload may have left the image behind.  *)
Uploaded(a) ==
  /\ attempts[a].stage = "uploading"
  /\ stored' = stored \cup {a}
  /\ Becomes(a, "linking")
  /\ UNCHANGED <<form, image, isRegistering, picker, hud, detail, currentUser,
                 firestore, accounts, profiles, signIns, shielded>>

Failed(a) ==
  /\ Becomes(a, "failed")
  /\ detail' = a
  /\ UNCHANGED <<form, image, isRegistering, picker, hud, currentUser,
                 firestoreUser, accounts, profiles, signIns, shielded>>

UploadFailed(a) ==
  /\ attempts[a].stage = "uploading"
  /\ stored' \in {stored, stored \cup {a}}
  /\ Failed(a)
  /\ UNCHANGED writes

NoURL(a) ==
  /\ attempts[a].stage = "linking"
  /\ Failed(a)
  /\ UNCHANGED <<stored, writes>>

(* The document of whoever is the current user now, with the name that is   *)
(* in the form now, queued for the user the Firestore client runs for.      *)
Queue(w) == writes' = [writes EXCEPT ![firestoreUser] = Append(@, w)]

ProfileNow(a) == [uid |-> currentUser, profile |-> [name |-> fullName, image |-> a]]

(* The callbacks chained so that the profile does not wait for the upload.  *)
SaveInfoEarly(a) ==
  /\ attempts[a].stage \in {"uploading", "linking"}
  /\ Becomes(a, "saving")
  /\ Queue(ProfileNow(a))
  /\ UNCHANGED <<form, image, isRegistering, picker, hud, detail, currentUser,
                 firestoreUser, server, signIns, shielded>>

(* The URL has come: saveInfoToFirestore queues the document, or returns    *)
(* without a word if nobody is signed in.                                   *)
SaveInfo(a) ==
  /\ attempts[a].stage = "linking"
  /\ Becomes(a, IF currentUser = Nobody THEN "silent" ELSE "saving")
  /\ IF currentUser = Nobody THEN UNCHANGED writes ELSE Queue(ProfileNow(a))
  /\ UNCHANGED <<form, image, isRegistering, picker, hud, detail, currentUser,
                 firestoreUser, server, signIns, shielded>>

(* Firestore sends the writes of its present user, in order.  The server    *)
(* applies the first of them: its acknowledgement arrives, or is lost with  *)
(* the connection and the write is sent again.                              *)
Sent == writes[firestoreUser]

Applied == profiles' = [profiles EXCEPT ![Head(Sent).uid] = Head(Sent).profile]

Dequeued == writes' = [writes EXCEPT ![firestoreUser] = Tail(@)]

WriteUnacknowledged ==
  /\ Sent # <<>>
  /\ Applied
  /\ UNCHANGED <<form, image, isRegistering, picker, hud, detail, attempts,
                 currentUser, firestore, accounts, stored, signIns, shielded>>

WriteAcknowledged ==
  /\ Sent # <<>>
  /\ Applied /\ Dequeued
  /\ Becomes(Head(Sent).profile.image, "saved")
  /\ UNCHANGED <<form, image, isRegistering, picker, hud, detail, currentUser,
                 firestoreUser, accounts, stored, signIns, shielded>>

WriteRejected ==
  /\ Sent # <<>>
  /\ Dequeued
  /\ Failed(Head(Sent).profile.image)
  /\ UNCHANGED stored

HUDStep ==
  /\ \/ hud.timers[TRUE] > 0 /\ hud' = TimerFires(hud, TRUE)
     \/ \E in \in BOOLEAN : FadeOwed(hud, in) /\ hud' = AnimationFinished(hud, in)
  /\ UNCHANGED <<form, image, isRegistering, picker, detail, attempts, currentUser,
                 firestore, server, signIns, shielded>>

User ==
  \/ \E v \in Names \cup {Empty} : EditName(v)
  \/ \E v \in Emails \cup {Empty} : EditEmail(v)
  \/ \E v \in Passwords \cup {Empty} : EditPass(v) \/ EditConfirmPass(v)
  \/ OpenPicker \/ ClosePicker \/ Register

Firebase(a) == \/ AccountCreated(a) \/ AccountRefused(a) \/ CreateUserCallback(a)
               \/ Uploaded(a) \/ UploadFailed(a) \/ NoURL(a) \/ SaveInfo(a)

Next == \/ User
        \/ \E a \in DOMAIN attempts : Firebase(a)
        \/ WriteUnacknowledged \/ WriteAcknowledged \/ WriteRejected
        \/ HUDStep

(* Auth and Storage end every call, with an error if need be, and UIKit and *)
(* the main queue run the blocks they were given.  A write may wait for the *)
(* network for ever, and nothing obliges the user to do anything.           *)
Fairness == /\ \A a \in 1..MaxAttempts : WF_vars(a \in DOMAIN attempts /\ Firebase(a))
            /\ WF_vars(HUDStep)

Spec == Init /\ [][Next]_vars /\ Fairness

-----------------------------------------------------------------------------
(* The button is enabled exactly when the form as it stands is complete,    *)
(* and then preformRegistration's own, separately coded test passes: a tap  *)
(* never ends in its error 500.                                             *)
FormGate ==
  /\ isFormValid = FormComplete(fullName, email, pass, confirmPass)
  /\ isFormValid => Submittable

(* A profile that other users can fetch never names a picture that is not   *)
(* in Storage, however the attempts interleave and fail.                    *)
PictureOfProfileStored ==
  \A u \in Emails : profiles[u] # NoProfile => profiles[u].image \in stored

(* An attempt writes the profile of an account signed in by itself or by an *)
(* attempt that signed in after it, never of an earlier account or of the   *)
(* user the app was launched with.  (It may be a later one's: the current   *)
(* user is read when the URL arrives.)                                      *)
SignedInNoEarlier(a, u) ==
  \E i, j \in DOMAIN signIns :
    signIns[i] = a /\ i <= j /\ attempts[signIns[j]].email = u

ProfileOwner ==
  /\ \A u \in Emails :
       profiles[u] # NoProfile => SignedInNoEarlier(profiles[u].image, u)
  /\ \A q \in DOMAIN writes : \A i \in DOMAIN writes[q] :
       SignedInNoEarlier(writes[q][i].profile.image, writes[q][i].uid)

(* isRegistering is not left on: while it is, createUser is still to call   *)
(* back for some attempt.                                                   *)
RegisteringPending ==
  isRegistering =>
    \E a \in DOMAIN attempts :
      attempts[a].stage \in {"creating", "signedIn", "refused"}

(* An error shown on the HUD is one of an attempt whose account exists, so  *)
(* that trying again with the same email cannot succeed; the errors of      *)
(* createUser itself are wiped before they are seen.                        *)
ErrorShownAfterAccount ==
  detail # 0 => attempts[detail].email \in accounts

(* While an attempt that found the HUD off and quiet is registering, the    *)
(* HUD is on the screen and nothing is about to take it off.  (An attempt   *)
(* that did not find it so may run without it: a show during the fade out   *)
(* is dropped, and a delayed dismissal of an earlier attempt takes it off.) *)
HUDWhileRegistering ==
  isRegistering /\ shielded => hud.superview /\ ~Leaving(hud)

(* The HUD follows the attempts, overlapping ones included: it is there     *)
(* while one registers, is not kept once none does, and shows only errors   *)
(* of attempts that got past createUser.                                    *)
HUDFollowsAttempts ==
  RegisteringPending /\ HUDWhileRegistering /\ ErrorShownAfterAccount
=============================================================================
