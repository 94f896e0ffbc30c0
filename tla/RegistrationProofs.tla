-------------------------- MODULE RegistrationProofs --------------------------
(* Type correctness of Registration, the agreement of the button with the   *)
(* check behind it, whose profile is written and with which picture, and    *)
(* what the HUD says and hides, for any names, emails and passwords and any *)
(* number of registrations that overlap.                                    *)
EXTENDS Registration, Lemmas

Attempt == [email: Emails \cup {Empty}, stage: Stages]

Write == [uid: Emails, profile: Profile]

(* Who waits for createUser has an email to create an account for; who got  *)
(* past it has signed in; whose URL is asked for has a picture in Storage.  *)
AttemptSound(a) ==
  /\ attempts[a].stage = "creating" => attempts[a].email \in Emails
  /\ attempts[a].stage \in {"signedIn", "uploading", "linking"} =>
       \E i \in 1..Len(signIns) : signIns[i] = a
  /\ attempts[a].stage = "linking" => a \in stored

AttemptsSound ==
  /\ Len(attempts) <= MaxAttempts
  /\ \A a \in 1..Len(attempts) : AttemptSound(a)

(* The current user is the one who signed in last.                          *)
SignInsSound ==
  /\ \A i \in 1..Len(signIns) : attempts[signIns[i]].email \in accounts
  /\ Len(signIns) > 0 => currentUser = attempts[signIns[Len(signIns)]].email

(* A queued profile names a stored picture, is not of an earlier account,   *)
(* and its attempt waits for nothing but the answer to it.                  *)
Settling == {"saving", "saved", "failed"}

WriteSound(w) ==
  /\ w.profile.image \in 1..Len(attempts)
  /\ w.profile.image \in stored
  /\ attempts[w.profile.image].stage \in Settling
  /\ SignedInNoEarlier(w.profile.image, w.uid)

WritesSound ==
  \A q \in Emails \cup {Nobody} : \A i \in 1..Len(writes[q]) : WriteSound(writes[q][i])

ProfilesSound ==
  \A u \in Emails : profiles[u] # NoProfile =>
    /\ profiles[u].image \in stored
    /\ SignedInNoEarlier(profiles[u].image, u)

(* The HUD of an attempt that found it off and quiet: nothing that would    *)
(* take it off is pending.                                                  *)
HUDHeld == isRegistering /\ shielded => StaysShown(hud)

(* What a step does not take back.                                          *)
Kept ==
  /\ Len(attempts) <= Len(attempts')
  /\ \A a \in 1..Len(attempts) :
       /\ attempts'[a].email = attempts[a].email
       /\ attempts[a].stage \in Settling => attempts'[a].stage \in Settling
  /\ Len(signIns) <= Len(signIns')
  /\ \A i \in 1..Len(signIns) : signIns'[i] = signIns[i]
  /\ accounts \subseteq accounts'
  /\ stored \subseteq stored'

Sound == /\ TypeOK /\ Coherent(hud)
         /\ AttemptsSound /\ SignInsSound /\ WritesSound /\ ProfilesSound

RegistrationInv ==
  /\ Sound
  /\ FormGate /\ RegisteringPending /\ ErrorShownAfterAccount /\ HUDHeld

LEMMA SoundInit == Init => RegistrationInv
<1> SUFFICES ASSUME Init PROVE RegistrationInv
  OBVIOUS
<1>1. Coherent(hud) /\ hud \in HUDState
  BY NewHUDCoherent DEF Init, Coherent
<1>2. TypeOK
  <2>1. /\ fullName \in Names \cup {Empty} /\ email \in Emails \cup {Empty}
        /\ pass \in Passwords \cup {Empty} /\ confirmPass \in Passwords \cup {Empty}
        /\ image \in {"none", "photo", "unencodable"}
        /\ isFormValid \in BOOLEAN /\ isRegistering \in BOOLEAN /\ picker \in BOOLEAN
        /\ shielded \in BOOLEAN
    BY DEF Init
  <2>2. /\ attempts \in Seq([email: Emails \cup {Empty}, stage: Stages])
        /\ signIns \in Seq(1..Len(attempts)) /\ detail \in 0..Len(attempts)
        /\ stored \subseteq 1..Len(attempts)
    BY DEF Init
  <2>3. /\ accounts \subseteq Emails /\ currentUser \in accounts \cup {Nobody}
        /\ firestoreUser \in accounts \cup {Nobody}
    BY DEF Init
  <2>4. writes \in [Emails \cup {Nobody} -> Seq([uid: Emails, profile: Profile])]
    BY DEF Init
  <2>5. profiles \in [Emails -> Profile \cup {NoProfile}]
    BY DEF Init
  <2> QED BY <1>1, <2>1, <2>2, <2>3, <2>4, <2>5, Zenon DEF TypeOK
<1>3. AttemptsSound /\ SignInsSound /\ WritesSound /\ ProfilesSound
  BY RegistrationAssumption DEF Init, AttemptsSound, SignInsSound, WritesSound,
                                ProfilesSound
<1>4. FormGate /\ RegisteringPending /\ ErrorShownAfterAccount /\ HUDHeld
  BY DEF Init, FormGate, FormComplete, RegisteringPending, ErrorShownAfterAccount,
         HUDHeld
<1> QED BY <1>1, <1>2, <1>3, <1>4 DEF RegistrationInv, Sound

LEMMA Types ==
  ASSUME TypeOK
  PROVE  /\ attempts \in Seq(Attempt) /\ Len(attempts) \in Nat
         /\ DOMAIN attempts = 1..Len(attempts)
         /\ signIns \in Seq(1..Len(attempts)) /\ Len(signIns) \in Nat
         /\ DOMAIN signIns = 1..Len(signIns)
         /\ writes \in [Emails \cup {Nobody} -> Seq(Write)]
<1>1. attempts \in Seq(Attempt) /\ writes \in [Emails \cup {Nobody} -> Seq(Write)]
  BY Zenon DEF TypeOK, Attempt, Write
<1>2. signIns \in Seq(1..Len(attempts))
  BY Zenon DEF TypeOK
<1> QED BY <1>1, <1>2

(* One attempt goes on to another stage.                                    *)
LEMMA Moves ==
  ASSUME TypeOK, NEW a \in 1..Len(attempts), NEW s \in Stages, Becomes(a, s)
  PROVE  /\ attempts' \in Seq(Attempt) /\ Len(attempts') = Len(attempts)
         /\ attempts'[a].stage = s
         /\ \A b \in 1..Len(attempts) : attempts'[b].email = attempts[b].email
         /\ \A b \in 1..Len(attempts) : b # a => attempts'[b] = attempts[b]
<1> DEFINE r == [attempts[a] EXCEPT !.stage = s]
<1>1. attempts[a] \in Attempt
  BY Types
<1>2. r \in Attempt /\ r.stage = s /\ r.email = attempts[a].email
  BY <1>1 DEF Attempt
<1>3. attempts' = [attempts EXCEPT ![a] = r]
  BY DEF Becomes
<1> HIDE DEF r
<1> QED BY <1>2, <1>3, Types

(* A new attempt.                                                           *)
LEMMA Starts ==
  ASSUME TypeOK, Register
  PROVE  LET n == Len(attempts) + 1
         IN  /\ attempts' \in Seq(Attempt) /\ Len(attempts') = n
             /\ attempts'[n].email = email
             /\ attempts'[n].stage = IF Submittable THEN "creating" ELSE "failed"
             /\ \A b \in 1..Len(attempts) : attempts'[b] = attempts[b]
<1> DEFINE r == [email |-> email, stage |-> IF Submittable THEN "creating" ELSE "failed"]
<1>1. r \in Attempt
  BY DEF TypeOK, Attempt, Stages
<1>2. attempts' = Append(attempts, r)
  BY DEF Register
<1>3. r.email = email /\ r.stage = IF Submittable THEN "creating" ELSE "failed"
  OBVIOUS
<1> HIDE DEF r
<1> QED BY <1>1, <1>2, <1>3, Types

(* The first write of the queue that is being sent.                         *)
LEMMA Oldest ==
  ASSUME TypeOK, WritesSound, Sent # <<>>
  PROVE  /\ firestoreUser \in Emails \cup {Nobody}
         /\ Sent \in Seq(Write) /\ Sent = writes[firestoreUser]
         /\ Head(Sent) \in Write /\ WriteSound(Head(Sent))
<1>1. firestoreUser \in Emails \cup {Nobody}
  BY DEF TypeOK
<1>2. Sent \in Seq(Write) /\ Sent = writes[firestoreUser]
  BY <1>1, Types DEF Sent
<1>3. 1 \in 1..Len(Sent) /\ Head(Sent) = Sent[1]
  BY <1>2
<1>4. Head(Sent) \in Write
  BY <1>2, <1>3
<1> QED BY <1>1, <1>2, <1>3, <1>4 DEF WritesSound

(* Every step but these leaves the attempts, the sign-ins and what is       *)
(* stored alone.                                                            *)
Elsewhere == UNCHANGED <<attempts, signIns, accounts, stored, currentUser>>

LEMMA Steps ==
  ASSUME [Next]_vars
  PROVE  \/ Register
         \/ \E a \in DOMAIN attempts : Firebase(a)
         \/ WriteAcknowledged \/ WriteRejected
         \/ Elsewhere
<1>1. ASSUME NEW v, EditName(v) \/ EditEmail(v) \/ EditPass(v) \/ EditConfirmPass(v)
      PROVE  Elsewhere
  BY <1>1 DEF EditName, EditEmail, EditPass, EditConfirmPass, EditUnchanged, server,
              Elsewhere
<1>2. ASSUME OpenPicker \/ ClosePicker \/ WriteUnacknowledged \/ HUDStep
      PROVE  Elsewhere
  BY <1>2 DEF OpenPicker, ClosePicker, WriteUnacknowledged, HUDStep, server, Elsewhere
<1>3. ASSUME UNCHANGED vars PROVE Elsewhere
  BY <1>3 DEF vars, server, Elsewhere
<1> QED BY <1>1, <1>2, <1>3 DEF Next, User

(* Emails stay, attempts that have settled stay settled, sign-ins and       *)
(* pictures are only added.                                                 *)
LEMMA KeptNext == Sound /\ [Next]_vars => Kept
<1> SUFFICES ASSUME Sound, [Next]_vars PROVE Kept
  OBVIOUS
<1>0. /\ TypeOK /\ WritesSound
      /\ Len(attempts) \in Nat /\ Len(signIns) \in Nat
      /\ DOMAIN attempts = 1..Len(attempts)
  BY Types DEF Sound
<1>1. CASE Elsewhere
  BY <1>0, <1>1 DEF Elsewhere, Kept
<1>2. CASE Register
  BY <1>0, <1>2, Starts DEF Register, server, Kept
<1>3. ASSUME NEW a \in 1..Len(attempts), NEW s \in Stages, Becomes(a, s),
             attempts[a].stage \in Settling => s \in Settling,
             Len(signIns) <= Len(signIns'),
             \A i \in 1..Len(signIns) : signIns'[i] = signIns[i],
             accounts \subseteq accounts', stored \subseteq stored'
      PROVE  Kept
  <2>1. /\ Len(attempts') = Len(attempts) /\ attempts'[a].stage = s
        /\ \A b \in 1..Len(attempts) : attempts'[b].email = attempts[b].email
        /\ \A b \in 1..Len(attempts) : b # a => attempts'[b] = attempts[b]
    BY <1>0, <1>3, Moves
  <2>2. ASSUME NEW b \in 1..Len(attempts), attempts[b].stage \in Settling
        PROVE  attempts'[b].stage \in Settling
    BY <1>3, <2>1, <2>2
  <2>3. Len(attempts) <= Len(attempts')
    BY <1>0, <2>1
  <2> QED BY <1>3, <2>1, <2>2, <2>3, Zenon DEF Kept
<1>4. ASSUME NEW a \in 1..Len(attempts), AccountCreated(a) PROVE Kept
  <2>1. signIns' = Append(signIns, a) /\ a \in 1..Len(attempts)
    BY <1>4 DEF AccountCreated
  <2>2. /\ Len(signIns) <= Len(signIns')
        /\ \A i \in 1..Len(signIns) : signIns'[i] = signIns[i]
    BY <1>0, <2>1, Types
  <2> QED BY <1>3, <1>4, <2>2 DEF AccountCreated, Stages, Settling
<1>5. ASSUME NEW a \in 1..Len(attempts),
             \/ AccountRefused(a) \/ CreateUserCallback(a)
             \/ Uploaded(a) \/ UploadFailed(a) \/ NoURL(a) \/ SaveInfo(a)
      PROVE  Kept
  <2>1. PICK s \in Stages : Becomes(a, s) /\ (attempts[a].stage \in Settling => s \in Settling)
    BY <1>5 DEF AccountRefused, CreateUserCallback, AfterCreate, Uploaded, UploadFailed,
                NoURL, SaveInfo, Failed, Stages, Settling
  <2>2. signIns' = signIns /\ accounts \subseteq accounts' /\ stored \subseteq stored'
    BY <1>5 DEF AccountRefused, CreateUserCallback, Uploaded, UploadFailed, NoURL,
                SaveInfo, Failed, server
  <2> QED BY <1>0, <1>3, <2>1, <2>2
<1>6. ASSUME WriteAcknowledged \/ WriteRejected PROVE Kept
  <2>1. Head(Sent).profile.image \in 1..Len(attempts)
    BY <1>0, <1>6, Oldest DEF WriteAcknowledged, WriteRejected, WriteSound
  <2>2. PICK s \in {"saved", "failed"} : Becomes(Head(Sent).profile.image, s)
    BY <1>6 DEF WriteAcknowledged, WriteRejected, Failed
  <2>3. UNCHANGED <<signIns, accounts, stored>>
    BY <1>6 DEF WriteAcknowledged, WriteRejected, Failed
  <2> QED BY <1>0, <1>3, <2>1, <2>2, <2>3 DEF Stages, Settling
<1> QED BY <1>0, <1>1, <1>2, <1>4, <1>5, <1>6, Steps DEF Firebase

-----------------------------------------------------------------------------
(* What Kept carries over.                                                  *)
LEMMA OwnerKept ==
  ASSUME Sound, Kept, NEW a, NEW u, SignedInNoEarlier(a, u), TypeOK'
  PROVE  SignedInNoEarlier(a, u)'
<1>0. /\ DOMAIN signIns = 1..Len(signIns) /\ Len(signIns) \in Nat
      /\ DOMAIN signIns' = 1..Len(signIns') /\ Len(signIns') \in Nat
  BY Types DEF Sound, TypeOK
<1>1. PICK i \in 1..Len(signIns), j \in 1..Len(signIns) :
        signIns[i] = a /\ i <= j /\ attempts[signIns[j]].email = u
  BY <1>0 DEF SignedInNoEarlier
<1>2. i \in 1..Len(signIns') /\ j \in 1..Len(signIns') /\ signIns'[i] = a
  BY <1>0, <1>1 DEF Kept
<1>3. signIns[j] \in 1..Len(attempts) /\ signIns'[j] = signIns[j]
  BY <1>0, <1>1, Types DEF Sound, Kept
<1>4. attempts'[signIns'[j]].email = u
  BY <1>1, <1>3 DEF Kept
<1> QED BY <1>0, <1>1, <1>2, <1>4 DEF SignedInNoEarlier

LEMMA WriteKept ==
  ASSUME Sound, Kept, NEW w, WriteSound(w), TypeOK'
  PROVE  WriteSound(w)'
<1>1. /\ w.profile.image \in 1..Len(attempts')
      /\ attempts'[w.profile.image].stage \in Settling
  <2>1. Len(attempts) \in Nat /\ Len(attempts') \in Nat
    BY Types DEF Sound, TypeOK
  <2> QED BY <2>1 DEF Kept, WriteSound
<1>2. w.profile.image \in stored'
  BY DEF Kept, WriteSound
<1>3. SignedInNoEarlier(w.profile.image, w.uid)'
  BY OwnerKept DEF WriteSound
<1> QED BY <1>1, <1>2, <1>3 DEF WriteSound

(* Who is past createUser writes, if anything, the profile of somebody who  *)
(* did not sign in before.                                                  *)
LEMMA OwnerNow ==
  ASSUME Sound, NEW a \in 1..Len(attempts), attempts[a].stage = "linking"
  PROVE  SignedInNoEarlier(a, currentUser) /\ a \in stored
<1>0. DOMAIN signIns = 1..Len(signIns) /\ Len(signIns) \in Nat
  BY Types DEF Sound
<1>1. AttemptSound(a)
  BY DEF Sound, AttemptsSound
<1>2. PICK i \in 1..Len(signIns) : signIns[i] = a
  BY <1>1 DEF AttemptSound
<1>3. Len(signIns) \in 1..Len(signIns) /\ i <= Len(signIns)
  BY <1>0
<1>4. currentUser = attempts[signIns[Len(signIns)]].email
  BY <1>0, <1>3 DEF Sound, SignInsSound
<1> QED BY <1>0, <1>1, <1>2, <1>3, <1>4 DEF SignedInNoEarlier, AttemptSound

(* A signed in attempt's email has an account, and so has its user.         *)
LEMMA SignedInAccount ==
  ASSUME Sound, NEW a \in 1..Len(attempts), NEW u, SignedInNoEarlier(a, u)
  PROVE  attempts[a].email \in accounts /\ u \in accounts
<1>1. DOMAIN signIns = 1..Len(signIns)
  BY Types DEF Sound
<1> QED BY <1>1 DEF SignedInNoEarlier, Sound, SignInsSound

-----------------------------------------------------------------------------
(* Type correctness.                                                        *)
FormTyped ==
  /\ fullName \in Names \cup {Empty} /\ email \in Emails \cup {Empty}
  /\ pass \in Passwords \cup {Empty} /\ confirmPass \in Passwords \cup {Empty}
  /\ image \in {"none", "photo", "unencodable"}
  /\ isFormValid \in BOOLEAN /\ isRegistering \in BOOLEAN /\ picker \in BOOLEAN
  /\ shielded \in BOOLEAN

AttemptsTyped ==
  /\ detail \in 0..Len(attempts)
  /\ attempts \in Seq(Attempt)
  /\ stored \subseteq 1..Len(attempts)
  /\ signIns \in Seq(1..Len(attempts))

ServerTyped ==
  /\ accounts \subseteq Emails
  /\ currentUser \in accounts \cup {Nobody}
  /\ firestoreUser \in accounts \cup {Nobody}
  /\ writes \in [Emails \cup {Nobody} -> Seq(Write)]
  /\ profiles \in [Emails -> Profile \cup {NoProfile}]

LEMMA TypeParts ==
  TypeOK <=> FormTyped /\ hud \in HUDState /\ AttemptsTyped /\ ServerTyped
  BY Zenon DEF TypeOK, FormTyped, AttemptsTyped, ServerTyped, Attempt, Write

LEMMA TypePartsNext ==
  TypeOK' <=> FormTyped' /\ (hud \in HUDState)' /\ AttemptsTyped' /\ ServerTyped'
  BY Zenon DEF TypeOK, FormTyped, AttemptsTyped, ServerTyped, Attempt, Write

LEMMA FormTypedNext ==
  ASSUME TypeOK, [Next]_vars PROVE FormTyped'
<1>0. FormTyped
  BY TypeParts
<1>1. ASSUME NEW v \in Names \cup {Empty}, EditName(v) PROVE FormTyped'
  BY <1>0, <1>1 DEF EditName, EditUnchanged, FormTyped, FormComplete
<1>2. ASSUME NEW v \in Emails \cup {Empty}, EditEmail(v) PROVE FormTyped'
  BY <1>0, <1>2 DEF EditEmail, EditUnchanged, FormTyped, FormComplete
<1>3. ASSUME NEW v \in Passwords \cup {Empty}, EditPass(v) \/ EditConfirmPass(v)
      PROVE  FormTyped'
  BY <1>0, <1>3 DEF EditPass, EditConfirmPass, EditUnchanged, FormTyped, FormComplete
<1>4. CASE OpenPicker \/ ClosePicker
  BY <1>0, <1>4 DEF OpenPicker, ClosePicker, FormTyped, form
<1>5. CASE Register
  BY <1>0, <1>5 DEF Register, FormTyped, form, Submittable
<1>6. ASSUME NEW a, Firebase(a) PROVE FormTyped'
  BY <1>0, <1>6 DEF Firebase, AccountCreated, AccountRefused, CreateUserCallback, Reset,
                    Uploaded, UploadFailed, NoURL, Failed, SaveInfo, FormTyped, form
<1>7. CASE WriteUnacknowledged \/ WriteAcknowledged \/ WriteRejected \/ HUDStep
  BY <1>0, <1>7 DEF WriteUnacknowledged, WriteAcknowledged, WriteRejected, Failed, HUDStep,
                    FormTyped, form
<1>8. CASE UNCHANGED vars
  BY <1>0, <1>8 DEF vars, form, FormTyped
<1> QED BY <1>1, <1>2, <1>3, <1>4, <1>5, <1>6, <1>7, <1>8 DEF Next, User

(* Every call on the HUD keeps it coherent.                                 *)
LEMMA HUDCoherentNext ==
  ASSUME Coherent(hud), [Next]_vars PROVE Coherent(hud')
<1>1. CASE Register
  <2>1. Coherent(HUDWhile(TRUE))
    BY ShowCoherent DEF HUDWhile
  <2>2. Coherent(DismissAfterDelay(HUDWhile(TRUE), TRUE))
    BY <2>1, DelayCoherent
  <2> QED BY <1>1, <2>1, <2>2 DEF Register
<1>2. ASSUME NEW a, CreateUserCallback(a) PROVE Coherent(hud')
  <2>1. Coherent(HUDWhile(FALSE))
    BY DelayCoherent DEF HUDWhile
  <2> QED BY <1>2, <2>1 DEF CreateUserCallback, Reset
<1>3. CASE HUDStep
  BY <1>3, TimerCoherent, FadeCoherent DEF HUDStep
<1>4. ASSUME NEW a,
             \/ AccountCreated(a) \/ AccountRefused(a) \/ Uploaded(a) \/ UploadFailed(a)
             \/ NoURL(a) \/ SaveInfo(a)
      PROVE  Coherent(hud')
  BY <1>4 DEF AccountCreated, AccountRefused, Uploaded, UploadFailed, NoURL, SaveInfo, Failed
<1>5. ASSUME WriteUnacknowledged \/ WriteAcknowledged \/ WriteRejected
      PROVE  Coherent(hud')
  BY <1>5 DEF WriteUnacknowledged, WriteAcknowledged, WriteRejected, Failed
<1>6. ASSUME NEW v, \/ EditName(v) \/ EditEmail(v) \/ EditPass(v) \/ EditConfirmPass(v)
                    \/ OpenPicker \/ ClosePicker
      PROVE  Coherent(hud')
  BY <1>6 DEF EditName, EditEmail, EditPass, EditConfirmPass, EditUnchanged, OpenPicker,
              ClosePicker
<1>7. CASE UNCHANGED vars
  BY <1>7 DEF vars
<1> QED BY <1>1, <1>2, <1>3, <1>4, <1>5, <1>6, <1>7 DEF Next, User, Firebase

LEMMA AttemptsTypedNext ==
  ASSUME Sound, [Next]_vars PROVE AttemptsTyped'
<1>0. /\ AttemptsTyped /\ TypeOK /\ WritesSound
      /\ Len(attempts) \in Nat /\ DOMAIN attempts = 1..Len(attempts)
  BY TypeParts, Types DEF Sound
<1>1. CASE Elsewhere /\ detail' = detail
  BY <1>0, <1>1 DEF Elsewhere, AttemptsTyped
<1>2. CASE Register
  <2>1. /\ attempts' \in Seq(Attempt) /\ Len(attempts') = Len(attempts) + 1
        /\ signIns' = signIns /\ stored' = stored
        /\ detail' \in {detail, Len(attempts) + 1}
    BY <1>0, <1>2, Starts DEF Register, server
  <2>2. 1..Len(attempts) \subseteq 1..Len(attempts')
    BY <1>0, <2>1
  <2>3. signIns' \in Seq(1..Len(attempts'))
    BY <1>0, <2>1, <2>2 DEF AttemptsTyped
  <2>4. detail' \in 0..Len(attempts')
    BY <1>0, <2>1 DEF AttemptsTyped
  <2> QED BY <1>0, <2>1, <2>2, <2>3, <2>4 DEF AttemptsTyped
<1>3. ASSUME NEW a \in 1..Len(attempts), NEW s \in Stages, Becomes(a, s),
             signIns' = signIns \/ signIns' = Append(signIns, a),
             stored' \in {stored, stored \cup {a}},
             detail' \in {detail, 0, a}
      PROVE  AttemptsTyped'
  <2>1. attempts' \in Seq(Attempt) /\ Len(attempts') = Len(attempts)
    BY <1>0, <1>3, Moves
  <2>2. signIns' \in Seq(1..Len(attempts))
    <3>1. signIns \in Seq(1..Len(attempts))
      BY <1>0 DEF AttemptsTyped
    <3>2. Append(signIns, a) \in Seq(1..Len(attempts))
      BY <3>1, <1>3
    <3> QED BY <1>3, <3>1, <3>2
  <2>3. detail' \in 0..Len(attempts) /\ stored' \subseteq 1..Len(attempts)
    BY <1>0, <1>3 DEF AttemptsTyped
  <2> QED BY <2>1, <2>2, <2>3 DEF AttemptsTyped
<1>4. ASSUME NEW a \in 1..Len(attempts), Firebase(a) PROVE AttemptsTyped'
  <2>1. CASE AccountCreated(a)
    BY <1>3, <2>1 DEF AccountCreated, Stages
  <2>2. CASE AccountRefused(a)
    BY <1>3, <2>2 DEF AccountRefused, Stages
  <2>3. CASE CreateUserCallback(a)
    BY <1>3, <2>3 DEF CreateUserCallback, AfterCreate, Reset, server, Stages
  <2>4. CASE Uploaded(a)
    BY <1>3, <2>4 DEF Uploaded, Stages
  <2>5. CASE UploadFailed(a) \/ NoURL(a)
    BY <1>3, <2>5 DEF UploadFailed, NoURL, Failed, Stages
  <2>6. CASE SaveInfo(a)
    BY <1>3, <2>6 DEF SaveInfo, server, Stages
  <2> QED BY <1>4, <2>1, <2>2, <2>3, <2>4, <2>5, <2>6 DEF Firebase
<1>5. CASE WriteAcknowledged \/ WriteRejected
  <2>1. Head(Sent).profile.image \in 1..Len(attempts)
    BY <1>0, <1>5, Oldest DEF WriteAcknowledged, WriteRejected, WriteSound
  <2> QED BY <1>3, <1>5, <2>1 DEF WriteAcknowledged, WriteRejected, Failed, Stages
<1>6. ASSUME NEW v, \/ EditName(v) \/ EditEmail(v) \/ EditPass(v) \/ EditConfirmPass(v)
                    \/ OpenPicker \/ ClosePicker \/ WriteUnacknowledged \/ HUDStep
                    \/ UNCHANGED vars
      PROVE  AttemptsTyped'
  <2>1. detail' = detail /\ Elsewhere
    BY <1>6 DEF EditName, EditEmail, EditPass, EditConfirmPass, EditUnchanged, OpenPicker,
                ClosePicker, WriteUnacknowledged, HUDStep, vars, server, Elsewhere
  <2> QED BY <1>1, <2>1
<1> QED BY <1>0, <1>2, <1>4, <1>5, <1>6 DEF Next, User

LEMMA QueuesTyped ==
  ASSUME Sound, NEW a \in 1..Len(attempts), attempts[a].stage = "linking", SaveInfo(a)
  PROVE  writes' \in [Emails \cup {Nobody} -> Seq(Write)]
<1>0. TypeOK /\ FormTyped /\ ServerTyped /\ Len(attempts) \in Nat
  BY TypeParts, Types DEF Sound
<1>1. CASE currentUser = Nobody
  BY <1>0, <1>1 DEF SaveInfo, ServerTyped
<1>2. CASE currentUser # Nobody
  <2>1. currentUser \in Emails /\ firestoreUser \in Emails \cup {Nobody}
    BY <1>0, <1>2 DEF ServerTyped
  <2>2. a \in 1..MaxAttempts
    BY <1>0, RegistrationAssumption DEF Sound, AttemptsSound
  <2>3. ProfileNow(a) \in Write
    BY <1>0, <2>1, <2>2 DEF ProfileNow, Write, Profile, FormTyped
  <2>4. writes' = [writes EXCEPT ![firestoreUser] = Append(@, ProfileNow(a))]
    BY <1>2 DEF SaveInfo, Queue
  <2> HIDE DEF ProfileNow
  <2> QED BY <1>0, <2>1, <2>3, <2>4 DEF ServerTyped
<1> QED BY <1>1, <1>2

LEMMA ServerTypedNext ==
  ASSUME Sound, [Next]_vars PROVE ServerTyped'
<1>0. /\ ServerTyped /\ TypeOK /\ WritesSound
      /\ Len(attempts) \in Nat /\ DOMAIN attempts = 1..Len(attempts)
      /\ attempts \in Seq(Attempt)
  BY TypeParts, Types DEF Sound
<1>1. ASSUME UNCHANGED <<currentUser, firestore, server>> PROVE ServerTyped'
  BY <1>0, <1>1 DEF ServerTyped, firestore, server
<1>2. ASSUME NEW v, \/ EditName(v) \/ EditEmail(v) \/ EditPass(v) \/ EditConfirmPass(v)
                    \/ OpenPicker \/ ClosePicker \/ Register \/ HUDStep \/ UNCHANGED vars
      PROVE  ServerTyped'
  BY <1>1, <1>2 DEF EditName, EditEmail, EditPass, EditConfirmPass, EditUnchanged,
                    OpenPicker, ClosePicker, Register, HUDStep, vars
<1>3. ASSUME NEW a \in 1..Len(attempts), AccountCreated(a) PROVE ServerTyped'
  <2>1. attempts[a].email \in Emails
    BY <1>3 DEF Sound, AttemptsSound, AttemptSound, AccountCreated
  <2> QED BY <1>0, <1>3, <2>1 DEF AccountCreated, ServerTyped, firestore
<1>4. ASSUME NEW a \in 1..Len(attempts), AccountRefused(a) PROVE ServerTyped'
  <2>1. attempts[a].email \in Emails
    BY <1>4 DEF Sound, AttemptsSound, AttemptSound, AccountRefused
  <2> QED BY <1>0, <1>4, <2>1 DEF AccountRefused, ServerTyped, firestore
<1>5. ASSUME NEW a \in 1..Len(attempts), CreateUserCallback(a) PROVE ServerTyped'
  <2>1. attempts[a].stage = "signedIn" => attempts[a].email \in accounts
    BY DEF Sound, AttemptsSound, AttemptSound, SignInsSound
  <2> QED BY <1>0, <1>5, <2>1 DEF CreateUserCallback, ServerTyped, server
<1>6. ASSUME NEW a \in 1..Len(attempts), Uploaded(a) \/ UploadFailed(a) \/ NoURL(a)
      PROVE  ServerTyped'
  BY <1>0, <1>6 DEF Uploaded, UploadFailed, NoURL, Failed, ServerTyped, firestore
<1>7. ASSUME NEW a \in 1..Len(attempts), SaveInfo(a) PROVE ServerTyped'
  BY <1>0, <1>7, QueuesTyped DEF SaveInfo, ServerTyped, server
<1>8. ASSUME Sent # <<>> PROVE
        /\ Applied => profiles' \in [Emails -> Profile \cup {NoProfile}]
        /\ Dequeued => writes' \in [Emails \cup {Nobody} -> Seq(Write)]
  <2>1. /\ Head(Sent).profile \in Profile
        /\ firestoreUser \in Emails \cup {Nobody} /\ Sent = writes[firestoreUser]
        /\ Tail(Sent) \in Seq(Write)
    BY <1>0, <1>8, Oldest DEF Write
  <2> QED BY <1>0, <2>1 DEF Applied, Dequeued, ServerTyped
<1>9. CASE WriteUnacknowledged \/ WriteAcknowledged \/ WriteRejected
  BY <1>0, <1>8, <1>9 DEF WriteUnacknowledged, WriteAcknowledged, WriteRejected, Failed,
                          ServerTyped, firestore
<1> QED BY <1>0, <1>2, <1>3, <1>4, <1>5, <1>6, <1>7, <1>9 DEF Next, User, Firebase

LEMMA TypeNext == ASSUME Sound, [Next]_vars PROVE TypeOK' /\ Coherent(hud)'
<1>1. Coherent(hud') /\ hud' \in HUDState
  BY HUDCoherentNext DEF Sound, Coherent
<1> QED BY <1>1, FormTypedNext, AttemptsTypedNext, ServerTypedNext, TypePartsNext DEF Sound

-----------------------------------------------------------------------------
(* Sign-ins.                                                                *)
LEMMA SignInsSoundNext ==
  ASSUME Sound, [Next]_vars PROVE SignInsSound'
<1>0. /\ TypeOK /\ SignInsSound /\ Kept
      /\ Len(attempts) \in Nat /\ Len(signIns) \in Nat
      /\ DOMAIN attempts = 1..Len(attempts)
      /\ \A i \in 1..Len(signIns) : signIns[i] \in 1..Len(attempts)
  BY KeptNext, Types DEF Sound
<1>1. ASSUME UNCHANGED <<signIns, currentUser>> PROVE SignInsSound'
  <2>1. ASSUME NEW i \in 1..Len(signIns)
        PROVE  attempts'[signIns[i]].email = attempts[signIns[i]].email
    BY <1>0, <2>1 DEF Kept
  <2>2. Len(signIns) > 0 => Len(signIns) \in 1..Len(signIns)
    BY <1>0
  <2> QED BY <1>0, <1>1, <2>1, <2>2 DEF SignInsSound, Kept
<1>2. ASSUME NEW a \in 1..Len(attempts), AccountCreated(a) PROVE SignInsSound'
  <2>1. \A b \in 1..Len(attempts) : attempts'[b].email = attempts[b].email
    BY <1>0 DEF Kept
  <2>2. /\ Len(signIns') = Len(signIns) + 1
        /\ \A i \in 1..Len(signIns) : signIns'[i] = signIns[i]
        /\ signIns'[Len(signIns) + 1] = a
    BY <1>0, <1>2, Types DEF AccountCreated
  <2>3. accounts' = accounts \cup {attempts[a].email} /\ currentUser' = attempts[a].email
    BY <1>2 DEF AccountCreated
  <2>4. ASSUME NEW i \in 1..Len(signIns')
        PROVE  attempts'[signIns'[i]].email \in accounts'
    <3>1. CASE i \in 1..Len(signIns)
      BY <1>0, <2>1, <2>2, <2>3, <3>1 DEF SignInsSound
    <3>2. CASE i = Len(signIns) + 1
      BY <2>1, <2>2, <2>3, <3>2
    <3> QED BY <1>0, <2>2, <2>4, <3>1, <3>2
  <2> QED BY <2>1, <2>2, <2>3, <2>4 DEF SignInsSound
<1>3. ASSUME NEW a \in 1..Len(attempts),
             \/ AccountRefused(a) \/ CreateUserCallback(a) \/ Uploaded(a)
             \/ UploadFailed(a) \/ NoURL(a) \/ SaveInfo(a)
      PROVE  SignInsSound'
  BY <1>1, <1>3 DEF AccountRefused, CreateUserCallback, Uploaded, UploadFailed, NoURL,
                    SaveInfo, Failed
<1>4. CASE Register \/ WriteAcknowledged \/ WriteRejected \/ Elsewhere
  BY <1>1, <1>4 DEF Register, WriteAcknowledged, WriteRejected, Failed, Elsewhere
<1> QED BY <1>0, <1>2, <1>3, <1>4, Steps DEF Firebase

-----------------------------------------------------------------------------
(* Attempts: what holds of one that did not move still holds.               *)
LEMMA AttemptKept ==
  ASSUME Sound, Kept, TypeOK', NEW a \in 1..Len(attempts), attempts'[a] = attempts[a]
  PROVE  AttemptSound(a)'
<1>1. AttemptSound(a) /\ Len(signIns) \in Nat /\ Len(signIns') \in Nat
  BY Types DEF Sound, AttemptsSound, TypeOK
<1>2. ASSUME NEW i \in 1..Len(signIns), signIns[i] = a
      PROVE  i \in 1..Len(signIns') /\ signIns'[i] = a
  BY <1>1, <1>2 DEF Kept
<1> QED BY <1>1, <1>2 DEF AttemptSound, Kept

LEMMA AttemptMoved ==
  ASSUME Sound, Kept, TypeOK', NEW a \in 1..Len(attempts), NEW s \in Stages, Becomes(a, s),
         AttemptSound(a)'
  PROVE  AttemptsSound'
<1>1. /\ Len(attempts') = Len(attempts)
      /\ \A b \in 1..Len(attempts) : b # a => attempts'[b] = attempts[b]
  BY Moves DEF Sound
<1>2. ASSUME NEW b \in 1..Len(attempts) PROVE AttemptSound(b)'
  <2>1. CASE b # a
    BY <1>1, <2>1, AttemptKept
  <2> QED BY <2>1
<1>3. Len(attempts') <= MaxAttempts
  BY <1>1 DEF Sound, AttemptsSound
<1> QED BY <1>1, <1>2, <1>3 DEF AttemptsSound

LEMMA AttemptsSoundNext ==
  ASSUME Sound, [Next]_vars PROVE AttemptsSound'
<1>0. /\ TypeOK /\ AttemptsSound /\ WritesSound /\ Kept /\ TypeOK'
      /\ Len(attempts) \in Nat /\ Len(signIns) \in Nat
      /\ DOMAIN attempts = 1..Len(attempts)
  BY KeptNext, TypeNext, Types DEF Sound
<1>1. CASE Elsewhere
  BY <1>0, <1>1, AttemptKept DEF Elsewhere, AttemptsSound
<1>2. CASE Register
  <2>0. PICK n \in Nat : n = Len(attempts) + 1
    BY <1>0
  <2>1. /\ Len(attempts') = n /\ attempts'[n].email = email
        /\ attempts'[n].stage = IF Submittable THEN "creating" ELSE "failed"
        /\ \A b \in 1..Len(attempts) : attempts'[b] = attempts[b]
    BY <1>0, <1>2, <2>0, Starts
  <2>2. email \in Emails \/ ~Submittable
    BY <1>0 DEF TypeOK, Submittable
  <2>3. AttemptSound(n)'
    BY <2>1, <2>2 DEF AttemptSound
  <2>4. n <= MaxAttempts
    BY <1>0, <1>2, <2>0, RegistrationAssumption DEF Register
  <2>5. \A b \in 1..Len(attempts) : AttemptSound(b)'
    BY <1>0, <2>1, AttemptKept
  <2>6. ASSUME NEW b \in 1..Len(attempts') PROVE AttemptSound(b)'
    <3>1. b \in 1..Len(attempts) \/ b = n
      BY <1>0, <2>0, <2>1
    <3> QED BY <2>3, <2>5, <3>1
  <2> QED BY <2>1, <2>4, <2>6 DEF AttemptsSound
<1>3. ASSUME NEW a \in 1..Len(attempts), NEW s \in Stages, Becomes(a, s)
      PROVE  attempts'[a].stage = s
  BY <1>0, <1>3, Moves
<1>4. ASSUME NEW a \in 1..Len(attempts), NEW s \in {"refused", "silent", "saving", "saved", "failed"},
             Becomes(a, s)
      PROVE  AttemptsSound'
  <2>1. s \in Stages
    BY DEF Stages
  <2>2. AttemptSound(a)'
    BY <1>3, <1>4, <2>1 DEF AttemptSound
  <2> QED BY <1>0, <1>4, <2>1, <2>2, AttemptMoved
<1>5. ASSUME NEW a \in 1..Len(attempts), AccountCreated(a) PROVE AttemptsSound'
  <2>1. "signedIn" \in Stages /\ Becomes(a, "signedIn") /\ signIns' = Append(signIns, a)
    BY <1>5 DEF AccountCreated, Stages
  <2>2. Len(signIns) + 1 \in 1..Len(signIns') /\ signIns'[Len(signIns) + 1] = a
    BY <1>0, <2>1, Types
  <2>3. AttemptSound(a)'
    BY <1>3, <2>1, <2>2 DEF AttemptSound
  <2> QED BY <1>0, <2>1, <2>3, AttemptMoved
<1>6. ASSUME NEW a \in 1..Len(attempts), NEW s \in {"uploading", "linking"},
             attempts[a].stage \in {"signedIn", "uploading"}, signIns' = signIns,
             s = "linking" => a \in stored', Becomes(a, s)
      PROVE  AttemptsSound'
  <2>1. s \in Stages
    BY DEF Stages
  <2>2. \E i \in 1..Len(signIns) : signIns[i] = a
    BY <1>0, <1>6 DEF AttemptsSound, AttemptSound
  <2>3. AttemptSound(a)'
    BY <1>3, <1>6, <2>1, <2>2 DEF AttemptSound
  <2> QED BY <1>0, <1>6, <2>1, <2>3, AttemptMoved
<1>7. ASSUME NEW a \in 1..Len(attempts), CreateUserCallback(a) PROVE AttemptsSound'
  <2>1. CASE AfterCreate(a) = "uploading"
    BY <1>6, <1>7, <2>1 DEF CreateUserCallback, AfterCreate
  <2>2. CASE AfterCreate(a) # "uploading"
    BY <1>4, <1>7, <2>2 DEF CreateUserCallback, AfterCreate
  <2> QED BY <2>1, <2>2
<1>8. ASSUME NEW a \in 1..Len(attempts), Uploaded(a) PROVE AttemptsSound'
  BY <1>6, <1>8 DEF Uploaded
<1>9. ASSUME NEW a \in 1..Len(attempts),
             AccountRefused(a) \/ UploadFailed(a) \/ NoURL(a) \/ SaveInfo(a)
      PROVE  AttemptsSound'
  BY <1>4, <1>9 DEF AccountRefused, UploadFailed, NoURL, SaveInfo, Failed
<1>10. CASE WriteAcknowledged \/ WriteRejected
  <2>1. Head(Sent).profile.image \in 1..Len(attempts)
    BY <1>0, <1>10, Oldest DEF WriteAcknowledged, WriteRejected, WriteSound
  <2> QED BY <1>4, <1>10, <2>1 DEF WriteAcknowledged, WriteRejected, Failed
<1> QED BY <1>0, <1>1, <1>2, <1>5, <1>7, <1>8, <1>9, <1>10, Steps DEF Firebase

-----------------------------------------------------------------------------
(* The queues: no step but SaveInfo adds to them.                           *)
LEMMA QueuesKept ==
  ASSUME Sound, Kept, TypeOK', NEW q \in Emails \cup {Nobody}, NEW i,
         \E j \in 1..Len(writes[q]) : writes'[q][i] = writes[q][j]
  PROVE  WriteSound(writes[q][i])'
<1>1. PICK j \in 1..Len(writes[q]) : writes'[q][i] = writes[q][j]
  OBVIOUS
<1>2. PICK w : w = writes[q][j]
  OBVIOUS
<1>3. WriteSound(w)
  BY <1>2 DEF Sound, WritesSound
<1>4. WriteSound(w)'
  BY <1>3, WriteKept
<1>5. w.profile.image = writes'[q][i].profile.image /\ w.uid = writes'[q][i].uid
  BY <1>1, <1>2
<1> QED BY <1>4, <1>5 DEF WriteSound

LEMMA WritesSoundNext ==
  ASSUME Sound, [Next]_vars PROVE WritesSound'
<1>0. /\ TypeOK /\ WritesSound /\ Kept /\ TypeOK'
      /\ Len(attempts) \in Nat /\ DOMAIN attempts = 1..Len(attempts)
      /\ writes \in [Emails \cup {Nobody} -> Seq(Write)]
  BY KeptNext, TypeNext, Types DEF Sound
<1>1. CASE writes' = writes
  BY <1>0, <1>1, QueuesKept DEF WritesSound
<1>2. ASSUME Sent # <<>>, Dequeued PROVE WritesSound'
  <2>1. ASSUME NEW q \in Emails \cup {Nobody}, NEW i \in 1..Len(writes'[q])
        PROVE  \E j \in 1..Len(writes[q]) : writes'[q][i] = writes[q][j]
    <3>1. writes[q] \in Seq(Write)
      BY <1>0
    <3>2. CASE q = firestoreUser
      <4>1. writes'[q] = Tail(writes[q]) /\ writes[q] # <<>>
        BY <1>0, <1>2, <3>2 DEF Dequeued, Sent
      <4>2. i + 1 \in 1..Len(writes[q]) /\ Tail(writes[q])[i] = writes[q][i + 1]
        BY <2>1, <3>1, <4>1
      <4> QED BY <4>1, <4>2
    <3>3. CASE q # firestoreUser
      <4>1. writes'[q] = writes[q]
        BY <1>0, <1>2, <3>3 DEF Dequeued
      <4> QED BY <2>1, <4>1
    <3> QED BY <3>2, <3>3
  <2> QED BY <1>0, <2>1, QueuesKept DEF WritesSound
<1>3. ASSUME NEW a \in 1..Len(attempts), SaveInfo(a), currentUser # Nobody
      PROVE  WritesSound'
  <2>1. PICK w : w = ProfileNow(a)
    OBVIOUS
  <2>2. w.profile.image = a /\ w.uid = currentUser
    BY <2>1 DEF ProfileNow
  <2>3. attempts[a].stage = "linking" /\ Becomes(a, "saving") /\ stored' = stored
    BY <1>3 DEF SaveInfo, server
  <2>4. SignedInNoEarlier(a, currentUser) /\ a \in stored
    BY <1>3, <2>3, OwnerNow
  <2>5. PICK u : u = currentUser
    OBVIOUS
  <2>6. SignedInNoEarlier(a, u)'
    BY <1>0, <2>4, <2>5, OwnerKept
  <2>7. attempts'[a].stage = "saving" /\ Len(attempts') = Len(attempts)
    BY <1>0, <2>3, Moves DEF Stages
  <2>8. WriteSound(w)'
    BY <2>2, <2>3, <2>4, <2>5, <2>6, <2>7 DEF WriteSound, Settling
  <2>9. writes' = [writes EXCEPT ![firestoreUser] = Append(@, w)]
    BY <1>3, <2>1 DEF SaveInfo, Queue
  <2>10. ASSUME NEW q \in Emails \cup {Nobody}, NEW i \in 1..Len(writes'[q])
         PROVE  WriteSound(writes[q][i])'
    <3>1. writes[q] \in Seq(Write) /\ w \in Write
      <4>1. TypeOK' /\ writes' \in [Emails \cup {Nobody} -> Seq(Write)]
        BY <1>0, <1>3, <2>3, QueuesTyped
      <4>2. firestoreUser \in Emails \cup {Nobody}
        BY <1>0 DEF TypeOK
      <4>3. Append(writes[firestoreUser], w) \in Seq(Write) /\ writes[firestoreUser] \in Seq(Write)
        BY <1>0, <2>9, <4>1, <4>2
      <4>4. w = Append(writes[firestoreUser], w)[Len(writes[firestoreUser]) + 1]
        BY <4>3
      <4>5. w \in Write
        BY <4>3, <4>4
      <4> QED BY <1>0, <4>5
    <3>2. CASE i \in 1..Len(writes[q])
      <4>1. writes'[q][i] = writes[q][i]
        BY <1>0, <2>9, <3>1, <3>2
      <4> QED BY <1>0, <3>2, <4>1, QueuesKept
    <3>3. CASE i \notin 1..Len(writes[q])
      <4>1. writes'[q][i] = w
        BY <1>0, <2>9, <2>10, <3>1, <3>3
      <4> QED BY <2>8, <4>1 DEF WriteSound
    <3> QED BY <3>2, <3>3
  <2> QED BY <2>10 DEF WritesSound
<1>4. ASSUME NEW a \in 1..Len(attempts), Firebase(a) PROVE WritesSound'
  BY <1>1, <1>3, <1>4 DEF Firebase, AccountCreated, AccountRefused, CreateUserCallback,
                          Uploaded, UploadFailed, NoURL, SaveInfo, firestore
<1>5. ASSUME NEW v, \/ EditName(v) \/ EditEmail(v) \/ EditPass(v) \/ EditConfirmPass(v)
                    \/ OpenPicker \/ ClosePicker \/ Register \/ HUDStep
                    \/ WriteUnacknowledged \/ UNCHANGED vars
      PROVE  WritesSound'
  BY <1>1, <1>5 DEF EditName, EditEmail, EditPass, EditConfirmPass, EditUnchanged,
                    OpenPicker, ClosePicker, Register, HUDStep, WriteUnacknowledged, vars,
                    firestore
<1> QED BY <1>0, <1>2, <1>4, <1>5 DEF Next, User, WriteAcknowledged, WriteRejected

-----------------------------------------------------------------------------
(* The profiles: each is one that was queued.                               *)
LEMMA ProfilesSoundNext ==
  ASSUME Sound, [Next]_vars PROVE ProfilesSound'
<1>0. /\ TypeOK /\ ProfilesSound /\ WritesSound /\ Kept /\ TypeOK'
  BY KeptNext, TypeNext DEF Sound
<1>1. ASSUME NEW u \in Emails, profiles'[u] = profiles[u], profiles'[u] # NoProfile
      PROVE  profiles'[u].image \in stored' /\ SignedInNoEarlier(profiles[u].image, u)'
  <2>1. PICK a : a = profiles[u].image
    OBVIOUS
  <2>2. a \in stored /\ SignedInNoEarlier(a, u)
    BY <1>0, <1>1, <2>1 DEF ProfilesSound
  <2>3. a \in stored' /\ SignedInNoEarlier(a, u)' /\ a = profiles'[u].image
    BY <1>0, <1>1, <2>1, <2>2, OwnerKept DEF Kept
  <2> QED BY <2>3 DEF SignedInNoEarlier
<1>2. CASE UNCHANGED profiles
  BY <1>1, <1>2 DEF ProfilesSound
<1>3. ASSUME Sent # <<>>, Applied PROVE ProfilesSound'
  <2>1. PICK w : w = Head(Sent)
    OBVIOUS
  <2>2. WriteSound(w) /\ w \in Write
    BY <1>0, <1>3, <2>1, Oldest
  <2>3. WriteSound(w)'
    BY <1>0, <2>2, WriteKept
  <2>4. profiles' = [profiles EXCEPT ![w.uid] = w.profile]
    BY <1>3, <2>1 DEF Applied
  <2>5. profiles \in [Emails -> Profile \cup {NoProfile}]
    BY <1>0 DEF TypeOK
  <2>6. ASSUME NEW u \in Emails, profiles'[u] # NoProfile
        PROVE  profiles'[u].image \in stored' /\ SignedInNoEarlier(profiles[u].image, u)'
    <3>1. CASE u = w.uid
      <4>1. profiles'[u].image = w.profile.image
        BY <2>4, <2>5, <3>1
      <4> QED BY <2>3, <3>1, <4>1 DEF WriteSound, SignedInNoEarlier
    <3>2. CASE u # w.uid
      BY <1>1, <2>4, <2>5, <2>6, <3>2
    <3> QED BY <3>1, <3>2
  <2> QED BY <2>6 DEF ProfilesSound
<1>4. ASSUME NEW a, Firebase(a) PROVE UNCHANGED profiles
  BY <1>4 DEF Firebase, AccountCreated, AccountRefused, CreateUserCallback, Uploaded,
              UploadFailed, NoURL, SaveInfo, Failed, server
<1>5. ASSUME NEW v, \/ EditName(v) \/ EditEmail(v) \/ EditPass(v) \/ EditConfirmPass(v)
                    \/ OpenPicker \/ ClosePicker \/ Register \/ HUDStep \/ WriteRejected
                    \/ UNCHANGED vars
      PROVE  UNCHANGED profiles
  BY <1>5 DEF EditName, EditEmail, EditPass, EditConfirmPass, EditUnchanged, OpenPicker,
              ClosePicker, Register, HUDStep, WriteRejected, Failed, vars, server
<1> QED BY <1>2, <1>3, <1>4, <1>5 DEF Next, User, WriteUnacknowledged, WriteAcknowledged

LEMMA SoundNext == Sound /\ [Next]_vars => Sound'
  BY TypeNext, AttemptsSoundNext, SignInsSoundNext, WritesSoundNext, ProfilesSoundNext
     DEF Sound

-----------------------------------------------------------------------------
(* The form.                                                                *)
LEMMA FormGateNext ==
  ASSUME TypeOK, FormGate, [Next]_vars PROVE FormGate'
<1>1. ASSUME FormComplete(fullName, email, pass, confirmPass)' = isFormValid'
      PROVE  FormGate'
  BY <1>1 DEF FormGate, FormComplete, Submittable
<1>2. ASSUME NEW v, EditName(v) \/ EditEmail(v) \/ EditPass(v) \/ EditConfirmPass(v)
      PROVE  FormGate'
  BY <1>1, <1>2 DEF EditName, EditEmail, EditPass, EditConfirmPass, FormComplete
<1>3. ASSUME UNCHANGED form PROVE FormGate'
  BY <1>3 DEF form, FormGate, FormComplete, Submittable
<1>4. ASSUME NEW a, Firebase(a) PROVE UNCHANGED form
  BY <1>4 DEF Firebase, AccountCreated, AccountRefused, CreateUserCallback, Uploaded,
              UploadFailed, NoURL, SaveInfo, Failed
<1>5. CASE \/ OpenPicker \/ ClosePicker \/ Register \/ HUDStep \/ WriteUnacknowledged
           \/ WriteAcknowledged \/ WriteRejected \/ UNCHANGED vars
  BY <1>3, <1>5 DEF OpenPicker, ClosePicker, Register, HUDStep, WriteUnacknowledged,
                    WriteAcknowledged, WriteRejected, Failed, vars
<1> QED BY <1>2, <1>3, <1>4, <1>5 DEF Next, User

-----------------------------------------------------------------------------
(* The HUD and the Boolean that shows it.                                   *)
LEMMA RegisteringPendingNext ==
  ASSUME Sound, FormGate, RegisteringPending, [Next]_vars PROVE RegisteringPending'
<1> SUFFICES ASSUME isRegistering'
             PROVE  \E a \in DOMAIN attempts' :
                      attempts'[a].stage \in {"creating", "signedIn", "refused"}
  BY DEF RegisteringPending
<1>0. /\ TypeOK /\ WritesSound
      /\ Len(attempts) \in Nat /\ DOMAIN attempts = 1..Len(attempts)
      /\ DOMAIN attempts' = 1..Len(attempts')
  <2>1. attempts' \in Seq(Attempt)
    BY AttemptsTypedNext DEF AttemptsTyped
  <2> QED BY <2>1, Types DEF Sound
<1>1. CASE Register
  <2>1. Submittable
    BY <1>1 DEF Register, FormGate
  <2>2. Len(attempts') = Len(attempts) + 1 /\ attempts'[Len(attempts) + 1].stage = "creating"
    BY <1>0, <1>1, <2>1, Starts
  <2> QED BY <1>0, <2>2
<1>2. ASSUME NEW a \in DOMAIN attempts, CreateUserCallback(a) PROVE FALSE
  BY <1>2 DEF CreateUserCallback, Reset
<1>3. ASSUME isRegistering' = isRegistering
      PROVE  \E b \in 1..Len(attempts) :
               attempts[b].stage \in {"creating", "signedIn", "refused"}
  BY <1>0, <1>3 DEF RegisteringPending
<1>4. ASSUME isRegistering' = isRegistering, NEW a \in 1..Len(attempts), NEW s \in Stages,
             Becomes(a, s),
             \/ s \in {"signedIn", "refused"}
             \/ attempts[a].stage \notin {"creating", "signedIn", "refused"}
      PROVE  \E b \in 1..Len(attempts') :
               attempts'[b].stage \in {"creating", "signedIn", "refused"}
  <2>1. PICK b \in 1..Len(attempts) :
          attempts[b].stage \in {"creating", "signedIn", "refused"}
    BY <1>3, <1>4
  <2>2. /\ Len(attempts') = Len(attempts) /\ attempts'[a].stage = s
        /\ b # a => attempts'[b] = attempts[b]
    BY <1>0, <1>4, Moves
  <2> QED BY <1>4, <2>1, <2>2
<1>5. ASSUME NEW a \in 1..Len(attempts),
             \/ AccountCreated(a) \/ AccountRefused(a) \/ Uploaded(a) \/ UploadFailed(a)
             \/ NoURL(a) \/ SaveInfo(a)
      PROVE  \E b \in 1..Len(attempts') :
               attempts'[b].stage \in {"creating", "signedIn", "refused"}
  BY <1>4, <1>5 DEF AccountCreated, AccountRefused, Uploaded, UploadFailed, NoURL, SaveInfo,
                    Failed, Stages
<1>6. CASE WriteAcknowledged \/ WriteRejected
  <2>1. WriteSound(Head(Sent))
    BY <1>0, <1>6, Oldest DEF WriteAcknowledged, WriteRejected
  <2>2. PICK s \in {"saved", "failed"} : Becomes(Head(Sent).profile.image, s)
    BY <1>6 DEF WriteAcknowledged, WriteRejected, Failed
  <2>3. isRegistering' = isRegistering
    BY <1>6 DEF WriteAcknowledged, WriteRejected, Failed
  <2> QED BY <1>0, <1>4, <2>1, <2>2, <2>3 DEF WriteSound, Settling, Stages
<1>7. ASSUME NEW v, \/ EditName(v) \/ EditEmail(v) \/ EditPass(v) \/ EditConfirmPass(v)
                    \/ OpenPicker \/ ClosePicker \/ HUDStep \/ WriteUnacknowledged
                    \/ UNCHANGED vars
      PROVE  attempts' = attempts /\ isRegistering' = isRegistering
  BY <1>7 DEF EditName, EditEmail, EditPass, EditConfirmPass, EditUnchanged, OpenPicker,
              ClosePicker, HUDStep, WriteUnacknowledged, vars
<1> QED BY <1>0, <1>1, <1>2, <1>3, <1>5, <1>6, <1>7 DEF Next, User, Firebase

LEMMA ErrorShownNext ==
  ASSUME Sound, FormGate, ErrorShownAfterAccount, [Next]_vars PROVE ErrorShownAfterAccount'
<1>0. /\ TypeOK /\ WritesSound /\ Kept /\ AttemptsTyped
      /\ Len(attempts) \in Nat /\ DOMAIN attempts = 1..Len(attempts)
      /\ DOMAIN signIns = 1..Len(signIns)
  BY KeptNext, TypeParts, Types DEF Sound
<1>1. ASSUME detail' = detail PROVE ErrorShownAfterAccount'
  <2>1. detail # 0 => detail \in 1..Len(attempts)
    BY <1>0 DEF AttemptsTyped
  <2> QED BY <1>0, <1>1, <2>1 DEF Kept, ErrorShownAfterAccount
<1>2. ASSUME NEW a \in 1..Len(attempts), detail' = a, attempts[a].email \in accounts
      PROVE  ErrorShownAfterAccount'
  BY <1>0, <1>2 DEF Kept, ErrorShownAfterAccount
<1>3. CASE Register
  BY <1>1, <1>3 DEF Register, FormGate
<1>4. ASSUME NEW a \in 1..Len(attempts), CreateUserCallback(a) PROVE ErrorShownAfterAccount'
  BY <1>4 DEF CreateUserCallback, Reset, ErrorShownAfterAccount
<1>5. ASSUME NEW a \in 1..Len(attempts), UploadFailed(a) \/ NoURL(a)
      PROVE  ErrorShownAfterAccount'
  <2>1. attempts[a].stage \in {"uploading", "linking"} /\ detail' = a
    BY <1>5 DEF UploadFailed, NoURL, Failed
  <2>2. attempts[a].email \in accounts
    BY <2>1 DEF Sound, AttemptsSound, AttemptSound, SignInsSound
  <2> QED BY <1>2, <2>1, <2>2
<1>6. CASE WriteRejected
  <2>1. PICK a : a = Head(Sent).profile.image
    OBVIOUS
  <2>2. a \in 1..Len(attempts) /\ SignedInNoEarlier(a, Head(Sent).uid)
    BY <1>0, <1>6, <2>1, Oldest DEF WriteRejected, WriteSound
  <2>3. attempts[a].email \in accounts
    BY <2>2, SignedInAccount
  <2>4. detail' = a
    BY <1>6, <2>1 DEF WriteRejected, Failed
  <2> QED BY <1>2, <2>2, <2>3, <2>4
<1>7. ASSUME NEW a, AccountCreated(a) \/ AccountRefused(a) \/ Uploaded(a) \/ SaveInfo(a)
      PROVE  detail' = detail
  BY <1>7 DEF AccountCreated, AccountRefused, Uploaded, SaveInfo
<1>8. ASSUME NEW v, \/ EditName(v) \/ EditEmail(v) \/ EditPass(v) \/ EditConfirmPass(v)
                    \/ OpenPicker \/ ClosePicker \/ HUDStep \/ WriteUnacknowledged
                    \/ WriteAcknowledged \/ UNCHANGED vars
      PROVE  detail' = detail
  BY <1>8 DEF EditName, EditEmail, EditPass, EditConfirmPass, EditUnchanged, OpenPicker,
              ClosePicker, HUDStep, WriteUnacknowledged, WriteAcknowledged, vars
<1> QED BY <1>0, <1>1, <1>3, <1>4, <1>5, <1>6, <1>7, <1>8 DEF Next, User, Firebase

LEMMA FreshShown ==
  ASSUME NEW h, NEW p \in BOOLEAN, h = [NewHUD EXCEPT !.presenting = p]
  PROVE  StaysShown(ShowInView(h, TRUE))
  BY DEF StaysShown, ShowInView, FadeIn, NewHUD

LEMMA HUDHeldNext ==
  ASSUME Sound, FormGate, HUDHeld, [Next]_vars PROVE HUDHeld'
<1>1. CASE Register
  <2>1. hud' = ShowInView(hud, TRUE)
    BY <1>1 DEF Register, FormGate, HUDWhile
  <2>2. hud.presenting \in BOOLEAN
    BY DEF Sound, Coherent, HUDState
  <2>3. shielded' => hud = [NewHUD EXCEPT !.presenting = hud.presenting]
    BY <1>1 DEF Register
  <2>4. shielded' => StaysShown(ShowInView(hud, TRUE))
    BY <2>2, <2>3, FreshShown
  <2> QED BY <2>1, <2>4 DEF HUDHeld
<1>2. ASSUME NEW a, CreateUserCallback(a) PROVE HUDHeld'
  BY <1>2 DEF CreateUserCallback, Reset, HUDHeld
<1>3. CASE HUDStep
  <2>1. CASE hud.timers[TRUE] > 0
    <3>1. ~StaysShown(hud)
      <4>1. StaysShown(hud) => hud.timers[TRUE] = 0
        BY DEF StaysShown
      <4>2. ~(0 > 0)
        OBVIOUS
      <4> QED BY <2>1, <4>1, <4>2
    <3> QED BY <1>3, <3>1 DEF HUDStep, HUDHeld
  <2>2. CASE ~(hud.timers[TRUE] > 0)
    <3>1. PICK in \in BOOLEAN : FadeOwed(hud, in) /\ hud' = AnimationFinished(hud, in)
      BY <1>3, <2>2 DEF HUDStep
    <3>2. StaysShown(hud) => StaysShown(hud')
      BY <3>1, StaysShownFaded DEF Sound
    <3>3. UNCHANGED <<isRegistering, shielded>>
      BY <1>3 DEF HUDStep
    <3> QED BY <3>2, <3>3 DEF HUDHeld, StaysShown
  <2> QED BY <2>1, <2>2
<1>4. ASSUME UNCHANGED <<isRegistering, shielded, hud>> PROVE HUDHeld'
  BY <1>4 DEF HUDHeld, StaysShown
<1>5. ASSUME NEW a,
             \/ AccountCreated(a) \/ AccountRefused(a) \/ Uploaded(a) \/ UploadFailed(a)
             \/ NoURL(a) \/ SaveInfo(a)
      PROVE  HUDHeld'
  BY <1>4, <1>5 DEF AccountCreated, AccountRefused, Uploaded, UploadFailed, NoURL, SaveInfo,
                    Failed
<1>6. ASSUME NEW v, \/ EditName(v) \/ EditEmail(v) \/ EditPass(v) \/ EditConfirmPass(v)
                    \/ OpenPicker \/ ClosePicker \/ WriteUnacknowledged
                    \/ WriteAcknowledged \/ WriteRejected \/ UNCHANGED vars
      PROVE  HUDHeld'
  BY <1>4, <1>6 DEF EditName, EditEmail, EditPass, EditConfirmPass, EditUnchanged, OpenPicker,
              ClosePicker, WriteUnacknowledged, WriteAcknowledged, WriteRejected, Failed, vars
<1> QED BY <1>1, <1>2, <1>3, <1>5, <1>6 DEF Next, User, Firebase

LEMMA InvNext == RegistrationInv /\ [Next]_vars => RegistrationInv'
<1> SUFFICES ASSUME RegistrationInv, [Next]_vars PROVE RegistrationInv'
  OBVIOUS
<1>1. Sound /\ TypeOK /\ FormGate /\ RegisteringPending /\ ErrorShownAfterAccount /\ HUDHeld
  BY DEF RegistrationInv, Sound
<1> QED BY <1>1, SoundNext, FormGateNext, RegisteringPendingNext, ErrorShownNext,
           HUDHeldNext DEF RegistrationInv

LEMMA InvHolds == Spec => []RegistrationInv
  BY SoundInit, InvNext, PTL DEF Spec

-----------------------------------------------------------------------------
(* Every variable of the screen, of the clients and of the server keeps its *)
(* type.                                                                    *)
THEOREM RegistrationTypeOK == Spec => []TypeOK
<1>1. RegistrationInv => TypeOK
  BY DEF RegistrationInv, Sound
<1> QED BY <1>1, InvHolds, PTL

(* isFormValidCheck and the guard of preformRegistration agree.             *)
THEOREM RegistrationFormGate == Spec => []FormGate
<1>1. RegistrationInv => FormGate
  BY DEF RegistrationInv
<1> QED BY <1>1, InvHolds, PTL

(* No profile names a picture that is not in Storage.                       *)
THEOREM RegistrationPicture == Spec => []PictureOfProfileStored
<1>1. RegistrationInv => PictureOfProfileStored
  BY DEF RegistrationInv, Sound, ProfilesSound, PictureOfProfileStored
<1> QED BY <1>1, InvHolds, PTL

(* No attempt writes, or has queued, the profile of an earlier account.     *)
THEOREM RegistrationOwner == Spec => []ProfileOwner
<1>1. ASSUME RegistrationInv PROVE ProfileOwner
  <2>1. writes \in [Emails \cup {Nobody} -> Seq(Write)]
    BY <1>1, Types DEF RegistrationInv, Sound
  <2>2. ASSUME NEW q \in DOMAIN writes, NEW i \in DOMAIN writes[q]
        PROVE  SignedInNoEarlier(writes[q][i].profile.image, writes[q][i].uid)
    <3>1. q \in Emails \cup {Nobody} /\ i \in 1..Len(writes[q])
      BY <2>1, <2>2
    <3> QED BY <1>1, <3>1 DEF RegistrationInv, Sound, WritesSound, WriteSound
  <2> QED BY <1>1, <2>2 DEF RegistrationInv, Sound, ProfilesSound, ProfileOwner
<1> QED BY <1>1, InvHolds, PTL

(* The HUD is there while an attempt that found it off registers, the       *)
(* Boolean is reset, and an error shown comes after the account is made.    *)
THEOREM RegistrationHUD == Spec => []HUDFollowsAttempts
<1>1. RegistrationInv => HUDWhileRegistering
  BY DEF RegistrationInv, HUDHeld, StaysShown, HUDWhileRegistering, Leaving
<1>2. RegistrationInv => HUDFollowsAttempts
  BY <1>1 DEF RegistrationInv, HUDFollowsAttempts
<1> QED BY <1>2, InvHolds, PTL
===============================================================================
