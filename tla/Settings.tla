-------------------------------- MODULE Settings --------------------------------
(* SettingsViewController: the profile of the current user is fetched when  *)
(* the screen opens, its fields are edited in place, and Save overwrites    *)
(* the whole document.  The screen can be cancelled and opened again at any *)
(* time, while saves of an earlier visit are still on their way.            *)
(*                                                                          *)
(* Firestore's client answers a get from the server or, offline, from its   *)
(* cache, and shows the writes that are not acknowledged yet on top.  What  *)
(* a field can hold is abstracted to the values a user enters, the blank a  *)
(* save puts for what is missing ("" or -1), and Nil for missing.  The      *)
(* picture buttons are left out: nothing reads what they show, and a        *)
(* picture picked for them goes nowhere else.                               *)
EXTENDS JGProgressHUD, Sequences

CONSTANTS
  TextFields,    \* fullName, profession
  SliderFields,  \* minSeekingAge, maxSeekingAge
  Values,        \* what a user enters
  Blank,         \* "" in a text field and in image1Url, -1 in the others
  Nil,           \* a missing key, an optional that is nil
  Zero,          \* the "0" shown for an age that is nil
  NoDoc,         \* no document, no user
  MaxSaves,      \* bound: saves
  MaxElsewhere   \* bound: changes made by other devices

Fields == TextFields \cup SliderFields \cup {"age", "image1Url"}

ASSUME SettingsAssumption ==
  /\ TextFields \subseteq {"fullName", "profession"}
  /\ SliderFields \subseteq {"minSeekingAge", "maxSeekingAge"}
  /\ Blank \notin Values /\ Nil \notin Values /\ Zero \notin Values
  /\ Blank # Nil /\ Zero # Blank /\ Zero # Nil
  /\ NoDoc \notin [Fields -> Values \cup {Blank, Nil}]
  /\ MaxSaves \in Nat /\ MaxElsewhere \in Nat

VARIABLES
  signedIn,   \* Auth.auth().currentUser is not nil
  profile,    \* the user's document on the server
  cached,     \* the document in the client's cache
  saves,      \* every save, its document while unacknowledged, and its HUD
  open,       \* the screen is presented
  load,       \* where its fetch is
  answer,     \* the snapshot fetched last
  user,       \* the screen's user
  shown,      \* what its cells show
  elsewhere,  \* history: changes made by other devices
  edited,     \* history: the fields edited since the user was loaded
  lastSave,   \* history: what the profile should be by the last save, if known
  expected    \* history: what the screen should load, if known

device == <<signedIn, profile, cached, elsewhere>>
cells == <<user, shown, edited>>
vars == <<device, saves, open, load, answer, cells, lastSave, expected>>

Doc == [Fields -> Values \cup {Blank, Nil}]

Cells == Fields \ {"image1Url"}

Stages == {"queued", "acknowledged", "rejected", "done"}

SaveState == [doc: Doc \cup {NoDoc}, stage: Stages, hud: HUDState, here: BOOLEAN]

TypeOK ==
  /\ signedIn \in BOOLEAN /\ open \in BOOLEAN
  /\ profile \in Doc \cup {NoDoc} /\ cached \in Doc \cup {NoDoc}
  /\ saves \in Seq(SaveState)
  /\ load \in {"none", "waiting", "answered", "reload", "shown"}
  /\ answer \in Doc \cup {NoDoc} /\ user \in Doc \cup {NoDoc}
  /\ shown \in [Cells -> Values \cup {Blank, Zero}]
  /\ elsewhere \in 0..MaxElsewhere
  /\ edited \subseteq Fields
  /\ lastSave \in Doc \cup {NoDoc} /\ expected \in Doc \cup {NoDoc}
  /\ load \in {"reload", "shown"} <=> user # NoDoc

-----------------------------------------------------------------------------
(* The dictionary a save writes: all of it blank while no user is loaded.   *)
OrBlank(v) == IF v = Nil THEN Blank ELSE v

AllBlank == [f \in Fields |-> Blank]

(* The dictionary without the picture, which has no cell.                   *)
SaveDictOfCells(u) ==
  [f \in Fields |-> IF u = NoDoc \/ f = "image1Url" THEN Blank ELSE OrBlank(u[f])]

SaveDict(u) == IF u = NoDoc THEN AllBlank ELSE [f \in Fields |-> OrBlank(u[f])]

(* User.init(_:) when a key is not the one that a save writes.              *)
UserOfWrongKey(d) == [d EXCEPT !["age"] = Nil]

(* User.init(_:): only the picture has a default.                           *)
UserOf(d) == [d EXCEPT !["image1Url"] = OrBlank(@)]

(* cellForRowAt: what a new cell shows for a field of the user.             *)
Showing(u, f) == IF u = NoDoc \/ u[f] = Nil
                 THEN IF f = "age" THEN Zero ELSE Blank
                 ELSE u[f]

(* Documents as a registration or an earlier save has left them.            *)
Registered == {d \in Doc : /\ d["image1Url"] \in Values
                           /\ \A f \in Fields \ {"image1Url", "fullName"} : d[f] = Nil
                           /\ "fullName" \in Fields => d["fullName"] # Nil}

SavedDocs == [Fields -> Values \cup {Blank}]

Init ==
  /\ signedIn \in BOOLEAN
  /\ profile \in {NoDoc} \cup Registered \cup SavedDocs
  /\ cached \in {NoDoc, profile}
  /\ saves = <<>>
  /\ open = FALSE
  /\ load = "none" /\ answer = NoDoc /\ user = NoDoc
  /\ shown = [f \in Cells |-> Showing(NoDoc, f)]
  /\ elsewhere = 0
  /\ edited = {} /\ lastSave = NoDoc /\ expected = NoDoc

-----------------------------------------------------------------------------
(* accountHandle and viewDidLoad, with fetchCurrentUser up to its get.      *)
Open ==
  /\ ~open
  /\ open' = TRUE
  /\ load' = IF signedIn THEN "waiting" ELSE "none"
  /\ expected' = lastSave
  /\ UNCHANGED <<device, saves, answer, cells, lastSave>>

(* A controller that is kept and presented again.                           *)
CancelKept ==
  /\ open
  /\ open' = FALSE
  /\ UNCHANGED <<device, saves, load, answer, cells, lastSave, expected>>

(* dismissHandle.  The blocks of the closed screen find it gone or change   *)
(* what nobody sees.                                                        *)
Cancel ==
  /\ open
  /\ open' = FALSE
  /\ load' = "none" /\ answer' = NoDoc /\ user' = NoDoc
  /\ shown' = [f \in Cells |-> Showing(NoDoc, f)]
  /\ edited' = {} /\ expected' = NoDoc
  /\ saves' = [i \in DOMAIN saves |-> [saves[i] EXCEPT !.here = FALSE]]
  /\ UNCHANGED <<device, lastSave>>

(* The client's view: its newest unacknowledged write, or else the document.*)
Newest(i) ==
  /\ saves[i].stage = "queued"
  /\ \A j \in DOMAIN saves : saves[j].stage = "queued" => j <= i

View(doc) ==
  IF \E i \in DOMAIN saves : saves[i].stage = "queued"
  THEN {saves[i].doc : i \in {n \in DOMAIN saves : Newest(n)}}
  ELSE {doc}

Answered(doc) ==
  /\ load = "waiting"
  /\ load' = "answered"
  /\ answer' = doc
  /\ UNCHANGED <<signedIn, profile, elsewhere, saves, open, cells, lastSave,
                 expected>>

ServerAnswers ==
  /\ \E doc \in View(profile) : Answered(doc)
  /\ cached' = profile

(* Offline; a document that the cache does not have is an error.            *)
CacheAnswers ==
  /\ \E doc \in View(cached) \ {NoDoc} : Answered(doc)
  /\ UNCHANGED cached

(* The error is only printed.                                               *)
LoadFails ==
  /\ load = "waiting"
  /\ load' = "none"
  /\ UNCHANGED <<device, saves, open, answer, cells, lastSave, expected>>

(* The completion block of getDocument.                                     *)
LoadCallback ==
  /\ load = "answered"
  /\ IF answer = NoDoc
     THEN load' = "none" /\ UNCHANGED user
     ELSE load' = "reload" /\ user' = UserOf(answer)
  /\ UNCHANGED <<device, saves, open, answer, shown, edited, lastSave, expected>>

(* The reload without the table's new cells.                                *)
ReloadNothing ==
  /\ load = "reload"
  /\ load' = "shown"
  /\ UNCHANGED <<device, saves, open, answer, cells, lastSave, expected>>

(* The block dispatched to the main queue: every cell is made anew.         *)
Reload ==
  /\ load = "reload"
  /\ load' = "shown"
  /\ shown' = [f \in Cells |-> Showing(user, f)]
  /\ UNCHANGED <<device, saves, open, answer, user, edited, lastSave, expected>>

-----------------------------------------------------------------------------
(* The handlers of the cells: the cell shows what was entered; the user,    *)
(* if there is one, gets it.  They work under a HUD too: it does not cover  *)
(* the keyboard or take a slider from the finger that holds it.             *)
Edit(f, text, v) ==
  /\ open
  /\ shown' = [shown EXCEPT ![f] = text]
  /\ user' = IF user = NoDoc THEN NoDoc ELSE [user EXCEPT ![f] = v]
  /\ edited' = IF user = NoDoc THEN edited ELSE edited \cup {f}
  /\ expected' = IF user = NoDoc THEN expected ELSE NoDoc
  /\ UNCHANGED <<device, saves, open, load, answer, lastSave>>

(* ageTFHandle: what is not a number is nil.                                *)
EditAge(text) == Edit("age", text, IF text = Blank THEN Nil ELSE text)

(* Cells scrolled off the screen and back are made anew.                    *)
Scroll(fs) ==
  /\ open
  /\ shown' = [f \in Cells |-> IF f \in fs THEN Showing(user, f) ELSE shown[f]]
  /\ UNCHANGED <<device, saves, open, load, answer, user, edited, lastSave,
                 expected>>

(* saveHandle.  Its bar button is above the HUD's view: it can be tapped    *)
(* again at once.                                                           *)
Save ==
  /\ open /\ signedIn
  /\ Len(saves) < MaxSaves
  /\ saves' = Append(saves, [doc |-> SaveDict(user), stage |-> "queued",
                             hud |-> ShowInView(NewHUD, TRUE), here |-> TRUE])
  /\ lastSave' = SaveDict(user)
  /\ expected' = NoDoc
  /\ UNCHANGED <<device, open, load, answer, cells>>

(* Firestore sends the writes in order.  The server applies the oldest, and *)
(* its acknowledgement is lost, or arrives; or the server rejects it.       *)
Oldest(i) ==
  /\ saves[i].stage = "queued"
  /\ \A j \in DOMAIN saves : saves[j].stage = "queued" => i <= j

SaveUnacknowledged(i) ==
  /\ Oldest(i)
  /\ profile' = saves[i].doc
  /\ UNCHANGED <<signedIn, cached, elsewhere, saves, open, load, answer, cells,
                 lastSave, expected>>

SaveAcknowledged(i) ==
  /\ Oldest(i)
  /\ profile' = saves[i].doc /\ cached' = saves[i].doc
  /\ saves' = [saves EXCEPT ![i].stage = "acknowledged", ![i].doc = NoDoc]
  /\ UNCHANGED <<signedIn, elsewhere, open, load, answer, cells, lastSave,
                 expected>>

SaveRejected(i) ==
  /\ Oldest(i)
  /\ saves' = [saves EXCEPT ![i].stage = "rejected", ![i].doc = NoDoc]
  /\ lastSave' = IF i = Len(saves) THEN NoDoc ELSE lastSave
  /\ expected' = IF i = Len(saves) THEN NoDoc ELSE expected
  /\ UNCHANGED <<device, open, load, answer, cells>>

(* The HUD when the error returns from the block before it is dismissed.    *)
DismissedOnSuccess(i) ==
  IF saves[i].stage = "rejected" THEN saves[i].hud ELSE DismissAnimated(saves[i].hud, TRUE)
Dismissed(i) == DismissAnimated(saves[i].hud, TRUE)

(* The completion block of setData.                                         *)
SaveCallback(i) ==
  /\ saves[i].stage \in {"acknowledged", "rejected"}
  /\ saves' = [saves EXCEPT ![i].stage = "done", ![i].hud = Dismissed(i)]
  /\ UNCHANGED <<device, open, load, answer, cells, lastSave, expected>>

HUDFade(i) ==
  /\ \E in \in BOOLEAN :
       /\ FadeOwed(saves[i].hud, in)
       /\ saves' = [saves EXCEPT ![i].hud = AnimationFinished(saves[i].hud, in)]
  /\ UNCHANGED <<device, open, load, answer, cells, lastSave, expected>>

(* The same user saves on another device, which has loaded the document.    *)
ChangedElsewhere(f, v) ==
  /\ profile # NoDoc /\ elsewhere < MaxElsewhere
  /\ profile' = [SaveDict(UserOf(profile)) EXCEPT ![f] = v]
  /\ elsewhere' = elsewhere + 1
  /\ lastSave' = NoDoc /\ expected' = NoDoc
  /\ UNCHANGED <<signedIn, cached, saves, open, load, answer, cells>>

User ==
  \/ Open \/ Cancel \/ Save
  \/ \E f \in TextFields \cup SliderFields, v \in Values \cup {Blank} :
       (f \in SliderFields => v # Blank) /\ Edit(f, v, v)
  \/ \E v \in Values \cup {Blank} : EditAge(v)
  \/ \E f \in TextFields \cup {"age"} : Scroll({f})
  \/ Scroll(SliderFields)

Fetch == ServerAnswers \/ CacheAnswers \/ LoadFails \/ LoadCallback \/ Reload

Next ==
  \/ User \/ Fetch
  \/ \E i \in DOMAIN saves : \/ SaveUnacknowledged(i) \/ SaveAcknowledged(i)
                             \/ SaveRejected(i) \/ SaveCallback(i) \/ HUDFade(i)
  \/ \E f \in Cells, v \in Values : ChangedElsewhere(f, v)

(* The main queue runs the blocks it was given and UIKit ends the fades.  A *)
(* save may wait for the network for ever.                                  *)
Fairness == \A i \in 1..MaxSaves :
              WF_vars(i \in DOMAIN saves /\ (SaveCallback(i) \/ HUDFade(i)))

Spec == Init /\ [][Next]_vars /\ Fairness

-----------------------------------------------------------------------------
(* Once the table has been reloaded, its cells show what Save would write,  *)
(* however they were edited, scrolled and saved before and since.  (Not the *)
(* age: a missing one is shown as 0 and saved as -1.)                       *)
ScreenTruth ==
  load = "shown" =>
    \A f \in TextFields \cup SliderFields : shown[f] = SaveDict(user)[f]

(* Saving a loaded profile changes only what was edited: every other field, *)
(* the picture included, is written as it was loaded, a missing one blank.  *)
SaveKeepsTheRest ==
  [][Len(saves') > Len(saves) /\ user # NoDoc =>
       \A f \in Fields \ edited :
         saves'[Len(saves')].doc[f] = OrBlank(answer[f])]_vars

(* A screen opened after a save loads what was saved, acknowledged or not,  *)
(* online or not; unless the save was rejected, another device changed the  *)
(* profile, or something was saved before the load came in.                 *)
LoadsLastSave ==
  expected # NoDoc /\ load \in {"reload", "shown"} => user = expected

(* The HUD of a save whose answer has been taken, well or ill, is off the   *)
(* screen or leaving it, whatever fade the answer met it in: nothing else   *)
(* would ever take it off, and it keeps the user from touching the table.   *)
AnsweredSaveLeaves ==
  \A i \in DOMAIN saves : saves[i].stage = "done" => Leaving(saves[i].hud)
=============================================================================
