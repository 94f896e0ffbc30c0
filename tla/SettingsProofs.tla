--------------------------- MODULE SettingsProofs ---------------------------
(* Type correctness of Settings, that its cells show what Save would write, *)
(* that a save keeps what was not edited, that its HUD leaves once it is    *)
(* answered, and that the screen loads what was saved last, for every set   *)
(* of fields and values and any number of saves.                            *)
EXTENDS Settings, Lemmas

(* A save of the type whose HUD is coherent, as calls on it need, and       *)
(* leaves once the save is answered.                                        *)
Sound(s) ==
  /\ s \in SaveState
  /\ Coherent(s.hud)
  /\ s.stage = "done" => Leaving(s.hud)

AllSound == \A i \in 1..Len(saves) : Sound(saves[i])

(* A screen that is not presented fetches nothing.                          *)
ClosedIsIdle == ~open => load = "none"

(* What has not been edited is what was fetched, blank where missing.       *)
Loaded ==
  user # NoDoc =>
    /\ answer # NoDoc
    /\ \A f \in Fields \ edited : OrBlank(user[f]) = OrBlank(answer[f])

(* ScreenTruth, field by field.                                             *)
Shows ==
  load = "shown" =>
    \A f \in TextFields \cup SliderFields : shown[f] = OrBlank(user[f])

ScreenInv == ClosedIsIdle /\ Loaded /\ Shows

SettingsInv == TypeOK /\ AllSound /\ ScreenInv

-----------------------------------------------------------------------------
(* The cells that are compared are not the age's.                           *)
LEMMA FieldNames ==
  /\ TextFields \cup SliderFields \subseteq Cells
  /\ "age" \notin TextFields \cup SliderFields
  /\ "age" \in Cells /\ "image1Url" \in Fields /\ Cells \subseteq Fields
  BY SettingsAssumption DEF Fields, Cells

(* Blank stands for a missing value and for itself.                         *)
LEMMA Blanks ==
  ASSUME NEW v \in Values \cup {Blank, Nil}
  PROVE  /\ OrBlank(v) \in Values \cup {Blank}
         /\ OrBlank(OrBlank(v)) = OrBlank(v)
         /\ v # Nil => OrBlank(v) = v
  BY SettingsAssumption DEF OrBlank

LEMMA NoDocument == NoDoc \notin Doc
  BY SettingsAssumption DEF Doc

(* What Save writes is a document.                                          *)
LEMMA SaveDictType ==
  ASSUME NEW u \in Doc \cup {NoDoc}
  PROVE  /\ SaveDict(u) \in Doc
         /\ u # NoDoc => \A f \in Fields : SaveDict(u)[f] = OrBlank(u[f])
  BY Blanks DEF SaveDict, AllBlank, Doc

(* A decoded document is one that would be saved like the document itself.  *)
LEMMA UserOfType ==
  ASSUME NEW d \in Doc
  PROVE  /\ UserOf(d) \in Doc
         /\ \A f \in Fields : OrBlank(UserOf(d)[f]) = OrBlank(d[f])
<1>1. \A f \in Fields : d[f] \in Values \cup {Blank, Nil}
  BY DEF Doc
<1>2. UserOf(d) = [f \in Fields |-> IF f = "image1Url" THEN OrBlank(d[f]) ELSE d[f]]
  BY FieldNames DEF UserOf, Doc
<1> QED BY <1>1, <1>2, Blanks DEF Doc

(* What a new cell shows.                                                   *)
LEMMA ShowingType ==
  ASSUME NEW u \in Doc \cup {NoDoc}, NEW f \in Cells
  PROVE  /\ Showing(u, f) \in Values \cup {Blank, Zero}
         /\ u # NoDoc /\ f # "age" => Showing(u, f) = OrBlank(u[f])
<1>1. u # NoDoc => u[f] \in Values \cup {Blank, Nil}
  BY FieldNames DEF Doc
<1> QED BY <1>1, SettingsAssumption DEF Showing, OrBlank

LEMMA NewCells ==
  ASSUME NEW u \in Doc \cup {NoDoc}
  PROVE  [f \in Cells |-> Showing(u, f)] \in [Cells -> Values \cup {Blank, Zero}]
  BY ShowingType

-----------------------------------------------------------------------------
LEMMA InitHolds == Init => SettingsInv
<1> SUFFICES ASSUME Init PROVE SettingsInv
  OBVIOUS
<1>1. Registered \subseteq Doc /\ SavedDocs \subseteq Doc
  BY DEF Registered, SavedDocs, Doc
<1>2. shown \in [Cells -> Values \cup {Blank, Zero}]
  BY NewCells DEF Init
<1>3. saves \in Seq(SaveState) /\ Len(saves) = 0
  BY DEF Init
<1>4. elsewhere \in 0..MaxElsewhere
  BY SettingsAssumption DEF Init
<1>5. TypeOK
  BY <1>1, <1>2, <1>3, <1>4 DEF Init, TypeOK, SaveState
<1> QED BY <1>3, <1>5
        DEF Init, SettingsInv, AllSound, ScreenInv, ClosedIsIdle, Loaded, Shows

(* Saves are added, and replaced, by sound ones only.                       *)
LEMMA SaveAdded ==
  ASSUME NEW ss \in Seq(SaveState), \A i \in 1..Len(ss) : Sound(ss[i]),
         NEW s, Sound(s)
  PROVE  /\ Append(ss, s) \in Seq(SaveState)
         /\ \A i \in 1..Len(Append(ss, s)) : Sound(Append(ss, s)[i])
<1>1. s \in SaveState
  BY DEF Sound
<1>2. /\ Append(ss, s) \in Seq(SaveState) /\ Len(Append(ss, s)) = Len(ss) + 1
      /\ Append(ss, s)[Len(ss) + 1] = s
      /\ \A i \in 1..Len(ss) : Append(ss, s)[i] = ss[i]
  BY <1>1
<1> QED BY <1>2

LEMMA SaveReplaced ==
  ASSUME NEW ss \in Seq(SaveState), \A i \in 1..Len(ss) : Sound(ss[i]),
         NEW n \in 1..Len(ss), NEW s, Sound(s)
  PROVE  /\ [ss EXCEPT ![n] = s] \in Seq(SaveState)
         /\ Len([ss EXCEPT ![n] = s]) = Len(ss)
         /\ \A i \in 1..Len(ss) : Sound([ss EXCEPT ![n] = s][i])
<1>1. s \in SaveState
  BY DEF Sound
<1>2. /\ [ss EXCEPT ![n] = s] \in Seq(SaveState)
      /\ Len([ss EXCEPT ![n] = s]) = Len(ss)
      /\ \A i \in 1..Len(ss) : [ss EXCEPT ![n] = s][i] = IF i = n THEN s ELSE ss[i]
  BY <1>1
<1> QED BY <1>2

(* Steps of the screen alone.                                               *)
LEMMA OpenStep == SettingsInv /\ Open => SettingsInv'
<1> SUFFICES ASSUME SettingsInv, Open PROVE SettingsInv'
  OBVIOUS
<1>1. load = "none" /\ user = NoDoc
  BY DEF SettingsInv, ScreenInv, ClosedIsIdle, TypeOK, Open
<1>2. TypeOK'
  BY <1>1 DEF SettingsInv, TypeOK, Open, device, cells
<1> QED BY <1>1, <1>2 DEF SettingsInv, AllSound, ScreenInv, ClosedIsIdle, Loaded,
                          Shows, Open, device, cells

LEMMA CancelStep == SettingsInv /\ Cancel => SettingsInv'
<1> SUFFICES ASSUME SettingsInv, Cancel PROVE SettingsInv'
  OBVIOUS
<1> DEFINE elsewhen(i) == [saves[i] EXCEPT !.here = FALSE]
<1>1. /\ saves \in Seq(SaveState) /\ Len(saves) \in Nat /\ DOMAIN saves = 1..Len(saves)
      /\ \A i \in 1..Len(saves) : saves[i] \in SaveState /\ Coherent(saves[i].hud)
  BY DEF SettingsInv, TypeOK, AllSound, Sound
<1>2. ASSUME NEW i \in 1..Len(saves)
      PROVE  /\ elsewhen(i) \in SaveState /\ elsewhen(i).hud = saves[i].hud
             /\ elsewhen(i).stage = saves[i].stage
  BY <1>1, Zenon DEF SaveState
<1>3. saves' = [i \in 1..Len(saves) |-> elsewhen(i)]
  BY <1>1 DEF Cancel
<1>4. saves' \in Seq(SaveState) /\ Len(saves') = Len(saves)
  <2> HIDE DEF elsewhen
  <2> QED BY <1>1, <1>2, <1>3
<1>5. AllSound'
  <2>1. ASSUME NEW i \in 1..Len(saves)
        PROVE  saves'[i] = elsewhen(i) /\ Sound(saves[i])
    BY <1>3 DEF SettingsInv, AllSound
  <2> HIDE DEF elsewhen
  <2> QED BY <1>2, <1>4, <2>1 DEF AllSound, Sound
<1>6. shown' \in [Cells -> Values \cup {Blank, Zero}]
  BY NewCells DEF Cancel
<1>7. TypeOK'
  BY <1>4, <1>6 DEF SettingsInv, TypeOK, Cancel, device
<1> QED BY <1>5, <1>7 DEF SettingsInv, ScreenInv, ClosedIsIdle, Loaded, Shows, Cancel

(* The client's view of a document is a document or none.                   *)
LEMMA ViewType ==
  ASSUME TypeOK, NEW doc \in Doc \cup {NoDoc}
  PROVE  View(doc) \subseteq Doc \cup {NoDoc}
<1>1. \A i \in DOMAIN saves : saves[i] \in SaveState
  BY DEF TypeOK
<1>2. \A i \in DOMAIN saves : saves[i].doc \in Doc \cup {NoDoc}
  BY <1>1 DEF SaveState
<1> QED BY <1>2 DEF View

LEMMA AnsweredStep ==
  ASSUME SettingsInv, NEW doc \in Doc \cup {NoDoc}, Answered(doc),
         cached' \in Doc \cup {NoDoc}
  PROVE  SettingsInv'
<1>1. user = NoDoc
  BY DEF SettingsInv, TypeOK, Answered
<1>2. TypeOK'
  BY <1>1 DEF SettingsInv, TypeOK, Answered, cells
<1> QED BY <1>1, <1>2 DEF SettingsInv, AllSound, ScreenInv, ClosedIsIdle, Loaded,
                          Shows, Answered, cells

LEMMA LoadStep == SettingsInv /\ (LoadFails \/ LoadCallback \/ Reload) => SettingsInv'
<1> SUFFICES ASSUME SettingsInv, LoadFails \/ LoadCallback \/ Reload
             PROVE  SettingsInv'
  OBVIOUS
<1> USE DEF SettingsInv, ScreenInv, AllSound, ClosedIsIdle, Loaded, Shows
<1>1. CASE LoadFails
  BY <1>1 DEF TypeOK, LoadFails, device, cells
<1>2. CASE LoadCallback
  <2>1. CASE answer = NoDoc
    BY <1>2, <2>1 DEF TypeOK, LoadCallback, device
  <2>2. CASE answer # NoDoc
    <3>1. answer \in Doc /\ load' = "reload" /\ user' = UserOf(answer)
      BY <1>2, <2>2 DEF TypeOK, LoadCallback
    <3>2. user' \in Doc /\ user' # NoDoc
      BY <3>1, UserOfType, NoDocument
    <3>3. TypeOK'
      BY <1>2, <3>1, <3>2 DEF TypeOK, LoadCallback, device
    <3>4. \A f \in Fields \ edited : OrBlank(user'[f]) = OrBlank(answer[f])
      BY <3>1, UserOfType
    <3> QED BY <1>2, <2>2, <3>1, <3>3, <3>4 DEF LoadCallback
  <2> QED BY <2>1, <2>2
<1>3. CASE Reload
  <2>1. load = "reload" /\ user \in Doc /\ user # NoDoc
    BY <1>3 DEF TypeOK, Reload
  <2>2. shown' \in [Cells -> Values \cup {Blank, Zero}]
    BY <1>3, <2>1, NewCells DEF Reload
  <2>3. \A f \in TextFields \cup SliderFields : shown'[f] = OrBlank(user[f])
    BY <1>3, <2>1, FieldNames, ShowingType DEF Reload
  <2>4. TypeOK'
    BY <1>3, <2>1, <2>2 DEF TypeOK, Reload, device
  <2> QED BY <1>3, <2>1, <2>3, <2>4 DEF Reload
<1> QED BY <1>1, <1>2, <1>3

(* An edit gives the user what its cell shows, or nil for an age that is    *)
(* not a number.                                                            *)
LEMMA EditStep ==
  ASSUME SettingsInv, NEW f \in Cells, NEW text \in Values \cup {Blank},
         NEW v \in Values \cup {Blank, Nil}, Edit(f, text, v),
         f # "age" => v = text
  PROVE  SettingsInv'
<1> USE DEF SettingsInv, ScreenInv, AllSound, ClosedIsIdle, Loaded, Shows
<1>1. shown' \in [Cells -> Values \cup {Blank, Zero}]
  BY DEF TypeOK, Edit
<1>2. CASE user = NoDoc
  <2>1. TypeOK'
    BY <1>1, <1>2 DEF TypeOK, Edit, device
  <2>2. load' # "shown"
    BY <1>2 DEF TypeOK, Edit
  <2> QED BY <1>2, <2>1, <2>2 DEF Edit
<1>3. CASE user # NoDoc
  <2>1. /\ user \in Doc /\ user' = [user EXCEPT ![f] = v] /\ f \in Fields
        /\ edited' = edited \cup {f}
    BY <1>3, FieldNames DEF TypeOK, Edit
  <2>2. user' \in Doc /\ user' # NoDoc
    <3>1. user' \in Doc
      BY <2>1 DEF Doc
    <3> QED BY <3>1, NoDocument
  <2>3. TypeOK'
    BY <1>1, <1>3, <2>1, <2>2 DEF TypeOK, Edit, device
  <2>4. \A g \in Fields : user'[g] = IF g = f THEN v ELSE user[g]
    BY <2>1 DEF Doc
  <2>5. Loaded'
    BY <1>3, <2>1, <2>4 DEF Edit
  <2>6. \A g \in Cells : shown'[g] = IF g = f THEN text ELSE shown[g]
    BY DEF Edit, TypeOK
  <2>7. OrBlank(text) = text
    BY Blanks, SettingsAssumption
  <2>8. Shows'
    BY <2>4, <2>6, <2>7, FieldNames DEF Edit
  <2> QED BY <2>3, <2>5, <2>8 DEF Edit
<1> QED BY <1>2, <1>3

(* A cell made anew shows what the user has.                                *)
LEMMA ScrollStep ==
  ASSUME SettingsInv, NEW fs, Scroll(fs)
  PROVE  SettingsInv'
<1> USE DEF SettingsInv, ScreenInv, AllSound, ClosedIsIdle, Loaded, Shows
<1>1. \A f \in Cells : shown[f] \in Values \cup {Blank, Zero}
  BY DEF TypeOK
<1>2. user \in Doc \cup {NoDoc}
  BY DEF TypeOK
<1>3. shown' \in [Cells -> Values \cup {Blank, Zero}]
  BY <1>1, <1>2, ShowingType DEF Scroll
<1>4. TypeOK'
  BY <1>3 DEF TypeOK, Scroll, device
<1>5. Shows'
  <2> SUFFICES ASSUME load = "shown", NEW f \in TextFields \cup SliderFields
               PROVE  shown'[f] = OrBlank(user[f])
    BY DEF Scroll
  <2>1. f \in Cells /\ f # "age" /\ user # NoDoc
    BY FieldNames DEF TypeOK
  <2>2. Showing(user, f) = OrBlank(user[f])
    BY <1>2, <2>1, ShowingType
  <2> QED BY <2>1, <2>2 DEF Scroll
<1> QED BY <1>4, <1>5 DEF Scroll, device

-----------------------------------------------------------------------------
(* A save starts with a new HUD that is shown.                              *)
LEMMA SaveStep == SettingsInv /\ Save => SettingsInv'
<1> SUFFICES ASSUME SettingsInv, Save PROVE SettingsInv'
  OBVIOUS
<1> USE DEF SettingsInv, ScreenInv, ClosedIsIdle, Loaded, Shows
<1> DEFINE s == [doc |-> SaveDict(user), stage |-> "queued",
                 hud |-> ShowInView(NewHUD, TRUE), here |-> TRUE]
<1>1. user \in Doc \cup {NoDoc} /\ SaveDict(user) \in Doc
  BY SaveDictType DEF TypeOK
<1>2. Coherent(ShowInView(NewHUD, TRUE))
  BY NewHUDCoherent, ShowCoherent
<1>3. s \in SaveState /\ s.hud = ShowInView(NewHUD, TRUE) /\ s.stage = "queued"
  BY <1>1, <1>2 DEF SaveState, Stages, Coherent
<1>4. Sound(s)
  BY <1>2, <1>3 DEF Sound
<1>5. saves' = Append(saves, s)
  BY DEF Save
<1> HIDE DEF s
<1>6. saves' \in Seq(SaveState) /\ AllSound'
  BY <1>4, <1>5, SaveAdded DEF TypeOK, AllSound
<1>7. TypeOK'
  BY <1>1, <1>6 DEF TypeOK, Save, device, cells
<1> QED BY <1>6, <1>7 DEF Save, device, cells

(* A save of the type is replaced by one whose HUD is coherent, while the   *)
(* screen stays as it is.                                                   *)
LEMMA ReplacedStep ==
  ASSUME SettingsInv, NEW n \in DOMAIN saves, NEW s, Sound(s),
         saves' = [saves EXCEPT ![n] = s],
         profile' \in Doc \cup {NoDoc}, cached' \in Doc \cup {NoDoc},
         lastSave' \in Doc \cup {NoDoc}, expected' \in Doc \cup {NoDoc},
         UNCHANGED <<signedIn, elsewhere, open, load, answer, cells>>
  PROVE  SettingsInv'
<1>1. saves \in Seq(SaveState) /\ n \in 1..Len(saves)
  BY DEF SettingsInv, TypeOK
<1>2. saves' \in Seq(SaveState) /\ AllSound'
  BY <1>1, SaveReplaced DEF SettingsInv, AllSound
<1>3. TypeOK'
  BY <1>2 DEF SettingsInv, TypeOK, cells
<1> QED BY <1>2, <1>3 DEF SettingsInv, ScreenInv, ClosedIsIdle, Loaded, Shows, cells

(* The server's answers to the saves.                                       *)
LEMMA ServerStep ==
  ASSUME SettingsInv, NEW i \in DOMAIN saves,
         SaveUnacknowledged(i) \/ SaveAcknowledged(i) \/ SaveRejected(i)
  PROVE  SettingsInv'
<1>1. /\ saves[i] \in SaveState /\ saves[i].doc \in Doc \cup {NoDoc}
      /\ Coherent(saves[i].hud)
  BY DEF SettingsInv, TypeOK, AllSound, Sound, SaveState
<1>2. CASE SaveUnacknowledged(i)
  <2>1. TypeOK'
    BY <1>1, <1>2 DEF SettingsInv, TypeOK, SaveUnacknowledged, cells
  <2> QED BY <1>2, <2>1 DEF SettingsInv, AllSound, ScreenInv, ClosedIsIdle, Loaded,
                            Shows, SaveUnacknowledged, cells
<1>3. ASSUME NEW st \in Stages \ {"done"}
      PROVE  Sound([saves[i] EXCEPT !.stage = st, !.doc = NoDoc])
  <2> DEFINE s == [saves[i] EXCEPT !.stage = st, !.doc = NoDoc]
  <2>1. s \in SaveState /\ s.hud = saves[i].hud /\ s.stage # "done"
    BY <1>1, <1>3 DEF SaveState
  <2>2. Sound(s)
    <3> HIDE DEF s
    <3> QED BY <1>1, <2>1 DEF Sound
  <2> QED BY <2>2
<1>4. CASE SaveAcknowledged(i)
  <2>1. saves' = [saves EXCEPT ![i] =
                    [saves[i] EXCEPT !.stage = "acknowledged", !.doc = NoDoc]]
    BY <1>4 DEF SaveAcknowledged
  <2> QED BY <1>1, <1>3, <1>4, <2>1, ReplacedStep
          DEF SettingsInv, TypeOK, SaveAcknowledged, Stages, cells
<1>5. CASE SaveRejected(i)
  <2>1. saves' = [saves EXCEPT ![i] =
                    [saves[i] EXCEPT !.stage = "rejected", !.doc = NoDoc]]
    BY <1>5 DEF SaveRejected
  <2> QED BY <1>1, <1>3, <1>5, <2>1, ReplacedStep
          DEF SettingsInv, TypeOK, SaveRejected, Stages, device, cells
<1> QED BY <1>2, <1>4, <1>5

(* The completion block of a save and the fades of its HUD.                 *)
LEMMA HUDStep ==
  ASSUME SettingsInv, NEW i \in DOMAIN saves, SaveCallback(i) \/ HUDFade(i)
  PROVE  SettingsInv'
<1>1. saves[i] \in SaveState /\ Sound(saves[i]) /\ Coherent(saves[i].hud)
  BY DEF SettingsInv, TypeOK, AllSound, Sound
<1>2. ASSUME NEW h, Coherent(h), Leaving(h)
      PROVE  Sound([saves[i] EXCEPT !.stage = "done", !.hud = h])
  <2> DEFINE s == [saves[i] EXCEPT !.stage = "done", !.hud = h]
  <2>1. s \in SaveState /\ s.hud = h
    BY <1>1, <1>2, Zenon DEF SaveState, Stages, Coherent
  <2>2. Sound(s)
    <3> HIDE DEF s
    <3> QED BY <1>2, <2>1 DEF Sound
  <2> QED BY <2>2
<1>3. CASE SaveCallback(i)
  <2>1. Coherent(Dismissed(i)) /\ Leaving(Dismissed(i))
    BY <1>1, DismissCoherent DEF Dismissed
  <2>2. saves' = [saves EXCEPT ![i] =
                    [saves[i] EXCEPT !.stage = "done", !.hud = Dismissed(i)]]
    BY <1>3 DEF SaveCallback
  <2>3. Sound([saves[i] EXCEPT !.stage = "done", !.hud = Dismissed(i)])
    BY <1>2, <2>1
  <2> QED BY <1>3, <2>2, <2>3, ReplacedStep
          DEF SettingsInv, TypeOK, SaveCallback, device, cells
<1>4. CASE HUDFade(i)
  <2>1. PICK in \in BOOLEAN :
          /\ FadeOwed(saves[i].hud, in)
          /\ saves' = [saves EXCEPT ![i].hud = AnimationFinished(saves[i].hud, in)]
    BY <1>4 DEF HUDFade
  <2> DEFINE h == AnimationFinished(saves[i].hud, in)
             s == [saves[i] EXCEPT !.hud = h]
  <2>2. Coherent(h) /\ (Leaving(saves[i].hud) => Leaving(h))
    BY <1>1, <2>1, FadeCoherent
  <2>3. saves' = [saves EXCEPT ![i] = s]
    BY <2>1
  <2>4. Sound(s)
    <3> HIDE DEF h
    <3>1. s \in SaveState /\ s.hud = h /\ s.stage = saves[i].stage
      BY <1>1, <2>2 DEF SaveState, Coherent
    <3> HIDE DEF s
    <3> QED BY <1>1, <2>2, <3>1 DEF Sound
  <2> HIDE DEF s
  <2> QED BY <1>4, <2>3, <2>4, ReplacedStep
          DEF SettingsInv, TypeOK, HUDFade, device, cells
<1> QED BY <1>3, <1>4

LEMMA ElsewhereStep ==
  ASSUME SettingsInv, NEW f \in Cells, NEW v \in Values, ChangedElsewhere(f, v)
  PROVE  SettingsInv'
<1>1. profile \in Doc
  BY DEF SettingsInv, TypeOK, ChangedElsewhere
<1>2. SaveDict(UserOf(profile)) \in Doc
  BY <1>1, UserOfType, SaveDictType
<1>3. profile' \in Doc
  BY <1>2 DEF ChangedElsewhere, Doc
<1>4. elsewhere' \in 0..MaxElsewhere
  BY SettingsAssumption DEF SettingsInv, TypeOK, ChangedElsewhere
<1>5. TypeOK'
  BY <1>3, <1>4 DEF SettingsInv, TypeOK, ChangedElsewhere, cells
<1> QED BY <1>5 DEF SettingsInv, AllSound, ScreenInv, ClosedIsIdle, Loaded, Shows,
                    ChangedElsewhere, cells

LEMMA StepHolds == SettingsInv /\ [Next]_vars => SettingsInv'
<1> SUFFICES ASSUME SettingsInv, [Next]_vars PROVE SettingsInv'
  OBVIOUS
<1>1. CASE UNCHANGED vars
  BY <1>1 DEF SettingsInv, TypeOK, AllSound, ScreenInv, ClosedIsIdle, Loaded, Shows,
              vars, device, cells
<1>2. CASE User
  <2>1. ASSUME NEW f \in TextFields \cup SliderFields, NEW v \in Values \cup {Blank},
               Edit(f, v, v)
        PROVE  SettingsInv'
    BY <2>1, FieldNames, EditStep
  <2>2. ASSUME NEW v \in Values \cup {Blank}, EditAge(v)
        PROVE  SettingsInv'
    BY <2>2, FieldNames, EditStep DEF EditAge
  <2>3. ASSUME NEW fs, Scroll(fs)
        PROVE  SettingsInv'
    BY <2>3, ScrollStep
  <2> QED BY <1>2, <2>1, <2>2, <2>3, OpenStep, CancelStep, SaveStep DEF User
<1>3. CASE Fetch
  <2>1. CASE ServerAnswers
    <3>1. PICK doc \in View(profile) : Answered(doc)
      BY <2>1 DEF ServerAnswers
    <3>2. doc \in Doc \cup {NoDoc} /\ cached' \in Doc \cup {NoDoc}
      BY <2>1, <3>1, ViewType DEF SettingsInv, TypeOK, ServerAnswers
    <3> QED BY <3>1, <3>2, AnsweredStep
  <2>2. CASE CacheAnswers
    <3>1. PICK doc \in View(cached) : Answered(doc)
      BY <2>2 DEF CacheAnswers
    <3>2. doc \in Doc \cup {NoDoc} /\ cached' \in Doc \cup {NoDoc}
      BY <2>2, <3>1, ViewType DEF SettingsInv, TypeOK, CacheAnswers
    <3> QED BY <3>1, <3>2, AnsweredStep
  <2> QED BY <1>3, <2>1, <2>2, LoadStep DEF Fetch
<1>4. ASSUME NEW i \in DOMAIN saves,
             \/ SaveUnacknowledged(i) \/ SaveAcknowledged(i) \/ SaveRejected(i)
             \/ SaveCallback(i) \/ HUDFade(i)
      PROVE  SettingsInv'
  BY <1>4, ServerStep, HUDStep
<1>5. ASSUME NEW f \in Cells, NEW v \in Values, ChangedElsewhere(f, v)
      PROVE  SettingsInv'
  BY <1>5, ElsewhereStep
<1> QED BY <1>1, <1>2, <1>3, <1>4, <1>5 DEF Next

LEMMA Always == Spec => []SettingsInv
  BY InitHolds, StepHolds, PTL DEF Spec

(* The variables of SettingsViewController, of the documents and of every   *)
(* save keep their types.                                                   *)
THEOREM SettingsTypeOK == Spec => []TypeOK
<1>1. SettingsInv => TypeOK
  BY DEF SettingsInv
<1> QED BY <1>1, Always, PTL

(* What the cells of cellForRowAt show is what saveHandle writes, for the   *)
(* fields the property names, whatever is edited, scrolled and saved.       *)
THEOREM SettingsScreenTruth == Spec => []ScreenTruth
<1>1. SettingsInv => ScreenTruth
  <2> SUFFICES ASSUME SettingsInv, load = "shown",
                      NEW f \in TextFields \cup SliderFields
               PROVE  shown[f] = SaveDict(user)[f]
    BY DEF ScreenTruth
  <2>1. user \in Doc /\ user # NoDoc /\ f \in Fields
    BY FieldNames DEF SettingsInv, TypeOK
  <2>2. SaveDict(user)[f] = OrBlank(user[f])
    BY <2>1, SaveDictType
  <2> QED BY <2>2 DEF SettingsInv, ScreenInv, Shows
<1> QED BY <1>1, Always, PTL

(* The HUD of saveHandle goes once the completion block of its setData has  *)
(* run, whatever fade it ran in.                                            *)
THEOREM SettingsAnsweredSaveLeaves == Spec => []AnsweredSaveLeaves
<1>1. SettingsInv => AnsweredSaveLeaves
  <2>1. SettingsInv => DOMAIN saves = 1..Len(saves)
    BY DEF SettingsInv, TypeOK
  <2> QED BY <2>1 DEF SettingsInv, AllSound, Sound, AnsweredSaveLeaves
<1> QED BY <1>1, Always, PTL

(* saveHandle overwrites the whole document, but with what was fetched      *)
(* wherever nothing was edited.                                             *)
THEOREM SettingsSaveKeepsTheRest == Spec => SaveKeepsTheRest
<1>1. SettingsInv /\ [Next]_vars =>
        [Len(saves') > Len(saves) /\ user # NoDoc =>
           \A f \in Fields \ edited :
             saves'[Len(saves')].doc[f] = OrBlank(answer[f])]_vars
  <2> SUFFICES ASSUME SettingsInv, Next, Len(saves') > Len(saves), user # NoDoc,
                      NEW f \in Fields \ edited
               PROVE  saves'[Len(saves')].doc[f] = OrBlank(answer[f])
    OBVIOUS
  <2>1. saves \in Seq(SaveState) /\ user \in Doc
    BY DEF SettingsInv, TypeOK
  <2>2. Save
    <3>1. ~(saves' = saves)
      BY <2>1
    <3>2. ASSUME NEW i \in DOMAIN saves, NEW s, saves' = [saves EXCEPT ![i] = s]
          PROVE  FALSE
      BY <2>1, <3>2
    <3>3. ~Cancel
      <4>1. Cancel => Len(saves') = Len(saves)
        BY <2>1 DEF Cancel
      <4> QED BY <2>1, <4>1
    <3>4. ~Fetch
      BY <3>1 DEF Fetch, ServerAnswers, CacheAnswers, Answered, LoadFails,
                  LoadCallback, Reload
    <3>5. ASSUME NEW i \in DOMAIN saves
          PROVE  ~(\/ SaveUnacknowledged(i) \/ SaveAcknowledged(i) \/ SaveRejected(i)
                   \/ SaveCallback(i) \/ HUDFade(i))
      BY <3>1, <3>2 DEF SaveUnacknowledged, SaveAcknowledged, SaveRejected,
                        SaveCallback, HUDFade
    <3> QED BY <3>1, <3>3, <3>4, <3>5
            DEF Next, User, Open, Edit, EditAge, Scroll, ChangedElsewhere
  <2>3. saves'[Len(saves')].doc = SaveDict(user)
    BY <2>1, <2>2 DEF Save
  <2>4. SaveDict(user)[f] = OrBlank(user[f])
    BY <2>1, SaveDictType
  <2> QED BY <2>3, <2>4 DEF SettingsInv, ScreenInv, Loaded
<1> QED BY <1>1, Always, PTL DEF Spec, SaveKeepsTheRest

-----------------------------------------------------------------------------
(* What was saved last is in the newest save while that is queued, and then *)
(* on the server and in the cache.                                          *)
LastSaved ==
  lastSave # NoDoc =>
    /\ lastSave \in SavedDocs
    /\ Len(saves) > 0
    /\ IF saves[Len(saves)].stage = "queued"
       THEN saves[Len(saves)].doc = lastSave
       ELSE profile = lastSave /\ cached = lastSave

(* Saves are answered in their order.                                       *)
QueuedLast ==
  \A i, j \in 1..Len(saves) :
    i < j /\ saves[i].stage = "queued" => saves[j].stage = "queued"

(* A screen that is to load the last save has it in hand once answered.     *)
Expects ==
  expected # NoDoc =>
    /\ expected = lastSave
    /\ load = "answered" => answer = expected
    /\ load \in {"reload", "shown"} => user = expected

LoadInv == LastSaved /\ QueuedLast /\ Expects

(* A saved document is decoded to itself: its picture is never nil.         *)
LEMMA SavedDecoded ==
  ASSUME NEW d \in SavedDocs
  PROVE  UserOf(d) = d
<1>1. d["image1Url"] \in Values \cup {Blank}
  BY FieldNames DEF SavedDocs
<1>2. OrBlank(d["image1Url"]) = d["image1Url"]
  BY <1>1, SettingsAssumption DEF OrBlank
<1> QED BY <1>2 DEF UserOf, SavedDocs

LEMMA SaveDictSaved ==
  ASSUME NEW u \in Doc \cup {NoDoc}
  PROVE  SaveDict(u) \in SavedDocs /\ SaveDict(u) # NoDoc
<1>1. SaveDict(u) \in SavedDocs
  BY Blanks DEF SaveDict, AllBlank, Doc, SavedDocs
<1> QED BY <1>1, SaveDictType, NoDocument

(* With the newest save answered, none is queued; else the client shows it. *)
LEMMA ViewLastSaved ==
  ASSUME SettingsInv, LoadInv, lastSave # NoDoc,
         NEW d, NEW doc \in View(d), d \in {profile, cached}
  PROVE  doc = lastSave
<1>1. /\ saves \in Seq(SaveState) /\ DOMAIN saves = 1..Len(saves)
      /\ Len(saves) \in Nat /\ Len(saves) > 0
  BY DEF SettingsInv, TypeOK, LoadInv, LastSaved
<1> PICK last : last = Len(saves)
  OBVIOUS
<1>2. last \in 1..Len(saves) /\ \A i \in 1..Len(saves) : i = last \/ i < last
  BY <1>1
<1>3. CASE saves[last].stage = "queued"
  <2>1. ASSUME NEW i \in 1..Len(saves), Newest(i) PROVE i = last
    <3>1. last <= i
      BY <1>1, <1>3, <1>2, <2>1 DEF Newest
    <3> QED BY <1>1, <1>2, <3>1
  <2>2. PICK i \in 1..Len(saves) : Newest(i) /\ doc = saves[i].doc
    BY <1>1, <1>3 DEF View
  <2> QED BY <1>3, <2>1, <2>2 DEF LoadInv, LastSaved
<1>4. CASE saves[last].stage # "queued"
  <2>1. \A i \in 1..Len(saves) : saves[i].stage # "queued"
    <3> SUFFICES ASSUME NEW i \in 1..Len(saves), saves[i].stage = "queued"
                 PROVE  FALSE
      OBVIOUS
    <3>1. i < last
      BY <1>4, <1>2
    <3> QED BY <1>4, <1>2, <3>1 DEF LoadInv, QueuedLast
  <2>2. doc = d
    BY <1>1, <2>1 DEF View
  <2> QED BY <1>4, <2>2 DEF LoadInv, LastSaved
<1> QED BY <1>3, <1>4

LEMMA LoadInitHolds == Init => LoadInv
  BY DEF Init, LoadInv, LastSaved, QueuedLast, Expects

(* A step that leaves the documents, the order of the saves and what is     *)
(* still queued of them keeps what is known of the last one.                *)
LEMMA LastSavedKept ==
  ASSUME LastSaved, QueuedLast, Len(saves') = Len(saves), Len(saves) \in Nat,
         \A i \in 1..Len(saves) :
           /\ saves'[i].stage = "queued" <=> saves[i].stage = "queued"
           /\ saves[i].stage = "queued" => saves'[i].doc = saves[i].doc,
         UNCHANGED <<profile, cached, lastSave>>
  PROVE  LastSaved' /\ QueuedLast'
<1>1. QueuedLast'
  BY DEF QueuedLast
<1>2. LastSaved'
  BY DEF LastSaved
<1> QED BY <1>1, <1>2

LEMMA LoadOfScreen ==
  ASSUME SettingsInv, LoadInv,
         Open \/ Cancel \/ LoadFails \/ LoadCallback \/ Reload
  PROVE  LoadInv'
<1>1. /\ saves \in Seq(SaveState) /\ DOMAIN saves = 1..Len(saves)
      /\ Len(saves) \in Nat /\ \A i \in 1..Len(saves) : saves[i] \in SaveState
  BY DEF SettingsInv, TypeOK
<1>2. LastSaved' /\ QueuedLast'
  <2>1. CASE Cancel
    <3> DEFINE gone(i) == [saves[i] EXCEPT !.here = FALSE]
    <3>1. ASSUME NEW i \in 1..Len(saves)
          PROVE  gone(i).stage = saves[i].stage /\ gone(i).doc = saves[i].doc
      BY <1>1, Zenon DEF SaveState
    <3>2. saves' = [i \in 1..Len(saves) |-> gone(i)]
      BY <1>1, <2>1 DEF Cancel
    <3> HIDE DEF gone
    <3>3. Len(saves') = Len(saves)
      BY <1>1, <3>2
    <3>4. ASSUME NEW i \in 1..Len(saves)
          PROVE  saves'[i].stage = saves[i].stage /\ saves'[i].doc = saves[i].doc
      BY <3>1, <3>2
    <3>5. UNCHANGED <<profile, cached, lastSave>>
      BY <2>1 DEF Cancel, device
    <3> QED BY <1>1, <3>3, <3>4, <3>5, LastSavedKept DEF LoadInv
  <2>2. CASE ~Cancel
    <3>1. UNCHANGED <<saves, profile, cached, lastSave>>
      BY <2>2 DEF Open, LoadFails, LoadCallback, Reload, device
    <3> QED BY <3>1 DEF LoadInv, LastSaved, QueuedLast
  <2> QED BY <2>1, <2>2
<1>3. Expects'
  <2>1. CASE Open
    BY <2>1 DEF Open, Expects
  <2>2. CASE Cancel
    BY <2>2 DEF Cancel, Expects
  <2>3. CASE LoadFails
    BY <2>3 DEF LoadFails, LoadInv, Expects
  <2>4. CASE LoadCallback
    <3>1. expected # NoDoc => expected \in SavedDocs /\ answer = expected
      BY <2>4 DEF LoadCallback, LoadInv, LastSaved, Expects
    <3>2. expected # NoDoc => UserOf(answer) = expected
      BY <3>1, SavedDecoded
    <3> QED BY <2>4, <3>1, <3>2 DEF LoadCallback, LoadInv, Expects
  <2>5. CASE Reload
    BY <2>5 DEF Reload, LoadInv, Expects
  <2> QED BY <2>1, <2>2, <2>3, <2>4, <2>5
<1> QED BY <1>2, <1>3 DEF LoadInv

(* The answer to the fetch is what was saved last, where that is known.     *)
LEMMA LoadAnswered ==
  ASSUME SettingsInv, LoadInv, ServerAnswers \/ CacheAnswers
  PROVE  LoadInv'
<1>1. PICK d \in {profile, cached} : \E doc \in View(d) : Answered(doc)
  BY DEF ServerAnswers, CacheAnswers
<1>2. PICK doc \in View(d) : Answered(doc)
  BY <1>1
<1>3. expected # NoDoc => doc = expected
  BY <1>1, <1>2, ViewLastSaved DEF LoadInv, Expects
<1>4. Expects'
  BY <1>2, <1>3 DEF Answered, LoadInv, Expects
<1>5. LastSaved' /\ QueuedLast'
  BY DEF ServerAnswers, CacheAnswers, Answered, LoadInv, LastSaved, QueuedLast
<1> QED BY <1>4, <1>5 DEF LoadInv

LEMMA LoadOfEdits ==
  ASSUME SettingsInv, LoadInv, NEW f, NEW text, NEW v, NEW fs,
         Edit(f, text, v) \/ Scroll(fs)
  PROVE  LoadInv'
<1>1. LastSaved' /\ QueuedLast'
  BY DEF Edit, Scroll, device, LoadInv, LastSaved, QueuedLast
<1>2. Expects'
  <2>1. CASE Edit(f, text, v)
    BY <2>1 DEF Edit, SettingsInv, TypeOK, LoadInv, Expects
  <2>2. CASE Scroll(fs)
    BY <2>2 DEF Scroll, LoadInv, Expects
  <2> QED BY <2>1, <2>2
<1> QED BY <1>1, <1>2 DEF LoadInv

(* The newest save holds what was saved last.                               *)
LEMMA LoadOfSave == SettingsInv /\ LoadInv /\ Save => LoadInv'
<1> SUFFICES ASSUME SettingsInv, LoadInv, Save PROVE LoadInv'
  OBVIOUS
<1>1. saves \in Seq(SaveState) /\ user \in Doc \cup {NoDoc}
  BY DEF SettingsInv, TypeOK
<1>2. PICK s : /\ saves' = Append(saves, s)
               /\ s.stage = "queued" /\ s.doc = SaveDict(user)
  <2>1. PICK s : s = [doc |-> SaveDict(user), stage |-> "queued",
                      hud |-> ShowInView(NewHUD, TRUE), here |-> TRUE]
    OBVIOUS
  <2>2. s.stage = "queued" /\ s.doc = SaveDict(user)
    BY <2>1
  <2> QED BY <2>1, <2>2 DEF Save
<1>3. /\ Len(saves') = Len(saves) + 1 /\ Len(saves) \in Nat
      /\ saves'[Len(saves) + 1] = s
      /\ \A i \in 1..Len(saves) : saves'[i] = saves[i]
  BY <1>1, <1>2
<1>4. LastSaved'
  BY <1>1, <1>2, <1>3, SaveDictSaved DEF Save, LastSaved
<1>5. QueuedLast'
  BY <1>2, <1>3 DEF LoadInv, QueuedLast
<1>6. Expects'
  BY DEF Save, Expects
<1> QED BY <1>4, <1>5, <1>6 DEF LoadInv

(* The oldest queued save is answered: those after it stay queued.          *)
LEMMA OldestAnswered ==
  ASSUME SettingsInv, LoadInv, NEW n \in 1..Len(saves), Oldest(n), NEW s,
         saves' = [saves EXCEPT ![n] = s], s.stage # "queued"
  PROVE  /\ QueuedLast' /\ Len(saves') = Len(saves)
         /\ saves'[n].stage # "queued"
         /\ n # Len(saves) => /\ saves'[Len(saves)] = saves[Len(saves)]
                              /\ saves[Len(saves)].stage = "queued"
<1>1. saves \in Seq(SaveState) /\ DOMAIN saves = 1..Len(saves) /\ Len(saves) \in Nat
  BY DEF SettingsInv, TypeOK
<1>2. /\ Len(saves') = Len(saves)
      /\ \A i \in 1..Len(saves) : saves'[i] = IF i = n THEN s ELSE saves[i]
  BY <1>1
<1>3. \A i \in 1..Len(saves) : n < i => saves[i].stage = "queued"
  BY DEF LoadInv, QueuedLast, Oldest
<1>4. \A i \in 1..Len(saves) : saves'[i].stage = "queued" => n < i
  BY <1>1, <1>2 DEF Oldest
<1>5. QueuedLast'
  BY <1>1, <1>2, <1>3, <1>4 DEF QueuedLast
<1>6. Len(saves) \in 1..Len(saves) /\ (n # Len(saves) => n < Len(saves))
  <2>1. \A k \in Nat : \A m \in 1..k : k \in 1..k /\ (m # k => m < k)
    OBVIOUS
  <2> QED BY <1>1, <2>1
<1> QED BY <1>2, <1>3, <1>5, <1>6

LEMMA LoadOfAnswers ==
  ASSUME SettingsInv, LoadInv, NEW n \in DOMAIN saves,
         SaveUnacknowledged(n) \/ SaveAcknowledged(n) \/ SaveRejected(n)
  PROVE  LoadInv'
<1>1. /\ saves \in Seq(SaveState) /\ n \in 1..Len(saves) /\ Len(saves) \in Nat
      /\ saves[n] \in SaveState /\ 1..Len(saves) = DOMAIN saves
  BY DEF SettingsInv, TypeOK
<1>2. CASE SaveUnacknowledged(n)
  <2>1. saves[n].stage = "queued" /\ (n = Len(saves) \/ n < Len(saves))
    BY <1>1, <1>2 DEF SaveUnacknowledged, Oldest
  <2>2. Len(saves) \in 1..Len(saves)
    BY <1>1
  <2>3. saves[Len(saves)].stage = "queued"
    BY <1>1, <2>1, <2>2 DEF LoadInv, QueuedLast
  <2>4. LastSaved' /\ QueuedLast'
    BY <1>2, <2>3 DEF SaveUnacknowledged, LoadInv, LastSaved, QueuedLast
  <2> QED BY <1>2, <2>4 DEF SaveUnacknowledged, cells, LoadInv, Expects
<1>3. CASE SaveAcknowledged(n)
  <2>1. PICK s : saves' = [saves EXCEPT ![n] = s] /\ s.stage # "queued"
    <3>1. PICK s : s = [saves[n] EXCEPT !.stage = "acknowledged", !.doc = NoDoc]
      OBVIOUS
    <3>2. saves' = [saves EXCEPT ![n] = s] /\ s.stage = "acknowledged"
      BY <1>1, <1>3, <3>1 DEF SaveAcknowledged, SaveState
    <3> QED BY <3>2
  <2>2. Oldest(n) /\ profile' = saves[n].doc /\ cached' = saves[n].doc
    BY <1>3 DEF SaveAcknowledged
  <2>3. /\ QueuedLast' /\ Len(saves') = Len(saves)
        /\ saves'[n].stage # "queued"
        /\ n # Len(saves) => /\ saves'[Len(saves)] = saves[Len(saves)]
                             /\ saves[Len(saves)].stage = "queued"
    BY <1>1, <2>1, <2>2, OldestAnswered
  <2>4. LastSaved'
    <3>1. lastSave' = lastSave /\ saves[n].stage = "queued"
      BY <1>3, <2>2 DEF SaveAcknowledged, Oldest
    <3>2. CASE n = Len(saves)
      BY <2>2, <2>3, <3>1, <3>2 DEF LoadInv, LastSaved
    <3>3. CASE n # Len(saves)
      BY <2>3, <3>1, <3>3 DEF LoadInv, LastSaved
    <3> QED BY <3>2, <3>3
  <2> QED BY <1>3, <2>3, <2>4 DEF SaveAcknowledged, cells, LoadInv, Expects
<1>4. CASE SaveRejected(n)
  <2>1. PICK s : saves' = [saves EXCEPT ![n] = s] /\ s.stage # "queued"
    <3>1. PICK s : s = [saves[n] EXCEPT !.stage = "rejected", !.doc = NoDoc]
      OBVIOUS
    <3>2. saves' = [saves EXCEPT ![n] = s] /\ s.stage = "rejected"
      BY <1>1, <1>4, <3>1 DEF SaveRejected, SaveState
    <3> QED BY <3>2
  <2>2. Oldest(n)
    BY <1>4 DEF SaveRejected
  <2>3. /\ QueuedLast' /\ Len(saves') = Len(saves)
        /\ n # Len(saves) => /\ saves'[Len(saves)] = saves[Len(saves)]
                             /\ saves[Len(saves)].stage = "queued"
    BY <1>1, <2>1, <2>2, OldestAnswered
  <2>4. LastSaved'
    BY <1>4, <2>3 DEF SaveRejected, device, LoadInv, LastSaved
  <2> QED BY <1>4, <2>3, <2>4 DEF SaveRejected, cells, LoadInv, Expects
<1> QED BY <1>2, <1>3, <1>4

LEMMA LoadOfHUD ==
  ASSUME SettingsInv, LoadInv, NEW n \in DOMAIN saves,
         SaveCallback(n) \/ HUDFade(n)
  PROVE  LoadInv'
<1>1. /\ saves \in Seq(SaveState) /\ n \in 1..Len(saves) /\ Len(saves) \in Nat
      /\ saves[n] \in SaveState /\ 1..Len(saves) = DOMAIN saves
  BY DEF SettingsInv, TypeOK
<1>2. PICK s : /\ saves' = [saves EXCEPT ![n] = s]
               /\ s.stage = "queued" <=> saves[n].stage = "queued"
               /\ s.doc = saves[n].doc
  <2>1. CASE SaveCallback(n)
    <3>1. PICK s : s = [saves[n] EXCEPT !.stage = "done", !.hud = Dismissed(n)]
      OBVIOUS
    <3>2. /\ saves' = [saves EXCEPT ![n] = s]
          /\ s.stage = "done" /\ s.doc = saves[n].doc
      BY <1>1, <2>1, <3>1 DEF SaveCallback, SaveState
    <3> QED BY <2>1, <3>2 DEF SaveCallback
  <2>2. CASE HUDFade(n)
    <3>1. PICK in \in BOOLEAN :
            saves' = [saves EXCEPT ![n].hud = AnimationFinished(saves[n].hud, in)]
      BY <2>2 DEF HUDFade
    <3>2. PICK s : s = [saves[n] EXCEPT !.hud = AnimationFinished(saves[n].hud, in)]
      OBVIOUS
    <3>3. /\ saves' = [saves EXCEPT ![n] = s]
          /\ s.stage = saves[n].stage /\ s.doc = saves[n].doc
      BY <1>1, <3>1, <3>2 DEF SaveState
    <3> QED BY <3>3
  <2> QED BY <2>1, <2>2
<1>3. /\ Len(saves') = Len(saves)
      /\ \A i \in 1..Len(saves) : saves'[i] = IF i = n THEN s ELSE saves[i]
  BY <1>1, <1>2
<1>4. UNCHANGED <<profile, cached, lastSave, load, answer, user, expected>>
  BY DEF SaveCallback, HUDFade, device, cells
<1>5. LastSaved' /\ QueuedLast'
  BY <1>1, <1>2, <1>3, <1>4, LastSavedKept DEF LoadInv
<1> QED BY <1>4, <1>5 DEF LoadInv, Expects

LEMMA LoadStepHolds == SettingsInv /\ LoadInv /\ [Next]_vars => LoadInv'
<1> SUFFICES ASSUME SettingsInv, LoadInv, [Next]_vars PROVE LoadInv'
  OBVIOUS
<1>1. CASE UNCHANGED vars
  BY <1>1 DEF vars, device, cells, LoadInv, LastSaved, QueuedLast, Expects
<1>2. CASE User
  BY <1>2, LoadOfScreen, LoadOfEdits, LoadOfSave DEF User, EditAge
<1>3. CASE Fetch
  BY <1>3, LoadOfScreen, LoadAnswered DEF Fetch
<1>4. ASSUME NEW i \in DOMAIN saves,
             \/ SaveUnacknowledged(i) \/ SaveAcknowledged(i) \/ SaveRejected(i)
             \/ SaveCallback(i) \/ HUDFade(i)
      PROVE  LoadInv'
  BY <1>4, LoadOfAnswers, LoadOfHUD
<1>5. ASSUME NEW f, NEW v, ChangedElsewhere(f, v)
      PROVE  LoadInv'
  BY <1>5 DEF ChangedElsewhere, LoadInv, LastSaved, QueuedLast, Expects
<1> QED BY <1>1, <1>2, <1>3, <1>4, <1>5 DEF Next

(* What the completion block of getDocument takes for the user is what      *)
(* saveHandle last wrote, however many saves were on their way.             *)
THEOREM SettingsLoadsLastSave == Spec => []LoadsLastSave
<1>1. LoadInv => LoadsLastSave
  BY DEF LoadInv, Expects, LoadsLastSave
<1>2. Init => SettingsInv /\ LoadInv
  BY InitHolds, LoadInitHolds
<1>3. SettingsInv /\ LoadInv /\ [Next]_vars => (SettingsInv /\ LoadInv)'
  BY StepHolds, LoadStepHolds
<1> QED BY <1>1, <1>2, <1>3, PTL DEF Spec
=============================================================================
