# UIAdvanced: models, checks and proofs

UIAdvanced is an iOS app (UIKit, Firebase) in the manner of Tinder: people
register with a picture, edit their profile, and swipe through cards made of
other people's profiles. The repository holds about 1900 lines of Swift under
`src/UIAdvanced/UIAdvanced` and the sources of its pods. This directory
specifies in TLA+ the parts of it that have state worth speaking of: the app's
screens, the progress HUD they share, and, of Firestore's client, which decides
what the screens may rely on, the write path, the one-shot gets and the watched
targets. The models are checked with TLC and the main results proved with TLAPS.

Paths below are relative to `src/UIAdvanced/UIAdvanced` unless they begin with
`Pods/`, which is `src/UIAdvanced/Pods`, or with `firestore/`, which is
`Pods/FirebaseFirestore/Firestore/core/src/firebase/firestore`.

## 1. The system

All of the app's code runs on the main thread, so every handler and every
completion block is one atomic step. What is hard is the order in which those
blocks come: a network answer, the end of an animation and the user's next tap
are never ordered by the code, and several operations can be under way on the
same objects. Firestore's client runs its own operations one at a time on a
worker queue and posts what it has to say to the main queue; there, too, each
operation is a step, and the order is what is hard.

| Part | State it keeps | Operations | Talks to |
|---|---|---|---|
| Home screen (`Controllers/HomeViewController.swift`) | `cards`, `lastFetchedUser`, the deck's subviews | `fetchUsers` at load and on reload, its completion block, open the settings | Firestore query, one HUD per fetch, the deck |
| Card deck (`Views/CardView.swift`) | each card's transform and animation, the order of the cards | pan began / changed / ended / cancelled, completion of the animation | UIKit's gestures and animations |
| Settings (`Controllers/SettingsViewController.swift`, `Models/User.swift`) | `user`, the table's cells | fetch, edit, scroll, save, cancel | Firestore document, one HUD per save |
| Registration (`Controllers/RegistrationViewController.swift`, `ViewModels/RegisterViewModel.swift`, `Controllers/Bindable.swift`) | the form, three bindings, one HUD | edit, pick a picture, register; callbacks of createUser, upload, URL, document | Auth, Storage, Firestore |
| Progress HUD (`Pods/JGProgressHUD`) | six flags, fades and timers in flight | show, dismiss, delayed dismiss, end of a fade | the three screens |
| Firestore: write path (`firestore/core/sync_engine.cc`, `local/local_store.cc`, `local/leveldb_mutation_queue.cc`, `remote/remote_store.cc`, `remote/write_stream.cc`, `remote/stream.cc`) | each user's mutation queue and the cached versions on disk; handlers, pipeline, stream in memory | write, fill the pipeline, handshake, result, error, back off, idle, change of user, relaunch | registration and settings (`setData`), the server |
| Firestore: gets and online state (`firestore/core/event_manager.cc`, `core/query_listener.cc`, `core/event_listener.h`, `remote/online_state_tracker.cc`, `remote/remote_store.cc`) | listeners, listened targets, watch stream, online state, failure count, timer | get, event on the main queue, removal of the listener, timeout, stream opens, fails, idles | home and settings (`getDocuments`, `getDocument`), the server |
| Firestore: watched targets (`firestore/remote/remote_event.cc`, `remote/remote_store.cc`, `local/local_store.cc`, `core/view.cc`) | resume tokens in two layers and on disk, pending changes, the view's documents | listen, stop, responses, snapshots, resets, existence filters, re-listening | gets, the server |
| Auth and Storage clients | current user, uploads | as registration sees them | |
| Card contents, app life cycle, layout helpers, unused code | next to nothing | | |

The screens share no objects in memory. They meet in three places: the
collection `users` (registration and settings write it, home and settings read
it), `Auth.auth().currentUser` (registration sets it, settings reads it) and the
code of `JGProgressHUD`, of which every screen makes its own instances.

What is hard, and what makes each part right:

* *Home.* The reload button is under the HUD only while the HUD is at rest: a
  view that UIKit animates takes no touches, so a tap during the fade in starts
  a second fetch from the same cursor. Answers come in any order, from the
  server, from the cache or as errors. Right means: nobody who was there is
  passed over, nobody comes twice unless fetches overlap, overlap needs a tap
  in that window, the deck keeps the order of the cards, and each HUD leaves.
* *Deck.* `panHandle` removes the animations of *every* card when a drag
  begins, while the cards that fly off wait for their completion block to be
  removed. Right means: no card is left in the deck off the screen, none is
  torn from under a finger, and cards join at the back and leave only when
  swiped.
* *Settings.* Save overwrites the whole document with optionals filled in by
  `""` and `-1`, the user and the table are updated in two different blocks,
  and `setData` does not call back while offline. Right means: the cells show
  what a save would write, a save does not change what was not edited, a
  reopened screen loads what was last saved, the HUDs leave.
* *Registration.* Four calls chained by callbacks read the form and the current
  user late, and share one HUD and one Boolean. Right means: an enabled button
  agrees with the second check behind it, a profile never names a picture that
  is not stored nor belongs to an earlier account, the Boolean and the HUD are
  reset on every path.
* *HUD.* Show and dismiss may be called at any time, also during a fade; one
  animation object remembers the direction of the last fade only. Right means:
  fades never overlap, a dismissal is never lost and never outlives its
  presentation.
* *Writes.* Responses of the write stream carry no batch id: each is taken for
  the first batch of the pipeline. The stream breaks after the server has
  committed and before its answer is read; a refused batch closes the stream
  with later ones on it; the user changes, or the app is killed, with batches
  under way, and batch ids start again. Right means: no write is lost or
  overtaken, a handler that hears "ok" has its write committed, a queued write
  goes out of sight only for something as new or by a refusal, and the queue is
  emptied when the network holds.
* *Gets.* A call waits for the server as long as the client may be online, and
  what is online is decided by a timer, a failure count and the messages of one
  stream that all calls share; the listener is removed by an operation put on
  the other queue. Right means: every call is answered, once; the layers agree
  on what is listened to; the stream is there while it is needed.
* *Targets.* Responses name the target and not the request, so the late ones
  of an earlier listen arrive under the same name, a refusal of the target among
  them; the resume token is kept in three places and written to disk only now and then. Right means: a view that
  says it is synced has what the server has, and the disk has what the view has.

## 2. Modules

    JGProgressHUD ......... operators: a HUD's state before and after each call
     |-- ProgressHUD ...... a HUD alone with an arbitrary client
     |-- HomeFeed ......... the home screen, one HUD per fetch
     |-- Registration ..... the registration screen, one HUD
     `-- Settings ......... the settings screen, one HUD per save
    Deck .................. what a deck of cards promises (abstract)
    CardDeck .............. the gestures and animations; implements Deck
    Stream ................ operators: the states of Firestore's two streams
     |-- WritePipeline .... the write path; implements WriteQueue
     `-- GetDocuments ..... gets, listeners, the watch stream, the online state
    WriteQueue ............ what Firestore promises about writes (abstract)
    WatchTarget ........... one query's target, from the request to the view
     `-- MCWatchTarget .... its symmetry
    Lemmas ............................................ the HUD's calls and theorems,
                                                        sequences
    HomeFeedProofs, CardDeckProofs, SettingsProofs,
    RegistrationProofs, GetDocumentsProofs,
    WritePipelineProofs, WatchTargetProofs ............ theorems

**JGProgressHUD** (`Pods/JGProgressHUD/.../JGProgressHUD.m`,
`JGProgressHUDFadeAnimation.m`). `HUDState` has the instance variables that
decide what a call does, plus the completion blocks and `dispatch_after` blocks
that are owed. Every Objective-C method is an operator from state to state
(`ShowInView`, `DismissAnimated`, `DismissAfterDelay`, `TimerFires`,
`AnimationFinished`, ...). Two things the app does not use are left out:
`minimumDisplayTime` (0) and the zoom animation. `BlocksTouches` is the reason
why the screens' buttons can or cannot be tapped.

**HomeFeed**. A fetch is a record: the cursor it was started with, its stage,
its page, its HUD. `Refresh` is `refreshHandle` with `fetchUsers` up to
`getDocuments`; `Callback` is the completion block; `ServerAnswers`,
`CacheAnswers` and `QueryFails` are the three ways Firestore ends a get;
`HUDDelay` and `HUDFade` move the fetch's HUD; `SwipedAway` is the deck's
removal of a card; `UserRegisters` is another device. Uids are numbers in the
order of the query, and `IsPage` states what `order(by:)`, `start(after:)` and
`limit(to:)` return.

**Deck** and **CardDeck**. In `CardDeck` a card has a transform (`home`,
`moved`, `away`), an animation whose completion block is owed (`spring`),
whether that animation has been removed (`cut`), and may be under a finger.
`Began`, `Changed`, `Ended`, `Cancelled` are the states of the recognizer,
`Completion` the block of `UIView.animate`, `Deal` what a page of the feed does
to the deck. `Deck` knows cards, the order they lie in and the ones swiped;
`CardDeck` maps its `leaving` to the cards whose animation takes them away.

**Settings**. The document on the server, the client's cache, a queue of saves
(each with its document while unacknowledged, and its HUD), the screen's fetch,
`user`, and what the cells show. `View` is the document as the Firestore client
presents it, unacknowledged writes on top. The screen can be cancelled and
opened again while saves of an earlier visit are on their way. Values are
abstracted to what is entered, blank, and missing.

**Registration**. The form, the HUD, and each attempt's stage through the chain
`createUser`, `putData`, `downloadURL`, `setData`. `AccountCreated` is separate
from `CreateUserCallback`, because FirebaseAuth sets the current user on its own
queue first. `writes` are Firestore's queues, one per user, of which only the
present user's is sent.

**Stream** has the states of class `Stream` (`firestore/remote/stream.cc`) that
the watch and the write stream share, with what `Start` and `Stop` make of them
and the idle timer.

**WritePipeline**. The variables are grouped by where the code keeps them:
LevelDB (`queue`, `cache`), `LocalStore`, `SyncEngine` and `RemoteStore`
(`user`, `nextBatchId`, `callbacks`, `pipeline`), `WriteStream` (`state`,
`handshake`, `idle`), the gRPC call (`hello`, `requests`, `responses`,
`refusal`), the server's `log`, and the history that the properties speak of.
Each client action is one operation of the worker queue:
`WriteMutations`, `OnWriteStreamMutationResult`, `HandleWriteError`,
`OnWriteStreamError`, `HandleCredentialChange`, `Relaunch` (the process is
killed; what is not on disk is gone), `BackoffElapses`, `IdleElapses`,
`ApplyRemoteEvent` (the watch stream brings the document; without a version, for
a document it only knows not to be there, it is removed from the cache, as after
an existence filter of 0 on a document query or a rejected limbo resolution).
`HandleWriteError` may come before the answers under way are read: a call ends as
soon as one operation on it fails, and what was not yet read is lost
(`remote/grpc_stream.cc:217` and 307). It charges the first batch of the pipeline,
whichever was refused (`remote_store.cc:484`). `FillWritePipeline`
is an operator each of them uses as the code calls it. A write is a number, in
the order the app makes them; a version is a position in `log`.

**WriteQueue** is what the writes of a device are owed: a queue per user,
committed in order and at least once, settled from the front, each handler
called at most once, with "ok" only for a write the server has. Of an error it
asks nothing: which writes may hear one is `ToldTheTruth`. `WritePipeline` maps to it
by forgetting ids, pipeline, stream and handlers.

**GetDocuments**. The calls, with the events posted to the main queue and the
removal put back on the worker queue; `listeners`, `raised`, `current` for
`EventManager` and the views; `targets`, `state`, `idle` for `RemoteStore`;
`online`, `failures`, `timer` for `OnlineStateTracker`. `Get` is the call down
to the request on the stream, `OnEvent` the listener on the main queue,
`RemoveQueryListener` what it puts back; `WatchMessage`, `WatchCurrent`,
`WatchNotCurrent`, `ProcessTargetError`, `OnWatchStreamClose` the network's
part; `OnlineStateTimeout`, `BackoffElapses`, `IdleElapses` the timers.

**WatchTarget**. One target with its documents and token on disk, the two
tokens in memory (`heldToken` in `LocalStore`, `sentToken` in `listen_targets_`),
the view, the aggregator's `TargetState` (`agg`), and the two directions of the
stream. The server knows for each request what it has sent; it may lose track
of which documents have ceased to match and send an existence filter (`Forget`,
`SendFilter`), or a reset, and it may refuse the target, before or after adding it
(`Refuse`). `ProcessTargetError` is the client's side of that: it erases the listen
target and the `TargetState` with its count of awaited answers, or ignores the
refusal of a target left already. `miscounted` marks a stream on which that has
upset the count: answers were still to come, or an ignored refusal was itself the
answer that was counted on. Every response carries the number of the request it
answers, which no action of the client reads: the properties do.

How the parts meet: what `HomeFeed` and `Settings` take for granted of a get
(it ends, once, with the server's documents, the cache's or an error) is what
`GetAnswered` and `AnsweredOnce` say of `GetDocuments`. That every get ends needs a
network that does not hang: on one that does, `gets_hang` shows a get that waits
for ever, and then `HUDLeaves` of the home screen fails with it: the HUD stays, and
the screen under it takes no touches; what `Settings` and
`Registration` take for granted of `setData` (per user, in order, pending while
offline and across launches, newest on top) is what `Delivers` and
`ViewHandedOver` say of `WritePipeline`.

Definitions with names such as `BeganDropping` or `IsPageInclusive` are
deliberately wrong variants of the definition that follows them. No
specification uses them: they document which bug each property would catch.
`PROJECT.json` pairs them with the properties and gives the lines of the source
each definition translates.

## 3. Runs

Every run is `tlc -config X.cfg M`; the four marked "violation" are the
disagreements of section 6, the others pass.

| Run | Module, config | Question | States |
|---|---|---|---|
| `hud` | ProgressHUD, MCProgressHUD | Are fades exclusive and dismissals carried out, whatever the client does? | 162 |
| `hud_show` | ProgressHUD, MCProgressHUDShow | Does "Shows the HUD." hold? | violation |
| `feed` | HomeFeed, MCHomeFeed | What do the cursor and the deck guarantee with two overlapping fetches of two documents among three users, while cards leave? | 149 k |
| `card_deck` | CardDeck, MCCardDeck | Do four cards under several fingers keep the promise of `Deck`? | 23 k |
| `settings` | Settings, MCSettings | After two saves over any number of visits, do cells, user and document agree, does the screen load what was saved last, and do the HUDs leave? | 3.3 M |
| `register` | Registration, MCRegistration | Who owns what after two attempts that may overlap and fail anywhere, and what does the HUD say meanwhile? | 2.6 M |
| `writes` | WritePipeline, MCWritePipeline | Do three writes of two users survive two faults in order, and is `WriteQueue` implemented? | 873 k |
| `gets` | GetDocuments, MCGetDocuments | Do two gets, made again and again over one stream, agree with the layers below and get answered, once? | 241 k |
| `gets_hang` | GetDocuments, MCGetDocumentsHang | Does the timer end every wait on a network that hangs? | violation |
| `target` | MCWatchTarget, MCWatchTarget | Do the server's, the view's and the stored results of a query agree? | 7.1 M |
| `target_mismatch` | WatchTarget, MCWatchTargetMismatch | Is a target found inconsistent requested without its token? | violation |
| `target_current` | WatchTarget, MCWatchTargetCurrent | Is a target that is listened to again reset? | violation |

*Bounds and why they are enough.*

* `hud`: two delayed dismissals pending per kind; a third finds the same flags.
* `feed`: two fetches are the first number at which an answer comes late; three
  users and pages of two give full, short and empty pages; two swipes empty a
  page. All of its safety is also proved, without these bounds.
* `card_deck`: four cards dealt in pages of up to two give a held card, one
  flying off, one springing back and one beneath. Its safety is proved for any
  number.
* `settings`: two saves can overlap, be answered in both ways, and lie between
  two visits. One value per field, with blank and missing, is enough to tell
  kept, edited, blanked and missing apart; the age and a slider are the two
  kinds of cell that differ in what they show for a missing value. One change
  from another device. All of its properties are also proved, for any fields and
  any number of saves.
* `register`: two attempts, two accounts. A third attempt could only repeat
  the overlap of two, since the current user, the form and the HUD are each
  overwritten by the later of two. All of its properties are also proved, for any
  number of attempts.
* `writes`: a pipeline of two places and three writes is the least at which a
  write waits for a place; two users, one of them signed out; two faults, so
  that what one leaves behind is met by another. Every safety property and the
  refinement are proved for any number of all of these.
* `gets`: two calls can share a query or not; `kMaxWatchStreamFailures` is 2, so that a
  failure after which the client is not yet offline occurs too. The code has 1
  (`online_state_tracker.cc:42`), with which that branch of `OnWatchStreamClose` is
  dead; the same configuration with 1 passes as well (163 k states), liveness
  included, and `gets_hang` has 1. One change of user. Two events may
  wait on the main queue for one call. Safety is proved for any number. Calls
  are made again without bound.
* `target`: two listens are the least with late responses of an earlier one;
  two versions and two documents, to add, modify and remove; one fault per
  behaviour. The two documents are symmetric (`MCWatchTarget!Symmetry`): this
  run checks no liveness. All of its properties are also proved, without these
  bounds. The two runs that find violations need one document.

`MCHomeFeed`, `MCCardDeck`, `MCWritePipeline` and the three configurations of
`WatchTarget` set `CHECK_DEADLOCK FALSE`: with their bounds exhausted, everything
answered and everything delivered or swiped, nothing remains to be done. The
others can always act (the user can always type, the client call again).

## 4. Properties

Every module has one `TypeOK` (`ProgressHUD`'s is `LoneTypeOK`). The others, with the parts that are conjunctions
under one name:

* `ProgressHUD`: `FadesCoherent` is `OneFadeInFlight` (the completion block reads
  `_presenting`, so only one fade may be in flight and the flag must be its
  direction) and `NoStaleDismissal`; `DismissHonoured`; `DismissedEventually`.
* `HomeFeed`: `NoSkippedUser`, whoever was registered when the screen was loaded
  and sorts up to the cursor has a card, unless a page came from the cache;
  `NoDuplicate`, strictly increasing cards unless fetches overlapped;
  `DeckInOrder`; `HUDLeaves`. `OverlapOnlyDuringFadeIn`, an action property that
  ties the overlap to the HUD's state, is a theorem.
* `CardDeck`: `CardsSettled` (no card off the screen stays in the deck, and only
  a cancelled gesture leaves one askew), `HeldUndisturbed`, and `DeckKept`, the
  abstract specification with its fairness.
* `Settings`: `ScreenTruth`, `SaveKeepsTheRest` (action property),
  `LoadsLastSave`, `AnsweredSaveLeaves`.
* `Registration`: `FormGate`, `PictureOfProfileStored`, `ProfileOwner`, and
  `HUDFollowsAttempts`: `RegisteringPending` (the Boolean is set only while an
  attempt is to reset it), `HUDWhileRegistering` and `ErrorShownAfterAccount`.
* `WritePipeline`: `PipelineConsistent` is `PipelineIsOldest`,
  `AnswersMatchPipeline`, `StreamWhenNeeded` and `HandlersHaveBatches`: the four
  places a write is kept in agree. `KeptInOrder` is `NoWriteLost` and
  `CommittedInOrder`. `ToldTheTruth`: "ok" means committed, and an error
  means that the write was refused, or was committed and is charged with the refusal
  of a later one (`ChargedForLater`). `ViewHandedOver` (action property);
  `Delivers`, the abstract specification; `QueueDrains`.
* `GetDocuments`: `TrackerAssertions`, the assertions of
  `online_state_tracker.cc`; `LayersAgree`; `WaitingJustified`; `AnsweredOnce`;
  `GetAnswered`.
* `WatchTarget`: `CopiesAgree` is `SyncedIsServer` and `KeysOfView`;
  `ChangesFitView`, the assertions of the view and the aggregator;
  `OwnResponsesOnly`, an action property over the request numbers the client
  cannot see, on streams whose count no refusal has upset.

*Fairness.* Weak fairness, on what the platform promises: UIKit calls the
completion block of every animation, the main queue and the worker queue run
every block they were given, timers that are scheduled go off. In the app's
modules a Firestore *get* ends (server, cache or error), which Firestore keeps
only on a network that does not hang (`gets_hang` is the exception, section 6); a Firestore *write*
has no such promise, because the client waits for the network for as long as it
takes, so no property of the screens expects one to be acknowledged:
`AnsweredSaveLeaves` and `HUDFollowsAttempts` say that the HUD of an answered
call is leaving or gone, in every state, and that a HUD that is leaving leaves
is `DismissedEventually` of `ProgressHUD`.

`WritePipeline` asks that the client runs its operations and that the server
handles what it has been sent (`WF` of `Client` and of `Server`); the bound on
faults makes the network hold in the end, and `QueueDrains` speaks only of a
user who stays. `GetDocuments` has two specifications. `HangingSpec` asks only
the client to run its queues and timers. `FairSpec` adds a network that does not
hang: an open stream hears from the server or fails, and, by strong fairness, a
server that is reached again and again gets round to each target. Strong
fairness is needed because the stream may break each time before it does.
Nothing makes the user, the app or another device act, anywhere.

## 5. Proofs

Assumptions are only those on constants, stated by name in each module
(`FeedAssumption`, `CardDeckAssumption`, `MaxTimersAssumption`,
`SettingsAssumption`, `RegistrationAssumption`, `GetsAssumption`,
`PipelineAssumption`, `TargetAssumption`): bounds and sizes are natural numbers,
the documents of a query are finitely many, uids are positive, the stand-ins for
blank and missing values differ from each other and from what a user enters.
Everything else is for any value of the constants.

* **HUDTypeOK**, **HUDFadesCoherent**, **HUDDismissHonoured**
  (`Lemmas`). The invariant is `Coherent(lone)` with `DismissHonoured`: the flags
  alone are not inductive, since the end of a fade in with a remembered
  dismissal calls `dismissAnimated:` before clearing the memory. There is one
  lemma per call (what it preserves of `Coherent` and of `Leaving`), and the
  screens' proofs cite the same lemmas for their own HUDs: they extend `Lemmas`,
  which extends `ProgressHUD`, whose names (`lone`, `LoneSpec`) are its own for
  that reason.
* **FeedSkipsNobody** (`HomeFeedProofs`): `NoSkippedUser` is not inductive,
  because a page in flight becomes the cursor whenever its callback runs,
  however old it is. `Covered` adds, for every fetch, that whoever sorts up to
  its cursor or up to a document of its page has a card or is in that page. The
  server step uses `PageCovers` (a page leaves no gap), the callback turns the
  page's claim into the cursor's.
* **FeedDealsNobodyTwice**: with no overlap there is one pending fetch, its
  cursor is the present one, and its page lies beyond every card (`Sequential`).
* **FeedDeckInOrder**: the deck's indices are below the number of cards, and a
  page takes the next ones; `Lemmas!TakenOut` says what a swipe leaves.
* **FeedOverlap**: `Shielded`, a pending fetch's HUD is shown, owes no timer and
  remembers no dismissal (`StaysShown`, in `Lemmas`); so when a tap gets through
  it can only be fading in.
* **FeedTypeOK**: with the deck's indices (`DeckTyped`).
* **DeckTypeOK**, **DeckCardsSettled**, **DeckHeldUndisturbed** and
  **DeckImplements** (`CardDeckProofs`): `Settled` says of every card, dealt,
  undealt or gone, what `CardsSettled` says of the deck's; with it the
  invariants are inductive, and each step maps to `Deal`, `Swipe`, `Leave` or a
  stutter of `Deck`.
* **SettingsTypeOK**, **SettingsScreenTruth**, **SettingsAnsweredSaveLeaves**,
  **SettingsSaveKeepsTheRest** (`SettingsProofs`): `Loaded` (what is not edited
  is what was fetched, up to blanks), `Shows` (the cells), and that a closed
  screen fetches nothing, so that a screen always opens without a user. The HUD
  of a save leaves by the lemmas on `DismissAnimated` in every fade.
* **SettingsLoadsLastSave**: `LoadsLastSave` speaks of what is loaded long after
  the save, so the invariant says where the last save is meanwhile. Saves are
  answered in order (`QueuedLast`: the queued ones come last), so the newest is
  either queued, and then the client's view is its document, or it is the last
  one answered, and then server and cache both have it (`LastSaved`). A fetch
  under way has that document in hand once answered (`Expects`), and decoding
  changes no document that a save has written (lemma `SavedDecoded`).
* **RegistrationTypeOK**, **RegistrationFormGate**, **RegistrationPicture**,
  **RegistrationOwner** and **RegistrationHUD** (`RegistrationProofs`). The two
  about profiles are not inductive, because a profile is queued long before the
  server has it, under a user read later than the attempt began. The invariant
  follows it backwards: an attempt past `createUser` is among the sign-ins and
  the current user is the last of those, so who writes next is no earlier
  account; an attempt that asks for the picture's URL has stored it; a queued
  profile names a stored picture of an attempt that only waits for its answer
  (`WriteSound`). Each step is shown to take none of that back (`Kept`: attempts
  keep their emails, sign-ins, accounts and pictures only grow), so what is said
  of one attempt or queue survives steps of the others. The HUD is held by
  `StaysShown`, the lemma `FeedOverlap` uses.
* **GetsTypeOK**, **GetsTrackerAssertions**, **GetsLayersAgree**,
  **GetsWaitingJustified**, **GetsAnsweredOnce** (`GetDocumentsProofs`). What
  makes them inductive: an error is the last event of a listener, which has left
  `listeners` by then; a call that is not muted has no answer or only that
  error; and the tracker's variables are tied to the stream's state, so that
  each start finds the timer off.
* **WritesTypeOK**, **WritesPipelineConsistent**, **WritesKeptInOrder**,
  **WritesToldTheTruth**, **WritesViewHandedOver** and **WritesDeliver**
  (`WritePipelineProofs`). The four invariants are inductive together with three
  more: `QueueSound` (ids increase along each queue and are below `nextBatchId`;
  a write is in one place of one queue, its own user's, in the order made),
  `StreamSound` (what may be on the call in each state of the stream and the
  handshake) and `ServerSound` (what the log and the refusals may name). The
  proof is split into what a step does to the stream (`StreamInv`), to the disk
  (`DiskInv`) and to the history (`HistoryInv`). Three facts carry it. The
  server reads the batch after those it has answered (lemma `Read`), so it
  commits in queue order although a new stream sends again what an old one had
  committed. A result is read for the first batch of the pipeline, which is the
  oldest of the queue (`ResultReached`, `RefusedOldest`), so the handler of that
  id is that write's, and "ok" is true, even though ids are given out again after a relaunch or a
  change of user: a relaunch forgets the handlers, and the handlers another user
  left still have their batches, whose ids are taken (`HandlersHaveBatches`). And the pipeline is the prefix of the queue
  after every step that takes a batch from either, because each of those calls
  `FillWritePipeline` (`Filled`). With the invariant each step maps to `Write`,
  `Deliver`, `Settle`, `ChangeUser`, `ForeignWrite` or a stutter of `WriteQueue`;
  `Deliver`'s guard, that all before it are delivered, needs `KeptInOrder` and
  that a write refused or settled is no longer queued.

* **TargetTypeOK**, **TargetCopiesAgree**, **TargetChangesFitView** and
  **TargetOwnResponsesOnly** (`WatchTargetProofs`). That a view marked synced has
  the server's documents is decided long before the mark arrives, so the
  invariant `Whole` follows the messages on their way, one by one, with three
  functions of their positions. `g[i]` is the number of answers still awaited
  once `i` messages have been taken (`Counts`): every request not yet received
  and every answer on its way is one of them, so that what is taken when none is
  awaited is of the request being served, which is `OwnResponsesOnly`. A count goes
  down only by an answer to come (`FirstCount`), so it stays a natural number. All of
  this holds while the stream is not `miscounted`; after that only what does not
  rest on counting is kept: that view and LevelDB agree and that the accumulated
  changes fit them. `f[i]` is
  what the view would have by then, and `e[i]` how it stands to the server
  (`Path`): `good`, until an existence filter that does not match makes it
  `lost`, and the snapshot that follows makes it `over`. At the front `f` is the
  view with its accumulated changes (`Starts`); each message changes it as the
  aggregator will (`Follows`); at the back it is what the server believes the
  client to have (`Ends`). A snapshot with a token says what the server has at its
  version; one without comes only while nothing is accumulated (`Honest`), which
  is why raising it never marks a view that is not whole. The rest of `Whole` ties
  each token kept, in memory, in `RemoteStore` or on disk, to the documents kept
  with it (`Stored`), and the last request to the view (`LastRequest`,
  again while the stream is not `miscounted`). There is
  one lemma per action, and the server's share one (`Sent`): a message may be
  sent when it is sound for whatever the client will have. That the client finds
  the mismatch the server counted needs that its set of documents is the one the
  path says, and finite (`DiffersExactly`).

Only model-checked: every liveness property (`DismissedEventually`, `HUDLeaves`,
`QueueDrains`, `GetAnswered`) and the fairness part of `DeckKept`, because the
prover cannot reason about fairness or ENABLED. Every other property of a passing
run is a theorem.

## 6. What the models show

*Disagreements with the code's own documentation.*

* `JGProgressHUD.h` documents `showInView:` as "Shows the HUD.". `hud_show` finds
  the call that shows nothing: made while the HUD fades out, it returns at the
  test of `_transitioning` (`JGProgressHUD.m:452`), and the HUD is off the screen
  when the fade ends.
* "If the timeout is reached, we transition to Offline rather than waiting
  indefinitely" (`firestore/remote/online_state_tracker.cc:45`). `gets_hang`: a
  get that the timer answered from the cache is removed while the stream is
  still coming up. `StopListening` sets the state to unknown and clears the timer
  (`remote_store.cc:165`), and the next get finds the stream started: nothing
  runs the timer for it, and on a network that hangs it waits for ever.
* "Listens for these targets should be re-established without resume tokens"
  (`firestore/remote/remote_event.h:259`). `target_mismatch`: after an existence
  filter mismatch only `listen_targets_` loses its token (`remote_store.cc:311`);
  `LocalStore` keeps the one it holds, and a query left and listened to again
  before the target has caught up is requested with it.
* "We have a freshly added target, so we need to reset any state that we had
  previously" (`firestore/remote/remote_event.cc:158`). `target_current`: the
  code below that comment resets the pending changes and not `current_`, so a
  target whose first listen was added and marked current, and which is left and
  listened to again before the answer to the leave (REMOVED) has come, is current
  from the first time.

`CopiesAgree` holds but in three cases. Two come after a mismatch. One is the third
disagreement: a request with a token from before it. The other is a request
without a token while the view keeps documents: the view is emptied when the
filter is handled, but the changes that come between the filter and its snapshot
are applied to it before the target is requested from nothing
(`remote_store.cc:316`), and a mismatch of an earlier listen, found late, empties
nothing. The third is a request sent on a stream on which a refusal has upset the
count of awaited answers. A refusal of an earlier listen, read after the query is
listened to again, erases the later one with its count (`remote_store.cc:331`), and
the answers still to come then count for whatever is listened to next: the query
may wait for answers that have come, or take those of an earlier request for its
own, until the stream breaks. `misled` marks these behaviours, and `SyncedIsServer`
excepts them and nothing else. The fourth
disagreement is none of them: a target is raised with a mark left over only by a
snapshot that has a token for it, and with that its documents have come.

*Not promised by the code.* The properties stop where the code does:

* Reload tapped during the fade in deals the same page twice, and a late answer
  can move `lastFetchedUser` backwards (`HomeViewController.swift:54-65`).
* A page from an incomplete cache moves the cursor past users never fetched;
  someone whose uid sorts before the cursor and registers later has no card
  until the next launch; `cards` only grows.
* Save before the profile has come in, or after its fetch failed, writes a blank
  profile (`SettingsViewController.swift:186`): the one hazard of the list that
  no property covers, since the code does it. Two devices overwrite each
  other. A missing age shows as 0 and is saved as -1; the two sliders do not
  limit each other; a picture picked in the settings is never saved.
* The profile is written for whoever is signed in when the picture's URL
  arrives, with the name the form then has (`RegisterViewModel.swift:44-56`). If
  a later attempt signs in before Firestore has sent an earlier one's profile,
  that profile waits in the earlier user's queue.
* The error of `createUser` is put on the HUD and wiped by the next statement
  (`RegisterViewModel.swift:91-99`). An attempt started while an earlier one's
  HUD is leaving runs without its HUD. A failed upload leaves an account
  without a profile.
* A pan the system cancels leaves its card where it was (`CardView.swift:135`).
* `accountHandle` returns before it would present the registration screen
  (`HomeViewController.swift:95`): as committed, that screen cannot be reached.
* A write is committed twice when its answer is lost, so another device's write
  in between is overwritten by the second commit (`Deliver` in `WriteQueue` says
  "perhaps again"). A completion handler is not called after a relaunch. When a
  refusal ends the call with the answer to an earlier write unread, the handler of
  that write, which the server has, is called with the error
  (`remote_store.cc:484-492`), and what it wrote goes out of sight until the watch
  stream brings it; the refused write is sent again.
* A document that Watch only knows not to be there comes without a version and is
  removed from the cache whatever its version (`local_store.cc:307-312`), so what is
  cached may go back, to nothing.

## 7. Not modelled, and why

*The share of the repository.* Nearly all of the repository's 4389 files are
vendored libraries: about 550 000 lines of C and C++ (BoringSSL, gRPC, abseil,
leveldb, nanopb, Firestore's core), which the app's few lines of Swift link
against. Most of that is cryptographic arithmetic, generated tables, protocol
parsers and portability layers, whose state no property of this app depends on.
Modelled are the app's own sources and, of the vendored ones, the three
mechanisms of Firestore's client and the HUD the app's behaviour rests on. That
is a small share of the lines and nearly all of the program's own control.

*Of the app.* Layout, colours, keyboard avoidance and VoiceOver; what a card
displays (its photo index ranges over an array of one); the pictures on the
settings' buttons, which nothing reads; app and scene life cycle (a launch
matters through what it finds in the cache and in Auth, and the initial states
have all of that); unused code.

*Of Firestore's client.* Stream tokens (sent and stored, read by nothing);
batches of several mutations, patches and transforms, `waitForPendingWrites`,
disabling the network and transactions, none of which the app uses; garbage
collection of the cache, which the app's data never reaches; standing listeners;
several targets at once, limbo documents, existence filters of queries for one
document (but what they do to the cache is in `WritePipeline`), and the order and
limit of a view's documents: `GetDocuments` takes the point at which a target becomes current as
the server's choice, `WatchTarget` has one target and no limit. The server of
`WritePipeline` does not go on with a call once the client has closed it: a
commit after that would be one more commit of a batch that is sent again.
`HomeFeed` reads the server's or the cache's documents without the client's own
unacknowledged writes on top.

*Of the other libraries.* Auth and Storage are in `Registration` as it sees
them. SDWebImage fills views that nothing reads. gRPC is the two directions of a
stream that delivers in order or breaks; leveldb is a store whose transactions
are atomic.

*What could follow.* The composition of `HomeFeed` and `CardDeck` with one
deck, so that `SwipedAway` is decided by the gestures, and of two targets on one
watch stream, which limbo documents need.
