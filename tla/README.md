# CaronaSocial: specifications, model checking and proofs

CaronaSocial is an iOS app (Swift, UIKit, Firebase) through which families of a
school share rides. This directory holds TLA+ models of the parts of the app in
which things happen out of order, TLC configurations that check them on small
instances, and TLAPS proofs that carry the main results to any size.

Paths below are relative to `src/CaronaSocial/CaronaSocial/`; `firestore/` stands for
`src/CaronaSocial/Pods/FirebaseFirestore/Firestore/core/src/firebase/firestore/`,
the C++ client the app is built with.

## 1. The system

Every user has one phone with the app; the phones share nothing but Firestore
and the Storage of Firebase. There is no server code. Inside an app everything
runs on the main queue: handlers of UIKit, blocks deferred with
`dispatchQueue.async { OperationQueue.main.addOperation { ... } }`, and the
completions of Firestore. So a handler, a block or a completion is atomic, and
all that interleaves is their order, on one phone and between phones.

Below the app is the Firestore client. It has one queue of its own, the worker
queue, on which all of its handlers run one at a time, and a thread that polls
gRPC and puts what comes back on that queue. What the app relies on, above all that a
write it has made survives the app and reaches the server in order, is done
there, so that client is modelled too as far as writes go.

| Component | Source | State | Operations |
|---|---|---|---|
| Ride requests | `Database/FirestoreManager.swift` (writes), `Database/Controller/Matchs/DriverMatchTableViewController.swift`, `Database/Controller/Adress/EditRoteTableViewController.swift` | documents `drivers/<u>`, `passengers/<u>`, `<role>/<u>/rides/<day>/<period>/infos` with the array `requested`; each phone's queue of writes; the button of an open match | default rides, request, cancel, edit of a ride |
| Home screen | `Controller/Home/HomeViewController.swift`, `View/ButtonManager.swift` | `weekDay`, the selected buttons, `type`, `rideManha`, `rideTarde`, `rideNoite`, `rows`, the activity indicator | appear, day button, tap on a card, unwind from the list of matches |
| List of matches | `Controller/Matchs/MatchsTableViewController.swift`, `fetchRides`, `fetchDriver`, `downloadImage` | `matchRides`, `matchDrivers`, `drivers`, `driversImage[4]`, `rows` | load through four dispatch groups, tap on a row, edit button |
| Tab of requests | `Database/Controller/Requested/*.swift`, `fetchRequestsRides` | `rides`, `drivers`, `images`, `rows`; `FirestoreManager.requests` | load at every appearance without rows, segment, tap on a row |
| Registration flow | `Database/Controller/Registration/*.swift`, `Database/Controller/OfferViewController.swift` | global `registerScreen`; the user under construction; addresses and coordinates | forth, back and cancel of each screen, an address, geocoding, `createUser`, the writes of `continuePressed` |
| Route editor, addresses | `Database/Controller/Adress/*.swift` | the ride being edited | `fetchLocation`, `setDailyRide` |
| Login and session | `Database/Controller/LoginViewController.swift`, `Database/FirebaseManager.swift` | flag `usersignedin`; the account of Firebase Auth | sign in, id of the current user |
| Firestore write path | `firestore/core/sync_engine.mm`, `firestore/local/local_store.cc`, `firestore/local/leveldb_mutation_queue.cc`, `firestore/remote/remote_store.cc`, `firestore/remote/stream.cc`, `firestore/remote/write_stream.cc` | mutation queues of all users on disk, `next_batch_id_`, callbacks, `write_pipeline_`, state of the write stream, its tokens and timers | write, credential change, network on and off, answers, errors, idle and backoff timers, start |
| gRPC stream | `firestore/remote/grpc_stream.cc`, `grpc_completion.cc`, `grpc_connection.cc` | `completions_`, `buffered_writer_`, `observer_`, `is_grpc_call_finished_`; completions with gRPC and on the worker queue | start, write, finish (three ways), completions of reads, writes and finish |
| Firestore reads | `firestore/remote/watch_stream.cc`, `watch_change.cc`, `firestore/core/view.cc`, ... | targets, views, limbo documents | external: a read is answered once |
| Models, cells, styles | `Model`, `View` | none of interest | |
| Unused controllers | `HomeTableViewController`, `TestViewController`, `DriverViewController`, ... | no flow of the app reaches them | |

How they interact. Registration queues the documents that every other part
reads. Home reads the three rides of a day and hands one of them, with the day,
to the list of matches. The list reads the users of the other role, their rides
for that slot and their documents in `users`, and hands one user and one ride to
the screen of a match. Its button writes into a `requested` array, of another
user's ride or of one's own. The edit button leads to the editor, whose
`setDailyRide` replaces one's own ride. The tab of requests reads the arrays.
Each write of the app becomes a batch in the mutation queue of its user; `RemoteStore`
takes the oldest into its pipeline and sends them on the write stream, whose messages
travel on one `GrpcStream`. An answer comes back the same way, is matched with the front of
the pipeline, removes the batch and calls the app back.

What is hard about it:

- answers of overlapping loads arrive in any order and write the same fields;
- a group that is never left (an error, or a missing document) is a screen that
  loads for good, and an optional unwrapped too early is a crash;
- two arrays of one controller, filled in different orders, are read with one
  index;
- a queue of writes survives the app: a request outlives the screen that made
  it, and is committed in between the writes of other phones;
- a registration is some twenty separate commits, which others can see half done;
- a response of the server does not say which write it is for, streams break and are
  replaced, and requests of an old stream may still be executed;
- timers, tokens, connectivity changes and completions reach the worker queue in any
  order, some of them meant for a stream that is gone;
- the process can die between any two steps on disk, also after the app was told.

What makes each component correct:

- *Requests*: a request goes to the ride it is about, is found by the tab of
  requests, is not lost but by those who may take it back, and reaches the
  server in the end.
- *Home*: cells never unwrap nil; cards and hand-over belong to the selected day;
  one button is selected; the indicator stops, and turns only during a load.
- *List of matches*: a row for each match and no other, with its own ride; the
  list is shown in the end; another phone's registration does not break it.
- *Tab of requests*: nobody who asked is missing, no cell indexes past an array, and
  the tab stops loading, however its two loads overlap.
- *Write path*: writes of a user are resolved in order, executed at least once or refused; the front
  of the pipeline is the write an answer is for; callbacks tell the truth; nothing that
  was acknowledged is undone; nothing is forgotten.
- *gRPC stream*: messages in order, the status last, one write at a time, the call finished
  once, the worker queue never blocked for good.
- *Registration*: the global and the screens agree; coordinates are those of their addresses; an account gets its
  own documents (it may not, see 5), once, and they are queued in the end unless the registration is cut off.
- *Route editor*: it keeps what it does not show.

`PROJECT.json` lists the components with their status, and the hazards at their
lines, each with the properties that would catch it.

## 2. The modules

| Module | Contents |
|---|---|
| `RideRequests` | the phones of several users, their queues of writes, the documents, and the screens on the way to a request |
| `RequestBoard` | what the above amounts to: a board with the passengers invited to each ride of each driver |
| `HomeScreen` | one phone's Home screen with overlapping loads |
| `MatchList` | one load of the list of matches against registrations on other phones |
| `RequestsTab` | the tab of requests with the overlapping loads of one appearance |
| `WritePipeline` | the write path of the Firestore client, with the server, kills and user changes |
| `WriteQueue` | what that path promises: per user, a queue of writes resolved in order, as executed or as refused |
| `GrpcStream` | one stream between its observer, the worker queue and gRPC |
| `StreamChannel` | what that stream is to its observer: a channel that is heard in order and is silent after its end |
| `Registration` | the screens from login to the addresses, geocoding, Firebase Auth, and the documents a registration queues |
| `MCHomeScreen` | the instance of `HomeScreen` for TLC |
| `RideRequestsProofs`, `HomeScreenProofs`, `MatchListProofs`, `WritePipelineProofs`, `WriteLedgerProofs`, `RegistrationProofs`, `GrpcStreamProofs`, `RequestsTabProofs` | theorems and proofs |

How they fit together. `RideRequests` takes from below that the queue of a phone
commits its writes in order, that kills do not lose them, and that one which cannot
be applied is dropped. `WritePipeline` is the code behind it: its theorem `PromiseSpec`
says that the writes of a user leave the queue from the front, executed or rejected.
Where `RideRequests` commits a write in one step, `WriteQueue` executes it at least
once; the app's writes are idempotent (`setData`, `arrayUnion`, `arrayRemove`), and
`AcknowledgedStays` bounds how far back a repetition can take a document.
`WritePipeline` in turn takes from below that answers come in the order of the requests
and that the status of a server that gives up comes after every answer; `HeardAsSent` and
`OneWriteAtATime` of `GrpcStream` say that, and `ChannelSpec` that it implements `StreamChannel`.

### RideRequests

A document is `<<collection, user, slot>>`; slot 0 is the document of the user in
`drivers` or `passengers` (the marker by which `checkUserType` and `fetchRides`
know a role) and slots 1 to `NumSlots` its rides, 15 in the app. Of a ride only
`requested` is kept, as a set: places and times only decide who matches whom, and
that is left open (any listed user may match), which allows more than the code.

- `Register` is `continuePressed` once the account exists: it queues the marker
  and all default rides. The queue commits one write per `Commit`, and `Apply` says
  what a commit does: `setData` replaces or creates, `updateData` with
  `arrayUnion` or `arrayRemove` is rejected if the document does not exist.
- `Visible` and `Contains` are what a phone reads: the server's document overlaid
  with its own queue, as `LocalDocumentsView::GetDocument` does by applying each batch about the
  document in turn. `UserType`, `Listed` and the state of the request button are
  computed from them.
- `OpenMatch`, `FetchRide`, `ShowMatches`, `OpenDriver`, `BackToMatch`,
  `BackToHome`, `EditButton` move through the screens. `FetchRide` is one answer
  of `fetchRides` at the moment it comes, so that the arrays of different users
  are read at different moments; `OpenDriver` takes the button's state from what
  was read then, as `viewWillAppear` of the match screen does.
- `PressRequest` and `PressCancel` queue what `sendRideRequest` and
  `removeRideRequest` write *with the arguments `resquestButton` passes*, which
  is the point of the findings below.
- `ConfirmButton` is the editor's button: it reads the two places of the ride first, which is
  a record in `lookups`. It is not disabled meanwhile, and the editor can be left.
  `SetDailyRide` is the end of such a reading, wherever the user is by then: it queues the
  replacement of the whole ride. The completion of `setDailyRide` closes the editor
  if it is still open: part of `Commit`.
- `Relaunch` kills the app and opens it: screens and readings are lost, the queue is not.

### HomeScreen

A load is an element of `Loads` and goes through the stages *queued* (deferred block
not run), *type* (`checkUserType`, only for loads of `viewWillAppear` and
`backToHome`), *rides* (the three `fetchDailyRide`) and *notify*. Deferred blocks
run in order (`queue`). A press toggles its button and sets `weekDay` in the handler,
but the day that is read is the one current when the block runs or when the type
arrives, as `self.weekDay` in the code; `ButtonDesign` is applied in the block with
the sender of its own press. A ride is represented by the day it was read for.
`fault` is the optional the app has crashed on. `hasty` remembers whether the user ever did
something while the indicator turned; of a user who never did, `PatientUserSeesItsDay` promises more.

A ride that cannot be read is one that is never answered: `fetchDailyRide` calls
no completion after an error or for a missing document.

### MatchList

The stages are those of `viewWillAppear`: *query* (the users of the other role),
*rides* (a ride of each), *drivers* (the document of each match in `users`),
*images* (a photo of each). `waiting` has the users whose answer the group still
waits for, and `lost` is set when an answer leaves the group entered for good.
`Writes(v)` is the order in which `continuePressed` queues what the load can
see: marker, document in `users`, rides for an employee; marker, rides, document
for a responsable. Each listed user has an actor `Register(v)` that commits the next of
these at any moment. `rides` and `found` keep the order of the answers, which is what
the rows depend on. `MaxImages` is the number of places of `driversImage`.

One load is enough: Home pushes the list over the tab bar, so the only ways out
of it are back (a new controller next time) and the screens above it, which can be
reached only from rows, and with rows `viewWillAppear` loads nothing.

### RequestsTab

`viewWillAppear` and `viewDidAppear` contain the same load, and both start it while `rows` is
nil. A load is an element of `Loads` with the stages *queued*, *type* (`checkUserType`),
*slots* (the 15 reads of `fetchRequestsRides`), *rides* (`fetchDailyRide` of each request),
*drivers* (`fetchDriver` of each ride), *images*. The loads share `rides`,
`drivers` and `images` of the controller and `requests` of the `FirestoreManager`, which
each of them empties before it reads the slots.

These arrays are *bags* of requests. The table has two cells, the second of which reads the
first place of three arrays (`rides[0]`, `drivers[0]`, `images[0]`), so all their order
decides is which of the requests it shows; what decides whether the app crashes is whether there is a
first place. `ReloadData` is that test, `fault` a crash. Each request is in a slot of its own;
a slot without requests is answered and adds nothing. A read that fails or finds no document calls
nothing back (`FailSilently`): it is counted in `lost`, the group waits for it for ever, and the other answers
of the load still add to the arrays. `ReloadData` evaluates the cells at once; a table that is off screen
does so at its next layout, with the arrays as they are by then.

### WritePipeline and WriteQueue

Everything below a user's write runs on the worker queue, so an action is one handler with
all it calls: `OnMutationResult` is `NotifyStreamResponse`, `OnWriteStreamMutationResult`,
`HandleSuccessfulWrite` with `NotifyUser` and `AcknowledgeBatch`, and the refill of
the pipeline. What those handlers do to `RemoteStore` and its write stream is in operators on
one record (`remote`), composed as the calls are: `CloseAndReject` is `Close`, the
removal of the front, `FillWritePipeline`, `StartWriteStream`, and the reset of
`handshake_complete_` *after* the listener.

A write is its number in the order of issue; its batch id is something else, since
`LoadNextBatchIdFromDb` starts again when the disk holds no batch and callbacks are kept
under ids. The server is external: it executes or refuses requests of the open stream in
order; requests of an abandoned stream stay in `strays` and may be executed at any time.

A stream that the server ends has its status in `remote.status`, which is heard after the answers:
- `ServerRefuses` is an error about the oldest request, `ServerHangsUp` a permanent error of a stream
  without one (counted in `hangups`). `OnPermanentError` cannot tell the two apart: `FailFront` rejects whatever is at the front
  when the status arrives, perhaps a write the server never saw.
- `ServerFinishes` is the status OK. `Close` takes it for a stop of the client's own. Without a write in the
  pipeline that is all (`OnStatusOk`); with one the `HARD_ASSERT` of `OnWriteStreamClose` ends the app (`AbortOnStatusOk`),
  which the user opens again. It is the finding of `writes_close`, and the other properties hold all the same.
- `OnUndecodableResponse` is a response that cannot be decoded: it closes the stream with `DataLoss`, a permanent
  error, so that `FailFront` rejects a write the server has executed (kept in `unread`).

A kill keeps what LevelDB has (`queue`) and nothing else. `KillWhileAcknowledging` is the
kill between `NotifyUser` and `AcknowledgeBatch`; a kill between `RejectBatch` and
`NotifyUser` has the effect of a kill after a rejection of which the app has not heard,
and is not an action of its own.

`WriteQueue` has, for each user, the set of pending writes and what the server executed. The server
may execute an issued write any number of times (`Execute`) or refuse it (`Refuse`); a write leaves the queue
only as the oldest of its user: accepted if it was executed (`Acknowledge`), rejected if it
was refused (`Reject`) or if its result could not be read (`Misread`), and, once for each error of the server that was about no
write (`HangUp`), without any such reason (`Misjudge`).

### GrpcStream

`pending` has the operations gRPC holds, `worker` the callbacks already enqueued on the
worker queue, in order. `Complete` (the polling thread) moves one to the other. `Cancel` makes a
callback do nothing, which is taking it off the queue. `FastFinishCompletionsBlocking` waits
for what gRPC holds; whether that wait ends is `Blocks`, and `blocked` is a worker queue that
waits for good. `wire` is the call: open, ended by the server with trailers, broken, or
cancelled by the client.

The steps of gRPC are those of gRPC-Core (`src/CaronaSocial/Pods/gRPC-Core`, `chttp2_transport.cc` 1525-1546, 1909-2058, 2127-2276,
`hpack_parser.cc` 1596-1607), kept to what a stream sees of them: reads give the messages that have arrived, in order, and fail only
after the last or when the connection breaks; writes of a call the server has ended do not
fail; cancelling brings every operation back.

### Registration

The screens are `top`, with what lies below it in `form`, `choice` and `visit`. `registerScreen` is
the global that `continueButton` goes by: `employeeButton` and `responsableButton` set it, Continue of a
student's form sets it, and `viewWillDisappear` of a form that leaves (`LeaveForm`, part of `Back`, `Cancel` and
`SwipeGivenUp`) decrements it. UIKit calls `viewWillDisappear` also for a swipe back that is given up;
`swipes` counts those, and `FormIsItsScreen` says that nothing else makes the global wrong. After one, Continue
casts the rows of one form to those of another (`CastCell`).

A press of the last Continue goes through the stages *geocode* (an answer for each place), *notify*, *signup* (the
server may create the account), *info* (Auth fetches the account's data, and sets and saves `currentUser`),
*created* or *refused* (the completion is on the main queue). Its state is the controller's: addresses are read when the
documents are queued, coordinates are those of the last answer, of whichever press. Nothing is disabled meanwhile:
the user goes back, edits, presses again, cancels, logs in. `CreateUserReturns` queues the documents, all in one
step, for the user that is *current* then, and forgets the press. That need not be the account it has created: the calls of
two e-mails on one phone may overlap, and the finding of `registration_overlap` is what comes of it. A controller lives as long as it is among the screens or in a
press (`Release`). `documents[e]` has the registrations whose documents were queued under account `e`; what becomes of a queued
document is `WritePipeline`'s.

An answer may be an error, or be lost after the server has created the account; the app may be
killed, or crash, anywhere (`Restart`). Accounts that got no documents for one of these reasons are in `broken`; they can log in
and find nothing. `AccountIsFilled` says that there is no other reason. `PlacesBelongTogether` is about the three
coordinates and addresses the completion unwraps: it excepts controllers whose address was edited during a press
(`touched`), for those are stored with the coordinates of the old address.

Assumed: the rows a check reads are on screen (a row scrolled away is nil, and crashes the cast); saving a user in the keychain succeeds; Home has
no way back to what it was pushed on, so that is forgotten. The text fields of the forms, and thus the checks that they
are filled in, are left out: `continueButton` of a responsable makes none. The check of the addresses is in the guard of
`ContinuePressed`: of its two rows the last decides, so the house may be empty.

## 3. The runs

All runs together take about six minutes on two cores.

| Run | Instance | Shows |
|---|---|---|
| `requests` | 1 driver, 1 passenger, 1 ride, 3 queued writes, 1 edit under way, one of them away from Home | `TypeOK`; `OnlyDriversHoldRequests`; `NoHiddenRequest`: the test `array.count > 1` finds each stored request; `DriverRequestHasTarget`: a driver's request is never rejected, even during its own registration; `InvitationStays`: no commit and no relaunch takes an invited passenger out of the array the driver's phone shows; `RequestIsStored` through kills and relaunches; the documents implement `RequestBoard` (`BoardSpec`) |
| `requests_reach` | 1 and 1 | violation, see 5 |
| `home_safety` | 3 days, 2 periods, 2 loads, failing reads | `TypeOK`, `RowsHaveRides`, `AtMostOneSelected`, `SpinnerStops`; `PatientUserSeesItsDay`: for a user who waits for the indicator, cards and the ride handed to the list of matches are of the day last pressed |
| `home_settle` | 3 days, 2 periods, 2 loads | violation, see 5 |
| `matches_load` | 2 employees, 2 responsables, 3 places for photos | `TypeOK`, `RowsAreTheMatches`, `EmployeesAreComplete`, `ListIsShown` |
| `matches_pairing` | as above | violation, see 5 |
| `tab_load` | 2 requests, both loads of an appearance, failing reads | `TypeOK`, `SettledListIsComplete`, `TabSettles` |
| `writes_core` | 2 users, 3 writes, a pipeline of 2, 2 failures of the stream, 1 disturbance: a kill, user change, switch of the network, hang-up, status OK or undecodable response | `TypeOK`, `PipelineIsPrefix`, `AnswersFollowPipeline`, `NoWriteIsForgotten`, `AssertionsHold`, `CallbacksTellTheTruth`, `AcknowledgedStays`, that the client implements `WriteQueue`, `WritesAreResolved` |
| `writes_close` | as above | violation, see 5 |
| `stream_core` | 3 messages of each side | `TypeOK`, `HeardAsSent`, `OneWriteAtATime`, `NeverBlocks`, `FinishedOnce`, that the stream implements `StreamChannel` (`ChannelSpec`), `EndIsNoticed` |
| `registration` | 2 e-mails, 2 places, 1 street, 2 presses of Continue, 1 swipe given up | `TypeOK`, `FormIsItsScreen`, `RegisteredOnce`, `PlacesBelongTogether`, `AccountIsFilled` |
| `registration_overlap` | as above | violation, see 5 |

Bounds, all of them constants:

- `MaxPending` is in the guard of `Enqueue`. Registration alone takes
  `NumSlots + 1`; with 3 a request and its cancellation, or an edit and a
  request, follow it in the queue, which is what
  `Contains` and `DriverRequestHasTarget` are about.
- `MaxAway` is in the guard of `OpenMatch`: how many phones are beyond Home at a
  time, 1 in `requests`. Phones interact through documents only, and the queues of all phones commit at any
  time, also of those that are on Home. With both away (1,083,330 states, liveness included), and with two passengers,
  two queued writes and one phone away (1,521,720 states), everything was run by hand and passes.
- `MaxLookups` is in the guard of `ConfirmButton`: the readings of places under way, 1. A second one queues the same
  write once more.
- `NumSlots` is 1: writes for different slots touch different documents, and only
  their order in a queue relates them. The proofs have any number.
- `Loads` bounds the loads of Home under way at a time, and the loads of a session of the tab.
  For Home two are enough for a press to be overtaken by another or by a load of
  `viewWillAppear`; the proofs have any number. In the tab an appearance starts two, and only
  one that leaves before they are done starts a third, which does what the second does.
- `MaxImages` is 3 instead of 4, so that four matches exceed it.
- `MaxPendingWrites` is the code's `kMaxPendingWrites`, 10, and 2 here: with three writes the
  pipeline is full with one left behind, so that a refill matters. `MaxWrites` bounds the
  writes issued, `MaxCloses` the failures of one process' stream (a close that a rejection or a
  switch of the network causes is counted by `closeCount` but not held back), `MaxDisturbances` the
  kills, user changes, switches of the network, and the rarer ways in which a stream ends (hang-up, status OK, undecodable
  response). One of these is in the run; an abort, which follows a status OK, is not counted again.
- `MaxReplies` and `MaxWrites` of `GrpcStream`: with three one message is heard, one is on the
  worker queue and one has arrived, and one write is active with two behind it.

- `Registration`: `Presses` are all presses of the last Continue in a behaviour; a second one meets the account, the
  coordinates and the answers of the first. `Visits` is one controller alive at a time: two share nothing but Auth; the
  safety properties with two (3.7 million states) were run by hand and pass. With one street an address is empty or filled in,
  which is enough for an answer to be kept in the wrong place. `MaxSwipes` bounds the swipes given up.

Deadlock is checked where the system cannot stop (`requests*`, and `registration*`, where the
app can be launched again at any time) and
not where it may: after a crash of the app (`home_*`, where a user
can press before the type is known, and `tab_load`), when the story of the one list is over
(`matches_*`), when all writes are resolved (`writes_*`), and when the stream has
ended (`stream_core`).

Fairness, and what justifies it:

- `FairSpec` of `RideRequests`: `WF(Commit(u))`. The SDK sends the oldest write of a phone
  that is online again and again until it is acknowledged. Nothing is assumed of users.
- `FairSpec` of `HomeScreen`: `WF(Advance(l))` for each load. The main queue runs its
  blocks, and a Firestore read is answered. `FailType` is not fair: an error
  need not happen. `SpinnerStops` is thus about users whose own rides exist; for
  an account without data, which a registration that is cut off leaves behind, the
  indicator turns for good (see `AccountIsFilled` of `Registration`).
- `FairSpec` of `RequestsTab`: `WF(Advance(l))`, as for Home; failures need not happen.
- `FairSpec` of `WritePipeline`: tokens are granted, backoff elapses, the worker queue
  handles the responses and errors it has, the server answers a request it holds or refuses, and a network that was
  switched off is switched on again. Each is a separate `WF`: none stays enabled only
  now and then. A status OK is handled, too; if that ends the app, the user opens it again, as after any crash. Streams need not break nor requests be refused. `WritesAreResolved` is about the
  user who is signed in; writes of another wait for it, as the code means it.
- `FairSpec` of `GrpcStream`: `WF(RunCallback)`, the worker queue runs, and `WF(GrpcStep)`, gRPC gives
  back what it can. That the server ends a call is not assumed.
- `FairSpec` of `Registration`: `WF(RunBlock)`, the main queue runs, and `WF(PressAnswer(r))`, geocoder, Auth
  and the server answer each press, if only with an error. It is one `WF` per press, since the answer to
  one must not be what keeps another waiting. Users, kills and launches are not fair, and logins need not be answered.
- `FairSpec` of `MatchList`: `WF(Load)`. It may answer by the *absence* of a
  document; errors and registrations need not happen.

## 4. The proofs

The assumptions are those in the modules: the two roles are disjoint and finite, the
markers (`Empty`, `Nil`, ...) are none of the values they stand beside, bounds are
natural numbers, the requests of the tab are finitely many, a load of Home reads at least one
period (the app has three). Nothing else is assumed, and nothing is left unproved.

`RideRequestsProofs`. The properties are not inductive: that a driver's request
finds its document depends on what is still in the queue. `Inv` is the conjunction of
`TypeOK`; `QueuesOK`, each queued write is one the screens of this user can
make (a request of a driver goes to its own ride, one of a passenger to
a document in `drivers` that belongs to a passenger, which is why it never
lands); `DocsOK`, the arrays of existing documents have the mark "" and hold
passengers, in drivers' rides only; `RidesComeFirst`, a write that needs a ride has
the ride stored, or created by an earlier write of the same queue;
and `ScreensOK`, what the lists and buttons refer to. `CreatesOnce` adds that a ride is
created by registration once, so that a default ride never takes a request away.
From these follow

- `TypeCorrect`, `OnlyDriversHold`, `NothingHidden`, `DriverRequestFindsRide`;
- `InvitationsStay`, an action property about `Contains`, which each commit recomputes: what the head of the queue said of a passenger
  is then said by the document (`ContainsByCommit`), a commit of another phone reaches this array only with a
  cancellation, and of what the driver's own phone queues only an edit says anything of the passenger. The driver's own
  cancellation is allowed by the property, as a driver means it, but the code writes it to another document, so that the proof never needs it;
- `ImplementsBoard`: `Spec => BoardSpec` under the mapping `Guests`. Initial states
  map to the empty board, `Commit` to `Invite`, `Withdraw`, `Rewrite` of one cell
  or to a stutter, any other action to a stutter;
- `RequestsAreNotLost` and `QueuesMoveUp`, what is left of `RequestIsStored` without fairness. A request
  a driver has queued leaves the queue only by being stored in its ride, since `DriverRequestHasTarget` lets it
  find its document; until then each commit of that phone moves it one place up and nothing else moves it.

`HomeScreenProofs`. `Inv` adds `QueueOK` (the queue has each waiting load once) and
`LoadsOK` (a load that reads has a type, and a ride for every period it no
longer awaits; one at *notify* has all of them) to `TypeOK`, `RowsHaveRides`,
`AtMostOneSelected` and `SpinnerMeansLoad`. That a fault is no excuse is the
reason for the second: rows may be set by one load while others are half way, and
what keeps cells from unwrapping nil is that no answer ever resets a ride. `PatientSees` (the property
`PatientUserSeesItsDay`) has an invariant of its own, `PatientInv`: without haste there is at most one load
under way, all its rides are of `weekDay`, and when it is over the cards are what it has read. It is
kept by one lemma for each way to start a load, one for the user's other actions and one for a load's steps.
`NoLoadIsStuck` is what is left of `SpinnerStops` without fairness: `LoadsHaveWork`, each load is queued, awaits a period,
or is to notify, and an indicator that turns has a load. It is where a load without periods would end.

`MatchListProofs`. `Inv` follows the groups: `StageOK` (what is empty when),
`GroupOK` (nobody is both answered and awaited, so sequences have no duplicates),
`FetchOK` (the users fetched and those awaited are the users of the matches, if no
answer is lost), `RidesAreCommitted`, `AwaitedAreListed`. The type of a tapped row needs a counting
argument (`NotLonger`): there are no more users than rides. From it follow
`TypeCorrect`, `EachMatchHasItsRow`, `EmployeesNeverCrash`, `OnlyRegistrationsLose`.

`WritePipelineProofs`. `IInv` is `TypeOK`, `QueuesOK` (ids rise along a queue and stay below the next
one) and `RemoteOK(remote, queue[user])`: the pipeline is the front of the queue, and is
as long as it can be while the network is enabled; an open stream carries exactly what it
should (`Cargo`: the handshake before, the pipeline after it); tokens that are not out of date
are there exactly while a stream is starting; a stream idles only with nothing to send. `RemoteOK` is
about the *operators* on `remote`, so most lemmas say what one of them keeps for
any queue (`FillKeeps`, `RejectKeeps`, `StopIsQuiet`, `DisableKeeps`, ...), and an action is
a composition of those. That queues are in order of their ids is needed for `Upto`, the place in the
queue after the last batch of the pipeline. `AssertionsNeverFail` is about the HARD_ASSERTs that hold; that of `OnWriteStreamClose` on a
status OK of the server does not, and is `GracefulStopIsDesirable` of the run `writes_close` (after it the app is opened again,
which everything else takes into account). `PipelineIsPrefix` alone is not inductive: a response
takes the front off only because `AnswersFollowPipeline`, and that rests on what a stream carries
from its first request on. Without fairness, two theorems are left of `WritesAreResolved`. `NoWriteIsStuck`:
while the network is enabled and a write waits, the guard of one of the fair actions holds (`AtWork`), which is why `StreamOK` says
of a starting stream that its token *is* on its way, and not only that no other stream has one. `FrontComesNearer`: there are at
most six steps (`StepsToAnswer`) to the answer for the front of the pipeline, from the backoff timer over token, handshake and its answer to
that of the write; only what is listed in `Setback` (a stream that breaks, a change of user, a kill or an abort, the network disabled, a
handshake that is refused or cannot be decoded) makes it more, every `Advance` makes it less, and a response or a permanent error then resolves the write.

`WriteLedgerProofs`. `LInv` adds `LedgerOK` and `NewsOK` to the three properties it proves. A write is *touched* once
it was sent on some stream; touched writes of a user are resolved or are the oldest of its queue, so what a stray
may execute late is never ahead of the queue (`AbandonTouches`, `ClosingKeeps`), answers that are on
their way are of executed writes, and while an error that is about no write is on its way (`Blamed`) one hang-up is left to account
for it. From this follow `CallbacksMatch`, `CallbacksAreTrue`, `AcknowledgedWritesStay`, and
`ClientKeepsPromise`: `Spec => PromiseSpec` step by step, with the writes of `queue` for `pending`;
`WriteMutations` is `Issue`, `ServerAnswers` and `StrayIsExecuted` are `Execute`, `ServerRefuses` is `Refuse`, `ServerHangsUp` is `HangUp`,
`OnMutationResult` is `Acknowledge`, `OnPermanentError` is `Reject`, `Misjudge` or a stutter, `OnUndecodableResponse` is `Misread` or a
stutter, everything else a stutter.

`RegistrationProofs`. Four layers, each inductive given those before it. `ScreenInv`: which screens lie below
the one on show, and that `registerScreen` is right for the topmost *form*, also while other screens are
above it; `FormIsItsScreen` alone speaks of forms on show only, and a screen that is closed brings the form
below back. It gives `FormFits`. `DataInv`: a press under way holds a controller with an e-mail and stands on the main
queue at most once, the completion of a login once and with its answer. It gives
`TypeCorrect`, as what a completion reads has its type only then. `GeoInv`: a place that is still waited for
was asked about with the address it has, the others have the coordinates of theirs, unless the user edited
during a press. It gives `CoordinatesFit`. `AccountInv`: documents of an e-mail are queued
at most once under all accounts together (`QueuedOnce`); a press between its sign-up and its completion is the only one of its e-mail there,
and has no documents yet (`SignUpsFit`); whoever is current or at Home has an account (`UsersFit`). It gives
`RegistrationsAreOnce`, for calls of any number of e-mails that overlap in any way. *Under which* account is not said, since the code does not
see to it: the handler reads *current*. Two more results are what is left of `AccountIsFilled` without
fairness. `NothingIsStuck`: the main queue holds exactly the blocks somebody waits for, each once (`BlocksFit`), and a press
that is geocoding has an answer to come (`AnswersCome`). `NobodyForgotten`: an account whose documents are nowhere has a press at work on it, unless
an answer was lost or the app was cut off in between.

`GrpcStreamProofs`. The worker queue is seen as the set of its callbacks (`Queued`); `Added`, `TakenOff` and
`Dropped` say what happens to that set, so that the rest is about sets. `StreamInv`: while the call
lasts there is one read and after its first failure one finish operation, with gRPC or on the worker queue;
a callback of a failure means that the call has ended. It gives `TypeCorrect`, `Unblocked` and `OneFinish`:
the stream waits only in `Shutdown` and `FinishGrpcCall`, and is never there with an open call and operations.
`WriteInv`: one write is under way, the one before those in the buffer; the server has all earlier ones while the call
is open. It gives `WritesInOrder`. `HeardInv`: what was heard, the message on the worker queue and those in
the inbox are together the messages of the server in order; a read that fails without a broken connection leaves
none of them. It gives `HeardInOrder`. `ImplementsChannel` is `Spec => ChannelSpec`, step by step: the callback of a read is `Hear`,
a write of the observer is `Ask` whether it goes to gRPC or to the buffer, a write that reaches the server is `Receive`,
the end of the stream is `TellStatus`, `TellLoss` or `Stop`, and all else is a stutter.
After the end nothing is heard because the callbacks that are still queued have lost their observer.
`AlwaysAStepLeft` and `WindsDown` are what is left of `EndIsNoticed` without fairness. After the end of the call
`StepsLeft` counts what the messages that have arrived, the read that fails, the finish operation and the writes there are or may yet be can take
in operations and callbacks; it is a natural number that no step raises and that falls with every `RunCallback` and `GrpcStep`, and while the observer has not been told one of
these is possible. A write that the observer adds meanwhile does not delay the end (`WritingDelaysNothing`).

`RequestsTabProofs`. Nothing can be said of one load, since another may empty the array it is filling. `TabInv`
says of each request that it is listed or *some* load will add it (`Listed`; a load that empties the array reads all
slots again), of each ride that its driver is there or a load fetches it (`RidesFit`), of the photos
that there are enough or a load fetches them (`PhotosFit`). A read that is lost stays among those its load waits for, so that this load
is never over. When no load is left this is `ListSettles`. The
size of a bag is the cardinality of its places, as a sum would need induction over data; the assumption is
that `Requests` is finite.

Only model-checked: the liveness properties (`RequestIsStored`, `SpinnerStops`,
`ListIsShown`, `TabSettles`, `WritesAreResolved`, `EndIsNoticed`, `AccountIsFilled`), which need ENABLED for their
fairness. Of `RequestIsStored`, `SpinnerStops`, `WritesAreResolved`, `EndIsNoticed` and `AccountIsFilled` the half that does not depend on
fairness is proved, as said above: that there is a step to take, and for the writes, requests and streams that it leads
nearer to the end. What TLC adds is that a fair step that stays possible is taken. Every invariant and every action property of a passing run is proved.

`SpinnerMeansLoad` (the indicator turns only during a load) is a conjunct of the invariant of
`HomeScreen` and is proved, not listed in a run; so are `LostToRegistrations` of `MatchList`
(`OnlyRegistrationsLose`) and `CallbacksAreOfBatches` of `WritePipeline` (`CallbacksMatch`).

## 5. Where the code and its comments disagree

Each of these is a run that TLC ends with a counterexample.

1. `requests_reach`. `sendRideRequest(driverID, requestedUserID)` updates
   `drivers/<requestedUserID>`, and `resquestButton` passes the selected user
   and the current user in this order: a passenger's request goes to
   `drivers/<passenger>`, is rejected, and the driver never sees it. A driver's request
   works, as an invitation in the driver's own array.
2. `home_settle`. Two quick presses of day buttons: the answers of the first load can
   arrive last and stay, so that a card has a ride of another day than the one
   selected, with no load left to repair it.
3. `matches_pairing`. A row of the list shows the user at its index in `drivers` and
   opens the ride at that index in `matchRides`, which are in different orders.
4. `writes_close`. A stream the server ends with status OK goes through `Close` as a stop of the client's own does. With a write in the
   pipeline the `HARD_ASSERT` of `OnWriteStreamClose` fails, whose comment names `Stop()` and the idle timer as the only ways there.
   What was queued is on disk and is sent after the next launch.
5. `registration_overlap`. `getUserID` is read in the completion of `createUser`. Another e-mail whose `createUser`, `singIn` or login is
   answered in between has changed the current user by then: its account gets the documents, the new one none, and the ride requests
   stored in the former are gone. Nothing on the addresses or the login prevents the two from overlapping. What holds all the same is `RegisteredOnce`.

Seen on the way, and not runs of their own:

- The two loads of an appearance of the tab share `FirestoreManager.shared.requests`. The second empties it while the first is collecting,
  so that one of them returns an array in which a request is missing, or is there twice. `tab_load` shows why the user sees
  no more of this than a duplicate: the load that starts to read last collects them all.
- An edit of a ride takes the requests stored in it with it, and since it is written only after two reads, also an invitation that is made after
  the editor was left. `InvitationStays` and `BoardSpec` allow for that.
- `SeekOrOffer` shows "Cancelar" and its scene has no segue `backToLogin`: confirming the alert crashes the app (`PerformMissingSegue`).
- A geocoding that fails is stored as `kCLLocationCoordinate2DInvalid`, and an address edited while a press is under way with the
  coordinates of the one before.
- A registration ends without a change of screen, whether it has succeeded or not: the user stays on the addresses and can press again.
- `removeRideRequest` takes its users the other way round than `sendRideRequest`: a driver's cancellation goes to
  `drivers/<passenger>` and is rejected, and the passenger stays in the array although the alert
  says "Carona cancelada!".
- A second press of the selected day button deselects it, and of two quick presses the earlier
  can stay selected; the comment above `DayButtonsPressed` speaks of single selection.
- The diagram in `firestore/remote/stream.h` leads from every state to INITIAL by `Stop()`; in Error it stays in
  Error. `write_stream.h` says that `OnWriteStreamClose` is not called after `Stop()`, and
  `Close` with an OK status calls it. Neither disturbs `RemoteStore`, whose handler allows for both.
- A result that cannot be decoded ends the stream with `DataLoss` (`firestore/nanopb/reader.h`), which `IsPermanentError` takes for a
  refusal: the app is told of an error for a write the server has executed. A permanent status of a stream with nothing to refuse
  rejects the write that is at the front when it arrives, which the server may never have seen. `CallbacksTellTheTruth` says that there
  is no third way to an untrue error.

Some hazards are ways in which the code does go wrong, at once and in any order of events: the modules contain them as a fault, a lost
answer or a flag, and the properties, which except them, say that there is no other way to the same damage. These are the
press before the type is known (`HomeScreen`: fault `type`), the fifth photo and the responsable without a
document (`MatchList`: faults `place` and `user`), the answers that leave a group entered (`lost` of `MatchList` and `RequestsTab`), the reload
between rides and drivers, and the emptied photos (`RequestsTab`: `fault`, `emptied`), the swipe given up (`Registration`: `swipes`) and the
address without coordinates (`Invalid`). `PROJECT.json` says so at each of them.

## 6. What is not modelled

- Places, times and the comparison of rides in `match`: a free choice. The
  text of fields, pictures as data, layout, alerts.
- Memory warnings, and UIKit's interactive gestures other than the back swipe of a registration form.
- Security rules of Firestore, and offline reads from a stale cache: a read sees the
  server overlaid with the phone's own queue.
- A sign-out: the app has none that deletes the queue.
- `addConfirmedRide` and `checkResquestedRide`, which nothing calls; the unused controllers.
- `InstitutionTableViewController`, `AditionalInfoViewController` and the verification mail; `registragionButton` of
  the login, which no control of the storyboard is connected to. The checks of the route editor: planned below.
- Of the Firestore client: reads (watch stream, targets, views, limbo documents, garbage collection) beyond the overlay of
  one document, which is `Visible` of `RideRequests`; `waitForPendingWrites`, transactions, `terminate` and unary calls, which the
  app does not use. The server's part of a read is external to every module.
- The rest of `src/CaronaSocial/Pods`: BoringSSL, gRPC-Core (but for the steps of it in `GrpcStream`), leveldb, Protobuf, abseil, nanopb and the Firebase
  libraries for storage, authentication and analytics. Those half a million lines are
  third-party code of general use; the program's own logic is in its Swift files, and the map covers those and the part of
  the Firestore client it depends on. Measured against all lines of C and C++ in the
  repository, the share the map covers is therefore very small, and will stay so.

## 7. Plan

Done, in this order, the most important behaviour first: `RequestBoard` and
`RideRequests` with their proofs; `HomeScreen` with its proofs; `MatchList` with
its proofs; `RequestsTab`, `GrpcStream` and
`Registration` with theirs; `WriteQueue` and `WritePipeline` with theirs.

Next:

1. `RouteEditor`: what `setDailyRide` keeps of a ride, `fetchLocation` (which reads the
   longitude from the field "latitude"), the editor that is left and opened again
   before the completion of `setDailyRide` comes.
2. A composition of `MatchList` with `RideRequests`: the button of a row opened again after a
   press has the state of the load, not of the array.
3. The watch stream: targets that are added and removed while their acknowledgements are under way.

The tab of requests reads what `RideRequests` stores: `NoHiddenRequest` is its
interface to it.
