---------------------------- MODULE RequestsTab ----------------------------
(***************************************************************************)
(* The tab of requests: RequestsViewController with fetchRequestsRides of  *)
(* FirestoreManager.  viewWillAppear and viewDidAppear start the same load *)
(* while rows is nil, and the loads share the fields of the controller and *)
(* the array `requests` of the FirestoreManager.                           *)
(*                                                                         *)
(* A request stands for a ride of the user in whose array another user is, *)
(* for the ride of that other user and for its document; each is in a slot *)
(* of its own, since slots without a request add nothing.  An array is the *)
(* bag of what it holds: of its order only the first place is ever used,   *)
(* and what matters here is whether there is one.  Everything runs on the  *)
(* main queue: an action is a handler, a block or a completion.            *)
(***************************************************************************)
EXTENDS Naturals, FiniteSets

CONSTANTS
  Requests,   \* what the arrays `requested` of the user hold
  Loads,      \* bound on the loads started in a session
  MayFail     \* whether reads get errors or no document

ASSUME RequestsTabConstants == IsFiniteSet(Requests) /\ MayFail \in BOOLEAN

VARIABLES
  at,         \* "away", "appearing", "tab" or "detail"
  segment,    \* selectedSegment
  rows,       \* whether self.rows has its value
  rides, drivers,  \* arrays of the controller, as bags of requests
  images,     \* the length of self.images
  requests,   \* FirestoreManager.shared.requests, as a bag
  loads,      \* the loads and what each waits for
  shown,      \* whether the table has its two cells
  emptied,    \* whether images was emptied and is not filled again
  fault       \* whether the app has crashed

vars == <<at, segment, rows, rides, drivers, images, requests, loads, shown,
          emptied, fault>>
loadVars == <<rides, drivers, requests, rows>>

\* Bags of requests.
Bag == [Requests -> Nat]
EmptyBag == [r \in Requests |-> 0]
PlacesOf(bag) == UNION {{r} \X (1..bag[r]) : r \in Requests}
SizeOf(bag) == Cardinality(PlacesOf(bag))

\* A load: the slots it has not read, what it has asked for (ride documents and
\* then user documents), how much of that its group waits for, how much of this
\* is lost and never answered, and its downloads.
NoLoad == [stage |-> "none", unread |-> {}, asked |-> EmptyBag,
           todo |-> EmptyBag, lost |-> EmptyBag, downloads |-> 0]

Awaited(l, r) == loads[l].todo[r] > loads[l].lost[r]
UnderWay(l) == loads[l].stage \notin {"none", "done"}
Busy == \E l \in Loads : UnderWay(l)

Init ==
  /\ at = "away" /\ segment = 1 /\ rows = FALSE
  /\ rides = EmptyBag /\ drivers = EmptyBag /\ requests = EmptyBag
  /\ images = 0
  /\ loads = [l \in Loads |-> NoLoad]
  /\ shown = FALSE /\ emptied = FALSE /\ fault = FALSE

-----------------------------------------------------------------------------
(* The user's side *)

\* What viewWillAppear and viewDidAppear have in common.
Load ==
  /\ images' = 0
  /\ emptied' = rows
  /\ IF rows THEN UNCHANGED loads
     ELSE \E l \in Loads :
            /\ loads[l].stage = "none"
            /\ loads' = [loads EXCEPT ![l].stage = "queued"]
  /\ UNCHANGED <<segment, loadVars, shown, fault>>

ViewWillAppear ==
  /\ ~fault /\ at \in {"away", "detail"}
  /\ at' = "appearing"
  /\ Load

ViewDidAppear ==
  /\ ~fault /\ at = "appearing"
  /\ at' = "tab"
  /\ Load

Leave ==
  /\ ~fault /\ at = "tab"
  /\ at' = "away"
  /\ UNCHANGED <<segment, loadVars, images, loads, shown, emptied, fault>>

\* reloadData: the second cell reads the first place of three arrays.
ReloadData(seg) ==
  /\ shown' = rows
  /\ fault' = (/\ rows /\ seg = 1 /\ rides # EmptyBag
                /\ (drivers = EmptyBag \/ images = 0))

\* Mutant of SwitchSegmented: there is always a next segment.
NextSegment ==
  /\ ~fault /\ at = "tab"
  /\ segment' = segment + 1
  /\ ReloadData(segment')
  /\ UNCHANGED <<at, loadVars, images, loads, emptied>>

SwitchSegmented ==
  /\ ~fault /\ at = "tab"
  /\ segment' = 3 - segment
  /\ ReloadData(segment')
  /\ UNCHANGED <<at, loadVars, images, loads, emptied>>

\* The second cell is there even if there is nothing in it.
DidSelectRow ==
  /\ ~fault /\ at = "tab" /\ shown
  /\ IF drivers = EmptyBag \/ rides = EmptyBag
     THEN fault' = TRUE /\ UNCHANGED at
     ELSE at' = "detail" /\ UNCHANGED fault
  /\ UNCHANGED <<segment, loadVars, images, loads, shown, emptied>>

-----------------------------------------------------------------------------
(* The steps of a load *)

MoveTo(l, load) == loads' = [loads EXCEPT ![l] = load]
OnlyTheLoad ==
  UNCHANGED <<at, segment, rides, drivers, rows, images, shown, emptied, fault>>

\* The deferred block asks for the type of the user.
RunBlock(l) ==
  /\ ~fault /\ loads[l].stage = "queued"
  /\ MoveTo(l, [NoLoad EXCEPT !.stage = "type"])
  /\ OnlyTheLoad /\ UNCHANGED requests

\* The type is known: fetchRequestsRides starts anew and reads every slot.
AnswerType(l) ==
  /\ ~fault /\ loads[l].stage = "type"
  /\ requests' = EmptyBag
  /\ MoveTo(l, [NoLoad EXCEPT !.stage = "slots", !.unread = Requests])
  /\ OnlyTheLoad

AnswerSlot(l, r) ==
  /\ ~fault /\ loads[l].stage = "slots" /\ r \in loads[l].unread
  /\ requests' = [requests EXCEPT ![r] = @ + 1]
  /\ MoveTo(l, [loads[l] EXCEPT !.unread = @ \ {r}])
  /\ OnlyTheLoad

\* Mutant of NotifySlots: the group is not entered for every slot.
NotifyAtFirstSlot(l) ==
  /\ ~fault /\ loads[l].stage = "slots" /\ loads[l].unread # Requests
  /\ MoveTo(l, [NoLoad EXCEPT !.stage = "rides", !.asked = requests,
                           !.todo = requests])
  /\ OnlyTheLoad /\ UNCHANGED requests

\* All slots are read: the rides of all requests are fetched, whichever load
\* has found them.
NotifySlots(l) ==
  /\ ~fault /\ loads[l].stage = "slots" /\ loads[l].unread = {}
  /\ MoveTo(l, [NoLoad EXCEPT !.stage = "rides", !.asked = requests,
                           !.todo = requests])
  /\ OnlyTheLoad /\ UNCHANGED requests

\* Mutant of AnswerRide: the group is not left.
RideWithoutLeave(l, r) ==
  /\ ~fault /\ loads[l].stage = "rides" /\ Awaited(l, r)
  /\ OnlyTheLoad /\ UNCHANGED <<loads, requests>>

AnswerRide(l, r) ==
  /\ ~fault /\ loads[l].stage = "rides" /\ Awaited(l, r)
  /\ MoveTo(l, [loads[l] EXCEPT !.todo[r] = @ - 1])
  /\ OnlyTheLoad /\ UNCHANGED requests

\* The completion of fetchRequestsRides.
NotifyRides(l) ==
  /\ ~fault /\ loads[l].stage = "rides" /\ loads[l].todo = EmptyBag
  /\ rides' = loads[l].asked
  /\ MoveTo(l, [NoLoad EXCEPT !.stage = "drivers", !.asked = loads[l].asked,
                           !.todo = loads[l].asked])
  /\ UNCHANGED <<at, segment, drivers, rows, images, requests, shown, emptied,
                 fault>>

AnswerDriver(l, r) ==
  /\ ~fault /\ loads[l].stage = "drivers" /\ Awaited(l, r)
  /\ drivers' = [drivers EXCEPT ![r] = @ + 1]
  /\ MoveTo(l, [loads[l] EXCEPT !.todo[r] = @ - 1])
  /\ UNCHANGED <<at, segment, rides, rows, images, requests, shown, emptied,
                 fault>>

\* The photos of all drivers are fetched, whichever load has found them.
NotifyDrivers(l) ==
  /\ ~fault /\ loads[l].stage = "drivers" /\ loads[l].todo = EmptyBag
  /\ rows' = TRUE
  /\ MoveTo(l, [NoLoad EXCEPT !.stage = "images",
                           !.downloads = SizeOf(drivers)])
  /\ UNCHANGED <<at, segment, rides, drivers, images, requests, shown, emptied,
                 fault>>

AnswerImage(l) ==
  /\ ~fault /\ loads[l].stage = "images" /\ loads[l].downloads > 0
  /\ images' = images + 1
  /\ MoveTo(l, [loads[l] EXCEPT !.downloads = @ - 1])
  /\ UNCHANGED <<at, segment, loadVars, shown, emptied, fault>>

NotifyImages(l) ==
  /\ ~fault /\ loads[l].stage = "images" /\ loads[l].downloads = 0
  /\ MoveTo(l, [NoLoad EXCEPT !.stage = "done"])
  /\ ReloadData(segment)
  /\ UNCHANGED <<at, segment, loadVars, images, emptied>>

\* An optional is unwrapped: the document of the user's type, a slot or a user
\* that does not exist, or a photo that cannot be loaded.
FailUnwrapping(l) ==
  /\ MayFail /\ ~fault
  /\ \/ loads[l].stage = "type"
     \/ loads[l].stage = "slots" /\ loads[l].unread # {}
     \/ loads[l].stage = "drivers" /\ \E r \in Requests : Awaited(l, r)
     \/ loads[l].stage = "images" /\ loads[l].downloads > 0
  /\ fault' = TRUE
  /\ UNCHANGED <<at, segment, loadVars, images, loads, shown, emptied>>

\* A ride that does not exist, or an error, calls nothing back: the group waits
\* for ever, and the other reads are answered all the same.
FailSilently(l, r) ==
  /\ MayFail /\ ~fault
  /\ loads[l].stage \in {"rides", "drivers"} /\ Awaited(l, r)
  /\ MoveTo(l, [loads[l] EXCEPT !.lost[r] = @ + 1])
  /\ OnlyTheLoad /\ UNCHANGED requests

Advance(l) ==
  \/ RunBlock(l) \/ AnswerType(l) \/ \E r \in Requests : AnswerSlot(l, r)
  \/ NotifySlots(l) \/ \E r \in Requests : AnswerRide(l, r)
  \/ NotifyRides(l) \/ \E r \in Requests : AnswerDriver(l, r)
  \/ NotifyDrivers(l) \/ AnswerImage(l) \/ NotifyImages(l)

Next ==
  \/ ViewWillAppear \/ ViewDidAppear \/ Leave
  \/ SwitchSegmented \/ DidSelectRow
  \/ \E l \in Loads : \/ Advance(l) \/ FailUnwrapping(l)
                      \/ \E r \in Requests : FailSilently(l, r)

Spec == Init /\ [][Next]_vars

\* The main queue runs its blocks, and reads and downloads are answered.
FairSpec == Spec /\ \A l \in Loads : WF_vars(Advance(l))

-----------------------------------------------------------------------------
(* Properties *)

LoadRecords ==
  [stage : {"none", "queued", "type", "slots", "rides", "drivers", "images",
            "done"},
   unread : SUBSET Requests, asked : Bag, todo : Bag, lost : Bag, downloads : Nat]

\* The values the variables take.
TypeOK ==
  /\ at \in {"away", "appearing", "tab", "detail"}
  /\ segment \in {1, 2} /\ rows \in BOOLEAN
  /\ rides \in Bag /\ drivers \in Bag /\ requests \in Bag
  /\ images \in Nat
  /\ loads \in [Loads -> LoadRecords]
  /\ shown \in BOOLEAN /\ emptied \in BOOLEAN /\ fault \in BOOLEAN

\* However the loads overlap, and although each throws away what the other has
\* collected so far, once all of them are done no user who asks for a ride is
\* missing among the drivers, each ride has its driver, and the arrays the cell
\* indexes are at least as long as the one whose length it tests; only an
\* appearance after that empties the photos and fills them no more.
SettledListIsComplete ==
  rows /\ ~Busy =>
    /\ \A r \in Requests : drivers[r] > 0 /\ rides[r] <= drivers[r]
    /\ SizeOf(rides) <= SizeOf(drivers)
    /\ ~emptied => SizeOf(drivers) <= images

\* The list stops loading in the end, unless a read is lost or the app crashes.
TabSettles ==
  Busy ~> (~Busy \/ fault \/ \E l \in Loads : loads[l].lost # EmptyBag)
=============================================================================
