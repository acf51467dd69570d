------------------------------ MODULE MatchList ------------------------------
(***************************************************************************)
(* The list of matches of one phone (MatchsTableViewController), loaded    *)
(* while the users it lists may still be registering.                      *)
(*                                                                         *)
(* A load is a chain of dispatch groups on the main queue: the users of a  *)
(* role, a ride of each of them, the user's document for each ride that    *)
(* matches, a photo for each of these users.  Within a group the answers   *)
(* come in any order.  A registration is three commits that matter here,   *)
(* in the order the registering phone queued them.                         *)
(*                                                                         *)
(* Every opening of the list is a new controller with one load: while the  *)
(* rows are missing there is no button to leave by and come back.          *)
(***************************************************************************)
EXTENDS Naturals, Sequences, SequencesExt

CONSTANTS Employees,    \* listed users registered as employees
          Responsables, \* listed users registered as responsables of a student
          Nil,          \* an optional without value
          MaxImages     \* places in driversImage, 4 in the app

Others == Employees \cup Responsables

ASSUME KindsAreDisjoint == Employees \cap Responsables = {}
ASSUME NilIsNothing ==
  Nil \notin Others \cup {"user", "place", "photo", "document", "error"}
ASSUME MaxImagesIsNat == MaxImages \in Nat

VARIABLES committed,  \* user -> commits of the registration so far
          at,         \* the screen on show
          stage,      \* how far the load has come
          waiting,    \* users the current group still waits for
          lost,       \* why the current group will never be left, Nil if it will
          rides,      \* users of the rides fetched that match, as they came
          matchRides, \* self.matchRides, as users
          found,      \* matchDrivers: users fetched, as they came
          drivers,    \* self.drivers
          rows,       \* whether self.rows has its value
          opened,     \* what the last row tapped has given to its screen
          fault       \* what the app has crashed on

load == <<stage, waiting, lost, rides, matchRides, found, drivers, rows>>
vars == <<committed, at, load, opened, fault>>

-----------------------------------------------------------------------------
(* Registrations, on other phones. *)

\* Mutant of Writes: everybody's rides come before the document.
RidesBeforeUser(v) == <<"marker", "ride", "user">>

\* What continuePressed writes for v: employees get their document in "users"
\* before their default rides, responsables after them.
Writes(v) == IF v \in Employees THEN <<"marker", "user", "ride">>
                                ELSE <<"marker", "ride", "user">>

Has(v, doc) == \E i \in 1..committed[v] : Writes(v)[i] = doc
Registering(v) == committed[v] \in {1, 2}

Register(v) ==
  /\ committed[v] < 3
  /\ committed' = [committed EXCEPT ![v] = @ + 1]
  /\ UNCHANGED <<at, load, opened, fault>>

-----------------------------------------------------------------------------
(* The load. *)

Stages == {"queued", "query", "rides", "drivers", "images", "shown"}

Init ==
  /\ committed \in [Others -> {0, 3}]
  /\ at = "list"
  /\ stage = "queued"
  /\ waiting = {}
  /\ lost = Nil
  /\ rides = <<>>
  /\ matchRides = <<>>
  /\ found = <<>>
  /\ drivers = <<>>
  /\ rows = FALSE
  /\ opened = Nil
  /\ fault = Nil

Running(s) == fault = Nil /\ stage = s
GroupIsDone == waiting = {} /\ lost = Nil

\* The deferred block of viewWillAppear asks for the users of the other role.
RunBlock ==
  /\ Running("queued")
  /\ stage' = "query"
  /\ UNCHANGED <<committed, at, waiting, lost, rides, matchRides, found, drivers,
                 rows, opened, fault>>

\* fetchRides enters its group once for each user listed.
AnswerQuery ==
  /\ Running("query") /\ lost = Nil
  /\ stage' = "rides"
  /\ waiting' = {v \in Others : Has(v, "marker")}
  /\ UNCHANGED <<committed, at, lost, rides, matchRides, found, drivers, rows,
                 opened, fault>>

\* The ride of one user.  Whether it has the places and the time of the ride
\* on show is left open.
AnswerRide(v) ==
  /\ Running("rides") /\ v \in waiting
  /\ Has(v, "ride")
  /\ waiting' = waiting \ {v}
  /\ rides' \in {rides, Append(rides, v)}
  /\ UNCHANGED <<committed, at, stage, lost, matchRides, found, drivers, rows,
                 opened, fault>>

\* Without a document the group is never left.
MissRide(v) ==
  /\ Running("rides") /\ v \in waiting
  /\ ~ Has(v, "ride")
  /\ waiting' = waiting \ {v}
  /\ lost' = "document"
  /\ UNCHANGED <<committed, at, stage, rides, matchRides, found, drivers, rows,
                 opened, fault>>

\* Mutant of Match: without matches nothing is fetched nor shown.
MatchIfAny ==
  /\ Running("rides") /\ GroupIsDone /\ rides # <<>>
  /\ stage' = "drivers"
  /\ matchRides' = matchRides \o rides
  /\ waiting' = ToSet(matchRides')
  /\ UNCHANGED <<committed, at, lost, rides, found, drivers, rows, opened, fault>>

\* match: the rides that match are appended to those of the controller, and
\* the user of each of them is fetched.
Match ==
  /\ Running("rides") /\ GroupIsDone
  /\ stage' = "drivers"
  /\ matchRides' = matchRides \o rides
  /\ waiting' = ToSet(matchRides')
  /\ UNCHANGED <<committed, at, lost, rides, found, drivers, rows, opened, fault>>

\* fetchDriver: the document of one user...
AnswerDriver(v) ==
  /\ Running("drivers") /\ v \in waiting
  /\ Has(v, "user")
  /\ waiting' = waiting \ {v}
  /\ found' = Append(found, v)
  /\ UNCHANGED <<committed, at, stage, lost, rides, matchRides, drivers, rows,
                 opened, fault>>

\* ... whose fields are unwrapped even if there is none.
MissDriver(v) ==
  /\ Running("drivers") /\ v \in waiting
  /\ ~ Has(v, "user")
  /\ fault' = "user"
  /\ UNCHANGED <<committed, at, load, opened>>

\* Mutant of ShowDrivers: what has come by now is shown.
ShowDriversEarly ==
  /\ Running("drivers") /\ lost = Nil
  /\ stage' = "images"
  /\ drivers' = found
  /\ waiting' = ToSet(found)
  /\ UNCHANGED <<committed, at, lost, rides, matchRides, found, rows, opened, fault>>

\* The completion of match: a photo is downloaded for each user.
ShowDrivers ==
  /\ Running("drivers") /\ GroupIsDone
  /\ stage' = "images"
  /\ drivers' = found
  /\ waiting' = ToSet(found)
  /\ UNCHANGED <<committed, at, lost, rides, matchRides, found, rows, opened, fault>>

\* Everybody is registered with the same photo, so that the loop that looks
\* for its place ends at the last user; the array has MaxImages places.
AnswerImage(v) ==
  /\ Running("images") /\ v \in waiting
  /\ Len(drivers) <= MaxImages
  /\ waiting' = waiting \ {v}
  /\ UNCHANGED <<committed, at, stage, lost, rides, matchRides, found, drivers,
                 rows, opened, fault>>

MissPlace(v) ==
  /\ Running("images") /\ v \in waiting
  /\ Len(drivers) > MaxImages
  /\ fault' = "place"
  /\ UNCHANGED <<committed, at, load, opened>>

\* The outer group is done: the rows appear and the indicator stops.
Notify ==
  /\ Running("images") /\ GroupIsDone
  /\ stage' = "shown"
  /\ rows' = TRUE
  /\ UNCHANGED <<committed, at, waiting, lost, rides, matchRides, found, drivers,
                 opened, fault>>

\* A failed read leaves no group; a failed download is unwrapped.
FailQuery ==
  /\ Running("query") /\ lost = Nil
  /\ lost' = "error"
  /\ UNCHANGED <<committed, at, stage, waiting, rides, matchRides, found, drivers,
                 rows, opened, fault>>

FailRead(v) ==
  /\ fault = Nil /\ stage \in {"rides", "drivers"} /\ v \in waiting
  /\ waiting' = waiting \ {v}
  /\ lost' = "error"
  /\ UNCHANGED <<committed, at, stage, rides, matchRides, found, drivers, rows,
                 opened, fault>>

FailImage ==
  /\ Running("images") /\ waiting # {}
  /\ fault' = "photo"
  /\ UNCHANGED <<committed, at, load, opened>>

-----------------------------------------------------------------------------
(* The user. *)

\* Mutant of DidSelectRow: the rows are counted from the title row.
SelectNextRow(i) ==
  /\ at = "list" /\ fault = Nil /\ rows
  /\ at' = "driver"
  /\ opened' = [driver |-> drivers[i], ride |-> IF i = 1 THEN Nil ELSE matchRides[i - 1]]
  /\ UNCHANGED <<committed, load, fault>>

\* The row of a match: its user is taken from one array, its ride from another.
DidSelectRow(i) ==
  /\ at = "list" /\ fault = Nil /\ rows
  /\ at' = "driver"
  /\ opened' = [driver |-> drivers[i], ride |-> matchRides[i]]
  /\ UNCHANGED <<committed, load, fault>>

BackToMatch ==
  /\ at = "driver" /\ fault = Nil
  /\ at' = "list"
  /\ UNCHANGED <<committed, load, opened, fault>>

\* Leaving the list does not stop its load.
BackToHome ==
  /\ at = "list" /\ fault = Nil
  /\ at' = "home"
  /\ UNCHANGED <<committed, load, opened, fault>>

Load ==
  \/ RunBlock \/ AnswerQuery \/ Match \/ ShowDrivers \/ Notify
  \/ \E v \in Others :
       \/ AnswerRide(v) \/ MissRide(v) \/ AnswerDriver(v) \/ MissDriver(v)
       \/ AnswerImage(v) \/ MissPlace(v)

Next ==
  \/ Load \/ FailQuery \/ FailImage
  \/ BackToMatch \/ BackToHome
  \/ \E v \in Others : Register(v) \/ FailRead(v)
  \/ \E i \in DOMAIN drivers : DidSelectRow(i)

Spec == Init /\ [][Next]_vars

\* The main queue runs its blocks, and Firestore and the storage answer.
FairSpec == Spec /\ WF_vars(Load)

-----------------------------------------------------------------------------
(* Properties. *)

\* Every variable has its type; a row that is tapped opens a ride.
TypeOK ==
  /\ committed \in [Others -> 0..3]
  /\ at \in {"list", "driver", "home"}
  /\ stage \in Stages
  /\ waiting \subseteq Others
  /\ lost \in {Nil, "document", "error"} /\ rows \in BOOLEAN
  /\ rides \in Seq(Others) /\ matchRides \in Seq(Others)
  /\ found \in Seq(Others) /\ drivers \in Seq(Others)
  /\ opened \in {Nil} \cup [driver : Others, ride : Others]
  /\ fault \in {Nil, "user", "place", "photo"}

\* Once there are rows each match has exactly one, in any order of the
\* answers: nobody is shown who does not match, missing, or shown twice.
RowsAreTheMatches ==
  rows => /\ IsInjective(drivers)
          /\ ToSet(drivers) = ToSet(matchRides)

\* If the photos have their places, and are downloaded, the app can only crash
\* on a responsable: only these are listed with a ride, for a while, before
\* they have a document in "users".
EmployeesAreComplete ==
  fault \in {"user", "place"} /\ Len(matchRides) <= MaxImages
    => \E v \in ToSet(matchRides) : v \in Responsables

\* Without an error the list is lost, its indicator turning for good, only by
\* the answer about a user whose registration is half way: who has no ride yet but is
\* already listed.
LostToRegistrations ==
  [][lost' = "document" /\ lost' # lost => \E v \in Others : Registering(v)]_vars

\* The list gets its rows in time, for any number of matches, none included,
\* unless an answer is lost or the app crashes.
ListIsShown == <>(rows \/ lost # Nil \/ fault # Nil)

\* The comment of resquestButton, "Verifies if user already requested a ride
\* or not": the ride whose requests are looked at is that of the user on show.
OpenedRideIsTheDrivers == opened # Nil => opened.ride = opened.driver
=============================================================================
