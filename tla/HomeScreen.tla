----------------------------- MODULE HomeScreen -----------------------------
(***************************************************************************)
(* The Home screen of one phone (HomeViewController): five day buttons and *)
(* three cards, one per period of the day, filled by asynchronous loads.   *)
(*                                                                         *)
(* Everything runs on the main queue, so a handler, a deferred block or an *)
(* answer of Firestore is one step.  What interleaves are the loads: each  *)
(* press of a day button and each appearance of the screen starts one,     *)
(* they share the fields of the controller, and the answers to their reads *)
(* arrive in any order.  Of a ride only the day it was read for is kept.   *)
(***************************************************************************)
EXTENDS Naturals, Sequences

CONSTANTS Days,       \* days with a button, "Seg" to "Sex" in the app
          FirstDay,   \* the day selected by viewDidLoad, "Seg"
          Periods,    \* "Manhã", "Tarde", "Noite" in the app
          Nil,        \* an optional without value
          Loads,      \* bound on the loads under way at a time
          MayFail     \* whether checkUserType may get an error

ASSUME DayConstants == FirstDay \in Days /\ Nil \notin Days
ASSUME ThereArePeriods == Periods # {}
ASSUME Switches == MayFail \in BOOLEAN

VARIABLES at,        \* the screen on show
          weekDay,   \* self.weekDay
          selected,  \* buttons with isSelected
          typed,     \* whether self.type has its value
          rides,     \* rideManha, rideTarde and rideNoite
          rows,      \* whether self.rows has its value
          cards,     \* what the cells show since the last reloadData
          spinner,   \* whether the activity indicator is animating
          queue,     \* loads whose deferred block has not run, oldest first
          loads,     \* the loads under way
          handoff,   \* the ride and the day given to the list of matches
          fault,     \* what the app has crashed on
          hasty      \* whether the user ever acted while the indicator turned

screen == <<at, selected, typed, rides, cards, fault>>
vars == <<at, weekDay, selected, typed, rides, rows, cards, spinner, queue,
          loads, handoff, fault, hasty>>

-----------------------------------------------------------------------------
(* Loads. *)

\* queued -> [type ->] rides -> notify.  A ride that cannot be read is one
\* that is never answered: fetchDailyRide then never calls its completion.
Stages == {"idle", "queued", "type", "rides", "notify"}

\* button is the day of the button that started the load, Nil for a load of
\* viewWillAppear or backToHome; waiting has the periods not yet answered.
Load == [stage : Stages, button : Days \cup {Nil}, day : Days \cup {Nil},
         waiting : SUBSET Periods]
Idle == [stage |-> "idle", button |-> Nil, day |-> Nil, waiting |-> {}]

Busy == \E l \in Loads : loads[l].stage # "idle"
IsFull(l) == loads[l].button = Nil

\* A handler starts the indicator and defers a block: dispatchQueue.async and
\* then addOperation on the main queue, which keeps the blocks in order.
Start(l, button) ==
  /\ loads[l].stage = "idle"
  /\ loads' = [loads EXCEPT ![l] = [stage |-> "queued", button |-> button,
                                    day |-> Nil, waiting |-> {}]]
  /\ queue' = Append(queue, l)
  /\ spinner' = TRUE

\* loads with load l at a stage, with the day it reads and what it awaits.
MoveTo(l, stage, day, waiting) ==
  [loads EXCEPT ![l] = [stage |-> stage, button |-> loads[l].button,
                        day |-> day, waiting |-> waiting]]

\* The three fetchDailyRide of a load, all for the day current right now.
FetchDailyRides(l) == MoveTo(l, "rides", weekDay, Periods)

-----------------------------------------------------------------------------
(* The user's side. *)

\* An action of the user on Home, which does not lock while it loads; hasty
\* is a history, read by properties only.
UserActs == fault = Nil /\ hasty' = (hasty \/ spinner)

Init ==
  /\ at = "launch"
  /\ weekDay = FirstDay
  /\ selected = {FirstDay}
  /\ typed = FALSE
  /\ rides = [p \in Periods |-> Nil]
  /\ rows = FALSE
  /\ cards = [p \in Periods |-> Nil]
  /\ spinner = FALSE
  /\ queue = <<>>
  /\ loads = [l \in Loads |-> Idle]
  /\ handoff = Nil
  /\ fault = Nil
  /\ hasty = FALSE

DayButtonsPressed(l, d) ==
  /\ at = "home" /\ UserActs
  /\ selected' = IF d \in selected THEN selected \ {d} ELSE selected \cup {d}
  /\ weekDay' = d
  /\ Start(l, d)
  /\ UNCHANGED <<at, typed, rides, rows, cards, handoff, fault>>

\* viewWillAppear: at launch, and when the user comes back from the other tab.
ViewWillAppear(l) ==
  /\ fault = Nil
  /\ ~ rows
  /\ Start(l, Nil)

Launch(l) ==
  /\ at = "launch"
  /\ at' = "home"
  /\ ViewWillAppear(l)
  /\ UNCHANGED <<weekDay, selected, typed, rides, rows, cards, handoff, fault,
                 hasty>>

LeaveTab ==
  /\ at = "home" /\ UserActs
  /\ at' = "tab"
  /\ UNCHANGED <<weekDay, selected, typed, rides, rows, cards, spinner, queue,
                 loads, handoff, fault>>

ReturnToTab(l) ==
  /\ at = "tab" /\ fault = Nil
  /\ at' = "home"
  /\ \/ ViewWillAppear(l)
     \/ rows /\ UNCHANGED <<loads, queue, spinner>>
  /\ UNCHANGED <<weekDay, selected, typed, rides, rows, cards, handoff, fault,
                 hasty>>

\* Mutant of DidSelectRow: no cells are needed.
SelectWithoutRows(p) ==
  /\ at = "home" /\ UserActs
  /\ handoff' = [ride |-> rides[p], day |-> weekDay]
  /\ at' = "match"
  /\ UNCHANGED <<weekDay, selected, typed, rides, rows, cards, spinner, queue,
                 loads, fault>>

\* A card is tapped: the ride of the field and the current day are handed on.
DidSelectRow(p) ==
  /\ at = "home" /\ UserActs
  /\ rows
  /\ handoff' = [ride |-> rides[p], day |-> weekDay]
  /\ at' = "match"
  /\ UNCHANGED <<weekDay, selected, typed, rides, rows, cards, spinner, queue,
                 loads, fault>>

\* Back from the list of matches: the unwind always starts a load.
BackToHome(l) ==
  /\ at = "match" /\ fault = Nil
  /\ at' = "home"
  /\ handoff' = Nil
  /\ Start(l, Nil)
  /\ UNCHANGED <<weekDay, selected, typed, rides, rows, cards, fault, hasty>>

-----------------------------------------------------------------------------
(* The main queue and the answers. *)

\* Mutant of ButtonDesign: the other buttons are left alone.
KeepOthers(d) == selected

\* The design of the buttons: the pressed one alone if it is selected.
ButtonDesign(d) == IF d \in selected THEN {d} ELSE selected

\* The deferred block of a press reads for the day current by now and redraws
\* the buttons...
RunButtonBlock(l) ==
  /\ fault = Nil /\ queue # <<>> /\ l = Head(queue) /\ ~ IsFull(l)
  /\ typed
  /\ queue' = Tail(queue)
  /\ loads' = FetchDailyRides(l)
  /\ selected' = ButtonDesign(loads[l].button)
  /\ UNCHANGED <<at, weekDay, typed, rides, rows, cards, spinner, handoff,
                 fault, hasty>>

\* ... and crashes on self.type if no load has found it yet.
UnwrapType(l) ==
  /\ fault = Nil /\ queue # <<>> /\ l = Head(queue) /\ ~ IsFull(l)
  /\ ~ typed
  /\ fault' = "type"
  /\ UNCHANGED <<at, weekDay, selected, typed, rides, rows, cards, spinner,
                 queue, loads, handoff, hasty>>

\* The deferred block of an appearance asks for the user's type.
RunAppearBlock(l) ==
  /\ fault = Nil /\ queue # <<>> /\ l = Head(queue) /\ IsFull(l)
  /\ queue' = Tail(queue)
  /\ loads' = MoveTo(l, "type", Nil, {})
  /\ UNCHANGED <<screen, weekDay, rows, spinner, handoff, hasty>>

AnswerType(l) ==
  /\ fault = Nil /\ loads[l].stage = "type"
  /\ typed' = TRUE
  /\ loads' = FetchDailyRides(l)
  /\ UNCHANGED <<at, weekDay, selected, rides, rows, cards, spinner, queue,
                 handoff, fault, hasty>>

\* checkUserType unwraps the document that a failed read does not have.
FailType(l) ==
  /\ MayFail
  /\ fault = Nil /\ loads[l].stage = "type"
  /\ fault' = "document"
  /\ UNCHANGED <<at, weekDay, selected, typed, rides, rows, cards, spinner,
                 queue, loads, handoff, hasty>>

\* Mutants of AnswerRide: the group is entered once for the three reads, or
\* never left.
NotifyAtFirst(l, p) ==
  /\ fault = Nil /\ loads[l].stage = "rides" /\ p \in loads[l].waiting
  /\ rides' = [rides EXCEPT ![p] = loads[l].day]
  /\ loads' = MoveTo(l, "notify", loads[l].day, loads[l].waiting \ {p})
  /\ UNCHANGED <<at, weekDay, selected, typed, rows, cards, spinner, queue,
                 handoff, fault, hasty>>
NeverLeave(l, p) ==
  /\ fault = Nil /\ loads[l].stage = "rides" /\ p \in loads[l].waiting
  /\ rides' = [rides EXCEPT ![p] = loads[l].day]
  /\ loads' = MoveTo(l, "rides", loads[l].day, loads[l].waiting \ {p})
  /\ UNCHANGED <<at, weekDay, selected, typed, rows, cards, spinner, queue,
                 handoff, fault, hasty>>

\* One answer of fetchDailyRide; the last one schedules the notify block.
AnswerRide(l, p) ==
  /\ fault = Nil /\ loads[l].stage = "rides" /\ p \in loads[l].waiting
  /\ rides' = [rides EXCEPT ![p] = loads[l].day]
  /\ LET rest == loads[l].waiting \ {p}
     IN  loads' = MoveTo(l, IF rest = {} THEN "notify" ELSE "rides",
                         loads[l].day, rest)
  /\ UNCHANGED <<at, weekDay, selected, typed, rows, cards, spinner, queue,
                 handoff, fault, hasty>>

\* Mutant of Notify: without reloadData.
NotifyWithoutReload(l) ==
  /\ fault = Nil /\ loads[l].stage = "notify"
  /\ rows' = (rows \/ IsFull(l))
  /\ cards' = IF rows THEN cards ELSE rides
  /\ spinner' = FALSE
  /\ loads' = [loads EXCEPT ![l] = Idle]
  /\ UNCHANGED <<at, weekDay, selected, typed, rides, queue, handoff, fault,
                 hasty>>

\* group.notify: the load of an appearance sets rows, and the cells, if there
\* are any, are filled from the three rides.
Notify(l) ==
  /\ fault = Nil /\ loads[l].stage = "notify"
  /\ rows' = (rows \/ IsFull(l))
  /\ cards' = IF rows' THEN rides ELSE cards
  /\ spinner' = FALSE
  /\ loads' = [loads EXCEPT ![l] = Idle]
  /\ UNCHANGED <<at, weekDay, selected, typed, rides, queue, handoff, fault,
                 hasty>>

UserStep ==
  \/ LeaveTab
  \/ \E p \in Periods : DidSelectRow(p)
  \/ \E l \in Loads :
       Launch(l) \/ ReturnToTab(l) \/ BackToHome(l)
         \/ \E d \in Days : DayButtonsPressed(l, d)

Advance(l) ==
  \/ RunButtonBlock(l) \/ RunAppearBlock(l) \/ UnwrapType(l)
  \/ AnswerType(l) \/ Notify(l)
  \/ \E p \in Periods : AnswerRide(l, p)

Next ==
  \/ UserStep
  \/ \E l \in Loads : Advance(l) \/ FailType(l)

Spec == Init /\ [][Next]_vars

\* The main queue runs its blocks and Firestore answers.
FairSpec == Spec /\ \A l \in Loads : WF_vars(Advance(l))

-----------------------------------------------------------------------------
(* Properties. *)

\* Every variable has its type; a ride is handed on only if there is one.
TypeOK ==
  /\ at \in {"launch", "home", "tab", "match"}
  /\ weekDay \in Days
  /\ selected \subseteq Days
  /\ typed \in BOOLEAN /\ rows \in BOOLEAN /\ spinner \in BOOLEAN
  /\ rides \in [Periods -> Days \cup {Nil}]
  /\ cards \in [Periods -> Days \cup {Nil}]
  /\ queue \in Seq(Loads)
  /\ loads \in [Loads -> Load]
  /\ handoff \in {Nil} \cup [ride : Days, day : Days]
  /\ fault \in {Nil, "type", "document"}
  /\ hasty \in BOOLEAN

\* Once there are cells, what they unwrap (cellForRow, didSelectRow) and what
\* the day buttons unwrap has a value, whatever loads overlap: the group of a
\* load that sets rows is left only after all its answers.
RowsHaveRides == rows => typed /\ \A p \in Periods : rides[p] # Nil

\* Of two selected buttons one has a press whose block is yet to run: a burst
\* of presses may leave the wrong button selected, but never two of them.
AtMostOneSelected ==
  \A x, y \in selected :
    x # y => \E i \in 1..Len(queue) : loads[queue[i]].button \in {x, y}

\* The indicator never turns without a load that will stop it.
SpinnerMeansLoad == spinner => Busy

\* A user who waits for the indicator (viewWillAppear, dayButtonsPressed) sees
\* cards of the day last pressed whenever it is still, in any order of the
\* answers, and opens the list of matches with a ride of the day it is told.
PatientUserSeesItsDay ==
  ~ hasty => /\ rows /\ ~ spinner => \A p \in Periods : cards[p] = weekDay
             /\ at = "match" => handoff.ride = handoff.day

\* The indicator stops in time unless the app crashes, even if the user never
\* stops pressing buttons and changing tabs.
SpinnerStops == spinner ~> (~ spinner \/ fault # Nil)

\* The comment of viewWillAppear, "fetch daily rides to populate cards", for
\* a user who does not wait: once no load is under way, the cards are those
\* of self.weekDay.
CardsSettle == rows /\ ~ Busy => \A p \in Periods : cards[p] = weekDay
=============================================================================
