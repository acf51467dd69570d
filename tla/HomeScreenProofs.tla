-------------------------- MODULE HomeScreenProofs --------------------------
(***************************************************************************)
(* Proofs about HomeScreen, for every set of days, periods and loads.      *)
(*                                                                         *)
(* The inductive invariant adds to the properties what the loads under way *)
(* owe to each other: the queue has each waiting load once (QueueOK), and  *)
(* a load that has begun to read has a type, and a ride for every period   *)
(* that is no longer awaited (LoadsOK).  PatientInv is the part that holds *)
(* for a user who waits for the indicator.                                 *)
(***************************************************************************)
EXTENDS HomeScreen, TLAPS

QueueOK ==
  /\ \A i \in 1..Len(queue) : loads[queue[i]].stage = "queued"
  /\ \A i, j \in 1..Len(queue) : queue[i] = queue[j] => i = j

LoadsOK ==
  \A l \in Loads :
    /\ loads[l].stage = "rides" =>
         typed /\ loads[l].day \in Days
           /\ \A p \in Periods \ loads[l].waiting : rides[p] # Nil
    /\ loads[l].stage = "notify" =>
         typed /\ \A p \in Periods : rides[p] # Nil

Inv == TypeOK /\ QueueOK /\ LoadsOK /\ RowsHaveRides /\ AtMostOneSelected
         /\ SpinnerMeansLoad

\* At first there is no load, no row, and one selected button.
LEMMA InitInv == Init => Inv
<1>1. SUFFICES ASSUME Init PROVE Inv
  OBVIOUS
<1>2. Idle \in Load
  BY DEF Idle, Load, Stages
<1>3. TypeOK
  <2>1. rides \in [Periods -> Days \cup {Nil}] /\ cards \in [Periods -> Days \cup {Nil}]
    BY <1>1 DEF Init
  <2>2. loads \in [Loads -> Load]
    BY <1>1, <1>2 DEF Init
  <2>3. queue \in Seq(Loads)
    BY <1>1 DEF Init
  <2>4. selected \subseteq Days /\ weekDay \in Days
    BY <1>1, DayConstants DEF Init
  <2>5. /\ at \in {"launch", "home", "tab", "match"}
        /\ typed \in BOOLEAN /\ rows \in BOOLEAN /\ spinner \in BOOLEAN
        /\ handoff \in {Nil} \cup [ride : Days, day : Days]
        /\ fault \in {Nil, "type", "document"}
        /\ hasty \in BOOLEAN
    BY <1>1 DEF Init
  <2>6. QED
    BY <2>1, <2>2, <2>3, <2>4, <2>5 DEF TypeOK
<1>4. QueueOK /\ LoadsOK /\ RowsHaveRides /\ AtMostOneSelected /\ SpinnerMeansLoad
  BY <1>1 DEF Init, QueueOK, LoadsOK, RowsHaveRides, AtMostOneSelected,
              SpinnerMeansLoad, Idle
<1>5. QED
  BY <1>3, <1>4 DEF Inv

\* Starting a load keeps what concerns the loads, and adds its button to those
\* with a press to come.
LEMMA StartOK ==
  ASSUME Inv, NEW l \in Loads, NEW button \in Days \cup {Nil}, Start(l, button),
         UNCHANGED <<typed, rides>>
  PROVE  /\ queue' \in Seq(Loads) /\ loads' \in [Loads -> Load]
         /\ QueueOK' /\ LoadsOK' /\ spinner' = TRUE /\ Busy'
         /\ \A i \in 1..Len(queue) :
              i \in 1..Len(queue') /\ queue'[i] = queue[i]
                /\ loads'[queue'[i]].button = loads[queue[i]].button
         /\ \E i \in 1..Len(queue') : loads'[queue'[i]].button = button
<1> DEFINE new == [stage |-> "queued", button |-> button, day |-> Nil, waiting |-> {}]
<1>1. /\ loads[l].stage = "idle"
      /\ loads' = [loads EXCEPT ![l] = new]
      /\ queue' = Append(queue, l)
      /\ spinner' = TRUE
      /\ queue \in Seq(Loads) /\ loads \in [Loads -> Load]
  BY DEF Start, Inv, TypeOK
<1>2. new \in Load
  BY DEF Load, Stages
<1>3. /\ queue' \in Seq(Loads) /\ Len(queue') = Len(queue) + 1 /\ Len(queue) \in Nat
      /\ queue'[Len(queue) + 1] = l
      /\ \A i \in 1..Len(queue) : queue'[i] = queue[i] /\ queue[i] \in Loads
  BY <1>1
<1>4. /\ loads' \in [Loads -> Load] /\ loads'[l] = new
      /\ \A k \in Loads : k # l => loads'[k] = loads[k]
  BY <1>1, <1>2
<1>5. \A i \in 1..Len(queue) : queue[i] # l
  BY <1>1 DEF Inv, QueueOK
<1>6. \A i \in 1..Len(queue') : i \in 1..Len(queue) \/ i = Len(queue) + 1
  BY <1>3
<1>7. QueueOK'
  <2>1. \A i \in 1..Len(queue') : loads'[queue'[i]].stage = "queued"
    BY <1>3, <1>4, <1>5, <1>6 DEF Inv, QueueOK
  <2>2. ASSUME NEW i \in 1..Len(queue'), NEW j \in 1..Len(queue'), queue'[i] = queue'[j]
        PROVE  i = j
    BY <1>3, <1>5, <1>6, <2>2 DEF Inv, QueueOK
  <2>3. QED
    BY <2>1, <2>2 DEF QueueOK
<1>8. LoadsOK'
  BY <1>4 DEF Inv, LoadsOK
<1>9. Busy'
  BY <1>4 DEF Busy
<1>10. \E i \in 1..Len(queue') : loads'[queue'[i]].button = button
  <2>1. Len(queue) + 1 \in 1..Len(queue')
    BY <1>3
  <2>2. QED
    BY <1>3, <1>4, <2>1
<1>11. QED
  BY <1>1, <1>3, <1>4, <1>5, <1>7, <1>8, <1>9, <1>10

\* A load that waits in the queue leaves it from the front.
LEMMA DequeueOK ==
  ASSUME Inv, queue # <<>>, queue' = Tail(queue)
  PROVE  /\ Head(queue) \in Loads /\ queue' \in Seq(Loads)
         /\ Head(queue) = queue[1] /\ 1 \in 1..Len(queue)
         /\ \A i \in 1..Len(queue') :
              i + 1 \in 1..Len(queue) /\ queue'[i] = queue[i + 1] /\ queue'[i] # Head(queue)
         /\ \A i \in 1..Len(queue) :
              i # 1 => i - 1 \in 1..Len(queue') /\ queue'[i - 1] = queue[i]
         /\ \A i, j \in 1..Len(queue') : queue'[i] = queue'[j] => i = j
<1>1. queue \in Seq(Loads) /\ Len(queue) \in Nat
  BY DEF Inv, TypeOK
<1>2. /\ Head(queue) \in Loads /\ queue' \in Seq(Loads)
      /\ Head(queue) = queue[1] /\ 1 \in 1..Len(queue)
      /\ Len(queue') = Len(queue) - 1
      /\ \A i \in 1..Len(queue') : queue'[i] = queue[i + 1]
  BY <1>1
<1>3. \A i \in 1..Len(queue') : i + 1 \in 1..Len(queue) /\ i + 1 # 1
  BY <1>1, <1>2
<1>4. \A i \in 1..Len(queue') : queue'[i] # Head(queue)
  BY <1>2, <1>3 DEF Inv, QueueOK
<1>5. \A i \in 1..Len(queue) : i # 1 => i - 1 \in 1..Len(queue') /\ (i - 1) + 1 = i
  BY <1>1, <1>2
<1>6. ASSUME NEW i \in 1..Len(queue'), NEW j \in 1..Len(queue'), queue'[i] = queue'[j]
      PROVE  i = j
  <2>1. i + 1 = j + 1
    BY <1>2, <1>3, <1>6 DEF Inv, QueueOK
  <2>2. QED
    BY <2>1
<1>7. QED
  BY <1>2, <1>3, <1>4, <1>5, <1>6

\* A handler that starts a load, and keeps the buttons or selects its own,
\* keeps all of the invariant but the types.
LEMMA StartInv ==
  ASSUME Inv, NEW l \in Loads, NEW button \in Days \cup {Nil}, Start(l, button),
         selected' \subseteq selected \cup ({button} \cap Days),
         UNCHANGED <<typed, rides, rows>>
  PROVE  /\ QueueOK' /\ LoadsOK' /\ RowsHaveRides' /\ AtMostOneSelected'
         /\ SpinnerMeansLoad' /\ spinner' \in BOOLEAN
         /\ queue' \in Seq(Loads) /\ loads' \in [Loads -> Load]
<1>1. /\ queue' \in Seq(Loads) /\ loads' \in [Loads -> Load]
      /\ QueueOK' /\ LoadsOK' /\ spinner' = TRUE /\ Busy'
  BY StartOK
<1>2. RowsHaveRides'
  BY DEF Inv, RowsHaveRides
<1>3. AtMostOneSelected'
  <2>1. SUFFICES ASSUME NEW x \in selected', NEW y \in selected', x # y
                 PROVE  \E i \in 1..Len(queue') : loads'[queue'[i]].button \in {x, y}
    BY DEF AtMostOneSelected
  <2>2. CASE x \in selected /\ y \in selected
    <3>1. PICK i \in 1..Len(queue) : loads[queue[i]].button \in {x, y}
      BY <2>1, <2>2 DEF Inv, AtMostOneSelected
    <3>2. i \in 1..Len(queue') /\ loads'[queue'[i]].button = loads[queue[i]].button
      BY StartOK
    <3>3. QED
      BY <3>1, <3>2
  <2>3. CASE x = button \/ y = button
    <3>1. \E i \in 1..Len(queue') : loads'[queue'[i]].button = button
      BY StartOK
    <3>2. QED
      BY <2>3, <3>1
  <2>4. QED
    BY <2>1, <2>2, <2>3
<1>4. SpinnerMeansLoad'
  BY <1>1 DEF SpinnerMeansLoad
<1>5. QED
  BY <1>1, <1>2, <1>3, <1>4

\* The history hasty stays a truth value, and only the user changes it.
LEMMA HastyOK == ASSUME TypeOK, UserStep PROVE hasty' \in BOOLEAN
<1>1. hasty \in BOOLEAN /\ spinner \in BOOLEAN
  BY DEF TypeOK
<1>2. hasty' = hasty \/ hasty' = (hasty \/ spinner)
  BY DEF UserStep, UserActs, LeaveTab, DidSelectRow, Launch, ReturnToTab, BackToHome,
         DayButtonsPressed
<1>3. QED
  BY <1>1, <1>2

LEMMA AdvanceKeepsHasty ==
  ASSUME NEW l \in Loads, Advance(l) \/ FailType(l)
  PROVE  UNCHANGED hasty
BY DEF Advance, FailType, RunButtonBlock, RunAppearBlock, UnwrapType, AnswerType,
       AnswerRide, Notify

\* Every action of the user keeps the invariant.
LEMMA UserInv == ASSUME Inv, UserStep PROVE Inv'
<1>0. TypeOK /\ hasty' \in BOOLEAN
  BY HastyOK DEF Inv
<1>1. ASSUME NEW l \in Loads, NEW d \in Days, DayButtonsPressed(l, d)
      PROVE  Inv'
  <2>1. /\ Start(l, d) /\ weekDay' = d
        /\ selected' \subseteq selected \cup {d}
        /\ UNCHANGED <<at, typed, rides, rows, cards, handoff, fault>>
    BY <1>1 DEF DayButtonsPressed
  <2>2. d \in Days \cup {Nil} /\ {d} = {d} \cap Days
    OBVIOUS
  <2>3. /\ QueueOK' /\ LoadsOK' /\ RowsHaveRides' /\ AtMostOneSelected'
        /\ SpinnerMeansLoad' /\ spinner' \in BOOLEAN
        /\ queue' \in Seq(Loads) /\ loads' \in [Loads -> Load]
    BY <2>1, <2>2, StartInv
  <2>4. TypeOK'
    BY <1>0, <2>1, <2>3 DEF TypeOK
  <2>5. QED
    BY <2>3, <2>4 DEF Inv
<1>2. ASSUME NEW l \in Loads, Start(l, Nil), at' \in {"home"}, handoff' \in {Nil, handoff},
             UNCHANGED <<weekDay, selected, typed, rides, rows, cards, fault>>
      PROVE  Inv'
  <2>1. Nil \in Days \cup {Nil} /\ selected' \subseteq selected \cup ({Nil} \cap Days)
    BY <1>2
  <2>2. /\ QueueOK' /\ LoadsOK' /\ RowsHaveRides' /\ AtMostOneSelected'
        /\ SpinnerMeansLoad' /\ spinner' \in BOOLEAN
        /\ queue' \in Seq(Loads) /\ loads' \in [Loads -> Load]
    BY <1>2, <2>1, StartInv
  <2>3. TypeOK'
    BY <1>0, <1>2, <2>2 DEF TypeOK
  <2>4. QED
    BY <2>2, <2>3 DEF Inv
<1>3. ASSUME at' \in {"home", "tab", "match"},
             handoff' \in {Nil} \cup [ride : Days, day : Days],
             UNCHANGED <<weekDay, selected, typed, rides, rows, cards, spinner,
                         queue, loads, fault>>
      PROVE  Inv'
  <2>1. TypeOK'
    BY <1>0, <1>3 DEF TypeOK
  <2>2. QueueOK' /\ LoadsOK' /\ RowsHaveRides'
    BY <1>3 DEF Inv, QueueOK, LoadsOK, RowsHaveRides
  <2>3. AtMostOneSelected' /\ SpinnerMeansLoad'
    BY <1>3 DEF Inv, AtMostOneSelected, SpinnerMeansLoad, Busy
  <2>4. QED
    BY <2>1, <2>2, <2>3 DEF Inv
<1>4. handoff \in {Nil} \cup [ride : Days, day : Days]
  BY <1>0 DEF TypeOK
<1>5. CASE LeaveTab
  <2>1. /\ at' = "tab"
        /\ UNCHANGED <<weekDay, selected, typed, rides, rows, cards, spinner, queue,
                       loads, handoff, fault>>
    BY <1>5 DEF LeaveTab
  <2>2. QED
    BY <1>3, <1>4, <2>1
<1>6. ASSUME NEW p \in Periods, DidSelectRow(p) PROVE Inv'
  <2>1. /\ rows /\ at' = "match" /\ handoff' = [ride |-> rides[p], day |-> weekDay]
        /\ UNCHANGED <<weekDay, selected, typed, rides, rows, cards, spinner, queue,
                       loads, fault>>
    BY <1>6 DEF DidSelectRow
  <2>2. rides[p] \in Days /\ weekDay \in Days
    BY <1>0, <2>1 DEF Inv, RowsHaveRides, TypeOK
  <2>3. QED
    BY <1>3, <2>1, <2>2
<1>7. ASSUME NEW l \in Loads, Launch(l) PROVE Inv'
  BY <1>2, <1>7 DEF Launch, ViewWillAppear
<1>8. ASSUME NEW l \in Loads, ReturnToTab(l) PROVE Inv'
  <2>1. CASE ViewWillAppear(l)
    BY <1>2, <1>8, <2>1 DEF ReturnToTab, ViewWillAppear
  <2>2. CASE UNCHANGED <<loads, queue, spinner>>
    BY <1>3, <1>4, <1>8, <2>2 DEF ReturnToTab
  <2>3. QED
    BY <1>8, <2>1, <2>2 DEF ReturnToTab
<1>9. ASSUME NEW l \in Loads, BackToHome(l) PROVE Inv'
  BY <1>2, <1>9 DEF BackToHome
<1>10. QED
  BY <1>1, <1>5, <1>6, <1>7, <1>8, <1>9 DEF UserStep

\* A block that leaves the queue: its load is no longer queued, the others
\* are as they were, and the buttons with a press to come are still there.
LEMMA DequeueInv ==
  ASSUME Inv, queue # <<>>, queue' = Tail(queue), NEW l \in Loads, l = Head(queue),
         NEW load \in Load, loads' = [loads EXCEPT ![l] = load],
         load.stage # "idle",
         load.stage = "rides" => typed /\ load.day \in Days /\ load.waiting = Periods,
         load.stage # "notify",
         selected' \subseteq selected, UNCHANGED <<typed, rides, rows, spinner>>,
         \A x, y \in selected' : x # y => loads[l].button \notin {x, y}
  PROVE  /\ QueueOK' /\ LoadsOK' /\ RowsHaveRides' /\ AtMostOneSelected'
         /\ SpinnerMeansLoad' /\ queue' \in Seq(Loads) /\ loads' \in [Loads -> Load]
<1>1. /\ loads \in [Loads -> Load] /\ queue \in Seq(Loads)
      /\ loads' \in [Loads -> Load] /\ queue' \in Seq(Loads)
      /\ loads'[l] = load /\ \A k \in Loads : k # l => loads'[k] = loads[k]
  BY DequeueOK DEF Inv, TypeOK
<1>2. \A i \in 1..Len(queue) : queue[i] \in Loads
  BY <1>1
<1>3. \A i \in 1..Len(queue') : queue'[i] \in Loads /\ queue'[i] # l
  BY <1>1, DequeueOK
<1>4. QueueOK'
  <2>1. \A i \in 1..Len(queue') : loads'[queue'[i]].stage = "queued"
    <3>1. ASSUME NEW i \in 1..Len(queue') PROVE loads'[queue'[i]].stage = "queued"
      <4>1. i + 1 \in 1..Len(queue) /\ queue'[i] = queue[i + 1]
        BY DequeueOK
      <4>2. loads[queue[i + 1]].stage = "queued"
        BY <4>1 DEF Inv, QueueOK
      <4>3. QED
        BY <1>1, <1>3, <4>1, <4>2
    <3>2. QED
      BY <3>1
  <2>2. \A i, j \in 1..Len(queue') : queue'[i] = queue'[j] => i = j
    BY DequeueOK
  <2>3. QED
    BY <2>1, <2>2 DEF QueueOK
<1>5. LoadsOK'
  BY <1>1 DEF Inv, LoadsOK
<1>6. RowsHaveRides'
  BY DEF Inv, RowsHaveRides
<1>7. AtMostOneSelected'
  <2>1. SUFFICES ASSUME NEW x \in selected', NEW y \in selected', x # y
                 PROVE  \E i \in 1..Len(queue') : loads'[queue'[i]].button \in {x, y}
    BY DEF AtMostOneSelected
  <2>2. PICK i \in 1..Len(queue) : loads[queue[i]].button \in {x, y}
    BY <2>1 DEF Inv, AtMostOneSelected
  <2>3. queue[i] # l /\ i # 1
    BY <2>1, <2>2, DequeueOK
  <2>4. i - 1 \in 1..Len(queue') /\ queue'[i - 1] = queue[i]
    BY <2>3, DequeueOK
  <2>5. loads'[queue'[i - 1]].button \in {x, y}
    BY <1>1, <1>2, <2>2, <2>3, <2>4
  <2>6. QED
    BY <2>4, <2>5
<1>8. SpinnerMeansLoad'
  BY <1>1 DEF SpinnerMeansLoad, Busy
<1>9. QED
  BY <1>1, <1>4, <1>5, <1>6, <1>7, <1>8

\* An answer, or the end of a load: the load was not in the queue, so that
\* the queue and what it says about the buttons stay as they were.
LEMMA AnswerInv ==
  ASSUME Inv, NEW l \in Loads, loads[l].stage # "queued",
         NEW load \in Load, loads' = [loads EXCEPT ![l] = load],
         UNCHANGED <<queue, selected>>
  PROVE  /\ QueueOK' /\ AtMostOneSelected' /\ loads' \in [Loads -> Load]
         /\ loads'[l] = load /\ \A k \in Loads : k # l => loads'[k] = loads[k]
<1>1. /\ loads \in [Loads -> Load] /\ queue \in Seq(Loads)
  BY DEF Inv, TypeOK
<1>2. /\ loads' \in [Loads -> Load]
      /\ loads'[l] = load /\ \A k \in Loads : k # l => loads'[k] = loads[k]
  BY <1>1
<1>3. \A i \in 1..Len(queue) : queue[i] \in Loads /\ queue[i] # l
  BY <1>1 DEF Inv, QueueOK
<1>4. \A i \in 1..Len(queue) : loads'[queue[i]] = loads[queue[i]]
  BY <1>2, <1>3
<1>5. QueueOK'
  BY <1>4 DEF Inv, QueueOK
<1>6. AtMostOneSelected'
  BY <1>4 DEF Inv, AtMostOneSelected
<1>7. QED
  BY <1>2, <1>5, <1>6

\* Every block, answer and end of a load keeps the invariant.
LEMMA LoadInv == ASSUME Inv, NEW l \in Loads, Advance(l) \/ FailType(l) PROVE Inv'
<1>0. TypeOK /\ loads[l] \in Load /\ hasty' \in BOOLEAN
  <2>1. UNCHANGED hasty
    BY AdvanceKeepsHasty
  <2>2. QED
    BY <2>1 DEF Inv, TypeOK
<1>1. [stage |-> "rides", button |-> loads[l].button, day |-> weekDay,
       waiting |-> Periods] \in Load
  BY <1>0 DEF TypeOK, Load, Stages
<1>2. CASE RunButtonBlock(l)
  <2>1. /\ queue # <<>> /\ l = Head(queue) /\ queue' = Tail(queue) /\ typed
        /\ loads' = [loads EXCEPT ![l] =
                       [stage |-> "rides", button |-> loads[l].button, day |-> weekDay,
                        waiting |-> Periods]]
        /\ selected' = ButtonDesign(loads[l].button)
        /\ UNCHANGED <<at, weekDay, typed, rides, rows, cards, spinner, handoff, fault>>
    BY <1>2 DEF RunButtonBlock, FetchDailyRides, MoveTo
  <2>2. /\ selected' \subseteq selected
        /\ \A x, y \in selected' : x # y => loads[l].button \notin {x, y}
    BY <2>1 DEF ButtonDesign
  <2>3. weekDay \in Days
    BY <1>0 DEF TypeOK
  <2>4. /\ QueueOK' /\ LoadsOK' /\ RowsHaveRides' /\ AtMostOneSelected'
        /\ SpinnerMeansLoad' /\ queue' \in Seq(Loads) /\ loads' \in [Loads -> Load]
    BY <1>1, <2>1, <2>2, <2>3, DequeueInv
  <2>5. TypeOK'
    BY <1>0, <2>1, <2>2, <2>4 DEF TypeOK
  <2>6. QED
    BY <2>4, <2>5 DEF Inv
<1>3. CASE RunAppearBlock(l)
  <2> DEFINE load == [stage |-> "type", button |-> loads[l].button,
                      day |-> Nil, waiting |-> {}]
  <2>1. /\ queue # <<>> /\ l = Head(queue) /\ queue' = Tail(queue)
        /\ loads[l].button = Nil
        /\ loads' = [loads EXCEPT ![l] = load]
        /\ UNCHANGED <<screen, weekDay, rows, spinner, handoff>>
    BY <1>3 DEF RunAppearBlock, IsFull, MoveTo
  <2>2. load \in Load
    BY <1>0 DEF Load, Stages
  <2>3. selected \subseteq Days /\ UNCHANGED <<at, selected, typed, rides, cards, fault>>
    BY <1>0, <2>1 DEF TypeOK, screen
  <2>4. \A x, y \in selected' : x # y => loads[l].button \notin {x, y}
    BY <2>1, <2>3, DayConstants
  <2>5. load.stage = "type"
    OBVIOUS
  <2> HIDE DEF load
  <2>6. /\ QueueOK' /\ LoadsOK' /\ RowsHaveRides' /\ AtMostOneSelected'
        /\ SpinnerMeansLoad' /\ queue' \in Seq(Loads) /\ loads' \in [Loads -> Load]
    BY <2>1, <2>2, <2>3, <2>4, <2>5, DequeueInv
  <2>7. TypeOK'
    BY <1>0, <2>1, <2>3, <2>6 DEF TypeOK
  <2>8. QED
    BY <2>6, <2>7 DEF Inv
<1>4. CASE UnwrapType(l) \/ FailType(l)
  <2>1. /\ fault' \in {"type", "document"}
        /\ UNCHANGED <<at, weekDay, selected, typed, rides, rows, cards, spinner,
                       queue, loads, handoff>>
    BY <1>4 DEF UnwrapType, FailType
  <2>2. TypeOK'
    BY <1>0, <2>1 DEF TypeOK
  <2>3. QueueOK' /\ LoadsOK' /\ RowsHaveRides' /\ AtMostOneSelected' /\ SpinnerMeansLoad'
    BY <2>1 DEF Inv, QueueOK, LoadsOK, RowsHaveRides, AtMostOneSelected,
                SpinnerMeansLoad, Busy
  <2>4. QED
    BY <2>2, <2>3 DEF Inv
<1>5. CASE AnswerType(l)
  <2> DEFINE load == [stage |-> "rides", button |-> loads[l].button, day |-> weekDay,
                      waiting |-> Periods]
  <2>1. /\ loads[l].stage = "type" /\ typed' = TRUE
        /\ loads' = [loads EXCEPT ![l] = load]
        /\ UNCHANGED <<at, weekDay, selected, rides, rows, cards, spinner, queue,
                       handoff, fault>>
    BY <1>5 DEF AnswerType, FetchDailyRides, MoveTo
  <2>2. load \in Load
    BY <1>1
  <2>3. load.stage = "rides" /\ load.day \in Days /\ load.waiting = Periods
    BY <1>0 DEF TypeOK
  <2> HIDE DEF load
  <2>4. /\ QueueOK' /\ AtMostOneSelected' /\ loads' \in [Loads -> Load]
        /\ loads'[l] = load /\ \A k \in Loads : k # l => loads'[k] = loads[k]
    BY <2>1, <2>2, AnswerInv
  <2>5. LoadsOK' /\ RowsHaveRides'
    BY <2>1, <2>3, <2>4 DEF Inv, LoadsOK, RowsHaveRides
  <2>6. SpinnerMeansLoad'
    BY <2>3, <2>4 DEF SpinnerMeansLoad, Busy
  <2>7. TypeOK'
    BY <1>0, <2>1, <2>4 DEF TypeOK
  <2>8. QED
    BY <2>4, <2>5, <2>6, <2>7 DEF Inv
<1>6. ASSUME NEW p \in Periods, AnswerRide(l, p) PROVE Inv'
  <2> DEFINE rest == loads[l].waiting \ {p}
             stage == IF rest = {} THEN "notify" ELSE "rides"
             load == [stage |-> stage, button |-> loads[l].button,
                      day |-> loads[l].day, waiting |-> rest]
  <2>1. /\ loads[l].stage = "rides" /\ p \in loads[l].waiting
        /\ rides' = [rides EXCEPT ![p] = loads[l].day]
        /\ loads' = [loads EXCEPT ![l] = load]
        /\ UNCHANGED <<at, weekDay, selected, typed, rows, cards, spinner, queue,
                       handoff, fault>>
    BY <1>6 DEF AnswerRide, MoveTo
  <2>2. load \in Load
    BY <1>0 DEF Load, Stages
  <2>3. /\ load.stage \in {"rides", "notify"} /\ load.day = loads[l].day
        /\ load.waiting = loads[l].waiting \ {p}
        /\ load.stage = "notify" => load.waiting = {}
    OBVIOUS
  <2> HIDE DEF load
  <2>4. /\ QueueOK' /\ AtMostOneSelected' /\ loads' \in [Loads -> Load]
        /\ loads'[l] = load /\ \A k \in Loads : k # l => loads'[k] = loads[k]
    BY <2>1, <2>2, AnswerInv
  <2>5. /\ typed /\ loads[l].day \in Days /\ loads[l].day # Nil
        /\ \A q \in Periods \ loads[l].waiting : rides[q] # Nil
    BY <2>1, DayConstants DEF Inv, LoadsOK
  <2>6. /\ rides' \in [Periods -> Days \cup {Nil}] /\ rides'[p] # Nil
        /\ \A q \in Periods : rides[q] # Nil => rides'[q] # Nil
    BY <1>0, <2>1, <2>5 DEF TypeOK
  <2>7. LoadsOK'
    BY <2>1, <2>3, <2>4, <2>5, <2>6 DEF Inv, LoadsOK
  <2>8. RowsHaveRides' /\ SpinnerMeansLoad'
    BY <2>1, <2>3, <2>4, <2>6 DEF Inv, RowsHaveRides, SpinnerMeansLoad, Busy
  <2>9. TypeOK'
    BY <1>0, <2>1, <2>4, <2>6 DEF TypeOK
  <2>10. QED
    BY <2>4, <2>7, <2>8, <2>9 DEF Inv
<1>7. CASE Notify(l)
  <2>1. /\ loads[l].stage = "notify" /\ rows' = (rows \/ IsFull(l))
        /\ cards' \in {rides, cards} /\ spinner' = FALSE
        /\ loads' = [loads EXCEPT ![l] = Idle]
        /\ UNCHANGED <<at, weekDay, selected, typed, rides, queue, handoff, fault>>
    BY <1>7 DEF Notify
  <2>2. Idle \in Load /\ Idle.stage = "idle"
    BY DEF Idle, Load, Stages
  <2>3. /\ QueueOK' /\ AtMostOneSelected' /\ loads' \in [Loads -> Load]
        /\ loads'[l] = Idle /\ \A k \in Loads : k # l => loads'[k] = loads[k]
    BY <2>1, <2>2, AnswerInv
  <2>4. LoadsOK' /\ RowsHaveRides' /\ SpinnerMeansLoad'
    BY <2>1, <2>2, <2>3 DEF Inv, LoadsOK, RowsHaveRides, SpinnerMeansLoad
  <2>5. rows' \in BOOLEAN
    BY <1>0, <2>1 DEF TypeOK
  <2>6. TypeOK'
    BY <1>0, <2>1, <2>3, <2>5 DEF TypeOK
  <2>7. QED
    BY <2>3, <2>4, <2>6 DEF Inv
<1>8. QED
  BY <1>2, <1>3, <1>4, <1>5, <1>6, <1>7 DEF Advance

\* The invariant holds in every reachable state.
THEOREM SpecInv == Spec => []Inv
<1>1. Inv /\ UNCHANGED vars => Inv'
  BY DEF vars, Inv, TypeOK, QueueOK, LoadsOK, RowsHaveRides, AtMostOneSelected,
         SpinnerMeansLoad, Busy
<1>2. Inv /\ [Next]_vars => Inv'
  BY <1>1, UserInv, LoadInv DEF Next
<1>3. QED
  BY <1>2, InitInv, PTL DEF Spec

\* Every variable keeps its type; in particular the list of matches is never
\* handed a ride without value.
THEOREM TypeCorrect == Spec => []TypeOK
<1>1. Inv => TypeOK
  BY DEF Inv
<1>2. QED
  BY <1>1, SpecInv, PTL

\* Cells exist only when everything that they and the day buttons unwrap has
\* a value, for any number of overlapping loads.
THEOREM CellsNeverUnwrapNil == Spec => []RowsHaveRides
<1>1. Inv => RowsHaveRides
  BY DEF Inv
<1>2. QED
  BY <1>1, SpecInv, PTL

\* Whatever the burst of presses, two buttons are selected only as long as a
\* press of one of them is still to be handled.
THEOREM OneButtonInTheEnd == Spec => []AtMostOneSelected
<1>1. Inv => AtMostOneSelected
  BY DEF Inv
<1>2. QED
  BY <1>1, SpecInv, PTL

\* The activity indicator turns only while some load is under way.
THEOREM IndicatorHasLoad == Spec => []SpinnerMeansLoad
<1>1. Inv => SpinnerMeansLoad
  BY DEF Inv
<1>2. QED
  BY <1>1, SpecInv, PTL
-----------------------------------------------------------------------------
(* A user who waits for the indicator. Then there is one load at a time, the *)
(* indicator turns as long as it is under way, the user is on Home, and what *)
(* the load has read belongs to the current day.                             *)

AllIdle == \A l \in Loads : loads[l].stage = "idle"

OneLoad ==
  /\ AllIdle \/ (spinner /\ at = "home")
  /\ \A l, k \in Loads : loads[l].stage # "idle" /\ loads[k].stage # "idle" => l = k

ReadsAreCurrent ==
  \A l \in Loads :
    /\ loads[l].stage = "rides" =>
         /\ loads[l].day = weekDay
         /\ \A p \in Periods \ loads[l].waiting : rides[p] = weekDay
    /\ loads[l].stage = "notify" => \A p \in Periods : rides[p] = weekDay

ScreenIsCurrent ==
  /\ rows /\ AllIdle => \A p \in Periods : rides[p] = weekDay /\ cards[p] = weekDay
  /\ at = "match" => handoff.ride = handoff.day

PatientInv == ~ hasty => OneLoad /\ ReadsAreCurrent /\ ScreenIsCurrent

\* Starting a load while none is under way makes it the only one.
LEMMA StartPatient ==
  ASSUME TypeOK, AllIdle, NEW l \in Loads, NEW button \in Days \cup {Nil},
         Start(l, button), at' = "home"
  PROVE  OneLoad' /\ ReadsAreCurrent' /\ ~ AllIdle' /\ ScreenIsCurrent'
<1> DEFINE new == [stage |-> "queued", button |-> button, day |-> Nil, waiting |-> {}]
<1>1. /\ loads' = [loads EXCEPT ![l] = new] /\ spinner' = TRUE
      /\ loads \in [Loads -> Load]
  BY DEF Start, TypeOK
<1>2. loads'[l] = new /\ \A k \in Loads : k # l => loads'[k] = loads[k]
  BY <1>1
<1>3. OneLoad'
  BY <1>1, <1>2 DEF OneLoad, AllIdle
<1>4. ReadsAreCurrent'
  BY <1>2 DEF ReadsAreCurrent, AllIdle
<1>5. ~ AllIdle'
  BY <1>2 DEF AllIdle
<1>6. QED
  BY <1>3, <1>4, <1>5 DEF ScreenIsCurrent

\* A user who acts while the indicator is still finds no load under way.
LEMMA UserPatient == ASSUME TypeOK, PatientInv, UserStep PROVE PatientInv'
<1>1. SUFFICES ASSUME ~ hasty'
               PROVE  OneLoad' /\ ReadsAreCurrent' /\ ScreenIsCurrent'
  BY DEF PatientInv
<1>2. ~ hasty
  BY <1>1 DEF UserStep, UserActs, LeaveTab, DidSelectRow, Launch, ReturnToTab, BackToHome,
              DayButtonsPressed
<1>3. OneLoad /\ ReadsAreCurrent /\ ScreenIsCurrent
  BY <1>2 DEF PatientInv
<1>4. UserActs => AllIdle
  BY <1>1, <1>3 DEF UserActs, OneLoad
<1>5. at # "home" => AllIdle
  BY <1>3 DEF OneLoad
<1>6. ASSUME NEW l \in Loads, NEW d \in Days, DayButtonsPressed(l, d)
      PROVE  OneLoad' /\ ReadsAreCurrent' /\ ScreenIsCurrent'
  <2>1. AllIdle /\ Start(l, d) /\ at' = "home"
    BY <1>4, <1>6 DEF DayButtonsPressed
  <2>2. QED
    BY <2>1, StartPatient
<1>7. ASSUME NEW l \in Loads, Launch(l) \/ BackToHome(l)
      PROVE  OneLoad' /\ ReadsAreCurrent' /\ ScreenIsCurrent'
  <2>1. AllIdle /\ Start(l, Nil) /\ at' = "home"
    BY <1>5, <1>7 DEF Launch, BackToHome, ViewWillAppear
  <2>2. QED
    BY <2>1, StartPatient
<1>8. ASSUME NEW l \in Loads, ReturnToTab(l)
      PROVE  OneLoad' /\ ReadsAreCurrent' /\ ScreenIsCurrent'
  <2>1. AllIdle /\ at' = "home" /\ UNCHANGED <<weekDay, rides, rows, cards, handoff>>
    BY <1>5, <1>8 DEF ReturnToTab
  <2>2. CASE ViewWillAppear(l)
    BY <2>1, <2>2, StartPatient DEF ViewWillAppear
  <2>3. CASE UNCHANGED <<loads, queue, spinner>>
    BY <1>3, <2>1, <2>3 DEF OneLoad, ReadsAreCurrent, ScreenIsCurrent, AllIdle
  <2>4. QED
    BY <1>8, <2>2, <2>3 DEF ReturnToTab
<1>9. ASSUME LeaveTab PROVE OneLoad' /\ ReadsAreCurrent' /\ ScreenIsCurrent'
  <2>1. AllIdle /\ at' = "tab" /\ UNCHANGED <<weekDay, rides, rows, cards, loads>>
    BY <1>4, <1>9 DEF LeaveTab
  <2>2. QED
    BY <1>3, <2>1 DEF OneLoad, ReadsAreCurrent, ScreenIsCurrent, AllIdle
<1>10. ASSUME NEW p \in Periods, DidSelectRow(p)
       PROVE  OneLoad' /\ ReadsAreCurrent' /\ ScreenIsCurrent'
  <2>1. /\ AllIdle /\ rows /\ handoff' = [ride |-> rides[p], day |-> weekDay]
        /\ UNCHANGED <<weekDay, rides, rows, cards, loads>>
    BY <1>4, <1>10 DEF DidSelectRow
  <2>2. rides[p] = weekDay
    BY <1>3, <2>1 DEF ScreenIsCurrent
  <2>3. QED
    BY <1>3, <2>1, <2>2 DEF OneLoad, ReadsAreCurrent, ScreenIsCurrent, AllIdle
<1>11. QED
  BY <1>6, <1>7, <1>8, <1>9, <1>10 DEF UserStep

\* The only load reads for the current day, which no step of a load changes.
LEMMA LoadPatient ==
  ASSUME Inv, PatientInv, NEW l \in Loads, Advance(l) \/ FailType(l)
  PROVE  PatientInv'
<1>1. SUFFICES ASSUME ~ hasty'
               PROVE  OneLoad' /\ ReadsAreCurrent' /\ ScreenIsCurrent'
  BY DEF PatientInv
<1>2. ~ hasty
  BY <1>1, AdvanceKeepsHasty
<1>3. OneLoad /\ ReadsAreCurrent /\ ScreenIsCurrent /\ loads \in [Loads -> Load]
  BY <1>2 DEF PatientInv, Inv, TypeOK
<1>4. ASSUME NEW load, loads' = [loads EXCEPT ![l] = load], load.stage # "idle",
             loads[l].stage # "idle", UNCHANGED <<at, weekDay, rides, spinner, handoff>>,
             load.stage = "rides" => load.day = weekDay /\ load.waiting = Periods,
             load.stage # "notify"
      PROVE  OneLoad' /\ ReadsAreCurrent' /\ ScreenIsCurrent'
  <2>1. loads'[l] = load /\ \A k \in Loads : k # l => loads'[k] = loads[k]
    BY <1>3, <1>4
  <2>2. OneLoad'
    BY <1>3, <1>4, <2>1 DEF OneLoad, AllIdle
  <2>3. ReadsAreCurrent'
    BY <1>3, <1>4, <2>1 DEF ReadsAreCurrent
  <2>4. ScreenIsCurrent'
    BY <1>3, <1>4, <2>1 DEF ScreenIsCurrent, AllIdle
  <2>5. QED
    BY <2>2, <2>3, <2>4
<1>5. ASSUME queue # <<>>, l = Head(queue) PROVE loads[l].stage = "queued"
  <2>1. queue \in Seq(Loads) /\ 1 \in 1..Len(queue) /\ l = queue[1]
    BY <1>5 DEF Inv, TypeOK
  <2>2. QED
    BY <2>1 DEF Inv, QueueOK
<1>6. CASE RunButtonBlock(l)
  <2> DEFINE load == [stage |-> "rides", button |-> loads[l].button, day |-> weekDay,
                      waiting |-> Periods]
  <2>1. /\ loads' = [loads EXCEPT ![l] = load] /\ loads[l].stage = "queued"
        /\ UNCHANGED <<at, weekDay, rides, spinner, handoff>>
    BY <1>5, <1>6 DEF RunButtonBlock, FetchDailyRides, MoveTo
  <2>2. /\ load.stage # "idle" /\ load.stage # "notify"
        /\ load.stage = "rides" => load.day = weekDay /\ load.waiting = Periods
    OBVIOUS
  <2>3. QED
    <3> HIDE DEF load
    <3>1. loads[l].stage # "idle"
      BY <2>1
    <3>2. QED
      BY <1>4, <2>1, <2>2, <3>1
<1>7. CASE RunAppearBlock(l)
  <2> DEFINE load == [stage |-> "type", button |-> loads[l].button, day |-> Nil,
                      waiting |-> {}]
  <2>1. /\ loads' = [loads EXCEPT ![l] = load] /\ loads[l].stage = "queued"
        /\ UNCHANGED <<at, weekDay, rides, spinner, handoff>>
    BY <1>5, <1>7 DEF RunAppearBlock, MoveTo, screen
  <2>2. /\ load.stage # "idle" /\ load.stage # "notify"
        /\ load.stage = "rides" => load.day = weekDay /\ load.waiting = Periods
    OBVIOUS
  <2>3. QED
    <3> HIDE DEF load
    <3>1. loads[l].stage # "idle"
      BY <2>1
    <3>2. QED
      BY <1>4, <2>1, <2>2, <3>1
<1>8. CASE UnwrapType(l) \/ FailType(l)
  <2>1. UNCHANGED <<at, weekDay, rides, rows, cards, spinner, loads, handoff>>
    BY <1>8 DEF UnwrapType, FailType
  <2>2. QED
    BY <1>3, <2>1 DEF OneLoad, ReadsAreCurrent, ScreenIsCurrent, AllIdle
<1>9. CASE AnswerType(l)
  <2> DEFINE load == [stage |-> "rides", button |-> loads[l].button, day |-> weekDay,
                      waiting |-> Periods]
  <2>1. /\ loads' = [loads EXCEPT ![l] = load] /\ loads[l].stage = "type"
        /\ UNCHANGED <<at, weekDay, rides, spinner, handoff>>
    BY <1>9 DEF AnswerType, FetchDailyRides, MoveTo
  <2>2. /\ load.stage # "idle" /\ load.stage # "notify"
        /\ load.stage = "rides" => load.day = weekDay /\ load.waiting = Periods
    OBVIOUS
  <2>3. QED
    <3> HIDE DEF load
    <3>1. loads[l].stage # "idle"
      BY <2>1
    <3>2. QED
      BY <1>4, <2>1, <2>2, <3>1
<1>10. ASSUME NEW p \in Periods, AnswerRide(l, p)
       PROVE  OneLoad' /\ ReadsAreCurrent' /\ ScreenIsCurrent'
  <2> DEFINE rest == loads[l].waiting \ {p}
             load == [stage |-> IF rest = {} THEN "notify" ELSE "rides",
                      button |-> loads[l].button, day |-> loads[l].day, waiting |-> rest]
  <2>1. /\ loads[l].stage = "rides" /\ p \in loads[l].waiting
        /\ rides' = [rides EXCEPT ![p] = loads[l].day]
        /\ loads' = [loads EXCEPT ![l] = load]
        /\ UNCHANGED <<at, weekDay, spinner, handoff>>
    BY <1>10 DEF AnswerRide, MoveTo
  <2>2. /\ load.stage \in {"rides", "notify"} /\ load.day = loads[l].day
        /\ load.waiting = loads[l].waiting \ {p}
        /\ load.stage = "notify" => load.waiting = {}
    OBVIOUS
  <2> HIDE DEF load
  <2>3. loads'[l] = load /\ \A k \in Loads : k # l => loads'[k] = loads[k]
    BY <1>3, <2>1
  <2>4. \A k \in Loads : k # l => loads[k].stage = "idle"
    BY <1>3, <2>1 DEF OneLoad
  <2>5. OneLoad'
    BY <1>3, <2>1, <2>2, <2>3, <2>4 DEF OneLoad, AllIdle
  <2>6. \A q \in Periods \ load.waiting : rides'[q] = weekDay
    <3>1. loads[l].day = weekDay /\ \A q \in Periods \ loads[l].waiting : rides[q] = weekDay
      BY <1>3, <2>1 DEF ReadsAreCurrent
    <3>2. rides \in [Periods -> Days \cup {Nil}]
      BY DEF Inv, TypeOK
    <3>3. QED
      BY <2>1, <2>2, <3>1, <3>2
  <2>7. ReadsAreCurrent'
    <3>1. loads[l].day = weekDay
      BY <1>3, <2>1 DEF ReadsAreCurrent
    <3>2. QED
      BY <2>1, <2>2, <2>3, <2>4, <2>6, <3>1 DEF ReadsAreCurrent
  <2>8. ScreenIsCurrent'
    BY <1>3, <2>1, <2>2, <2>3 DEF ScreenIsCurrent, AllIdle
  <2>9. QED
    BY <2>5, <2>7, <2>8
<1>11. CASE Notify(l)
  <2>1. /\ loads[l].stage = "notify" /\ cards' = IF rows' THEN rides ELSE cards
        /\ loads' = [loads EXCEPT ![l] = Idle]
        /\ UNCHANGED <<at, weekDay, rides, handoff>>
    BY <1>11 DEF Notify
  <2>2. loads'[l].stage = "idle" /\ \A k \in Loads : k # l => loads'[k] = loads[k]
    BY <1>3, <2>1 DEF Idle
  <2>3. \A k \in Loads : loads'[k].stage = "idle"
    BY <1>3, <2>1, <2>2 DEF OneLoad
  <2>4. \A p \in Periods : rides[p] = weekDay
    BY <1>3, <2>1 DEF ReadsAreCurrent
  <2>5. OneLoad' /\ ReadsAreCurrent'
    BY <2>3 DEF OneLoad, ReadsAreCurrent, AllIdle
  <2>6. ScreenIsCurrent'
    BY <1>3, <2>1, <2>4 DEF ScreenIsCurrent
  <2>7. QED
    BY <2>5, <2>6
<1>12. QED
  BY <1>6, <1>7, <1>8, <1>9, <1>10, <1>11 DEF Advance

\* A user who waits for the indicator sees the day it has pressed, and opens
\* the list of matches with a ride of that day: for any number of days,
\* periods and loads, and in any order of the answers.
THEOREM PatientSees == Spec => []PatientUserSeesItsDay
<1>1. Init => PatientInv
  BY DEF Init, PatientInv, OneLoad, ReadsAreCurrent, ScreenIsCurrent, AllIdle, Idle
<1>2. PatientInv /\ UNCHANGED vars => PatientInv'
  BY DEF vars, PatientInv, OneLoad, ReadsAreCurrent, ScreenIsCurrent, AllIdle
<1>3. Inv => TypeOK
  BY DEF Inv
<1>4. Inv /\ PatientInv /\ [Next]_vars => PatientInv'
  BY <1>2, <1>3, UserPatient, LoadPatient DEF Next
<1>5. PatientInv => PatientUserSeesItsDay
  BY DEF PatientInv, OneLoad, ScreenIsCurrent, PatientUserSeesItsDay
<1>6. QED
  BY <1>1, <1>4, <1>5, SpecInv, PTL DEF Spec

-----------------------------------------------------------------------------
(* A load that has begun goes on.                                           *)

\* A load that waits for the main queue is in it, and one that reads rides
\* still awaits one of them: the group is left once for each of its entries.
LoadsHaveWork ==
  \A l \in Loads :
    /\ loads[l].stage = "queued" => \E i \in 1..Len(queue) : queue[i] = l
    /\ loads[l].stage = "rides" => loads[l].waiting # {}

\* A new load is at the end of the queue.
LEMMA StartWork ==
  ASSUME Inv, LoadsHaveWork, NEW l \in Loads, NEW button \in Days \cup {Nil}, Start(l, button)
  PROVE  LoadsHaveWork'
<1>1. /\ loads' = [loads EXCEPT ![l] = [stage |-> "queued", button |-> button,
                                       day |-> Nil, waiting |-> {}]]
      /\ queue' = Append(queue, l)
      /\ queue \in Seq(Loads) /\ loads \in [Loads -> Load]
  BY DEF Start, Inv, TypeOK
<1>2. /\ loads'[l].stage = "queued"
      /\ \A k \in Loads : k # l => loads'[k] = loads[k]
  BY <1>1
<1>3. /\ Len(queue') = Len(queue) + 1 /\ Len(queue) \in Nat
      /\ queue'[Len(queue) + 1] = l
      /\ \A i \in 1..Len(queue) : queue'[i] = queue[i]
  BY <1>1
<1>4. Len(queue) + 1 \in 1..Len(queue') /\ \A i \in 1..Len(queue) : i \in 1..Len(queue')
  BY <1>3
<1>5. ASSUME NEW k \in Loads, loads'[k].stage = "queued"
      PROVE  \E i \in 1..Len(queue') : queue'[i] = k
  <2>1. CASE k = l
    BY <1>3, <1>4, <2>1
  <2>2. CASE k # l
    <3>1. PICK i \in 1..Len(queue) : queue[i] = k
      BY <1>2, <1>5, <2>2 DEF LoadsHaveWork
    <3>2. QED
      BY <1>3, <1>4, <3>1
  <2>3. QED
    BY <2>1, <2>2
<1>6. ASSUME NEW k \in Loads, loads'[k].stage = "rides" PROVE loads'[k].waiting # {}
  BY <1>2, <1>6 DEF LoadsHaveWork
<1>7. QED
  BY <1>5, <1>6 DEF LoadsHaveWork

\* A load that changes leaves the others their work.
LEMMA OthersWork ==
  ASSUME LoadsHaveWork, loads \in [Loads -> Load], NEW l \in Loads, NEW load,
         loads' = [loads EXCEPT ![l] = load],
         load.stage # "queued", load.stage = "rides" => load.waiting # {},
         \A i \in 1..Len(queue) : queue[i] # l =>
           \E j \in 1..Len(queue') : queue'[j] = queue[i]
  PROVE  LoadsHaveWork'
<1>1. /\ loads'[l] = load
      /\ \A k \in Loads : k # l => loads'[k] = loads[k]
  OBVIOUS
<1>2. ASSUME NEW k \in Loads, loads'[k].stage = "queued"
      PROVE  \E i \in 1..Len(queue') : queue'[i] = k
  <2>1. k # l /\ loads[k].stage = "queued"
    BY <1>1, <1>2
  <2>2. PICK i \in 1..Len(queue) : queue[i] = k
    BY <2>1 DEF LoadsHaveWork
  <2>3. QED
    BY <2>1, <2>2
<1>3. ASSUME NEW k \in Loads, loads'[k].stage = "rides" PROVE loads'[k].waiting # {}
  BY <1>1, <1>3 DEF LoadsHaveWork
<1>4. QED
  BY <1>2, <1>3 DEF LoadsHaveWork

LEMMA AdvanceWork ==
  ASSUME Inv, LoadsHaveWork, NEW l \in Loads, Advance(l) \/ FailType(l)
  PROVE  LoadsHaveWork'
<1>0. loads \in [Loads -> Load] /\ loads[l] \in Load
  BY DEF Inv, TypeOK
<1>1. ASSUME queue # <<>>, l = Head(queue), queue' = Tail(queue)
      PROVE  \A i \in 1..Len(queue) : queue[i] # l =>
               \E j \in 1..Len(queue') : queue'[j] = queue[i]
  <2>1. SUFFICES ASSUME NEW i \in 1..Len(queue), queue[i] # l
                 PROVE  \E j \in 1..Len(queue') : queue'[j] = queue[i]
    OBVIOUS
  <2>2. i # 1
    BY <1>1, <2>1, DequeueOK
  <2>3. i - 1 \in 1..Len(queue') /\ queue'[i - 1] = queue[i]
    BY <1>1, <2>2, DequeueOK
  <2>4. QED
    BY <2>3
<1>2. CASE RunButtonBlock(l)
  <2> DEFINE load == [stage |-> "rides", button |-> loads[l].button, day |-> weekDay,
                      waiting |-> Periods]
  <2>1. /\ queue # <<>> /\ l = Head(queue) /\ queue' = Tail(queue)
        /\ loads' = [loads EXCEPT ![l] = load]
    BY <1>2 DEF RunButtonBlock, FetchDailyRides, MoveTo
  <2>2. load.stage # "queued" /\ load.waiting # {}
    BY ThereArePeriods
  <2> HIDE DEF load
  <2>3. QED
    BY <1>0, <1>1, <2>1, <2>2, OthersWork
<1>3. CASE RunAppearBlock(l)
  <2> DEFINE load == [stage |-> "type", button |-> loads[l].button, day |-> Nil,
                      waiting |-> {}]
  <2>1. /\ queue # <<>> /\ l = Head(queue) /\ queue' = Tail(queue)
        /\ loads' = [loads EXCEPT ![l] = load]
    BY <1>3 DEF RunAppearBlock, MoveTo
  <2>2. load.stage = "type"
    OBVIOUS
  <2> HIDE DEF load
  <2>3. QED
    BY <1>0, <1>1, <2>1, <2>2, OthersWork
<1>4. CASE UnwrapType(l) \/ FailType(l)
  BY <1>4 DEF UnwrapType, FailType, LoadsHaveWork
<1>5. CASE AnswerType(l)
  <2> DEFINE load == [stage |-> "rides", button |-> loads[l].button, day |-> weekDay,
                      waiting |-> Periods]
  <2>1. queue' = queue /\ loads' = [loads EXCEPT ![l] = load]
    BY <1>5 DEF AnswerType, FetchDailyRides, MoveTo
  <2>2. load.stage # "queued" /\ load.waiting # {}
    BY ThereArePeriods
  <2> HIDE DEF load
  <2>3. QED
    BY <1>0, <2>1, <2>2, OthersWork
<1>6. ASSUME NEW p \in Periods, AnswerRide(l, p) PROVE LoadsHaveWork'
  <2> DEFINE rest == loads[l].waiting \ {p}
             load == [stage |-> IF rest = {} THEN "notify" ELSE "rides",
                      button |-> loads[l].button, day |-> loads[l].day, waiting |-> rest]
  <2>1. queue' = queue /\ loads' = [loads EXCEPT ![l] = load]
    BY <1>6 DEF AnswerRide, MoveTo
  <2>2. load.stage # "queued" /\ (load.stage = "rides" => load.waiting # {})
    OBVIOUS
  <2> HIDE DEF load
  <2>3. QED
    BY <1>0, <2>1, <2>2, OthersWork
<1>7. CASE Notify(l)
  <2>1. queue' = queue /\ loads' = [loads EXCEPT ![l] = Idle]
    BY <1>7 DEF Notify
  <2>2. Idle.stage = "idle"
    BY DEF Idle
  <2>3. QED
    BY <1>0, <2>1, <2>2, OthersWork
<1>8. QED
  BY <1>2, <1>3, <1>4, <1>5, <1>6, <1>7 DEF Advance

\* As long as the indicator turns some load is under way, and none of them is
\* stuck: its block is in the main queue, or an answer it awaits is to come.
\* It is the half of SpinnerStops that does not depend on fairness.
THEOREM NoLoadIsStuck == Spec => []((spinner => Busy) /\ LoadsHaveWork)
<1>1. Init => LoadsHaveWork
  BY DEF Init, LoadsHaveWork, Idle
<1>2. ASSUME Inv, LoadsHaveWork, UserStep PROVE LoadsHaveWork'
  <2>1. Nil \in Days \cup {Nil} /\ Days \subseteq Days \cup {Nil}
    OBVIOUS
  <2>2. ASSUME NEW l \in Loads, NEW d \in Days, DayButtonsPressed(l, d) PROVE LoadsHaveWork'
    BY <1>2, <2>1, <2>2, StartWork DEF DayButtonsPressed
  <2>3. ASSUME NEW l \in Loads, Start(l, Nil) PROVE LoadsHaveWork'
    BY <1>2, <2>1, <2>3, StartWork
  <2>4. ASSUME UNCHANGED <<loads, queue>> PROVE LoadsHaveWork'
    BY <1>2, <2>4 DEF LoadsHaveWork
  <2>5. QED
    BY <1>2, <2>2, <2>3, <2>4
    DEF UserStep, LeaveTab, DidSelectRow, Launch, ReturnToTab, BackToHome, ViewWillAppear
<1>3. ASSUME Inv, LoadsHaveWork, UNCHANGED vars PROVE LoadsHaveWork'
  BY <1>3 DEF LoadsHaveWork, vars
<1>4. Inv /\ LoadsHaveWork /\ [Next]_vars => LoadsHaveWork'
  BY <1>2, <1>3, AdvanceWork DEF Next
<1>5. Inv => (spinner => Busy)
  BY DEF Inv, SpinnerMeansLoad
<1>6. QED
  BY <1>1, <1>4, <1>5, SpecInv, PTL DEF Spec
=============================================================================
