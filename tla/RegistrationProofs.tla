------------------------- MODULE RegistrationProofs -------------------------
(***************************************************************************)
(* Proofs about Registration, for any e-mails, streets, places,            *)
(* controllers, presses and swipes.                                        *)
(*                                                                         *)
(* The invariant is built in layers, each inductive given those before it: *)
(* the screens and the global registerScreen; the presses under way and    *)
(* the blocks on the main queue, which give the types; the coordinates;    *)
(* the accounts.                                                           *)
(***************************************************************************)
EXTENDS Registration, SequenceTheorems, TLAPS

-----------------------------------------------------------------------------
(* The screens. *)

ScreenTypes ==
  /\ top \in Tops /\ form \in Forms \cup {Nil} /\ choice \in Choices \cup {Nil}
  /\ registerScreen \in -(MaxSwipes + 1)..2 /\ swipes \in 0..MaxSwipes
  /\ person \in Emails \cup {Nil} /\ visit \in Visits \cup {Nil}
  /\ fault \in {Nil, "cell", "segue"}

\* What lies below the screen on show, and what the global is then: it is
\* right for the topmost form also while screens above it are on show.
ScreensFit ==
  /\ top \in Forms => form = top
  /\ top \in Choices \cup {"places"} => form \in {"employee", "responsable"} /\ person # Nil
  /\ top \in Choices => choice = top
  /\ top = "places" => choice # Nil
  /\ top = "places" <=> visit # Nil
  /\ top \in {"login", "choose", "home"} => form = Nil /\ swipes = 0
  /\ form # Nil => registerScreen = FormNumber(form) - swipes
  /\ fault = "cell" => swipes > 0

ScreenInv == ScreenTypes /\ ScreensFit

LEMMA FormNumbers ==
  /\ FormNumber("employee") = 0 /\ FormNumber("student") = 1
  /\ FormNumber("responsable") = 2
BY DEF FormNumber

LEMMA ScreenInit == Init => ScreenInv
BY ScreenConstants, SlotConstants, Bounds
   DEF Init, ScreenInv, ScreenTypes, ScreensFit, Tops, Forms, Choices

LEMMA ScreenNext == ScreenInv /\ [Next]_vars => ScreenInv'
<1> SUFFICES ASSUME ScreenInv, [Next]_vars PROVE ScreenInv'
  OBVIOUS
<1> USE FormNumbers, ScreenConstants, SlotConstants, Bounds
    DEF ScreenInv, ScreenTypes, ScreensFit, Tops, Forms, Choices, screens
<1>1. CASE Register
  BY <1>1 DEF Register
<1>2. CASE \E f \in Forms : ChooseForm(f)
  BY <1>2 DEF ChooseForm
<1>3. CASE ContinueStudent
  BY <1>3 DEF ContinueStudent
<1>4. CASE \E e \in Emails : ContinueAdult(e)
  BY <1>4 DEF ContinueAdult
<1>5. CASE CastCell
  BY <1>5 DEF CastCell
<1>6. CASE \E v \in Visits : GoToPlaces(v)
  BY <1>6 DEF GoToPlaces
<1>7. CASE Back
  BY <1>7 DEF Back, LeaveForm
<1>8. CASE SwipeGivenUp
  BY <1>8 DEF SwipeGivenUp, LeaveForm
<1>9. CASE Cancel
  BY <1>9 DEF Cancel, LeaveForm
<1>10. CASE PerformMissingSegue
  BY <1>10 DEF PerformMissingSegue
<1>11. CASE RunBlock
  <2>1. fault = Nil /\ (LoginReturns \/ \E r \in Presses : Notify(r) \/ CreateUserReturns(r))
    BY <1>11 DEF RunBlock
  <2>2. fault = Nil /\ LoginReturns => ScreenInv'
    BY DEF LoginReturns
  <2>3. \A r \in Presses : Notify(r) \/ CreateUserReturns(r) => UNCHANGED <<screens, fault>>
    BY DEF Notify, CreateUserReturns
  <2> QED
    BY <2>1, <2>2, <2>3
<1>12. CASE Restart
  BY <1>12 DEF Restart
<1>13. CASE UNCHANGED <<screens, fault>>
  BY <1>13
<1>14. CASE \/ UNCHANGED vars \/ LoginAnswered
            \/ \E e \in Emails : LoginPressed(e) \/ SignInAnswered(e)
            \/ \E r \in Presses : ContinuePressed(r) \/ PressAnswer(r)
            \/ \E p \in Places, s \in Streets : SetAddress(p, s)
  BY <1>13, <1>14 DEF vars, LoginAnswered, LoginPressed, SignInAnswered,
     ContinuePressed, PressAnswer, SignUpExecuted, SignUpFails, InfoAnswered,
     InfoFails, GeocodeAnswered, SetAddress
<1> QED
  BY <1>1, <1>2, <1>3, <1>4, <1>5, <1>6, <1>7, <1>8, <1>9, <1>10, <1>11, <1>12,
     <1>14 DEF Next

LEMMA ScreenHolds == Spec => []ScreenInv
BY ScreenInit, ScreenNext, PTL DEF Spec

\* Whatever way a user takes through the registration, the number in
\* registerScreen is that of the form on show, but for swipes given up.
THEOREM FormFits == Spec => []FormIsItsScreen
<1>1. ScreenInv => FormIsItsScreen
  BY ScreenConstants DEF ScreenInv, ScreenTypes, ScreensFit, FormIsItsScreen, Forms
<1> QED
  BY <1>1, ScreenHolds, PTL

-----------------------------------------------------------------------------
(* Controllers, presses and the blocks on the main queue. *)

DataTypes ==
  /\ places \in [Visits -> Controller] /\ presses \in [Presses -> Press]
  /\ accounts \subseteq Emails /\ signIns \subseteq Emails /\ broken \subseteq Emails
  /\ current \in Emails \cup {Nil} /\ signedIn \in Emails \cup {Nil}
  /\ login \in {Nil} \cup LoginCall
  /\ main \in Seq(Presses \cup {Login})
  /\ documents \in [Emails -> Seq(Emails)]

\* A press under way, and the screen of the addresses, have a controller with
\* an e-mail; a press that is over has let go of its own.
HoldsController(r) ==
  IF Under(r) THEN presses[r].visit \in Visits /\ EmailOf(r) # Nil
              ELSE presses[r].visit = Nil

PressesHold ==
  /\ \A r \in Presses : HoldsController(r)
  /\ visit # Nil => places[visit].email # Nil

\* The completion of a login is on the main queue once, with its answer.
NoLogin(m) == \A i \in 1..Len(m) : m[i] # Login
OneLogin(m) == \A i, j \in 1..Len(m) : m[i] = Login /\ m[j] = Login => i = j

LoginOnMain ==
  /\ OneLogin(main)
  /\ NoLogin(main) \/ (login # Nil /\ login.result # "asked")

DataInv == DataTypes /\ PressesHold /\ LoginOnMain

LEMMA AppendPress ==
  ASSUME NEW m \in Seq(Presses \cup {Login}), NEW r \in Presses
  PROVE  /\ Append(m, r) \in Seq(Presses \cup {Login})
         /\ NoLogin(m) => NoLogin(Append(m, r))
         /\ OneLogin(m) => OneLogin(Append(m, r))
BY SlotConstants DEF NoLogin, OneLogin

LEMMA AppendLogin ==
  ASSUME NEW m \in Seq(Presses \cup {Login}), NoLogin(m)
  PROVE  Append(m, Login) \in Seq(Presses \cup {Login}) /\ OneLogin(Append(m, Login))
BY DEF NoLogin, OneLogin

LEMMA TailOfMain ==
  ASSUME NEW m \in Seq(Presses \cup {Login}), m # <<>>, OneLogin(m)
  PROVE  /\ Tail(m) \in Seq(Presses \cup {Login}) /\ OneLogin(Tail(m))
         /\ NoLogin(m) => NoLogin(Tail(m))
         /\ Head(m) = Login => ~ NoLogin(m) /\ NoLogin(Tail(m))
<1>1. /\ Len(m) \in Nat /\ Len(m) >= 1 /\ Head(m) = m[1]
      /\ Tail(m) \in Seq(Presses \cup {Login}) /\ Len(Tail(m)) = Len(m) - 1
      /\ \A i \in 1..Len(Tail(m)) : Tail(m)[i] = m[i + 1]
  OBVIOUS
<1>2. \A i \in 1..Len(Tail(m)) : i + 1 \in 1..Len(m) /\ i + 1 # 1
  BY <1>1
<1> HIDE DEF NoLogin
<1>3. OneLogin(Tail(m))
  BY <1>1, <1>2 DEF OneLogin
<1>4. NoLogin(m) => NoLogin(Tail(m))
  BY <1>1, <1>2 DEF NoLogin
<1>5. Head(m) = Login => ~ NoLogin(m) /\ NoLogin(Tail(m))
  <2>1. 1 \in 1..Len(m)
    BY <1>1
  <2> QED
    BY <1>1, <1>2, <2>1 DEF OneLogin, NoLogin
<1> QED
  BY <1>1, <1>3, <1>4, <1>5

\* Emptying a controller nobody refers to.
LEMMA Released ==
  ASSUME places \in [Visits -> Controller], NEW v \in Visits, NEW rest
  PROVE  /\ Release(v, rest) \in [Visits -> Controller]
         /\ \A w \in Visits : w # v => Release(v, rest)[w] = places[w]
         /\ rest # {} => Release(v, rest) = places
<1>1. FreshPlaces(Nil) \in Controller
  BY DEF FreshPlaces, Controller, Addresses, Coordinates
<1> QED
  BY <1>1 DEF Release

LEMMA PressRecords ==
  /\ NoPress \in Press /\ NoPress.visit = Nil /\ NoPress.stage = "idle"
  /\ [NoPress EXCEPT !.stage = "done"] \in Press
  /\ [NoPress EXCEPT !.stage = "done"].visit = Nil
  /\ [NoPress EXCEPT !.stage = "done"].stage = "done"
BY DEF NoPress, Press, PressStages, Addresses

LEMMA DataInit == Init => DataInv
<1> SUFFICES ASSUME Init PROVE DataInv
  OBVIOUS
<1>1. \A v \in Visits : FreshPlaces(Nil) \in Controller
  BY DEF FreshPlaces, Controller, Addresses, Coordinates
<1>2. DataTypes
  BY <1>1, PressRecords DEF Init, DataTypes
<1>3. PressesHold
  BY PressRecords DEF Init, PressesHold, HoldsController, Under
<1>4. LoginOnMain
  BY DEF Init, LoginOnMain, NoLogin, OneLogin
<1> QED
  BY <1>2, <1>3, <1>4 DEF DataInv

LEMMA Moved ==
  ASSUME presses \in [Presses -> Press], NEW r \in Presses, NEW stage \in PressStages,
         MoveTo(r, stage)
  PROVE  /\ presses' \in [Presses -> Press]
         /\ presses'[r].stage = stage
         /\ \A q \in Presses : /\ presses'[q].visit = presses[q].visit
                              /\ presses'[q].asked = presses[q].asked
                              /\ presses'[q].waiting = presses[q].waiting
                              /\ q # r => presses'[q] = presses[q]
BY DEF MoveTo, Press

\* A press that only goes from one stage under way to another keeps its hold.
LEMMA StillHolds ==
  ASSUME PressesHold, presses \in [Presses -> Press], NEW r \in Presses,
         NEW stage \in PressStages \ {"idle", "done"},
         Under(r), MoveTo(r, stage), UNCHANGED <<screens, places>>
  PROVE  PressesHold'
<1>1. \A q \in Presses : Under(q)' <=> Under(q)
  BY DEF Under, MoveTo, Press
<1>2. \A q \in Presses : presses'[q].visit = presses[q].visit
  BY DEF MoveTo, Press
<1>3. places' = places /\ visit' = visit
  BY DEF screens
<1> QED
  BY <1>1, <1>2, <1>3 DEF PressesHold, HoldsController, EmailOf

LEMMA DataNext == ScreenInv /\ DataInv /\ [Next]_vars => DataInv'
<1> SUFFICES ASSUME ScreenInv, DataInv, [Next]_vars PROVE DataInv'
  OBVIOUS
<1> USE SlotConstants DEF screens, auth, server
<1>a. /\ DataTypes /\ PressesHold /\ LoginOnMain
      /\ visit \in Visits \cup {Nil} /\ person \in Emails \cup {Nil}
      /\ top = "places" <=> visit # Nil
      /\ top \in Choices => person # Nil
  BY DEF DataInv, ScreenInv, ScreenTypes, ScreensFit
<1>b. /\ places \in [Visits -> Controller] /\ presses \in [Presses -> Press]
      /\ main \in Seq(Presses \cup {Login})
  BY <1>a DEF DataTypes
<1>1. ASSUME UNCHANGED <<places, presses, main, auth, server>>, visit' \in {visit, Nil}
      PROVE  DataInv'
  BY <1>a, <1>1 DEF DataInv, DataTypes, PressesHold, HoldsController, Under, EmailOf,
     LoginOnMain, NoLogin, OneLogin
<1>2. CASE \/ Register \/ ContinueStudent \/ CastCell \/ SwipeGivenUp \/ PerformMissingSegue
           \/ \E f \in Forms : ChooseForm(f)
           \/ \E e \in Emails : ContinueAdult(e)
           \/ UNCHANGED vars
  BY <1>1, <1>2 DEF Register, ContinueStudent, CastCell, SwipeGivenUp, PerformMissingSegue,
     ChooseForm, ContinueAdult, vars
<1>3. ASSUME UNCHANGED <<presses, main, accounts, documents, broken, current, signIns, login>>,
             signedIn' \in Emails \cup {Nil},
             visit' = Nil, 
             places' = IF visit # Nil THEN Release(visit, PressesOf(visit)) ELSE places
      PROVE  DataTypes' /\ PressesHold'
  <2>1. /\ places' \in [Visits -> Controller]
        /\ \A v \in Visits : PressesOf(v) # {} => places'[v] = places[v]
    BY <1>3, <1>a, <1>b, Released
  <2>2. \A r \in Presses : presses[r].visit \in Visits
           => places'[presses[r].visit] = places[presses[r].visit]
    BY <2>1 DEF PressesOf
  <2> QED
    BY <1>a, <1>3, <2>1, <2>2 DEF DataTypes, PressesHold, HoldsController, Under, EmailOf
<1>4. CASE Back \/ Cancel
  <2>1. DataTypes' /\ PressesHold'
    BY <1>3, <1>4, <1>a DEF Back, Cancel, DataTypes
  <2>2. LoginOnMain'
    BY <1>4, <1>a DEF Back, Cancel, LoginOnMain, NoLogin, OneLogin
  <2> QED
    BY <2>1, <2>2 DEF DataInv
<1>5. ASSUME NEW v \in Visits, GoToPlaces(v) PROVE DataInv'
  <2>1. FreshPlaces(person) \in Controller /\ FreshPlaces(person).email # Nil
    BY <1>5, <1>a DEF FreshPlaces, Controller, Addresses, Coordinates, GoToPlaces
  <2>2. /\ places' \in [Visits -> Controller] /\ places'[v].email # Nil
        /\ \A w \in Visits : w # v => places'[w] = places[w]
    BY <1>5, <2>1, <1>b DEF GoToPlaces
  <2>3. /\ visit' = v /\ presses' = presses
        /\ \A r \in Presses : presses[r].visit # v
    BY <1>5 DEF GoToPlaces, PressesOf
  <2>4. PressesHold'
    BY <1>a, <2>2, <2>3 DEF PressesHold, HoldsController, Under, EmailOf
  <2> QED
    BY <1>5, <1>a, <2>2, <2>4 DEF GoToPlaces, DataInv, DataTypes, LoginOnMain, NoLogin, OneLogin
<1>6. ASSUME NEW p \in Places, NEW s \in Streets, SetAddress(p, s) PROVE DataInv'
  <2>1. visit \in Visits /\ places[visit] \in Controller
    BY <1>6, <1>a, <1>b DEF SetAddress
  <2>2. /\ places' \in [Visits -> Controller]
        /\ \A w \in Visits : places'[w].email = places[w].email
    <3> DEFINE c == [[places[visit] EXCEPT !.address[p] = s]
                       EXCEPT !.touched = @ \/ PressesOf(visit) # {}]
    <3>1. places' = [places EXCEPT ![visit] = c]
      BY <1>6, <2>1, <1>b DEF SetAddress, Controller
    <3>2. c \in Controller /\ c.email = places[visit].email
      BY <2>1 DEF Controller, Addresses
    <3> QED
      BY <3>1, <3>2, <2>1, <1>b
  <2>3. PressesHold'
    BY <1>a, <1>6, <2>2, <2>1 DEF PressesHold, HoldsController, Under, EmailOf, SetAddress
  <2> QED
    BY <1>6, <1>a, <2>2, <2>3 DEF SetAddress, DataInv, DataTypes, LoginOnMain, NoLogin, OneLogin
<1>7. ASSUME NEW r \in Presses, ContinuePressed(r) PROVE DataInv'
  <2>1. visit \in Visits /\ places[visit] \in Controller /\ presses[r].stage = "idle"
    BY <1>7, <1>a, <1>b DEF ContinuePressed
  <2> DEFINE new == [visit |-> visit, stage |-> "geocode",
                     asked |-> places[visit].address, waiting |-> Places]
  <2>2. new \in Press /\ new.visit = visit /\ new.stage = "geocode"
    BY <2>1 DEF Press, PressStages, Controller
  <2>3. presses' = [presses EXCEPT ![r] = new]
    BY <1>7 DEF ContinuePressed
  <2> HIDE DEF new
  <2>4. presses' \in [Presses -> Press] /\ presses'[r] = new
        /\ \A q \in Presses : q # r => presses'[q] = presses[q]
    BY <2>2, <2>3, <1>b
  <2>5. PressesHold'
    BY <1>a, <1>7, <2>1, <2>2, <2>4
       DEF PressesHold, HoldsController, Under, EmailOf, ContinuePressed
  <2> QED
    BY <1>7, <1>a, <2>4, <2>5 DEF ContinuePressed, DataInv, DataTypes, LoginOnMain, NoLogin, OneLogin
<1>8. ASSUME NEW r \in Presses, PressAnswer(r) PROVE DataInv'
  <2>1. /\ Append(main, r) \in Seq(Presses \cup {Login})
        /\ LoginOnMain /\ UNCHANGED login /\ main' \in {main, Append(main, r)} => LoginOnMain'
    BY <1>a, <1>b, AppendPress DEF LoginOnMain, NoLogin, OneLogin
  <2>2. EmailOf(r) \in Emails \/ ~ Under(r)
    BY <1>a, <1>b DEF PressesHold, HoldsController, EmailOf, Controller
  <2>3. CASE SignUpExecuted(r) \/ SignUpFails(r) \/ InfoAnswered(r) \/ InfoFails(r)
    <3>1. Under(r)
      BY <2>3 DEF SignUpExecuted, SignUpFails, InfoAnswered, InfoFails, Under
    <3>2. PICK stage \in {"info", "refused", "created"} : MoveTo(r, stage)
      BY <2>3 DEF SignUpExecuted, SignUpFails, InfoAnswered, InfoFails
    <3>3. UNCHANGED <<screens, places, signIns, login, signedIn, documents>>
      BY <2>3 DEF SignUpExecuted, SignUpFails, InfoAnswered, InfoFails
    <3>4. stage \in PressStages \ {"idle", "done"}
      BY DEF PressStages
    <3>5. PressesHold' /\ presses' \in [Presses -> Press]
      BY <3>1, <3>2, <3>3, <3>4, <1>a, <1>b, StillHolds, Moved
    <3>6. main' \in {main, Append(main, r)}
      BY <2>3 DEF SignUpExecuted, SignUpFails, InfoAnswered, InfoFails
    <3>7. accounts' \subseteq Emails /\ broken' \subseteq Emails /\ current' \in Emails \cup {Nil}
      BY <2>3, <2>2, <3>1, <1>a DEF SignUpExecuted, SignUpFails, InfoAnswered, InfoFails, DataTypes
    <3>8. DataTypes'
      BY <3>3, <3>5, <3>6, <3>7, <2>1, <1>a DEF DataTypes
    <3> QED
      BY <3>3, <3>5, <3>6, <3>8, <2>1, <1>a DEF DataInv
  <2>4. ASSUME NEW p \in Places, GeocodeAnswered(r, p) PROVE DataInv'
    <3>1. Under(r) /\ presses[r].visit \in Visits
      BY <2>4, <1>a DEF GeocodeAnswered, Under, PressesHold, HoldsController
    <3>a. presses[r].asked[p] \in Streets \cup {Nil}
      BY <1>b DEF Press, Addresses
    <3>2. PICK c \in Streets \cup {Invalid} :
            places' = [places EXCEPT ![presses[r].visit].coord[p] = c]
      BY <2>4, <3>a DEF GeocodeAnswered, Found
    <3>3. /\ places' \in [Visits -> Controller]
          /\ \A w \in Visits : places'[w].email = places[w].email
      <4> DEFINE v == presses[r].visit
                 d == [places[v] EXCEPT !.coord[p] = c]
      <4>1. places' = [places EXCEPT ![v] = d]
        BY <3>1, <3>2, <1>b DEF Controller
      <4>2. d \in Controller /\ d.email = places[v].email
        BY <3>1, <1>b DEF Controller, Coordinates
      <4> QED
        BY <4>1, <4>2, <3>1, <1>b
    <3> DEFINE rest == presses[r].waiting \ {p}
               new == [[[presses[r] EXCEPT !.waiting = rest] EXCEPT !.asked[p] = Nil]
                         EXCEPT !.stage = IF rest = {} THEN "notify" ELSE "geocode"]
    <3>4. presses' = [presses EXCEPT ![r] = new]
      BY <2>4, <1>b DEF GeocodeAnswered, Press
    <3>5. new \in Press /\ new.visit = presses[r].visit /\ new.stage \in {"notify", "geocode"}
      BY <1>b DEF Press, PressStages, Addresses
    <3>6. /\ presses' \in [Presses -> Press] /\ presses'[r] = new
          /\ \A q \in Presses : q # r => presses'[q] = presses[q]
      BY <3>4, <3>5, <1>b
    <3> HIDE DEF new
    <3>7. PressesHold'
      <4>1. ASSUME NEW q \in Presses, q # r PROVE HoldsController(q)'
        <5>1. presses'[q] = presses[q] /\ HoldsController(q)
          BY <1>a, <3>6, <4>1 DEF PressesHold
        <5> QED
          BY <3>3, <5>1 DEF HoldsController, Under, EmailOf
      <4>2. HoldsController(r)'
        <5>1. EmailOf(r) # Nil
          BY <1>a, <3>1 DEF PressesHold, HoldsController
        <5>2. presses'[r].visit = presses[r].visit /\ Under(r)'
          BY <3>5, <3>6 DEF Under
        <5>3. places'[presses[r].visit].email = places[presses[r].visit].email
          BY <3>1, <3>3
        <5> QED
          BY <3>1, <5>1, <5>2, <5>3 DEF HoldsController, EmailOf
      <4>3. visit' # Nil => places'[visit'].email # Nil
        <5>1. visit' = visit /\ visit \in Visits \cup {Nil}
          BY <1>a, <2>4 DEF GeocodeAnswered
        <5> QED
          BY <1>a, <3>3, <5>1 DEF PressesHold
      <4> QED
        BY <4>1, <4>2, <4>3 DEF PressesHold
    <3>8. main' \in {main, Append(main, r)} /\ UNCHANGED <<server, auth>>
      BY <2>4 DEF GeocodeAnswered
    <3>9. DataTypes'
      BY <3>3, <3>6, <3>8, <2>1, <1>a DEF DataTypes
    <3> QED
      BY <3>7, <3>8, <3>9, <2>1, <1>a DEF DataInv
  <2> QED
    BY <1>8, <2>3, <2>4 DEF PressAnswer
<1>9. CASE \E e \in Emails : SignInAnswered(e)
  BY <1>9, <1>a DEF SignInAnswered, DataInv, DataTypes, PressesHold, HoldsController, Under, EmailOf,
     LoginOnMain, NoLogin, OneLogin
<1>10. ASSUME NEW e \in Emails, LoginPressed(e) PROVE DataInv'
  <2>1. NoLogin(main)
    BY <1>10, <1>a DEF LoginPressed, LoginOnMain
  <2> QED
    BY <1>10, <1>a, <2>1 DEF LoginPressed, LoginCall, DataInv, DataTypes, PressesHold, HoldsController, Under,
       EmailOf, LoginOnMain, NoLogin, OneLogin
<1>11. CASE LoginAnswered
  <2>1. /\ login \in LoginCall
        /\ login.result = "asked" /\ NoLogin(main)
    BY <1>11, <1>a DEF LoginAnswered, LoginOnMain, DataTypes
  <2>2. /\ login' \in LoginCall
        /\ login'.result # "asked" /\ current' \in Emails \cup {Nil}
        /\ main' = Append(main, Login)
    BY <1>11, <1>a, <2>1 DEF LoginAnswered, DataTypes, LoginCall
  <2>3. main' \in Seq(Presses \cup {Login}) /\ OneLogin(main')
    BY <2>1, <2>2, <1>b, AppendLogin
  <2>4. login' # Nil
    BY <2>2, CallConstants DEF LoginCall
  <2>5. DataTypes' /\ PressesHold'
    BY <1>11, <1>a, <2>2, <2>3 DEF LoginAnswered, DataTypes, PressesHold, HoldsController,
       Under, EmailOf
  <2> QED
    BY <2>2, <2>3, <2>4, <2>5 DEF DataInv, LoginOnMain, OneLogin
<1>12. CASE RunBlock
  <2>1. main # <<>> /\ main' = Tail(main) /\ OneLogin(main)
    BY <1>12, <1>a DEF RunBlock, LoginOnMain
  <2>2. /\ main' \in Seq(Presses \cup {Login}) /\ OneLogin(main)'
        /\ NoLogin(main) => NoLogin(main)'
        /\ Head(main) = Login => ~ NoLogin(main) /\ NoLogin(main)'
    BY <2>1, <1>b, TailOfMain DEF NoLogin, OneLogin
  <2>3. CASE Head(main) = Login /\ LoginReturns
    <3>1. login # Nil /\ login.email \in Emails
      BY <2>2, <2>3, <1>a DEF LoginOnMain, DataTypes, LoginCall
    <3>2. PressesHold' /\ DataTypes'
      <4>1. CASE login.result = "failed" /\ UNCHANGED <<signedIn, visit, places>>
        BY <2>2, <2>3, <4>1, <1>a DEF LoginReturns, DataTypes, PressesHold, HoldsController,
           Under, EmailOf
      <4>2. CASE /\ signedIn' = login.email /\ visit' = Nil
                 /\ places' = IF visit # Nil THEN Release(visit, PressesOf(visit)) ELSE places
        <5>1. /\ places' \in [Visits -> Controller]
              /\ \A v \in Visits : PressesOf(v) # {} => places'[v] = places[v]
          BY <4>2, <1>a, <1>b, Released
        <5>2. \A r \in Presses : presses[r].visit \in Visits
                 => places'[presses[r].visit] = places[presses[r].visit]
          BY <5>1 DEF PressesOf
        <5> QED
          BY <1>a, <2>2, <2>3, <3>1, <4>2, <5>1, <5>2
             DEF LoginReturns, DataTypes, PressesHold, HoldsController, Under, EmailOf
      <4> QED
        BY <2>3, <4>1, <4>2 DEF LoginReturns
    <3> QED
      BY <2>2, <2>3, <3>2 DEF DataInv, LoginOnMain
  <2>4. ASSUME NEW r \in Presses, Notify(r) PROVE DataInv'
    <3>1. Under(r) /\ "signup" \in PressStages \ {"idle", "done"} /\ MoveTo(r, "signup")
      BY <2>4 DEF Notify, Under, PressStages
    <3>2. PressesHold' /\ presses' \in [Presses -> Press]
      BY <3>1, <2>4, <1>a, <1>b, StillHolds, Moved DEF Notify
    <3> QED
      BY <2>2, <2>4, <3>2, <1>a DEF Notify, DataInv, DataTypes, LoginOnMain
  <2>5. ASSUME NEW r \in Presses, CreateUserReturns(r) PROVE DataInv'
    <3>1. Under(r) /\ presses[r].visit \in Visits /\ EmailOf(r) \in Emails
      BY <2>5, <1>a, <1>b
         DEF CreateUserReturns, Under, PressesHold, HoldsController, EmailOf, Controller
    <3>2. signIns' \subseteq Emails /\ documents' \in [Emails -> Seq(Emails)]
      BY <2>5, <3>1, <1>a DEF CreateUserReturns, DataTypes
    <3>3. /\ presses' \in [Presses -> Press]
          /\ presses'[r].visit = Nil /\ presses'[r].stage = "done"
          /\ \A q \in Presses : q # r => presses'[q] = presses[q]
      BY <2>5, <1>b, PressRecords DEF CreateUserReturns
    <3>4. /\ places' \in [Visits -> Controller]
          /\ \A q \in Presses \ {r} : presses[q].visit \in Visits
                => places'[presses[q].visit] = places[presses[q].visit]
          /\ visit # Nil => places'[visit] = places[visit]
      BY <2>5, <3>1, <1>a, <1>b, Released DEF CreateUserReturns, PressesOf
    <3>a. visit' = visit
      BY <2>5 DEF CreateUserReturns
    <3>b. ASSUME NEW q \in Presses, q # r PROVE HoldsController(q)'
      BY <1>a, <3>3, <3>4, <3>b DEF PressesHold, HoldsController, Under, EmailOf
    <3>c. HoldsController(r)'
      BY <3>3 DEF HoldsController, Under
    <3>5. PressesHold'
      BY <1>a, <3>4, <3>a, <3>b, <3>c DEF PressesHold
    <3> QED
      BY <2>2, <2>5, <3>2, <3>3, <3>4, <3>5, <1>a
         DEF CreateUserReturns, DataInv, DataTypes, LoginOnMain
  <2> QED
    BY <1>12, <2>3, <2>4, <2>5 DEF RunBlock
<1>13. CASE Restart
  <2>1. \A r \in Presses : Under(r) => EmailOf(r) \in Emails
    BY <1>a, <1>b DEF PressesHold, HoldsController, EmailOf, Controller
  <2>b. /\ {EmailOf(r) : r \in {q \in Presses : presses[q].stage = "signup"}} \subseteq Emails
        /\ {EmailOf(r) : r \in {q \in Presses :
              presses[q].stage \in {"signup", "info", "created"}}} \subseteq Emails
    BY <2>1 DEF Under
  <2>2. accounts' \subseteq Emails /\ broken' \subseteq Emails
    BY <1>13, <2>b, <1>a DEF Restart, DataTypes
  <2>3. \A r \in Presses : /\ presses'[r] \in Press /\ presses'[r].visit = Nil
                           /\ presses'[r].stage \in {"idle", "done"}
    BY <1>13, <1>a, <1>b, PressRecords DEF Restart, PressesHold, HoldsController, Under
  <2>4. presses' \in [Presses -> Press]
    BY <1>13, <2>3 DEF Restart
  <2>5. places' \in [Visits -> Controller] /\ visit' = Nil
    BY <1>13 DEF Restart, FreshPlaces, Controller, Addresses, Coordinates
  <2>6. PressesHold'
    BY <2>3, <2>5 DEF PressesHold, HoldsController, Under
  <2> QED
    <3>1. LoginOnMain'
      BY <1>13 DEF Restart, LoginOnMain, NoLogin, OneLogin
    <3>2. DataTypes'
      <4>1. /\ signIns' = {} /\ login' = Nil /\ main' = <<>>
            /\ UNCHANGED <<documents, current, signedIn>>
        BY <1>13 DEF Restart
      <4> QED
        BY <4>1, <2>2, <2>4, <2>5, <1>a DEF DataTypes
    <3> QED
      BY <2>6, <3>1, <3>2 DEF DataInv
<1> QED
  BY <1>2, <1>4, <1>5, <1>6, <1>7, <1>8, <1>9, <1>10, <1>11, <1>12, <1>13 DEF Next

LEMMA DataHolds == Spec => [](ScreenInv /\ DataInv)
BY ScreenInit, ScreenNext, DataInit, DataNext, PTL DEF Spec

\* Every variable keeps its type: no completion comes to a press that is over,
\* none unwraps the e-mail of a controller that is gone.
THEOREM TypeCorrect == Spec => []TypeOK
<1>1. ScreenInv /\ DataInv => TypeOK
  BY DEF ScreenInv, ScreenTypes, DataInv, DataTypes, TypeOK
<1> QED
  BY <1>1, DataHolds, PTL

-----------------------------------------------------------------------------
(* The coordinates. *)

\* The coordinates of a place are there, and of its address unless that was
\* edited during a press.
Located(v, p) ==
  /\ places[v].coord[p] # Nil
  /\ ~ places[v].touched => places[v].coord[p] \in {places[v].address[p], Invalid}

\* A place that is waited for was asked about with its address; the others are
\* located, whichever press has been answered last.
GeocodesFit(r) ==
  Under(r) =>
    /\ places[presses[r].visit].address[Institution] # Nil
    /\ \A p \in Places :
         IF presses[r].stage = "geocode" /\ p \in presses[r].waiting
         THEN ~ places[presses[r].visit].touched
                => presses[r].asked[p] = places[presses[r].visit].address[p]
         ELSE Located(presses[r].visit, p)

GeoInv == \A r \in Presses : GeocodesFit(r)

\* What a step has to leave alone of a press.
SamePress(q) ==
  /\ Under(q)
  /\ presses'[q].visit = presses[q].visit
  /\ presses'[q].asked = presses[q].asked
  /\ presses'[q].waiting = presses[q].waiting
  /\ presses'[q].stage = "geocode" <=> presses[q].stage = "geocode"
  /\ places'[presses[q].visit] = places[presses[q].visit]

LEMMA GeoKept ==
  ASSUME GeoInv, NEW q \in Presses, Under(q)' => SamePress(q)
  PROVE  GeocodesFit(q)'
BY DEF GeoInv, GeocodesFit, SamePress, Located

LEMMA GeoInit == Init => GeoInv
BY PressRecords DEF Init, GeoInv, GeocodesFit, Under

LEMMA GeoNext == ScreenInv /\ DataInv /\ GeoInv /\ [Next]_vars => GeoInv'
<1> SUFFICES ASSUME ScreenInv, DataInv, GeoInv, [Next]_vars PROVE GeoInv'
  OBVIOUS
<1>a. /\ places \in [Visits -> Controller] /\ presses \in [Presses -> Press]
      /\ PressesHold /\ visit \in Visits \cup {Nil}
      /\ top = "places" <=> visit # Nil
      /\ login # Nil => login \in LoginCall
  BY DEF DataInv, DataTypes, ScreenInv, ScreenTypes, ScreensFit
<1>b. \A q \in Presses : Under(q) => presses[q].visit \in Visits
  BY <1>a DEF PressesHold, HoldsController
<1>0. ASSUME \A q \in Presses : Under(q)' => SamePress(q) PROVE GeoInv'
  BY <1>0, GeoKept DEF GeoInv
<1>1. ASSUME presses' = presses,
             \A v \in Visits : PressesOf(v) # {} => places'[v] = places[v]
      PROVE  GeoInv'
  <2>1. ASSUME NEW q \in Presses, Under(q)' PROVE SamePress(q)
    <3>1. Under(q)
      BY <1>1, <2>1 DEF Under
    <3>2. q \in PressesOf(presses[q].visit) /\ presses[q].visit \in Visits
      BY <3>1, <1>b DEF PressesOf
    <3> QED
      BY <1>1, <3>1, <3>2 DEF SamePress
  <2> QED
    BY <1>0, <2>1
<1>2. CASE \/ Register \/ ContinueStudent \/ CastCell \/ SwipeGivenUp \/ PerformMissingSegue
           \/ LoginAnswered \/ UNCHANGED vars
           \/ \E f \in Forms : ChooseForm(f)
           \/ \E e \in Emails : ContinueAdult(e) \/ LoginPressed(e) \/ SignInAnswered(e)
  BY <1>1, <1>2 DEF Register, ContinueStudent, CastCell, SwipeGivenUp, PerformMissingSegue,
     LoginAnswered, ChooseForm, ContinueAdult, LoginPressed, SignInAnswered, vars
<1>3. ASSUME presses' = presses, places' \in {places, Release(visit, PressesOf(visit))},
             visit = Nil => places' = places
      PROVE  GeoInv'
  BY <1>a, <1>1, <1>3, Released
<1>4. CASE Back \/ Cancel
  BY <1>a, <1>3, <1>4 DEF Back, Cancel
<1>5. ASSUME NEW v \in Visits, GoToPlaces(v) PROVE GeoInv'
  BY <1>a, <1>1, <1>5 DEF GoToPlaces
<1>6. ASSUME NEW p \in Places, NEW s \in Streets, SetAddress(p, s) PROVE GeoInv'
  <2>1. visit \in Visits /\ places[visit] \in Controller /\ presses' = presses
    BY <1>6, <1>a DEF SetAddress
  <2> DEFINE c == [[places[visit] EXCEPT !.address[p] = s]
                     EXCEPT !.touched = @ \/ PressesOf(visit) # {}]
  <2>2. places' = [places EXCEPT ![visit] = c]
    BY <1>6, <2>1, <1>a DEF SetAddress, Controller
  <2>3. /\ c.coord = places[visit].coord
        /\ PressesOf(visit) # {} => c.touched
        /\ places[visit].address[Institution] # Nil => c.address[Institution] # Nil
    BY <2>1, PlaceConstants DEF Controller, Addresses
  <2> HIDE DEF c
  <2>4. ASSUME NEW q \in Presses PROVE GeocodesFit(q)'
    <3>1. CASE Under(q) /\ presses[q].visit = visit
      <4>1. c.touched
        BY <3>1, <2>3 DEF PressesOf
      <4>2. /\ places[visit].address[Institution] # Nil
            /\ \A k \in Places : ~ (presses[q].stage = "geocode" /\ k \in presses[q].waiting)
                                => places[visit].coord[k] # Nil
        BY <3>1 DEF GeoInv, GeocodesFit, Located
      <4>3. places'[visit] = c
        BY <2>1, <2>2, <1>a
      <4> QED
        BY <2>1, <2>3, <3>1, <4>1, <4>2, <4>3 DEF GeocodesFit, Located, Under
    <3>2. CASE ~ (Under(q) /\ presses[q].visit = visit)
      <4>1. Under(q)' => SamePress(q)
        BY <2>1, <2>2, <3>2, <1>a, <1>b DEF SamePress, Under
      <4> QED
        BY <4>1, GeoKept
    <3> QED
      BY <3>1, <3>2
  <2> QED
    BY <2>4 DEF GeoInv
<1>7. ASSUME NEW r \in Presses, ContinuePressed(r) PROVE GeoInv'
  <2>1. visit \in Visits /\ places[visit] \in Controller /\ places' = places
    BY <1>7, <1>a DEF ContinuePressed
  <2> DEFINE new == [visit |-> visit, stage |-> "geocode",
                     asked |-> places[visit].address, waiting |-> Places]
  <2>2. presses' = [presses EXCEPT ![r] = new]
    BY <1>7 DEF ContinuePressed
  <2>3. GeocodesFit(r)'
    BY <1>7, <1>a, <2>1, <2>2 DEF GeocodesFit, ContinuePressed
  <2>4. ASSUME NEW q \in Presses, q # r PROVE GeocodesFit(q)'
    <3>1. Under(q)' => SamePress(q)
      BY <2>1, <2>2, <2>4, <1>a DEF SamePress, Under
    <3> QED
      BY <3>1, GeoKept
  <2> QED
    BY <2>3, <2>4 DEF GeoInv
<1>8. ASSUME NEW r \in Presses, NEW p \in Places, GeocodeAnswered(r, p) PROVE GeoInv'
  <2>0. PICK v \in Visits : v = presses[r].visit
    BY <1>8, <1>b DEF GeocodeAnswered, Under
  <2>1. Under(r) /\ presses[r].stage = "geocode" /\ p \in presses[r].waiting
    BY <1>8 DEF GeocodeAnswered, Under
  <2>2. PICK c \in {Invalid} \cup ({presses[r].asked[p]} \ {Nil}) :
          places' = [places EXCEPT ![v].coord[p] = c]
    BY <1>8, <2>0 DEF GeocodeAnswered, Found
  <2>3. c # Nil /\ (~ places[v].touched => c \in {places[v].address[p], Invalid})
    BY <2>0, <2>1, <2>2, PlaceConstants DEF GeoInv, GeocodesFit
  <2>4. /\ \A w \in Visits : w # v => places'[w] = places[w]
        /\ places'[v].address = places[v].address
        /\ places'[v].touched = places[v].touched
        /\ places'[v].coord[p] = c
        /\ \A k \in Places : k # p => places'[v].coord[k] = places[v].coord[k]
    <3> DEFINE d == [places[v] EXCEPT !.coord[p] = c]
    <3>1. places' = [places EXCEPT ![v] = d]
      BY <2>1, <2>2, <1>a DEF Controller
    <3>2. /\ d.address = places[v].address /\ d.touched = places[v].touched
          /\ d.coord[p] = c /\ \A k \in Places : k # p => d.coord[k] = places[v].coord[k]
      BY <2>1, <1>a DEF Controller, Coordinates
    <3> HIDE DEF d
    <3> QED
      BY <3>1, <3>2, <2>1, <1>a
  <2>5. \A w \in Visits, k \in Places :
          Located(w, k) \/ (w = v /\ k = p) => Located(w, k)'
    BY <2>3, <2>4 DEF Located
  <2> DEFINE rest == presses[r].waiting \ {p}
             new == [[[presses[r] EXCEPT !.waiting = rest] EXCEPT !.asked[p] = Nil]
                       EXCEPT !.stage = IF rest = {} THEN "notify" ELSE "geocode"]
  <2>6. presses' = [presses EXCEPT ![r] = new]
    BY <1>8, <1>a DEF GeocodeAnswered, Press
  <2>7. /\ new.visit = v /\ new.waiting = rest
        /\ rest = {} => new.stage = "notify"
        /\ rest # {} => new.stage = "geocode"
        /\ \A k \in Places : k # p => new.asked[k] = presses[r].asked[k]
    BY <2>0, <1>a DEF Press, Addresses
  <2>8. presses'[r] = new /\ \A q \in Presses : q # r => presses'[q] = presses[q]
    BY <2>6, <1>a
  <2> HIDE DEF new
  <2>9. GeocodesFit(r)'
    <3>1. GeocodesFit(r)
      BY DEF GeoInv
    <3>2. \A k \in Places : k \in rest => k # p /\ k \in presses[r].waiting
      OBVIOUS
    <3>3. \A k \in Places : k \notin rest => Located(v, k)'
      BY <3>1, <2>0, <2>1, <2>5 DEF GeocodesFit
    <3> HIDE DEF rest
    <3>4. presses'[r].visit = v
      BY <2>7, <2>8
    <3>5. places'[v].address[Institution] # Nil
      BY <3>1, <2>0, <2>1, <2>4 DEF GeocodesFit
    <3>6. \A k \in rest \cap Places : ~ places[v].touched
             => presses[r].asked[k] = places[v].address[k]
      BY <3>1, <3>2, <2>0, <2>1 DEF GeocodesFit
    <3>7. \A k \in rest \cap Places : ~ places'[v].touched
             => presses'[r].asked[k] = places'[v].address[k]
      BY <3>2, <3>6, <2>4, <2>7, <2>8 DEF rest
    <3> QED
      BY <3>3, <3>4, <3>5, <3>7, <2>7, <2>8 DEF GeocodesFit, Located
  <2>10. ASSUME NEW q \in Presses, q # r PROVE GeocodesFit(q)'
    <3>1. CASE presses[q].visit # v
      <4>1. Under(q)' => SamePress(q)
        BY <2>4, <2>8, <2>10, <3>1, <1>b DEF SamePress, Under
      <4> QED
        BY <4>1, GeoKept
    <3>2. CASE presses[q].visit = v
      <4>1. GeocodesFit(q) /\ presses'[q] = presses[q]
        BY <2>8, <2>10 DEF GeoInv
      <4> QED
        BY <2>0, <2>1, <2>4, <2>5, <3>2, <4>1 DEF GeocodesFit, Under
    <3> QED
      BY <3>1, <3>2
  <2> QED
    BY <2>9, <2>10 DEF GeoInv
<1>9. ASSUME NEW r \in Presses, NEW stage \in PressStages \ {"geocode"}, MoveTo(r, stage),
             Under(r), presses[r].stage # "geocode", places' = places
      PROVE  GeoInv'
  <2>1. \A q \in Presses : Under(q)' => SamePress(q)
    BY <1>9, <1>a DEF MoveTo, SamePress, Under, Press
  <2> QED
    BY <1>0, <2>1
<1>10. ASSUME NEW r \in Presses,
              SignUpExecuted(r) \/ SignUpFails(r) \/ InfoAnswered(r) \/ InfoFails(r) \/ Notify(r)
       PROVE  GeoInv'
  <2>1. Under(r) /\ presses[r].stage # "geocode" /\ places' = places
    BY <1>10 DEF SignUpExecuted, SignUpFails, InfoAnswered, InfoFails, Notify, Under
  <2>2. \E stage \in {"info", "refused", "created", "signup"} : MoveTo(r, stage)
    BY <1>10 DEF SignUpExecuted, SignUpFails, InfoAnswered, InfoFails, Notify
  <2>3. {"info", "refused", "created", "signup"} \subseteq PressStages \ {"geocode"}
    BY DEF PressStages
  <2> QED
    BY <1>9, <2>1, <2>2, <2>3
<1>11. ASSUME NEW r \in Presses, CreateUserReturns(r) PROVE GeoInv'
  <2>1. Under(r) /\ presses[r].visit \in Visits
    BY <1>11, <1>b DEF CreateUserReturns, Under
  <2>2. /\ presses'[r].stage = "done"
        /\ \A q \in Presses : q # r => presses'[q] = presses[q]
    BY <1>11, <1>a, PressRecords DEF CreateUserReturns
  <2>3. \A q \in Presses \ {r} : presses[q].visit \in Visits
          => places'[presses[q].visit] = places[presses[q].visit]
    BY <1>11, <2>1, <1>a, Released DEF CreateUserReturns, PressesOf
  <2>4. \A q \in Presses : Under(q)' => SamePress(q)
    BY <2>2, <2>3, <1>b DEF Under, SamePress
  <2> QED
    BY <1>0, <2>4
<1>12. CASE RunBlock
  <2>1. LoginReturns \/ \E r \in Presses : Notify(r) \/ CreateUserReturns(r)
    BY <1>12 DEF RunBlock
  <2>2. LoginReturns => GeoInv'
    BY <1>a, <1>3 DEF LoginReturns
  <2> QED
    BY <2>1, <2>2, <1>10, <1>11
<1>13. CASE Restart
  <2>1. \A r \in Presses : ~ Under(r)'
    BY <1>13, PressRecords DEF Restart, Under
  <2> QED
    BY <2>1 DEF GeoInv, GeocodesFit
<1> QED
  BY <1>2, <1>4, <1>5, <1>6, <1>7, <1>8, <1>10, <1>12, <1>13 DEF Next, PressAnswer

\* The completion of createUser finds coordinates for every place, those of its
\* address unless that was edited during a press, for any number of presses
\* and controllers and any order of the answers.
THEOREM CoordinatesFit == Spec => []PlacesBelongTogether
<1>1. GeoInv => PlacesBelongTogether
  BY DEF GeoInv, GeocodesFit, Located, PlacesBelongTogether, Under
<1> QED
  BY <1>1, ScreenInit, ScreenNext, DataInit, DataNext, GeoInit, GeoNext, PTL DEF Spec

-----------------------------------------------------------------------------
(* The accounts. *)

SameEmail(r) == Under(r) /\ EmailOf(r)' = EmailOf(r)

\* A press keeps its e-mail until it is over.
LEMMA EmailsStay ==
  ASSUME ScreenInv, DataInv, [Next]_vars, NEW r \in Presses, Under(r)', ~ ContinuePressed(r)
  PROVE  SameEmail(r)
<1> USE SlotConstants DEF screens
<1>a. /\ places \in [Visits -> Controller] /\ presses \in [Presses -> Press]
      /\ visit \in Visits \cup {Nil}
      /\ top = "places" <=> visit # Nil
  BY DEF DataInv, DataTypes, ScreenInv, ScreenTypes, ScreensFit
<1>b. \A q \in Presses : Under(q) => presses[q].visit \in Visits
  BY DEF DataInv, PressesHold, HoldsController
<1>1. ASSUME presses'[r].visit = presses[r].visit, Under(r),
             \A v \in Visits : PressesOf(v) # {} => places'[v].email = places[v].email
      PROVE  SameEmail(r)
  <2>1. r \in PressesOf(presses[r].visit) /\ presses[r].visit \in Visits
    BY <1>1, <1>b DEF PressesOf
  <2> QED
    BY <1>1, <2>1 DEF SameEmail, EmailOf
<1>2. ASSUME presses' = presses, places' \in {places, Release(visit, PressesOf(visit))},
             visit = Nil => places' = places
      PROVE  SameEmail(r)
  <2>1. Under(r)
    BY <1>2 DEF Under
  <2> QED
    BY <1>a, <1>1, <1>2, <2>1, Released
<1>3. CASE \/ Register \/ ContinueStudent \/ CastCell \/ SwipeGivenUp \/ PerformMissingSegue
           \/ LoginAnswered \/ UNCHANGED vars \/ Back \/ Cancel
           \/ \E f \in Forms : ChooseForm(f)
           \/ \E e \in Emails : ContinueAdult(e) \/ LoginPressed(e) \/ SignInAnswered(e)
  BY <1>a, <1>2, <1>3 DEF Register, ContinueStudent, CastCell, SwipeGivenUp,
     PerformMissingSegue, LoginAnswered, ChooseForm, ContinueAdult, LoginPressed,
     SignInAnswered, vars, Back, Cancel
<1>4. ASSUME NEW v \in Visits, GoToPlaces(v) PROVE SameEmail(r)
  <2>1. /\ presses' = presses /\ PressesOf(v) = {}
        /\ \A w \in Visits : w # v => places'[w] = places[w]
    BY <1>4, <1>a DEF GoToPlaces
  <2>2. Under(r)
    BY <2>1 DEF Under
  <2> QED
    BY <1>1, <2>1, <2>2
<1>5. ASSUME NEW p \in Places, NEW s \in Streets, SetAddress(p, s) PROVE SameEmail(r)
  <2>1. visit \in Visits /\ presses' = presses
    BY <1>5, <1>a DEF SetAddress
  <2>2. \A w \in Visits : places'[w].email = places[w].email
    BY <1>5, <1>a, <2>1 DEF SetAddress, Controller
  <2>3. Under(r)
    BY <2>1 DEF Under
  <2> QED
    BY <1>1, <2>1, <2>2, <2>3
<1>6. ASSUME NEW q \in Presses, ContinuePressed(q) PROVE SameEmail(r)
  <2>1. q # r /\ presses'[r] = presses[r] /\ places' = places
    BY <1>6, <1>a DEF ContinuePressed
  <2>2. Under(r)
    BY <2>1 DEF Under
  <2> QED
    BY <1>1, <2>1, <2>2
<1>7. ASSUME NEW q \in Presses, NEW p \in Places, GeocodeAnswered(q, p) PROVE SameEmail(r)
  <2>1. Under(q) /\ presses[q].visit \in Visits
    BY <1>7, <1>b DEF GeocodeAnswered, Under
  <2>2. \A w \in Visits : places'[w].email = places[w].email
    BY <1>7, <1>a, <2>1 DEF GeocodeAnswered, Found, Controller
  <2>3. presses'[r].visit = presses[r].visit
    BY <1>7, <1>a DEF GeocodeAnswered, Press
  <2>4. r # q => presses'[r] = presses[r]
    BY <1>7, <1>a DEF GeocodeAnswered
  <2>5. Under(r)
    BY <2>1, <2>4 DEF Under
  <2> QED
    BY <1>1, <2>2, <2>3, <2>5
<1>8. ASSUME NEW q \in Presses,
             SignUpExecuted(q) \/ SignUpFails(q) \/ InfoAnswered(q) \/ InfoFails(q) \/ Notify(q)
      PROVE  SameEmail(r)
  <2>1. Under(q) /\ places' = places
    BY <1>8 DEF SignUpExecuted, SignUpFails, InfoAnswered, InfoFails, Notify, Under
  <2>2. \E stage \in {"info", "refused", "created", "signup"} : MoveTo(q, stage)
    BY <1>8 DEF SignUpExecuted, SignUpFails, InfoAnswered, InfoFails, Notify
  <2>3. presses'[r].visit = presses[r].visit /\ (r # q => presses'[r] = presses[r])
    BY <1>a, <2>2 DEF MoveTo, Press
  <2>4. Under(r)
    BY <2>1, <2>3 DEF Under
  <2> QED
    BY <1>1, <2>1, <2>3, <2>4
<1>9. ASSUME NEW q \in Presses, CreateUserReturns(q) PROVE SameEmail(r)
  <2>1. Under(q) /\ presses[q].visit \in Visits
    BY <1>9, <1>b DEF CreateUserReturns, Under
  <2>2. presses'[q].stage = "done" /\ (q # r => presses'[r] = presses[r])
    BY <1>9, <1>a, PressRecords DEF CreateUserReturns
  <2>3. q # r /\ Under(r)
    BY <2>2 DEF Under
  <2>4. presses[r].visit \in Visits
    BY <2>3, <1>b
  <2>5. places'[presses[r].visit] = places[presses[r].visit]
    BY <1>9, <1>a, <2>1, <2>3, <2>4, Released DEF CreateUserReturns, PressesOf
  <2> QED
    BY <2>2, <2>3, <2>5 DEF SameEmail, EmailOf
<1>10. CASE RunBlock
  <2>1. LoginReturns \/ \E q \in Presses : Notify(q) \/ CreateUserReturns(q)
    BY <1>10 DEF RunBlock
  <2>2. LoginReturns => SameEmail(r)
    BY <1>a, <1>2 DEF LoginReturns
  <2> QED
    BY <2>1, <2>2, <1>8, <1>9
<1>11. ~ Restart
  BY PressRecords DEF Restart, Under
<1> QED
  BY <1>3, <1>4, <1>5, <1>6, <1>7, <1>8, <1>10, <1>11 DEF Next, PressAnswer

\* Between its sign-up and its completion a press is the only one that will
\* queue the documents of its e-mail, and they are not queued yet.
SignsUp(r) == presses[r].stage \in {"info", "created"}

SignUpsFit ==
  /\ \A r \in Presses : SignsUp(r) => EmailOf(r) \in accounts /\ ~ HasQueued(EmailOf(r))
  /\ \A r, q \in Presses : SignsUp(r) /\ SignsUp(q) /\ EmailOf(r) = EmailOf(q) => r = q

\* Whoever is, or is about to be, at Home has an account, and once Auth has
\* told anybody of a success there is a current user.
UsersFit ==
  /\ {current, signedIn} \subseteq accounts \cup {Nil}
  /\ \A r \in Presses : presses[r].stage = "created" => current # Nil
  /\ login # Nil /\ login.result = "ok" => login.email \in accounts /\ current # Nil
  /\ top = "home" => signedIn # Nil
  /\ signedIn # Nil => current # Nil

AccountInv == QueuedOnce /\ SignUpsFit /\ UsersFit

LEMMA AccountInit == Init => AccountInv
<1> SUFFICES ASSUME Init PROVE AccountInv
  OBVIOUS
<1>1. /\ top = "login" /\ signedIn = Nil /\ login = Nil /\ current = Nil
      /\ \A r \in Presses : presses[r].stage = "idle"
      /\ \A e \in Emails : documents[e] = <<>>
  BY PressRecords DEF Init
<1> QED
  BY <1>1 DEF AccountInv, QueuedOnce, SignUpsFit, UsersFit, SignsUp

\* The documents of a registration that has none are queued.
LEMMA OneMore ==
  ASSUME documents \in [Emails -> Seq(Emails)], QueuedOnce,
         NEW a \in Emails \cap accounts, NEW e \in Emails \cap accounts, ~ HasQueued(e),
         documents' = [documents EXCEPT ![a] = Append(@, e)], accounts' = accounts
  PROVE  /\ QueuedOnce'
         /\ \A f \in Emails : HasQueued(f)' <=> HasQueued(f) \/ f = e
<1> DEFINE n == Len(documents[a])
<1>1. /\ n \in Nat /\ documents'[a] = Append(documents[a], e)
      /\ \A b \in Emails : b # a => documents'[b] = documents[b]
  OBVIOUS
<1>2. Len(documents'[a]) = n + 1 /\ documents'[a][n + 1] = e
      /\ \A i \in 1..n : documents'[a][i] = documents[a][i]
  BY <1>1
<1>3. \A b \in Emails : \A i \in 1..Len(documents[b]) :
        i \in 1..Len(documents'[b]) /\ documents'[b][i] = documents[b][i]
  <2> TAKE b \in Emails
  <2>1. CASE b = a
    BY <1>1, <1>2, <2>1
  <2>2. CASE b # a
    BY <1>1, <2>2
  <2> QED
    BY <2>1, <2>2
<1>4. \A b \in Emails : \A i \in 1..Len(documents'[b]) :
        i \in 1..Len(documents[b]) \/ (b = a /\ i = n + 1)
  <2> TAKE b \in Emails
  <2>1. CASE b = a
    BY <1>1, <1>2, <2>1
  <2>2. CASE b # a
    BY <1>1, <2>2
  <2> QED
    BY <2>1, <2>2
<1>5. n + 1 \in 1..Len(documents'[a])
  BY <1>1, <1>2
<1> HIDE DEF n
<1>6. QueuedOnce'
  <2> SUFFICES ASSUME NEW b \in Emails, NEW c \in Emails,
                      NEW i \in 1..Len(documents'[b]), NEW j \in 1..Len(documents'[c])
               PROVE  /\ documents'[b][i] = documents'[c][j] => b = c /\ i = j
                      /\ {b, documents'[b][i]} \subseteq accounts
    BY DEF QueuedOnce
  <2>1. ASSUME NEW d \in Emails, NEW k \in 1..Len(documents[d])
        PROVE  documents'[d][k] # e /\ {d, documents'[d][k]} \subseteq accounts
    BY <1>3, <2>1 DEF HasQueued, QueuedOnce
  <2>2. CASE i \in 1..Len(documents[b]) /\ j \in 1..Len(documents[c])
    BY <1>3, <2>2 DEF QueuedOnce
  <2>3. CASE i \in 1..Len(documents[b]) /\ c = a /\ j = n + 1
    BY <1>2, <2>1, <2>3
  <2>4. CASE b = a /\ i = n + 1 /\ j \in 1..Len(documents[c])
    BY <1>2, <2>1, <2>4
  <2>5. CASE b = a /\ i = n + 1 /\ c = a /\ j = n + 1
    BY <1>2, <2>5
  <2> QED
    BY <1>4, <2>2, <2>3, <2>4, <2>5
<1>7. ASSUME NEW f \in Emails PROVE HasQueued(f)' <=> HasQueued(f) \/ f = e
  <2>1. HasQueued(f) => HasQueued(f)'
    BY <1>3 DEF HasQueued
  <2>2. f = e => HasQueued(f)'
    BY <1>2, <1>5 DEF HasQueued
  <2>3. HasQueued(f)' => HasQueued(f) \/ f = e
    BY <1>2, <1>3, <1>4 DEF HasQueued
  <2> QED
    BY <2>1, <2>2, <2>3
<1> QED
  BY <1>6, <1>7

LEMMA AccountNext == ScreenInv /\ DataInv /\ AccountInv /\ [Next]_vars => AccountInv'
<1> SUFFICES ASSUME ScreenInv, DataInv, AccountInv, [Next]_vars PROVE AccountInv'
  OBVIOUS
<1> USE SlotConstants DEF screens, auth, server
<1>a. /\ presses \in [Presses -> Press] /\ signedIn \in Emails \cup {Nil}
      /\ login \in {Nil} \cup LoginCall /\ accounts \subseteq Emails
      /\ documents \in [Emails -> Seq(Emails)]
      /\ \A r \in Presses : Under(r) => EmailOf(r) \in Emails
  BY DEF DataInv, DataTypes, PressesHold, HoldsController, EmailOf, Controller
<1>b. QueuedOnce /\ SignUpsFit /\ UsersFit
  BY DEF AccountInv
<1>c. \A r \in Presses : Under(r)' /\ ~ ContinuePressed(r) => SameEmail(r)
  BY EmailsStay
<1>d. \A r \in Presses : SignsUp(r) => Under(r)
  BY DEF SignsUp, Under
<1>e. \A r \in Presses : ~ (ContinuePressed(r) /\ SignsUp(r)')
  BY <1>a DEF ContinuePressed, SignsUp, Press
<1>f. \A r \in Presses : SignsUp(r)' => Under(r)' /\ EmailOf(r)' = EmailOf(r)
  BY <1>c, <1>e DEF SignsUp, Under, SameEmail
<1>1. ASSUME documents' = documents, accounts \subseteq accounts',
             \A r \in Presses : SignsUp(r)' => SignsUp(r)
      PROVE  QueuedOnce' /\ SignUpsFit'
  <2>1. QueuedOnce'
    BY <1>1, <1>b DEF QueuedOnce
  <2>2. SignUpsFit'
    BY <1>1, <1>b, <1>f DEF SignUpsFit, HasQueued
  <2> QED
    BY <2>1, <2>2
<1>2. ASSUME accounts \subseteq accounts', current' \in {current} \cup (accounts \ {Nil}),
             signedIn' = signedIn, top' = "home" => top = "home",
             \A r \in Presses : presses'[r].stage = "created"
                                  => presses[r].stage = "created" \/ current' # Nil,
             login' # Nil /\ login'.result = "ok" => login' = login
      PROVE  UsersFit'
  BY <1>2, <1>b DEF UsersFit
<1>3. ASSUME presses' = presses, UNCHANGED <<server, auth>>, top' = "home" => top = "home"
      PROVE  AccountInv'
  BY <1>1, <1>2, <1>3 DEF SignsUp, AccountInv
<1>4. CASE \/ Register \/ ContinueStudent \/ CastCell \/ SwipeGivenUp \/ PerformMissingSegue
           \/ UNCHANGED vars \/ Back \/ Cancel
           \/ \E f \in Forms : ChooseForm(f)
           \/ \E e \in Emails : ContinueAdult(e)
           \/ \E v \in Visits : GoToPlaces(v)
           \/ \E p \in Places, s \in Streets : SetAddress(p, s)
  <2>1. presses' = presses /\ UNCHANGED <<server, auth>>
    BY <1>4 DEF Register, ContinueStudent, CastCell, SwipeGivenUp, PerformMissingSegue,
       ChooseForm, ContinueAdult, vars, Back, Cancel, GoToPlaces, SetAddress
  <2>2. top' = "home" => top = "home"
    <3>1. CASE UNCHANGED top
      BY <3>1
    <3>2. CASE \/ Register \/ ContinueStudent \/ Back \/ Cancel
               \/ \E f \in Forms : ChooseForm(f)
               \/ \E e \in Emails : ContinueAdult(e)
               \/ \E v \in Visits : GoToPlaces(v)
      BY <3>2, ScreenConstants DEF Register, ContinueStudent, ChooseForm, ContinueAdult,
         Back, Cancel, GoToPlaces, Forms, Choices, ScreenInv, ScreenTypes, ScreensFit
    <3> QED
      BY <1>4, <3>1, <3>2 DEF CastCell, SwipeGivenUp, PerformMissingSegue, SetAddress, vars
  <2> QED
    BY <1>3, <2>1, <2>2
<1>5. ASSUME NEW r \in Presses, NEW p \in Places, GeocodeAnswered(r, p) PROVE AccountInv'
  <2>1. /\ presses[r].stage = "geocode" /\ presses'[r].stage \in {"geocode", "notify"}
        /\ \A q \in Presses : q # r => presses'[q] = presses[q]
        /\ UNCHANGED <<screens, server, auth>>
    BY <1>5, <1>a DEF GeocodeAnswered, Press
  <2> QED
    BY <1>1, <1>2, <2>1 DEF SignsUp, AccountInv
<1>6. ASSUME NEW r \in Presses, Notify(r) \/ SignUpFails(r) \/ InfoFails(r) PROVE AccountInv'
  <2>1. /\ presses'[r].stage \in {"signup", "refused"}
        /\ \A q \in Presses : q # r => presses'[q] = presses[q]
        /\ UNCHANGED <<screens, auth, documents>> /\ accounts \subseteq accounts'
    BY <1>6, <1>a DEF Notify, SignUpFails, InfoFails, MoveTo, Press
  <2> QED
    BY <1>1, <1>2, <2>1 DEF SignsUp, AccountInv
<1>7. ASSUME NEW r \in Presses, ContinuePressed(r) PROVE AccountInv'
  <2>1. /\ presses'[r].stage = "geocode"
        /\ \A q \in Presses : q # r => presses'[q] = presses[q]
        /\ UNCHANGED <<screens, server, auth>>
    BY <1>7, <1>a DEF ContinuePressed
  <2> QED
    BY <1>1, <1>2, <2>1 DEF SignsUp, AccountInv
<1>8. ASSUME NEW r \in Presses, SignUpExecuted(r) PROVE AccountInv'
  <2>1. /\ presses[r].stage = "signup" /\ presses'[r].stage = "info"
        /\ EmailOf(r) \notin accounts /\ accounts' = accounts \cup {EmailOf(r)}
        /\ \A q \in Presses : q # r => presses'[q] = presses[q]
        /\ UNCHANGED <<screens, documents, auth>>
    BY <1>8, <1>a DEF SignUpExecuted, MoveTo, Press
  <2>2. EmailOf(r) \in Emails
    BY <1>a, <2>1 DEF Under
  <2>3. ~ HasQueued(EmailOf(r))
    BY <1>b, <2>1 DEF HasQueued, QueuedOnce
  <2>4. \A q \in Presses : SignsUp(q)' => q = r \/ (SignsUp(q) /\ EmailOf(q) # EmailOf(r))
    BY <1>b, <2>1 DEF SignsUp, SignUpsFit
  <2>5. SignUpsFit'
    BY <1>b, <1>f, <2>1, <2>3, <2>4 DEF SignUpsFit, HasQueued
  <2>6. QueuedOnce'
    BY <1>b, <2>1 DEF QueuedOnce
  <2>7. UsersFit'
    BY <1>2, <2>1
  <2> QED
    BY <2>5, <2>6, <2>7 DEF AccountInv
<1>9. ASSUME NEW r \in Presses, InfoAnswered(r) PROVE AccountInv'
  <2>1. /\ presses[r].stage = "info" /\ current' = EmailOf(r)
        /\ \A q \in Presses : q # r => presses'[q] = presses[q]
        /\ UNCHANGED <<screens, server, signIns, login, signedIn>>
    BY <1>9, <1>a DEF InfoAnswered, MoveTo, Press
  <2>2. EmailOf(r) \in accounts /\ EmailOf(r) # Nil
    BY <1>a, <1>b, <2>1 DEF SignUpsFit, SignsUp, Under
  <2> QED
    BY <1>1, <1>2, <2>1, <2>2 DEF SignsUp, AccountInv
<1>10. ASSUME NEW e \in Emails, SignInAnswered(e) PROVE AccountInv'
  <2>1. /\ presses' = presses /\ current' \in {current} \cup (accounts \ {Nil})
        /\ UNCHANGED <<screens, server, login, signedIn>>
    BY <1>10, <1>a DEF SignInAnswered
  <2> QED
    BY <1>1, <1>2, <2>1 DEF SignsUp, AccountInv
<1>11. ASSUME NEW e \in Emails, LoginPressed(e) PROVE AccountInv'
  <2>1. /\ presses' = presses /\ login'.result = "asked"
        /\ UNCHANGED <<screens, server, current, signIns, signedIn>>
    BY <1>11 DEF LoginPressed
  <2> QED
    BY <1>1, <1>2, <2>1 DEF SignsUp, AccountInv
<1>12. CASE LoginAnswered
  <2>1. /\ presses' = presses /\ login # Nil /\ login \in LoginCall
        /\ UNCHANGED <<screens, server, signIns, signedIn>>
    BY <1>12, <1>a DEF LoginAnswered
  <2>2. \/ /\ login'.email = login.email /\ current' = login.email
           /\ login.email \in accounts /\ login.email # Nil
        \/ login'.result = "failed" /\ current' = current
    BY <1>12, <1>a, <2>1 DEF LoginAnswered, LoginCall
  <2>3. UsersFit'
    BY <1>b, <2>1, <2>2 DEF UsersFit
  <2> QED
    BY <1>1, <2>1, <2>3 DEF SignsUp, AccountInv
<1>13. ASSUME NEW r \in Presses, CreateUserReturns(r) PROVE AccountInv'
  <2>1. /\ presses'[r].stage = "done"
        /\ \A q \in Presses : q # r => presses'[q] = presses[q]
        /\ UNCHANGED <<screens, accounts, current, login, signedIn>>
    BY <1>13, <1>a, PressRecords DEF CreateUserReturns
  <2>2. \A q \in Presses : SignsUp(q)' => SignsUp(q) /\ q # r
    BY <2>1 DEF SignsUp
  <2>3. UsersFit'
    <3>1. \A q \in Presses : presses'[q].stage = "created" => presses[q].stage = "created"
      BY <2>1
    <3> QED
      BY <1>2, <2>1, <3>1
  <2>4. CASE presses[r].stage = "refused"
    <3>1. documents' = documents
      BY <1>13, <2>4 DEF CreateUserReturns, Succeeded
    <3> QED
      BY <1>1, <2>1, <2>2, <2>3, <3>1 DEF AccountInv
  <2>5. CASE presses[r].stage = "created"
    <3>1. /\ SignsUp(r) /\ current # Nil /\ current \in Emails \cap accounts
          /\ EmailOf(r) \in Emails \cap accounts /\ ~ HasQueued(EmailOf(r))
      BY <1>a, <1>b, <2>5 DEF SignsUp, UsersFit, SignUpsFit
    <3>2. documents' = [documents EXCEPT ![current] = Append(@, EmailOf(r))]
      BY <1>13, <2>5, <3>1 DEF CreateUserReturns, Succeeded
    <3>3. /\ QueuedOnce'
          /\ \A f \in Emails : HasQueued(f)' <=> HasQueued(f) \/ f = EmailOf(r)
      BY <1>a, <1>b, <2>1, <3>1, <3>2, OneMore
    <3>4. ASSUME NEW q \in Presses, SignsUp(q)'
          PROVE  EmailOf(q)' \in accounts /\ ~ HasQueued(EmailOf(q))'
      <4>1. SignsUp(q) /\ q # r /\ EmailOf(q)' = EmailOf(q)
        BY <1>f, <2>2, <3>4
      <4>2. EmailOf(q) \in accounts /\ EmailOf(q) # EmailOf(r) /\ ~ HasQueued(EmailOf(q))
        BY <1>b, <3>1, <4>1 DEF SignUpsFit
      <4>3. ASSUME NEW f \in Emails, f = EmailOf(q) PROVE ~ HasQueued(f)'
        BY <3>3, <4>2, <4>3
      <4>4. EmailOf(q) \in Emails
        BY <1>a, <4>2
      <4>5. \A a \in Emails : \A i \in 1..Len(documents'[a]) : documents'[a][i] # EmailOf(q)
        BY <4>3, <4>4 DEF HasQueued
      <4> QED
        BY <2>1, <4>1, <4>2, <4>5 DEF HasQueued
    <3>5. SignUpsFit'
      BY <1>b, <1>f, <2>1, <2>2, <3>4 DEF SignUpsFit
    <3> QED
      BY <2>3, <3>3, <3>5 DEF AccountInv
  <2> QED
    BY <1>13, <2>4, <2>5 DEF CreateUserReturns
<1>14. CASE RunBlock /\ Head(main) = Login /\ LoginReturns
  <2>1. presses' = presses /\ UNCHANGED <<server, current, signIns>> /\ login' = Nil
    BY <1>14 DEF LoginReturns
  <2>2. login # Nil
    <3>1. main # <<>> /\ main \in Seq(Presses \cup {Login}) /\ LoginOnMain
      BY <1>14 DEF RunBlock, DataInv, DataTypes
    <3> QED
      BY <3>1, <1>14, TailOfMain DEF LoginOnMain
  <2>3. UsersFit'
    <3>1. CASE login.result = "ok" /\ signedIn' = login.email /\ top' = "home"
      <4>1. login.email \in accounts /\ current # Nil
        BY <1>b, <2>2, <3>1 DEF UsersFit
      <4>2. login.email # Nil
        BY <1>a, <4>1
      <4> QED
        BY <1>b, <2>1, <3>1, <4>1, <4>2 DEF UsersFit
    <3>2. CASE UNCHANGED <<signedIn, top>>
      BY <1>2, <2>1, <3>2
    <3> QED
      BY <1>14, <3>1, <3>2 DEF LoginReturns
  <2> QED
    BY <1>1, <2>1, <2>3 DEF SignsUp, AccountInv
<1>15. CASE Restart
  <2>1. \A r \in Presses : presses'[r].stage \in {"idle", "done"}
    BY <1>15, PressRecords DEF Restart, Under
  <2>2. /\ login' = Nil /\ accounts \subseteq accounts'
        /\ UNCHANGED <<documents, current, signedIn>>
        /\ top' = IF signedIn # Nil THEN "home" ELSE "login"
    BY <1>15 DEF Restart
  <2>3. UsersFit'
    BY <1>b, <2>1, <2>2 DEF UsersFit
  <2> QED
    BY <1>1, <2>1, <2>2, <2>3 DEF SignsUp, AccountInv
<1>16. CASE RunBlock
  BY <1>6, <1>13, <1>14, <1>16 DEF RunBlock
<1> QED
  BY <1>4, <1>5, <1>6, <1>7, <1>8, <1>9, <1>10, <1>11, <1>12, <1>15, <1>16
     DEF Next, PressAnswer

\* However registrations, presses of Continue, logins and restarts overlap, no
\* registration is queued twice or for somebody without an account, and Home
\* has a user, although every call of Auth writes the same current user.
THEOREM RegistrationsAreOnce == Spec => []RegisteredOnce
<1>1. AccountInv => RegisteredOnce
  BY SlotConstants DEF AccountInv, UsersFit, RegisteredOnce
<1> QED
  BY <1>1, ScreenInit, ScreenNext, DataInit, DataNext, AccountInit, AccountNext, PTL DEF Spec

-----------------------------------------------------------------------------
(* Nothing is left undone: what the liveness of a registration rests on. *)

\* What the main queue is to run: the completion of a login that has been
\* answered, the notification of a group, the completion of a createUser.
Block == Presses \cup {Login}
Expected(b) == IF b = Login THEN login # Nil /\ login.result # "asked"
                            ELSE presses[b].stage \in {"notify", "created", "refused"}
OnMain(b) == \E i \in 1..Len(main) : main[i] = b
OnceEach == \A i, j \in 1..Len(main) : main[i] = main[j] => i = j

\* The main queue holds exactly the blocks that are to run, each once: its
\* first block always finds what it was put there for, and no login or press
\* waits for a block that does not come.
BlocksFit == OnceEach /\ \A b \in Block : OnMain(b) <=> Expected(b)

\* A press that is geocoding has an answer to come.
AnswersCome ==
  \A r \in Presses : presses[r].stage = "geocode" => presses[r].waiting # {}

LEMMA BlockAdded ==
  ASSUME main \in Seq(Block), OnceEach, NEW b \in Block, ~ OnMain(b), main' = Append(main, b)
  PROVE  OnceEach' /\ \A c : OnMain(c)' <=> OnMain(c) \/ c = b
<1>1. /\ Len(main) \in Nat /\ Len(main') = Len(main) + 1
      /\ \A i \in 1..Len(main') : main'[i] = IF i = Len(main) + 1 THEN b ELSE main[i]
  BY AppendProperties
<1>2. OnceEach'
  BY <1>1 DEF OnceEach, OnMain
<1>3. ASSUME NEW c PROVE OnMain(c)' <=> OnMain(c) \/ c = b
  <2>1. Len(main) + 1 \in 1..Len(main') /\ \A i \in 1..Len(main) : i \in 1..Len(main') /\ i # Len(main) + 1
    BY <1>1
  <2>2. \A i \in 1..Len(main') : i = Len(main) + 1 \/ i \in 1..Len(main)
    BY <1>1
  <2> QED
    BY <1>1, <2>1, <2>2 DEF OnMain
<1> QED
  BY <1>2, <1>3

LEMMA BlockTaken ==
  ASSUME main \in Seq(Block), OnceEach, main # <<>>, main' = Tail(main)
  PROVE  /\ OnceEach' /\ OnMain(Head(main))
         /\ \A c : OnMain(c)' <=> OnMain(c) /\ c # Head(main)
<1>1. /\ Len(main) \in Nat /\ Len(main) > 0 /\ Len(main') = Len(main) - 1
      /\ \A i \in 1..Len(main') : main'[i] = main[i + 1]
      /\ Head(main) = main[1]
  BY HeadTailProperties, EmptySeq
<1>2. /\ 1 \in 1..Len(main)
      /\ \A i \in 1..Len(main') : i + 1 \in 1..Len(main) /\ i + 1 # 1
      /\ \A i \in 1..Len(main) : i = 1 \/ (i - 1 \in 1..Len(main') /\ (i - 1) + 1 = i)
      /\ \A i, j \in 1..Len(main') : i + 1 = j + 1 => i = j
  BY <1>1
<1>3. OnceEach'
  BY <1>1, <1>2 DEF OnceEach
<1>4. ASSUME NEW c PROVE OnMain(c)' <=> OnMain(c) /\ c # Head(main)
  <2>1. OnMain(c)' => OnMain(c) /\ c # Head(main)
    BY <1>1, <1>2 DEF OnMain, OnceEach
  <2>2. ASSUME NEW i \in 1..Len(main), main[i] = c, c # Head(main) PROVE OnMain(c)'
    <3>1. i # 1
      BY <1>1, <2>2
    <3>2. i - 1 \in 1..Len(main') /\ main'[i - 1] = c
      BY <1>1, <1>2, <2>2, <3>1
    <3> QED
      BY <3>2 DEF OnMain
  <2> QED
    BY <2>1, <2>2 DEF OnMain
<1> QED
  BY <1>1, <1>2, <1>3, <1>4 DEF OnMain

GoOnInv == BlocksFit /\ AnswersCome

LEMMA GoOnInit == Init => GoOnInv
<1> SUFFICES ASSUME Init PROVE GoOnInv
  OBVIOUS
<1>1. /\ main = <<>> /\ login = Nil /\ \A r \in Presses : presses[r].stage = "idle"
  BY PressRecords DEF Init
<1>2. OnceEach /\ \A b : ~ OnMain(b)
  BY <1>1 DEF OnceEach, OnMain
<1> QED
  BY <1>1, <1>2, SlotConstants DEF GoOnInv, BlocksFit, AnswersCome, Expected, Block

LEMMA GoOnNext == ScreenInv /\ DataInv /\ GoOnInv /\ [Next]_vars => GoOnInv'
<1> SUFFICES ASSUME ScreenInv, DataInv, GoOnInv, [Next]_vars PROVE GoOnInv'
  OBVIOUS
<1> USE SlotConstants DEF screens, auth, server
<1>a. /\ presses \in [Presses -> Press] /\ main \in Seq(Block)
      /\ login \in {Nil} \cup LoginCall /\ BlocksFit /\ AnswersCome /\ OnceEach
  BY DEF DataInv, DataTypes, Block, GoOnInv, BlocksFit
<1>1. ASSUME main' = main, \A b \in Block : Expected(b)' <=> Expected(b), AnswersCome'
      PROVE  GoOnInv'
  BY <1>1, <1>a DEF GoOnInv, BlocksFit, OnMain, OnceEach
<1>2. ASSUME NEW b \in Block, main' = Append(main, b), ~ Expected(b), Expected(b)',
             \A c \in Block : c # b => (Expected(c)' <=> Expected(c)), AnswersCome'
      PROVE  GoOnInv'
  <2>1. ~ OnMain(b)
    BY <1>2, <1>a DEF BlocksFit
  <2> QED
    BY <1>2, <1>a, <2>1, BlockAdded DEF GoOnInv, BlocksFit
<1>3. ASSUME UNCHANGED <<main, presses>>, Expected(Login)' <=> Expected(Login)
      PROVE  GoOnInv'
  BY <1>1, <1>3, <1>a DEF Expected, AnswersCome
<1>4. CASE UNCHANGED <<main, presses, login>>
  BY <1>3, <1>4 DEF Expected
<1>5. ASSUME NEW e \in Emails, LoginPressed(e) PROVE GoOnInv'
  <2>1. ~ Expected(Login) /\ ~ Expected(Login)'
    BY <1>5 DEF LoginPressed, Expected
  <2> QED
    BY <1>3, <1>5, <2>1 DEF LoginPressed
<1>6. CASE LoginAnswered
  <2>1. /\ main' = Append(main, Login) /\ presses' = presses
        /\ ~ Expected(Login) /\ Login \in Block
    BY <1>6 DEF LoginAnswered, Expected, Block
  <2>2. Expected(Login)'
    <3>1. login \in LoginCall /\ login' # Nil
      BY <1>6, <1>a, CallConstants DEF LoginAnswered, LoginCall
    <3> QED
      BY <1>6, <3>1 DEF LoginAnswered, LoginCall, Expected
  <2>3. \A c \in Block : c # Login => (Expected(c)' <=> Expected(c))
    BY <2>1 DEF Expected
  <2>4. AnswersCome'
    BY <1>a, <2>1 DEF AnswersCome
  <2> QED
    BY <1>2, <2>1, <2>2, <2>3, <2>4
<1>7. ASSUME NEW r \in Presses, ContinuePressed(r) PROVE GoOnInv'
  <2>1. /\ main' = main /\ login' = login /\ presses[r].stage = "idle"
        /\ presses'[r].stage = "geocode" /\ presses'[r].waiting = Places
        /\ \A q \in Presses : q # r => presses'[q] = presses[q]
    BY <1>7, <1>a DEF ContinuePressed
  <2>2. Places # {}
    BY PlaceConstants
  <2> QED
    BY <1>1, <1>a, <2>1, <2>2 DEF Expected, Block, AnswersCome
<1>8. ASSUME NEW r \in Presses, NEW stage \in {"info", "created", "refused"}, MoveTo(r, stage),
             presses[r].stage \in {"signup", "info"}, login' = login,
             main' = IF stage = "info" THEN main ELSE Append(main, r)
      PROVE  GoOnInv'
  <2>0. stage \in PressStages
    BY DEF PressStages
  <2>1. /\ presses'[r].stage = stage /\ r \in Block /\ r # Login
        /\ \A q \in Presses : q # r => presses'[q] = presses[q]
    BY <1>8, <1>a, <2>0 DEF Block, MoveTo, Press
  <2>2. /\ ~ Expected(r) /\ (Expected(r)' <=> stage # "info")
        /\ \A c \in Block : c # r => (Expected(c)' <=> Expected(c))
    BY <1>8, <2>1 DEF Expected, Block
  <2>3. AnswersCome'
    BY <1>8, <1>a, <2>1 DEF AnswersCome
  <2>4. CASE stage = "info"
    BY <1>1, <1>8, <2>2, <2>3, <2>4
  <2>5. CASE stage # "info"
    BY <1>2, <1>8, <2>1, <2>2, <2>3, <2>5
  <2> QED
    BY <2>4, <2>5
<1>9. ASSUME NEW r \in Presses,
             SignUpExecuted(r) \/ SignUpFails(r) \/ InfoAnswered(r) \/ InfoFails(r)
      PROVE  GoOnInv'
  BY <1>8, <1>9 DEF SignUpExecuted, SignUpFails, InfoAnswered, InfoFails
<1>10. ASSUME NEW r \in Presses, NEW p \in Places, GeocodeAnswered(r, p) PROVE GoOnInv'
  <2> DEFINE rest == presses[r].waiting \ {p}
  <2>1. /\ presses[r].stage = "geocode" /\ login' = login
        /\ presses'[r].stage = (IF rest = {} THEN "notify" ELSE "geocode")
        /\ presses'[r].waiting = rest
        /\ \A q \in Presses : q # r => presses'[q] = presses[q]
        /\ main' = IF rest = {} THEN Append(main, r) ELSE main
    BY <1>10, <1>a DEF GeocodeAnswered, Press
  <2>2. r \in Block /\ r # Login
    BY DEF Block
  <2>3. /\ ~ Expected(r) /\ (Expected(r)' <=> rest = {})
        /\ \A c \in Block : c # r => (Expected(c)' <=> Expected(c))
    BY <2>1, <2>2 DEF Expected, Block
  <2>4. AnswersCome'
    BY <1>a, <2>1 DEF AnswersCome
  <2>5. CASE rest = {}
    BY <1>2, <2>1, <2>2, <2>3, <2>4, <2>5
  <2>6. CASE rest # {}
    BY <1>1, <2>1, <2>3, <2>4, <2>6
  <2> QED
    BY <2>5, <2>6
<1>11. CASE RunBlock
  <2>1. main # <<>> /\ main' = Tail(main)
    BY <1>11 DEF RunBlock
  <2>2. /\ OnceEach' /\ OnMain(Head(main))
        /\ \A c : OnMain(c)' <=> OnMain(c) /\ c # Head(main)
    BY <1>a, <2>1, BlockTaken
  <2>3. ASSUME NEW b \in Block, b = Head(main), ~ Expected(b)',
               \A c \in Block : c # b => (Expected(c)' <=> Expected(c)), AnswersCome'
        PROVE  GoOnInv'
    BY <1>a, <2>2, <2>3 DEF GoOnInv, BlocksFit
  <2>4. CASE Head(main) = Login /\ LoginReturns
    <3>1. login' = Nil /\ presses' = presses
      BY <2>4 DEF LoginReturns
    <3>2. Login \in Block /\ ~ Expected(Login)' /\ AnswersCome'
      BY <1>a, <3>1 DEF Block, Expected, AnswersCome
    <3>3. \A c \in Block : c # Login => (Expected(c)' <=> Expected(c))
      BY <3>1 DEF Expected
    <3> QED
      BY <2>3, <2>4, <3>2, <3>3
  <2>5. ASSUME NEW r \in Presses, Head(main) = r, Notify(r) \/ CreateUserReturns(r)
        PROVE  GoOnInv'
    <3>1. /\ presses'[r].stage \in {"signup", "done"} /\ login' = login
          /\ \A q \in Presses : q # r => presses'[q] = presses[q]
      <4>1. CASE Notify(r)
        BY <4>1, <1>a DEF Notify, MoveTo, Press
      <4>2. CASE CreateUserReturns(r)
        BY <4>2, <1>a, PressRecords DEF CreateUserReturns
      <4> QED
        BY <2>5, <4>1, <4>2
    <3>2. r \in Block /\ r # Login
      BY DEF Block
    <3>3. ~ Expected(r)' /\ \A c \in Block : c # r => (Expected(c)' <=> Expected(c))
      BY <3>1, <3>2 DEF Expected, Block
    <3>4. AnswersCome'
      BY <1>a, <3>1 DEF AnswersCome
    <3> QED
      BY <2>3, <2>5, <3>2, <3>3, <3>4
  <2> QED
    BY <1>11, <2>4, <2>5 DEF RunBlock
<1>12. CASE Restart
  <2>1. main' = <<>> /\ login' = Nil
    BY <1>12 DEF Restart
  <2>2. \A r \in Presses : presses'[r].stage \in {"idle", "done"}
    BY <1>12, PressRecords DEF Restart, Under
  <2>3. OnceEach' /\ \A b : ~ OnMain(b)'
    BY <2>1 DEF OnceEach, OnMain
  <2> QED
    BY <2>1, <2>2, <2>3 DEF GoOnInv, BlocksFit, AnswersCome, Expected, Block
<1>13. CASE \/ Register \/ Back \/ SwipeGivenUp \/ Cancel
            \/ ContinueStudent \/ CastCell \/ PerformMissingSegue \/ UNCHANGED vars
            \/ \E f \in Forms : ChooseForm(f)
            \/ \E e \in Emails : ContinueAdult(e) \/ SignInAnswered(e)
            \/ \E v \in Visits : GoToPlaces(v)
            \/ \E p \in Places, s \in Streets : SetAddress(p, s)
  BY <1>4, <1>13 DEF Register, Back, SwipeGivenUp, Cancel, ContinueStudent, CastCell,
     PerformMissingSegue, ChooseForm, ContinueAdult, SignInAnswered, GoToPlaces, SetAddress, vars
<1> QED
  BY <1>5, <1>6, <1>7, <1>9, <1>10, <1>11, <1>12, <1>13 DEF Next, PressAnswer

\* On no way through registrations, logins and restarts is the main queue
\* without a block that somebody waits for, or with one that nobody does, and
\* no geocoding press is without an answer to come: what is under way can
\* always go on.
THEOREM NothingIsStuck == Spec => [](BlocksFit /\ AnswersCome)
BY ScreenInit, ScreenNext, DataInit, DataNext, GoOnInit, GoOnNext, PTL DEF Spec, GoOnInv

\* An account is on its way to its documents: the press that has signed it up
\* is yet to be answered, or its completion to run.
Signing(e) == \E r \in Presses : SignsUp(r) /\ EmailOf(r) = e

\* An account that is not filled has a press that will fill it, unless an
\* answer of Auth was lost or the app was cut off in between.
NobodyIsForgotten ==
  \A e \in accounts : HasQueued(e) \/ e \in broken \/ Signing(e)

LEMMA ForgottenInit == Init => NobodyIsForgotten
BY DEF Init, NobodyIsForgotten

LEMMA ForgottenNext ==
  ScreenInv /\ DataInv /\ AccountInv /\ NobodyIsForgotten /\ [Next]_vars => NobodyIsForgotten'
<1> SUFFICES ASSUME ScreenInv, DataInv, AccountInv, NobodyIsForgotten, [Next]_vars,
                    NEW e \in accounts'
             PROVE  HasQueued(e)' \/ e \in broken' \/ Signing(e)'
  BY DEF NobodyIsForgotten, Signing, SignsUp, EmailOf, HasQueued
<1> USE SlotConstants DEF screens, auth, server
<1>a. /\ presses \in [Presses -> Press] /\ documents \in [Emails -> Seq(Emails)]
      /\ QueuedOnce /\ SignUpsFit /\ UsersFit /\ accounts \subseteq Emails
      /\ \A r \in Presses : Under(r) => EmailOf(r) \in Emails
  BY DEF DataInv, DataTypes, PressesHold, HoldsController, EmailOf, Controller, AccountInv
<1>b. e \in accounts => HasQueued(e) \/ e \in broken \/ Signing(e)
  BY DEF NobodyIsForgotten
<1>c. ASSUME NEW r \in Presses, SignsUp(r), SignsUp(r)' PROVE EmailOf(r)' = EmailOf(r)
  <2>1. Under(r)' /\ ~ ContinuePressed(r)
    BY <1>c DEF SignsUp, Under, ContinuePressed
  <2> QED
    BY <2>1, EmailsStay DEF SameEmail
<1>1. ASSUME e \in accounts, documents' = documents, broken \subseteq broken',
             \A r \in Presses : SignsUp(r) => SignsUp(r)' \/ EmailOf(r) \in broken'
      PROVE  HasQueued(e)' \/ e \in broken' \/ Signing(e)'
  <2>1. ASSUME NEW r \in Presses, SignsUp(r), EmailOf(r) = e PROVE e \in broken' \/ Signing(e)'
    BY <1>1, <1>c, <2>1 DEF Signing
  <2> QED
    BY <1>1, <1>b, <2>1 DEF Signing, HasQueued
<1>2. CASE UNCHANGED <<server, presses>>
  BY <1>1, <1>2 DEF SignsUp
<1>3. ASSUME NEW r \in Presses, SignUpExecuted(r) PROVE Signing(e)' \/ e \in accounts
  <2>1. /\ Under(r) /\ presses'[r].stage = "info" /\ accounts' = accounts \cup {EmailOf(r)}
    BY <1>3, <1>a DEF SignUpExecuted, Under, MoveTo, Press
  <2>2. Under(r)' /\ ~ ContinuePressed(r) /\ SignsUp(r)'
    BY <1>3, <2>1 DEF SignUpExecuted, SignsUp, Under, ContinuePressed
  <2>3. EmailOf(r)' = EmailOf(r)
    BY <2>2, EmailsStay DEF SameEmail
  <2> QED
    BY <2>1, <2>2, <2>3 DEF Signing
<1>4. ASSUME NEW r \in Presses, NEW stage \in PressStages, MoveTo(r, stage),
             ~ SignsUp(r) \/ stage \in {"info", "created"} \/ EmailOf(r) \in broken',
             NEW q \in Presses, SignsUp(q)
      PROVE  SignsUp(q)' \/ EmailOf(q) \in broken'
  BY <1>4, <1>a DEF SignsUp, MoveTo, Press
<1>5. ASSUME NEW r \in Presses, PressAnswer(r)
      PROVE  HasQueued(e)' \/ e \in broken' \/ Signing(e)'
  <2>1. CASE SignUpExecuted(r)
    <3>1. ~ SignsUp(r) /\ MoveTo(r, "info") /\ "info" \in PressStages
      BY <2>1 DEF SignUpExecuted, SignsUp, PressStages
    <3>2. documents' = documents /\ broken' = broken
      BY <2>1 DEF SignUpExecuted
    <3> QED
      BY <1>1, <1>3, <1>4, <2>1, <3>1, <3>2
  <2>2. CASE SignUpFails(r)
    <3>1. /\ ~ SignsUp(r) /\ MoveTo(r, "refused") /\ "refused" \in PressStages
          /\ documents' = documents /\ broken \subseteq broken'
          /\ e \in accounts \/ e \in broken'
      BY <2>2 DEF SignUpFails, SignsUp, PressStages
    <3> QED
      BY <1>1, <1>4, <3>1
  <2>3. CASE InfoAnswered(r)
    <3>1. /\ MoveTo(r, "created") /\ "created" \in PressStages
          /\ UNCHANGED <<accounts, documents, broken>>
      BY <2>3 DEF InfoAnswered, PressStages
    <3> QED
      BY <1>1, <1>4, <3>1
  <2>4. CASE InfoFails(r)
    <3>1. /\ MoveTo(r, "refused") /\ "refused" \in PressStages
          /\ UNCHANGED <<accounts, documents>> /\ broken' = broken \cup {EmailOf(r)}
      BY <2>4 DEF InfoFails, PressStages
    <3> QED
      BY <1>1, <1>4, <3>1
  <2>5. ASSUME NEW p \in Places, GeocodeAnswered(r, p)
        PROVE  HasQueued(e)' \/ e \in broken' \/ Signing(e)'
    <3>1. /\ ~ SignsUp(r) /\ UNCHANGED <<accounts, documents, broken>>
          /\ \A q \in Presses : q # r => presses'[q] = presses[q]
      BY <2>5, <1>a DEF GeocodeAnswered, SignsUp
    <3> QED
      BY <1>1, <3>1 DEF SignsUp
  <2> QED
    BY <1>5, <2>1, <2>2, <2>3, <2>4, <2>5 DEF PressAnswer
<1>6. ASSUME NEW r \in Presses, ContinuePressed(r)
      PROVE  HasQueued(e)' \/ e \in broken' \/ Signing(e)'
  <2>1. /\ ~ SignsUp(r) /\ UNCHANGED <<accounts, documents, broken>>
        /\ \A q \in Presses : q # r => presses'[q] = presses[q]
    BY <1>6, <1>a DEF ContinuePressed, SignsUp
  <2> QED
    BY <1>1, <2>1 DEF SignsUp
<1>7. ASSUME NEW r \in Presses, CreateUserReturns(r)
      PROVE  HasQueued(e)' \/ e \in broken' \/ Signing(e)'
  <2>1. /\ e \in accounts /\ broken' = broken /\ Under(r)
        /\ \A q \in Presses : q # r => presses'[q] = presses[q]
    BY <1>7, <1>a DEF CreateUserReturns, Under
  <2>2. CASE presses[r].stage = "refused"
    <3>1. ~ SignsUp(r) /\ documents' = documents
      BY <1>7, <2>2 DEF CreateUserReturns, Succeeded, SignsUp
    <3> QED
      BY <1>1, <2>1, <3>1 DEF SignsUp
  <2>3. CASE presses[r].stage = "created"
    <3>1. /\ current \in Emails \cap accounts /\ current # Nil
          /\ EmailOf(r) \in Emails \cap accounts /\ ~ HasQueued(EmailOf(r))
      BY <1>a, <2>3 DEF SignsUp, UsersFit, SignUpsFit
    <3>2. /\ documents' = [documents EXCEPT ![current] = Append(@, EmailOf(r))]
          /\ accounts' = accounts
      BY <1>7, <2>3, <3>1 DEF CreateUserReturns, Succeeded
    <3>3. e \in Emails /\ (HasQueued(e)' <=> HasQueued(e) \/ e = EmailOf(r))
      BY <1>a, <2>1, <3>1, <3>2, OneMore
    <3>4. ASSUME NEW q \in Presses, SignsUp(q), EmailOf(q) = e, e # EmailOf(r)
          PROVE  Signing(e)'
      <4>1. q # r /\ SignsUp(q)'
        BY <2>1, <3>4 DEF SignsUp
      <4> QED
        BY <1>c, <3>4, <4>1 DEF Signing
    <3> QED
      BY <1>b, <2>1, <3>3, <3>4 DEF Signing
  <2> QED
    BY <1>7, <2>2, <2>3 DEF CreateUserReturns
<1>8. CASE RunBlock
  <2>1. CASE LoginReturns
    BY <1>2, <2>1 DEF LoginReturns
  <2>2. ASSUME NEW r \in Presses, Notify(r)
        PROVE  HasQueued(e)' \/ e \in broken' \/ Signing(e)'
    <3>1. /\ ~ SignsUp(r) /\ MoveTo(r, "signup") /\ "signup" \in PressStages
          /\ UNCHANGED <<accounts, documents, broken>>
      BY <2>2 DEF Notify, SignsUp, PressStages
    <3> QED
      BY <1>1, <1>4, <3>1
  <2> QED
    BY <1>7, <1>8, <2>1, <2>2 DEF RunBlock
<1>9. CASE Restart
  <2>1. /\ documents' = documents
        /\ broken' = broken \cup {EmailOf(r) : r \in {q \in Presses :
                                    presses[q].stage \in {"signup", "info", "created"}}}
    BY <1>9 DEF Restart
  <2>2. \A r \in Presses : presses[r].stage \in {"signup", "info", "created"} => EmailOf(r) \in broken'
    BY <2>1
  <2>3. e \in accounts \/ e \in broken'
    BY <1>9, <2>2 DEF Restart
  <2> QED
    BY <1>1, <2>1, <2>2, <2>3 DEF SignsUp
<1>10. CASE \/ Register \/ Back \/ SwipeGivenUp \/ Cancel \/ LoginAnswered
            \/ ContinueStudent \/ CastCell \/ PerformMissingSegue \/ UNCHANGED vars
            \/ \E f \in Forms : ChooseForm(f)
            \/ \E x \in Emails : ContinueAdult(x) \/ SignInAnswered(x) \/ LoginPressed(x)
            \/ \E v \in Visits : GoToPlaces(v)
            \/ \E p \in Places, s \in Streets : SetAddress(p, s)
  BY <1>2, <1>10 DEF Register, Back, SwipeGivenUp, Cancel, ContinueStudent, CastCell,
     PerformMissingSegue, ChooseForm, ContinueAdult, SignInAnswered, GoToPlaces, SetAddress,
     LoginAnswered, LoginPressed, vars
<1> QED
  BY <1>5, <1>6, <1>8, <1>9, <1>10 DEF Next

\* No account is left behind: while it has no documents the press that will
\* queue them is under way, whatever the user does meanwhile, unless Auth's
\* answer was lost or the app was cut off.
THEOREM NobodyForgotten == Spec => []NobodyIsForgotten
BY ScreenInit, ScreenNext, DataInit, DataNext, AccountInit, AccountNext, ForgottenInit,
   ForgottenNext, PTL DEF Spec
=============================================================================
