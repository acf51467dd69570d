---------------------------- MODULE Registration ----------------------------
(***************************************************************************)
(* Registration and login on one phone: the screens from LoginView-        *)
(* Controller to FixLocationsViewController, the geocoding of addresses,   *)
(* Firebase Auth, and the documents a registration queues.                 *)
(*                                                                         *)
(* Every handler and every completion runs on the main queue. A press of   *)
(* the last Continue changes nothing on show and blocks nothing: while     *)
(* its geocodings and its createUser are answered the user goes back,      *)
(* edits addresses, presses again, registers somebody else or logs in.     *)
(* What the app keeps over a restart is the user in Auth's keychain, the   *)
(* flag "usersignedin" and the writes it has queued (WritePipeline).       *)
(*                                                                         *)
(* An account is its e-mail; an address, and the coordinates found for it, *)
(* is its street. The rows the checks of a form read are taken to be on    *)
(* screen.                                                                 *)
(***************************************************************************)
EXTENDS Integers, Sequences

CONSTANTS Emails,        \* the e-mails typed on this phone
          Streets,       \* addresses
          Places,        \* house, institution and work in the app
          Institution,   \* the place that must have an address
          Invalid,       \* kCLLocationCoordinate2DInvalid
          Visits,        \* 1..n: the FixLocations controllers alive at a time
          Presses,       \* 1..n: the presses of the last Continue
          Login,         \* the block of loginButton's completion
          Nil,           \* an optional without value, an empty text
          MaxSwipes      \* bound on the swipes given up in one registration

ASSUME PlaceConstants == /\ Institution \in Places /\ Invalid # Nil
                         /\ {Invalid, Nil} \cap Streets = {}
ASSUME SlotConstants == Nil \notin Visits \cup Emails /\ Login \notin Presses
ASSUME CallConstants == Nil \notin [email : Emails, result : {"asked", "ok", "failed"}]
ASSUME ScreenConstants == Nil \notin {"employee", "student", "responsable", "offer",
                                     "seek", "cell", "segue"}
ASSUME Bounds == MaxSwipes \in Nat /\ Visits \subseteq Nat /\ Presses \subseteq Nat

VARIABLES top,              \* the screen on show
          form,             \* the form that is topmost among the screens
          choice,           \* OfferViewController or SeekOrOffer below places
          registerScreen,   \* the global of RegisterViewController.swift
          swipes,           \* swipes given up in this registration
          person,           \* the e-mail the forms have handed on
          visit,            \* the FixLocations controller among the screens
          places,           \* the FixLocations controllers alive
          presses,          \* presses of Continue under way
          accounts,         \* accounts on the server
          current,          \* Auth's currentUser
          signIns,          \* singIn of a registration, under way
          login,            \* signIn of the login screen, under way
          main,             \* blocks on the main queue
          documents,        \* whose registrations are queued under each account
          signedIn,         \* the flag "usersignedin", and for whom it was set
          broken,           \* accounts whose registration was cut off
          fault             \* what the app has crashed on

screens == <<top, form, choice, registerScreen, swipes, person, visit>>
server == <<accounts, documents, broken>>
auth == <<current, signIns, login, signedIn>>
vars == <<screens, places, presses, main, fault, server, auth>>

-----------------------------------------------------------------------------
(* Records. *)

Addresses == [Places -> Streets \cup {Nil}]
Coordinates == [Places -> Streets \cup {Nil, Invalid}]

\* touched: an address was edited while a press of the controller was under way.
Controller == [email : Emails \cup {Nil}, address : Addresses, coord : Coordinates,
               touched : BOOLEAN]
FreshPlaces(e) == [email |-> e, address |-> [p \in Places |-> Nil],
                   coord |-> [p \in Places |-> Nil], touched |-> FALSE]

\* geocode -> notify -> signup -> info -> created, or refused on the way.
\* A press that is done is not used again.
PressStages == {"idle", "done", "geocode", "notify", "signup", "info", "created", "refused"}
Press == [visit : Visits \cup {Nil}, stage : PressStages, asked : Addresses,
          waiting : SUBSET Places]
NoPress == [visit |-> Nil, stage |-> "idle", asked |-> [p \in Places |-> Nil],
            waiting |-> {}]

\* A signIn of the login screen.
LoginCall == [email : Emails, result : {"asked", "ok", "failed"}]

Under(r) == presses[r].stage \notin {"idle", "done"}
EmailOf(r) == places[presses[r].visit].email
PressesOf(v) == {r \in Presses : presses[r].visit = v}

\* Controllers live on the navigation stack, or in the blocks of a press.
Release(v, rest) == IF rest = {} THEN [places EXCEPT ![v] = FreshPlaces(Nil)]
                                 ELSE places

MoveTo(r, stage) == presses' = [presses EXCEPT ![r].stage = stage]

-----------------------------------------------------------------------------
(* The screens. *)

Forms == {"employee", "student", "responsable"}
Choices == {"offer", "seek"}
Tops == {"login", "choose", "places", "home"} \cup Forms \cup Choices

\* "if registerScreen == 0 -> employee data", 1 student data, 2 responsable data
FormNumber(f) == CASE f = "employee" -> 0 [] f = "student" -> 1
                   [] f = "responsable" -> 2

Init ==
  /\ top = "login" /\ form = Nil /\ choice = Nil
  /\ registerScreen = 0 /\ swipes = 0 /\ person = Nil
  /\ visit = Nil
  /\ places = [v \in Visits |-> FreshPlaces(Nil)]
  /\ presses = [r \in Presses |-> NoPress]
  /\ accounts = {} /\ current = Nil
  /\ signIns = {} /\ login = Nil
  /\ main = <<>>
  /\ documents = [e \in Emails |-> <<>>]
  /\ signedIn = Nil
  /\ broken = {} /\ fault = Nil

Register ==
  /\ top = "login" /\ fault = Nil
  /\ top' = "choose"
  /\ UNCHANGED <<form, choice, registerScreen, swipes, person, visit, places,
                 presses, main, fault, server, auth>>

\* employeeButton and responsableButton, with the segue each of them has.
ChooseForm(f) ==
  /\ top = "choose" /\ fault = Nil
  /\ f \in {"employee", "student"}
  /\ top' = f /\ form' = f
  /\ registerScreen' = FormNumber(f)
  /\ UNCHANGED <<choice, swipes, person, visit, places, presses, main, fault,
                 server, auth>>

\* continueButton reads the rows, and pushes the next screen, of the form that
\* registerScreen says.
ContinueStudent ==
  /\ top = "student" /\ registerScreen = 1 /\ fault = Nil
  /\ top' = "responsable" /\ form' = "responsable"
  /\ registerScreen' = 2
  /\ UNCHANGED <<choice, swipes, person, visit, places, presses, main,
                 fault, server, auth>>

\* The rows of an employee and of a responsable are alike.
ContinueAdult(e) ==
  /\ top \in {"employee", "responsable"} /\ fault = Nil
  /\ \/ registerScreen = 0 /\ top' = "offer"
     \/ registerScreen = 2 /\ top' = "seek"
  /\ choice' = top'
  /\ person' = e
  /\ UNCHANGED <<form, registerScreen, swipes, visit, places, presses, main,
                 fault, server, auth>>

\* A row of another form is not of the class it is cast to. With any other
\* number than 0, 1 and 2 Continue does nothing.
CastCell ==
  /\ fault = Nil
  /\ \/ top = "student" /\ registerScreen = 0
     \/ top \in {"employee", "responsable"} /\ registerScreen = 1
  /\ fault' = "cell"
  /\ UNCHANGED <<screens, places, presses, main, server, auth>>

\* proceed, offerButton and seekButton.
GoToPlaces(v) ==
  /\ top \in Choices /\ fault = Nil
  /\ PressesOf(v) = {} /\ \A w \in 1..(v-1) : PressesOf(w) # {}
  /\ top' = "places"
  /\ visit' = v
  /\ places' = [places EXCEPT ![v] = FreshPlaces(person)]
  /\ UNCHANGED <<form, choice, registerScreen, swipes, person, presses, main,
                 fault, server, auth>>

\* Mutant of LeaveForm: the screens after a form count as well.
LeaveScreen == registerScreen' = registerScreen - 1

\* viewWillDisappear of a form that is moving from its parent.
LeaveForm ==
  registerScreen' = IF top \in Forms THEN registerScreen - 1 ELSE registerScreen

\* The back button; the kind of user and what is under Home have none.
Back ==
  /\ top \in Forms \cup Choices \cup {"places"} /\ fault = Nil
  /\ LeaveForm
  /\ top' = CASE top = "places" -> choice
              [] top \in Choices -> form
              [] top = "responsable" -> "student"
              [] OTHER -> "choose"
  /\ form' = IF top \in Forms THEN (IF top = "responsable" THEN "student" ELSE Nil)
                              ELSE form
  /\ choice' = IF top \in Choices THEN Nil ELSE choice
  /\ person' = IF top \in Choices THEN Nil ELSE person
  /\ swipes' = IF top' = "choose" THEN 0 ELSE swipes
  /\ visit' = Nil
  /\ places' = IF top = "places" THEN Release(visit, PressesOf(visit)) ELSE places
  /\ UNCHANGED <<presses, main, fault, server, auth>>

\* A swipe back that is begun and given up: the form disappears as if it left.
SwipeGivenUp ==
  /\ top \in Forms /\ fault = Nil
  /\ swipes < MaxSwipes
  /\ swipes' = swipes + 1
  /\ LeaveForm
  /\ UNCHANGED <<top, form, choice, person, visit, places, presses, main,
                 fault, server, auth>>

\* "Cancelar" unwinds to the login; OfferViewController has no such button.
Cancel ==
  /\ top \in Forms \cup {"choose", "places"} /\ fault = Nil
  /\ LeaveForm
  /\ top' = "login"
  /\ form' = Nil /\ choice' = Nil /\ visit' = Nil
  /\ person' = Nil /\ swipes' = 0
  /\ places' = IF top = "places" THEN Release(visit, PressesOf(visit)) ELSE places
  /\ UNCHANGED <<presses, main, fault, server, auth>>

\* SeekOrOffer has the button and not the segue "backToLogin" it performs.
PerformMissingSegue ==
  /\ top = "seek" /\ fault = Nil
  /\ fault' = "segue"
  /\ UNCHANGED <<screens, places, presses, main, server, auth>>

-----------------------------------------------------------------------------
(* The addresses. *)

\* registerLocationButton and prepare, back on FixLocations.
SetAddress(p, s) ==
  /\ top = "places" /\ fault = Nil
  /\ places' = [places EXCEPT ![visit].address[p] = s,
                              ![visit].touched = @ \/ PressesOf(visit) # {}]
  /\ UNCHANGED <<screens, presses, main, fault, server, auth>>

\* continuePressed: of the rows checked only the last, the institution, counts.
ContinuePressed(r) ==
  /\ top = "places" /\ fault = Nil
  /\ places[visit].address[Institution] # Nil
  /\ presses[r].stage = "idle" /\ \A q \in 1..(r-1) : presses[q].stage # "idle"
  /\ presses' = [presses EXCEPT ![r] = [visit |-> visit, stage |-> "geocode",
                                        asked |-> places[visit].address,
                                        waiting |-> Places]]
  /\ UNCHANGED <<screens, places, main, fault, server, auth>>

\* Mutant of Found: the answer of one geocoding is kept for every place.
FoundForAll(v, p, c) == [places EXCEPT ![v].coord = [q \in Places |-> c]]

\* houseCoord, institutionCoord or workCoord of a controller gets its value.
Found(v, p, c) == [places EXCEPT ![v].coord[p] = c]

\* getCoordinate answers; an empty address is not found.
GeocodeAnswered(r, p) ==
  /\ fault = Nil /\ presses[r].stage = "geocode" /\ p \in presses[r].waiting
  /\ \E c \in {Invalid} \cup ({presses[r].asked[p]} \ {Nil}) :
       places' = Found(presses[r].visit, p, c)
  /\ LET rest == presses[r].waiting \ {p}
     IN  /\ presses' = [presses EXCEPT ![r].waiting = rest, ![r].asked[p] = Nil,
                          ![r].stage = IF rest = {} THEN "notify" ELSE "geocode"]
         /\ main' = IF rest = {} THEN Append(main, r) ELSE main
  /\ UNCHANGED <<screens, fault, server, auth>>

-----------------------------------------------------------------------------
(* Firebase Auth and the server. *)

\* The server creates the account, unless it has it.
SignUpExecuted(r) ==
  /\ fault = Nil /\ presses[r].stage = "signup"
  /\ EmailOf(r) \notin accounts
  /\ accounts' = accounts \cup {EmailOf(r)}
  /\ MoveTo(r, "info")
  /\ UNCHANGED <<screens, places, main, fault, documents, broken, auth>>

\* createUser fails: refused, without an answer, or with the answer lost.
SignUpFails(r) ==
  /\ fault = Nil /\ presses[r].stage = "signup"
  /\ \/ UNCHANGED <<accounts, broken>>
     \/ /\ EmailOf(r) \notin accounts
        /\ accounts' = accounts \cup {EmailOf(r)}
        /\ broken' = broken \cup {EmailOf(r)}
  /\ MoveTo(r, "refused")
  /\ main' = Append(main, r)
  /\ UNCHANGED <<screens, places, fault, documents, auth>>

\* retrieveUser has the account's data: the current user is set, and saved,
\* on Auth's queue, before the completion is put on the main queue.
InfoAnswered(r) ==
  /\ fault = Nil /\ presses[r].stage = "info"
  /\ current' = EmailOf(r)
  /\ MoveTo(r, "created")
  /\ main' = Append(main, r)
  /\ UNCHANGED <<screens, places, fault, server, signIns, login, signedIn>>

\* Without them createUser reports an error, although the account exists.
InfoFails(r) ==
  /\ fault = Nil /\ presses[r].stage = "info"
  /\ broken' = broken \cup {EmailOf(r)}
  /\ MoveTo(r, "refused")
  /\ main' = Append(main, r)
  /\ UNCHANGED <<screens, places, fault, accounts, documents, auth>>

\* singIn of a registration: its completion does nothing.
SignInAnswered(e) ==
  /\ fault = Nil /\ e \in signIns
  /\ signIns' = signIns \ {e}
  /\ \/ e \in accounts /\ current' = e
     \/ UNCHANGED current
  /\ UNCHANGED <<screens, places, presses, main, fault, server, login,
                 signedIn>>

LoginPressed(e) ==
  /\ top = "login" /\ fault = Nil
  /\ login = Nil
  /\ login' = [email |-> e, result |-> "asked"]
  /\ UNCHANGED <<screens, places, presses, main, fault, server, current, signIns,
                 signedIn>>

LoginAnswered ==
  /\ fault = Nil /\ login # Nil /\ login.result = "asked"
  /\ \/ /\ login.email \in accounts
        /\ current' = login.email
        /\ login' = [login EXCEPT !.result = "ok"]
     \/ /\ login' = [login EXCEPT !.result = "failed"]
        /\ UNCHANGED current
  /\ main' = Append(main, Login)
  /\ UNCHANGED <<screens, places, presses, fault, server, signIns, signedIn>>

-----------------------------------------------------------------------------
(* The main queue. *)

\* group.notify: all three geocodings have been answered.
Notify(r) ==
  /\ presses[r].stage = "notify"
  /\ MoveTo(r, "signup")
  /\ UNCHANGED <<screens, places, fault, server, auth>>

\* Mutant of Succeeded: the result of createUser is not looked at.
ResultIgnored(r) == presses[r].stage \in {"created", "refused"}

\* Mutant of Succeeded: the completion is for the controller on show only.
SucceededOnShow(r) == presses[r].stage = "created" /\ presses[r].visit = visit

\* createUser's completion has true for its result.
Succeeded(r) == presses[r].stage = "created"

\* createUser's completion. The documents, with the addresses the controller
\* has by now, go to getUserID, the user current by now.
CreateUserReturns(r) ==
  /\ presses[r].stage \in {"created", "refused"}
  /\ signIns' = IF Succeeded(r) THEN signIns \cup {EmailOf(r)} ELSE signIns
  /\ documents' = IF Succeeded(r) /\ current # Nil
                  THEN [documents EXCEPT ![current] = Append(@, EmailOf(r))]
                  ELSE documents
  /\ presses' = [presses EXCEPT ![r] = [NoPress EXCEPT !.stage = "done"]]
  /\ places' = IF presses[r].visit = visit THEN places
               ELSE Release(presses[r].visit, PressesOf(presses[r].visit) \ {r})
  /\ UNCHANGED <<screens, fault, accounts, broken, current, login, signedIn>>

\* signIn's completion pushes Home on whatever is on show; Home has no way back
\* to it.
LoginReturns ==
  /\ login' = Nil
  /\ \/ /\ login.result = "ok"
        /\ signedIn' = login.email
        /\ top' = "home"
        /\ form' = Nil /\ choice' = Nil /\ visit' = Nil
        /\ person' = Nil /\ swipes' = 0
        /\ places' = IF visit # Nil THEN Release(visit, PressesOf(visit)) ELSE places
     \/ /\ login.result = "failed"
        /\ UNCHANGED <<signedIn, top, form, choice, visit, person, swipes, places>>
  /\ UNCHANGED <<registerScreen, presses, fault, server, current, signIns>>

RunBlock ==
  /\ fault = Nil /\ main # <<>>
  /\ main' = Tail(main)
  /\ \/ Head(main) = Login /\ LoginReturns
     \/ \E r \in Presses :
          Head(main) = r /\ (Notify(r) \/ CreateUserReturns(r))

\* The app is killed, or has crashed, and is launched again; a createUser that
\* was under way may still reach the server.
Restart ==
  /\ \E late \in SUBSET {EmailOf(r) : r \in {q \in Presses : presses[q].stage = "signup"}} :
       accounts' = accounts \cup late
  /\ broken' = broken \cup
       {EmailOf(r) : r \in {q \in Presses :
                              presses[q].stage \in {"signup", "info", "created"}}}
  /\ top' = IF signedIn # Nil THEN "home" ELSE "login"
  /\ form' = Nil /\ choice' = Nil /\ visit' = Nil
  /\ registerScreen' = 0 /\ swipes' = 0 /\ person' = Nil
  /\ places' = [v \in Visits |-> FreshPlaces(Nil)]
  /\ presses' = [r \in Presses |->
                   IF Under(r) THEN [NoPress EXCEPT !.stage = "done"] ELSE presses[r]]
  /\ signIns' = {} /\ login' = Nil
  /\ main' = <<>> /\ fault' = Nil
  /\ UNCHANGED <<documents, current, signedIn>>

\* What Geocoder, Auth and the server do for one press.
PressAnswer(r) ==
  \/ SignUpExecuted(r) \/ SignUpFails(r) \/ InfoAnswered(r) \/ InfoFails(r)
  \/ \E p \in Places : GeocodeAnswered(r, p)

Next ==
  \/ Register \/ Back \/ SwipeGivenUp \/ Cancel
  \/ ContinueStudent \/ CastCell \/ PerformMissingSegue
  \/ \E f \in Forms : ChooseForm(f)
  \/ \E e \in Emails : ContinueAdult(e) \/ LoginPressed(e)
  \/ \E v \in Visits : GoToPlaces(v)
  \/ \E p \in Places, s \in Streets : SetAddress(p, s)
  \/ \E r \in Presses : ContinuePressed(r)
  \/ \E r \in Presses : PressAnswer(r)
  \/ \E e \in Emails : SignInAnswered(e)
  \/ LoginAnswered \/ RunBlock
  \/ Restart

Spec == Init /\ [][Next]_vars

\* Geocoder, Auth and server answer, if only with an error, and the main queue
\* runs its blocks.
FairSpec ==
  /\ Spec
  /\ WF_vars(RunBlock)
  /\ \A r \in Presses : WF_vars(PressAnswer(r))

-----------------------------------------------------------------------------
(* Properties. *)

\* The values the variables take.
TypeOK ==
  /\ top \in Tops /\ form \in Forms \cup {Nil} /\ choice \in Choices \cup {Nil}
  /\ registerScreen \in -(MaxSwipes + 1)..2 /\ swipes \in 0..MaxSwipes
  /\ person \in Emails \cup {Nil} /\ visit \in Visits \cup {Nil}
  /\ places \in [Visits -> Controller] /\ presses \in [Presses -> Press]
  /\ accounts \subseteq Emails /\ signIns \subseteq Emails /\ broken \subseteq Emails
  /\ current \in Emails \cup {Nil} /\ signedIn \in Emails \cup {Nil}
  /\ login \in {Nil} \cup LoginCall
  /\ main \in Seq(Presses \cup {Login})
  /\ documents \in [Emails -> Seq(Emails)]
  /\ fault \in {Nil, "cell", "segue"}

\* The global registerScreen is the number of the form on show, on every way
\* forth, back and out of the registration: it is wrong by the swipes that
\* were given up, and by nothing else, so that without them no row is cast to
\* the class of another form's.
FormIsItsScreen ==
  /\ top \in Forms => registerScreen = FormNumber(top) - swipes
  /\ fault = "cell" => swipes > 0

\* Whoever presses again, goes back, logs in as somebody else or restarts, a
\* registration queues its documents once, for an e-mail that has an account
\* and under an account, and Home is opened by a login with an account and
\* has a current user.
QueuedOnce ==
  \A a, b \in Emails :
    \A i \in 1..Len(documents[a]), j \in 1..Len(documents[b]) :
      /\ documents[a][i] = documents[b][j] => a = b /\ i = j
      /\ {a, documents[a][i]} \subseteq accounts

RegisteredOnce ==
  /\ QueuedOnce
  /\ top = "home" => {signedIn, current} \subseteq accounts

\* The handler that "Sends all register information to firebase" once "User did
\* created a account" sends it under that account, as its calls of getUserID
\* take for granted.
SentUnderItsAccount ==
  \A e \in Emails : \A i \in 1..Len(documents[e]) : documents[e][i] = e

\* From the end of the geocodings to createUser's completion, which queues them,
\* the coordinates of a controller are those of its addresses, or invalid, in
\* whatever order the answers of several presses come: only an address edited
\* during a press goes with the coordinates of another. None is nil, which the
\* completion would unwrap, and the institution has an address.
PlacesBelongTogether ==
  \A r \in Presses :
    presses[r].stage \in {"notify", "signup", "info", "created"} =>
      LET c == places[presses[r].visit]
      IN  /\ c.address[Institution] # Nil
          /\ \A p \in Places :
               /\ c.coord[p] # Nil
               /\ ~ c.touched => c.coord[p] \in {c.address[p], Invalid}

\* Every account gets its documents queued, under whatever account, unless an
\* answer of Auth was lost or the app was killed or crashed in between: the
\* screens may be left, and the button pressed again, at any moment. Queued
\* and cut off registrations stay so, hence time and again all are for good.
HasQueued(e) == \E a \in Emails : \E i \in 1..Len(documents[a]) : documents[a][i] = e

AccountIsFilled ==
  []<>(\A e \in accounts : HasQueued(e) \/ e \in broken \/ fault # Nil)
=============================================================================
