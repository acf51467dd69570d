---------------------------- MODULE RideRequests ----------------------------
(***************************************************************************)
(* Ride requests between drivers and passengers.                           *)
(*                                                                         *)
(* Every phone keeps a queue of Firestore writes that commit one by one,   *)
(* in order (the Firestore SDK, modelled from how the app uses it).  The   *)
(* documents are <<collection, user, slot>>: slot 0 is the document        *)
(* "<collection>/<user>" and slots 1..NumSlots are its rides               *)
(* "rides/<day>/<period>/infos" in the order createDefaultRides writes     *)
(* them.  Of a ride only the array "requested" is kept, as a set: the app  *)
(* writes it with setData(["requested": [""]]), arrayUnion and             *)
(* arrayRemove, none of which can leave a duplicate.                       *)
(*                                                                         *)
(* The screens are those on the way to a request: Home, the list of        *)
(* matches, one match with its request button, and the route editor.       *)
(***************************************************************************)
EXTENDS Naturals, Sequences, FiniteSets

CONSTANTS Drivers,      \* users registered as drivers
          Passengers,   \* users registered as passengers
          NumSlots,     \* rides of a user: 5 days times 3 periods in the app
          Empty,        \* the string "" that every array starts with
          NoDoc,        \* content of a document that does not exist
          Nobody,       \* no match is open
          MaxPending,   \* bound on the writes a phone has in its queue
          MaxLookups,   \* bound on the confirmed edits under way at a time
          MaxAway       \* bound on the phones away from Home at a time

User == Drivers \cup Passengers
Id == User \cup {Empty}

ASSUME UsersAreFinite == IsFiniteSet(Drivers) /\ IsFiniteSet(Passengers)
ASSUME RolesAreDisjoint == Drivers \cap Passengers = {}
ASSUME MarksAreNotUsers == Empty \notin User /\ Nobody \notin User
ASSUME NoDocIsNoArray == \A array \in SUBSET Id : NoDoc # array
ASSUME NumSlotsIsNat == NumSlots \in Nat
ASSUME BoundsAreNat ==
  MaxPending \in Nat /\ MaxLookups \in Nat /\ MaxAway \in Nat

Collections == {"drivers", "passengers"}
Slots == 1..NumSlots
Root == 0
Path == Collections \X User \X (0..NumSlots)

RoleOf(u) == IF u \in Drivers THEN "drivers" ELSE "passengers"
Marker(u) == <<RoleOf(u), u, Root>>
RideOf(u, s) == <<RoleOf(u), u, s>>

VARIABLES docs,      \* Path -> content of the document on the server
          pending,   \* user -> writes not yet committed, oldest first
          at,        \* user -> screen on top of the navigation stack
          match,     \* user -> what the list of matches holds
          detail,    \* user -> the open match and what its button says
          lookups    \* the confirmed edits whose places are being read

vars == <<docs, pending, at, match, detail, lookups>>

-----------------------------------------------------------------------------
(* Firestore writes. *)

Kinds == {"create", "edit", "union", "remove"}
Op == [kind : Kinds, path : Path, ids : SUBSET Id]

\* setData replaces a whole document and creates it if need be.
Stores(op) == op.kind \in {"create", "edit"}

\* What a committed write leaves in its document: updateData on a document
\* that does not exist is rejected.
Apply(content, op) ==
  IF Stores(op) THEN op.ids
  ELSE IF content = NoDoc THEN NoDoc
  ELSE IF op.kind = "union" THEN content \cup op.ids
  ELSE content \ op.ids

\* A phone reads the server's document overlaid with its own queue: it sees
\* a document that exists or that it has queued the creation of...
Visible(u, path) ==
  \/ docs[path] # NoDoc
  \/ \E i \in 1..Len(pending[u]) : pending[u][i].path = path /\ Stores(pending[u][i])

\* ... and finds x in its array as the last queued write about x leaves it.
About(op, path, x) == op.path = path /\ (Stores(op) \/ x \in op.ids)

Contains(u, path, x) ==
  /\ Visible(u, path)
  /\ \/ /\ \A i \in 1..Len(pending[u]) : ~ About(pending[u][i], path, x)
        /\ x \in docs[path]
     \/ \E i \in 1..Len(pending[u]) :
          /\ About(pending[u][i], path, x)
          /\ \A j \in (i + 1)..Len(pending[u]) : ~ About(pending[u][j], path, x)
          /\ pending[u][i].kind # "remove" /\ x \in pending[u][i].ids

Enqueue(u, ops) ==
  /\ Len(pending[u]) + Len(ops) <= MaxPending
  /\ pending' = [pending EXCEPT ![u] = @ \o ops]

-----------------------------------------------------------------------------
(* Screens. *)

Screens == {"out", "home", "match", "driver", "edit"}

\* rides pairs each user fetched with whether its array held this user.
NoMatch == [slot |-> Root, rows |-> FALSE, rides |-> {}]
NoDetail == [selected |-> Nobody, state |-> FALSE]
Lookup == [press : 1..MaxLookups, user : User, slot : Slots]

\* checkUserType: what the app takes user u to be.
UserType(u) == IF Visible(u, <<"drivers", u, Root>>) THEN "drivers" ELSE "passengers"

\* The collection the matches of u come from, and the users listed in it.
FetchType(u) == IF UserType(u) = "drivers" THEN "passengers" ELSE "drivers"
Listed(u) == {v \in User : Visible(u, <<FetchType(u), v, Root>>)}

Init ==
  /\ docs = [path \in Path |-> NoDoc]
  /\ pending = [u \in User |-> <<>>]
  /\ at = [u \in User |-> "out"]
  /\ match = [u \in User |-> NoMatch]
  /\ detail = [u \in User |-> NoDetail]
  /\ lookups = {}

\* Mutant of CreateDefaultRides: "requested" starts as [], not [""].
RidesWithoutMark(u) ==
  [s \in Slots |-> [kind |-> "create", path |-> RideOf(u, s), ids |-> {}]]

\* Registration queues the user's document and then its default rides.
CreateDefaultRides(u) ==
  [s \in Slots |-> [kind |-> "create", path |-> RideOf(u, s), ids |-> {Empty}]]

Register(u) ==
  /\ at[u] = "out"
  /\ Enqueue(u, <<[kind |-> "create", path |-> Marker(u), ids |-> {}]>>
                  \o CreateDefaultRides(u))
  /\ at' = [at EXCEPT ![u] = "home"]
  /\ UNCHANGED <<docs, match, detail, lookups>>

\* Mutant of OpenMatch: the slot is counted from one instead of zero.
OpenNextSlot(u, s) ==
  /\ at[u] = "home"
  /\ at' = [at EXCEPT ![u] = "match"]
  /\ match' = [match EXCEPT ![u] = [slot |-> s + 1, rows |-> FALSE, rides |-> {}]]
  /\ UNCHANGED <<docs, pending, detail, lookups>>

\* A card of Home is tapped: the list of matches for that slot opens.
OpenMatch(u, s) ==
  /\ at[u] = "home"
  /\ Cardinality({v \in User : at[v] \notin {"out", "home"}}) < MaxAway
  /\ at' = [at EXCEPT ![u] = "match"]
  /\ match' = [match EXCEPT ![u] = [slot |-> s, rows |-> FALSE, rides |-> {}]]
  /\ UNCHANGED <<docs, pending, detail, lookups>>

\* One answer of fetchRides that the list keeps as a match.  Which rides have
\* equal places and times is left open.
FetchRide(u, v) ==
  /\ at[u] = "match"
  /\ ~ match[u].rows
  /\ v \in Listed(u)
  /\ LET path == <<FetchType(u), v, match[u].slot>>
     IN  /\ Visible(u, path)
         /\ \E asked \in BOOLEAN :
              /\ asked = Contains(u, path, u)
              /\ match' = [match EXCEPT ![u].rides = @ \cup {<<v, asked>>}]
  /\ UNCHANGED <<docs, pending, at, detail, lookups>>

\* The last group of the load is done and the rows appear.
ShowMatches(u) ==
  /\ at[u] = "match"
  /\ ~ match[u].rows
  /\ match' = [match EXCEPT ![u].rows = TRUE]
  /\ UNCHANGED <<docs, pending, at, detail, lookups>>

\* A row is tapped: the button's state comes from the fetched array.
OpenDriver(u, r) ==
  /\ at[u] = "match"
  /\ match[u].rows
  /\ r \in match[u].rides
  /\ at' = [at EXCEPT ![u] = "driver"]
  /\ detail' = [detail EXCEPT ![u] = [selected |-> r[1], state |-> r[2]]]
  /\ UNCHANGED <<docs, pending, match, lookups>>

\* Mutants of SendRideRequest: the request goes to the ride that was selected,
\* under "drivers" whatever the role, or under that user's own collection, or
\* it goes where it should but names the user who presses.
RequestToSelected(driverID, requestedUserID, s) ==
  [kind |-> "union", path |-> <<"drivers", driverID, s>>, ids |-> {requestedUserID}]
RequestToRole(driverID, requestedUserID, s) ==
  [kind |-> "union", path |-> RideOf(driverID, s), ids |-> {requestedUserID}]
RequestOfPresser(driverID, requestedUserID, s) ==
  [kind |-> "union", path |-> <<"drivers", requestedUserID, s>>,
   ids |-> {requestedUserID}]

\* The document and the array element sendRideRequest and removeRideRequest
\* write, given their arguments driverID and requestedUserID.
SendRideRequest(driverID, requestedUserID, s) ==
  [kind |-> "union", path |-> <<"drivers", requestedUserID, s>>, ids |-> {driverID}]
RemoveRideRequest(driverID, requestedUserID, s) ==
  [kind |-> "remove", path |-> <<"drivers", driverID, s>>, ids |-> {requestedUserID}]

\* The request button, "Requisitar carona" and "Cancelar pedido" in turn.
PressRequest(u) ==
  /\ at[u] = "driver"
  /\ ~ detail[u].state
  /\ Enqueue(u, <<SendRideRequest(detail[u].selected, u, match[u].slot)>>)
  /\ detail' = [detail EXCEPT ![u].state = TRUE]
  /\ UNCHANGED <<docs, at, match, lookups>>

PressCancel(u) ==
  /\ at[u] = "driver"
  /\ detail[u].state
  /\ Enqueue(u, <<RemoveRideRequest(detail[u].selected, u, match[u].slot)>>)
  /\ detail' = [detail EXCEPT ![u].state = FALSE]
  /\ UNCHANGED <<docs, at, match, lookups>>

\* Back from a match to the list, whose rides are not fetched again.
BackToMatch(u) ==
  /\ at[u] \in {"driver", "edit"}
  /\ at' = [at EXCEPT ![u] = "match"]
  /\ detail' = [detail EXCEPT ![u] = NoDetail]
  /\ UNCHANGED <<docs, pending, match, lookups>>

BackToHome(u) ==
  /\ at[u] = "match"
  /\ at' = [at EXCEPT ![u] = "home"]
  /\ match' = [match EXCEPT ![u] = NoMatch]
  /\ UNCHANGED <<docs, pending, detail, lookups>>

\* "Editar rota" is a button of the first row.
EditButton(u) ==
  /\ at[u] = "match"
  /\ match[u].rows
  /\ at' = [at EXCEPT ![u] = "edit"]
  /\ UNCHANGED <<docs, pending, match, detail, lookups>>

\* The editor's confirm button first reads the two places of the ride.  It is
\* not disabled meanwhile, and the editor can be left.
ConfirmButton(u) ==
  /\ at[u] = "edit"
  /\ \E n \in 1..MaxLookups :
       /\ \A l \in lookups : l.press # n
       /\ lookups' = lookups \cup {[press |-> n, user |-> u, slot |-> match[u].slot]}
  /\ UNCHANGED <<docs, pending, at, match, detail>>

\* Whenever both have been read, the user's own ride is rewritten, array
\* included.  Its slot and the type are those the editor was opened with; the
\* type of a user does not change.
SetDailyRide(l) ==
  /\ lookups' = lookups \ {l}
  /\ Enqueue(l.user, <<[kind |-> "edit", path |-> <<UserType(l.user), l.user, l.slot>>,
                        ids |-> {Empty}]>>)
  /\ UNCHANGED <<docs, at, match, detail>>

\* Mutant of Commit: the newest write is sent first.
CommitNewest(u) ==
  /\ pending[u] # <<>>
  /\ LET op == pending[u][Len(pending[u])]
     IN  docs' = [docs EXCEPT ![op.path] = Apply(@, op)]
  /\ pending' = [pending EXCEPT ![u] = SubSeq(@, 1, Len(@) - 1)]
  /\ UNCHANGED <<at, match, detail, lookups>>

\* The server commits or rejects the oldest write of u.  The answer to an
\* edit closes the editor if it is still the editor that asked.
Commit(u) ==
  /\ pending[u] # <<>>
  /\ LET op == Head(pending[u])
     IN  /\ docs' = [docs EXCEPT ![op.path] = Apply(@, op)]
         /\ \/ at' = at
            \/ /\ op.kind = "edit" /\ at[u] = "edit"
               /\ at' = [at EXCEPT ![u] = "match"]
  /\ pending' = [pending EXCEPT ![u] = Tail(@)]
  /\ UNCHANGED <<match, detail, lookups>>

\* Mutant of Relaunch: the queue is in memory only.
RelaunchEmpty(u) ==
  /\ at[u] # "out"
  /\ at' = [at EXCEPT ![u] = "home"]
  /\ match' = [match EXCEPT ![u] = NoMatch]
  /\ detail' = [detail EXCEPT ![u] = NoDetail]
  /\ lookups' = {l \in lookups : l.user # u}
  /\ pending' = [pending EXCEPT ![u] = <<>>]
  /\ UNCHANGED docs

\* The app is killed and opened again: the screens are lost, the queue is on
\* disk (Firestore's persistence is on by default).
Relaunch(u) ==
  /\ at[u] # "out"
  /\ at' = [at EXCEPT ![u] = "home"]
  /\ match' = [match EXCEPT ![u] = NoMatch]
  /\ detail' = [detail EXCEPT ![u] = NoDetail]
  /\ lookups' = {l \in lookups : l.user # u}
  /\ UNCHANGED <<docs, pending>>

Phone(u) ==
  \/ Register(u) \/ ShowMatches(u) \/ PressRequest(u) \/ PressCancel(u)
  \/ BackToMatch(u) \/ BackToHome(u) \/ EditButton(u) \/ ConfirmButton(u)
  \/ Relaunch(u) \/ Commit(u)
  \/ \E s \in Slots : OpenMatch(u, s)
  \/ \E l \in lookups : l.user = u /\ SetDailyRide(l)
  \/ \E v \in User : FetchRide(u, v)
  \/ \E r \in User \X BOOLEAN : OpenDriver(u, r)

Next == \E u \in User : Phone(u)

Spec == Init /\ [][Next]_vars

\* A phone that is online flushes its queue.
FairSpec == Spec /\ \A u \in User : WF_vars(Commit(u))

-----------------------------------------------------------------------------
(* Properties. *)

\* Every variable has its type.
TypeOK ==
  /\ docs \in [Path -> {NoDoc} \cup SUBSET Id]
  /\ pending \in [User -> Seq(Op)]
  /\ at \in [User -> Screens]
  /\ match \in [User -> [slot : 0..NumSlots, rows : BOOLEAN,
                         rides : SUBSET (User \X BOOLEAN)]]
  /\ detail \in [User -> [selected : User \cup {Nobody}, state : BOOLEAN]]
  /\ lookups \in SUBSET Lookup

\* Whatever the order of registrations, presses, edits and commits, a request
\* is only ever found in a ride of a driver, and is the id of a passenger:
\* sendRideRequest writes under "drivers" with its two users swapped, and no
\* such write can create a document or reach one of the other role.
OnlyDriversHoldRequests ==
  \A path \in Path : docs[path] # NoDoc =>
    /\ path[1] = RoleOf(path[2])
    /\ docs[path] \ {Empty} \subseteq
         IF path[1] = "drivers" THEN Passengers ELSE {}

\* fetchRequestsRides looks into an array only if it has more than one
\* element, counting on the "" that setData put there.
Shown(array) == IF Cardinality(array) > 1 THEN array \ {Empty} ELSE {}

\* No sequence of requests, cancellations and edits hides a request from the
\* test `array.count > 1` of fetchRequestsRides.
NoHiddenRequest ==
  \A u \in User, s \in Slots :
    docs[RideOf(u, s)] # NoDoc =>
      Shown(docs[RideOf(u, s)]) = docs[RideOf(u, s)] \ {Empty}

\* A driver's request is never rejected for want of a document, even if it is
\* made while the driver's own registration is still being committed: the
\* queue commits the default ride first.
DriverRequestHasTarget ==
  \A d \in Drivers :
    pending[d] # <<>> /\ Head(pending[d]).kind = "union"
      => docs[Head(pending[d]).path] # NoDoc

Commits(u, kind) == pending[u] # <<>> /\ Head(pending[u]).kind = kind
                      /\ pending'[u] = Tail(pending[u])

\* A passenger the driver has invited stays in the array as the driver's own
\* phone shows it, the server's document with the phone's queue laid over it.
\* No commit of any phone, no relaunch and nothing else the driver does takes
\* the passenger out of it: only the passenger's cancellation when it commits,
\* and the driver's cancellation or edit at the moment the app makes it.
InvitationStays ==
  [][\A d \in Drivers, s \in Slots, p \in Passengers :
       Contains(d, RideOf(d, s), p) /\ ~Contains(d, RideOf(d, s), p)'
       => \/ Commits(p, "remove") /\ Head(pending[p]).path = RideOf(d, s)
          \/ PressCancel(d) /\ detail[d].selected = p /\ match[d].slot = s
          \/ \E l \in lookups : l.user = d /\ l.slot = s /\ SetDailyRide(l)]_vars

\* The documents implement the board: a commit is one step of one cell or
\* changes no cell, and no other action changes any.
Guests(d, s) ==
  IF docs[RideOf(d, s)] = NoDoc THEN {} ELSE docs[RideOf(d, s)] \ {Empty}
Board == INSTANCE RequestBoard WITH
           board <- [c \in Drivers \X Slots |-> Guests(c[1], c[2])]
BoardSpec == Board!BoardSpec

\* A request a driver has made is stored in time, whatever the other writes
\* of that phone, if the phone flushes its queue.
RequestIsStored ==
  \A d \in Drivers, p \in Passengers, s \in Slots :
    (\E i \in 1..Len(pending[d]) :
       pending[d][i].kind = "union" /\ pending[d][i].path = RideOf(d, s)
         /\ p \in pending[d][i].ids)
    ~> p \in Guests(d, s)

\* The comment of sendRideRequest, "Adds the passenger's userID to driver's
\* array of requested rides on Firestore": when the request of passenger p
\* to driver d commits, d's array has p.
RequestReachesTheDriver ==
  [][\A p \in Passengers, d \in Drivers, s \in Slots :
       Commits(p, "union") /\ Head(pending[p]) = SendRideRequest(d, p, s)
         => p \in docs'[RideOf(d, s)]]_vars
=============================================================================
