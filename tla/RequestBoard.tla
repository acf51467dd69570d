---------------------------- MODULE RequestBoard ----------------------------
(***************************************************************************)
(* What the ride requests of CaronaSocial amount to, seen from outside: a  *)
(* board with one cell per driver and ride slot, the passengers that the   *)
(* driver has invited to that ride.  A step adds one passenger to one      *)
(* cell, takes one passenger out of one cell, or empties one cell.         *)
(* RideRequests, with its documents, write queues and screens, implements  *)
(* this specification.                                                     *)
(***************************************************************************)
CONSTANTS Drivers, Passengers, Slots

VARIABLE board

\* A cell is the ride of one driver in one slot.
Cells == Drivers \X Slots

\* Nobody is invited before anybody has registered.
BoardInit == board = [c \in Cells |-> {}]

\* The driver of cell c invites passenger p.
Invite(c, p) == board' = [board EXCEPT ![c] = @ \cup {p}]

\* Passenger p withdraws from the ride of cell c.
Withdraw(c, p) == board' = [board EXCEPT ![c] = @ \ {p}]

\* The driver of cell c rewrites the ride, which loses everybody invited.
Rewrite(c) == board' = [board EXCEPT ![c] = {}]

BoardNext ==
  \E c \in Cells :
    \/ Rewrite(c)
    \/ \E p \in Passengers : Invite(c, p) \/ Withdraw(c, p)

BoardSpec == BoardInit /\ [][BoardNext]_board
=============================================================================
