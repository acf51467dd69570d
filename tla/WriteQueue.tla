----------------------------- MODULE WriteQueue -----------------------------
(***************************************************************************)
(* What the Firestore client promises about the writes it is given:        *)
(* every user of the phone has a queue of its own; the server may execute  *)
(* a waiting write any number of times, but the writes of a user are       *)
(* resolved one after the other, oldest first, as accepted only if the     *)
(* server executed them.  They are rejected if the server refused them or  *)
(* if the result of their execution cannot be read, and one write may be   *)
(* rejected for each error of the server that was about none.              *)
(* Nothing is said of networks, streams, tokens, kills or batch ids: those *)
(* belong to WritePipeline, which implements this specification.           *)
(***************************************************************************)
EXTENDS Naturals, FiniteSets

CONSTANTS
  Users,        \* the users that sign in on the phone
  MaxWrites     \* bound on the writes issued

VARIABLES
  issued,       \* the writes issued so far are 1 .. issued, in this order
  pending,      \* per user: its writes that are not resolved
  executed,     \* per user: its writes the server executed, at least once
  refusals,     \* the writes the server refused, at least once
  hangups,      \* errors of the server that were about no write
  unread,       \* the executed writes whose result could not be read
  outcome       \* how each write was resolved

vars == <<issued, pending, executed, refusals, hangups, unread, outcome>>

Ops == 1..MaxWrites

Init ==
  /\ issued = 0
  /\ pending = [u \in Users |-> {}]
  /\ executed = [u \in Users |-> {}]
  /\ refusals = {}
  /\ hangups = 0
  /\ unread = {}
  /\ outcome = [o \in Ops |-> "open"]

\* A user issues a write.
Issue(u) ==
  /\ issued < MaxWrites
  /\ issued' = issued + 1
  /\ pending' = [pending EXCEPT ![u] = @ \union {issued + 1}]
  /\ UNCHANGED <<executed, refusals, hangups, unread, outcome>>

\* The server executes a write, perhaps once more.
Execute(u, o) ==
  /\ o <= issued
  /\ executed' = [executed EXCEPT ![u] = @ \union {o}]
  /\ UNCHANGED <<issued, pending, refusals, hangups, unread, outcome>>

\* The server refuses a write.
Refuse(o) ==
  /\ o <= issued
  /\ refusals' = refusals \union {o}
  /\ UNCHANGED <<issued, pending, executed, hangups, unread, outcome>>

\* The server fails without refusing any write.
HangUp ==
  /\ hangups' = hangups + 1
  /\ UNCHANGED <<issued, pending, executed, refusals, unread, outcome>>

\* o is the write of u that has waited longest.
IsOldest(u, o) == o \in pending[u] /\ \A p \in pending[u] : o <= p

\* The oldest write of a user is resolved.
Resolve(u, o, how) ==
  /\ IsOldest(u, o)
  /\ pending' = [pending EXCEPT ![u] = @ \ {o}]
  /\ outcome' = [outcome EXCEPT ![o] = how]
  /\ UNCHANGED <<issued, executed, refusals, hangups>>

Acknowledge(u, o) ==
  o \in executed[u] /\ Resolve(u, o, "accepted") /\ UNCHANGED unread

Reject(u, o) ==
  o \in refusals /\ Resolve(u, o, "rejected") /\ UNCHANGED unread

\* An execution that cannot be told from a refusal.
Misread(u, o) ==
  /\ o \in executed[u]
  /\ Resolve(u, o, "rejected")
  /\ unread' = unread \union {o}

\* An error about no write is taken for the refusal of one.
Misjudged == {o \in Ops : outcome[o] = "rejected" /\ o \notin refusals \union unread}

Misjudge(u, o) ==
  /\ Cardinality(Misjudged) < hangups
  /\ Resolve(u, o, "rejected")
  /\ UNCHANGED unread

Next ==
  \/ HangUp
  \/ \E u \in Users : Issue(u)
  \/ \E u \in Users, o \in Ops :
       \/ Execute(u, o) \/ Acknowledge(u, o)
       \/ Reject(u, o) \/ Misread(u, o) \/ Misjudge(u, o)
  \/ \E o \in Ops : Refuse(o)

Spec == Init /\ [][Next]_vars
=============================================================================
