------------------------- MODULE RideRequestsProofs -------------------------
(***************************************************************************)
(* Proofs about RideRequests, for every number of users and slots.         *)
(*                                                                         *)
(* The inductive invariant Inv says of every queue what its writes are     *)
(* (QueuesOK), of every document who can have one and what it can hold     *)
(* (DocsOK), and that the creation of a ride is committed or queued ahead  *)
(* of any request to it (RidesComeFirst).  The screens enter it only with  *)
(* what they hand to the writes (ScreensOK).                               *)
(***************************************************************************)
EXTENDS RideRequests, FiniteSetTheorems, SequenceTheorems, TLAPS

Opposite(u) == IF u \in Drivers THEN Passengers ELSE Drivers

\* A write as the handlers of u queue it.
Writes(u, op) ==
  \/ op.kind = "create" /\ op.path = Marker(u) /\ op.ids = {}
  \/ Stores(op) /\ op.ids = {Empty} /\ \E s \in Slots : op.path = RideOf(u, s)
  \/ op.kind = "union" /\ \E s \in Slots, v \in Opposite(u) :
       op.path = <<"drivers", u, s>> /\ op.ids = {v}
  \/ op.kind = "remove" /\ \E s \in Slots, v \in Opposite(u) :
       op.path = <<"drivers", v, s>> /\ op.ids = {u}

QueuesOK ==
  \A u \in User : \A i \in 1..Len(pending[u]) : Writes(u, pending[u][i])

DocsOK ==
  \A path \in Path : docs[path] # NoDoc =>
    /\ path[1] = RoleOf(path[2])
    /\ path[3] # Root => Empty \in docs[path]
    /\ docs[path] \ {Empty} \subseteq
         IF path[1] = "drivers" THEN Passengers ELSE {}

\* The write at i in the queue of u finds the document there, or created by
\* an earlier write of the queue.
Created(u, path, i) ==
  \/ docs[path] # NoDoc
  \/ \E j \in 1..Len(pending[u]) :
       j < i /\ pending[u][j].path = path /\ Stores(pending[u][j])

RidesComeFirst ==
  \A d \in Drivers :
    /\ \A i \in 1..Len(pending[d]) :
         pending[d][i].kind = "union" => Created(d, pending[d][i].path, i)
    /\ at[d] # "out" =>
         /\ Visible(d, Marker(d))
         /\ \A s \in Slots : Visible(d, RideOf(d, s))

\* A match on show belongs to a slot, its users are of the other role, and
\* whoever edits a ride is registered.
ScreensOK ==
  \A u \in User :
    /\ at[u] \in {"match", "driver", "edit"} => match[u].slot \in Slots
    /\ at[u] = "driver" => detail[u].selected \in Opposite(u)
    /\ \A r \in match[u].rides : r[1] \in Opposite(u)
    /\ \A l \in lookups : l.user = u => at[u] # "out"

Inv == TypeOK /\ QueuesOK /\ DocsOK /\ RidesComeFirst /\ ScreensOK

-----------------------------------------------------------------------------
(* Lemmas about documents and queues. *)

\* A write leaves a typed content, and never removes a document.
LEMMA ApplyOK ==
  ASSUME NEW content \in {NoDoc} \cup SUBSET Id, NEW op \in Op
  PROVE  /\ Apply(content, op) \in {NoDoc} \cup SUBSET Id
         /\ content # NoDoc \/ Stores(op) => Apply(content, op) # NoDoc
         /\ ~ Stores(op) /\ content = NoDoc => Apply(content, op) = NoDoc
<1>1. op.ids \in SUBSET Id
  BY DEF Op
<1>2. QED
  BY <1>1, NoDocIsNoArray DEF Apply, Stores

\* Paths of markers and rides, and the two roles.
LEMMA Paths ==
  ASSUME NEW u \in User
  PROVE  /\ RoleOf(u) \in Collections
         /\ Marker(u) \in Path
         /\ \A s \in Slots, c \in Collections : <<c, u, s>> \in Path
         /\ \A s \in Slots : RideOf(u, s) \in Path
         /\ Opposite(u) \subseteq User
         /\ \A v \in Opposite(u) : RoleOf(v) # RoleOf(u)
         /\ \A v \in User : RoleOf(v) # RoleOf(u) => v \in Opposite(u)
         /\ u \in Drivers => Opposite(u) = Passengers
         /\ u \in Drivers <=> RoleOf(u) = "drivers"
<1>1. Slots \subseteq 0..NumSlots /\ Root \in 0..NumSlots
  BY NumSlotsIsNat DEF Slots, Root
<1>2. QED
  BY <1>1, RolesAreDisjoint
  DEF RoleOf, Collections, Marker, RideOf, Path, Opposite, User

\* What Enqueue does to the queues.
LEMMA Enqueued ==
  ASSUME pending \in [User -> Seq(Op)], NEW u \in User, NEW ops \in Seq(Op),
         Enqueue(u, ops)
  PROVE  /\ pending' \in [User -> Seq(Op)]
         /\ Len(pending'[u]) = Len(pending[u]) + Len(ops)
         /\ \A i \in 1..Len(pending[u]) : pending'[u][i] = pending[u][i]
         /\ \A i \in 1..Len(ops) : pending'[u][Len(pending[u]) + i] = ops[i]
         /\ \A v \in User \ {u} : pending'[v] = pending[v]
<1>1. /\ pending' = [pending EXCEPT ![u] = @ \o ops]
      /\ pending[u] \in Seq(Op)
  BY DEF Enqueue
<1>2. pending[u] \o ops \in Seq(Op)
  BY <1>1
<1>3. pending'[u] = pending[u] \o ops /\ pending' \in [User -> Seq(Op)]
  BY <1>1, <1>2
<1>4. Len(pending[u]) \in Nat /\ Len(ops) \in Nat
  BY <1>1
<1>5. QED
  BY <1>1, <1>3, <1>4

\* The queues after Enqueue, if every new write is one u may queue and finds
\* its document.
LEMMA EnqueueInv ==
  ASSUME Inv, NEW u \in User, NEW ops \in Seq(Op), Enqueue(u, ops),
         \A i \in 1..Len(ops) : Writes(u, ops[i]),
         \A i \in 1..Len(ops) : u \in Drivers /\ ops[i].kind = "union" =>
           Visible(u, ops[i].path),
         docs' = docs
  PROVE  /\ pending' \in [User -> Seq(Op)]
         /\ QueuesOK'
         /\ DocsOK'
         /\ \A v \in User, path \in Path : Visible(v, path) => Visible(v, path)'
         /\ \A d \in Drivers : \A i \in 1..Len(pending'[d]) :
              pending'[d][i].kind = "union" => Created(d, pending[d][i].path, i)'
<1>1. pending \in [User -> Seq(Op)] /\ QueuesOK /\ DocsOK /\ RidesComeFirst
  BY DEF Inv, TypeOK
<1>2. /\ pending' \in [User -> Seq(Op)]
      /\ Len(pending'[u]) = Len(pending[u]) + Len(ops)
      /\ \A i \in 1..Len(pending[u]) : pending'[u][i] = pending[u][i]
      /\ \A i \in 1..Len(ops) : pending'[u][Len(pending[u]) + i] = ops[i]
      /\ \A v \in User \ {u} : pending'[v] = pending[v]
  BY <1>1, Enqueued
<1>3. Len(pending[u]) \in Nat /\ Len(ops) \in Nat
  BY <1>1
<1>4. ASSUME NEW i \in 1..Len(pending'[u]), i \notin 1..Len(pending[u])
      PROVE  /\ i - Len(pending[u]) \in 1..Len(ops)
             /\ pending'[u][i] = ops[i - Len(pending[u])]
  <2>1. i - Len(pending[u]) \in 1..Len(ops)
    BY <1>2, <1>3, <1>4
  <2>2. i = Len(pending[u]) + (i - Len(pending[u]))
    BY <1>2, <1>3
  <2>3. QED
    BY <1>2, <2>1, <2>2
<1>5. QueuesOK'
  <2>1. SUFFICES ASSUME NEW v \in User, NEW i \in 1..Len(pending'[v])
                 PROVE  Writes(v, pending'[v][i])
    BY DEF QueuesOK, Writes
  <2>2. CASE v # u
    BY <1>1, <1>2, <2>2 DEF QueuesOK
  <2>3. CASE v = u /\ i \in 1..Len(pending[u])
    BY <1>1, <1>2, <2>3 DEF QueuesOK
  <2>4. CASE v = u /\ i \notin 1..Len(pending[u])
    BY <1>4, <2>4
  <2>5. QED
    BY <2>2, <2>3, <2>4
<1>6. DocsOK'
  BY <1>1 DEF DocsOK
<1>7. ASSUME NEW v \in User, NEW path \in Path, Visible(v, path)
      PROVE  Visible(v, path)'
  <2>1. CASE docs[path] # NoDoc
    BY <2>1 DEF Visible
  <2>2. CASE docs[path] = NoDoc
    <3>1. PICK j \in 1..Len(pending[v]) : pending[v][j].path = path /\ Stores(pending[v][j])
      BY <1>7, <2>2 DEF Visible
    <3>2. j \in 1..Len(pending'[v]) /\ pending'[v][j] = pending[v][j]
      BY <1>2, <1>3, <3>1
    <3>3. QED
      BY <3>1, <3>2 DEF Visible, Stores
  <2>3. QED
    BY <2>1, <2>2
<1>8. ASSUME NEW d \in Drivers, NEW i \in 1..Len(pending'[d]),
             pending'[d][i].kind = "union"
      PROVE  Created(d, pending[d][i].path, i)'
  <2>1. d \in User
    BY DEF User
  <2>2. CASE i \in 1..Len(pending[d]) /\ pending'[d][i] = pending[d][i]
    <3>1. Created(d, pending[d][i].path, i)
      BY <1>1, <1>8, <2>2 DEF RidesComeFirst
    <3>2. \A j \in 1..Len(pending[d]) : j \in 1..Len(pending'[d]) /\ pending'[d][j] = pending[d][j]
      <4>1. CASE d = u
        BY <1>2, <1>3, <4>1
      <4>2. CASE d # u
        <5>1. pending'[d] = pending[d]
          BY <1>2, <2>1, <4>2
        <5>2. QED
          BY <5>1
      <4>3. QED
        BY <4>1, <4>2
    <3>3. QED
      BY <2>2, <3>1, <3>2 DEF Created, Stores
  <2>3. CASE d = u /\ i \notin 1..Len(pending[u])
    <3>1. Visible(u, pending'[u][i].path)
      BY <1>4, <1>8, <2>3
    <3>2. CASE docs[pending'[u][i].path] # NoDoc
      BY <2>3, <3>2 DEF Created
    <3>3. CASE docs[pending'[u][i].path] = NoDoc
      <4>1. PICK j \in 1..Len(pending[u]) :
              pending[u][j].path = pending'[u][i].path /\ Stores(pending[u][j])
        BY <3>1, <3>3 DEF Visible
      <4>2. j \in 1..Len(pending'[u]) /\ pending'[u][j] = pending[u][j] /\ j < i
        BY <1>2, <1>3, <2>3, <4>1
      <4>3. QED
        BY <2>3, <4>1, <4>2 DEF Created, Stores
    <3>4. QED
      BY <3>2, <3>3
  <2>4. QED
    BY <1>2, <2>1, <2>2, <2>3
<1>9. QED
  BY <1>2, <1>5, <1>6, <1>7, <1>8

\* Inv if an action queues nothing and commits nothing: only screens change.
LEMMA ScreensInv ==
  ASSUME Inv, UNCHANGED <<docs, pending>>, TypeOK', ScreensOK',
         \A u \in User : at'[u] # "out" => at[u] # "out"
  PROVE  Inv'
<1>1. QueuesOK' /\ DocsOK'
  BY DEF Inv, QueuesOK, DocsOK, Writes, Stores
<1>2. RidesComeFirst'
  BY DEF Inv, RidesComeFirst, Created, Visible, Stores, User
<1>3. QED
  BY <1>1, <1>2 DEF Inv

\* Inv if a registered phone queues writes it may queue.
LEMMA QueueInv ==
  ASSUME Inv, NEW u \in User, NEW ops \in Seq(Op), Enqueue(u, ops),
         \A i \in 1..Len(ops) : Writes(u, ops[i]),
         \A i \in 1..Len(ops) : u \in Drivers /\ ops[i].kind = "union" =>
           Visible(u, ops[i].path),
         UNCHANGED <<docs, at, match>>,
         detail' \in [User -> [selected : User \cup {Nobody}, state : BOOLEAN]],
         \A v \in User : detail'[v].selected = detail[v].selected,
         lookups' \subseteq lookups
  PROVE  Inv'
<1>1. /\ pending' \in [User -> Seq(Op)]
      /\ QueuesOK'
      /\ DocsOK'
      /\ \A v \in User, path \in Path : Visible(v, path) => Visible(v, path)'
      /\ \A d \in Drivers : \A i \in 1..Len(pending'[d]) :
           pending'[d][i].kind = "union" => Created(d, pending[d][i].path, i)'
  BY EnqueueInv
<1>2. TypeOK'
  BY <1>1 DEF Inv, TypeOK
<1>3. RidesComeFirst'
  <2>1. ASSUME NEW d \in Drivers, at'[d] # "out"
        PROVE  Visible(d, Marker(d))' /\ \A s \in Slots : Visible(d, RideOf(d, s))'
    <3>1. d \in User /\ Marker(d) \in Path /\ \A s \in Slots : RideOf(d, s) \in Path
      BY Paths DEF User
    <3>2. Visible(d, Marker(d)) /\ \A s \in Slots : Visible(d, RideOf(d, s))
      BY <2>1 DEF Inv, RidesComeFirst
    <3>3. QED
      BY <1>1, <3>1, <3>2 DEF Marker, RideOf
  <2>2. QED
    BY <1>1, <2>1 DEF RidesComeFirst
<1>4. ScreensOK'
  BY DEF Inv, ScreensOK
<1>5. QED
  BY <1>1, <1>2, <1>3, <1>4 DEF Inv

-----------------------------------------------------------------------------
(* The invariant. *)

\* Before anybody has registered there are no documents and no writes.
LEMMA InitInv == Init => Inv
<1>1. SUFFICES ASSUME Init PROVE Inv
  OBVIOUS
<1>2. TypeOK
  <2>1. /\ NoMatch \in [slot : 0..NumSlots, rows : BOOLEAN, rides : SUBSET (User \X BOOLEAN)]
        /\ NoDetail \in [selected : User \cup {Nobody}, state : BOOLEAN]
    BY NumSlotsIsNat DEF NoMatch, NoDetail, Root
  <2>2. QED
    BY <1>1, <2>1 DEF Init, TypeOK, Screens
<1>3. QueuesOK /\ DocsOK
  BY <1>1 DEF Init, QueuesOK, DocsOK
<1>4. RidesComeFirst /\ ScreensOK
  BY <1>1 DEF Init, RidesComeFirst, ScreensOK, User, NoMatch
<1>5. QED
  BY <1>2, <1>3, <1>4 DEF Inv

\* The app takes a registered user for what it registered as.
LEMMA UserTypeOK ==
  ASSUME Inv, NEW u \in User, at[u] # "out"
  PROVE  UserType(u) = RoleOf(u)
<1>1. CASE u \in Drivers
  BY <1>1 DEF Inv, RidesComeFirst, UserType, RoleOf, Marker
<1>2. CASE u \notin Drivers
  <2>1. RoleOf(u) = "passengers" /\ <<"drivers", u, Root>> \in Path
    BY <1>2, NumSlotsIsNat DEF RoleOf, Path, Collections, Root
  <2>2. docs[<<"drivers", u, Root>>] = NoDoc
    BY <2>1 DEF Inv, DocsOK
  <2>3. ASSUME NEW i \in 1..Len(pending[u]), Stores(pending[u][i])
        PROVE  pending[u][i].path # <<"drivers", u, Root>>
    BY <2>1, <2>3 DEF Inv, QueuesOK, Writes, Stores, Marker, RideOf
  <2>4. QED
    BY <2>1, <2>2, <2>3 DEF UserType, Visible
<1>3. QED
  BY <1>1, <1>2

\* The rides that the list of matches fetches are of the other role.
LEMMA ListedOK ==
  ASSUME Inv, NEW u \in User, at[u] # "out", NEW v \in Listed(u)
  PROVE  v \in Opposite(u)
<1>1. UserType(u) = RoleOf(u) /\ v \in User /\ Visible(u, <<FetchType(u), v, Root>>)
  BY UserTypeOK DEF Listed
<1>2. FetchType(u) # RoleOf(u) /\ FetchType(u) \in Collections
  BY <1>1 DEF FetchType, RoleOf, Collections
<1>3. CASE docs[<<FetchType(u), v, Root>>] # NoDoc
  <2>1. <<FetchType(u), v, Root>> \in Path
    BY <1>1, <1>2, NumSlotsIsNat DEF Path, Root
  <2>2. RoleOf(v) = FetchType(u)
    BY <1>3, <2>1 DEF Inv, DocsOK
  <2>3. QED
    BY <1>1, <1>2, <2>2, Paths
<1>4. CASE docs[<<FetchType(u), v, Root>>] = NoDoc
  <2>1. PICK i \in 1..Len(pending[u]) :
          pending[u][i].path = <<FetchType(u), v, Root>> /\ Stores(pending[u][i])
    BY <1>1, <1>4 DEF Visible
  <2>2. Writes(u, pending[u][i])
    BY <2>1 DEF Inv, QueuesOK
  <2>3. pending[u][i].path[1] = RoleOf(u)
    BY <2>1, <2>2 DEF Writes, Stores, Marker, RideOf
  <2>4. QED
    BY <1>2, <2>1, <2>3
<1>5. QED
  BY <1>3, <1>4

\* A commit: the oldest write of u reaches the server.
LEMMA CommitInv ==
  ASSUME Inv, NEW u \in User, Commit(u)
  PROVE  Inv'
<1> DEFINE op == Head(pending[u])
<1>1. /\ TypeOK /\ QueuesOK /\ DocsOK /\ RidesComeFirst /\ ScreensOK
      /\ pending[u] \in Seq(Op) /\ pending[u] # <<>>
  BY DEF Inv, TypeOK, Commit
<1>2. /\ op = pending[u][1] /\ op \in Op /\ 1 \in 1..Len(pending[u])
      /\ Len(pending[u]) \in Nat
  BY <1>1
<1>3. op.path \in Path /\ Writes(u, op)
  BY <1>1, <1>2 DEF Op, QueuesOK
<1>4. /\ docs' = [docs EXCEPT ![op.path] = Apply(@, op)]
      /\ pending' = [pending EXCEPT ![u] = Tail(@)]
      /\ match' = match /\ detail' = detail /\ lookups' = lookups
      /\ \A v \in User : at'[v] # at[v] => at[v] = "edit" /\ at'[v] = "match"
      /\ at' \in [User -> Screens]
  BY <1>1 DEF Commit, TypeOK, Screens
<1>5. /\ docs' \in [Path -> {NoDoc} \cup SUBSET Id]
      /\ \A path \in Path : docs[path] # NoDoc => docs'[path] # NoDoc
      /\ Stores(op) => docs'[op.path] # NoDoc
  <2>1. docs \in [Path -> {NoDoc} \cup SUBSET Id]
    BY <1>1 DEF TypeOK
  <2>2. /\ docs[op.path] \in {NoDoc} \cup SUBSET Id
        /\ docs'[op.path] = Apply(docs[op.path], op)
    BY <1>3, <1>4, <2>1
  <2>3. /\ Apply(docs[op.path], op) \in {NoDoc} \cup SUBSET Id
        /\ docs[op.path] # NoDoc \/ Stores(op) => Apply(docs[op.path], op) # NoDoc
    BY <1>2, <2>2, ApplyOK
  <2>4. QED
    BY <1>3, <1>4, <2>1, <2>2, <2>3
<1>6. /\ Tail(pending[u]) \in Seq(Op)
      /\ pending' \in [User -> Seq(Op)]
      /\ pending'[u] = Tail(pending[u])
      /\ Len(pending'[u]) = Len(pending[u]) - 1
      /\ \A i \in 1..Len(pending'[u]) : pending'[u][i] = pending[u][i + 1]
      /\ \A v \in User \ {u} : pending'[v] = pending[v]
  <2>1. pending \in [User -> Seq(Op)]
    BY <1>1 DEF TypeOK
  <2>2. Tail(pending[u]) \in Seq(Op) /\ Len(Tail(pending[u])) = Len(pending[u]) - 1
    BY <1>1
  <2>3. \A i \in 1..Len(Tail(pending[u])) : Tail(pending[u])[i] = pending[u][i + 1]
    BY <1>1, <1>2
  <2>4. QED
    BY <1>4, <2>1, <2>2, <2>3
<1>7. TypeOK'
  BY <1>1, <1>4, <1>5, <1>6 DEF TypeOK
<1>8. QueuesOK'
  <2>1. SUFFICES ASSUME NEW v \in User, NEW i \in 1..Len(pending'[v])
                 PROVE  Writes(v, pending'[v][i])
    BY DEF QueuesOK, Writes
  <2>2. CASE v = u
    <3>1. i + 1 \in 1..Len(pending[u]) /\ pending'[u][i] = pending[u][i + 1]
      BY <1>2, <1>6, <2>2
    <3>2. QED
      BY <1>1, <2>2, <3>1 DEF QueuesOK
  <2>3. CASE v # u
    BY <1>1, <1>6, <2>3 DEF QueuesOK
  <2>4. QED
    BY <2>2, <2>3
<1>9. DocsOK'
  <2>1. SUFFICES ASSUME NEW path \in Path, docs'[path] # NoDoc
                 PROVE  /\ path[1] = RoleOf(path[2])
                        /\ path[3] # Root => Empty \in docs'[path]
                        /\ docs'[path] \ {Empty} \subseteq
                             IF path[1] = "drivers" THEN Passengers ELSE {}
    BY DEF DocsOK
  <2>2. CASE path # op.path
    <3>1. docs'[path] = docs[path]
      BY <1>1, <1>4, <2>2 DEF TypeOK
    <3>2. QED
      BY <1>1, <2>1, <3>1 DEF DocsOK
  <2>3. CASE path = op.path
    <3>1. docs'[path] = Apply(docs[path], op)
      BY <1>1, <1>4, <2>3 DEF TypeOK
    <3>2. CASE Stores(op)
      <4>1. docs'[path] = op.ids
        BY <3>1, <3>2 DEF Apply
      <4>2. CASE op.path = Marker(u) /\ op.ids = {}
        BY <2>3, <4>1, <4>2 DEF Marker
      <4>3. CASE op.ids = {Empty} /\ \E s \in Slots : op.path = RideOf(u, s)
        BY <2>3, <4>1, <4>3 DEF RideOf
      <4>4. QED
        BY <1>3, <3>2, <4>2, <4>3 DEF Writes, Stores
    <3>3. CASE op.kind = "union"
      <4>1. PICK s \in Slots, v \in Opposite(u) :
              op.path = <<"drivers", u, s>> /\ op.ids = {v}
        BY <1>3, <3>3 DEF Writes, Stores
      <4>2. docs[path] # NoDoc /\ docs'[path] = docs[path] \cup op.ids
        BY <2>1, <3>1, <3>3 DEF Apply, Stores
      <4>3. /\ path[1] = RoleOf(path[2])
            /\ path[3] # Root => Empty \in docs[path]
            /\ docs[path] \ {Empty} \subseteq Passengers
        BY <1>1, <2>3, <4>1, <4>2 DEF DocsOK
      <4>4. v \in Passengers
        BY <2>3, <4>1, <4>3, Paths
      <4>5. QED
        BY <2>3, <4>1, <4>2, <4>3, <4>4
    <3>4. CASE op.kind = "remove"
      <4>1. PICK s \in Slots, v \in Opposite(u) :
              op.path = <<"drivers", v, s>> /\ op.ids = {u}
        BY <1>3, <3>4 DEF Writes, Stores
      <4>2. docs[path] # NoDoc /\ docs'[path] = docs[path] \ op.ids
        BY <2>1, <3>1, <3>4 DEF Apply, Stores
      <4>3. u # Empty
        BY MarksAreNotUsers
      <4>4. QED
        BY <1>1, <4>1, <4>2, <4>3 DEF DocsOK
    <3>5. QED
      BY <1>2, <3>2, <3>3, <3>4 DEF Op, Kinds, Stores
  <2>4. QED
    BY <2>2, <2>3
<1>10. ASSUME NEW v \in User, NEW path \in Path, Visible(v, path)
       PROVE  Visible(v, path)'
  <2>1. CASE docs[path] # NoDoc
    BY <1>5, <2>1 DEF Visible
  <2>2. CASE docs[path] = NoDoc
    <3>1. PICK j \in 1..Len(pending[v]) : pending[v][j].path = path /\ Stores(pending[v][j])
      BY <1>10, <2>2 DEF Visible
    <3>2. CASE v = u /\ j = 1
      BY <1>2, <1>5, <3>1, <3>2 DEF Visible
    <3>3. CASE v = u /\ j # 1
      <4>1. j - 1 \in 1..Len(pending'[u]) /\ pending'[u][j - 1] = pending[u][j]
        BY <1>2, <1>6, <3>1, <3>3
      <4>2. QED
        BY <3>1, <3>3, <4>1 DEF Visible, Stores
    <3>4. CASE v # u
      BY <1>6, <3>1, <3>4 DEF Visible, Stores
    <3>5. QED
      BY <3>2, <3>3, <3>4
  <2>3. QED
    BY <2>1, <2>2
<1>11. ASSUME NEW d \in Drivers, NEW i \in 1..Len(pending'[d]),
              pending'[d][i].kind = "union"
       PROVE  Created(d, pending[d][i].path, i)'
  <2>1. d \in User
    BY DEF User
  <2>2. CASE d # u
    <3>1. pending'[d] = pending[d]
      BY <1>6, <2>1, <2>2
    <3>2. Created(d, pending[d][i].path, i) /\ pending[d][i].path \in Path
      <4>1. i \in 1..Len(pending[d]) /\ pending[d][i].kind = "union"
        BY <1>11, <3>1
      <4>2. pending[d] \in Seq(Op)
        BY <1>1, <2>1 DEF TypeOK
      <4>3. pending[d][i] \in Op
        BY <4>1, <4>2
      <4>4. QED
        BY <1>1, <4>1, <4>3 DEF RidesComeFirst, Op
    <3>3. QED
      BY <1>5, <3>1, <3>2 DEF Created, Stores
  <2>3. CASE d = u
    <3>1. i + 1 \in 1..Len(pending[u]) /\ pending'[u][i] = pending[u][i + 1]
      BY <1>2, <1>6, <2>3
    <3>2. Created(u, pending[u][i + 1].path, i + 1) /\ pending[u][i + 1].path \in Path
      <4>1. pending[u][i + 1] \in Op /\ pending[u][i + 1].kind = "union"
        BY <1>1, <1>11, <2>3, <3>1
      <4>2. QED
        BY <1>1, <2>3, <3>1, <4>1 DEF RidesComeFirst, Op
    <3>3. CASE docs[pending[u][i + 1].path] # NoDoc
      BY <1>5, <2>3, <3>1, <3>2, <3>3 DEF Created
    <3>4. CASE docs[pending[u][i + 1].path] = NoDoc
      <4>1. PICK j \in 1..Len(pending[u]) :
              /\ j < i + 1 /\ pending[u][j].path = pending[u][i + 1].path
              /\ Stores(pending[u][j])
        BY <3>2, <3>4 DEF Created
      <4>2. CASE j = 1
        BY <1>2, <1>5, <2>3, <3>1, <4>1, <4>2 DEF Created
      <4>3. CASE j # 1
        <5>1. /\ j - 1 \in 1..Len(pending'[u]) /\ j - 1 < i
              /\ pending'[u][j - 1] = pending[u][j]
          BY <1>2, <1>6, <2>3, <4>1, <4>3
        <5>2. QED
          BY <2>3, <3>1, <4>1, <5>1 DEF Created, Stores
      <4>4. QED
        BY <4>2, <4>3
    <3>5. QED
      BY <3>3, <3>4
  <2>4. QED
    BY <2>2, <2>3
<1>12. RidesComeFirst'
  <2>1. ASSUME NEW d \in Drivers, at'[d] # "out"
        PROVE  Visible(d, Marker(d))' /\ \A s \in Slots : Visible(d, RideOf(d, s))'
    <3>1. d \in User /\ Marker(d) \in Path /\ \A s \in Slots : RideOf(d, s) \in Path
      BY Paths DEF User
    <3>2. at[d] # "out"
      BY <1>4, <2>1, <3>1
    <3>3. Visible(d, Marker(d)) /\ \A s \in Slots : Visible(d, RideOf(d, s))
      BY <1>1, <3>2 DEF RidesComeFirst
    <3>4. QED
      BY <1>10, <3>1, <3>3 DEF Marker, RideOf
  <2>2. QED
    BY <1>11, <2>1 DEF RidesComeFirst
<1>13. ScreensOK'
  BY <1>1, <1>4 DEF ScreensOK
<1>14. QED
  BY <1>7, <1>8, <1>9, <1>12, <1>13 DEF Inv

\* Registration queues the user's marker and then the rides, in that order, which
\* is what RidesComeFirst asks of a queue.
LEMMA RegisterInv ==
  ASSUME Inv, NEW u \in User, Register(u)
  PROVE  Inv'
<1> DEFINE mark == [kind |-> "create", path |-> Marker(u), ids |-> {}]
           ops == <<mark>> \o CreateDefaultRides(u)
<1>1. /\ TypeOK /\ QueuesOK /\ DocsOK /\ RidesComeFirst /\ ScreensOK
      /\ at' = [at EXCEPT ![u] = "home"] /\ UNCHANGED <<docs, match, detail, lookups>>
      /\ Enqueue(u, ops)
  BY DEF Inv, Register
<1>2. mark \in Op /\ Writes(u, mark) /\ Stores(mark)
  BY Paths DEF Op, Kinds, Writes, Stores
<1>3. ASSUME NEW s \in Slots
      PROVE  /\ CreateDefaultRides(u)[s] \in Op
             /\ Writes(u, CreateDefaultRides(u)[s])
             /\ Stores(CreateDefaultRides(u)[s])
             /\ CreateDefaultRides(u)[s].path = RideOf(u, s)
  BY Paths DEF CreateDefaultRides, Op, Kinds, Id, Writes, Stores
<1>4. CreateDefaultRides(u) \in Seq(Op) /\ Len(CreateDefaultRides(u)) = NumSlots
  <2>1. CreateDefaultRides(u) \in [1..NumSlots -> Op]
    BY <1>3 DEF CreateDefaultRides, Slots
  <2>2. QED
    BY <2>1, NumSlotsIsNat, SeqDef
<1>5. /\ ops \in Seq(Op) /\ Len(ops) = NumSlots + 1 /\ ops[1] = mark
      /\ \A s \in Slots : ops[s + 1] = CreateDefaultRides(u)[s]
  BY <1>2, <1>4, NumSlotsIsNat DEF Slots
<1> HIDE DEF ops
<1>6. ASSUME NEW i \in 1..Len(ops)
      PROVE  Writes(u, ops[i]) /\ Stores(ops[i])
  <2>1. CASE i = 1
    BY <1>2, <1>5, <2>1
  <2>2. CASE i # 1
    <3>1. i - 1 \in Slots /\ i = (i - 1) + 1
      BY <1>5, <2>2, NumSlotsIsNat DEF Slots
    <3>2. QED
      BY <1>3, <1>5, <3>1
  <2>3. QED
    BY <2>1, <2>2
<1>7. /\ pending' \in [User -> Seq(Op)]
      /\ QueuesOK'
      /\ DocsOK'
      /\ \A v \in User, path \in Path : Visible(v, path) => Visible(v, path)'
      /\ \A d \in Drivers : \A i \in 1..Len(pending'[d]) :
           pending'[d][i].kind = "union" => Created(d, pending[d][i].path, i)'
  BY <1>1, <1>5, <1>6, EnqueueInv DEF Stores
<1>8. TypeOK'
  BY <1>1, <1>7 DEF TypeOK, Screens
<1>9. /\ Len(pending'[u]) = Len(pending[u]) + Len(ops) /\ Len(pending[u]) \in Nat
      /\ \A i \in 1..Len(ops) : pending'[u][Len(pending[u]) + i] = ops[i]
  <2>1. pending \in [User -> Seq(Op)]
    BY <1>1 DEF TypeOK
  <2>2. Len(pending[u]) \in Nat
    BY <2>1
  <2>3. /\ Len(pending'[u]) = Len(pending[u]) + Len(ops)
        /\ \A i \in 1..Len(ops) : pending'[u][Len(pending[u]) + i] = ops[i]
    BY <1>1, <1>5, <2>1, Enqueued
  <2>4. QED
    BY <2>2, <2>3
<1>10. ASSUME NEW i \in 1..Len(ops) PROVE Visible(u, ops[i].path)'
  <2>1. Len(pending[u]) + i \in 1..Len(pending'[u])
    <3>1. i \in Nat /\ 1 <= i /\ i <= Len(ops) /\ Len(ops) \in Nat
      BY <1>5, NumSlotsIsNat
    <3>2. QED
      BY <1>9, <3>1
  <2>2. QED
    BY <1>6, <1>9, <2>1 DEF Visible, Stores
<1>11. Visible(u, Marker(u))' /\ \A s \in Slots : Visible(u, RideOf(u, s))'
  <2>1. Visible(u, Marker(u))'
    <3>1. 1 \in 1..Len(ops) /\ ops[1].path = Marker(u)
      BY <1>5, NumSlotsIsNat
    <3>2. QED
      BY <1>10, <3>1 DEF Marker
  <2>2. ASSUME NEW s \in Slots PROVE Visible(u, RideOf(u, s))'
    <3>1. s + 1 \in 1..Len(ops) /\ ops[s + 1].path = RideOf(u, s)
      BY <1>3, <1>5, NumSlotsIsNat DEF Slots
    <3>2. QED
      BY <1>10, <3>1 DEF RideOf
  <2>3. QED
    BY <2>1, <2>2
<1>12. RidesComeFirst'
  <2>1. ASSUME NEW d \in Drivers, at'[d] # "out"
        PROVE  Visible(d, Marker(d))' /\ \A s \in Slots : Visible(d, RideOf(d, s))'
    <3>1. d \in User /\ Marker(d) \in Path /\ \A s \in Slots : RideOf(d, s) \in Path
      BY Paths DEF User
    <3>2. CASE d = u
      BY <1>11, <3>2
    <3>3. CASE d # u
      <4>1. at[d] # "out"
        BY <1>1, <2>1, <3>1, <3>3 DEF TypeOK
      <4>2. Visible(d, Marker(d)) /\ \A s \in Slots : Visible(d, RideOf(d, s))
        BY <1>1, <4>1 DEF RidesComeFirst
      <4>3. QED
        BY <1>7, <3>1, <4>2 DEF Marker, RideOf
    <3>4. QED
      BY <3>2, <3>3
  <2>2. QED
    BY <1>7, <2>1 DEF RidesComeFirst
<1>13. ScreensOK'
  BY <1>1 DEF ScreensOK, TypeOK
<1>14. QED
  BY <1>7, <1>8, <1>12, <1>13 DEF Inv

\* The actions that only change screens.
LEMMA NavigationInv ==
  ASSUME Inv, NEW u \in User,
         \/ ShowMatches(u) \/ BackToMatch(u) \/ BackToHome(u)
         \/ EditButton(u) \/ ConfirmButton(u) \/ Relaunch(u)
         \/ \E s \in Slots : OpenMatch(u, s)
         \/ \E v \in User : FetchRide(u, v)
         \/ \E r \in User \X BOOLEAN : OpenDriver(u, r)
  PROVE  Inv'
<1>1. TypeOK /\ ScreensOK
  BY DEF Inv
<1>2. /\ NoMatch \in [slot : 0..NumSlots, rows : BOOLEAN, rides : SUBSET (User \X BOOLEAN)]
      /\ NoDetail \in [selected : User \cup {Nobody}, state : BOOLEAN]
      /\ NoMatch.rides = {}
  BY NumSlotsIsNat DEF NoMatch, NoDetail, Root
<1>3. CASE \E s \in Slots : OpenMatch(u, s)
  <2>1. PICK s \in Slots : OpenMatch(u, s)
    BY <1>3
  <2>2. TypeOK' /\ ScreensOK' /\ UNCHANGED <<docs, pending>>
    <3>1. s \in 0..NumSlots
      BY NumSlotsIsNat DEF Slots
    <3>2. QED
      BY <1>1, <2>1, <3>1 DEF OpenMatch, TypeOK, ScreensOK, Screens
  <2>3. \A v \in User : at'[v] # "out" => at[v] # "out"
    BY <1>1, <2>1 DEF OpenMatch, TypeOK
  <2>4. QED
    BY <2>2, <2>3, ScreensInv
<1>4. CASE \E v \in User : FetchRide(u, v)
  <2>1. PICK v \in User : FetchRide(u, v)
    BY <1>4
  <2>2. v \in Opposite(u)
    <3>1. at[u] # "out" /\ v \in Listed(u)
      BY <2>1 DEF FetchRide
    <3>2. QED
      BY <3>1, ListedOK
  <2>3. PICK asked \in BOOLEAN :
          match' = [match EXCEPT ![u].rides = @ \cup {<<v, asked>>}]
    BY <2>1 DEF FetchRide
  <2>4. UNCHANGED <<docs, pending, at, detail, lookups>>
    BY <2>1 DEF FetchRide
  <2>5. TypeOK'
    <3>1. match[u].rides \cup {<<v, asked>>} \in SUBSET (User \X BOOLEAN)
      BY <1>1 DEF TypeOK
    <3>2. match' \in [User -> [slot : 0..NumSlots, rows : BOOLEAN,
                              rides : SUBSET (User \X BOOLEAN)]]
      <4> DEFINE M == [slot : 0..NumSlots, rows : BOOLEAN, rides : SUBSET (User \X BOOLEAN)]
                 m == [match[u] EXCEPT !.rides = match[u].rides \cup {<<v, asked>>}]
      <4>1. match \in [User -> M]
        BY <1>1 DEF TypeOK
      <4>2. m \in M
        <5>1. match[u] \in M
          BY <4>1
        <5>2. QED
          BY <3>1, <5>1
      <4>3. match' = [match EXCEPT ![u] = m]
        BY <2>3
      <4> HIDE DEF M, m
      <4>4. match' \in [User -> M]
        BY <4>1, <4>2, <4>3
      <4>5. QED
        BY <4>4 DEF M
    <3>3. QED
      BY <1>1, <2>4, <3>2 DEF TypeOK
  <2>6. ScreensOK'
    <3>1. \A w \in User : match'[w].slot = match[w].slot
      BY <1>1, <2>3 DEF TypeOK
    <3>2. \A w \in User : \A r \in match'[w].rides : r[1] \in Opposite(w)
      BY <1>1, <2>2, <2>3 DEF TypeOK, ScreensOK
    <3>3. QED
      BY <1>1, <2>4, <3>1, <3>2 DEF ScreensOK
  <2>7. QED
    BY <2>4, <2>5, <2>6, ScreensInv
<1>5. CASE \E r \in User \X BOOLEAN : OpenDriver(u, r)
  <2>1. PICK r \in User \X BOOLEAN : OpenDriver(u, r)
    BY <1>5
  <2>2. r[1] \in Opposite(u)
    BY <1>1, <2>1 DEF OpenDriver, ScreensOK
  <2>3. TypeOK' /\ ScreensOK' /\ UNCHANGED <<docs, pending>>
    BY <1>1, <2>1, <2>2 DEF OpenDriver, TypeOK, ScreensOK, Screens
  <2>4. \A v \in User : at'[v] # "out" => at[v] # "out"
    BY <1>1, <2>1 DEF OpenDriver, TypeOK
  <2>5. QED
    BY <2>3, <2>4, ScreensInv
<1>6. CASE ShowMatches(u)
  <2>1. ScreensOK' /\ UNCHANGED <<docs, pending>>
    <3>1. UNCHANGED <<docs, pending, at, detail, lookups>>
      BY <1>6 DEF ShowMatches
    <3>2. \A v \in User : match'[v].slot = match[v].slot /\ match'[v].rides = match[v].rides
      BY <1>1, <1>6 DEF ShowMatches, TypeOK
    <3>3. QED
      BY <1>1, <3>1, <3>2 DEF ScreensOK
  <2>2. TypeOK'
    <3> DEFINE M == [slot : 0..NumSlots, rows : BOOLEAN, rides : SUBSET (User \X BOOLEAN)]
               m == [match[u] EXCEPT !.rows = TRUE]
    <3>1. match \in [User -> M]
      BY <1>1 DEF TypeOK
    <3>2. m \in M
      <4>1. match[u] \in M
        BY <3>1
      <4>2. QED
        BY <4>1
    <3>3. match' = [match EXCEPT ![u] = m] /\ UNCHANGED <<docs, pending, at, detail, lookups>>
      BY <1>6 DEF ShowMatches
    <3> HIDE DEF M, m
    <3>4. match' \in [User -> M]
      BY <3>1, <3>2, <3>3
    <3>5. QED
      BY <1>1, <3>3, <3>4 DEF TypeOK, M
  <2>3. \A v \in User : at'[v] # "out" => at[v] # "out"
    BY <1>6 DEF ShowMatches
  <2>4. QED
    BY <2>1, <2>2, <2>3, ScreensInv
<1>7. CASE BackToMatch(u)
  <2>1. TypeOK' /\ ScreensOK' /\ UNCHANGED <<docs, pending>>
    BY <1>1, <1>2, <1>7 DEF BackToMatch, TypeOK, ScreensOK, Screens
  <2>2. \A v \in User : at'[v] # "out" => at[v] # "out"
    BY <1>1, <1>7 DEF BackToMatch, TypeOK
  <2>3. QED
    BY <2>1, <2>2, ScreensInv
<1>8. CASE BackToHome(u)
  <2>1. TypeOK' /\ ScreensOK' /\ UNCHANGED <<docs, pending>>
    BY <1>1, <1>2, <1>8 DEF BackToHome, TypeOK, ScreensOK, Screens
  <2>2. \A v \in User : at'[v] # "out" => at[v] # "out"
    BY <1>1, <1>8 DEF BackToHome, TypeOK
  <2>3. QED
    BY <2>1, <2>2, ScreensInv
<1>9. CASE EditButton(u)
  <2>1. TypeOK' /\ ScreensOK' /\ UNCHANGED <<docs, pending>>
    BY <1>1, <1>9 DEF EditButton, TypeOK, ScreensOK, Screens
  <2>2. \A v \in User : at'[v] # "out" => at[v] # "out"
    BY <1>1, <1>9 DEF EditButton, TypeOK
  <2>3. QED
    BY <2>1, <2>2, ScreensInv
<1>10. CASE Relaunch(u)
  <2>1. TypeOK' /\ ScreensOK' /\ UNCHANGED <<docs, pending>>
    BY <1>1, <1>2, <1>10 DEF Relaunch, TypeOK, ScreensOK, Screens
  <2>2. \A v \in User : at'[v] # "out" => at[v] # "out"
    BY <1>1, <1>10 DEF Relaunch, TypeOK
  <2>3. QED
    BY <2>1, <2>2, ScreensInv
<1>11. CASE ConfirmButton(u)
  <2>1. match[u].slot \in Slots /\ at[u] # "out"
    BY <1>1, <1>11 DEF ConfirmButton, ScreensOK
  <2>2. PICK n \in 1..MaxLookups :
          lookups' = lookups \cup {[press |-> n, user |-> u, slot |-> match[u].slot]}
    BY <1>11 DEF ConfirmButton
  <2>3. UNCHANGED <<docs, pending, at, match, detail>>
    BY <1>11 DEF ConfirmButton
  <2>4. TypeOK'
    BY <1>1, <2>1, <2>2, <2>3 DEF TypeOK, Lookup
  <2>5. ScreensOK'
    BY <1>1, <2>1, <2>2, <2>3 DEF ScreensOK
  <2>6. QED
    BY <2>3, <2>4, <2>5, ScreensInv
<1>12. QED
  BY <1>3, <1>4, <1>5, <1>6, <1>7, <1>8, <1>9, <1>10, <1>11

\* A sequence of one write.
LEMMA OneWrite ==
  ASSUME NEW op \in Op
  PROVE  /\ <<op>> \in Seq(Op)
         /\ \A i \in 1..Len(<<op>>) : <<op>>[i] = op
OBVIOUS

\* What the request button queues, given a user of the other role.
LEMMA ButtonWrites ==
  ASSUME NEW u \in User, NEW v \in Opposite(u), NEW s \in Slots
  PROVE  /\ SendRideRequest(v, u, s) \in Op /\ Writes(u, SendRideRequest(v, u, s))
         /\ RemoveRideRequest(v, u, s) \in Op /\ Writes(u, RemoveRideRequest(v, u, s))
         /\ SendRideRequest(v, u, s).path = <<"drivers", u, s>>
         /\ SendRideRequest(v, u, s).kind = "union"
         /\ RemoveRideRequest(v, u, s).kind = "remove"
<1>1. /\ SendRideRequest(v, u, s) =
           [kind |-> "union", path |-> <<"drivers", u, s>>, ids |-> {v}]
      /\ RemoveRideRequest(v, u, s) =
           [kind |-> "remove", path |-> <<"drivers", v, s>>, ids |-> {u}]
  BY DEF SendRideRequest, RemoveRideRequest
<1>2. v \in User /\ {v} \subseteq Id /\ {u} \subseteq Id
  BY Paths DEF Id
<1>3. "drivers" \in Collections
  BY DEF Collections
<1>4. <<"drivers", u, s>> \in Path
  BY <1>3, Paths
<1>5. <<"drivers", v, s>> \in Path
  BY <1>2, <1>3, Paths
<1>6. SendRideRequest(v, u, s) \in Op
  BY <1>1, <1>2, <1>4 DEF Op, Kinds
<1>7. RemoveRideRequest(v, u, s) \in Op
  BY <1>1, <1>2, <1>5 DEF Op, Kinds
<1>8. Writes(u, SendRideRequest(v, u, s))
  BY <1>1 DEF Writes
<1>9. Writes(u, RemoveRideRequest(v, u, s))
  BY <1>1 DEF Writes
<1>10. QED
  BY <1>1, <1>6, <1>7, <1>8, <1>9

\* An edit is of the user's own ride.
LEMMA EditWrites ==
  ASSUME Inv, NEW l \in lookups
  PROVE  LET op == [kind |-> "edit", path |-> <<UserType(l.user), l.user, l.slot>>,
                    ids |-> {Empty}]
         IN  /\ l.user \in User /\ l.slot \in Slots /\ at[l.user] # "out"
             /\ op \in Op /\ Writes(l.user, op) /\ op.path = RideOf(l.user, l.slot)
<1>1. l.user \in User /\ l.slot \in Slots /\ at[l.user] # "out"
  BY DEF Inv, TypeOK, ScreensOK, Lookup
<1>2. <<UserType(l.user), l.user, l.slot>> = RideOf(l.user, l.slot)
  BY <1>1, UserTypeOK DEF RideOf
<1>3. QED
  BY <1>1, <1>2, Paths DEF Op, Kinds, Writes, Id, Stores

\* The request button, and the writes of confirmed edits.
LEMMA ButtonInv ==
  ASSUME Inv, NEW u \in User,
         \/ PressRequest(u) \/ PressCancel(u)
         \/ \E l \in lookups : l.user = u /\ SetDailyRide(l)
  PROVE  Inv'
<1>1. TypeOK /\ ScreensOK /\ RidesComeFirst
  BY DEF Inv
<1>2. CASE PressRequest(u)
  <2> DEFINE op == SendRideRequest(detail[u].selected, u, match[u].slot)
  <2>1. at[u] = "driver" /\ match[u].slot \in Slots /\ detail[u].selected \in Opposite(u)
    BY <1>1, <1>2 DEF PressRequest, ScreensOK
  <2>2. op \in Op /\ Writes(u, op) /\ op.path = <<"drivers", u, match[u].slot>>
    BY <2>1, ButtonWrites
  <2>3. u \in Drivers => Visible(u, op.path)
    BY <1>1, <2>1, <2>2 DEF RidesComeFirst, RideOf, RoleOf
  <2>4. /\ detail' \in [User -> [selected : User \cup {Nobody}, state : BOOLEAN]]
        /\ \A v \in User : detail'[v].selected = detail[v].selected
        /\ UNCHANGED <<docs, at, match>> /\ lookups' \subseteq lookups
        /\ Enqueue(u, <<op>>)
    BY <1>1, <1>2 DEF PressRequest, TypeOK
  <2> HIDE DEF op
  <2>5. QED
    BY <2>2, <2>3, <2>4, OneWrite, QueueInv
<1>3. CASE PressCancel(u)
  <2> DEFINE op == RemoveRideRequest(detail[u].selected, u, match[u].slot)
  <2>1. at[u] = "driver" /\ match[u].slot \in Slots /\ detail[u].selected \in Opposite(u)
    BY <1>1, <1>3 DEF PressCancel, ScreensOK
  <2>2. op \in Op /\ Writes(u, op) /\ op.kind = "remove"
    BY <2>1, ButtonWrites
  <2>3. /\ detail' \in [User -> [selected : User \cup {Nobody}, state : BOOLEAN]]
        /\ \A v \in User : detail'[v].selected = detail[v].selected
        /\ UNCHANGED <<docs, at, match>> /\ lookups' \subseteq lookups
        /\ Enqueue(u, <<op>>)
    BY <1>1, <1>3 DEF PressCancel, TypeOK
  <2> HIDE DEF op
  <2>4. /\ <<op>> \in Seq(Op)
        /\ \A i \in 1..Len(<<op>>) :
             Writes(u, <<op>>[i]) /\ <<op>>[i].kind # "union"
    BY <2>2, OneWrite
  <2>5. QED
    BY <2>3, <2>4, QueueInv
<1>4. ASSUME NEW l \in lookups, l.user = u, SetDailyRide(l) PROVE Inv'
  <2> DEFINE op == [kind |-> "edit", path |-> <<UserType(u), u, l.slot>>,
                    ids |-> {Empty}]
  <2>1. op \in Op /\ Writes(u, op) /\ op.kind = "edit"
    BY <1>4, EditWrites
  <2>2. /\ UNCHANGED <<docs, at, match, detail>> /\ lookups' \subseteq lookups
        /\ Enqueue(u, <<op>>)
    BY <1>4 DEF SetDailyRide
  <2> HIDE DEF op
  <2>3. detail' \in [User -> [selected : User \cup {Nobody}, state : BOOLEAN]]
    BY <1>1, <2>2 DEF TypeOK
  <2>4. QED
    BY <2>1, <2>2, <2>3, OneWrite, QueueInv
<1>5. QED
  BY <1>2, <1>3, <1>4

\* Every step, of any phone or of the server, keeps the invariant.
LEMMA NextInv == Inv /\ [Next]_vars => Inv'
<1>1. SUFFICES ASSUME Inv, [Next]_vars PROVE Inv'
  OBVIOUS
<1>2. CASE UNCHANGED vars
  <2>1. TypeOK' /\ ScreensOK'
    BY <1>1, <1>2 DEF vars, Inv, TypeOK, ScreensOK
  <2>2. QED
    BY <1>1, <1>2, <2>1, ScreensInv DEF vars
<1>3. ASSUME NEW u \in User, Phone(u) PROVE Inv'
  <2>1. CASE Register(u)
    BY <1>1, <2>1, RegisterInv
  <2>2. CASE Commit(u)
    BY <1>1, <2>2, CommitInv
  <2>3. CASE \/ PressRequest(u) \/ PressCancel(u)
             \/ \E l \in lookups : l.user = u /\ SetDailyRide(l)
    BY <1>1, <2>3, ButtonInv
  <2>4. CASE \/ ShowMatches(u) \/ BackToMatch(u) \/ BackToHome(u)
             \/ EditButton(u) \/ ConfirmButton(u) \/ Relaunch(u)
             \/ \E s \in Slots : OpenMatch(u, s)
             \/ \E v \in User : FetchRide(u, v)
             \/ \E r \in User \X BOOLEAN : OpenDriver(u, r)
    BY <1>1, <2>4, NavigationInv
  <2>5. QED
    BY <1>3, <2>1, <2>2, <2>3, <2>4 DEF Phone
<1>4. QED
  BY <1>1, <1>2, <1>3 DEF Next

\* The inductive invariant holds in every reachable state.
THEOREM SpecInv == Spec => []Inv
<1>1. QED
  BY InitInv, NextInv, PTL DEF Spec

\* Every variable keeps its type, however many users and slots there are.
THEOREM TypeCorrect == Spec => []TypeOK
<1>1. Inv => TypeOK
  BY DEF Inv
<1>2. QED
  BY <1>1, SpecInv, PTL

\* Requests are found in drivers' rides only, and are ids of passengers.
THEOREM OnlyDriversHold == Spec => []OnlyDriversHoldRequests
<1>1. Inv => OnlyDriversHoldRequests
  BY DEF Inv, DocsOK, OnlyDriversHoldRequests
<1>2. QED
  BY <1>1, SpecInv, PTL

\* The test `array.count > 1` finds every request: the array has its mark "".
THEOREM NothingHidden == Spec => []NoHiddenRequest
<1>1. IsFiniteSet(Id)
  <2>1. IsFiniteSet(Drivers \cup Passengers)
    BY UsersAreFinite, FS_Union
  <2>2. QED
    BY <2>1, FS_AddElement DEF Id, User
<1>2. ASSUME Inv, NEW u \in User, NEW s \in Slots, docs[RideOf(u, s)] # NoDoc
      PROVE  Shown(docs[RideOf(u, s)]) = docs[RideOf(u, s)] \ {Empty}
  <2> DEFINE array == docs[RideOf(u, s)]
  <2>1. /\ array \in SUBSET Id
        /\ RideOf(u, s) \in Path
    BY <1>2, Paths DEF Inv, TypeOK
  <2>2. Empty \in array
    <3>1. s # Root
      BY DEF Slots, Root
    <3>2. QED
      BY <1>2, <2>1, <3>1 DEF Inv, DocsOK, RideOf
  <2>3. IsFiniteSet(array)
    BY <1>1, <2>1, FS_Subset
  <2> HIDE DEF array
  <2>4. CASE array = {Empty}
    <3>1. Cardinality(array) = 1
      BY <2>4, FS_Singleton
    <3>2. QED
      BY <2>4, <3>1 DEF Shown, array
  <2>5. CASE array # {Empty}
    <3>1. PICK x \in array : x # Empty
      BY <2>2, <2>5
    <3>2. /\ IsFiniteSet({Empty}) /\ Cardinality({Empty}) = 1
          /\ {Empty} \subseteq array /\ {Empty} # array
      BY <2>2, <2>5, FS_Singleton
    <3>3. Cardinality({Empty}) < Cardinality(array)
      BY <2>3, <3>1, <3>2, FS_Subset, FS_CardinalityType
    <3>4. QED
      BY <2>3, <3>2, <3>3, FS_CardinalityType DEF Shown, array
  <2>6. QED
    BY <2>4, <2>5
<1>3. Inv => NoHiddenRequest
  BY <1>2 DEF NoHiddenRequest
<1>4. QED
  BY <1>3, SpecInv, PTL

\* A driver's request finds its document, whatever was queued with it.
THEOREM DriverRequestFindsRide == Spec => []DriverRequestHasTarget
<1>1. ASSUME Inv, NEW d \in Drivers, pending[d] # <<>>, Head(pending[d]).kind = "union"
      PROVE  docs[Head(pending[d]).path] # NoDoc
  <2>1. pending[d] \in Seq(Op)
    BY <1>1 DEF Inv, TypeOK, User
  <2>2. 1 \in 1..Len(pending[d]) /\ Head(pending[d]) = pending[d][1]
    BY <1>1, <2>1
  <2>3. Created(d, pending[d][1].path, 1)
    BY <1>1, <2>2 DEF Inv, RidesComeFirst
  <2>4. QED
    BY <2>2, <2>3 DEF Created
<1>2. Inv => DriverRequestHasTarget
  BY <1>1 DEF DriverRequestHasTarget
<1>3. QED
  BY <1>2, SpecInv, PTL

-----------------------------------------------------------------------------
(* The documents implement the board. *)

\* Only a commit changes a document.
LEMMA OthersKeepDocs ==
  ASSUME NEW u \in User, Phone(u), ~ Commit(u)
  PROVE  docs' = docs
BY DEF Phone, Register, ShowMatches, PressRequest, PressCancel, BackToMatch,
       BackToHome, EditButton, ConfirmButton, SetDailyRide, Relaunch, OpenMatch, FetchRide, OpenDriver

\* A commit is a step of one cell of the board or leaves the board as it is.
LEMMA CommitOnBoard ==
  ASSUME Inv, NEW u \in User, Commit(u)
  PROVE  Board!BoardNext
           \/ UNCHANGED [c \in Drivers \X Slots |-> Guests(c[1], c[2])]
<1> DEFINE op == Head(pending[u])
           B == [c \in Drivers \X Slots |-> Guests(c[1], c[2])]
<1>1. /\ docs' = [docs EXCEPT ![op.path] = Apply(@, op)]
      /\ docs \in [Path -> {NoDoc} \cup SUBSET Id]
      /\ op.path \in Path /\ Writes(u, op) /\ op.kind \in Kinds
  <2>1. pending[u] \in Seq(Op) /\ pending[u] # <<>>
    BY DEF Inv, TypeOK, Commit
  <2>2. op \in Op /\ op = pending[u][1] /\ 1 \in 1..Len(pending[u])
    BY <2>1
  <2>3. QED
    BY <2>2 DEF Inv, TypeOK, QueuesOK, Commit, Op
<1> HIDE DEF op
<1>2. ASSUME NEW d \in Drivers, NEW s \in Slots
      PROVE  /\ RideOf(d, s) \in Path /\ RideOf(d, s) = <<"drivers", d, s>>
             /\ op.path # RideOf(d, s) => Guests(d, s)' = Guests(d, s)
             /\ op.path = RideOf(d, s) =>
                  docs'[RideOf(d, s)] = Apply(docs[RideOf(d, s)], op)
  <2>1. RideOf(d, s) \in Path /\ RideOf(d, s) = <<"drivers", d, s>>
    BY Paths DEF User, RideOf, RoleOf
  <2>2. QED
    BY <1>1, <2>1 DEF Guests, RideOf
<1>3. CASE \A d \in Drivers, s \in Slots : op.path # RideOf(d, s)
  <2>1. \A c \in Drivers \X Slots : Guests(c[1], c[2])' = Guests(c[1], c[2])
    BY <1>2, <1>3
  <2>2. QED
    BY <2>1
<1>4. CASE \E d \in Drivers, s \in Slots : op.path = RideOf(d, s)
  <2>1. PICK d \in Drivers, s \in Slots : op.path = RideOf(d, s)
    BY <1>4
  <2>2. /\ docs'[RideOf(d, s)] = Apply(docs[RideOf(d, s)], op)
        /\ op.path = <<"drivers", d, s>>
    BY <1>2, <2>1
  <2>3. \A c \in Drivers \X Slots :
          c # <<d, s>> => Guests(c[1], c[2])' = Guests(c[1], c[2])
    <3>1. SUFFICES ASSUME NEW c \in Drivers \X Slots, c # <<d, s>>
                   PROVE  Guests(c[1], c[2])' = Guests(c[1], c[2])
      OBVIOUS
    <3>2. c[1] \in Drivers /\ c[2] \in Slots /\ (c[1] # d \/ c[2] # s)
      BY <3>1
    <3>3. op.path # RideOf(c[1], c[2])
      BY <1>2, <2>2, <3>2
    <3>4. QED
      BY <1>2, <3>2, <3>3
  <2>4. /\ B \in [Drivers \X Slots -> SUBSET Id]
        /\ \A X : Guests(d, s)' = X => B' = [B EXCEPT ![<<d, s>>] = X]
    <3>1. \A c \in Drivers \X Slots : Guests(c[1], c[2]) \in SUBSET Id
      BY <1>1, <1>2 DEF Guests
    <3>2. ASSUME NEW X, Guests(d, s)' = X
          PROVE  B' = [B EXCEPT ![<<d, s>>] = X]
      <4>1. ASSUME NEW c \in Drivers \X Slots
            PROVE  Guests(c[1], c[2])' = [B EXCEPT ![<<d, s>>] = X][c]
        <5>1. CASE c = <<d, s>>
          BY <3>2, <5>1
        <5>2. CASE c # <<d, s>>
          BY <2>3, <5>2
        <5>3. QED
          BY <5>1, <5>2
      <4>2. B' = [c \in Drivers \X Slots |-> Guests(c[1], c[2])']
        OBVIOUS
      <4>3. QED
        BY <4>1, <4>2
    <3>3. B \in [Drivers \X Slots -> SUBSET Id]
      BY <3>1
    <3>4. QED
      BY <3>2, <3>3
  <2>5. <<d, s>> \in Drivers \X Slots /\ B[<<d, s>>] = Guests(d, s)
    OBVIOUS
  <2>6. CASE docs[RideOf(d, s)] = NoDoc /\ ~ Stores(op)
    <3>1. Guests(d, s)' = {} /\ Guests(d, s) = {}
      BY <2>2, <2>6 DEF Apply, Guests, RideOf
    <3>2. B' = [B EXCEPT ![<<d, s>>] = {}]
      BY <2>4, <3>1
    <3>3. QED
      BY <2>5, <3>2 DEF Board!BoardNext, Board!Rewrite, Board!Cells
  <2>7. CASE Stores(op)
    <3>1. op.ids = {Empty}
      <4>1. op.path # Marker(u)
        BY <2>2 DEF Marker, Slots, Root
      <4>2. QED
        BY <1>1, <2>7, <4>1 DEF Writes, Stores
    <3>2. Guests(d, s)' = {}
      BY <2>2, <2>7, <3>1 DEF Apply, Guests, RideOf
    <3>3. B' = [B EXCEPT ![<<d, s>>] = {}]
      BY <2>4, <3>2
    <3>4. QED
      BY <2>5, <3>3 DEF Board!BoardNext, Board!Rewrite, Board!Cells
  <2>8. CASE op.kind = "union" /\ docs[RideOf(d, s)] # NoDoc
    <3>1. PICK v \in Opposite(u) : op.path[2] = u /\ op.ids = {v}
      BY <1>1, <2>8 DEF Writes, Stores
    <3>2. v \in Passengers /\ v # Empty
      BY <2>2, <3>1, Paths, MarksAreNotUsers DEF User
    <3>3. docs'[RideOf(d, s)] = docs[RideOf(d, s)] \cup {v}
      BY <2>2, <2>8, <3>1 DEF Apply, Stores
    <3>4. docs[RideOf(d, s)] \cup {v} # NoDoc
      BY <1>1, <1>2, <2>8, <3>1, <3>2, NoDocIsNoArray DEF Id, User
    <3>5. Guests(d, s)' = Guests(d, s) \cup {v}
      BY <2>8, <3>2, <3>3, <3>4 DEF Guests, RideOf
    <3>6. B' = [B EXCEPT ![<<d, s>>] = @ \cup {v}]
      BY <2>4, <2>5, <3>5
    <3>7. QED
      BY <2>5, <3>2, <3>6 DEF Board!BoardNext, Board!Invite, Board!Cells
  <2>9. CASE op.kind = "remove" /\ docs[RideOf(d, s)] # NoDoc
    <3>1. PICK v \in Opposite(u) : op.path[2] = v /\ op.ids = {u}
      BY <1>1, <2>9 DEF Writes, Stores
    <3>2. u \in Passengers
      BY <2>2, <3>1, RolesAreDisjoint DEF Opposite, User
    <3>3. docs'[RideOf(d, s)] = docs[RideOf(d, s)] \ {u}
      BY <2>2, <2>9, <3>1 DEF Apply, Stores
    <3>4. docs[RideOf(d, s)] \ {u} # NoDoc
      BY <1>1, <1>2, <2>9, NoDocIsNoArray
    <3>5. Guests(d, s)' = Guests(d, s) \ {u}
      BY <2>9, <3>3, <3>4 DEF Guests, RideOf
    <3>6. B' = [B EXCEPT ![<<d, s>>] = @ \ {u}]
      BY <2>4, <2>5, <3>5
    <3>7. QED
      BY <2>5, <3>2, <3>6 DEF Board!BoardNext, Board!Withdraw, Board!Cells
  <2>10. QED
    BY <1>1, <2>6, <2>7, <2>8, <2>9 DEF Kinds, Stores
<1>5. QED
  BY <1>3, <1>4

\* The requests stored in the rides implement RequestBoard.
THEOREM ImplementsBoard == Spec => BoardSpec
<1>1. Init => Board!BoardInit
  <2>1. SUFFICES ASSUME Init PROVE Board!BoardInit
    OBVIOUS
  <2>2. ASSUME NEW c \in Drivers \X Slots PROVE Guests(c[1], c[2]) = {}
    <3>1. RideOf(c[1], c[2]) \in Path
      BY Paths DEF User
    <3>2. QED
      BY <2>1, <3>1 DEF Init, Guests
  <2>3. QED
    BY <2>2 DEF Board!BoardInit, Board!Cells
<1>2. Inv /\ [Next]_vars
        => [Board!BoardNext]_[c \in Drivers \X Slots |-> Guests(c[1], c[2])]
  <2>1. SUFFICES ASSUME Inv, [Next]_vars, docs' # docs
                 PROVE  [Board!BoardNext]_[c \in Drivers \X Slots |-> Guests(c[1], c[2])]
    BY DEF Guests
  <2>2. PICK u \in User : Phone(u)
    BY <2>1 DEF Next, vars
  <2>3. Commit(u)
    BY <2>1, <2>2, OthersKeepDocs
  <2>4. QED
    BY <2>1, <2>3, CommitOnBoard
<1>3. QED
  BY <1>1, <1>2, SpecInv, PTL DEF Spec, BoardSpec, Board!BoardSpec

-----------------------------------------------------------------------------
(* Who takes a passenger out of a driver's array. *)

\* A default ride is created at most once: while its creation is queued there
\* is no such document, and a phone that has not registered has neither.
CreatesOnce ==
  \A u \in User :
    /\ at[u] = "out" =>
         pending[u] = <<>> /\ \A path \in Path : path[2] = u => docs[path] = NoDoc
    /\ \A i \in 1..Len(pending[u]) :
         pending[u][i].kind = "create" =>
           /\ docs[pending[u][i].path] = NoDoc
           /\ \A j \in 1..Len(pending[u]) :
                j < i /\ Stores(pending[u][j]) => pending[u][j].path # pending[u][i].path

\* At first no queue has a default ride to create.
LEMMA InitCreates == Init => CreatesOnce
BY DEF Init, CreatesOnce

\* Any action but registration and commit: what it queues creates nothing.
LEMMA QueueCreates ==
  ASSUME Inv, CreatesOnce, NEW u \in User, Phone(u), ~ Register(u), ~ Commit(u)
  PROVE  CreatesOnce'
<1>0. \A l \in lookups : l.user = u => at[u] # "out"
  BY DEF Inv, ScreensOK
<1>1. /\ docs' = docs /\ TypeOK /\ at[u] # "out"
      /\ \A v \in User : at'[v] = "out" => at[v] = "out"
  BY <1>0, OthersKeepDocs
  DEF Inv, TypeOK, Phone, ShowMatches, PressRequest, PressCancel, BackToMatch,
      BackToHome, EditButton, ConfirmButton, SetDailyRide, Relaunch, OpenMatch, FetchRide, OpenDriver
<1>2. CASE pending' = pending
  BY <1>1, <1>2 DEF CreatesOnce, Stores
<1>3. CASE \E op \in Op : op.kind # "create" /\ Enqueue(u, <<op>>)
  <2>1. PICK op \in Op : op.kind # "create" /\ Enqueue(u, <<op>>)
    BY <1>3
  <2>2. /\ pending \in [User -> Seq(Op)]
        /\ <<op>> \in Seq(Op) /\ Len(<<op>>) = 1 /\ <<op>>[1] = op
    BY <1>1 DEF TypeOK
  <2>3. /\ Len(pending'[u]) = Len(pending[u]) + 1
        /\ \A i \in 1..Len(pending[u]) : pending'[u][i] = pending[u][i]
        /\ pending'[u][Len(pending[u]) + 1] = op
        /\ \A v \in User \ {u} : pending'[v] = pending[v]
        /\ Len(pending[u]) \in Nat
    <3>1. /\ Len(pending'[u]) = Len(pending[u]) + Len(<<op>>)
          /\ \A i \in 1..Len(pending[u]) : pending'[u][i] = pending[u][i]
          /\ \A i \in 1..Len(<<op>>) : pending'[u][Len(pending[u]) + i] = <<op>>[i]
          /\ \A v \in User \ {u} : pending'[v] = pending[v]
      BY <2>1, <2>2, Enqueued
    <3>2. Len(pending[u]) \in Nat
      BY <2>2
    <3>3. QED
      BY <2>2, <3>1, <3>2
  <2>4. ASSUME NEW v \in User, v # u
        PROVE  pending'[v] = pending[v]
    BY <2>3, <2>4
  <2>5. ASSUME NEW i \in 1..Len(pending'[u]), pending'[u][i].kind = "create"
        PROVE  i \in 1..Len(pending[u]) /\ pending'[u][i] = pending[u][i]
    <3>1. i # Len(pending[u]) + 1
      BY <2>1, <2>3, <2>5
    <3>2. i \in 1..Len(pending[u])
      BY <2>3, <3>1
    <3>3. QED
      BY <2>3, <3>2
  <2>6. ASSUME NEW i \in 1..Len(pending'[u]), pending'[u][i].kind = "create"
        PROVE  /\ docs'[pending'[u][i].path] = NoDoc
               /\ \A j \in 1..Len(pending'[u]) :
                    j < i /\ Stores(pending'[u][j])
                      => pending'[u][j].path # pending'[u][i].path
    <3>1. i \in 1..Len(pending[u]) /\ pending'[u][i] = pending[u][i]
      BY <2>5, <2>6
    <3>2. \A j \in 1..Len(pending'[u]) :
            j < i => j \in 1..Len(pending[u]) /\ pending'[u][j] = pending[u][j]
      BY <2>3, <3>1
    <3>3. QED
      BY <1>1, <2>6, <3>1, <3>2 DEF CreatesOnce
  <2>7. QED
    BY <1>1, <2>4, <2>6 DEF CreatesOnce, Stores
<1>4. pending' = pending \/ \E op \in Op : op.kind # "create" /\ Enqueue(u, <<op>>)
  <2>1. CASE PressRequest(u) \/ PressCancel(u)
    <3>1. match[u].slot \in Slots /\ detail[u].selected \in Opposite(u)
      BY <2>1 DEF Inv, ScreensOK, PressRequest, PressCancel
    <3>2. /\ SendRideRequest(detail[u].selected, u, match[u].slot) \in Op
          /\ RemoveRideRequest(detail[u].selected, u, match[u].slot) \in Op
      BY <3>1, ButtonWrites
    <3>3. QED
      BY <2>1, <3>2 DEF PressRequest, PressCancel, SendRideRequest, RemoveRideRequest
  <2>2. ASSUME NEW l \in lookups, l.user = u, SetDailyRide(l)
        PROVE  \E op \in Op : op.kind # "create" /\ Enqueue(u, <<op>>)
    <3> DEFINE op == [kind |-> "edit", path |-> <<UserType(u), u, l.slot>>,
                      ids |-> {Empty}]
    <3>1. op \in Op /\ op.kind # "create"
      BY <2>2, EditWrites
    <3>2. QED
      BY <2>2, <3>1 DEF SetDailyRide
  <2>3. QED
    BY <2>1, <2>2 DEF Phone, ShowMatches, BackToMatch, BackToHome, EditButton,
                      ConfirmButton, Relaunch, OpenMatch, FetchRide, OpenDriver
<1>5. QED
  BY <1>2, <1>3, <1>4

\* Registration queues each default ride once, and only before any exists.
LEMMA RegisterCreates ==
  ASSUME Inv, CreatesOnce, NEW u \in User, Register(u)
  PROVE  CreatesOnce'
<1> DEFINE mark == [kind |-> "create", path |-> Marker(u), ids |-> {}]
           ops == <<mark>> \o CreateDefaultRides(u)
<1>1. /\ pending \in [User -> Seq(Op)] /\ pending[u] = <<>>
      /\ \A path \in Path : path[2] = u => docs[path] = NoDoc
      /\ at' = [at EXCEPT ![u] = "home"] /\ at \in [User -> Screens]
      /\ docs' = docs
      /\ pending' = [pending EXCEPT ![u] = @ \o ops]
  BY DEF Inv, TypeOK, CreatesOnce, Register, Enqueue
<1>2. mark \in Op
  BY Paths DEF Op, Kinds
<1>3. CreateDefaultRides(u) \in Seq(Op) /\ Len(CreateDefaultRides(u)) = NumSlots
  <2>1. CreateDefaultRides(u) \in [1..NumSlots -> Op]
    BY Paths DEF CreateDefaultRides, Op, Kinds, Id, Slots
  <2>2. QED
    BY <2>1, NumSlotsIsNat, SeqDef
<1>4. /\ ops \in Seq(Op) /\ Len(ops) = NumSlots + 1 /\ ops[1].path = <<RoleOf(u), u, Root>>
      /\ \A s \in Slots : ops[s + 1].path = <<RoleOf(u), u, s>>
  <2>1. /\ ops \in Seq(Op) /\ Len(ops) = NumSlots + 1 /\ ops[1] = mark
        /\ \A s \in Slots : ops[s + 1] = CreateDefaultRides(u)[s]
    BY <1>2, <1>3, NumSlotsIsNat DEF Slots
  <2>2. QED
    BY <2>1 DEF CreateDefaultRides, RideOf, Marker
<1> HIDE DEF ops
<1>5. ASSUME NEW i \in 1..Len(ops)
      PROVE  ops[i].path = <<RoleOf(u), u, i - 1>>
  <2>1. CASE i = 1
    BY <1>4, <2>1 DEF Root
  <2>2. CASE i # 1
    <3>1. i - 1 \in Slots /\ i = (i - 1) + 1
      BY <1>4, <2>2, NumSlotsIsNat DEF Slots
    <3>2. QED
      BY <1>4, <3>1
  <2>3. QED
    BY <2>1, <2>2
<1>6. pending'[u] = ops /\ \A v \in User \ {u} : pending'[v] = pending[v]
  BY <1>1, <1>4
<1>7. ASSUME NEW i \in 1..Len(ops)
      PROVE  /\ docs[ops[i].path] = NoDoc
             /\ \A j \in 1..Len(ops) : j < i => ops[j].path # ops[i].path
  <2>1. i - 1 \in 0..NumSlots
    BY <1>4, NumSlotsIsNat
  <2>2. ops[i].path \in Path /\ ops[i].path[2] = u
    BY <1>5, <2>1, Paths DEF Path
  <2>3. ASSUME NEW j \in 1..Len(ops), j < i PROVE ops[j].path # ops[i].path
    <3>1. j - 1 # i - 1
      BY <2>3
    <3>2. QED
      BY <1>5, <3>1
  <2>4. QED
    BY <1>1, <2>2, <2>3
<1>8. ASSUME NEW v \in User, v # u
      PROVE  pending'[v] = pending[v] /\ at'[v] = at[v]
  BY <1>1, <1>6, <1>8
<1>9. at'[u] # "out"
  BY <1>1
<1>10. QED
  BY <1>1, <1>6, <1>7, <1>8, <1>9 DEF CreatesOnce, Stores

\* A commit creates the oldest default ride and leaves no second one queued.
LEMMA CommitCreates ==
  ASSUME Inv, CreatesOnce, NEW u \in User, Commit(u)
  PROVE  CreatesOnce'
<1> DEFINE op == Head(pending[u])
<1>1. /\ docs' = [docs EXCEPT ![op.path] = Apply(@, op)]
      /\ docs \in [Path -> {NoDoc} \cup SUBSET Id]
      /\ pending \in [User -> Seq(Op)]
      /\ pending[u] \in Seq(Op) /\ pending[u] # <<>>
      /\ \A v \in User : at'[v] = "out" => at[v] = "out"
  BY DEF Inv, TypeOK, Commit
<1>2. /\ op = pending[u][1] /\ op \in Op /\ 1 \in 1..Len(pending[u])
      /\ Len(pending[u]) \in Nat
  BY <1>1
<1>3. op.path \in Path /\ Writes(u, op)
  BY <1>2 DEF Inv, QueuesOK, Op
<1>4. Stores(op) => op.path[2] = u
  BY <1>3 DEF Writes, Stores, Marker, RideOf
<1>5. ASSUME NEW path \in Path, docs[path] = NoDoc, ~ (Stores(op) /\ path = op.path)
      PROVE  docs'[path] = NoDoc
  BY <1>1, <1>3, <1>5 DEF Apply
<1>6. /\ pending'[u] = Tail(pending[u])
      /\ Len(pending'[u]) = Len(pending[u]) - 1
      /\ \A i \in 1..Len(pending'[u]) : pending'[u][i] = pending[u][i + 1]
      /\ \A v \in User \ {u} : pending'[v] = pending[v]
  <2>1. pending' = [pending EXCEPT ![u] = Tail(@)]
    BY DEF Commit
  <2>2. /\ Len(Tail(pending[u])) = Len(pending[u]) - 1
        /\ \A i \in 1..Len(Tail(pending[u])) : Tail(pending[u])[i] = pending[u][i + 1]
    BY <1>1, <1>2
  <2>3. QED
    BY <1>1, <2>1, <2>2
<1>7. ASSUME NEW v \in User, NEW i \in 1..Len(pending[v])
      PROVE  /\ pending[v][i].path \in Path
             /\ pending[v][i].kind = "create" => pending[v][i].path[2] = v
  <2>1. pending[v][i] \in Op /\ Writes(v, pending[v][i])
    BY <1>1 DEF Inv, QueuesOK
  <2>2. QED
    BY <2>1 DEF Op, Writes, Stores, Marker, RideOf
<1>8. ASSUME NEW v \in User, v # u
      PROVE  /\ at'[v] = "out" =>
                  pending'[v] = <<>> /\ \A path \in Path : path[2] = v => docs'[path] = NoDoc
             /\ \A i \in 1..Len(pending'[v]) :
                  pending'[v][i].kind = "create" =>
                    /\ docs'[pending'[v][i].path] = NoDoc
                    /\ \A j \in 1..Len(pending'[v]) : j < i /\ Stores(pending'[v][j])
                         => pending'[v][j].path # pending'[v][i].path
  <2>1. pending'[v] = pending[v]
    BY <1>6, <1>8
  <2>2. \A path \in Path : path[2] = v /\ docs[path] = NoDoc => docs'[path] = NoDoc
    BY <1>4, <1>5, <1>8
  <2>3. QED
    BY <1>1, <1>7, <2>1, <2>2 DEF CreatesOnce
<1>9. at'[u] # "out"
  BY <1>1 DEF CreatesOnce
<1>10. ASSUME NEW i \in 1..Len(pending'[u]), pending'[u][i].kind = "create"
       PROVE  /\ docs'[pending'[u][i].path] = NoDoc
              /\ \A j \in 1..Len(pending'[u]) : j < i /\ Stores(pending'[u][j])
                   => pending'[u][j].path # pending'[u][i].path
  <2>1. i + 1 \in 1..Len(pending[u]) /\ pending'[u][i] = pending[u][i + 1]
    BY <1>2, <1>6
  <2>2. docs[pending[u][i + 1].path] = NoDoc
    BY <1>10, <2>1 DEF CreatesOnce
  <2>3. Stores(op) => pending[u][i + 1].path # op.path
    <3>1. 1 < i + 1
      BY <2>1
    <3>2. QED
      BY <1>2, <1>10, <2>1, <3>1 DEF CreatesOnce
  <2>4. docs'[pending'[u][i].path] = NoDoc
    BY <1>5, <1>7, <2>1, <2>2, <2>3
  <2>5. ASSUME NEW j \in 1..Len(pending'[u]), j < i, Stores(pending'[u][j])
        PROVE  pending'[u][j].path # pending'[u][i].path
    <3>1. j + 1 \in 1..Len(pending[u]) /\ j + 1 < i + 1 /\ pending'[u][j] = pending[u][j + 1]
      BY <1>2, <1>6, <2>5
    <3>2. QED
      BY <1>10, <2>1, <2>5, <3>1 DEF CreatesOnce
  <2>6. QED
    BY <2>4, <2>5
<1>11. QED
  BY <1>8, <1>9, <1>10 DEF CreatesOnce, Stores

\* A default ride is created once: registration never overwrites a ride that
\* may already hold requests.
THEOREM SpecCreatesOnce == Spec => []CreatesOnce
<1>1. Inv /\ CreatesOnce /\ [Next]_vars => CreatesOnce'
  <2>1. SUFFICES ASSUME Inv, CreatesOnce, [Next]_vars PROVE CreatesOnce'
    OBVIOUS
  <2>2. CASE UNCHANGED vars
    BY <2>1, <2>2 DEF CreatesOnce, Stores, vars
  <2>3. ASSUME NEW u \in User, Phone(u) PROVE CreatesOnce'
    BY <2>1, <2>3, RegisterCreates, CommitCreates, QueueCreates
  <2>4. QED
    BY <2>1, <2>2, <2>3 DEF Next
<1>2. QED
  BY <1>1, InitCreates, SpecInv, PTL DEF Spec

-----------------------------------------------------------------------------
(* An invitation stays where the driver's own phone shows it. *)

\* A step that leaves the queue of u alone and takes nothing from the document.
LEMMA ContainsByDocs ==
  ASSUME NEW u, NEW path, NEW x, Contains(u, path, x), pending'[u] = pending[u],
         docs[path] # NoDoc =>
           docs'[path] # NoDoc /\ (x \in docs[path] => x \in docs'[path])
  PROVE  Contains(u, path, x)'
<1>1. /\ Visible(u, path)
      /\ \/ /\ \A i \in 1..Len(pending[u]) : ~ About(pending[u][i], path, x)
            /\ x \in docs[path]
         \/ \E i \in 1..Len(pending[u]) :
              /\ About(pending[u][i], path, x)
              /\ \A j \in (i + 1)..Len(pending[u]) : ~ About(pending[u][j], path, x)
              /\ pending[u][i].kind # "remove" /\ x \in pending[u][i].ids
  BY DEF Contains
<1>2. Visible(u, path)'
  BY <1>1 DEF Visible, Stores
<1>3. CASE \E i \in 1..Len(pending[u]) :
             /\ About(pending[u][i], path, x)
             /\ \A j \in (i + 1)..Len(pending[u]) : ~ About(pending[u][j], path, x)
             /\ pending[u][i].kind # "remove" /\ x \in pending[u][i].ids
  BY <1>2, <1>3 DEF Contains, About, Stores
<1>4. CASE /\ \A i \in 1..Len(pending[u]) : ~ About(pending[u][i], path, x)
           /\ x \in docs[path]
  <2>1. docs[path] # NoDoc
    BY <1>1, <1>4 DEF Visible, About
  <2>2. QED
    BY <1>2, <1>4, <2>1 DEF Contains, About, Stores
<1>5. QED
  BY <1>1, <1>3, <1>4

\* A step that queues one more write, which is not about x or puts x there.
LEMMA ContainsByWrite ==
  ASSUME pending \in [User -> Seq(Op)], NEW u \in User, NEW op \in Op,
         NEW path, NEW x, Contains(u, path, x), Enqueue(u, <<op>>), docs' = docs,
         About(op, path, x) => op.kind # "remove" /\ x \in op.ids
  PROVE  Contains(u, path, x)'
<1> DEFINE n == Len(pending[u])
<1>1. /\ n \in Nat /\ Len(pending'[u]) = n + 1 /\ pending'[u][n + 1] = op
      /\ \A i \in 1..n : pending'[u][i] = pending[u][i]
  <2>1. <<op>> \in Seq(Op) /\ Len(<<op>>) = 1 /\ <<op>>[1] = op
    OBVIOUS
  <2>2. n \in Nat
    OBVIOUS
  <2>3. /\ Len(pending'[u]) = Len(pending[u]) + Len(<<op>>)
        /\ \A i \in 1..Len(pending[u]) : pending'[u][i] = pending[u][i]
        /\ \A i \in 1..Len(<<op>>) : pending'[u][Len(pending[u]) + i] = <<op>>[i]
    BY <2>1, Enqueued
  <2>4. QED
    BY <2>1, <2>2, <2>3
<1>2. /\ Visible(u, path)
      /\ \/ /\ \A i \in 1..n : ~ About(pending[u][i], path, x)
            /\ x \in docs[path]
         \/ \E i \in 1..n :
              /\ About(pending[u][i], path, x)
              /\ \A j \in (i + 1)..n : ~ About(pending[u][j], path, x)
              /\ pending[u][i].kind # "remove" /\ x \in pending[u][i].ids
  BY DEF Contains
<1> HIDE DEF n
<1>3. 1..n \subseteq 1..(n + 1) /\ \A i \in 1..(n + 1) : i \in 1..n \/ i = n + 1
  BY <1>1
<1>4. \/ docs'[path] # NoDoc
      \/ \E i \in 1..(n + 1) : pending'[u][i].path = path /\ Stores(pending'[u][i])
  <2>1. CASE docs[path] # NoDoc
    BY <2>1
  <2>2. CASE docs[path] = NoDoc
    <3>1. PICK i \in 1..n : pending[u][i].path = path /\ Stores(pending[u][i])
      BY <1>2, <2>2 DEF Visible, n
    <3>2. i \in 1..(n + 1) /\ pending'[u][i] = pending[u][i]
      BY <1>1, <1>3
    <3>3. QED
      BY <3>1, <3>2
  <2>3. QED
    BY <2>1, <2>2
<1>5. Visible(u, path)'
  BY <1>1, <1>4 DEF Visible, Stores
<1>6. CASE About(op, path, x)
  <2>1. n + 1 \in 1..(n + 1) /\ (n + 1 + 1)..(n + 1) = {}
    BY <1>1
  <2>2. QED
    BY <1>1, <1>5, <1>6, <2>1 DEF Contains, About, Stores
<1>7. CASE ~ About(op, path, x)
  <2>1. CASE /\ \A i \in 1..n : ~ About(pending[u][i], path, x)
             /\ x \in docs[path]
    <3>1. \A i \in 1..(n + 1) : ~ About(pending'[u][i], path, x)
      BY <1>1, <1>3, <1>7, <2>1
    <3>2. QED
      BY <1>1, <1>5, <2>1, <3>1 DEF Contains, About, Stores
  <2>2. CASE \E i \in 1..n :
               /\ About(pending[u][i], path, x)
               /\ \A j \in (i + 1)..n : ~ About(pending[u][j], path, x)
               /\ pending[u][i].kind # "remove" /\ x \in pending[u][i].ids
    <3>1. PICK i \in 1..n :
            /\ About(pending[u][i], path, x)
            /\ \A j \in (i + 1)..n : ~ About(pending[u][j], path, x)
            /\ pending[u][i].kind # "remove" /\ x \in pending[u][i].ids
      BY <2>2
    <3>2. i \in 1..(n + 1) /\ pending'[u][i] = pending[u][i]
      BY <1>1, <1>3
    <3>3. \A j \in (i + 1)..(n + 1) : (j \in (i + 1)..n /\ j \in 1..n) \/ j = n + 1
      BY <1>1
    <3>4. \A j \in (i + 1)..(n + 1) : ~ About(pending'[u][j], path, x)
      BY <1>1, <1>7, <3>1, <3>3
    <3>5. QED
      BY <1>1, <1>5, <3>1, <3>2, <3>4 DEF Contains, About, Stores
  <2>3. QED
    BY <1>2, <2>1, <2>2
<1>8. QED
  BY <1>6, <1>7

\* The commit of the oldest write of u, which finds its document.
LEMMA ContainsByCommit ==
  ASSUME Inv, NEW u \in User, Commit(u), NEW path \in Path, NEW x,
         Contains(u, path, x),
         Head(pending[u]).kind = "union" /\ Head(pending[u]).path = path
           => docs[path] # NoDoc
  PROVE  Contains(u, path, x)'
<1> DEFINE n == Len(pending[u])
           op == pending[u][1]
<1>1. /\ pending[u] \in Seq(Op) /\ pending[u] # <<>> /\ pending \in [User -> Seq(Op)]
      /\ docs \in [Path -> {NoDoc} \cup SUBSET Id]
      /\ docs' = [docs EXCEPT ![Head(pending[u]).path] = Apply(@, Head(pending[u]))]
      /\ pending' = [pending EXCEPT ![u] = Tail(@)]
  BY DEF Inv, TypeOK, Commit
<1>2. /\ n \in Nat /\ 1 \in 1..n /\ op \in Op /\ op = Head(pending[u])
      /\ Len(pending'[u]) = n - 1
      /\ \A i \in 1..(n - 1) : pending'[u][i] = pending[u][i + 1]
  <2>1. pending'[u] = Tail(pending[u])
    BY <1>1
  <2>2. QED
    BY <1>1, <2>1
<1>3. op.path \in Path /\ op.ids \in SUBSET Id
  BY <1>2 DEF Op
<1>4. /\ Visible(u, path)
      /\ \/ /\ \A i \in 1..n : ~ About(pending[u][i], path, x)
            /\ x \in docs[path]
         \/ \E i \in 1..n :
              /\ About(pending[u][i], path, x)
              /\ \A j \in (i + 1)..n : ~ About(pending[u][j], path, x)
              /\ pending[u][i].kind # "remove" /\ x \in pending[u][i].ids
  BY DEF Contains
<1> HIDE DEF n, op
<1>5. /\ op.path # path => docs'[path] = docs[path]
      /\ op.path = path => docs'[path] = Apply(docs[path], op)
      /\ docs[path] \in {NoDoc} \cup SUBSET Id
  BY <1>1, <1>2, <1>3
<1>6. /\ docs[path] # NoDoc => docs'[path] # NoDoc
      /\ op.path = path /\ Stores(op) => docs'[path] # NoDoc
  BY <1>2, <1>5, ApplyOK
<1>7. ASSUME NEW i \in 1..n, i # 1
      PROVE  i - 1 \in 1..(n - 1) /\ pending'[u][i - 1] = pending[u][i]
  <2>1. i - 1 \in 1..(n - 1) /\ (i - 1) + 1 = i
    BY <1>2, <1>7
  <2>2. QED
    BY <1>2, <2>1
<1>8. \A j \in 1..(n - 1) : j + 1 \in 1..n /\ j + 1 # 1
  BY <1>2
<1>9. \/ docs'[path] # NoDoc
      \/ \E i \in 1..(n - 1) : pending'[u][i].path = path /\ Stores(pending'[u][i])
  <2>1. CASE docs[path] # NoDoc
    BY <1>6, <2>1
  <2>2. CASE docs[path] = NoDoc
    <3>1. PICK i \in 1..n : pending[u][i].path = path /\ Stores(pending[u][i])
      BY <1>4, <2>2 DEF Visible, n
    <3>2. CASE i = 1
      BY <1>6, <3>1, <3>2 DEF op
    <3>3. CASE i # 1
      BY <1>7, <3>1, <3>3
    <3>4. QED
      BY <3>2, <3>3
  <2>3. QED
    BY <2>1, <2>2
<1>10. Visible(u, path)'
  BY <1>2, <1>9 DEF Visible, Stores
<1>11. ASSUME x \in docs'[path],
              \A i \in 1..n : i # 1 => ~ About(pending[u][i], path, x)
       PROVE  Contains(u, path, x)'
  <2>1. \A i \in 1..(n - 1) : ~ About(pending'[u][i], path, x)
    BY <1>2, <1>8, <1>11
  <2>2. QED
    BY <1>2, <1>10, <1>11, <2>1 DEF Contains, About, Stores
<1>12. CASE /\ \A i \in 1..n : ~ About(pending[u][i], path, x)
            /\ x \in docs[path]
  <2>1. docs[path] # NoDoc
    BY <1>4, <1>12 DEF Visible, About, n
  <2>2. ~ About(op, path, x)
    BY <1>2, <1>12 DEF op
  <2>3. x \in docs'[path]
    BY <1>5, <1>12, <2>1, <2>2 DEF Apply, About
  <2>4. QED
    BY <1>11, <1>12, <2>3
<1>13. ASSUME NEW i \in 1..n,
              About(pending[u][i], path, x),
              \A j \in (i + 1)..n : ~ About(pending[u][j], path, x),
              pending[u][i].kind # "remove", x \in pending[u][i].ids
       PROVE  Contains(u, path, x)'
  <2>1. CASE i = 1
    <3>1. op.path = path /\ x \in op.ids /\ op.kind # "remove" /\ op.kind \in Kinds
      BY <1>2, <1>13, <2>1 DEF About, op, Op
    <3>2. x \in docs'[path]
      <4>1. CASE Stores(op)
        BY <1>5, <3>1, <4>1 DEF Apply
      <4>2. CASE ~ Stores(op)
        <5>1. op.kind = "union"
          BY <3>1, <4>2 DEF Stores, Kinds
        <5>2. docs[path] # NoDoc
          BY <1>2, <3>1, <5>1
        <5>3. QED
          BY <1>5, <3>1, <4>2, <5>1, <5>2 DEF Apply
      <4>3. QED
        BY <4>1, <4>2
    <3>3. \A j \in 1..n : j # 1 => j \in (i + 1)..n
      BY <1>2, <2>1
    <3>4. QED
      BY <1>11, <1>13, <3>2, <3>3
  <2>2. CASE i # 1
    <3>1. i - 1 \in 1..(n - 1) /\ pending'[u][i - 1] = pending[u][i]
      BY <1>7, <2>2
    <3>2. \A j \in (i - 1 + 1)..(n - 1) : j \in 1..(n - 1) /\ j + 1 \in (i + 1)..n
      BY <1>2
    <3>3. \A j \in (i - 1 + 1)..(n - 1) : ~ About(pending'[u][j], path, x)
      BY <1>2, <1>13, <3>2
    <3>4. QED
      BY <1>2, <1>10, <1>13, <3>1, <3>3 DEF Contains, About, Stores
  <2>3. QED
    BY <2>1, <2>2
<1>14. QED
  BY <1>4, <1>12, <1>13

\* A step of another phone takes p out of a driver's ride only as p's own
\* cancellation.
LEMMA OthersKeepInvitation ==
  ASSUME Inv, NEW u \in User, Phone(u), NEW d \in Drivers, u # d,
         NEW s \in Slots, NEW p \in Passengers,
         Contains(d, RideOf(d, s), p), ~ Contains(d, RideOf(d, s), p)'
  PROVE  u = p /\ Commits(u, "remove") /\ Head(pending[u]).path = RideOf(d, s)
<1>1. /\ d \in User /\ RideOf(d, s) \in Path /\ RideOf(d, s) = <<"drivers", d, s>>
      /\ pending \in [User -> Seq(Op)] /\ docs \in [Path -> {NoDoc} \cup SUBSET Id]
  <2>1. d \in User
    BY DEF User
  <2>2. QED
    BY <2>1, Paths DEF RideOf, RoleOf, Inv, TypeOK
<1>2. CASE ~ Commit(u)
  <2>1. docs' = docs
    BY <1>2 DEF Phone, Register, ShowMatches, PressRequest, PressCancel, BackToMatch,
                BackToHome, EditButton, ConfirmButton, Relaunch, OpenMatch,
                SetDailyRide, FetchRide, OpenDriver
  <2>2. pending'[d] = pending[d]
    BY <1>1, <1>2
    DEF Phone, Register, ShowMatches, PressRequest, PressCancel, BackToMatch,
        BackToHome, EditButton, ConfirmButton, Relaunch, OpenMatch,
        SetDailyRide, FetchRide, OpenDriver, Enqueue
  <2>3. QED
    BY <2>1, <2>2, ContainsByDocs DEF RideOf, RoleOf
<1>3. CASE Commit(u)
  <2> DEFINE op == Head(pending[u])
  <2>1. /\ pending[u] # <<>> /\ pending' = [pending EXCEPT ![u] = Tail(@)]
        /\ docs' = [docs EXCEPT ![op.path] = Apply(@, op)]
    BY <1>3 DEF Commit
  <2>2. pending'[d] = pending[d] /\ pending'[u] = Tail(pending[u])
    BY <1>1, <2>1
  <2>3. op \in Op /\ Writes(u, op)
    <3>1. 1 \in 1..Len(pending[u]) /\ op = pending[u][1] /\ op \in Op
      BY <1>1, <2>1
    <3>2. QED
      BY <3>1 DEF Inv, QueuesOK
  <2>4. op.path \in Path
    BY <2>3 DEF Op
  <2>5. ~ (docs[RideOf(d, s)] # NoDoc =>
             /\ docs'[RideOf(d, s)] # NoDoc
             /\ p \in docs[RideOf(d, s)] => p \in docs'[RideOf(d, s)])
    BY <2>2, ContainsByDocs DEF RideOf, RoleOf
  <2>6. op.path = RideOf(d, s)
    BY <1>1, <2>1, <2>4, <2>5
  <2>7. op.kind = "remove" /\ op.ids = {u}
    BY <1>1, <2>3, <2>6 DEF Writes, Stores, Marker, RideOf, RoleOf
  <2>8. docs'[RideOf(d, s)] = Apply(docs[RideOf(d, s)], op)
    BY <1>1, <2>1, <2>6
  <2>9. docs'[RideOf(d, s)] = docs[RideOf(d, s)] \ {u} /\ docs'[RideOf(d, s)] # NoDoc
    <3>1. docs[RideOf(d, s)] # NoDoc /\ ~ Stores(op)
      BY <2>5, <2>7 DEF Stores
    <3>2. docs'[RideOf(d, s)] # NoDoc
      BY <1>1, <2>3, <2>8, <3>1, ApplyOK
    <3>3. QED
      BY <2>7, <2>8, <3>1, <3>2 DEF Apply
  <2>10. u = p
    BY <2>5, <2>9
  <2>11. QED
    BY <2>1, <2>2, <2>6, <2>7, <2>10 DEF Commits
<1>4. QED
  BY <1>2, <1>3

\* A step of the driver's own phone takes p out of a ride only as an edit of
\* that ride.  The driver's cancellation is of another document, see the
\* README.
LEMMA DriverKeepsInvitation ==
  ASSUME Inv, CreatesOnce, NEW d \in Drivers, Phone(d), NEW s \in Slots,
         NEW p \in Passengers,
         Contains(d, RideOf(d, s), p), ~ Contains(d, RideOf(d, s), p)'
  PROVE  \E l \in lookups : l.user = d /\ l.slot = s /\ SetDailyRide(l)
<1>1. /\ d \in User /\ RideOf(d, s) \in Path /\ RideOf(d, s) = <<"drivers", d, s>>
      /\ pending \in [User -> Seq(Op)] /\ pending[d] \in Seq(Op)
  <2>1. d \in User
    BY DEF User
  <2>2. QED
    BY <2>1, Paths DEF RideOf, RoleOf, Inv, TypeOK
<1>2. ASSUME NEW op \in Op, Enqueue(d, <<op>>), docs' = docs
      PROVE  About(op, RideOf(d, s), p) /\ ~ (op.kind # "remove" /\ p \in op.ids)
  BY <1>1, <1>2, ContainsByWrite DEF RideOf, RoleOf
<1>3. pending'[d] # pending[d] \/ docs' # docs
  BY ContainsByDocs DEF RideOf, RoleOf
<1>4. ~ Register(d)
  <2>1. SUFFICES ASSUME Register(d) PROVE FALSE
    OBVIOUS
  <2>2. pending[d] = <<>> /\ docs[RideOf(d, s)] = NoDoc
    BY <1>1, <2>1 DEF Register, CreatesOnce
  <2>3. Len(pending[d]) = 0
    BY <2>2
  <2>4. QED
    BY <2>2, <2>3 DEF Contains, Visible
<1>5. ~ Commit(d)
  <2>1. SUFFICES ASSUME Commit(d) PROVE FALSE
    OBVIOUS
  <2>2. ASSUME Head(pending[d]).kind = "union", Head(pending[d]).path = RideOf(d, s)
        PROVE  docs[RideOf(d, s)] # NoDoc
    <3>1. 1 \in 1..Len(pending[d]) /\ Head(pending[d]) = pending[d][1]
      BY <1>1, <2>1 DEF Commit
    <3>2. Created(d, pending[d][1].path, 1)
      BY <2>2, <3>1 DEF Inv, RidesComeFirst
    <3>3. QED
      BY <2>2, <3>1, <3>2 DEF Created
  <2>3. QED
    BY <1>1, <2>1, <2>2, ContainsByCommit DEF RideOf, RoleOf
<1>6. ~ PressRequest(d)
  <2>1. SUFFICES ASSUME PressRequest(d) PROVE FALSE
    OBVIOUS
  <2>2. match[d].slot \in Slots /\ detail[d].selected \in Opposite(d)
    BY <1>1, <2>1 DEF PressRequest, Inv, ScreensOK
  <2> DEFINE op == SendRideRequest(detail[d].selected, d, match[d].slot)
  <2>3. op \in Op /\ op.kind = "union"
    BY <1>1, <2>2, ButtonWrites
  <2>4. Enqueue(d, <<op>>) /\ docs' = docs
    BY <2>1 DEF PressRequest
  <2> HIDE DEF op
  <2>5. QED
    BY <1>2, <2>3, <2>4 DEF About, Stores
<1>7. ~ PressCancel(d)
  <2>1. SUFFICES ASSUME PressCancel(d) PROVE FALSE
    OBVIOUS
  <2>2. match[d].slot \in Slots /\ detail[d].selected \in Opposite(d)
    BY <1>1, <2>1 DEF PressCancel, Inv, ScreensOK
  <2> DEFINE op == RemoveRideRequest(detail[d].selected, d, match[d].slot)
  <2>3. op \in Op
    BY <1>1, <2>2, ButtonWrites
  <2>4. op.path # RideOf(d, s)
    <3>1. op.path = <<"drivers", detail[d].selected, match[d].slot>>
      BY DEF RemoveRideRequest
    <3>2. detail[d].selected # d
      BY <1>1, <2>2, Paths
    <3>3. QED
      BY <1>1, <3>1, <3>2
  <2>5. Enqueue(d, <<op>>) /\ docs' = docs
    BY <2>1 DEF PressCancel
  <2> HIDE DEF op
  <2>6. QED
    BY <1>2, <2>3, <2>4, <2>5 DEF About
<1>8. PICK l \in lookups : l.user = d /\ SetDailyRide(l)
  BY <1>3, <1>4, <1>5, <1>6, <1>7
  DEF Phone, ShowMatches, BackToMatch, BackToHome, EditButton, ConfirmButton,
      Relaunch, OpenMatch, FetchRide, OpenDriver
<1>9. l.slot = s
  <2> DEFINE op == [kind |-> "edit", path |-> <<UserType(l.user), l.user, l.slot>>,
                    ids |-> {Empty}]
  <2>1. op \in Op /\ op.path = RideOf(d, l.slot)
    BY <1>8, EditWrites
  <2>2. Enqueue(d, <<op>>) /\ docs' = docs
    BY <1>8 DEF SetDailyRide
  <2> HIDE DEF op
  <2>3. op.path = RideOf(d, s)
    BY <1>2, <2>1, <2>2 DEF About
  <2>4. QED
    BY <2>1, <2>3 DEF RideOf
<1>10. QED
  BY <1>8, <1>9

\* No step takes an invited passenger out of what the driver's phone shows but
\* the passenger's own cancellation and the driver's edit.
THEOREM InvitationsStay == Spec => InvitationStays
<1>1. ASSUME Inv, CreatesOnce, [Next]_vars, NEW d \in Drivers, NEW s \in Slots,
             NEW p \in Passengers,
             Contains(d, RideOf(d, s), p), ~ Contains(d, RideOf(d, s), p)'
      PROVE  \/ Commits(p, "remove") /\ Head(pending[p]).path = RideOf(d, s)
             \/ PressCancel(d) /\ detail[d].selected = p /\ match[d].slot = s
             \/ \E l \in lookups : l.user = d /\ l.slot = s /\ SetDailyRide(l)
  <2>1. ~ UNCHANGED vars
    BY <1>1, ContainsByDocs DEF vars, RideOf, RoleOf
  <2>2. PICK u \in User : Phone(u)
    BY <1>1, <2>1 DEF Next
  <2>3. CASE u # d
    BY <1>1, <2>2, <2>3, OthersKeepInvitation
  <2>4. CASE u = d
    BY <1>1, <2>2, <2>4, DriverKeepsInvitation
  <2>5. QED
    BY <2>3, <2>4
<1>2. Inv /\ CreatesOnce /\ [Next]_vars =>
        [\A d \in Drivers, s \in Slots, p \in Passengers :
           Contains(d, RideOf(d, s), p) /\ ~ Contains(d, RideOf(d, s), p)'
           => \/ Commits(p, "remove") /\ Head(pending[p]).path = RideOf(d, s)
              \/ PressCancel(d) /\ detail[d].selected = p /\ match[d].slot = s
              \/ \E l \in lookups : l.user = d /\ l.slot = s /\ SetDailyRide(l)]_vars
  BY <1>1
<1>3. QED
  BY <1>2, SpecInv, SpecCreatesOnce, PTL DEF Spec, InvitationStays

-----------------------------------------------------------------------------
(* What a driver has asked is not lost. *)

\* Driver d has queued the request of passenger p in slot s.
Asked(d, s, p) ==
  \E i \in 1..Len(pending[d]) :
    pending[d][i].kind = "union" /\ pending[d][i].path = RideOf(d, s)
      /\ p \in pending[d][i].ids

\* Only a commit takes a write out of a queue.
LEMMA OthersKeepQueues ==
  ASSUME Inv, NEW u \in User, Phone(u), ~ Commit(u), NEW v \in User
  PROVE  \A i \in 1..Len(pending[v]) :
           i \in 1..Len(pending'[v]) /\ pending'[v][i] = pending[v][i]
<1>1. pending \in [User -> Seq(Op)] /\ pending[v] \in Seq(Op)
  BY DEF Inv, TypeOK
<1>2. ASSUME NEW ops, Enqueue(u, ops), ops \in Seq(Op)
      PROVE  \A i \in 1..Len(pending[v]) :
               i \in 1..Len(pending'[v]) /\ pending'[v][i] = pending[v][i]
  <2>1. CASE v = u
    <3>1. /\ Len(pending'[u]) = Len(pending[u]) + Len(ops)
          /\ \A i \in 1..Len(pending[u]) : pending'[u][i] = pending[u][i]
      BY <1>1, <1>2, Enqueued
    <3>2. Len(ops) \in Nat /\ Len(pending[u]) \in Nat
      BY <1>1, <1>2, <2>1
    <3>3. QED
      BY <2>1, <3>1, <3>2
  <2>2. CASE v # u
    BY <1>1, <1>2, <2>2, Enqueued
  <2>3. QED
    BY <2>1, <2>2
<1>3. CASE pending' = pending
  BY <1>3
<1>4. CASE Register(u)
  <2> DEFINE ops == <<[kind |-> "create", path |-> Marker(u), ids |-> {}]>>
                      \o CreateDefaultRides(u)
  <2>1. ops \in Seq(Op)
    <3>1. \A s \in Slots : CreateDefaultRides(u)[s] \in Op
      BY Paths DEF CreateDefaultRides, Op, Kinds, Id
    <3>2. CreateDefaultRides(u) \in Seq(Op)
      BY <3>1, NumSlotsIsNat DEF CreateDefaultRides, Slots
    <3>3. [kind |-> "create", path |-> Marker(u), ids |-> {}] \in Op
      BY Paths DEF Op, Kinds
    <3>4. QED
      BY <3>2, <3>3
  <2>2. Enqueue(u, ops)
    BY <1>4 DEF Register
  <2>3. QED
    BY <1>2, <2>1, <2>2
<1>5. CASE PressRequest(u) \/ PressCancel(u)
  <2>1. PICK op \in Op : Enqueue(u, <<op>>)
    <3>1. at[u] = "driver" /\ match[u].slot \in Slots /\ detail[u].selected \in Opposite(u)
      BY <1>5 DEF PressRequest, PressCancel, Inv, ScreensOK
    <3>2. /\ <<"drivers", u, match[u].slot>> \in Path
          /\ <<"drivers", detail[u].selected, match[u].slot>> \in Path
          /\ {u} \subseteq Id /\ {detail[u].selected} \subseteq Id
      BY <3>1, Paths DEF Id, Collections
    <3>3. /\ SendRideRequest(detail[u].selected, u, match[u].slot) \in Op
          /\ RemoveRideRequest(detail[u].selected, u, match[u].slot) \in Op
      BY <3>2 DEF SendRideRequest, RemoveRideRequest, Op, Kinds
    <3>4. QED
      BY <1>5, <3>3 DEF PressRequest, PressCancel
  <2>2. <<op>> \in Seq(Op)
    BY <2>1
  <2>3. QED
    BY <1>2, <2>1, <2>2
<1>6. ASSUME NEW l \in lookups, l.user = u, SetDailyRide(l)
      PROVE  \A i \in 1..Len(pending[v]) :
               i \in 1..Len(pending'[v]) /\ pending'[v][i] = pending[v][i]
  <2> DEFINE op == [kind |-> "edit", path |-> <<UserType(u), u, l.slot>>,
                    ids |-> {Empty}]
  <2>1. <<op>> \in Seq(Op)
    BY <1>6, EditWrites
  <2>2. Enqueue(u, <<op>>)
    BY <1>6 DEF SetDailyRide
  <2>3. QED
    BY <1>2, <2>1, <2>2
<1>7. QED
  BY <1>3, <1>4, <1>5, <1>6
  DEF Phone, ShowMatches, BackToMatch, BackToHome, EditButton, ConfirmButton,
      Relaunch, OpenMatch, FetchRide, OpenDriver

\* A request a driver has made leaves the queue only by being stored: with its
\* commit the passenger is in the array, whatever else the phone had queued.
THEOREM RequestsAreNotLost ==
  Spec => [][\A d \in Drivers, s \in Slots, p \in Passengers :
               Asked(d, s, p) /\ ~ Asked(d, s, p)' => p \in Guests(d, s)']_vars
<1>1. ASSUME Inv, [Next]_vars, NEW d \in Drivers, NEW s \in Slots, NEW p \in Passengers,
             Asked(d, s, p), ~ Asked(d, s, p)'
      PROVE  p \in Guests(d, s)'
  <2>1. d \in User /\ pending \in [User -> Seq(Op)] /\ pending[d] \in Seq(Op)
    BY <1>1 DEF Inv, TypeOK, User
  <2>2. PICK i \in 1..Len(pending[d]) :
          /\ pending[d][i].kind = "union" /\ pending[d][i].path = RideOf(d, s)
          /\ p \in pending[d][i].ids
    BY <1>1 DEF Asked
  <2>3. ~ UNCHANGED vars
    BY <1>1 DEF Asked, vars
  <2>4. PICK u \in User : Phone(u)
    BY <1>1, <2>3 DEF Next
  <2>5. Commit(u)
    <3>1. SUFFICES ASSUME ~ Commit(u) PROVE FALSE
      OBVIOUS
    <3>2. i \in 1..Len(pending'[d]) /\ pending'[d][i] = pending[d][i]
      BY <1>1, <2>1, <2>2, <2>4, <3>1, OthersKeepQueues
    <3>3. QED
      BY <1>1, <2>2, <3>2 DEF Asked, RideOf
  <2>6. /\ docs' = [docs EXCEPT ![Head(pending[u]).path] = Apply(@, Head(pending[u]))]
        /\ pending' = [pending EXCEPT ![u] = Tail(@)]
        /\ docs \in [Path -> {NoDoc} \cup SUBSET Id]
    BY <1>1, <2>5 DEF Commit, Inv, TypeOK
  <2>7. u = d
    BY <1>1, <2>1, <2>2, <2>6 DEF Asked, RideOf
  <2>8. i = 1
    <3>1. SUFFICES ASSUME i # 1 PROVE FALSE
      OBVIOUS
    <3>2. /\ i - 1 \in 1..Len(Tail(pending[d]))
          /\ Tail(pending[d])[i - 1] = pending[d][i]
      BY <2>1, <2>2, <3>1
    <3>3. pending'[d] = Tail(pending[d])
      BY <2>1, <2>6, <2>7
    <3>4. QED
      BY <1>1, <2>2, <3>2, <3>3 DEF Asked, RideOf
  <2> DEFINE op == pending[d][1]
  <2>9. /\ op.kind = "union" /\ op.path = RideOf(d, s) /\ p \in op.ids
        /\ op = Head(pending[d])
        /\ op.ids \in SUBSET Id /\ RideOf(d, s) \in Path
    <3>1. op \in Op
      BY <2>1, <2>2, <2>8
    <3>2. QED
      BY <2>1, <2>2, <2>8, <3>1 DEF Op
  <2>10. docs[RideOf(d, s)] # NoDoc
    BY <1>1, <2>2, <2>8, <2>9 DEF Inv, RidesComeFirst, Created
  <2> HIDE DEF op
  <2>11. docs'[RideOf(d, s)] = docs[RideOf(d, s)] \cup op.ids
    BY <2>6, <2>7, <2>9, <2>10 DEF Apply, Stores
  <2>12. docs[RideOf(d, s)] \cup op.ids \in SUBSET Id
    BY <2>6, <2>9, <2>10
  <2>13. docs'[RideOf(d, s)] # NoDoc /\ p # Empty
    BY <2>11, <2>12, NoDocIsNoArray, MarksAreNotUsers DEF User
  <2>14. QED
    BY <2>9, <2>11, <2>13 DEF Guests, RideOf
<1>2. Inv /\ [Next]_vars =>
        [\A d \in Drivers, s \in Slots, p \in Passengers :
           Asked(d, s, p) /\ ~ Asked(d, s, p)' => p \in Guests(d, s)']_vars
  BY <1>1
<1>3. QED
  BY <1>2, SpecInv, PTL DEF Spec

\* Every commit of a phone brings each of its writes one place nearer to the
\* server, and no other step of anybody moves or changes it: with
\* RequestsAreNotLost, what RequestIsStored says but for the fairness.
THEOREM QueuesMoveUp ==
  Spec => [][\A u \in User : \A i \in 1..Len(pending[u]) :
               IF Commit(u)
               THEN i # 1 => i - 1 \in 1..Len(pending'[u])
                               /\ pending'[u][i - 1] = pending[u][i]
               ELSE i \in 1..Len(pending'[u]) /\ pending'[u][i] = pending[u][i]]_vars
<1>1. ASSUME Inv, [Next]_vars, ~ UNCHANGED vars, NEW u \in User, NEW i \in 1..Len(pending[u])
      PROVE  IF Commit(u)
             THEN i # 1 => i - 1 \in 1..Len(pending'[u])
                             /\ pending'[u][i - 1] = pending[u][i]
             ELSE i \in 1..Len(pending'[u]) /\ pending'[u][i] = pending[u][i]
  <2>1. PICK v \in User : Phone(v)
    BY <1>1 DEF Next
  <2>2. pending \in [User -> Seq(Op)] /\ pending[u] \in Seq(Op)
    BY <1>1 DEF Inv, TypeOK
  <2>3. CASE Commit(u)
    <3>1. pending'[u] = Tail(pending[u])
      BY <2>2, <2>3 DEF Commit
    <3>2. ASSUME i # 1
          PROVE  i - 1 \in 1..Len(pending'[u]) /\ pending'[u][i - 1] = pending[u][i]
      BY <1>1, <2>2, <3>1, <3>2
    <3>3. QED
      BY <2>3, <3>2
  <2>4. CASE ~ Commit(u) /\ Commit(v)
    <3>1. u # v /\ pending' = [pending EXCEPT ![v] = Tail(@)]
      BY <2>4 DEF Commit
    <3>2. QED
      BY <1>1, <2>2, <2>4, <3>1
  <2>5. CASE ~ Commit(u) /\ ~ Commit(v)
    BY <1>1, <2>1, <2>5, OthersKeepQueues
  <2>6. QED
    BY <2>3, <2>4, <2>5
<1>2. Inv /\ [Next]_vars =>
        [\A u \in User : \A i \in 1..Len(pending[u]) :
           IF Commit(u)
           THEN i # 1 => i - 1 \in 1..Len(pending'[u])
                           /\ pending'[u][i - 1] = pending[u][i]
           ELSE i \in 1..Len(pending'[u]) /\ pending'[u][i] = pending[u][i]]_vars
  BY <1>1
<1>3. QED
  BY <1>2, SpecInv, PTL DEF Spec
=============================================================================
