------------------------- MODULE WriteLedgerProofs -------------------------
(***************************************************************************)
(* Proofs about WritePipeline, continued: what the app is told of a write, *)
(* what the server holds of it, and that the client implements WriteQueue. *)
(* On top of the invariant of WritePipelineProofs, the ledger says which   *)
(* writes are whose, in what order they are resolved, and what an answer   *)
(* on its way says about the server.                                       *)
(***************************************************************************)
EXTENDS WritePipelineProofs, FiniteSetTheorems

-----------------------------------------------------------------------------
(* The ledger *)

QueuedOps(u) == {queue[u][i].op : i \in 1..Len(queue[u])}
StrayOps(u) == {s.op : s \in {t \in strays : t.user = u}}

\* The writes of u that the server has, may get or may get again.
Touched(u) == executed[u] \union QueuedOps(u) \union StrayOps(u)

\* A write is of one user, was issued before, and is resolved before every
\* write of that user that waits.
LedgerOK ==
  /\ \A u \in Users : \A o \in Touched(u) : o <= issued
  /\ \A u, v \in Users : u # v => Touched(u) \cap Touched(v) = {}
  /\ \A u \in Users : \A o \in Touched(u) :
       outcome[o] # "open" => \A p \in QueuedOps(u) : o < p
  /\ \A o \in Ops : issued < o => outcome[o] = "open"

\* The server has ended the stream on an error, but not for the request in
\* front: the error will be taken for that of a write it is not about.
Blamed ==
  /\ remote.status = "permanent"
  /\ remote.requests = <<>>
       \/ Head(remote.requests) \notin refusals \union {Handshake}

\* An answer on its way is for a write that was executed, and no more writes
\* are misjudged than the server has hung up.
NewsOK ==
  /\ \A i \in 1..Len(remote.answers) :
       remote.answers[i] # Handshake =>
         /\ remote.answers[i] \in executed[user]
         /\ user \notin strayed => doc[user] >= remote.answers[i]
  /\ Blamed => Cardinality(Misjudged) < hangups

LInv == /\ LedgerOK /\ NewsOK
        /\ CallbacksAreOfBatches /\ CallbacksTellTheTruth /\ AcknowledgedStays
-----------------------------------------------------------------------------
(* How many writes are misjudged *)

LEMMA MisjudgedIsFinite ==
  ASSUME NEW S \in SUBSET Ops
  PROVE  IsFiniteSet(S) /\ Cardinality(S) \in Nat
<1>1. IsFiniteSet(Ops)
  BY BoundsAreNat, FS_Interval DEF Ops
<1>2. IsFiniteSet(S)
  BY <1>1, FS_Subset
<1> QED BY <1>2, FS_CardinalityType

\* No write is misjudged by a step that rejects none, and one that rejects a
\* write misjudges at most that.
LEMMA MisjudgedAfter ==
  ASSUME NEW S \in SUBSET Ops, NEW T \in SUBSET Ops, NEW o
  PROVE  /\ T \subseteq S => Cardinality(T) <= Cardinality(S)
         /\ T \subseteq S \union {o} => Cardinality(T) <= Cardinality(S) + 1
<1>1. /\ IsFiniteSet(S) /\ Cardinality(S) \in Nat
      /\ IsFiniteSet(T) /\ Cardinality(T) \in Nat
  BY MisjudgedIsFinite
<1>2. T \subseteq S => Cardinality(T) <= Cardinality(S)
  BY <1>1, FS_Subset
<1>3. /\ IsFiniteSet(S \union {o})
      /\ \/ Cardinality(S \union {o}) = Cardinality(S)
         \/ Cardinality(S \union {o}) = Cardinality(S) + 1
  BY <1>1, FS_AddElement
<1>4. T \subseteq S \union {o} => Cardinality(T) <= Cardinality(S \union {o})
  BY <1>3, FS_Subset
<1>5. T \subseteq S \union {o} => Cardinality(T) <= Cardinality(S) + 1
  BY <1>1, <1>3, <1>4
<1> QED BY <1>2, <1>5

\* A step after which no other writes are misjudged, and at least as many
\* errors were about none.
LEMMA CountStays ==
  ASSUME IInv, IInv', Misjudged' \subseteq Misjudged, hangups <= hangups'
  PROVE  /\ Cardinality(Misjudged) <= hangups
              => Cardinality(Misjudged') <= hangups'
         /\ Cardinality(Misjudged) < hangups
              => Cardinality(Misjudged') < hangups'
         /\ Cardinality(Misjudged) <= hangups /\ hangups < hangups'
              => Cardinality(Misjudged') < hangups'
<1> DEFINE S == Misjudged
           T == Misjudged'
<1>1. S \in SUBSET Ops /\ T \in SUBSET Ops
  BY DEF Misjudged, Ops
<1>2. hangups \in Nat /\ hangups' \in Nat
  BY DEF IInv, TypeOK
<1>3. T \subseteq S
  OBVIOUS
<1> HIDE DEF S, T
<1>4. /\ Cardinality(S) \in Nat /\ Cardinality(T) \in Nat
      /\ Cardinality(T) <= Cardinality(S)
  BY <1>1, <1>3, MisjudgedIsFinite, MisjudgedAfter
<1>5. /\ Cardinality(S) <= hangups => Cardinality(T) <= hangups'
      /\ Cardinality(S) < hangups => Cardinality(T) < hangups'
      /\ Cardinality(S) <= hangups /\ hangups < hangups' => Cardinality(T) < hangups'
  BY <1>2, <1>4
<1> QED BY <1>5 DEF S, T

-----------------------------------------------------------------------------
(* What handlers do to the news on the stream *)

LEMMA StartLeaves ==
  ASSUME NEW r, "state" \in DOMAIN r
  PROVE  LET s == StartIfNeeded(r)
         IN  /\ "state" \in DOMAIN s
             /\ r.state # "Open" => s.state # "Open"
<1>1. CASE ~ShouldStartWriteStream(r)
  BY <1>1 DEF StartIfNeeded
<1>2. CASE ShouldStartWriteStream(r)
  <2>1. CASE r.state = "Error"
    BY <1>2, <2>1 DEF StartIfNeeded, StartStream
  <2>2. CASE r.state # "Error"
    BY <1>2, <2>2 DEF StartIfNeeded, StartStream
  <2> QED BY <2>1, <2>2
<1> QED BY <1>1, <1>2

LEMMA FillLeaves ==
  ASSUME NEW r, NEW q, "state" \in DOMAIN r
  PROVE  LET s == FillWritePipeline(r, q)
         IN  /\ "state" \in DOMAIN s
             /\ r.state # "Open" => s.state # "Open"
<1> DEFINE b == NextBatches(r, q)
           sent == Established(r) /\ b # <<>>
           idles == /\ r.enabled
                    /\ r.pipeline = <<>> /\ b = <<>>
                    /\ r.state = "Open"
           x == [r EXCEPT !.pipeline = @ \o b,
                          !.requests = IF sent THEN @ \o OpsOf(b) ELSE @,
                          !.idle = ~sent /\ (@ \/ idles)]
<1>1. "state" \in DOMAIN x /\ x.state = r.state
  <2> HIDE DEF b, sent, idles
  <2> QED OBVIOUS
<1>2. FillWritePipeline(r, q) = StartIfNeeded(x)
  BY DEF FillWritePipeline
<1> HIDE DEF x
<1> QED BY <1>1, <1>2, StartLeaves

LEMMA CloseLeaves ==
  ASSUME NEW r \in RemoteRecords, NEW state
  PROVE  "state" \in DOMAIN Close(r, state) /\ Close(r, state).state = state
  BY DEF Close, RemoteRecords

LEMMA ResetLeaves ==
  ASSUME NEW r, "state" \in DOMAIN r
  PROVE  "state" \in DOMAIN Reset(r) /\ Reset(r).state = r.state
  BY DEF Reset

\* A stream that was closed is not open again at once.
LEMMA RetryLeaves ==
  ASSUME NEW r \in RemoteRecords
  PROVE  CloseAndRetry(r).state # "Open"
  BY CloseLeaves, StartLeaves, ResetLeaves DEF CloseAndRetry

LEMMA RejectLeaves ==
  ASSUME NEW r \in RemoteRecords, NEW q
  PROVE  CloseAndReject(r, q).state # "Open"
<1> DEFINE c == Close(r, "Initial")
           x == [c EXCEPT !.pipeline = Tail(@)]
           f == FillWritePipeline(x, q)
<1>1. "state" \in DOMAIN c /\ c.state # "Open"
  BY CloseLeaves
<1> HIDE DEF c
<1>2. "state" \in DOMAIN x /\ x.state # "Open"
  BY <1>1
<1> HIDE DEF x
<1>3. "state" \in DOMAIN f /\ f.state # "Open"
  BY <1>2, FillLeaves
<1> HIDE DEF f
<1>4. Reset(StartIfNeeded(f)).state # "Open"
  BY <1>3, StartLeaves, ResetLeaves
<1> QED BY <1>4 DEF CloseAndReject, f, x, c

LEMMA StopLeaves ==
  ASSUME NEW r \in RemoteRecords
  PROVE  "state" \in DOMAIN Stop(r) /\ Stop(r).state # "Open"
<1>1. CASE IsStarted(r)
  <2>1. "state" \in DOMAIN Close(r, "Initial")
        /\ Close(r, "Initial").state = "Initial"
    BY CloseLeaves
  <2> QED BY <1>1, <2>1, ResetLeaves DEF Stop
<1>2. CASE ~IsStarted(r)
  BY <1>2 DEF Stop, IsStarted, RemoteRecords
<1> QED BY <1>1, <1>2

LEMMA DisableLeaves ==
  ASSUME NEW r \in RemoteRecords
  PROVE  LET d == DisableNetworkInternal(r)
         IN  "state" \in DOMAIN d /\ d.state # "Open"
<1> DEFINE x == [r EXCEPT !.enabled = FALSE]
           y == Stop(x)
<1>1. x \in RemoteRecords
  BY DEF RemoteRecords
<1> HIDE DEF x
<1>2. "state" \in DOMAIN y /\ y.state # "Open"
  BY <1>1, StopLeaves
<1> HIDE DEF y
<1>3. LET d == [y EXCEPT !.pipeline = <<>>]
      IN  "state" \in DOMAIN d /\ d.state # "Open"
  BY <1>2
<1> QED BY <1>3 DEF DisableNetworkInternal, x, y

LEMMA EnableLeaves ==
  ASSUME NEW r, NEW q, "state" \in DOMAIN r, r.state # "Open"
  PROVE  Enable(r, q).state # "Open"
<1> DEFINE x == [r EXCEPT !.enabled = TRUE]
<1>1. "state" \in DOMAIN x /\ x.state # "Open"
  OBVIOUS
<1> HIDE DEF x
<1> QED BY <1>1, FillLeaves DEF Enable, x

\* A refill adds requests behind those that are there.
LEMMA FillNews ==
  ASSUME NEW r, NEW q \in Seq(Batches), Ascending(q), HalfOK(r, q)
  PROVE  LET f == FillWritePipeline(r, q)
         IN  /\ f.answers = r.answers /\ f.status = r.status
             /\ r.requests # <<>> =>
                  f.requests # <<>> /\ Head(f.requests) = Head(r.requests)
<1> DEFINE b == NextBatches(r, q)
           p == r.pipeline \o b
           sent == Established(r) /\ b # <<>>
           idles == /\ r.enabled
                    /\ r.pipeline = <<>> /\ b = <<>>
                    /\ r.state = "Open"
           out == IF sent THEN r.requests \o OpsOf(b) ELSE r.requests
           x == [r EXCEPT !.pipeline = p, !.requests = out,
                          !.idle = (~sent /\ (r.idle \/ idles))]
<1>1. r \in RemoteRecords /\ IsFront(r.pipeline, q) /\ r.requests \in Seq(Messages)
  BY DEF HalfOK, RemoteRecords
<1>2. b \in Seq(Batches) /\ p \in Seq(Batches)
  BY <1>1, NextBatchesAre
<1>3. FillWritePipeline(r, q) = StartIfNeeded(x)
  BY <1>1 DEF FillWritePipeline, RemoteRecords
<1>4. OpsOf(b) \in Seq(Messages)
  BY <1>2, OpsOfBatches
<1> HIDE DEF b, p
<1>5. /\ out \in Seq(Messages)
      /\ r.requests # <<>> => out # <<>> /\ Head(out) = Head(r.requests)
  <2> DEFINE s == r.requests
             t == OpsOf(b)
  <2>1. s \in Seq(Messages) /\ t \in Seq(Messages)
    BY <1>1, <1>4
  <2> HIDE DEF s, t
  <2>2. /\ s \o t \in Seq(Messages)
        /\ s # <<>> => s \o t # <<>> /\ Head(s \o t) = Head(s)
    BY <2>1, ConcatEqualIffEmpty
  <2> QED BY <2>1, <2>2 DEF s, t
<1>6. (~sent /\ (r.idle \/ idles)) \in BOOLEAN
  OBVIOUS
<1> HIDE DEF sent, idles, out
<1>7. /\ x \in RemoteRecords /\ x.answers = r.answers
      /\ x.status = r.status /\ x.requests = out
  BY <1>1, <1>2, <1>5, <1>6 DEF RemoteRecords
<1> HIDE DEF x
<1> QED BY <1>3, <1>5, <1>7, StartFields
-----------------------------------------------------------------------------
(* What is on the wire waits in the queue *)

\* An answer on its way, or a request, is for a write of the pipeline, and
\* the writes come in the order of the queue.
LEMMA WireIsQueued ==
  ASSUME IInv
  PROVE  LET a == remote.answers
             o == remote.requests
         IN  /\ \A i \in 1..Len(a) : a[i] # Handshake => a[i] \in QueuedOps(user)
             /\ \A i \in 1..Len(o) : o[i] # Handshake => o[i] \in QueuedOps(user)
             /\ \A i \in 1..Len(a), j \in 1..Len(o) :
                  a[i] # Handshake /\ o[j] # Handshake => a[i] < o[j]
<1> DEFINE a == remote.answers
           o == remote.requests
           c == Cargo(remote)
           q == queue[user]
<1>1. a \in Seq(Messages) /\ o \in Seq(Messages) /\ a \o o = c
  BY DEF IInv, RemoteOK, HalfOK, RemoteRecords, WireOK
<1>2. q \in Seq(Batches) /\ Ascending(q)
  BY QueueIsTyped DEF IInv, TypeOK
<1>3. c \in Seq(Messages)
  BY <1>1, ConcatProperties
<1>4. \A i \in 1..Len(c) : c[i] # Handshake =>
        i \in 1..Len(q) /\ c[i] = q[i].op
  <2>1. CASE c = <<>>
    BY <2>1
  <2>2. CASE c = <<Handshake>>
    BY <2>2
  <2>3. CASE c = OpsOf(remote.pipeline)
    <3> DEFINE p == remote.pipeline
    <3>1. p \in Seq(Batches) /\ IsFront(p, q)
      BY DEF IInv, RemoteOK, HalfOK, RemoteRecords
    <3> HIDE DEF p, q, c
    <3>2. Len(c) = Len(p) /\ \A i \in 1..Len(p) : c[i] = p[i].op
      BY <2>3, <3>1, OpsOfBatches DEF p
    <3> QED BY <1>2, <3>1, <3>2 DEF IsFront
  <2> QED BY <2>1, <2>2, <2>3 DEF Cargo
<1> HIDE DEF a, o, c, q
<1>5. /\ Len(a) \in Nat /\ Len(o) \in Nat /\ Len(c) = Len(a) + Len(o)
      /\ \A i \in 1..Len(a) : i \in 1..Len(c) /\ a[i] = c[i]
      /\ \A j \in 1..Len(o) : Len(a) + j \in 1..Len(c) /\ o[j] = c[Len(a) + j]
  <2>1. /\ Len(a) \in Nat /\ Len(o) \in Nat
        /\ a \o o \in Seq(Messages) /\ Len(a \o o) = Len(a) + Len(o)
        /\ \A i \in 1..(Len(a) + Len(o)) :
              \/ i <= Len(a) /\ i \in 1..Len(a) /\ (a \o o)[i] = a[i]
              \/ /\ i > Len(a) /\ i - Len(a) \in 1..Len(o)
                 /\ (a \o o)[i] = o[i - Len(a)]
    BY <1>1, ConcatElements
  <2>2. Len(a) \in Nat /\ Len(o) \in Nat /\ Len(c) = Len(a) + Len(o)
    BY <1>1, <2>1
  <2>3. ASSUME NEW i \in 1..Len(a) PROVE i \in 1..Len(c) /\ a[i] = c[i]
    <3>1. i \in 1..(Len(a) + Len(o)) /\ ~(i > Len(a))
      BY <2>2
    <3> QED BY <1>1, <2>1, <2>2, <3>1
  <2>4. ASSUME NEW j \in 1..Len(o)
        PROVE  Len(a) + j \in 1..Len(c) /\ o[j] = c[Len(a) + j]
    <3> DEFINE i == Len(a) + j
    <3>1. i \in 1..(Len(a) + Len(o)) /\ ~(i <= Len(a)) /\ i - Len(a) = j
      BY <2>2
    <3> HIDE DEF i
    <3>2. (a \o o)[i] = o[i - Len(a)]
      BY <2>1, <3>1
    <3> QED BY <1>1, <2>2, <3>1, <3>2 DEF i
  <2> QED BY <2>2, <2>3, <2>4
<1>6. \A i \in 1..Len(q) : q[i].op \in {queue[user][k].op : k \in 1..Len(queue[user])}
  BY DEF q
<1>7. ASSUME NEW i \in 1..Len(a), NEW j \in 1..Len(o),
             a[i] # Handshake, o[j] # Handshake
      PROVE  a[i] < o[j]
  <2>1. i \in 1..Len(q) /\ a[i] = q[i].op
    BY <1>4, <1>5, <1>7
  <2>2. Len(a) + j \in 1..Len(q) /\ o[j] = q[Len(a) + j].op
    BY <1>4, <1>5, <1>7
  <2>3. i < Len(a) + j
    BY <1>5
  <2> QED BY <1>2, <2>1, <2>2, <2>3 DEF Ascending
<1>8. \A i \in 1..Len(a) : a[i] # Handshake => a[i] \in QueuedOps(user)
  BY <1>4, <1>5, <1>6 DEF QueuedOps
<1>9. \A i \in 1..Len(o) : o[i] # Handshake => o[i] \in QueuedOps(user)
  BY <1>4, <1>5, <1>6 DEF QueuedOps
<1> QED BY <1>7, <1>8, <1>9 DEF a, o

\* A stream that is not open brings no news.
LEMMA ClosedIsNoNews ==
  ASSUME RemoteOK(remote', queue'[user']), remote'.state # "Open"
  PROVE  NewsOK'
<1>1. remote'.answers = <<>> /\ remote'.status = "none"
  BY NoCargo DEF RemoteOK, HalfOK
<1> QED BY <1>1 DEF NewsOK, Blamed

\* The news are the same if the answers are, and the request in front.
LEMMA SameNews ==
  ASSUME IInv, IInv', NewsOK,
         UNCHANGED <<user, executed, refusals, hangups, doc, strayed>>,
         Misjudged' \subseteq Misjudged,
         \/ remote'.answers = remote.answers
         \/ remote.answers # <<>> /\ remote'.answers = Tail(remote.answers),
         remote'.status = remote.status,
         remote.requests # <<>> =>
           /\ remote'.requests # <<>>
           /\ Head(remote'.requests) = Head(remote.requests)
  PROVE  NewsOK'
<1>1. Blamed' => Blamed
  BY DEF Blamed
<1>2. Blamed' => Cardinality(Misjudged') < hangups'
  <2>1. hangups <= hangups'
    BY DEF IInv, TypeOK
  <2> QED BY <1>1, <2>1, CountStays DEF NewsOK
<1> DEFINE a == remote.answers
<1>3. \A i \in 1..Len(remote'.answers) :
        \E j \in 1..Len(remote.answers) : remote'.answers[i] = remote.answers[j]
  <2>1. CASE remote'.answers = remote.answers
    BY <2>1
  <2>2. CASE a # <<>> /\ remote'.answers = Tail(a)
    <3>1. a \in Seq(Messages)
      BY DEF IInv, TypeOK, RemoteRecords
    <3> HIDE DEF a
    <3>2. \A i \in 1..Len(Tail(a)) : i + 1 \in 1..Len(a) /\ Tail(a)[i] = a[i + 1]
      BY <2>2, <3>1
    <3> QED BY <2>2, <3>2 DEF a
  <2> QED BY <2>1, <2>2
<1> QED BY <1>2, <1>3 DEF NewsOK

LEMMA TouchedIsTyped ==
  ASSUME IInv, NEW u \in Users
  PROVE  Touched(u) \subseteq Ops /\ QueuedOps(u) \subseteq Ops
<1>1. QueuedOps(u) \subseteq Ops
  BY QueueIsTyped, BatchesInQueue DEF QueuedOps
<1>2. StrayOps(u) \subseteq Ops /\ executed[u] \subseteq Ops
  BY DEF StrayOps, IInv, TypeOK
<1> QED BY <1>1, <1>2 DEF Touched

\* The ledger does not mind a write that moves from one place to another.
LEMMA SameLedger ==
  ASSUME LedgerOK, UNCHANGED <<issued, outcome, queue>>,
         \A u \in Users : Touched(u)' \subseteq Touched(u)
  PROVE  LedgerOK'
<1>1. \A u \in Users : QueuedOps(u)' = QueuedOps(u)
  BY DEF QueuedOps
<1>2. \A u, v \in Users : u # v => Touched(u)' \cap Touched(v)' = {}
  BY DEF LedgerOK
<1>3. \A u \in Users : \A o \in Touched(u)' : o <= issued
  BY DEF LedgerOK
<1>4. \A u \in Users : \A o \in Touched(u)' :
        outcome[o] # "open" => \A p \in QueuedOps(u)' : o < p
  BY <1>1 DEF LedgerOK
<1>5. \A o \in Ops : issued < o => outcome[o] = "open"
  BY DEF LedgerOK
<1> QED BY <1>2, <1>3, <1>4, <1>5 DEF LedgerOK

LEMMA StraysWereQueued ==
  ASSUME IInv, Abandon \/ UNCHANGED strays, NEW u \in Users
  PROVE  StrayOps(u)' \subseteq StrayOps(u) \union QueuedOps(u)
<1>1. \A s \in strays' :
        s \in strays \/ (s.user = user /\ s.op \in QueuedOps(user))
  BY WireIsQueued DEF Abandon
<1> QED BY <1>1 DEF StrayOps

LEMMA AbandonTouches ==
  ASSUME IInv, Abandon \/ UNCHANGED strays, UNCHANGED <<queue, executed>>,
         NEW u \in Users
  PROVE  Touched(u)' \subseteq Touched(u)
  BY StraysWereQueued DEF Touched, QueuedOps
-----------------------------------------------------------------------------
(* The ledger is kept *)

\* Handlers that resolve nothing keep the ledger if they keep the news.
LEMMA QuietKeeps ==
  ASSUME IInv, LInv, NewsOK', Abandon \/ UNCHANGED strays,
         UNCHANGED <<queue, callbacks, told, outcome, issued, serverVars, unread>>
  PROVE  LInv'
<1>1. LedgerOK'
  BY AbandonTouches, SameLedger DEF LInv, serverVars
<1>2. CallbacksAreOfBatches' /\ CallbacksTellTheTruth' /\ AcknowledgedStays'
  BY DEF LInv, serverVars, CallbacksAreOfBatches, CallbacksTellTheTruth,
         AcknowledgedStays, Misjudged
<1> QED BY <1>1, <1>2 DEF LInv

LEMMA ClosingKeeps ==
  ASSUME IInv, IInv', LInv, remote'.state # "Open",
         Abandon \/ UNCHANGED strays,
         UNCHANGED <<queue, callbacks, told, outcome, issued, serverVars, unread>>
  PROVE  LInv'
<1>1. NewsOK'
  BY ClosedIsNoNews DEF IInv
<1> QED BY <1>1, QuietKeeps

\* A callback is found under the id of its own batch.
LEMMA OneCallback ==
  ASSUME IInv, LInv, queue[user] # <<>>
  PROVE  \A c \in callbacks[user] :
           c.id = queue[user][1].id => c = queue[user][1]
<1>1. user \in Users /\ queue[user] \in Seq(Batches) /\ Ascending(queue[user])
  BY QueueIsTyped DEF IInv, TypeOK
<1>2. 1 \in 1..Len(queue[user])
  BY <1>1
<1> SUFFICES ASSUME NEW c \in callbacks[user], c.id = queue[user][1].id
             PROVE  c = queue[user][1]
  OBVIOUS
<1>3. PICK i \in 1..Len(queue[user]) : queue[user][i] = c
  BY <1>1 DEF LInv, CallbacksAreOfBatches
<1>4. queue[user][i].id \in Nat /\ queue[user][1].id \in Nat
  BY <1>1, <1>2, BatchesInQueue
<1>5. i = 1
  BY <1>1, <1>2, <1>3, <1>4 DEF Ascending
<1> QED BY <1>3, <1>5

\* The write that an answer resolves was executed.
LEMMA FrontIsExecuted ==
  ASSUME IInv, LInv, remote.answers # <<>>, remote.handshakeComplete
  PROVE  /\ user \in Users /\ queue[user] # <<>>
         /\ Head(remote.pipeline) = queue[user][1]
         /\ queue[user][1].op \in executed[user]
         /\ user \notin strayed => doc[user] >= queue[user][1].op
<1>1. /\ user \in Users /\ queue[user] \in Seq(Batches)
      /\ Ascending(queue[user]) /\ RemoteOK(remote, queue[user])
  BY QueueIsTyped DEF IInv, TypeOK
<1>2. /\ queue[user] # <<>> /\ Head(remote.pipeline) = queue[user][1]
      /\ Head(remote.answers) = queue[user][1].op
  BY <1>1, AnswerKeeps
<1>3. queue[user][1].op \in Ops
  <2>1. 1 \in 1..Len(queue[user])
    BY <1>1, <1>2
  <2> QED BY <1>1, <2>1, BatchesInQueue
<1>4. 1 \in 1..Len(remote.answers) /\ remote.answers[1] = Head(remote.answers)
  <2>1. remote.answers \in Seq(Messages)
    BY DEF IInv, TypeOK, RemoteRecords
  <2> QED BY <2>1
<1> QED BY <1>1, <1>2, <1>3, <1>4 DEF LInv, NewsOK, Handshake, Ops

\* A new process knows no callback, and what was queued is not waiting.
LEMMA RelaunchKeepsLedger ==
  ASSUME IInv, IInv', LInv, NEW u \in Users, Relaunch(u),
         NEW first \in SUBSET Ops,
         \A o \in first : \E v \in Users : o \in executed[v],
         told' = [o \in Ops |->
                   IF o \in first THEN "ok"
                   ELSE IF \E v \in Users : \E c \in callbacks[v] : c.op = o
                   THEN "lost" ELSE told[o]]
  PROVE  LInv'
<1>1. /\ callbacks' = [v \in Users |-> {}] /\ Abandon
      /\ UNCHANGED <<queue, outcome, issued, serverVars, unread>>
      /\ remote' = Enable(FreshRemote, queue[u])
  BY DEF Relaunch
<1>2. remote'.state # "Open"
  <2>1. "state" \in DOMAIN FreshRemote /\ FreshRemote.state # "Open"
    BY DEF FreshRemote
  <2> QED BY <1>1, <2>1, EnableLeaves
<1>3. NewsOK' /\ LedgerOK'
  BY <1>1, <1>2, ClosedIsNoNews, AbandonTouches, SameLedger
     DEF IInv, LInv, serverVars
<1>4. CallbacksAreOfBatches'
  <2>1. \A v \in Users : \A i \in 1..Len(queue[v]) :
          queue[v][i].op \in Ops /\ told'[queue[v][i].op] # "waiting"
    <3> SUFFICES ASSUME NEW v \in Users, NEW i \in 1..Len(queue[v])
                 PROVE  /\ queue[v][i].op \in Ops
                        /\ told'[queue[v][i].op] # "waiting"
      OBVIOUS
    <3>1. queue[v][i].op \in Ops
      BY QueueIsTyped, BatchesInQueue
    <3>2. told[queue[v][i].op] = "waiting" => queue[v][i] \in callbacks[v]
      BY DEF LInv, CallbacksAreOfBatches
    <3> QED BY <3>1, <3>2
  <2> QED BY <1>1, <2>1 DEF CallbacksAreOfBatches
<1>5. CallbacksTellTheTruth'
  <2> SUFFICES ASSUME NEW o \in Ops
               PROVE  /\ told'[o] = "ok" => \E v \in Users : o \in executed[v]
                      /\ told'[o] = "error" => outcome[o] = "rejected"
    BY <1>1 DEF LInv, CallbacksTellTheTruth, Misjudged, serverVars
  <2>1. told'[o] \in {"ok", "error"} =>
          \/ o \in first /\ told'[o] = "ok"
          \/ told'[o] = told[o]
    OBVIOUS
  <2> QED BY <2>1 DEF LInv, CallbacksTellTheTruth
<1>6. AcknowledgedStays'
  BY <1>1 DEF LInv, AcknowledgedStays, serverVars
<1> QED BY <1>3, <1>4, <1>5, <1>6 DEF LInv

LEMMA KillKeepsLedger ==
  ASSUME IInv, IInv', LInv, NEW u \in Users,
         Kill(u) \/ KillWhileAcknowledging(u) \/ AbortOnStatusOk(u)
  PROVE  LInv'
<1>1. CASE Kill(u) \/ AbortOnStatusOk(u)
  <2> DEFINE first == {}
  <2>1. told' = [o \in Ops |->
                   IF o \in first THEN "ok"
                   ELSE IF \E v \in Users : \E c \in callbacks[v] : c.op = o
                   THEN "lost" ELSE told[o]]
    BY <1>1 DEF Kill, AbortOnStatusOk, ToldAfterDeath
  <2>2. first \in SUBSET Ops /\ \A o \in first : \E v \in Users : o \in executed[v]
    OBVIOUS
  <2> HIDE DEF first
  <2> QED BY <1>1, <2>1, <2>2, RelaunchKeepsLedger DEF Kill, AbortOnStatusOk
<1>2. CASE KillWhileAcknowledging(u)
  <2> DEFINE id == Head(remote.pipeline).id
             first == {o \in Ops : \E c \in callbacks[user] :
                                     c.id = id /\ c.op = o}
  <2>1. told' = [o \in Ops |->
                   IF o \in first THEN "ok"
                   ELSE IF \E v \in Users : \E c \in callbacks[v] : c.op = o
                   THEN "lost" ELSE told[o]]
    BY <1>2 DEF KillWhileAcknowledging, ToldAfterDeath
  <2>2. \A o \in first : \E v \in Users : o \in executed[v]
    <3>1. /\ queue[user][1].op \in executed[user] /\ user \in Users
          /\ id = queue[user][1].id /\ queue[user] # <<>>
      BY <1>2, FrontIsExecuted DEF KillWhileAcknowledging
    <3>2. \A c \in callbacks[user] : c.id = id => c = queue[user][1]
      BY <3>1, OneCallback
    <3> QED BY <3>1, <3>2
  <2> HIDE DEF first
  <2>3. first \in SUBSET Ops
    BY DEF first
  <2> QED BY <1>2, <2>1, <2>2, <2>3, RelaunchKeepsLedger
          DEF KillWhileAcknowledging
<1> QED BY <1>1, <1>2
LEMMA WriteKeepsLedger ==
  ASSUME IInv, IInv', LInv, WriteMutations
  PROVE  LInv'
<1> DEFINE new == issued + 1
           batch == [id |-> nextBatchId, op |-> new]
           q == queue[user]
<1>1. /\ user \in Users /\ q \in Seq(Batches) /\ Ascending(q)
      /\ issued \in Nat /\ nextBatchId \in Nat /\ MaxWrites \in Nat
      /\ new \in Ops /\ new \in Nat /\ issued < new
  BY QueueIsTyped, BoundsAreNat DEF IInv, TypeOK, WriteMutations, Ops
<1>2. \A c \in callbacks[user] : c.id # nextBatchId
  <2> SUFFICES ASSUME NEW c \in callbacks[user] PROVE c.id # nextBatchId
    OBVIOUS
  <2>1. PICK i \in 1..Len(q) : q[i] = c
    BY <1>1 DEF LInv, CallbacksAreOfBatches
  <2>2. q[i].id \in Nat /\ q[i].id < nextBatchId
    BY <1>1, <2>1, BatchesInQueue DEF IInv, QueuesOK
  <2> QED BY <1>1, <2>1, <2>2
<1>3. /\ queue' = [queue EXCEPT ![user] = Append(q, batch)]
      /\ callbacks' = [callbacks EXCEPT ![user] = @ \union {batch}]
      /\ remote' = FillWritePipeline(remote, queue'[user])
      /\ issued' = new
      /\ UNCHANGED <<user, told, outcome, serverVars, unread, strays>>
  BY <1>2 DEF WriteMutations
<1>4. /\ queue'[user] = Append(q, batch)
      /\ callbacks'[user] = callbacks[user] \union {batch}
      /\ \A u \in Users : u # user =>
           queue'[u] = queue[u] /\ callbacks'[u] = callbacks[u]
  BY <1>1, <1>3 DEF IInv, TypeOK
<1>5. batch.op = new /\ batch.id = nextBatchId
  OBVIOUS
<1> HIDE DEF new, batch, q
<1>6. /\ Len(queue'[user]) = Len(q) + 1 /\ queue'[user][Len(q) + 1] = batch
      /\ \A i \in 1..Len(q) : queue'[user][i] = q[i] /\ i \in 1..Len(queue'[user])
      /\ Len(q) \in Nat /\ Len(q) + 1 \in 1..Len(queue'[user])
      /\ \A i \in 1..Len(queue'[user]) : i \in 1..Len(q) \/ i = Len(q) + 1
  BY <1>1, <1>4
<1>7. QueuedOps(user)' = QueuedOps(user) \union {new}
  <2>1. QueuedOps(user)' = {queue'[user][i].op : i \in 1..Len(queue'[user])}
    BY <1>3 DEF QueuedOps
  <2>2. QueuedOps(user) = {q[i].op : i \in 1..Len(q)}
    BY DEF QueuedOps, q
  <2> QED BY <1>5, <1>6, <2>1, <2>2
<1>8. /\ \A u \in Users : u # user => QueuedOps(u)' = QueuedOps(u)
      /\ \A u \in Users : u = user => QueuedOps(u)' = QueuedOps(u) \union {new}
  <2>1. \A u \in Users : u # user => QueuedOps(u)' = QueuedOps(u)
    BY <1>4 DEF QueuedOps
  <2>2. user' = user
    BY <1>3
  <2> QED BY <1>7, <2>1, <2>2
<1>9. /\ \A u \in Users : u = user => Touched(u)' = Touched(u) \union {new}
      /\ \A u \in Users : u # user => Touched(u)' = Touched(u)
  BY <1>3, <1>7, <1>8 DEF Touched, StrayOps, serverVars
<1>10. \A u \in Users : \A o \in Touched(u) : o \in Ops /\ o \in Nat /\ o <= issued
  BY TouchedIsTyped DEF LInv, LedgerOK, Ops
<1>11. \A u \in Users : QueuedOps(u) \subseteq Touched(u)
  BY DEF Touched
<1>12. outcome[new] = "open"
  BY <1>1 DEF LInv, LedgerOK
<1>13. LedgerOK'
  <2>1. \A u \in Users : \A o \in Touched(u)' : o <= new
    BY <1>1, <1>9, <1>10
  <2>2. \A u, v \in Users : u # v => Touched(u)' \cap Touched(v)' = {}
    <3>1. \A u \in Users : new \notin Touched(u)
      BY <1>1, <1>10
    <3> QED BY <1>9, <3>1 DEF LInv, LedgerOK
  <2>3. ASSUME NEW u \in Users, NEW o \in Touched(u)', outcome[o] # "open",
               NEW p \in QueuedOps(u)'
        PROVE  o < p
    <3>1. o \in Touched(u)
      BY <1>9, <1>12, <2>3
    <3>2. CASE p \in QueuedOps(u)
      BY <2>3, <3>1, <3>2 DEF LInv, LedgerOK
    <3>3. CASE p \notin QueuedOps(u)
      <4>1. p = new
        BY <1>8, <3>3
      <4> QED BY <1>1, <1>10, <3>1, <4>1
    <3> QED BY <3>2, <3>3
  <2>4. \A o \in Ops : new < o => outcome[o] = "open"
    <3>1. \A o \in Ops : o \in Nat
      BY DEF Ops
    <3> QED BY <1>1, <3>1 DEF LInv, LedgerOK
  <2> QED BY <1>3, <2>1, <2>2, <2>3, <2>4 DEF LedgerOK
<1>14. NewsOK'
  <2>1. HalfOK(remote, queue'[user])
    <3>1. IsFront(remote.pipeline, q) /\ remote.pipeline \in Seq(Batches)
      BY DEF IInv, RemoteOK, HalfOK, RemoteRecords, q
    <3>2. IsFront(remote.pipeline, queue'[user])
      BY <1>1, <1>6, <3>1 DEF IsFront
    <3> QED BY <3>2 DEF IInv, RemoteOK, HalfOK
  <2>2. queue'[user] \in Seq(Batches) /\ Ascending(queue'[user])
    BY <1>1, <1>3 DEF IInv, TypeOK, QueuesOK
  <2>3. Misjudged' \subseteq Misjudged
    BY <1>3 DEF Misjudged, serverVars
  <2> DEFINE nq == queue'[user]
  <2> HIDE DEF nq
  <2>4. LET f == FillWritePipeline(remote, nq)
        IN  /\ f.answers = remote.answers /\ f.status = remote.status
            /\ remote.requests # <<>> =>
                 f.requests # <<>> /\ Head(f.requests) = Head(remote.requests)
    BY <2>1, <2>2, FillNews DEF nq
  <2> QED BY <1>3, <2>3, <2>4, SameNews DEF LInv, serverVars, nq
<1>15. CallbacksAreOfBatches'
  <2> SUFFICES ASSUME NEW u \in Users
               PROVE  /\ \A c \in callbacks'[u] :
                           \E i \in 1..Len(queue'[u]) : queue'[u][i] = c
                      /\ \A i \in 1..Len(queue'[u]) :
                           told[queue'[u][i].op] = "waiting"
                             => queue'[u][i] \in callbacks'[u]
    BY <1>3 DEF CallbacksAreOfBatches
  <2>1. CASE u # user
    BY <1>4, <2>1 DEF LInv, CallbacksAreOfBatches
  <2>2. CASE u = user
    <3>1. /\ \A c \in callbacks[user] : \E i \in 1..Len(q) : q[i] = c
          /\ \A i \in 1..Len(q) :
               told[q[i].op] = "waiting" => q[i] \in callbacks[user]
      BY <1>1 DEF LInv, CallbacksAreOfBatches, q
    <3> QED BY <1>4, <1>6, <2>2, <3>1
  <2> QED BY <2>1, <2>2
<1>16. CallbacksTellTheTruth' /\ AcknowledgedStays'
  BY <1>3 DEF LInv, CallbacksTellTheTruth, AcknowledgedStays, Misjudged,
              serverVars
<1> QED BY <1>13, <1>14, <1>15, <1>16 DEF LInv

\* The oldest write is resolved as what the server made of it.
LEMMA ResolveKeepsLedger ==
  ASSUME IInv, IInv', LInv, NewsOK', queue[user] # <<>>,
         NEW status, NEW how,
         \/ /\ status = "ok" /\ how = "accepted"
            /\ queue[user][1].op \in executed[user]
            /\ user \notin strayed => doc[user] >= queue[user][1].op
         \/ /\ status = "error" /\ how = "rejected"
            /\ \/ queue[user][1].op \in refusals \union unread'
               \/ Cardinality(Misjudged) < hangups,
         Notify(queue[user][1], status),
         queue' = [queue EXCEPT ![user] = Tail(@)],
         outcome' = [outcome EXCEPT ![queue[user][1].op] = how],
         UNCHANGED <<user, issued, serverVars>>,
         unread \subseteq unread',
         \A o \in unread' : \E u \in Users : o \in executed[u],
         Abandon \/ UNCHANGED strays
  PROVE  LInv'
<1> DEFINE q == queue[user]
           first == q[1]
<1>1. /\ user \in Users /\ q \in Seq(Batches) /\ Ascending(q) /\ q # <<>>
      /\ callbacks \in [Users -> SUBSET Batches]
      /\ told \in [Ops -> {"waiting", "ok", "error", "lost"}]
      /\ outcome \in [Ops -> {"open", "accepted", "rejected"}]
      /\ queue \in [Users -> Seq(Batches)]
  BY QueueIsTyped DEF IInv, TypeOK
<1>2. /\ Len(Tail(q)) = Len(q) - 1 /\ Len(q) \in Nat /\ 1 \in 1..Len(q)
      /\ \A i \in 1..Len(Tail(q)) : Tail(q)[i] = q[i + 1] /\ i + 1 \in 1..Len(q)
      /\ \A i \in 1..Len(q) : i = 1 \/ i - 1 \in 1..Len(Tail(q))
      /\ \A i \in 1..Len(q) : i # 1 => Tail(q)[i - 1] = q[i]
  BY <1>1, TailOfQueue
<1>3. first \in Batches /\ first.op \in Ops /\ first.id \in Nat
  BY <1>1, <1>2, BatchesInQueue
<1>4. \A c \in callbacks[user] : c.id = first.id <=> c = first
  BY <1>1, OneCallback
<1>5. /\ queue'[user] = Tail(q)
      /\ callbacks' = [callbacks EXCEPT ![user] = @ \ {first}]
      /\ \A u \in Users : u # user => queue'[u] = queue[u]
      /\ \A o \in Ops :
           told'[o] = IF first \in callbacks[user] /\ o = first.op
                      THEN status ELSE told[o]
  <2>1. {c \in callbacks[user] : c.id = first.id}
          = callbacks[user] \cap {first}
    BY <1>4
  <2>2. callbacks' = [callbacks EXCEPT ![user] = @ \ {first}]
    BY <1>1, <2>1 DEF Notify
  <2>3. told' = [o \in Ops |->
                   IF \E c \in callbacks[user] \cap {first} : c.op = o
                   THEN status ELSE told[o]]
    BY <2>1 DEF Notify
  <2> QED BY <1>1, <2>2, <2>3
<1>6. /\ callbacks'[user] = callbacks[user] \ {first}
      /\ \A u \in Users : u # user => callbacks'[u] = callbacks[u]
  BY <1>1, <1>5
<1> HIDE DEF q, first
<1>7. /\ outcome'[first.op] = how
      /\ \A o \in Ops : o # first.op => outcome'[o] = outcome[o]
  BY <1>1, <1>3 DEF first, q
<1>8. /\ \A u \in Users : QueuedOps(u)' \subseteq QueuedOps(u)
      /\ \A u \in Users : u = user => \A p \in QueuedOps(u)' : first.op < p
      /\ first.op \in QueuedOps(user)
  <2>1. QueuedOps(user) = {q[i].op : i \in 1..Len(q)}
    BY DEF QueuedOps, q
  <2>2. \A u \in Users : u = user =>
          QueuedOps(u)' = {Tail(q)[i].op : i \in 1..Len(Tail(q))}
    <3> SUFFICES ASSUME NEW u \in Users, u = user
                 PROVE  QueuedOps(u)' = {Tail(q)[i].op : i \in 1..Len(Tail(q))}
      OBVIOUS
    <3>1. QueuedOps(u)' = {queue'[u][i].op : i \in 1..Len(queue'[u])}
      BY DEF QueuedOps
    <3>2. queue'[u] = Tail(q)
      BY <1>5
    <3> HIDE DEF QueuedOps
    <3> QED BY <3>1, <3>2
  <2>3. \A u \in Users : u # user => QueuedOps(u)' = QueuedOps(u)
    BY <1>5 DEF QueuedOps
  <2>4. \A i \in 1..Len(Tail(q)) : first.op < Tail(q)[i].op
    <3>1. \A i \in 1..Len(Tail(q)) : 1 < i + 1
      BY <1>2
    <3> QED BY <1>1, <1>2, <3>1 DEF Ascending, first
  <2>5. first.op \in QueuedOps(user)
    BY <1>2, <2>1 DEF first
  <2> QED BY <1>2, <2>1, <2>2, <2>3, <2>4, <2>5
<1>9. \A u \in Users : Touched(u)' \subseteq Touched(u)
                       /\ QueuedOps(u) \subseteq Touched(u)
  BY <1>8, StraysWereQueued DEF Touched, serverVars
<1>10. \A u \in Users : \A o \in Touched(u) : o \in Ops
  BY TouchedIsTyped
<1>11. \A u \in Users : first.op \in Touched(u) => u = user
  BY <1>1, <1>8, <1>9 DEF LInv, LedgerOK
<1>12. LedgerOK'
  <2>1. \A u \in Users : \A o \in Touched(u)' : o <= issued
    BY <1>9 DEF LInv, LedgerOK
  <2>2. \A u, v \in Users : u # v => Touched(u)' \cap Touched(v)' = {}
    BY <1>9 DEF LInv, LedgerOK
  <2>3. ASSUME NEW u \in Users, NEW o \in Touched(u)', outcome'[o] # "open",
               NEW p \in QueuedOps(u)'
        PROVE  o < p
    <3>1. CASE o = first.op
      BY <1>8, <1>9, <1>11, <3>1
    <3>2. CASE o # first.op
      BY <1>7, <1>8, <1>9, <1>10, <2>3, <3>2 DEF LInv, LedgerOK
    <3> QED BY <3>1, <3>2
  <2>4. \A o \in Ops : issued < o => outcome'[o] = "open"
    <3>1. first.op <= issued /\ issued \in Nat /\ \A o \in Ops : o \in Nat
      BY <1>1, <1>8, <1>9 DEF LInv, LedgerOK, IInv, TypeOK, Ops
    <3>2. \A o \in Ops : issued < o => o # first.op
      BY <1>3, <3>1
    <3> QED BY <1>7, <3>2 DEF LInv, LedgerOK
  <2> QED BY <2>1, <2>2, <2>3, <2>4 DEF LedgerOK
<1>13. CallbacksAreOfBatches'
  <2> SUFFICES ASSUME NEW u \in Users
               PROVE  /\ \A c \in callbacks'[u] :
                           \E i \in 1..Len(queue'[u]) : queue'[u][i] = c
                      /\ \A i \in 1..Len(queue'[u]) :
                           told'[queue'[u][i].op] = "waiting"
                             => queue'[u][i] \in callbacks'[u]
    BY DEF CallbacksAreOfBatches
  <2>1. \A o \in Ops : told'[o] = "waiting" => told[o] = "waiting"
    BY <1>5
  <2>2. CASE u # user
    <3>1. \A i \in 1..Len(queue[u]) : queue[u][i].op \in Ops
      BY QueueIsTyped, BatchesInQueue
    <3> QED BY <1>5, <1>6, <2>1, <2>2, <3>1 DEF LInv, CallbacksAreOfBatches
  <2>3. CASE u = user
    <3>1. /\ \A c \in callbacks[user] : \E i \in 1..Len(q) : q[i] = c
          /\ \A i \in 1..Len(q) :
               told[q[i].op] = "waiting" => q[i] \in callbacks[user]
      BY <1>1 DEF LInv, CallbacksAreOfBatches, q
    <3>2. \A c \in callbacks'[user] :
            \E i \in 1..Len(Tail(q)) : Tail(q)[i] = c
      <4> SUFFICES ASSUME NEW c \in callbacks'[user]
                   PROVE  \E i \in 1..Len(Tail(q)) : Tail(q)[i] = c
        OBVIOUS
      <4>1. PICK i \in 1..Len(q) : q[i] = c
        BY <1>6, <3>1
      <4>2. i # 1
        BY <1>6, <4>1 DEF first
      <4> QED BY <1>2, <4>1, <4>2
    <3>3. \A i \in 1..Len(Tail(q)) : Tail(q)[i].op \in Ops /\ Tail(q)[i] # first
      <4>1. \A i \in 1..Len(q) : q[i].op \in Ops
        BY <1>1, BatchesInQueue
      <4>2. \A i \in 1..Len(Tail(q)) : 1 < i + 1
        BY <1>2
      <4>3. \A i \in 1..Len(Tail(q)) : first.op < Tail(q)[i].op
        BY <1>1, <1>2, <4>2 DEF Ascending, first
      <4> QED BY <1>2, <1>3, <4>1, <4>3 DEF Ops
    <3>4. \A i \in 1..Len(Tail(q)) :
            told'[Tail(q)[i].op] = "waiting" => Tail(q)[i] \in callbacks'[user]
      BY <1>2, <1>6, <2>1, <3>1, <3>3
    <3> QED BY <1>5, <2>3, <3>2, <3>4
  <2> QED BY <2>2, <2>3
<1>14. CallbacksTellTheTruth'
  <2>1. ASSUME NEW o \in Ops
        PROVE  /\ told'[o] = "ok" => \E u \in Users : o \in executed[u]
               /\ told'[o] = "error" => outcome'[o] = "rejected"
    <3>1. CASE told'[o] = told[o] /\ o # first.op
      BY <1>7, <3>1 DEF LInv, CallbacksTellTheTruth
    <3>2. CASE o = first.op /\ told'[o] = status
      BY <1>1, <1>7, <3>2 DEF first, q
    <3>3. CASE o = first.op /\ told'[o] = told[o]
      <4>1. outcome[o] = "open"
        BY <1>1, <1>3, <1>8, <1>9, <3>3 DEF LInv, LedgerOK, Ops
      <4> QED BY <3>3, <4>1 DEF LInv, CallbacksTellTheTruth
    <3> QED BY <1>5, <3>1, <3>2, <3>3
  <2>2. Misjudged' \subseteq Misjudged \union {first.op}
    BY <1>7 DEF Misjudged, serverVars
  <2>3. \/ Misjudged' \subseteq Misjudged
        \/ Cardinality(Misjudged) < hangups
    <3>1. CASE how = "accepted"
      BY <1>7, <2>2, <3>1 DEF Misjudged
    <3>2. CASE first.op \in refusals \union unread'
      BY <1>7, <2>2, <3>2 DEF Misjudged, serverVars
    <3> QED BY <3>1, <3>2 DEF first, q
  <2>4. Cardinality(Misjudged') <= hangups'
    <3> DEFINE S == Misjudged
               T == Misjudged'
    <3>1. S \in SUBSET Ops /\ T \in SUBSET Ops /\ T \subseteq S \union {first.op}
          /\ (T \subseteq S \/ Cardinality(S) < hangups)
          /\ Cardinality(S) <= hangups
      BY <2>2, <2>3 DEF Misjudged, Ops, LInv, CallbacksTellTheTruth
    <3>2. hangups \in Nat /\ hangups' = hangups
      BY DEF IInv, TypeOK, serverVars
    <3> HIDE DEF S, T
    <3>3. /\ T \subseteq S => Cardinality(T) <= Cardinality(S)
          /\ Cardinality(T) <= Cardinality(S) + 1
          /\ Cardinality(S) \in Nat /\ Cardinality(T) \in Nat
      BY <3>1, MisjudgedIsFinite, MisjudgedAfter
    <3>4. Cardinality(T) <= hangups'
      BY <3>1, <3>2, <3>3
    <3> QED BY <3>4 DEF T
  <2> QED BY <2>1, <2>4 DEF CallbacksTellTheTruth, serverVars
<1>15. AcknowledgedStays'
  <2> SUFFICES ASSUME NEW u \in Users \ strayed, NEW o \in executed[u],
                      outcome'[o] = "accepted"
               PROVE  doc[u] >= o
    BY DEF AcknowledgedStays, serverVars
  <2>1. o \in Touched(u)
    BY DEF Touched
  <2>2. CASE o = first.op
    BY <1>7, <1>11, <2>1, <2>2 DEF first, q
  <2>3. CASE o # first.op
    BY <1>7, <1>10, <2>1, <2>3 DEF LInv, AcknowledgedStays
  <2> QED BY <2>2, <2>3
<1> QED BY <1>12, <1>13, <1>14, <1>15 DEF LInv
\* The server executes a write of u: one that is queued, or a stray.
LEMMA ExecuteKeepsLedger ==
  ASSUME IInv, IInv', LInv, NewsOK', NEW u \in Users, NEW o \in Touched(u),
         Execute(u, o),
         \/ UNCHANGED strayed /\ o \in QueuedOps(u)
         \/ strayed' = strayed \union {u},
         UNCHANGED <<queue, user, callbacks, told, outcome, issued, refusals,
                     hangups, unread, strays>>
  PROVE  LInv'
<1>1. o \in Ops /\ \A v \in Users : Touched(v) \subseteq Ops
  BY TouchedIsTyped
<1>2. /\ executed[u] \subseteq executed'[u] /\ doc'[u] = o
      /\ executed'[u] = executed[u] \union {o}
      /\ \A v \in Users : v # u => executed'[v] = executed[v] /\ doc'[v] = doc[v]
      /\ \A v \in Users : executed[v] \subseteq executed'[v]
  BY DEF Execute, IInv, TypeOK
<1>3. \A v \in Users : Touched(v)' \subseteq Touched(v)
  BY <1>2 DEF Touched, StrayOps, QueuedOps
<1>4. LedgerOK'
  BY <1>3, SameLedger DEF LInv
<1>5. CallbacksAreOfBatches'
  BY DEF LInv, CallbacksAreOfBatches
<1>6. CallbacksTellTheTruth'
  BY <1>2 DEF LInv, CallbacksTellTheTruth, Misjudged
<1>7. AcknowledgedStays'
  <2> SUFFICES ASSUME NEW v \in Users \ strayed', NEW p \in executed'[v],
                      outcome[p] = "accepted"
               PROVE  doc'[v] >= p
    BY DEF AcknowledgedStays
  <2>1. CASE v # u
    BY <1>2, <2>1 DEF LInv, AcknowledgedStays
  <2>2. CASE v = u
    <3>1. o \in QueuedOps(u) /\ u \notin strayed
      BY <2>2
    <3>2. outcome[o] = "open"
      BY <1>1, <3>1 DEF LInv, LedgerOK, Ops
    <3>3. p \in executed[u] /\ p \in Touched(u)
      BY <1>2, <2>2, <3>2 DEF Touched
    <3>4. p < o
      BY <3>1, <3>3 DEF LInv, LedgerOK
    <3> QED BY <1>1, <1>2, <2>2, <3>3, <3>4 DEF Ops
  <2> QED BY <2>1, <2>2
<1> QED BY <1>4, <1>5, <1>6, <1>7 DEF LInv

LEMMA AnswersKeepLedger ==
  ASSUME IInv, IInv', LInv, ServerAnswers
  PROVE  LInv'
<1> DEFINE a == remote.answers
           o == remote.requests
           h == Head(o)
<1>1. /\ remote \in RemoteRecords /\ a \in Seq(Messages) /\ o \in Seq(Messages)
      /\ user \in Users
  BY DEF IInv, TypeOK, RemoteRecords
<1>2. /\ o # <<>> /\ remote.status = "none"
      /\ remote' = [remote EXCEPT !.requests = Tail(@),
                                  !.answers = Append(@, Head(remote.requests))]
      /\ UNCHANGED <<queue, nextBatchId, user, callbacks, told, outcome,
                     issued, refusals, hangups, unread, strays, strayed,
                     disturbances>>
  BY DEF ServerAnswers
<1>3. remote'.answers = Append(a, h) /\ remote'.status = remote.status
  BY <1>1, <1>2 DEF RemoteRecords
<1>4. /\ \A i \in 1..Len(a) : a[i] # Handshake => a[i] \in QueuedOps(user)
      /\ \A i \in 1..Len(o) : o[i] # Handshake => o[i] \in QueuedOps(user)
      /\ \A i \in 1..Len(a), j \in 1..Len(o) :
           a[i] # Handshake /\ o[j] # Handshake => a[i] < o[j]
  BY WireIsQueued
<1> HIDE DEF a, o
<1>5. h \in Messages /\ 1 \in 1..Len(o) /\ h = o[1]
  BY <1>1, <1>2
<1> HIDE DEF h
<1>6. /\ Len(a) \in Nat /\ Len(Append(a, h)) = Len(a) + 1
      /\ \A i \in 1..(Len(a) + 1) :
           Append(a, h)[i] = IF i <= Len(a) THEN a[i] ELSE h
  BY <1>1, <1>5, AppendProperties
<1>7. CASE h = Handshake
  <2>1. UNCHANGED <<executed, doc>>
    BY <1>7 DEF ServerAnswers, h, o
  <2>2. NewsOK'
    <3> SUFFICES ASSUME NEW i \in 1..(Len(a) + 1),
                        Append(a, h)[i] # Handshake
                 PROVE  /\ Append(a, h)[i] \in executed[user]
                        /\ user \notin strayed => doc[user] >= Append(a, h)[i]
      BY <1>2, <1>3, <1>6, <2>1 DEF NewsOK, Blamed
    <3>1. i \in 1..Len(a) /\ Append(a, h)[i] = a[i]
      BY <1>6, <1>7
    <3> QED BY <3>1 DEF LInv, NewsOK, a
  <2> QED BY <1>2, <2>1, <2>2, QuietKeeps DEF serverVars
<1>8. CASE h # Handshake
  <2>1. Execute(user, h)
    BY <1>8 DEF ServerAnswers, h, o
  <2>2. h \in QueuedOps(user) /\ h \in Ops
    BY <1>4, <1>5, <1>8 DEF Messages
  <2>3. executed'[user] = executed[user] \union {h} /\ doc'[user] = h
    BY <1>1, <2>1 DEF Execute, IInv, TypeOK
  <2>4. NewsOK'
    <3> SUFFICES ASSUME NEW i \in 1..(Len(a) + 1),
                        Append(a, h)[i] # Handshake
                 PROVE  /\ Append(a, h)[i] \in executed'[user]
                        /\ doc'[user] >= Append(a, h)[i]
      BY <1>2, <1>3, <1>6 DEF NewsOK, Blamed
    <3>1. CASE i <= Len(a)
      <4>1. i \in 1..Len(a) /\ Append(a, h)[i] = a[i] /\ a[i] # Handshake
        BY <1>6, <3>1
      <4>2. a[i] \in executed[user]
        BY <4>1 DEF LInv, NewsOK, a
      <4>3. a[i] < h /\ a[i] \in QueuedOps(user)
        BY <1>4, <1>5, <1>8, <4>1
      <4>4. a[i] \in Nat /\ h \in Nat
        BY <1>1, <2>2, <4>3, TouchedIsTyped DEF Ops
      <4> QED BY <2>3, <4>1, <4>2, <4>3, <4>4
    <3>2. CASE ~(i <= Len(a))
      <4>1. Append(a, h)[i] = h
        BY <1>6, <3>2
      <4> QED BY <2>2, <2>3, <4>1 DEF Ops
    <3> QED BY <3>1, <3>2
  <2>5. h \in Touched(user)
    BY <2>2 DEF Touched
  <2> QED BY <1>1, <1>2, <2>1, <2>2, <2>4, <2>5, ExecuteKeepsLedger
<1> QED BY <1>7, <1>8

LEMMA StrayKeepsLedger ==
  ASSUME IInv, IInv', LInv, NEW s \in strays, StrayIsExecuted(s)
  PROVE  LInv'
<1>1. /\ Execute(s.user, s.op) /\ strayed' = strayed \union {s.user}
      /\ UNCHANGED <<queue, nextBatchId, user, remote, callbacks, told,
                     outcome, issued, refusals, hangups, unread, strays,
                     disturbances>>
  BY DEF StrayIsExecuted
<1>2. s.user \in Users /\ s.op \in Ops /\ s.op \in Touched(s.user)
  BY DEF IInv, TypeOK, Touched, StrayOps
<1>3. /\ user \in Users /\ \A v \in Users : executed[v] \subseteq executed'[v]
      /\ user \notin strayed' => doc'[user] = doc[user] /\ user \notin strayed
  BY <1>1, <1>2 DEF Execute, IInv, TypeOK
<1>4. NewsOK'
  BY <1>1, <1>3 DEF LInv, NewsOK, Blamed, Misjudged
<1> QED BY <1>1, <1>2, <1>4, ExecuteKeepsLedger

\* Of the ways in which the server ends a stream, only one counts as an error
\* that is about no request.
LEMMA EndKeepsLedger ==
  ASSUME IInv, IInv', LInv, ServerRefuses \/ ServerHangsUp \/ ServerFinishes
  PROVE  LInv'
<1>1. PICK status \in {"permanent", "ok"} :
        /\ ServerEnds(status)
        /\ ~ServerFinishes => status = "permanent"
        /\ ServerFinishes => status = "ok"
  BY DEF ServerRefuses, ServerHangsUp, ServerFinishes, ServerEnds
<1>2. /\ remote' = [remote EXCEPT !.status = status]
      /\ UNCHANGED <<queue, nextBatchId, user, callbacks, told, outcome,
                     issued, executed, unread, doc, strays, strayed>>
  BY <1>1 DEF ServerEnds
<1>3. /\ remote'.answers = remote.answers /\ remote'.requests = remote.requests
      /\ remote'.status = status
  BY <1>2 DEF IInv, TypeOK, RemoteRecords
<1>4. /\ hangups \in Nat /\ hangups' \in Nat /\ hangups <= hangups'
      /\ ServerHangsUp => hangups < hangups'
      /\ refusals \subseteq refusals'
  BY DEF IInv, TypeOK, ServerRefuses, ServerHangsUp, ServerFinishes
<1>5. Misjudged' \subseteq Misjudged
  BY <1>2, <1>4 DEF Misjudged
<1>6. NewsOK'
  <2>1. CASE ServerHangsUp
    BY <1>2, <1>3, <1>4, <1>5, <2>1, CountStays DEF LInv, NewsOK, CallbacksTellTheTruth
  <2>2. CASE ServerRefuses \/ ServerFinishes
    <3>1. ~Blamed'
      BY <1>1, <1>3, <2>2 DEF Blamed, ServerRefuses, ServerFinishes
    <3> QED BY <1>2, <1>3, <3>1 DEF LInv, NewsOK
  <2> QED BY <2>1, <2>2
<1>7. LedgerOK'
  <2>1. \A u \in Users : Touched(u)' = Touched(u)
    BY <1>2 DEF Touched, StrayOps, QueuedOps
  <2> QED BY <1>2, <2>1, SameLedger DEF LInv
<1>8. CallbacksAreOfBatches' /\ AcknowledgedStays'
  BY <1>2 DEF LInv, CallbacksAreOfBatches, AcknowledgedStays
<1>9. CallbacksTellTheTruth'
  BY <1>2, <1>4, <1>5, CountStays DEF LInv, CallbacksTellTheTruth
<1> QED BY <1>6, <1>7, <1>8, <1>9 DEF LInv

\* The steps of the stream that resolve nothing.
LEMMA StreamKeepsLedger ==
  ASSUME IInv, IInv', LInv,
         \/ \E c \in remote.tokens : TokenGranted(c) \/ TokenFailed(c)
         \/ BackoffElapsed \/ IdleTimeout
         \/ OnHandshakeResponse \/ OnStatusOk \/ OnTransientError
  PROVE  LInv'
<1>1. /\ remote \in RemoteRecords /\ RemoteOK(remote, queue[user])
      /\ WireOK(remote) /\ StreamOK(remote)
      /\ remote.answers \in Seq(Messages) /\ remote.requests \in Seq(Messages)
  BY DEF IInv, TypeOK, RemoteRecords, RemoteOK, HalfOK
<1>2. ASSUME NEW c \in remote.tokens, TokenGranted(c) PROVE LInv'
  <2>1. OnlyRemoteChanges /\ UNCHANGED strays
    BY <1>2 DEF TokenGranted
  <2>2. NewsOK'
    <3>1. CASE c = remote.closeCount
      <4>1. remote.answers = <<>> /\ remote.status = "none"
        BY <1>1, <3>1, NoCargo DEF StreamOK
      <4>2. remote'.answers = remote.answers /\ remote'.status = remote.status
        BY <1>1, <1>2, <3>1 DEF TokenGranted, RemoteRecords
      <4> QED BY <4>1, <4>2 DEF NewsOK, Blamed
    <3>2. CASE c # remote.closeCount
      <4>1. /\ remote'.answers = remote.answers
            /\ remote'.status = remote.status
            /\ remote'.requests = remote.requests
        BY <1>1, <1>2, <3>2 DEF TokenGranted, RemoteRecords
      <4> QED BY <2>1, <4>1, SameNews
              DEF OnlyRemoteChanges, serverVars, LInv, Misjudged
    <3> QED BY <3>1, <3>2
  <2> QED BY <2>1, <2>2, QuietKeeps DEF OnlyRemoteChanges
<1>3. ASSUME NEW c \in remote.tokens, TokenFailed(c) PROVE LInv'
  <2> DEFINE t == [remote EXCEPT !.tokens = @ \ {c}]
  <2>1. t \in RemoteRecords
    BY <1>1 DEF RemoteRecords
  <2>2. remote' = CloseAndRetry(t) /\ OnlyRemoteChanges /\ UNCHANGED strays
    BY <1>3 DEF TokenFailed
  <2> HIDE DEF t
  <2>3. remote'.state # "Open"
    BY <2>1, <2>2, RetryLeaves
  <2> QED BY <2>2, <2>3, ClosingKeeps DEF OnlyRemoteChanges
<1>4. CASE BackoffElapsed
  <2>1. OnlyRemoteChanges /\ UNCHANGED strays
        /\ remote' = StartStream([remote EXCEPT !.state = "Initial"])
    BY <1>4 DEF BackoffElapsed
  <2>2. remote'.state # "Open"
    BY <1>1, <2>1 DEF StartStream, RemoteRecords
  <2> QED BY <2>1, <2>2, ClosingKeeps DEF OnlyRemoteChanges
<1>5. CASE IdleTimeout
  <2>1. remote'.state # "Open"
    BY <1>1, <1>5, StopLeaves DEF IdleTimeout
  <2> QED BY <1>5, <2>1, ClosingKeeps DEF IdleTimeout, OnlyRemoteChanges
<1>6. CASE OnTransientError
  <2>1. remote'.state # "Open"
    BY <1>1, <1>6, RetryLeaves DEF OnTransientError
  <2> QED BY <1>6, <2>1, ClosingKeeps DEF OnTransientError, OnlyRemoteChanges
<1>7. CASE OnHandshakeResponse
  <2> DEFINE a == remote.answers
             o == remote.requests
  <2>1. OnlyRemoteChanges /\ UNCHANGED strays /\ a # <<>>
    BY <1>7 DEF OnHandshakeResponse
  <2>2. a \o o = <<Handshake>>
    <3>1. remote.state = "Open" /\ ~remote.handshakeComplete
      BY <1>1, <1>7, NoCargo DEF OnHandshakeResponse
    <3> QED BY <1>1, <3>1 DEF WireOK, Cargo
  <2>3. remote'.answers = Tail(a) /\ remote'.status = remote.status
    BY <1>1, <1>7 DEF OnHandshakeResponse, RemoteRecords
  <2>4. o = <<>>
    <3>1. /\ Tail(a) \in Seq(Messages)
          /\ Tail(a) \o o = Tail(a \o o)
      BY <1>1, <2>1, ReadFirst
    <3>2. Tail(<<Handshake>>) = <<>>
      OBVIOUS
    <3>3. Tail(a) \o o = <<>>
      BY <2>2, <3>1, <3>2
    <3> QED BY <1>1, <3>1, <3>3, ConcatEqualIffEmpty
  <2>5. Misjudged' \subseteq Misjudged
    BY <2>1 DEF Misjudged, OnlyRemoteChanges, serverVars
  <2>6. NewsOK'
    BY <2>1, <2>3, <2>4, <2>5, SameNews DEF OnlyRemoteChanges, serverVars, LInv
  <2> QED BY <2>1, <2>6, QuietKeeps DEF OnlyRemoteChanges
<1>8. CASE OnStatusOk
  <2>1. remote'.state # "Open"
    BY <1>1, <1>8, StopLeaves DEF OnStatusOk
  <2> QED BY <1>8, <2>1, ClosingKeeps DEF OnStatusOk, OnlyRemoteChanges
<1> QED BY <1>2, <1>3, <1>4, <1>5, <1>6, <1>7, <1>8

LEMMA ClientKeepsLedger ==
  ASSUME IInv, IInv', LInv,
         \/ \E u \in Users : HandleCredentialChange(u)
         \/ DisableNetwork \/ EnableNetwork
  PROVE  LInv'
<1>1. /\ remote \in RemoteRecords /\ RemoteOK(remote, queue[user])
      /\ ~remote.enabled => remote.state # "Open"
  BY DEF IInv, TypeOK, RemoteOK, HalfOK, IsStarted
<1>2. LET d == DisableNetworkInternal(remote)
      IN  "state" \in DOMAIN d /\ d.state # "Open"
  BY <1>1, DisableLeaves
<1>3. ASSUME NEW u \in Users, HandleCredentialChange(u) PROVE LInv'
  <2>1. /\ remote' = RestartStreams(remote, queue[u])
        /\ Abandon \/ UNCHANGED strays
        /\ UNCHANGED <<queue, callbacks, told, outcome, issued, serverVars,
                       unread>>
    BY <1>3 DEF HandleCredentialChange
  <2>2. remote'.state # "Open"
    <3>1. CASE remote.enabled
      BY <1>2, <2>1, <3>1, EnableLeaves DEF RestartStreams
    <3>2. CASE ~remote.enabled
      BY <1>1, <2>1, <3>2 DEF RestartStreams
    <3> QED BY <3>1, <3>2
  <2> QED BY <2>1, <2>2, ClosingKeeps
<1>4. CASE DisableNetwork
  BY <1>2, <1>4, ClosingKeeps DEF DisableNetwork
<1>5. CASE EnableNetwork
  <2>1. "state" \in DOMAIN remote
    BY <1>1 DEF RemoteRecords
  <2>2. remote'.state # "Open"
    BY <1>1, <1>5, <2>1, EnableLeaves DEF EnableNetwork
  <2> QED BY <1>5, <2>2, ClosingKeeps DEF EnableNetwork
<1> QED BY <1>3, <1>4, <1>5

LEMMA ResultKeepsLedger ==
  ASSUME IInv, IInv', LInv, OnMutationResult
  PROVE  LInv'
<1> DEFINE t == [remote EXCEPT !.answers = Tail(@), !.pipeline = Tail(@)]
           q == Tail(queue[user])
           a == remote.answers
<1>1. /\ user \in Users /\ queue[user] \in Seq(Batches) /\ Ascending(queue[user])
      /\ remote \in RemoteRecords /\ RemoteOK(remote, queue[user])
      /\ a \in Seq(Messages) /\ a # <<>> /\ remote.handshakeComplete
  BY QueueIsTyped DEF IInv, TypeOK, RemoteRecords, OnMutationResult
<1>2. /\ queue[user] # <<>>
      /\ Notify(queue[user][1], "ok")
      /\ queue' = [queue EXCEPT ![user] = Tail(@)]
      /\ outcome' = [outcome EXCEPT ![queue[user][1].op] = "accepted"]
  BY ResultResolves
<1>3. UNCHANGED <<nextBatchId, user, issued, serverVars, unread, strays,
                  disturbances>>
  BY DEF OnMutationResult
<1>4. /\ queue[user][1].op \in executed[user]
      /\ user \notin strayed => doc[user] >= queue[user][1].op
  BY <1>1, FrontIsExecuted
<1>5. HalfOK(t, q)
  BY <1>1, AnswerKeeps
<1>6. q \in Seq(Batches) /\ Ascending(q)
  BY <1>1, <1>2, TailOfQueue
<1>7. remote' = FillWritePipeline(t, q)
  <2>1. queue'[user] = q
    BY <1>1, <1>2 DEF IInv, TypeOK
  <2> QED BY <2>1 DEF OnMutationResult
<1>8. /\ t.answers = Tail(a) /\ t.status = remote.status
      /\ t.requests = remote.requests
  BY <1>1 DEF RemoteRecords
<1> HIDE DEF t, q
<1>9. /\ remote'.answers = Tail(a) /\ remote'.status = remote.status
      /\ remote.requests # <<>> =>
           /\ remote'.requests # <<>>
           /\ Head(remote'.requests) = Head(remote.requests)
  BY <1>5, <1>6, <1>7, <1>8, FillNews
<1>10. Misjudged' \subseteq Misjudged
  BY <1>2, <1>3 DEF Misjudged, IInv, TypeOK, serverVars
<1>11. NewsOK'
  BY <1>1, <1>3, <1>9, <1>10, SameNews DEF LInv, serverVars
<1>12. \A o \in unread' : \E u \in Users : o \in executed[u]
  BY <1>3 DEF LInv, CallbacksTellTheTruth, IInv, TypeOK
<1> QED BY <1>2, <1>3, <1>4, <1>11, <1>12, ResolveKeepsLedger

\* The write that fails is one the server refused, or one is misjudged.
LEMMA FrontIsRefused ==
  ASSUME IInv, LInv, OnPermanentError, remote.handshakeComplete,
         remote.pipeline # <<>>
  PROVE  \/ queue[user][1].op \in refusals
         \/ Cardinality(Misjudged) < hangups
<1>1. /\ user \in Users /\ queue[user] \in Seq(Batches)
      /\ remote.pipeline \in Seq(Batches) /\ remote.requests \in Seq(Messages)
      /\ IsFront(remote.pipeline, queue[user]) /\ remote.state = "Open"
      /\ remote.answers = <<>> /\ remote.status = "permanent"
  BY QueueIsTyped DEF IInv, TypeOK, RemoteOK, HalfOK, RemoteRecords, StreamOK,
                      OnPermanentError
<1>2. queue[user] # <<>> /\ Head(remote.pipeline) = queue[user][1]
  BY <1>1, FrontOfTail
<1>3. remote.requests = OpsOf(remote.pipeline)
  <2>1. remote.answers \o remote.requests = OpsOf(remote.pipeline)
    BY <1>1 DEF IInv, RemoteOK, HalfOK, WireOK, Cargo
  <2>2. <<>> \o remote.requests = remote.requests
    BY <1>1, ConcatEmptySeq
  <2> QED BY <1>1, <2>1, <2>2
<1>4. Head(remote.requests) = queue[user][1].op
  BY <1>1, <1>2, <1>3, OpsOfTail
<1>5. remote.requests # <<>>
  BY <1>1, <1>3 DEF OpsOf
<1>6. queue[user][1].op \in Ops
  <2>1. 1 \in 1..Len(queue[user])
    BY <1>1, <1>2
  <2> QED BY <1>1, <2>1, BatchesInQueue
<1>7. queue[user][1].op # Handshake
  BY <1>6 DEF Handshake, Ops
<1> QED BY <1>1, <1>4, <1>5, <1>7 DEF LInv, NewsOK, Blamed

\* A response that cannot be decoded is the handshake's or that of the front.
LEMMA FrontIsUnread ==
  ASSUME IInv, LInv, OnUndecodableResponse
  PROVE  /\ remote.handshakeComplete =>
              /\ remote.pipeline # <<>>
              /\ queue[user][1].op \in executed[user]
              /\ unread' = unread \union {queue[user][1].op}
         /\ ~remote.handshakeComplete => unread' = unread
<1>1. /\ user \in Users /\ queue[user] \in Seq(Batches) /\ Ascending(queue[user])
      /\ RemoteOK(remote, queue[user]) /\ WireOK(remote)
      /\ remote \in RemoteRecords /\ remote.answers # <<>>
      /\ remote.answers \in Seq(Messages) /\ remote.requests \in Seq(Messages)
      /\ unread' = unread \union ({Head(remote.answers)} \ {Handshake})
  BY QueueIsTyped DEF IInv, TypeOK, RemoteOK, HalfOK, RemoteRecords,
                      OnUndecodableResponse
<1>2. CASE remote.handshakeComplete
  <2>1. /\ remote.pipeline # <<>> /\ queue[user] # <<>>
        /\ Head(remote.answers) = queue[user][1].op
    BY <1>1, <1>2, AnswerKeeps
  <2>2. queue[user][1].op \in executed[user]
    BY <1>1, <1>2, FrontIsExecuted
  <2>3. queue[user][1].op \in Ops
    <3>1. 1 \in 1..Len(queue[user])
      BY <1>1, <2>1
    <3> QED BY <1>1, <3>1, BatchesInQueue
  <2>4. queue[user][1].op # Handshake
    BY <2>3 DEF Handshake, Ops
  <2> QED BY <1>1, <1>2, <2>1, <2>2, <2>4
<1>3. CASE ~remote.handshakeComplete
  <2>1. remote.state = "Open"
    BY <1>1, NoCargo
  <2>2. remote.answers \o remote.requests = <<Handshake>>
    BY <1>1, <1>3, <2>1 DEF WireOK, Cargo
  <2>3. Head(remote.answers) = Head(remote.answers \o remote.requests)
    BY <1>1, ReadFirst
  <2>4. Head(remote.answers) = Handshake
    BY <2>2, <2>3
  <2> QED BY <1>1, <1>3, <2>4
<1> QED BY <1>2, <1>3

LEMMA ErrorKeepsLedger ==
  ASSUME IInv, IInv', LInv, OnPermanentError \/ OnUndecodableResponse
  PROVE  LInv'
<1>1. /\ user \in Users /\ queue[user] \in Seq(Batches)
      /\ remote \in RemoteRecords /\ FailFront
      /\ UNCHANGED <<nextBatchId, user, issued, serverVars>>
      /\ Abandon \/ UNCHANGED strays
  BY QueueIsTyped DEF IInv, TypeOK, OnPermanentError, OnUndecodableResponse
<1>2. CASE remote.handshakeComplete /\ remote.pipeline # <<>>
  <2>1. /\ queue[user] # <<>>
        /\ Notify(queue[user][1], "error")
        /\ queue' = [queue EXCEPT ![user] = Tail(@)]
        /\ outcome' = [outcome EXCEPT ![queue[user][1].op] = "rejected"]
    BY <1>1, <1>2, FailureResolves
  <2>2. remote'.state # "Open"
    BY <1>1, <1>2, RejectLeaves DEF FailFront
  <2>3. NewsOK'
    BY <2>2, ClosedIsNoNews DEF IInv
  <2>4. /\ unread \subseteq unread'
        /\ \A o \in unread' : \E u \in Users : o \in executed[u]
        /\ \/ queue[user][1].op \in refusals \union unread'
           \/ Cardinality(Misjudged) < hangups
    <3>1. \A o \in unread : \E u \in Users : o \in executed[u]
      BY DEF LInv, CallbacksTellTheTruth, IInv, TypeOK
    <3>2. CASE OnPermanentError
      BY <1>2, <3>1, <3>2, FrontIsRefused DEF OnPermanentError
    <3>3. CASE OnUndecodableResponse
      BY <1>1, <1>2, <3>1, <3>3, FrontIsUnread
    <3> QED BY <3>2, <3>3
  <2> QED BY <1>1, <2>1, <2>3, <2>4, ResolveKeepsLedger
<1>3. CASE ~(remote.handshakeComplete /\ remote.pipeline # <<>>)
  <2>1. remote' = CloseAndRetry(remote)
        /\ UNCHANGED <<queue, callbacks, told, outcome>>
    BY <1>1, <1>3 DEF FailFront
  <2>2. remote'.state # "Open"
    BY <1>1, <2>1, RetryLeaves
  <2>3. UNCHANGED unread
    BY <1>3, FrontIsUnread DEF OnPermanentError
  <2> QED BY <1>1, <2>1, <2>2, <2>3, ClosingKeeps
<1> QED BY <1>2, <1>3

-----------------------------------------------------------------------------
(* The ledger is an invariant *)

\* Nothing is queued, told or on its way at first.
THEOREM InitLInv == Init => LInv
<1> SUFFICES ASSUME Init PROVE LInv
  OBVIOUS
<1>1. /\ \A u \in Users : queue[u] = <<>> /\ executed[u] = {} /\ callbacks[u] = {}
      /\ strays = {} /\ issued = 0 /\ Len(<<>>) = 0
      /\ \A o \in Ops : outcome[o] = "open" /\ told[o] = "waiting"
  BY DEF Init
<1>2. \A u \in Users : Touched(u) = {}
  BY <1>1 DEF Touched, QueuedOps, StrayOps
<1>3. /\ remote.answers = <<>> /\ remote.status = "none" /\ hangups = 0
      /\ unread = {}
  BY DEF Init, FreshRemote
<1>4. Misjudged = {} /\ Cardinality({}) = 0
  BY <1>1, FS_EmptySet DEF Misjudged
<1> QED BY <1>1, <1>2, <1>3, <1>4
        DEF LInv, LedgerOK, NewsOK, Blamed, CallbacksAreOfBatches,
            CallbacksTellTheTruth, AcknowledgedStays

\* Every handler, every step of the server and every kill keeps the ledger.
THEOREM NextLInv == IInv /\ IInv' /\ LInv /\ [Next]_vars => LInv'
<1> SUFFICES ASSUME IInv, IInv', LInv, [Next]_vars PROVE LInv'
  OBVIOUS
<1>1. CASE UNCHANGED vars
  <2>1. /\ UNCHANGED <<queue, callbacks, told, outcome, issued, serverVars,
                       unread, strays>>
        /\ NewsOK'
    BY <1>1 DEF vars, serverVars, LInv, NewsOK, Blamed, Misjudged
  <2> QED BY <2>1, QuietKeeps
<1>2. CASE ClientStep
  BY <1>2, WriteKeepsLedger, ClientKeepsLedger DEF ClientStep
<1>3. CASE StreamStep
  BY <1>3, StreamKeepsLedger, ResultKeepsLedger, ErrorKeepsLedger DEF StreamStep
<1>4. CASE ServerStep
  BY <1>4, AnswersKeepLedger, EndKeepsLedger, StrayKeepsLedger DEF ServerStep
<1>5. CASE ProcessStep
  BY <1>5, KillKeepsLedger DEF ProcessStep
<1> QED BY <1>1, <1>2, <1>3, <1>4, <1>5 DEF Next

\* Both invariants hold of every behaviour.
THEOREM LedgerInvariance == Spec => [](IInv /\ LInv)
<1>1. Init => IInv /\ LInv
  BY InitIInv, InitLInv
<1>2. IInv /\ LInv /\ [Next]_vars => (IInv /\ LInv)'
  BY NextIInv, NextLInv
<1> QED BY <1>1, <1>2, PTL DEF Spec

\* CallbacksAreOfBatches: whatever users, kills and ids that are used again,
\* a callback is never called for the write of another.
THEOREM CallbacksMatch == Spec => []CallbacksAreOfBatches
<1>1. LInv => CallbacksAreOfBatches
  BY DEF LInv
<1> QED BY <1>1, LedgerInvariance, PTL

\* CallbacksTellTheTruth: the app is told "ok" only of executed writes, and
\* "error" only of refused ones or of those whose result is unreadable, but for
\* one write for each error of the server that was about none.
THEOREM CallbacksAreTrue == Spec => []CallbacksTellTheTruth
<1>1. LInv => CallbacksTellTheTruth
  BY DEF LInv
<1> QED BY <1>1, LedgerInvariance, PTL

\* AcknowledgedStays: writes that are sent again never take the document
\* behind a write that was acknowledged.
THEOREM AcknowledgedWritesStay == Spec => []AcknowledgedStays
<1>1. LInv => AcknowledgedStays
  BY DEF LInv
<1> QED BY <1>1, LedgerInvariance, PTL
-----------------------------------------------------------------------------
(* The client implements WriteQueue *)

Waiting == [u \in Users |-> {queue[u][i].op : i \in 1..Len(queue[u])}]

LEMMA WaitingIs ==
  /\ \A u \in Users : Waiting[u] = QueuedOps(u)
  /\ UNCHANGED queue => Waiting' = Waiting
  BY DEF Waiting, QueuedOps

\* Steps that the promise does not speak of.
LEMMA Stutters ==
  ASSUME UNCHANGED <<queue, issued, executed, refusals, hangups, unread, outcome>>
  PROVE  UNCHANGED Promise!vars
  BY DEF Promise!vars

LEMMA WriteIsIssue ==
  ASSUME IInv, IInv', WriteMutations
  PROVE  Promise!Next
<1> DEFINE batch == [id |-> nextBatchId, op |-> issued + 1]
           q == queue[user]
<1>1. /\ user \in Users /\ q \in Seq(Batches)
      /\ queue' = [queue EXCEPT ![user] = Append(q, batch)]
      /\ queue \in [Users -> Seq(Batches)]
      /\ issued < MaxWrites /\ issued' = issued + 1
      /\ UNCHANGED <<user, outcome, serverVars, unread>>
      /\ batch.op = issued + 1
  BY DEF WriteMutations, IInv, TypeOK
<1>2. /\ queue'[user] = Append(q, batch)
      /\ \A u \in Users : u # user => queue'[u] = queue[u]
  BY <1>1
<1> HIDE DEF batch, q
<1>3. /\ Len(queue'[user]) = Len(q) + 1 /\ queue'[user][Len(q) + 1] = batch
      /\ \A i \in 1..Len(q) : queue'[user][i] = q[i] /\ i \in 1..Len(queue'[user])
      /\ Len(q) + 1 \in 1..Len(queue'[user])
      /\ \A i \in 1..Len(queue'[user]) : i \in 1..Len(q) \/ i = Len(q) + 1
  BY <1>1, <1>2
<1>4. {queue'[user][i].op : i \in 1..Len(queue'[user])}
        = {q[i].op : i \in 1..Len(q)} \union {issued + 1}
  BY <1>1, <1>3
<1>5. Waiting' = [Waiting EXCEPT ![user] = @ \union {issued + 1}]
  <2>1. Waiting[user] = {q[i].op : i \in 1..Len(q)}
    BY <1>1 DEF Waiting, q
  <2>2. Waiting'[user] = Waiting[user] \union {issued + 1}
    <3>1. Waiting'[user] = {queue'[user][i].op : i \in 1..Len(queue'[user])}
      BY <1>1 DEF Waiting
    <3> QED BY <1>4, <2>1, <3>1
  <2>3. \A u \in Users : u # user => Waiting'[u] = Waiting[u]
    BY <1>2 DEF Waiting
  <2>4. /\ Waiting = [u \in Users |-> Waiting[u]]
        /\ Waiting' = [u \in Users |-> Waiting'[u]]
    BY DEF Waiting
  <2> HIDE DEF Waiting
  <2> QED BY <1>1, <2>2, <2>3, <2>4
<1>6. PICK u \in Users : u = user
  BY <1>1
<1>7. Promise!Issue(u)
  BY <1>1, <1>5, <1>6 DEF Promise!Issue, Waiting, serverVars
<1> QED BY <1>7 DEF Promise!Next

\* Resolving the front of the queue resolves the write that waited longest.
LEMMA ResolveIsResolve ==
  ASSUME IInv, queue[user] # <<>>, NEW how,
         queue' = [queue EXCEPT ![user] = Tail(@)],
         outcome' = [outcome EXCEPT ![queue[user][1].op] = how],
         UNCHANGED <<user, issued, serverVars>>
  PROVE  \E u \in Users, p \in Ops :
           u = user /\ p = queue[user][1].op /\ Promise!Resolve(u, p, how)
<1> DEFINE q == queue[user]
           o == q[1].op
<1>1. /\ user \in Users /\ q \in Seq(Batches) /\ Ascending(q) /\ q # <<>>
      /\ queue \in [Users -> Seq(Batches)]
  BY QueueIsTyped DEF IInv, TypeOK
<1>2. /\ Len(Tail(q)) = Len(q) - 1 /\ Len(q) \in Nat /\ 1 \in 1..Len(q)
      /\ \A i \in 1..Len(Tail(q)) : Tail(q)[i] = q[i + 1] /\ i + 1 \in 1..Len(q)
      /\ \A i \in 1..Len(q) : i = 1 \/ i - 1 \in 1..Len(Tail(q))
      /\ \A i \in 1..Len(q) : i # 1 => Tail(q)[i - 1] = q[i]
  BY <1>1, TailOfQueue
<1>3. \A i \in 1..Len(q) : q[i].op \in Ops /\ q[i].op \in Nat
  BY <1>1, BatchesInQueue DEF Ops
<1>4. /\ queue'[user] = Tail(q)
      /\ \A u \in Users : u # user => queue'[u] = queue[u]
  BY <1>1
<1> HIDE DEF q
<1>5. \A i \in 1..Len(q) : o <= q[i].op /\ (i # 1 => o < q[i].op)
  BY <1>1, <1>2, <1>3 DEF Ascending
<1>6. {Tail(q)[i].op : i \in 1..Len(Tail(q))}
        = {q[i].op : i \in 1..Len(q)} \ {o}
  <2>1. \A i \in 1..Len(Tail(q)) : i + 1 # 1
    BY <1>2
  <2>2. \A i \in 1..Len(Tail(q)) :
          /\ Tail(q)[i].op \in {q[j].op : j \in 1..Len(q)}
          /\ Tail(q)[i].op # o
    BY <1>2, <1>3, <1>5, <2>1
  <2>3. \A i \in 1..Len(q) :
          q[i].op # o => q[i].op \in {Tail(q)[j].op : j \in 1..Len(Tail(q))}
    BY <1>2
  <2> QED BY <2>2, <2>3
<1>7. Waiting[user] = {q[i].op : i \in 1..Len(q)}
  BY <1>1 DEF Waiting, q
<1>8. Waiting' = [Waiting EXCEPT ![user] = @ \ {o}]
  <2>1. Waiting'[user] = Waiting[user] \ {o}
    <3>1. Waiting'[user] = {queue'[user][i].op : i \in 1..Len(queue'[user])}
      BY <1>1 DEF Waiting
    <3>2. Waiting'[user] = {Tail(q)[i].op : i \in 1..Len(Tail(q))}
      BY <1>4, <3>1
    <3> HIDE DEF o
    <3> QED BY <1>6, <1>7, <3>2
  <2>2. \A u \in Users : u # user => Waiting'[u] = Waiting[u]
    BY <1>4 DEF Waiting
  <2>3. /\ Waiting = [u \in Users |-> Waiting[u]]
        /\ Waiting' = [u \in Users |-> Waiting'[u]]
    BY DEF Waiting
  <2> HIDE DEF Waiting, o
  <2> QED BY <1>1, <2>1, <2>2, <2>3
<1>9. o \in Waiting[user] /\ \A p \in Waiting[user] : o <= p
  BY <1>2, <1>5, <1>7
<1>10. PICK u \in Users, p \in Ops : u = user /\ p = o
  BY <1>1, <1>2, <1>3
<1>11. Promise!IsOldest(u, p)
  BY <1>9, <1>10 DEF Promise!IsOldest, Waiting
<1>12. Promise!Resolve(u, p, how)
  BY <1>8, <1>10, <1>11 DEF Promise!Resolve, Waiting, serverVars, q
<1> QED BY <1>10, <1>12 DEF q

LEMMA ExecuteIsExecute ==
  ASSUME IInv, LInv, NEW u \in Users, NEW o \in Touched(u), Execute(u, o),
         UNCHANGED <<queue, issued, refusals, hangups, unread, outcome>>
  PROVE  Promise!Next
<1>1. o \in Ops /\ o <= issued
  BY TouchedIsTyped DEF LInv, LedgerOK
<1>2. Promise!Execute(u, o)
  BY <1>1 DEF Promise!Execute, Execute
<1> QED BY <1>1, <1>2 DEF Promise!Next, Promise!Ops, Ops

\* The request in front is for a write of the user who is signed in.
LEMMA FirstIsTouched ==
  ASSUME IInv, remote.requests # <<>>, Head(remote.requests) # Handshake
  PROVE  Head(remote.requests) \in Touched(user) /\ user \in Users
<1>1. remote.requests \in Seq(Messages) /\ user \in Users
  BY DEF IInv, TypeOK, RemoteRecords
<1>2. /\ 1 \in 1..Len(remote.requests)
      /\ Head(remote.requests) = remote.requests[1]
  BY <1>1
<1>3. Head(remote.requests) \in QueuedOps(user)
  BY <1>2, WireIsQueued
<1> QED BY <1>1, <1>3 DEF Touched

\* PromiseSpec, step by step: every step of the client, of the server and of
\* a kill is a step of WriteQueue or leaves its variables alone.
THEOREM StepsImplement ==
  ASSUME IInv, IInv', LInv, [Next]_vars
  PROVE  [Promise!Next]_Promise!vars
<1>1. CASE UNCHANGED vars
  BY <1>1, Stutters DEF vars
<1>2. CASE WriteMutations
  BY <1>2, WriteIsIssue
<1>3. ASSUME NEW u \in Users, HandleCredentialChange(u)
      PROVE  UNCHANGED Promise!vars
  BY <1>3, Stutters DEF HandleCredentialChange, serverVars
<1>4. CASE DisableNetwork \/ EnableNetwork
  BY <1>4, Stutters DEF DisableNetwork, EnableNetwork, serverVars
<1>5. ASSUME NEW c \in remote.tokens, TokenGranted(c) \/ TokenFailed(c)
      PROVE  UNCHANGED Promise!vars
  BY <1>5, Stutters DEF TokenGranted, TokenFailed, OnlyRemoteChanges, serverVars
<1>6. CASE \/ BackoffElapsed \/ IdleTimeout
           \/ OnHandshakeResponse \/ OnStatusOk \/ OnTransientError
  BY <1>6, Stutters
     DEF BackoffElapsed, IdleTimeout, OnHandshakeResponse, OnStatusOk,
         OnTransientError, OnlyRemoteChanges, serverVars
<1>7. CASE OnMutationResult
  <2>1. UNCHANGED <<user, issued, serverVars, unread>>
    BY <1>7 DEF OnMutationResult
  <2>2. PICK u \in Users, o \in Ops :
          u = user /\ o = queue[user][1].op /\ Promise!Resolve(u, o, "accepted")
    BY <1>7, <2>1, ResultResolves, ResolveIsResolve
  <2>3. o \in executed[u]
    BY <1>7, <2>2, FrontIsExecuted DEF OnMutationResult
  <2>4. Promise!Acknowledge(u, o)
    BY <2>1, <2>2, <2>3 DEF Promise!Acknowledge
  <2> QED BY <2>4 DEF Promise!Next, Promise!Ops, Ops
<1>8. CASE OnPermanentError \/ OnUndecodableResponse
  <2>1. UNCHANGED <<user, issued, serverVars>> /\ FailFront
    BY <1>8 DEF OnPermanentError, OnUndecodableResponse
  <2>2. CASE remote.handshakeComplete /\ remote.pipeline # <<>>
    <3>1. PICK u \in Users, o \in Ops :
            u = user /\ o = queue[user][1].op /\ Promise!Resolve(u, o, "rejected")
      BY <2>1, <2>2, FailureResolves, ResolveIsResolve
    <3>2. CASE OnUndecodableResponse
      <4>1. Promise!Misread(u, o)
        BY <2>2, <3>1, <3>2, FrontIsUnread DEF Promise!Misread
      <4> QED BY <4>1 DEF Promise!Next, Promise!Ops, Ops
    <3>3. CASE OnPermanentError
      <4>1. UNCHANGED unread
        BY <3>3 DEF OnPermanentError
      <4>2. o \in refusals \/ Cardinality(Misjudged) < hangups
        BY <2>2, <3>1, <3>3, FrontIsRefused
      <4>3. Promise!Misjudged = Misjudged
        BY DEF Promise!Misjudged, Promise!Ops, Misjudged, Ops
      <4>4. CASE o \in refusals
        <5>1. Promise!Reject(u, o)
          BY <3>1, <4>1, <4>4 DEF Promise!Reject
        <5> QED BY <5>1 DEF Promise!Next, Promise!Ops, Ops
      <4>5. CASE Cardinality(Misjudged) < hangups
        <5>1. Promise!Misjudge(u, o)
          BY <3>1, <4>1, <4>3, <4>5
             DEF Promise!Misjudge, Promise!Cardinality, Cardinality
        <5> QED BY <5>1 DEF Promise!Next, Promise!Ops, Ops
      <4> QED BY <4>2, <4>4, <4>5
    <3> QED BY <1>8, <3>2, <3>3
  <2>3. CASE ~(remote.handshakeComplete /\ remote.pipeline # <<>>)
    <3>1. UNCHANGED unread
      BY <1>8, <2>3, FrontIsUnread DEF OnPermanentError
    <3> QED BY <2>1, <2>3, <3>1, Stutters DEF FailFront, serverVars
  <2> QED BY <2>2, <2>3
<1>9. CASE ServerAnswers
  <2>1. UNCHANGED <<queue, issued, refusals, hangups, unread, outcome>>
    BY <1>9 DEF ServerAnswers
  <2>2. CASE Head(remote.requests) = Handshake
    BY <1>9, <2>1, <2>2, Stutters DEF ServerAnswers
  <2>3. CASE Head(remote.requests) # Handshake
    <3> DEFINE h == Head(remote.requests)
    <3>1. h \in Touched(user) /\ user \in Users
      BY <1>9, <2>3, FirstIsTouched DEF ServerAnswers
    <3>2. Execute(user, h)
      BY <1>9, <2>3 DEF ServerAnswers
    <3> QED BY <2>1, <3>1, <3>2, ExecuteIsExecute
  <2> QED BY <2>2, <2>3
<1>10. CASE ServerRefuses
  <2> DEFINE h == Head(remote.requests)
  <2>1. /\ refusals' = refusals \union ({h} \ {Handshake})
        /\ UNCHANGED <<queue, issued, executed, hangups, unread, outcome>>
    BY <1>10 DEF ServerRefuses, ServerEnds
  <2>2. CASE h = Handshake
    BY <2>1, <2>2, Stutters
  <2>3. CASE h # Handshake
    <3>1. h \in Touched(user) /\ user \in Users
      BY <1>10, <2>3, FirstIsTouched DEF ServerRefuses
    <3>2. h \in Ops /\ h <= issued
      BY <3>1, TouchedIsTyped DEF LInv, LedgerOK
    <3>3. Promise!Refuse(h)
      BY <2>1, <2>3, <3>2 DEF Promise!Refuse
    <3> QED BY <3>2, <3>3 DEF Promise!Next, Promise!Ops, Ops
  <2> QED BY <2>2, <2>3
<1>11. ASSUME NEW s \in strays, StrayIsExecuted(s) PROVE Promise!Next
  <2>1. s.user \in Users /\ s.op \in Touched(s.user)
    BY <1>11 DEF IInv, TypeOK, Touched, StrayOps
  <2>2. /\ Execute(s.user, s.op)
        /\ UNCHANGED <<queue, issued, refusals, hangups, unread, outcome>>
    BY <1>11 DEF StrayIsExecuted
  <2> QED BY <2>1, <2>2, ExecuteIsExecute
<1>12. CASE ServerHangsUp
  <2>1. Promise!HangUp
    BY <1>12 DEF ServerHangsUp, ServerEnds, Promise!HangUp
  <2> QED BY <2>1 DEF Promise!Next
<1>13. CASE ServerFinishes
  BY <1>13, Stutters DEF ServerFinishes, ServerEnds
<1>14. ASSUME NEW u \in Users,
              Kill(u) \/ KillWhileAcknowledging(u) \/ AbortOnStatusOk(u)
       PROVE  UNCHANGED Promise!vars
  BY <1>14, Stutters
     DEF Kill, KillWhileAcknowledging, AbortOnStatusOk, Relaunch, serverVars
<1> QED BY <1>1, <1>2, <1>3, <1>4, <1>5, <1>6, <1>7, <1>8, <1>9, <1>10, <1>11,
           <1>12, <1>13, <1>14
        DEF Next, ClientStep, StreamStep, ServerStep, ProcessStep

\* The initial states are those of WriteQueue.
THEOREM InitImplements == Init => Promise!Init
<1> SUFFICES ASSUME Init PROVE Promise!Init
  OBVIOUS
<1>1. \A u \in Users : {queue[u][i].op : i \in 1..Len(queue[u])} = {}
  BY DEF Init
<1>2. [u \in Users |-> {queue[u][i].op : i \in 1..Len(queue[u])}]
        = [u \in Users |-> {}]
  BY <1>1
<1> QED BY <1>2 DEF Init, Promise!Init, Promise!Ops, Ops

\* PromiseSpec: whatever networks, streams, tokens, users and kills do, the
\* client keeps a queue of writes for each user and resolves it in order.
THEOREM ClientKeepsPromise == Spec => PromiseSpec
<1>1. Init => Promise!Init
  BY InitImplements
<1>2. (IInv /\ LInv) /\ (IInv /\ LInv)' /\ [Next]_vars
        => [Promise!Next]_Promise!vars
  BY StepsImplement
<1> QED BY <1>1, <1>2, LedgerInvariance, PTL DEF Spec, PromiseSpec, Promise!Spec
=============================================================================
