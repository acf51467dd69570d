------------------------ MODULE WritePipelineProofs ------------------------
(***************************************************************************)
(* Proofs about WritePipeline for all users, bounds and sizes of the       *)
(* pipeline.  The inductive invariant relates the RemoteStore to the       *)
(* mutation queue of the user who is signed in: the pipeline is the front  *)
(* of the queue, as long as it may be, and the stream carries an answer or *)
(* a request for each of its writes, or the handshake.                     *)
(***************************************************************************)
EXTENDS WritePipeline, TLAPS, SequenceTheorems, WellFoundedInduction

-----------------------------------------------------------------------------
(* The inductive invariant *)

\* A mutation queue is ordered by id, and so are its writes.
Ascending(q) ==
  \A i, j \in 1..Len(q) : i < j => q[i].id < q[j].id /\ q[i].op < q[j].op

\* Ids and writes in the queues were handed out before.
QueuesOK ==
  \A u \in Users :
    /\ Ascending(queue[u])
    /\ \A i \in 1..Len(queue[u]) :
         queue[u][i].id < nextBatchId /\ queue[u][i].op <= issued

\* p is the front of q, and can be taken into the pipeline.
IsFront(p, q) ==
  /\ Len(p) <= MaxPendingWrites
  /\ Len(p) <= Len(q)
  /\ \A i \in 1..Len(p) : p[i] = q[i]

\* No more can be taken.
IsFull(p, q) == Len(p) = MaxPendingWrites \/ Len(p) = Len(q)

\* A stream that is started has something to do, or its handshake behind it.
StreamOK(r) ==
  /\ r.handshakeComplete => r.state = "Open"
  /\ IsStarted(r) /\ ~r.handshakeComplete => r.pipeline # <<>>
  /\ r.idle => r.handshakeComplete /\ r.pipeline = <<>>
  /\ \A c \in r.tokens : c <= r.closeCount
  /\ r.closeCount \in r.tokens <=> r.state = "Starting"

\* What the stream carries: the answers that are not read and the requests
\* that are not answered; only an open stream is ended by the server.
Cargo(r) == IF r.state # "Open" THEN <<>>
            ELSE IF r.handshakeComplete THEN OpsOf(r.pipeline)
            ELSE <<Handshake>>

WireOK(r) ==
  /\ r.answers \o r.requests = Cargo(r)
  /\ r.status # "none" => r.state = "Open"

\* What every handler finds, and what holds in the middle of one.
HalfOK(r, q) ==
  /\ r \in RemoteRecords
  /\ IsFront(r.pipeline, q)
  /\ ~r.enabled => r.pipeline = <<>> /\ ~IsStarted(r)
  /\ StreamOK(r)
  /\ WireOK(r)

RemoteOK(r, q) ==
  /\ HalfOK(r, q)
  /\ r.enabled => IsFull(r.pipeline, q)
  /\ r.pipeline # <<>> => IsStarted(r)

IInv == TypeOK /\ QueuesOK /\ RemoteOK(remote, queue[user])
-----------------------------------------------------------------------------
(* The mutation queue *)

Less == {p \in Nat \X Nat : p[1] < p[2]}

LEMMA LessIsWellFounded == IsWellFoundedOn(Less, Nat)
  BY NatLessThanWellFounded DEF OpToRel, Less

\* A bounded set of numbers has a largest element.
LEMMA MaxExists ==
  ASSUME NEW S \in SUBSET Nat, S # {}, NEW b \in Nat, \A s \in S : s <= b
  PROVE  \E m \in S : \A s \in S : s <= m
<1> DEFINE T == {b - s : s \in S}
<1>1. T \subseteq Nat /\ T # {}
  <2>1. \A s \in S : b - s \in Nat
    OBVIOUS
  <2>2. T \subseteq Nat
    BY <2>1
  <2>3. T # {}
    OBVIOUS
  <2> QED BY <2>2, <2>3
<1>2. PICK x \in T : \A y \in T : ~(<<y, x>> \in Less)
  BY LessIsWellFounded, <1>1, WFMin
<1>3. PICK m \in S : x = b - m
  OBVIOUS
<1>4. ASSUME NEW s \in S PROVE s <= m
  <2>1. ~(<<b - s, b - m>> \in Less)
    BY <1>2, <1>3
  <2>2. ~(b - s < b - m)
    BY <2>1, <1>1, <1>3 DEF Less
  <2> QED BY <2>2
<1> QED BY <1>4

\* The next batch id after a change of user is new for every queue.
LEMMA NextBatchIdIsNew ==
  ASSUME TypeOK, QueuesOK
  PROVE  /\ LoadNextBatchIdFromDb \in Nat \ {0}
         /\ \A u \in Users : \A i \in 1..Len(queue[u]) :
              queue[u][i].id < LoadNextBatchIdFromDb
<1> DEFINE ids == UNION {Ids(queue[u]) : u \in Users}
<1>1. \A u \in Users : \A i \in 1..Len(queue[u]) :
        queue[u][i].id \in Nat \ {0} /\ queue[u][i].id \in ids
  <2> SUFFICES ASSUME NEW u \in Users, NEW i \in 1..Len(queue[u])
               PROVE  queue[u][i].id \in Nat \ {0} /\ queue[u][i].id \in ids
    OBVIOUS
  <2>1. queue[u] \in Seq(Batches)
    BY DEF TypeOK
  <2>2. queue[u][i] \in Batches
    BY <2>1
  <2>3. queue[u][i].id \in Ids(queue[u])
    BY DEF Ids
  <2> QED BY <2>2, <2>3 DEF Batches
<1>2. ids \subseteq Nat \ {0} /\ \A s \in ids : s <= nextBatchId
  <2> SUFFICES ASSUME NEW s \in ids
               PROVE  s \in Nat \ {0} /\ s <= nextBatchId
    OBVIOUS
  <2>1. PICK u \in Users : s \in Ids(queue[u])
    OBVIOUS
  <2>2. PICK i \in 1..Len(queue[u]) : s = queue[u][i].id
    BY <2>1 DEF Ids
  <2> QED BY <1>1, <2>2 DEF QueuesOK, TypeOK
<1>3. CASE ids = {}
  <2>1. LoadNextBatchIdFromDb = 1
    BY <1>3 DEF LoadNextBatchIdFromDb
  <2> HIDE DEF ids
  <2> QED BY <1>1, <1>3, <2>1
<1>4. CASE ids # {}
  <2>1. \E m \in ids : \A s \in ids : s <= m
    BY <1>2, <1>4, MaxExists DEF TypeOK
  <2> DEFINE m == CHOOSE m \in ids : \A i \in ids : i <= m
  <2>2. m \in ids /\ \A i \in ids : i <= m
    BY <2>1
  <2>3. LoadNextBatchIdFromDb = 1 + m
    BY <1>4 DEF LoadNextBatchIdFromDb
  <2> HIDE DEF m, ids
  <2> QED BY <1>1, <1>2, <2>2, <2>3
<1> QED BY <1>3, <1>4

LEMMA BatchesInQueue ==
  ASSUME NEW q \in Seq(Batches), NEW i \in 1..Len(q)
  PROVE  q[i] \in Batches /\ q[i].id \in Nat \ {0} /\ q[i].op \in Ops
<1>1. q[i] \in Batches
  OBVIOUS
<1> QED BY <1>1 DEF Batches

\* The batches resolved are the oldest, and the rest of the queue stays.
LEMMA RemoveFirst ==
  ASSUME NEW q \in Seq(Batches), Ascending(q), q # <<>>
  PROVE  RemoveMutationBatch(q, q[1].id) = Tail(q)
<1> DEFINE k == CHOOSE i \in 1..Len(q) : q[i].id = q[1].id
<1>1. 1 \in 1..Len(q) /\ \A i \in 1..Len(q) : q[i].id \in Nat
  BY BatchesInQueue
<1>2. k \in 1..Len(q) /\ q[k].id = q[1].id
  BY <1>1
<1>3. k = 1
  BY <1>1, <1>2 DEF Ascending
<1>4. RemoveMutationBatch(q, q[1].id)
        = [i \in 1..(Len(q) - 1) |-> IF i < 1 THEN q[i] ELSE q[i + 1]]
  BY <1>3 DEF RemoveMutationBatch
<1> DEFINE rest == [i \in 1..(Len(q) - 1) |-> q[i + 1]]
<1>5. RemoveMutationBatch(q, q[1].id) = rest
  BY <1>4
<1>6. /\ rest \in Seq(Batches) /\ Len(rest) = Len(q) - 1
      /\ \A i \in 1..Len(rest) : rest[i] = q[i + 1]
  OBVIOUS
<1>7. /\ Tail(q) \in Seq(Batches) /\ Len(Tail(q)) = Len(q) - 1
      /\ \A i \in 1..Len(Tail(q)) : Tail(q)[i] = q[i + 1]
  BY HeadTailProperties
<1> HIDE DEF rest
<1>8. Tail(q) = rest
  BY <1>6, <1>7, SeqEqual
<1> QED BY <1>5, <1>8

LEMMA TailOfQueue ==
  ASSUME NEW q \in Seq(Batches), Ascending(q), q # <<>>
  PROVE  /\ Tail(q) \in Seq(Batches)
         /\ Len(Tail(q)) = Len(q) - 1
         /\ \A i \in 1..Len(Tail(q)) : Tail(q)[i] = q[i + 1] /\ i + 1 \in 1..Len(q)
         /\ Ascending(Tail(q))
<1>1. /\ Tail(q) \in Seq(Batches)
      /\ Len(Tail(q)) = Len(q) - 1
      /\ \A i \in 1..Len(Tail(q)) : Tail(q)[i] = q[i + 1] /\ i + 1 \in 1..Len(q)
  OBVIOUS
<1>2. Ascending(Tail(q))
  BY <1>1 DEF Ascending
<1> QED BY <1>1, <1>2

LEMMA AppendToQueue ==
  ASSUME NEW q \in Seq(Batches), Ascending(q), NEW b \in Batches,
         \A i \in 1..Len(q) : q[i].id < b.id /\ q[i].op < b.op
  PROVE  /\ Append(q, b) \in Seq(Batches)
         /\ Len(Append(q, b)) = Len(q) + 1
         /\ \A i \in 1..(Len(q) + 1) :
              Append(q, b)[i] = IF i <= Len(q) THEN q[i] ELSE b
         /\ Ascending(Append(q, b))
<1>1. /\ Append(q, b) \in Seq(Batches)
      /\ Len(Append(q, b)) = Len(q) + 1
      /\ \A i \in 1..(Len(q) + 1) :
           Append(q, b)[i] = IF i <= Len(q) THEN q[i] ELSE b
  OBVIOUS
<1>2. Ascending(Append(q, b))
  BY <1>1 DEF Ascending
<1> QED BY <1>1, <1>2

\* The place after the last id of a front is its length.
LEMMA UptoIsLength ==
  ASSUME NEW q \in Seq(Batches), Ascending(q), NEW n \in 0..Len(q)
  PROVE  Upto(q, IF n = 0 THEN kBatchIdUnknown ELSE q[n].id) = n
<1> DEFINE last == IF n = 0 THEN kBatchIdUnknown ELSE q[n].id
           P(k) == \A i \in 1..Len(q) : (q[i].id <= last) <=> (i <= k)
<1>1. \A i \in 1..Len(q) : q[i].id \in Nat
  BY BatchesInQueue
<1>2. P(n)
  BY <1>1 DEF Ascending, kBatchIdUnknown
<1>3. ASSUME NEW k \in 0..Len(q), P(k) PROVE k = n
  <2>1. CASE k < n
    BY <1>2, <1>3, <2>1
  <2>2. CASE n < k
    BY <1>2, <1>3, <2>2
  <2> QED BY <2>1, <2>2
<1> QED BY <1>2, <1>3 DEF Upto
-----------------------------------------------------------------------------
(* RemoteStore *)

LEMMA OpsOfBatches ==
  ASSUME NEW q \in Seq(Batches)
  PROVE  /\ OpsOf(q) \in Seq(Messages)
         /\ Len(OpsOf(q)) = Len(q)
         /\ \A i \in 1..Len(q) : OpsOf(q)[i] = q[i].op
<1>1. \A i \in 1..Len(q) : q[i].op \in Messages
  BY BatchesInQueue DEF Messages
<1> QED BY <1>1 DEF OpsOf

LEMMA ConcatElements ==
  ASSUME NEW S, NEW s \in Seq(S), NEW t \in Seq(S)
  PROVE  /\ Len(s) \in Nat /\ Len(t) \in Nat
         /\ s \o t \in Seq(S) /\ Len(s \o t) = Len(s) + Len(t)
         /\ \A i \in 1..(Len(s) + Len(t)) :
              \/ i <= Len(s) /\ i \in 1..Len(s) /\ (s \o t)[i] = s[i]
              \/ /\ i > Len(s) /\ i - Len(s) \in 1..Len(t)
                 /\ (s \o t)[i] = t[i - Len(s)]
<1> DEFINE c == s \o t
           n == Len(s)
           m == Len(t)
<1>1. n \in Nat /\ m \in Nat
  OBVIOUS
<1>2. /\ c \in Seq(S) /\ Len(c) = n + m
      /\ \A i \in 1..(n + m) : c[i] = IF i <= n THEN s[i] ELSE t[i - n]
  BY ConcatProperties
<1> HIDE DEF c, n, m
<1>3. \A i \in 1..(n + m) :
        \/ i <= n /\ i \in 1..n /\ c[i] = s[i]
        \/ i > n /\ i - n \in 1..m /\ c[i] = t[i - n]
  <2> SUFFICES ASSUME NEW i \in 1..(n + m)
               PROVE  \/ i <= n /\ i \in 1..n /\ c[i] = s[i]
                      \/ i > n /\ i - n \in 1..m /\ c[i] = t[i - n]
    OBVIOUS
  <2>1. c[i] = IF i <= n THEN s[i] ELSE t[i - n]
    BY <1>2
  <2>2. i <= n => i \in 1..n
    BY <1>1
  <2>3. ~(i <= n) => i > n /\ i - n \in 1..m
    BY <1>1
  <2> QED BY <2>1, <2>2, <2>3
<1> QED BY <1>1, <1>2, <1>3 DEF c, n, m

LEMMA OpsOfConcat ==
  ASSUME NEW p \in Seq(Batches), NEW b \in Seq(Batches)
  PROVE  OpsOf(p \o b) = OpsOf(p) \o OpsOf(b)
<1> DEFINE l == OpsOf(p \o b)
           r == OpsOf(p) \o OpsOf(b)
<1>1. /\ p \o b \in Seq(Batches) /\ Len(p \o b) = Len(p) + Len(b)
      /\ \A i \in 1..(Len(p) + Len(b)) :
           \/ i \in 1..Len(p) /\ (p \o b)[i] = p[i] /\ i <= Len(p)
           \/ /\ i - Len(p) \in 1..Len(b) /\ (p \o b)[i] = b[i - Len(p)]
              /\ i > Len(p)
  BY ConcatElements
<1>2. /\ OpsOf(p) \in Seq(Messages) /\ Len(OpsOf(p)) = Len(p)
      /\ \A i \in 1..Len(p) : OpsOf(p)[i] = p[i].op
  BY OpsOfBatches
<1>3. /\ OpsOf(b) \in Seq(Messages) /\ Len(OpsOf(b)) = Len(b)
      /\ \A i \in 1..Len(b) : OpsOf(b)[i] = b[i].op
  BY OpsOfBatches
<1>4. /\ l \in Seq(Messages) /\ Len(l) = Len(p) + Len(b)
      /\ \A i \in 1..(Len(p) + Len(b)) : l[i] = (p \o b)[i].op
  BY <1>1, OpsOfBatches
<1>5. /\ r \in Seq(Messages) /\ Len(r) = Len(p) + Len(b)
      /\ Len(p) \in Nat /\ Len(b) \in Nat
      /\ \A i \in 1..(Len(p) + Len(b)) :
           \/ i <= Len(p) /\ r[i] = OpsOf(p)[i]
           \/ i > Len(p) /\ r[i] = OpsOf(b)[i - Len(p)]
  <2> HIDE DEF r
  <2> DEFINE x == OpsOf(p)
             y == OpsOf(b)
  <2>1. /\ Len(p) \in Nat /\ Len(b) \in Nat
        /\ x \o y \in Seq(Messages) /\ Len(x \o y) = Len(p) + Len(b)
        /\ \A i \in 1..(Len(p) + Len(b)) :
              \/ i <= Len(p) /\ i \in 1..Len(p) /\ (x \o y)[i] = x[i]
              \/ /\ i > Len(p) /\ i - Len(p) \in 1..Len(b)
                 /\ (x \o y)[i] = y[i - Len(p)]
    <3> HIDE DEF x, y
    <3>1. x \in Seq(Messages) /\ y \in Seq(Messages)
      BY <1>2, <1>3 DEF x, y
    <3>2. Len(x) = Len(p) /\ Len(y) = Len(b)
      BY <1>2, <1>3 DEF x, y
    <3>3. /\ Len(x) \in Nat /\ Len(y) \in Nat
          /\ x \o y \in Seq(Messages) /\ Len(x \o y) = Len(x) + Len(y)
          /\ \A i \in 1..(Len(x) + Len(y)) :
               \/ i <= Len(x) /\ i \in 1..Len(x) /\ (x \o y)[i] = x[i]
               \/ /\ i > Len(x) /\ i - Len(x) \in 1..Len(y)
                  /\ (x \o y)[i] = y[i - Len(x)]
      BY <3>1, ConcatElements
    <3> QED BY <3>2, <3>3
  <2>2. r = x \o y
    BY DEF r
  <2> HIDE DEF x, y
  <2>3. \A i \in 1..(Len(p) + Len(b)) :
           \/ i <= Len(p) /\ r[i] = x[i]
           \/ i > Len(p) /\ r[i] = y[i - Len(p)]
    BY <2>1, <2>2
  <2>4. r \in Seq(Messages) /\ Len(r) = Len(p) + Len(b)
    BY <2>1, <2>2
  <2> QED BY <2>1, <2>3, <2>4 DEF x, y
<1> HIDE DEF l, r
<1>6. \A i \in 1..Len(l) : l[i] = r[i]
  <2> SUFFICES ASSUME NEW i \in 1..Len(l) PROVE l[i] = r[i]
    OBVIOUS
  <2>1. i \in 1..(Len(p) + Len(b)) /\ i \in Int /\ Len(p) \in Nat
    BY <1>4, <1>5
  <2>2. l[i] = (p \o b)[i].op
    BY <1>4, <2>1
  <2>3. CASE i <= Len(p)
    <3>1. i \in 1..Len(p) /\ (p \o b)[i] = p[i]
      BY <1>1, <2>1, <2>3
    <3>2. r[i] = OpsOf(p)[i]
      BY <1>5, <2>1, <2>3
    <3> QED BY <1>2, <2>2, <3>1, <3>2
  <2>4. CASE i > Len(p)
    <3>1. i - Len(p) \in 1..Len(b) /\ (p \o b)[i] = b[i - Len(p)]
      BY <1>1, <2>1, <2>4
    <3>2. r[i] = OpsOf(b)[i - Len(p)]
      BY <1>5, <2>1, <2>4
    <3> QED BY <1>3, <2>2, <3>1, <3>2
  <2> QED BY <2>1, <2>3, <2>4
<1>7. Len(l) = Len(r)
  BY <1>4, <1>5
<1> QED BY <1>4, <1>5, <1>6, <1>7, SeqEqual DEF l, r

LEMMA OpsOfTail ==
  ASSUME NEW p \in Seq(Batches), p # <<>>
  PROVE  Tail(OpsOf(p)) = OpsOf(Tail(p)) /\ Head(OpsOf(p)) = Head(p).op
<1>1. /\ Tail(p) \in Seq(Batches) /\ Len(Tail(p)) = Len(p) - 1
      /\ \A i \in 1..Len(Tail(p)) : Tail(p)[i] = p[i + 1]
  BY HeadTailProperties
<1>2. /\ OpsOf(p) \in Seq(Messages) /\ Len(OpsOf(p)) = Len(p)
      /\ \A i \in 1..Len(p) : OpsOf(p)[i] = p[i].op
  BY OpsOfBatches
<1>3. /\ OpsOf(Tail(p)) \in Seq(Messages) /\ Len(OpsOf(Tail(p))) = Len(p) - 1
      /\ \A i \in 1..(Len(p) - 1) : OpsOf(Tail(p))[i] = Tail(p)[i].op
  BY <1>1, OpsOfBatches
<1>4. 1 \in 1..Len(p) /\ OpsOf(p) # <<>>
  BY <1>2
<1>5. /\ Tail(OpsOf(p)) \in Seq(Messages)
      /\ Len(Tail(OpsOf(p))) = Len(p) - 1
      /\ \A i \in 1..(Len(p) - 1) : Tail(OpsOf(p))[i] = OpsOf(p)[i + 1]
  BY <1>2, <1>4, HeadTailProperties
<1>6. \A i \in 1..(Len(p) - 1) : Tail(OpsOf(p))[i] = OpsOf(Tail(p))[i]
  <2>1. \A i \in 1..(Len(p) - 1) : i + 1 \in 1..Len(p)
    BY <1>1
  <2> QED BY <1>1, <1>2, <1>3, <1>5, <2>1
<1>7. Tail(OpsOf(p)) = OpsOf(Tail(p))
  BY <1>3, <1>5, <1>6, SeqEqual
<1>8. Head(OpsOf(p)) = Head(p).op
  BY <1>2, <1>4
<1> QED BY <1>7, <1>8

\* Answering the first request moves it from the requests to the answers.
LEMMA ServeFirst ==
  ASSUME NEW S, NEW a \in Seq(S), NEW o \in Seq(S), o # <<>>
  PROVE  /\ Append(a, Head(o)) \in Seq(S) /\ Tail(o) \in Seq(S)
         /\ Append(a, Head(o)) \o Tail(o) = a \o o
<1>1. Head(o) \in S /\ Tail(o) \in Seq(S)
  BY HeadTailProperties
<1>2. Append(a, Head(o)) = a \o <<Head(o)>> /\ Append(a, Head(o)) \in Seq(S)
  BY <1>1, AppendIsConcat, AppendProperties
<1>3. <<Head(o)>> \in Seq(S)
  BY <1>1
<1>4. (a \o <<Head(o)>>) \o Tail(o) = a \o (<<Head(o)>> \o Tail(o))
  BY <1>1, <1>3, ConcatAssociative
<1>5. <<Head(o)>> \o Tail(o) = o
  <2> DEFINE h == <<Head(o)>>
             c == h \o Tail(o)
  <2>1. h \in Seq(S) /\ Len(h) = 1 /\ h[1] = Head(o)
    BY <1>1
  <2> HIDE DEF h
  <2>2. /\ Len(Tail(o)) = Len(o) - 1
        /\ \A i \in 1..Len(Tail(o)) : Tail(o)[i] = o[i + 1]
    BY HeadTailProperties
  <2>3. /\ c \in Seq(S) /\ Len(c) = 1 + Len(Tail(o))
        /\ \A i \in 1..(1 + Len(Tail(o))) :
             \/ i <= 1 /\ c[i] = h[i]
             \/ i > 1 /\ i - 1 \in 1..Len(Tail(o)) /\ c[i] = Tail(o)[i - 1]
    <3> DEFINE e == Tail(o)
    <3> HIDE DEF e
    <3>1. /\ h \o e \in Seq(S) /\ Len(h \o e) = Len(h) + Len(e)
          /\ \A i \in 1..(Len(h) + Len(e)) :
               \/ i <= Len(h) /\ i \in 1..Len(h) /\ (h \o e)[i] = h[i]
               \/ /\ i > Len(h) /\ i - Len(h) \in 1..Len(e)
                  /\ (h \o e)[i] = e[i - Len(h)]
      BY <1>1, <2>1, ConcatElements DEF e
    <3> QED BY <2>1, <3>1 DEF e
  <2> HIDE DEF c
  <2>4. \A i \in 1..Len(c) : c[i] = o[i]
    <3> SUFFICES ASSUME NEW i \in 1..Len(c) PROVE c[i] = o[i]
      OBVIOUS
    <3>1. CASE i <= 1
      BY <2>1, <2>2, <2>3, <3>1
    <3>2. CASE i > 1
      <4>1. i - 1 \in 1..Len(Tail(o)) /\ c[i] = Tail(o)[i - 1] /\ (i - 1) + 1 = i
        BY <2>2, <2>3, <3>2
      <4> QED BY <2>2, <4>1
    <3> QED BY <2>3, <3>1, <3>2
  <2>5. Len(c) = Len(o)
    BY <2>2, <2>3
  <2> QED BY <2>3, <2>4, <2>5, SeqEqual DEF c, h
<1> QED BY <1>1, <1>2, <1>4, <1>5

\* Reading the first answer takes the first message off the stream.
LEMMA ReadFirst ==
  ASSUME NEW S, NEW a \in Seq(S), NEW o \in Seq(S), a # <<>>
  PROVE  /\ Tail(a) \in Seq(S)
         /\ Tail(a) \o o = Tail(a \o o) /\ Head(a) = Head(a \o o)
         /\ a \o o # <<>>
<1> DEFINE c == a \o o
           d == Tail(a) \o o
<1>1. /\ Tail(a) \in Seq(S) /\ Len(Tail(a)) = Len(a) - 1
      /\ \A i \in 1..Len(Tail(a)) : Tail(a)[i] = a[i + 1]
  BY HeadTailProperties
<1>2. /\ Len(a) \in Nat /\ Len(o) \in Nat
      /\ c \in Seq(S) /\ Len(c) = Len(a) + Len(o)
      /\ \A i \in 1..(Len(a) + Len(o)) :
           \/ i <= Len(a) /\ i \in 1..Len(a) /\ c[i] = a[i]
           \/ /\ i > Len(a) /\ i - Len(a) \in 1..Len(o)
              /\ c[i] = o[i - Len(a)]
  BY ConcatElements
<1> DEFINE k == Len(a) - 1
<1>3. /\ d \in Seq(S) /\ Len(d) = k + Len(o)
      /\ \A i \in 1..(k + Len(o)) :
           \/ i <= k /\ i \in 1..k /\ d[i] = Tail(a)[i]
           \/ i > k /\ i - k \in 1..Len(o) /\ d[i] = o[i - k]
  <2> HIDE DEF k
  <2> DEFINE e == Tail(a)
  <2>1. Len(e) = k /\ e \in Seq(S)
    BY <1>1 DEF k
  <2> HIDE DEF e
  <2>2. /\ e \o o \in Seq(S) /\ Len(e \o o) = Len(e) + Len(o)
        /\ \A i \in 1..(Len(e) + Len(o)) :
             \/ i <= Len(e) /\ i \in 1..Len(e) /\ (e \o o)[i] = e[i]
             \/ /\ i > Len(e) /\ i - Len(e) \in 1..Len(o)
                /\ (e \o o)[i] = o[i - Len(e)]
    BY <2>1, ConcatElements
  <2> QED BY <2>1, <2>2 DEF e
<1> HIDE DEF c, d
<1>4. Len(a) \in Nat \ {0} /\ Len(o) \in Nat
  BY EmptySeq
<1>5. c # <<>> /\ c[1] = a[1]
  BY <1>2, <1>4
<1>6. /\ Tail(c) \in Seq(S) /\ Len(Tail(c)) = Len(c) - 1
      /\ \A i \in 1..Len(Tail(c)) : Tail(c)[i] = c[i + 1]
  BY <1>2, <1>5, HeadTailProperties
<1>7. \A i \in 1..Len(d) : d[i] = Tail(c)[i]
  <2> SUFFICES ASSUME NEW i \in 1..Len(d) PROVE d[i] = Tail(c)[i]
    OBVIOUS
  <2>1. /\ i \in 1..Len(Tail(c)) /\ i + 1 \in 1..(Len(a) + Len(o))
        /\ i \in 1..(k + Len(o))
    BY <1>1, <1>2, <1>3, <1>4, <1>6
  <2>2. Tail(c)[i] = c[i + 1]
    BY <1>6, <2>1
  <2>3. CASE i <= k
    <3>1. i + 1 <= Len(a) /\ ~(i > k) /\ i \in 1..Len(Tail(a))
      BY <1>1, <1>4, <2>1, <2>3
    <3>2. ~(i + 1 > Len(a))
      BY <1>4, <2>1, <3>1
    <3>3. c[i + 1] = a[i + 1]
      BY <1>2, <2>1, <3>2
    <3>4. d[i] = Tail(a)[i]
      BY <1>3, <2>1, <3>1
    <3> QED BY <1>1, <2>2, <3>1, <3>3, <3>4
  <2>4. CASE i > k
    <3>1. ~(i + 1 <= Len(a)) /\ ~(i <= k) /\ (i + 1) - Len(a) = i - k
      BY <1>4, <2>1, <2>4
    <3>2. c[i + 1] = o[(i + 1) - Len(a)]
      BY <1>2, <2>1, <3>1
    <3>3. d[i] = o[i - k]
      BY <1>3, <2>1, <3>1
    <3> QED BY <2>2, <3>1, <3>2, <3>3
  <2> QED BY <1>4, <2>1, <2>3, <2>4
<1>8. Len(d) = Len(Tail(c))
  BY <1>1, <1>2, <1>3, <1>4, <1>6
<1>9. d = Tail(c)
  BY <1>3, <1>6, <1>7, <1>8, SeqEqual
<1>10. Head(a) = Head(c)
  BY <1>5
<1> QED BY <1>1, <1>5, <1>9, <1>10 DEF c, d

LEMMA CutFromQueue ==
  ASSUME NEW q \in Seq(Batches), NEW n \in 0..Len(q), NEW t \in n..Len(q)
  PROVE  /\ SubSeq(q, n + 1, t) \in Seq(Batches)
         /\ Len(SubSeq(q, n + 1, t)) = t - n
         /\ \A i \in 1..(t - n) : SubSeq(q, n + 1, t)[i] = q[n + i]
<1> DEFINE m == n + 1
<1>1. m \in Int /\ t \in Int /\ \A i \in m..t : q[i] \in Batches
  OBVIOUS
<1> HIDE DEF m
<1>2. /\ SubSeq(q, m, t) \in Seq(Batches)
      /\ Len(SubSeq(q, m, t)) = IF m <= t THEN t - m + 1 ELSE 0
      /\ \A i \in 1..(t - m + 1) : SubSeq(q, m, t)[i] = q[m + i - 1]
  BY <1>1, SubSeqProperties
<1>3. \A i \in 1..(t - n) : i \in 1..(t - m + 1) /\ m + i - 1 = n + i
  BY DEF m
<1>4. (IF m <= t THEN t - m + 1 ELSE 0) = t - n
  BY DEF m
<1>5. \A i \in 1..(t - n) : SubSeq(q, m, t)[i] = q[n + i]
  BY <1>2, <1>3
<1>6. SubSeq(q, m, t) \in Seq(Batches) /\ Len(SubSeq(q, m, t)) = t - n
  BY <1>2, <1>4
<1> QED BY <1>5, <1>6 DEF m

\* The pipeline and the batches that are taken fill it from the queue's front.
LEMMA NextBatchesAre ==
  ASSUME NEW r \in RemoteRecords, NEW q \in Seq(Batches), Ascending(q),
         IsFront(r.pipeline, q)
  PROVE  LET b == NextBatches(r, q)
             p == r.pipeline \o b
         IN  /\ b \in Seq(Batches) /\ p \in Seq(Batches)
             /\ Len(p) = Len(r.pipeline) + Len(b)
             /\ \A i \in 1..Len(b) : b[i] = p[Len(r.pipeline) + i]
             /\ \A i \in 1..Len(r.pipeline) : p[i] = r.pipeline[i]
             /\ IsFront(p, q)
             /\ r.enabled => IsFull(p, q)
             /\ ~r.enabled => b = <<>>
<1> DEFINE b == NextBatches(r, q)
           p == r.pipeline \o b
           n == Len(r.pipeline)
           room == n + MaxPendingWrites - n
           top == IF room < Len(q) THEN room ELSE Len(q)
<1> USE MaxPendingWritesIsPositive
<1>1. r.pipeline \in Seq(Batches) /\ n \in 0..Len(q) /\ Len(q) \in Nat
  BY DEF RemoteRecords, IsFront
<1>2. Upto(q, IF r.pipeline = <<>> THEN kBatchIdUnknown
              ELSE r.pipeline[Len(r.pipeline)].id) = n
  <2>1. r.pipeline = <<>> <=> n = 0
    BY <1>1
  <2>2. n # 0 => r.pipeline[n] = q[n]
    BY <1>1 DEF IsFront
  <2> QED BY <1>1, <2>1, <2>2, UptoIsLength
<1>3. r.enabled => b = SubSeq(q, n + 1, top)
  BY <1>2 DEF NextBatches
<1>4. ~r.enabled => b = <<>>
  BY DEF NextBatches
<1>5. room = MaxPendingWrites /\ n <= top /\ top <= Len(q) /\ top \in Nat
  BY <1>1 DEF IsFront
<1>6. r.enabled => /\ b \in Seq(Batches)
                   /\ Len(b) = top - n
                   /\ \A i \in 1..(top - n) : b[i] = q[n + i]
  <2>1. top \in n..Len(q)
    BY <1>1, <1>5
  <2> HIDE DEF top, b, n
  <2> QED BY <1>1, <1>3, <2>1, CutFromQueue
<1>7. b \in Seq(Batches)
  <2>1. r.enabled => b \in Seq(Batches)
    BY <1>6
  <2>2. ~r.enabled => b \in Seq(Batches)
    BY <1>4, EmptySeq
  <2> QED BY <2>1, <2>2
<1>8. /\ p \in Seq(Batches) /\ Len(p) = n + Len(b)
      /\ \A i \in 1..(n + Len(b)) :
           p[i] = IF i <= n THEN r.pipeline[i] ELSE b[i - n]
  BY <1>1, <1>7, ConcatProperties
<1> HIDE DEF p, b
<1>9. CASE r.enabled
  <2> HIDE DEF top, room
  <2>1. Len(p) = top
    BY <1>1, <1>5, <1>6, <1>8, <1>9
  <2>2. \A i \in 1..Len(p) : p[i] = q[i]
    <3> SUFFICES ASSUME NEW i \in 1..Len(p) PROVE p[i] = q[i]
      OBVIOUS
    <3>1. CASE i <= n
      BY <1>1, <1>8, <2>1, <1>5, <3>1 DEF IsFront
    <3>2. CASE i > n
      <4> HIDE DEF n
      <4>1. p[i] = b[i - n] /\ i - n \in 1..(top - n)
        BY <1>1, <1>5, <1>8, <2>1, <3>2
      <4>2. b[i - n] = q[n + (i - n)]
        BY <1>6, <1>9, <4>1
      <4>3. n + (i - n) = i
        BY <1>1, <2>1, <1>5
      <4> QED BY <4>1, <4>2, <4>3
    <3> QED BY <1>1, <3>1, <3>2, <2>1, <1>5
  <2>3. top <= MaxPendingWrites /\ (top = MaxPendingWrites \/ top = Len(q))
    BY <1>1, <1>5 DEF top
  <2> QED BY <1>1, <1>5, <1>7, <1>8, <1>9, <2>1, <2>2, <2>3
          DEF IsFront, IsFull, b, p
<1>10. CASE ~r.enabled
  <2>1. b = <<>> /\ Len(p) = n
    BY <1>1, <1>4, <1>8, <1>10
  <2> QED BY <1>1, <1>7, <1>8, <1>10, <2>1 DEF IsFront, b, p
<1> QED BY <1>9, <1>10
LEMMA StartFields ==
  ASSUME NEW r \in RemoteRecords
  PROVE  LET s == StartIfNeeded(r)
         IN  /\ s \in RemoteRecords
             /\ s.enabled = r.enabled /\ s.pipeline = r.pipeline
             /\ s.handshakeComplete = r.handshakeComplete /\ s.idle = r.idle
             /\ s.closeCount = r.closeCount /\ s.status = r.status
             /\ s.requests = r.requests /\ s.answers = r.answers
             /\ ~ShouldStartWriteStream(r) => s = r
             /\ ShouldStartWriteStream(r) =>
                  \/ s.state = "Backoff" /\ s.tokens = r.tokens
                  \/ /\ s.state = "Starting"
                     /\ s.tokens = r.tokens \union {r.closeCount}
<1>1. CASE ~ShouldStartWriteStream(r)
  BY <1>1 DEF StartIfNeeded
<1>2. CASE ShouldStartWriteStream(r) /\ r.state = "Error"
  <2>1. StartIfNeeded(r) = [r EXCEPT !.state = "Backoff"]
    BY <1>2 DEF StartIfNeeded, StartStream
  <2> DEFINE s == [r EXCEPT !.state = "Backoff"]
  <2>2. /\ s \in RemoteRecords /\ s.state = "Backoff" /\ s.tokens = r.tokens
        /\ s.enabled = r.enabled /\ s.pipeline = r.pipeline
        /\ s.handshakeComplete = r.handshakeComplete /\ s.idle = r.idle
        /\ s.closeCount = r.closeCount /\ s.status = r.status
        /\ s.requests = r.requests /\ s.answers = r.answers
    BY DEF RemoteRecords
  <2> QED BY <1>2, <2>1, <2>2
<1>3. CASE ShouldStartWriteStream(r) /\ r.state # "Error"
  <2>1. StartIfNeeded(r) = [r EXCEPT !.state = "Starting",
                                     !.tokens = @ \union {r.closeCount}]
    BY <1>3 DEF StartIfNeeded, StartStream
  <2> DEFINE s == [r EXCEPT !.state = "Starting",
                            !.tokens = @ \union {r.closeCount}]
  <2>2. /\ s \in RemoteRecords
        /\ s.state = "Starting" /\ s.tokens = r.tokens \union {r.closeCount}
        /\ s.enabled = r.enabled /\ s.pipeline = r.pipeline
        /\ s.handshakeComplete = r.handshakeComplete /\ s.idle = r.idle
        /\ s.closeCount = r.closeCount /\ s.status = r.status
        /\ s.requests = r.requests /\ s.answers = r.answers
    BY DEF RemoteRecords
  <2> QED BY <1>3, <2>1, <2>2
<1> QED BY <1>1, <1>2, <1>3

\* A stream that has something to do is started.
LEMMA StartKeeps ==
  ASSUME NEW r, NEW q, HalfOK(r, q)
  PROVE  LET s == StartIfNeeded(r)
         IN  /\ HalfOK(s, q)
             /\ s.pipeline # <<>> => IsStarted(s)
             /\ s.enabled = r.enabled /\ s.pipeline = r.pipeline
<1> DEFINE s == StartIfNeeded(r)
<1>1. r \in RemoteRecords
  BY DEF HalfOK
<1>2. CASE ~ShouldStartWriteStream(r)
  <2>1. s = r
    BY <1>2 DEF StartIfNeeded
  <2> QED BY <1>2, <2>1 DEF HalfOK, ShouldStartWriteStream
<1>3. CASE ShouldStartWriteStream(r)
  <2>1. /\ s \in RemoteRecords
        /\ s.enabled = r.enabled /\ s.pipeline = r.pipeline
        /\ s.handshakeComplete = r.handshakeComplete /\ s.idle = r.idle
        /\ s.closeCount = r.closeCount /\ s.status = r.status
        /\ s.requests = r.requests /\ s.answers = r.answers
        /\ \/ s.state = "Backoff" /\ s.tokens = r.tokens
           \/ s.state = "Starting" /\ s.tokens = r.tokens \union {r.closeCount}
    BY <1>1, <1>3, StartFields
  <2> HIDE DEF s
  <2>2. r.enabled /\ ~IsStarted(r) /\ r.pipeline # <<>>
    BY <1>3 DEF ShouldStartWriteStream
  <2>3. r.state # "Open" /\ ~r.handshakeComplete /\ IsStarted(s)
    BY <2>1, <2>2 DEF IsStarted, HalfOK, StreamOK
  <2>4. StreamOK(s)
    <3>1. ~s.handshakeComplete /\ ~s.idle /\ s.pipeline # <<>>
      BY <2>1, <2>2, <2>3 DEF HalfOK, StreamOK
    <3>2. \A c \in s.tokens : c <= s.closeCount
      BY <1>1, <2>1 DEF HalfOK, StreamOK, RemoteRecords
    <3>3. s.closeCount \in s.tokens <=> s.state = "Starting"
      <4>1. CASE s.state = "Backoff" /\ s.tokens = r.tokens
        BY <2>1, <2>2, <4>1 DEF HalfOK, StreamOK, IsStarted
      <4>2. CASE s.state = "Starting" /\ s.tokens = r.tokens \union {r.closeCount}
        BY <2>1, <4>2
      <4> QED BY <2>1, <4>1, <4>2
    <3> QED BY <3>1, <3>2, <3>3 DEF StreamOK
  <2>5. WireOK(s)
    <3>1. s.state # "Open"
      BY <2>1
    <3> QED BY <2>1, <2>3, <3>1 DEF HalfOK, WireOK, Cargo
  <2> QED BY <2>1, <2>2, <2>3, <2>4, <2>5 DEF HalfOK, s
<1> QED BY <1>2, <1>3

\* A refill makes up for whatever the pipeline lacked.
LEMMA FillKeeps ==
  ASSUME NEW r, NEW q \in Seq(Batches), Ascending(q), HalfOK(r, q)
  PROVE  /\ RemoteOK(FillWritePipeline(r, q), q)
         /\ FillWritePipeline(r, q).enabled = r.enabled
<1> DEFINE b == NextBatches(r, q)
           p == r.pipeline \o b
           sent == Established(r) /\ b # <<>>
           idles == /\ r.enabled
                    /\ r.pipeline = <<>> /\ b = <<>>
                    /\ r.state = "Open"
           x == [r EXCEPT !.pipeline = p,
                          !.requests = IF sent THEN @ \o OpsOf(b) ELSE @,
                          !.idle = ~sent /\ (@ \/ idles)]
<1>1. r \in RemoteRecords /\ IsFront(r.pipeline, q) /\ r.pipeline \in Seq(Batches)
  BY DEF HalfOK, RemoteRecords
<1>2. /\ b \in Seq(Batches) /\ p \in Seq(Batches)
      /\ Len(p) = Len(r.pipeline) + Len(b)
      /\ \A i \in 1..Len(b) : b[i] = p[Len(r.pipeline) + i]
      /\ \A i \in 1..Len(r.pipeline) : p[i] = r.pipeline[i]
      /\ IsFront(p, q)
      /\ r.enabled => IsFull(p, q)
      /\ ~r.enabled => b = <<>>
  BY <1>1, NextBatchesAre
<1>3. FillWritePipeline(r, q) = StartIfNeeded(x)
  BY DEF FillWritePipeline
<1> HIDE DEF b, p
<1>4. OpsOf(b) \in Seq(Messages) /\ OpsOf(p) = OpsOf(r.pipeline) \o OpsOf(b)
  <2>1. OpsOf(r.pipeline \o b) = OpsOf(r.pipeline) \o OpsOf(b)
    BY <1>1, <1>2, OpsOfConcat
  <2> QED BY <1>2, <2>1, OpsOfBatches DEF p
<1> DEFINE out == IF sent THEN r.requests \o OpsOf(b) ELSE r.requests
<1>7. r.requests \in Seq(Messages) /\ r.answers \in Seq(Messages)
  BY <1>1 DEF RemoteRecords
<1>8. out \in Seq(Messages)
  <2>1. r.requests \o OpsOf(b) \in Seq(Messages)
    BY <1>4, <1>7, ConcatProperties
  <2> QED BY <1>7, <2>1
<1>9. /\ x \in RemoteRecords
      /\ x.pipeline = p /\ x.requests = out
      /\ x.idle = (~sent /\ (r.idle \/ idles))
      /\ x.enabled = r.enabled /\ x.state = r.state
      /\ x.handshakeComplete = r.handshakeComplete
      /\ x.closeCount = r.closeCount /\ x.tokens = r.tokens
      /\ x.answers = r.answers /\ x.status = r.status
  <2>1. (~sent /\ (r.idle \/ idles)) \in BOOLEAN
    OBVIOUS
  <2>2. x = [r EXCEPT !.pipeline = p, !.requests = out,
                      !.idle = (~sent /\ (r.idle \/ idles))]
    BY <1>1 DEF RemoteRecords
  <2> HIDE DEF x, out, sent, idles
  <2> QED BY <1>1, <1>2, <1>8, <2>1, <2>2 DEF RemoteRecords
<1> HIDE DEF x, out
<1>10. StreamOK(x)
  <2>1. r.pipeline # <<>> => p # <<>>
    BY <1>1, <1>2
  <2>2. r.pipeline = <<>> /\ b = <<>> => p = <<>>
    BY <1>2
  <2>3. x.idle => x.handshakeComplete /\ p = <<>>
    BY <1>9, <2>2 DEF HalfOK, StreamOK, IsStarted, Established
  <2> QED BY <1>9, <2>1, <2>3 DEF HalfOK, StreamOK, IsStarted
<1>11. WireOK(x)
  <2>1. /\ r.answers \o r.requests = Cargo(r)
        /\ r.status # "none" => r.state = "Open"
    BY DEF HalfOK, WireOK
  <2>2. CASE r.state # "Open" \/ ~r.handshakeComplete
    <3>1. ~sent
      BY <2>2 DEF Established
    <3>2. x.requests = r.requests
      BY <1>9, <3>1 DEF out
    <3> QED BY <1>9, <2>1, <2>2, <3>2 DEF WireOK, Cargo
  <2>3. CASE Established(r) /\ b = <<>>
    <3>1. p = r.pipeline
      <4>1. r.pipeline \o b = r.pipeline
        BY <1>1, <2>3, ConcatEmptySeq
      <4> QED BY <4>1 DEF p
    <3>2. x.requests = r.requests
      BY <1>9, <2>3 DEF out
    <3> QED BY <1>9, <2>1, <3>1, <3>2 DEF WireOK, Cargo
  <2>4. CASE Established(r) /\ b # <<>>
    <3>1. x.requests = r.requests \o OpsOf(b)
      BY <1>9, <2>4 DEF out
    <3>2. Cargo(r) = OpsOf(r.pipeline) /\ Cargo(x) = OpsOf(p)
      BY <1>9, <2>4 DEF Cargo, Established
    <3>3. (r.answers \o r.requests) \o OpsOf(b)
            = r.answers \o (r.requests \o OpsOf(b))
      <4> DEFINE a == r.answers
                 o == r.requests
                 t == OpsOf(b)
      <4>1. a \in Seq(Messages) /\ o \in Seq(Messages) /\ t \in Seq(Messages)
        BY <1>4, <1>7
      <4> HIDE DEF a, o, t
      <4>2. (a \o o) \o t = a \o (o \o t)
        BY <4>1, ConcatAssociative
      <4> QED BY <4>2 DEF a, o, t
    <3>4. x.answers \o x.requests = Cargo(x)
      BY <1>4, <1>9, <2>1, <3>1, <3>2, <3>3
    <3> QED BY <1>9, <2>1, <3>4 DEF WireOK
  <2> QED BY <2>2, <2>3, <2>4 DEF Established
<1>12. HalfOK(x, q)
  <2>1. ~x.enabled => x.pipeline = <<>> /\ ~IsStarted(x)
    BY <1>2, <1>9 DEF HalfOK, IsStarted
  <2> QED BY <1>2, <1>9, <1>10, <1>11, <2>1 DEF HalfOK
<1>13. x.enabled => IsFull(x.pipeline, q)
  BY <1>2, <1>9
<1>14. LET s == StartIfNeeded(x)
       IN  /\ HalfOK(s, q)
           /\ s.pipeline # <<>> => IsStarted(s)
           /\ s.enabled = x.enabled /\ s.pipeline = x.pipeline
  BY <1>12, StartKeeps
<1> QED BY <1>3, <1>9, <1>13, <1>14 DEF RemoteOK

\* NotifyStreamClose may reset the handshake before or after the rest of it.
LEMMA ResetCommutes ==
  ASSUME NEW r \in RemoteRecords
  PROVE  /\ Reset(StartIfNeeded(r)) = StartIfNeeded(Reset(r))
         /\ Reset(r) \in RemoteRecords
<1>1. /\ Reset(r) \in RemoteRecords
      /\ Reset(r).state = r.state /\ Reset(r).enabled = r.enabled
      /\ Reset(r).pipeline = r.pipeline /\ Reset(r).closeCount = r.closeCount
      /\ Reset(r).tokens = r.tokens
  BY DEF Reset, RemoteRecords
<1>2. ShouldStartWriteStream(Reset(r)) = ShouldStartWriteStream(r)
  BY <1>1 DEF ShouldStartWriteStream, IsStarted
<1>3. Reset(StartStream(r)) = StartStream(Reset(r))
  BY <1>1 DEF StartStream, Reset, RemoteRecords
<1> QED BY <1>1, <1>2, <1>3 DEF StartIfNeeded

LEMMA ResetCommutesWithFill ==
  ASSUME NEW r \in RemoteRecords, r.state # "Open", NEW q \in Seq(Batches),
         Ascending(q), IsFront(r.pipeline, q)
  PROVE  Reset(FillWritePipeline(r, q)) = FillWritePipeline(Reset(r), q)
<1> DEFINE b == NextBatches(r, q)
           x == [r EXCEPT !.pipeline = @ \o b, !.idle = r.idle]
           y == [Reset(r) EXCEPT !.pipeline = @ \o b, !.idle = r.idle]
<1>1. /\ Reset(r) \in RemoteRecords
      /\ Reset(r).state = r.state /\ Reset(r).enabled = r.enabled
      /\ Reset(r).pipeline = r.pipeline /\ Reset(r).idle = r.idle
      /\ Reset(r).requests = r.requests /\ r.idle \in BOOLEAN
  BY DEF Reset, RemoteRecords
<1>2. NextBatches(Reset(r), q) = b
  BY <1>1 DEF NextBatches
<1>3. ~Established(r) /\ ~Established(Reset(r))
  BY <1>1 DEF Established
<1> HIDE DEF b
<1>4. FillWritePipeline(r, q) = StartIfNeeded(x)
  <2>1. x = [r EXCEPT !.pipeline = @ \o b, !.requests = r.requests,
                      !.idle = r.idle]
    BY DEF RemoteRecords
  <2> QED BY <1>1, <1>3, <2>1 DEF FillWritePipeline, b
<1>5. FillWritePipeline(Reset(r), q) = StartIfNeeded(y)
  <2>1. y = [Reset(r) EXCEPT !.pipeline = @ \o b, !.requests = r.requests,
                             !.idle = r.idle]
    BY <1>1 DEF RemoteRecords
  <2> QED BY <1>1, <1>2, <1>3, <2>1 DEF FillWritePipeline
<1>6. x \in RemoteRecords
  <2>1. r.pipeline \o b \in Seq(Batches)
    BY NextBatchesAre DEF b
  <2> QED BY <1>1, <2>1 DEF RemoteRecords
<1>7. Reset(x) = y
  BY DEF Reset, RemoteRecords
<1> QED BY <1>4, <1>5, <1>6, <1>7, ResetCommutes
LEMMA Closed ==
  ASSUME NEW r \in RemoteRecords, \A c \in r.tokens : c <= r.closeCount,
         NEW state \in {"Initial", "Error"}, NEW p \in Seq(Batches)
  PROVE  LET x == [Close(r, state) EXCEPT !.pipeline = p]
             y == Reset(x)
         IN  /\ x \in RemoteRecords /\ x.state = state /\ x.pipeline = p
             /\ y \in RemoteRecords /\ ~IsStarted(y)
             /\ y.pipeline = p /\ y.enabled = r.enabled
             /\ StreamOK(y) /\ WireOK(y)
<1> DEFINE x == [Close(r, state) EXCEPT !.pipeline = p]
           y == Reset(x)
<1>1. /\ x \in RemoteRecords /\ x.state = state /\ x.pipeline = p
      /\ x.enabled = r.enabled /\ x.closeCount = r.closeCount + 1
      /\ x.tokens = r.tokens /\ ~x.idle /\ x.status = "none"
      /\ x.requests = <<>> /\ x.answers = <<>>
  <2> DEFINE c == Close(r, state)
  <2>1. /\ c \in RemoteRecords /\ c.state = state
        /\ c.enabled = r.enabled /\ c.closeCount = r.closeCount + 1
        /\ c.tokens = r.tokens /\ c.idle = FALSE /\ c.status = "none"
        /\ c.requests = <<>> /\ c.answers = <<>>
    <3>1. <<>> \in Seq(Messages)
      BY EmptySeq
    <3>2. /\ r.closeCount + 1 \in Nat
          /\ state \in {"Initial", "Starting", "Open", "Error", "Backoff"}
      BY DEF RemoteRecords
    <3>3. c \in RemoteRecords
      BY <3>1, <3>2 DEF Close, RemoteRecords
    <3>4. /\ c.state = state
          /\ c.enabled = r.enabled /\ c.closeCount = r.closeCount + 1
          /\ c.tokens = r.tokens /\ c.idle = FALSE /\ c.status = "none"
          /\ c.requests = <<>> /\ c.answers = <<>>
      BY DEF Close, RemoteRecords
    <3> QED BY <3>3, <3>4
  <2>2. x = [c EXCEPT !.pipeline = p]
    OBVIOUS
  <2> HIDE DEF c, x
  <2> QED BY <2>1, <2>2 DEF RemoteRecords
<1> HIDE DEF x
<1>2. /\ y \in RemoteRecords /\ y.state = state /\ y.pipeline = p
      /\ y.enabled = r.enabled /\ y.closeCount = r.closeCount + 1
      /\ y.tokens = r.tokens /\ ~y.idle /\ y.status = "none"
      /\ y.requests = <<>> /\ y.answers = <<>> /\ ~y.handshakeComplete
  BY <1>1 DEF Reset, RemoteRecords
<1> HIDE DEF y
<1>3. ~IsStarted(y) /\ y.state # "Open"
  BY <1>2 DEF IsStarted
<1>4. StreamOK(y)
  <2>1. r.closeCount \in Nat /\ \A c \in r.tokens : c \in Nat /\ c <= r.closeCount
    BY DEF RemoteRecords
  <2>2. \A c \in y.tokens : c <= y.closeCount /\ c # y.closeCount
    BY <1>2, <2>1
  <2> QED BY <1>2, <1>3, <2>2 DEF StreamOK
<1>5. WireOK(y)
  <2>1. <<>> \in Seq(Messages) /\ <<>> \o <<>> = <<>>
    BY EmptySeq, ConcatEmptySeq
  <2> QED BY <1>2, <1>3, <2>1 DEF WireOK, Cargo
<1> QED BY <1>1, <1>2, <1>3, <1>4, <1>5 DEF x, y

LEMMA CloseKeepsPipeline ==
  ASSUME NEW r \in RemoteRecords, NEW state
  PROVE  Close(r, state) = [Close(r, state) EXCEPT !.pipeline = r.pipeline]
  BY DEF Close, RemoteRecords

LEMMA StopIsQuiet ==
  ASSUME NEW r \in RemoteRecords, StreamOK(r), WireOK(r)
  PROVE  /\ Stop(r) \in RemoteRecords /\ ~IsStarted(Stop(r))
         /\ Stop(r).pipeline = r.pipeline /\ Stop(r).enabled = r.enabled
         /\ StreamOK(Stop(r)) /\ WireOK(Stop(r))
<1>1. CASE ~IsStarted(r)
  BY <1>1 DEF Stop
<1>2. CASE IsStarted(r)
  <2>1. Stop(r) = Reset([Close(r, "Initial") EXCEPT !.pipeline = r.pipeline])
    BY <1>2, CloseKeepsPipeline DEF Stop
  <2>2. r.pipeline \in Seq(Batches)
    BY DEF RemoteRecords
  <2>3. \A c \in r.tokens : c <= r.closeCount
    BY DEF StreamOK
  <2> QED BY <2>1, <2>2, <2>3, Closed
<1> QED BY <1>1, <1>2

LEMMA FrontIsEmpty ==
  ASSUME NEW q \in Seq(Batches)
  PROVE  IsFront(<<>>, q)
  BY MaxPendingWritesIsPositive DEF IsFront

LEMMA DisableKeeps ==
  ASSUME NEW r \in RemoteRecords, StreamOK(r), WireOK(r), NEW q \in Seq(Batches)
  PROVE  /\ RemoteOK(DisableNetworkInternal(r), q)
         /\ ~DisableNetworkInternal(r).enabled
<1> DEFINE x == [r EXCEPT !.enabled = FALSE]
           y == Stop(x)
           d == [y EXCEPT !.pipeline = <<>>]
<1>1. /\ x \in RemoteRecords /\ ~x.enabled /\ x.pipeline = r.pipeline
      /\ x.state = r.state /\ x.handshakeComplete = r.handshakeComplete
      /\ x.idle = r.idle /\ x.closeCount = r.closeCount /\ x.tokens = r.tokens
      /\ x.requests = r.requests /\ x.answers = r.answers
      /\ x.status = r.status
  BY DEF RemoteRecords
<1> HIDE DEF x
<1>2. StreamOK(x) /\ WireOK(x)
  BY <1>1 DEF StreamOK, WireOK, Cargo, IsStarted
<1>3. /\ y \in RemoteRecords /\ ~IsStarted(y) /\ ~y.enabled
      /\ StreamOK(y) /\ WireOK(y)
  BY <1>1, <1>2, StopIsQuiet
<1> HIDE DEF y
<1>4. /\ d \in RemoteRecords /\ ~d.enabled /\ d.pipeline = <<>>
      /\ d.state = y.state /\ d.handshakeComplete = y.handshakeComplete
      /\ d.idle = y.idle /\ d.closeCount = y.closeCount /\ d.tokens = y.tokens
      /\ d.requests = y.requests /\ d.answers = y.answers
      /\ d.status = y.status
  BY <1>3, EmptySeq DEF RemoteRecords
<1> HIDE DEF d
<1>5. ~IsStarted(d) /\ StreamOK(d) /\ WireOK(d)
  BY <1>3, <1>4 DEF StreamOK, WireOK, Cargo, IsStarted
<1>6. DisableNetworkInternal(r) = d
  BY DEF DisableNetworkInternal, d, y, x
<1> QED BY <1>4, <1>5, <1>6, FrontIsEmpty DEF RemoteOK, HalfOK

LEMMA EnableKeeps ==
  ASSUME NEW r, NEW q \in Seq(Batches), Ascending(q), HalfOK(r, q),
         ~IsStarted(r)
  PROVE  RemoteOK(Enable(r, q), q) /\ Enable(r, q).enabled
<1> DEFINE x == [r EXCEPT !.enabled = TRUE]
<1>1. /\ x \in RemoteRecords /\ x.enabled /\ x.pipeline = r.pipeline
      /\ x.state = r.state /\ x.handshakeComplete = r.handshakeComplete
      /\ x.idle = r.idle /\ x.closeCount = r.closeCount /\ x.tokens = r.tokens
      /\ x.requests = r.requests /\ x.answers = r.answers
      /\ x.status = r.status
  BY DEF HalfOK, RemoteRecords
<1> HIDE DEF x
<1>2. HalfOK(x, q)
  BY <1>1 DEF HalfOK, StreamOK, WireOK, Cargo, IsStarted
<1> QED BY <1>1, <1>2, FillKeeps DEF Enable, x

\* After a change of user the pipeline is filled from another queue.
LEMMA RestartKeeps ==
  ASSUME NEW r, NEW q, RemoteOK(r, q),
         NEW new \in Seq(Batches), Ascending(new)
  PROVE  RemoteOK(RestartStreams(r, new), new)
<1>1. CASE r.enabled
  <2>1. LET d == DisableNetworkInternal(r) IN RemoteOK(d, new) /\ ~d.enabled
    BY DisableKeeps DEF RemoteOK, HalfOK
  <2>2. LET d == DisableNetworkInternal(r) IN HalfOK(d, new) /\ ~IsStarted(d)
    BY <2>1 DEF RemoteOK, HalfOK
  <2> QED BY <1>1, <2>2, EnableKeeps DEF RestartStreams
<1>2. CASE ~r.enabled
  BY <1>2, FrontIsEmpty DEF RemoteOK, HalfOK, RestartStreams
<1> QED BY <1>1, <1>2

\* A stream that is closed to be tried again is started anew, whatever was
\* left of the old one.
LEMMA CloseRestarts ==
  ASSUME NEW r \in RemoteRecords, NEW q, r.enabled,
         IsFront(r.pipeline, q), IsFull(r.pipeline, q),
         \A c \in r.tokens : c <= r.closeCount
  PROVE  RemoteOK(CloseAndRetry(r), q)
<1> DEFINE x == [Close(r, "Error") EXCEPT !.pipeline = r.pipeline]
           y == Reset(x)
<1>1. r.pipeline \in Seq(Batches)
  BY DEF RemoteRecords
<1>2. /\ x \in RemoteRecords /\ y \in RemoteRecords /\ ~IsStarted(y)
      /\ y.pipeline = r.pipeline /\ y.enabled = r.enabled
      /\ StreamOK(y) /\ WireOK(y)
  BY <1>1, Closed
<1>3. CloseAndRetry(r) = StartIfNeeded(y)
  BY <1>2, CloseKeepsPipeline, ResetCommutes DEF CloseAndRetry
<1> HIDE DEF x, y
<1>4. HalfOK(y, q)
  BY <1>1, <1>2 DEF HalfOK
<1> QED BY <1>1, <1>2, <1>3, <1>4, StartKeeps DEF RemoteOK

LEMMA RetryKeeps ==
  ASSUME NEW r, NEW q, RemoteOK(r, q), IsStarted(r)
  PROVE  RemoteOK(CloseAndRetry(r), q)
<1>1. /\ r \in RemoteRecords /\ r.enabled
      /\ IsFront(r.pipeline, q) /\ IsFull(r.pipeline, q)
      /\ \A c \in r.tokens : c <= r.closeCount
  BY DEF RemoteOK, HalfOK, StreamOK
<1> QED BY <1>1, CloseRestarts

\* The front of the pipeline and of the queue go together.
LEMMA FrontOfTail ==
  ASSUME NEW p \in Seq(Batches), NEW q \in Seq(Batches), IsFront(p, q), p # <<>>
  PROVE  /\ IsFront(Tail(p), Tail(q)) /\ Tail(p) \in Seq(Batches)
         /\ q # <<>> /\ Head(p) = q[1] /\ Head(q) = q[1]
<1>1. Len(p) \in Nat \ {0} /\ Len(q) \in Nat /\ Len(p) <= Len(q)
  BY EmptySeq DEF IsFront
<1>2. q # <<>>
  BY <1>1
<1>3. /\ Tail(p) \in Seq(Batches) /\ Len(Tail(p)) = Len(p) - 1
      /\ \A i \in 1..Len(Tail(p)) : Tail(p)[i] = p[i + 1]
  BY HeadTailProperties
<1>4. /\ Tail(q) \in Seq(Batches) /\ Len(Tail(q)) = Len(q) - 1
      /\ \A i \in 1..Len(Tail(q)) : Tail(q)[i] = q[i + 1]
  BY <1>2, HeadTailProperties
<1>5. \A i \in 1..Len(Tail(p)) : Tail(p)[i] = Tail(q)[i]
  BY <1>1, <1>3, <1>4 DEF IsFront
<1>6. Len(Tail(p)) <= MaxPendingWrites /\ Len(Tail(p)) <= Len(Tail(q))
  BY <1>1, <1>3, <1>4, MaxPendingWritesIsPositive DEF IsFront
<1>7. Head(p) = q[1] /\ Head(q) = q[1]
  BY <1>1 DEF IsFront
<1> QED BY <1>2, <1>3, <1>5, <1>6, <1>7 DEF IsFront

LEMMA RejectKeeps ==
  ASSUME NEW r, NEW q \in Seq(Batches), Ascending(q), RemoteOK(r, q),
         IsStarted(r), r.pipeline # <<>>
  PROVE  RemoteOK(CloseAndReject(r, Tail(q)), Tail(q))
<1> DEFINE p == Tail(r.pipeline)
           x == [Close(r, "Initial") EXCEPT !.pipeline = p]
           y == Reset(x)
           f == FillWritePipeline(x, Tail(q))
<1>1. r \in RemoteRecords /\ r.pipeline \in Seq(Batches) /\ StreamOK(r) /\ r.enabled
  BY DEF RemoteOK, HalfOK, RemoteRecords
<1>2. p \in Seq(Batches) /\ IsFront(p, Tail(q)) /\ q # <<>>
  BY <1>1, FrontOfTail DEF RemoteOK, HalfOK
<1>3. Tail(q) \in Seq(Batches) /\ Ascending(Tail(q))
  BY <1>2, TailOfQueue
<1>4. /\ x \in RemoteRecords /\ x.state = "Initial" /\ x.pipeline = p
      /\ y \in RemoteRecords /\ ~IsStarted(y)
      /\ y.pipeline = p /\ y.enabled = r.enabled
      /\ StreamOK(y) /\ WireOK(y)
  <2>1. \A c \in r.tokens : c <= r.closeCount
    BY <1>1 DEF StreamOK
  <2> QED BY <1>1, <1>2, <2>1, Closed
<1>5. CloseAndReject(r, Tail(q)) = Reset(StartIfNeeded(f))
  <2>1. [Close(r, "Initial") EXCEPT !.pipeline = Tail(@)] = x
    BY <1>1 DEF Close, RemoteRecords
  <2> QED BY <2>1 DEF CloseAndReject
<1> HIDE DEF x, y
<1>6. HalfOK(y, Tail(q))
  BY <1>1, <1>2, <1>4 DEF HalfOK
<1>7. RemoteOK(FillWritePipeline(y, Tail(q)), Tail(q))
  BY <1>3, <1>6, FillKeeps
<1>8. Reset(f) = FillWritePipeline(y, Tail(q))
  BY <1>2, <1>3, <1>4, ResetCommutesWithFill DEF y
<1>9. f \in RemoteRecords
  <2>1. LET b == NextBatches(x, Tail(q)) IN
          b \in Seq(Batches) /\ x.pipeline \o b \in Seq(Batches)
    BY <1>2, <1>3, <1>4, NextBatchesAre
  <2> DEFINE z == [x EXCEPT !.pipeline = @ \o NextBatches(x, Tail(q)),
                            !.idle = x.idle]
  <2>2. z \in RemoteRecords
    BY <1>4, <2>1 DEF RemoteRecords
  <2>3. f = StartIfNeeded(z)
    <3>1. ~Established(x)
      BY <1>4 DEF Established
    <3>2. z = [x EXCEPT !.pipeline = @ \o NextBatches(x, Tail(q)),
                        !.requests = x.requests, !.idle = x.idle]
      BY <1>4 DEF RemoteRecords
    <3>3. x.idle \in BOOLEAN
      BY <1>4 DEF RemoteRecords
    <3> QED BY <1>4, <3>1, <3>2, <3>3 DEF FillWritePipeline
  <2> QED BY <2>2, <2>3, StartFields
<1> HIDE DEF f
<1>10. CloseAndReject(r, Tail(q)) = StartIfNeeded(Reset(f))
  BY <1>5, <1>9, ResetCommutes
<1>11. ~ShouldStartWriteStream(Reset(f))
  BY <1>7, <1>8 DEF RemoteOK, ShouldStartWriteStream
<1> QED BY <1>7, <1>8, <1>10, <1>11 DEF StartIfNeeded
LEMMA NoCargo ==
  ASSUME NEW r \in RemoteRecords, WireOK(r), r.state # "Open"
  PROVE  r.answers = <<>> /\ r.requests = <<>> /\ r.status = "none"
<1>1. r.answers \in Seq(Messages) /\ r.requests \in Seq(Messages)
  BY DEF RemoteRecords
<1>2. r.answers \o r.requests = <<>>
  BY DEF WireOK, Cargo
<1>3. r.answers = <<>> /\ r.requests = <<>>
  BY <1>1, <1>2, ConcatEqualIffEmpty
<1> QED BY <1>3 DEF WireOK

\* An answer is for the front of the pipeline, the oldest write of the queue.
LEMMA AnswerKeeps ==
  ASSUME NEW r, NEW q \in Seq(Batches), Ascending(q), RemoteOK(r, q),
         r.answers # <<>>, r.handshakeComplete
  PROVE  LET t == [r EXCEPT !.answers = Tail(@), !.pipeline = Tail(@)]
         IN  /\ r.pipeline # <<>> /\ q # <<>>
             /\ Head(r.pipeline) = q[1] /\ Head(r.answers) = q[1].op
             /\ HalfOK(t, Tail(q))
<1> DEFINE t == [r EXCEPT !.answers = Tail(@), !.pipeline = Tail(@)]
<1>1. /\ r \in RemoteRecords /\ r.pipeline \in Seq(Batches) /\ r.state = "Open"
      /\ r.answers \in Seq(Messages) /\ r.requests \in Seq(Messages)
      /\ IsFront(r.pipeline, q) /\ r.enabled
  BY DEF RemoteOK, HalfOK, StreamOK, RemoteRecords, IsStarted
<1>2. /\ Tail(r.answers) \in Seq(Messages)
      /\ Tail(r.answers) \o r.requests = Tail(r.answers \o r.requests)
      /\ Head(r.answers) = Head(r.answers \o r.requests)
      /\ r.answers \o r.requests # <<>>
  BY <1>1, ReadFirst
<1>3. r.answers \o r.requests = OpsOf(r.pipeline)
  BY <1>1 DEF RemoteOK, HalfOK, WireOK, Cargo
<1>4. r.pipeline # <<>>
  BY <1>2, <1>3 DEF OpsOf
<1>5. /\ Tail(OpsOf(r.pipeline)) = OpsOf(Tail(r.pipeline))
      /\ Head(OpsOf(r.pipeline)) = Head(r.pipeline).op
  BY <1>1, <1>4, OpsOfTail
<1>6. /\ IsFront(Tail(r.pipeline), Tail(q)) /\ Tail(r.pipeline) \in Seq(Batches)
      /\ q # <<>> /\ Head(r.pipeline) = q[1]
  BY <1>1, <1>4, FrontOfTail
<1>7. /\ t \in RemoteRecords /\ t.pipeline = Tail(r.pipeline)
      /\ t.answers = Tail(r.answers) /\ t.requests = r.requests
      /\ t.enabled = r.enabled /\ t.state = r.state /\ t.idle = r.idle
      /\ t.handshakeComplete = r.handshakeComplete /\ t.status = r.status
      /\ t.closeCount = r.closeCount /\ t.tokens = r.tokens
  BY <1>1, <1>2, <1>6 DEF RemoteRecords
<1> HIDE DEF t
<1>8. StreamOK(t)
  BY <1>4, <1>7 DEF RemoteOK, HalfOK, StreamOK, IsStarted
<1>9. WireOK(t)
  BY <1>1, <1>2, <1>3, <1>5, <1>7 DEF RemoteOK, HalfOK, WireOK, Cargo
<1>10. HalfOK(t, Tail(q))
  BY <1>1, <1>6, <1>7, <1>8, <1>9 DEF HalfOK
<1> QED BY <1>2, <1>3, <1>4, <1>5, <1>6, <1>10 DEF t

LEMMA HandshakeKeeps ==
  ASSUME NEW r, NEW q, RemoteOK(r, q),
         r.answers # <<>>, ~r.handshakeComplete
  PROVE  RemoteOK([r EXCEPT !.handshakeComplete = TRUE,
                            !.answers = Tail(@),
                            !.requests = @ \o OpsOf(r.pipeline),
                            !.idle = @ /\ r.pipeline = <<>>], q)
<1> DEFINE t == [r EXCEPT !.handshakeComplete = TRUE,
                          !.answers = Tail(@),
                          !.requests = @ \o OpsOf(r.pipeline),
                          !.idle = @ /\ r.pipeline = <<>>]
<1>1. /\ r \in RemoteRecords /\ r.pipeline \in Seq(Batches)
      /\ r.answers \in Seq(Messages) /\ r.requests \in Seq(Messages)
      /\ WireOK(r) /\ StreamOK(r)
  BY DEF RemoteOK, HalfOK, RemoteRecords
<1>2. r.state = "Open"
  BY <1>1, NoCargo
<1>3. r.answers \o r.requests = <<Handshake>>
  BY <1>1, <1>2 DEF WireOK, Cargo
<1>4. Tail(r.answers) \in Seq(Messages) /\ Tail(r.answers) \o r.requests = <<>>
  <2>1. /\ Tail(r.answers) \in Seq(Messages)
        /\ Tail(r.answers) \o r.requests = Tail(r.answers \o r.requests)
    BY <1>1, ReadFirst
  <2>2. Tail(<<Handshake>>) = <<>>
    OBVIOUS
  <2> QED BY <1>3, <2>1, <2>2
<1>5. Tail(r.answers) = <<>> /\ r.requests = <<>>
  BY <1>1, <1>4, ConcatEqualIffEmpty
<1>6. /\ OpsOf(r.pipeline) \in Seq(Messages) /\ ~r.idle
      /\ <<>> \o OpsOf(r.pipeline) = OpsOf(r.pipeline)
  BY <1>1, <1>5, OpsOfBatches, ConcatEmptySeq DEF WireOK, StreamOK
<1>7. /\ t \in RemoteRecords /\ t.pipeline = r.pipeline
      /\ t.answers = <<>> /\ t.requests = OpsOf(r.pipeline)
      /\ t.enabled = r.enabled /\ t.state = "Open" /\ t.idle = FALSE
      /\ t.handshakeComplete = TRUE /\ t.status = r.status
      /\ t.closeCount = r.closeCount /\ t.tokens = r.tokens
  <2>1. t = [r EXCEPT !.handshakeComplete = TRUE, !.answers = <<>>,
                      !.requests = OpsOf(r.pipeline), !.idle = FALSE]
    BY <1>1, <1>5, <1>6 DEF RemoteRecords
  <2>2. <<>> \in Seq(Messages)
    BY EmptySeq
  <2> HIDE DEF t
  <2> QED BY <1>1, <1>2, <1>6, <2>1, <2>2 DEF RemoteRecords
<1> HIDE DEF t
<1>8. StreamOK(t)
  BY <1>2, <1>7 DEF RemoteOK, HalfOK, StreamOK, IsStarted
<1>9. WireOK(t)
  BY <1>6, <1>7 DEF WireOK, Cargo
<1>10. RemoteOK(t, q)
  BY <1>2, <1>7, <1>8, <1>9 DEF RemoteOK, HalfOK, IsStarted
<1> QED BY <1>10 DEF t

\* Only credentials for the stream that is starting open it.
LEMMA OpenKeeps ==
  ASSUME NEW r, NEW q, RemoteOK(r, q), r.closeCount \in r.tokens
  PROVE  RemoteOK([r EXCEPT !.tokens = @ \ {r.closeCount}, !.state = "Open",
                            !.requests = <<Handshake>>, !.idle = FALSE], q)
<1> DEFINE t == [r EXCEPT !.tokens = @ \ {r.closeCount}, !.state = "Open",
                          !.requests = <<Handshake>>, !.idle = FALSE]
<1>1. r \in RemoteRecords /\ WireOK(r) /\ StreamOK(r) /\ r.state = "Starting"
  BY DEF RemoteOK, HalfOK, StreamOK
<1>2. r.answers = <<>> /\ r.status = "none"
  BY <1>1, NoCargo
<1>3. <<Handshake>> \in Seq(Messages) /\ <<>> \o <<Handshake>> = <<Handshake>>
  <2>1. Handshake \in Messages
    BY DEF Messages
  <2>2. <<Handshake>> \in Seq(Messages)
    BY <2>1
  <2> QED BY <2>2, ConcatEmptySeq
<1>4. /\ t \in RemoteRecords /\ t.pipeline = r.pipeline
      /\ t.answers = <<>> /\ t.requests = <<Handshake>>
      /\ t.enabled = r.enabled /\ t.state = "Open" /\ t.idle = FALSE
      /\ t.handshakeComplete = r.handshakeComplete /\ t.status = r.status
      /\ t.closeCount = r.closeCount /\ t.tokens = r.tokens \ {r.closeCount}
  BY <1>1, <1>2, <1>3 DEF RemoteRecords
<1> HIDE DEF t
<1>5. ~r.handshakeComplete /\ r.pipeline # <<>> /\ r.enabled
  BY <1>1 DEF RemoteOK, HalfOK, StreamOK, IsStarted
<1>6. StreamOK(t)
  BY <1>1, <1>4, <1>5 DEF StreamOK
<1>7. WireOK(t)
  BY <1>2, <1>3, <1>4, <1>5 DEF WireOK, Cargo
<1>8. RemoteOK(t, q)
  BY <1>4, <1>5, <1>6, <1>7 DEF RemoteOK, HalfOK, IsStarted
<1> QED BY <1>8 DEF t

\* Credentials that are out of date are dropped and leave the rest alone.
LEMMA DropKeeps ==
  ASSUME NEW r, NEW q, RemoteOK(r, q), NEW c, c # r.closeCount
  PROVE  LET t == [r EXCEPT !.tokens = @ \ {c}]
         IN  RemoteOK(t, q) /\ t.state = r.state
<1> DEFINE t == [r EXCEPT !.tokens = @ \ {c}]
<1>1. /\ t \in RemoteRecords /\ t.pipeline = r.pipeline
      /\ t.answers = r.answers /\ t.requests = r.requests
      /\ t.enabled = r.enabled /\ t.state = r.state /\ t.idle = r.idle
      /\ t.handshakeComplete = r.handshakeComplete /\ t.status = r.status
      /\ t.closeCount = r.closeCount /\ t.tokens = r.tokens \ {c}
  BY DEF RemoteOK, HalfOK, RemoteRecords
<1> HIDE DEF t
<1>2. StreamOK(t) /\ WireOK(t)
  BY <1>1 DEF RemoteOK, HalfOK, StreamOK, WireOK, Cargo, IsStarted
<1> QED BY <1>1, <1>2 DEF RemoteOK, HalfOK, IsStarted, t

LEMMA BackoffKeeps ==
  ASSUME NEW r, NEW q, RemoteOK(r, q), r.state = "Backoff"
  PROVE  RemoteOK(StartStream([r EXCEPT !.state = "Initial"]), q)
<1> DEFINE t == [r EXCEPT !.state = "Starting",
                          !.tokens = @ \union {r.closeCount}]
<1>1. r \in RemoteRecords /\ WireOK(r) /\ StreamOK(r) /\ r.enabled
  BY DEF RemoteOK, HalfOK, IsStarted
<1>2. StartStream([r EXCEPT !.state = "Initial"]) = t
  BY <1>1 DEF StartStream, RemoteRecords
<1>3. /\ t \in RemoteRecords /\ t.pipeline = r.pipeline
      /\ t.answers = r.answers /\ t.requests = r.requests
      /\ t.enabled = r.enabled /\ t.state = "Starting" /\ t.idle = r.idle
      /\ t.handshakeComplete = r.handshakeComplete /\ t.status = r.status
      /\ t.closeCount = r.closeCount
      /\ t.tokens = r.tokens \union {r.closeCount}
  BY <1>1 DEF RemoteRecords
<1> HIDE DEF t
<1>4. StreamOK(t)
  <2>1. \A c \in t.tokens : c <= t.closeCount
    BY <1>1, <1>3 DEF StreamOK, RemoteRecords
  <2> QED BY <1>1, <1>3, <2>1 DEF StreamOK, IsStarted
<1>5. WireOK(t)
  BY <1>1, <1>3 DEF WireOK, Cargo
<1> QED BY <1>1, <1>2, <1>3, <1>4, <1>5 DEF RemoteOK, HalfOK, IsStarted

LEMMA IdleKeeps ==
  ASSUME NEW r, NEW q, RemoteOK(r, q), r.idle
  PROVE  RemoteOK(Stop(r), q)
<1>1. r \in RemoteRecords /\ WireOK(r) /\ StreamOK(r) /\ r.pipeline = <<>>
  BY DEF RemoteOK, HalfOK, StreamOK
<1> QED BY <1>1, StopIsQuiet DEF RemoteOK, HalfOK

\* The server's status OK stops a stream that has nothing to write.
LEMMA FinishKeeps ==
  ASSUME NEW r, NEW q, RemoteOK(r, q), ~ShouldStartWriteStream(Stop(r))
  PROVE  RemoteOK(Stop(r), q) /\ r.pipeline = <<>>
<1>1. /\ r \in RemoteRecords /\ WireOK(r) /\ StreamOK(r)
      /\ ~r.enabled => r.pipeline = <<>>
  BY DEF RemoteOK, HalfOK
<1>2. /\ Stop(r) \in RemoteRecords /\ ~IsStarted(Stop(r))
      /\ Stop(r).pipeline = r.pipeline /\ Stop(r).enabled = r.enabled
      /\ StreamOK(Stop(r)) /\ WireOK(Stop(r))
  BY <1>1, StopIsQuiet
<1>3. r.pipeline = <<>>
  BY <1>1, <1>2 DEF ShouldStartWriteStream
<1> QED BY <1>1, <1>2, <1>3 DEF RemoteOK, HalfOK

LEMMA ServeKeeps ==
  ASSUME NEW r, NEW q, RemoteOK(r, q), r.requests # <<>>, r.status = "none"
  PROVE  RemoteOK([r EXCEPT !.requests = Tail(@),
                            !.answers = Append(@, Head(r.requests))], q)
<1> DEFINE t == [r EXCEPT !.requests = Tail(@),
                          !.answers = Append(@, Head(r.requests))]
<1>1. /\ r \in RemoteRecords /\ WireOK(r) /\ StreamOK(r)
      /\ r.answers \in Seq(Messages) /\ r.requests \in Seq(Messages)
  BY DEF RemoteOK, HalfOK, RemoteRecords
<1>2. /\ Append(r.answers, Head(r.requests)) \in Seq(Messages)
      /\ Tail(r.requests) \in Seq(Messages)
      /\ Append(r.answers, Head(r.requests)) \o Tail(r.requests)
           = r.answers \o r.requests
  BY <1>1, ServeFirst
<1>3. /\ t \in RemoteRecords /\ t.pipeline = r.pipeline
      /\ t.answers = Append(r.answers, Head(r.requests))
      /\ t.requests = Tail(r.requests)
      /\ t.enabled = r.enabled /\ t.state = r.state /\ t.idle = r.idle
      /\ t.handshakeComplete = r.handshakeComplete /\ t.status = r.status
      /\ t.closeCount = r.closeCount /\ t.tokens = r.tokens
  BY <1>1, <1>2 DEF RemoteRecords
<1> HIDE DEF t
<1>4. StreamOK(t) /\ WireOK(t)
  BY <1>1, <1>2, <1>3 DEF StreamOK, WireOK, Cargo, IsStarted
<1> QED BY <1>3, <1>4 DEF RemoteOK, HalfOK, IsStarted, t

\* The server may end an open stream at any time.
LEMMA EndKeeps ==
  ASSUME NEW r, NEW q, RemoteOK(r, q), r.state = "Open",
         NEW status \in {"permanent", "ok"}
  PROVE  RemoteOK([r EXCEPT !.status = status], q)
<1> DEFINE t == [r EXCEPT !.status = status]
<1>1. /\ t \in RemoteRecords /\ t.pipeline = r.pipeline
      /\ t.answers = r.answers /\ t.requests = r.requests
      /\ t.enabled = r.enabled /\ t.state = r.state /\ t.idle = r.idle
      /\ t.handshakeComplete = r.handshakeComplete
      /\ t.closeCount = r.closeCount /\ t.tokens = r.tokens
  BY DEF RemoteOK, HalfOK, RemoteRecords
<1> HIDE DEF t
<1>2. StreamOK(t) /\ WireOK(t)
  BY <1>1 DEF RemoteOK, HalfOK, StreamOK, WireOK, Cargo, IsStarted
<1> QED BY <1>1, <1>2 DEF RemoteOK, HalfOK, IsStarted, t

LEMMA FreshIsQuiet ==
  ASSUME NEW q \in Seq(Batches)
  PROVE  HalfOK(FreshRemote, q) /\ ~IsStarted(FreshRemote)
<1>1. <<>> \in Seq(Messages) /\ <<>> \in Seq(Batches) /\ <<>> \o <<>> = <<>>
  BY EmptySeq, ConcatEmptySeq
<1>2. FreshRemote \in RemoteRecords
  BY <1>1 DEF FreshRemote, RemoteRecords
<1>3. StreamOK(FreshRemote) /\ WireOK(FreshRemote) /\ ~IsStarted(FreshRemote)
  BY <1>1 DEF FreshRemote, StreamOK, WireOK, Cargo, IsStarted
<1>4. FreshRemote.pipeline = <<>>
  BY DEF FreshRemote
<1> QED BY <1>2, <1>3, <1>4, FrontIsEmpty DEF HalfOK
-----------------------------------------------------------------------------
(* The invariant is inductive *)

\* IInv holds of a first launch: the queues are empty and no stream has been
\* started.
THEOREM InitIInv == Init => IInv
<1> SUFFICES ASSUME Init PROVE IInv
  OBVIOUS
<1>1. <<>> \in Seq(Batches) /\ Ascending(<<>>) /\ Len(<<>>) = 0
  BY EmptySeq DEF Ascending
<1>2. queue[user] = <<>> /\ user \in Users
  BY DEF Init
<1>3. RemoteOK(remote, queue[user])
  <2> DEFINE r == [FreshRemote EXCEPT !.enabled = TRUE]
  <2>1. /\ r \in RemoteRecords /\ r.pipeline = <<>> /\ r.state = "Initial"
        /\ ~r.handshakeComplete /\ ~r.idle /\ r.tokens = {} /\ r.status = "none"
        /\ r.answers = <<>> /\ r.requests = <<>>
    BY EmptySeq, FreshIsQuiet DEF FreshRemote, RemoteRecords
  <2>2. r = remote
    BY DEF Init
  <2> HIDE DEF r
  <2>3. <<>> \o <<>> = <<>>
    BY <1>1, ConcatEmptySeq
  <2>4. StreamOK(r) /\ WireOK(r) /\ ~IsStarted(r)
    BY <2>1, <2>3 DEF StreamOK, WireOK, Cargo, IsStarted
  <2> QED BY <1>1, <1>2, <2>1, <2>2, <2>4, FrontIsEmpty
          DEF RemoteOK, HalfOK, IsFull
<1>4. TypeOK
  <2>1. remote \in RemoteRecords
    BY <1>3 DEF RemoteOK, HalfOK
  <2>2. /\ issued \in 0..MaxWrites /\ disturbances \in 0..MaxDisturbances
    BY BoundsAreNat DEF Init
  <2> QED BY <1>1, <2>1, <2>2 DEF Init, TypeOK
<1>5. QueuesOK
  BY <1>1 DEF Init, QueuesOK
<1> QED BY <1>3, <1>4, <1>5 DEF IInv

LEMMA QueueIsTyped ==
  ASSUME IInv, NEW u \in Users
  PROVE  queue[u] \in Seq(Batches) /\ Ascending(queue[u])
  BY DEF IInv, TypeOK, QueuesOK

\* What waits is known to have been issued.
LEMMA AbandonIsTyped ==
  ASSUME IInv, Abandon
  PROVE  strays' \in SUBSET [user : Users, op : Ops]
<1>1. strays \in SUBSET [user : Users, op : Ops] /\ user \in Users
  BY DEF IInv, TypeOK
<1>2. \A i \in 1..Len(remote.requests) :
        remote.requests[i] # Handshake => remote.requests[i] \in Ops
  <2>1. remote.requests \in Seq(Messages)
    BY DEF IInv, TypeOK, RemoteRecords
  <2>2. \A i \in 1..Len(remote.requests) : remote.requests[i] \in Messages
    BY <2>1
  <2> QED BY <2>2 DEF Messages
<1> QED BY <1>1, <1>2 DEF Abandon

LEMMA WriteKeeps ==
  ASSUME IInv, WriteMutations
  PROVE  IInv'
<1> DEFINE batch == [id |-> nextBatchId, op |-> issued + 1]
<1>1. /\ user \in Users /\ issued + 1 \in Ops /\ issued \in Nat
      /\ nextBatchId \in Nat \ {0} /\ issued + 1 \in 0..MaxWrites
  BY BoundsAreNat DEF IInv, TypeOK, WriteMutations, Ops
<1>2. batch \in Batches /\ batch.id = nextBatchId /\ batch.op = issued + 1
  BY <1>1 DEF Batches
<1>3. queue[user] \in Seq(Batches) /\ Ascending(queue[user])
  BY <1>1, QueueIsTyped
<1>4. \A i \in 1..Len(queue[user]) :
        queue[user][i].id < batch.id /\ queue[user][i].op < batch.op
  <2>1. \A i \in 1..Len(queue[user]) :
          /\ queue[user][i].id < nextBatchId /\ queue[user][i].op <= issued
          /\ queue[user][i].op \in Nat
    BY <1>1, <1>3, BatchesInQueue DEF IInv, QueuesOK, Ops
  <2> QED BY <1>1, <1>2, <2>1
<1> HIDE DEF batch
<1>5. /\ queue' = [queue EXCEPT ![user] = Append(@, batch)]
      /\ remote' = FillWritePipeline(remote, queue'[user])
      /\ callbacks' = IF \E c \in callbacks[user] : c.id = batch.id
                      THEN callbacks
                      ELSE [callbacks EXCEPT ![user] = @ \union {batch}]
      /\ nextBatchId' = nextBatchId + 1 /\ issued' = issued + 1
      /\ UNCHANGED <<user, told, outcome, serverVars, unread, strays,
                     disturbances>>
  BY DEF WriteMutations, batch
<1> DEFINE q == Append(queue[user], batch)
<1>6. /\ q \in Seq(Batches) /\ Len(q) = Len(queue[user]) + 1
      /\ \A i \in 1..(Len(queue[user]) + 1) :
           q[i] = IF i <= Len(queue[user]) THEN queue[user][i] ELSE batch
      /\ Ascending(q)
  BY <1>2, <1>3, <1>4, AppendToQueue
<1>7. /\ queue'[user] = q /\ user' = user /\ queue' \in [Users -> Seq(Batches)]
      /\ \A u \in Users : u # user => queue'[u] = queue[u]
  BY <1>1, <1>5, <1>6 DEF IInv, TypeOK
<1> HIDE DEF q
<1>8. RemoteOK(remote', queue'[user'])
  <2>1. IsFront(remote.pipeline, q)
    <3>1. IsFront(remote.pipeline, queue[user]) /\ remote.pipeline \in Seq(Batches)
      BY DEF IInv, RemoteOK, HalfOK, RemoteRecords
    <3> QED BY <1>3, <1>6, <3>1 DEF IsFront
  <2>2. HalfOK(remote, q)
    BY <2>1 DEF IInv, RemoteOK, HalfOK
  <2> QED BY <1>5, <1>6, <1>7, <2>2, FillKeeps
<1>9. QueuesOK'
  <2> SUFFICES ASSUME NEW u \in Users
               PROVE  /\ Ascending(queue'[u])
                      /\ \A i \in 1..Len(queue'[u]) :
                           /\ queue'[u][i].id < nextBatchId'
                           /\ queue'[u][i].op <= issued'
    BY DEF QueuesOK
  <2>1. CASE u = user
    <3> SUFFICES ASSUME NEW i \in 1..Len(q)
                 PROVE  q[i].id < nextBatchId + 1 /\ q[i].op <= issued + 1
      BY <1>5, <1>6, <1>7, <2>1
    <3>1. q[i].id \in Nat /\ q[i].op \in Nat
      BY <1>6, BatchesInQueue DEF Ops
    <3>2. CASE i <= Len(queue[user])
      <4>1. q[i] = queue[user][i] /\ i \in 1..Len(queue[user])
        BY <1>3, <1>6, <3>2
      <4>2. queue[user][i].id < nextBatchId /\ queue[user][i].op <= issued
        BY <1>1, <4>1 DEF IInv, QueuesOK
      <4> QED BY <1>1, <3>1, <4>1, <4>2
    <3>3. CASE ~(i <= Len(queue[user]))
      BY <1>1, <1>2, <1>3, <1>6, <3>3
    <3> QED BY <3>2, <3>3
  <2>2. CASE u # user
    <3>1. \A i \in 1..Len(queue[u]) :
            queue[u][i].id \in Nat /\ queue[u][i].op \in Nat
      BY QueueIsTyped, BatchesInQueue DEF Ops
    <3> QED BY <1>1, <1>5, <1>7, <2>2, <3>1 DEF IInv, QueuesOK
  <2> QED BY <2>1, <2>2
<1>10. TypeOK'
  <2>1. callbacks' \in [Users -> SUBSET Batches]
    BY <1>1, <1>2, <1>5 DEF IInv, TypeOK
  <2>2. remote' \in RemoteRecords /\ nextBatchId' \in Nat \ {0}
    BY <1>1, <1>5, <1>8 DEF RemoteOK, HalfOK
  <2> QED BY <1>1, <1>5, <1>7, <2>1, <2>2 DEF IInv, TypeOK, serverVars
<1> QED BY <1>8, <1>9, <1>10 DEF IInv

LEMMA CredentialsKeep ==
  ASSUME IInv, NEW u \in Users, HandleCredentialChange(u)
  PROVE  IInv'
<1>1. /\ disturbances < MaxDisturbances /\ disturbances' = disturbances + 1
      /\ user' = u /\ remote' = RestartStreams(remote, queue[u])
      /\ nextBatchId' = IF u = user THEN nextBatchId ELSE LoadNextBatchIdFromDb
      /\ UNCHANGED <<queue, callbacks, told, outcome, issued, serverVars,
                     unread>>
  BY DEF HandleCredentialChange
<1>2. RemoteOK(remote', queue'[user'])
  BY <1>1, QueueIsTyped, RestartKeeps DEF IInv
<1>3. QueuesOK' /\ nextBatchId' \in Nat \ {0}
  BY <1>1, NextBatchIdIsNew DEF IInv, QueuesOK, TypeOK
<1>4. strays' \in SUBSET [user : Users, op : Ops]
  BY AbandonIsTyped DEF HandleCredentialChange, IInv, TypeOK
<1>5. disturbances' \in 0..MaxDisturbances
  BY <1>1, BoundsAreNat DEF IInv, TypeOK
<1>6. remote' \in RemoteRecords
  BY <1>2 DEF RemoteOK, HalfOK
<1>7. TypeOK'
  BY <1>1, <1>3, <1>4, <1>5, <1>6 DEF IInv, TypeOK, serverVars
<1> QED BY <1>2, <1>3, <1>7 DEF IInv

LEMMA KillKeeps ==
  ASSUME IInv, NEW u \in Users, Relaunch(u),
         told' \in [Ops -> {"waiting", "ok", "error", "lost"}],
         disturbances' \in 0..MaxDisturbances
  PROVE  IInv'
<1>1. /\ user' = u /\ remote' = Enable(FreshRemote, queue[u])
      /\ nextBatchId' = LoadNextBatchIdFromDb
      /\ callbacks' = [v \in Users |-> {}]
      /\ UNCHANGED <<queue, outcome, issued, serverVars, unread>>
  BY DEF Relaunch
<1>2. RemoteOK(remote', queue'[user'])
  BY <1>1, QueueIsTyped, FreshIsQuiet, EnableKeeps
<1>3. QueuesOK' /\ nextBatchId' \in Nat \ {0}
  BY <1>1, NextBatchIdIsNew DEF IInv, QueuesOK, TypeOK
<1>4. strays' \in SUBSET [user : Users, op : Ops]
  BY AbandonIsTyped DEF Relaunch
<1>5. remote' \in RemoteRecords
  BY <1>2 DEF RemoteOK, HalfOK
<1>6. TypeOK'
  BY <1>1, <1>3, <1>4, <1>5 DEF IInv, TypeOK, serverVars
<1> QED BY <1>2, <1>3, <1>6 DEF IInv

LEMMA NetworkKeeps ==
  ASSUME IInv, DisableNetwork \/ EnableNetwork
  PROVE  IInv'
<1>1. UNCHANGED <<queue, nextBatchId, user, callbacks, told, outcome,
                  issued, serverVars, unread>>
  BY DEF DisableNetwork, EnableNetwork
<1>2. user \in Users /\ queue[user] \in Seq(Batches) /\ Ascending(queue[user])
  BY QueueIsTyped DEF IInv, TypeOK
<1>3. RemoteOK(remote', queue'[user'])
  <2>1. CASE DisableNetwork
    <3>1. RemoteOK(DisableNetworkInternal(remote), queue[user])
      BY <1>2, DisableKeeps DEF IInv, RemoteOK, HalfOK
    <3> QED BY <1>1, <2>1, <3>1 DEF DisableNetwork
  <2>2. CASE EnableNetwork
    <3>1. HalfOK(remote, queue[user]) /\ ~IsStarted(remote)
      BY <2>2 DEF EnableNetwork, IInv, RemoteOK, HalfOK
    <3>2. RemoteOK(Enable(remote, queue[user]), queue[user])
      BY <1>2, <3>1, EnableKeeps
    <3> QED BY <1>1, <2>2, <3>2 DEF EnableNetwork
  <2> QED BY <2>1, <2>2
<1>4. QueuesOK'
  BY <1>1 DEF IInv, QueuesOK
<1>5. strays' \in SUBSET [user : Users, op : Ops]
  BY AbandonIsTyped DEF DisableNetwork, EnableNetwork, IInv, TypeOK
<1>6. disturbances' \in 0..MaxDisturbances
  BY BoundsAreNat DEF IInv, TypeOK, DisableNetwork, EnableNetwork
<1>7. remote' \in RemoteRecords
  BY <1>3 DEF RemoteOK, HalfOK
<1>8. TypeOK'
  BY <1>1, <1>5, <1>6, <1>7 DEF IInv, TypeOK, serverVars
<1> QED BY <1>3, <1>4, <1>8 DEF IInv

\* Handlers that only change RemoteStore, and what is recorded of it.
LEMMA OnlyRemoteKeeps ==
  ASSUME IInv, RemoteOK(remote', queue[user]),
         UNCHANGED <<queue, nextBatchId, user, callbacks, told, outcome, issued,
                     executed, doc, strayed>>,
         refusals' \in SUBSET Ops, hangups' \in Nat, unread' \in SUBSET Ops,
         disturbances' \in 0..MaxDisturbances,
         Abandon \/ UNCHANGED strays
  PROVE  IInv'
<1>1. QueuesOK' /\ RemoteOK(remote', queue'[user'])
  BY DEF IInv, QueuesOK
<1>2. strays' \in SUBSET [user : Users, op : Ops]
  BY AbandonIsTyped DEF IInv, TypeOK
<1>3. remote' \in RemoteRecords
  BY <1>1 DEF RemoteOK, HalfOK
<1>4. TypeOK'
  BY <1>2, <1>3 DEF IInv, TypeOK
<1> QED BY <1>1, <1>4 DEF IInv

LEMMA StreamKeeps ==
  ASSUME IInv, OnlyRemoteChanges, RemoteOK(remote', queue[user]),
         Abandon \/ UNCHANGED strays
  PROVE  IInv'
<1>1. /\ UNCHANGED <<queue, nextBatchId, user, callbacks, told, outcome,
                     issued, executed, doc, strayed>>
      /\ refusals' \in SUBSET Ops /\ hangups' \in Nat /\ unread' \in SUBSET Ops
      /\ disturbances' \in 0..MaxDisturbances
  BY DEF OnlyRemoteChanges, serverVars, IInv, TypeOK
<1> QED BY <1>1, OnlyRemoteKeeps

\* The oldest write of the user is resolved.
LEMMA ResolveKeeps ==
  ASSUME IInv, queue[user] # <<>>,
         NEW status \in {"ok", "error"}, NEW how \in {"accepted", "rejected"},
         Notify(queue[user][1], status),
         queue' = [queue EXCEPT ![user] = Tail(@)],
         outcome' = [outcome EXCEPT ![queue[user][1].op] = how],
         RemoteOK(remote', Tail(queue[user])),
         UNCHANGED <<nextBatchId, user, issued, serverVars>>,
         unread' \in SUBSET Ops, disturbances' \in 0..MaxDisturbances,
         Abandon \/ UNCHANGED strays
  PROVE  IInv'
<1>1. user \in Users /\ queue[user] \in Seq(Batches) /\ Ascending(queue[user])
  BY QueueIsTyped DEF IInv, TypeOK
<1> DEFINE q == Tail(queue[user])
<1>2. /\ q \in Seq(Batches) /\ Ascending(q)
      /\ \A i \in 1..Len(q) :
           q[i] = queue[user][i + 1] /\ i + 1 \in 1..Len(queue[user])
  BY <1>1, TailOfQueue
<1>3. /\ queue'[user] = q /\ user' = user /\ queue' \in [Users -> Seq(Batches)]
      /\ \A u \in Users : u # user => queue'[u] = queue[u]
  BY <1>1, <1>2 DEF IInv, TypeOK
<1> HIDE DEF q
<1>4. RemoteOK(remote', queue'[user'])
  BY <1>3 DEF q
<1>5. QueuesOK'
  <2> SUFFICES ASSUME NEW u \in Users
               PROVE  /\ Ascending(queue'[u])
                      /\ \A i \in 1..Len(queue'[u]) :
                           /\ queue'[u][i].id < nextBatchId
                           /\ queue'[u][i].op <= issued
    BY DEF QueuesOK
  <2>1. CASE u = user
    <3>1. \A i \in 1..Len(queue[user]) :
            queue[user][i].id < nextBatchId /\ queue[user][i].op <= issued
      BY <1>1 DEF IInv, QueuesOK
    <3>2. \A i \in 1..Len(q) : q[i].id < nextBatchId /\ q[i].op <= issued
      BY <1>2, <3>1
    <3> QED BY <1>2, <1>3, <2>1, <3>2
  <2>2. CASE u # user
    BY <1>3, <2>2 DEF IInv, QueuesOK
  <2> QED BY <2>1, <2>2
<1>6. TypeOK'
  <2>1. callbacks' \in [Users -> SUBSET Batches]
    BY <1>1 DEF Notify, IInv, TypeOK
  <2>2. told' \in [Ops -> {"waiting", "ok", "error", "lost"}]
    BY DEF Notify, IInv, TypeOK
  <2>3. outcome' \in [Ops -> {"open", "accepted", "rejected"}]
    BY DEF IInv, TypeOK
  <2>4. remote' \in RemoteRecords
    BY <1>4 DEF RemoteOK, HalfOK
  <2>5. strays' \in SUBSET [user : Users, op : Ops]
    BY AbandonIsTyped DEF IInv, TypeOK
  <2> QED BY <1>3, <2>1, <2>2, <2>3, <2>4, <2>5 DEF IInv, TypeOK, serverVars
<1> QED BY <1>4, <1>5, <1>6 DEF IInv

\* What OnMutationResult does is to resolve the oldest write.
LEMMA ResultResolves ==
  ASSUME IInv, OnMutationResult
  PROVE  /\ queue[user] # <<>> /\ remote.pipeline # <<>>
         /\ Head(remote.pipeline) = queue[user][1]
         /\ Head(remote.answers) = queue[user][1].op
         /\ Notify(queue[user][1], "ok")
         /\ queue' = [queue EXCEPT ![user] = Tail(@)]
         /\ outcome' = [outcome EXCEPT ![queue[user][1].op] = "accepted"]
         /\ RemoteOK(remote', Tail(queue[user]))
<1>1. user \in Users /\ queue[user] \in Seq(Batches) /\ Ascending(queue[user])
  BY QueueIsTyped DEF IInv, TypeOK
<1> DEFINE t == [remote EXCEPT !.answers = Tail(@), !.pipeline = Tail(@)]
<1>2. /\ remote.pipeline # <<>> /\ queue[user] # <<>>
      /\ Head(remote.pipeline) = queue[user][1]
      /\ Head(remote.answers) = queue[user][1].op
      /\ HalfOK(t, Tail(queue[user]))
  BY <1>1, AnswerKeeps DEF IInv, OnMutationResult
<1> HIDE DEF t
<1>3. RemoveMutationBatch(queue[user], queue[user][1].id) = Tail(queue[user])
  BY <1>1, <1>2, RemoveFirst
<1>4. queue' = [queue EXCEPT ![user] = Tail(@)]
  <2>1. queue' = [queue EXCEPT ![user] =
                     RemoveMutationBatch(queue[user], queue[user][1].id)]
    BY <1>2 DEF OnMutationResult
  <2> QED BY <1>3, <2>1
<1>5. queue'[user] = Tail(queue[user])
  BY <1>1, <1>4 DEF IInv, TypeOK
<1>6. Tail(queue[user]) \in Seq(Batches) /\ Ascending(Tail(queue[user]))
  BY <1>1, <1>2, TailOfQueue
<1>7. remote' = FillWritePipeline(t, Tail(queue[user]))
  BY <1>5 DEF OnMutationResult, t
<1>8. RemoteOK(remote', Tail(queue[user]))
  BY <1>2, <1>6, <1>7, FillKeeps
<1> QED BY <1>2, <1>4, <1>8 DEF OnMutationResult

\* So does a stream that ends with a permanent error after the handshake.
LEMMA FailureResolves ==
  ASSUME IInv, FailFront, remote.handshakeComplete, remote.pipeline # <<>>
  PROVE  /\ queue[user] # <<>> /\ Head(remote.pipeline) = queue[user][1]
         /\ Notify(queue[user][1], "error")
         /\ queue' = [queue EXCEPT ![user] = Tail(@)]
         /\ outcome' = [outcome EXCEPT ![queue[user][1].op] = "rejected"]
         /\ RemoteOK(remote', Tail(queue[user]))
<1>1. user \in Users /\ queue[user] \in Seq(Batches) /\ Ascending(queue[user])
  BY QueueIsTyped DEF IInv, TypeOK
<1>2. /\ remote.pipeline \in Seq(Batches) /\ remote.state = "Open"
      /\ IsFront(remote.pipeline, queue[user]) /\ IsStarted(remote)
  BY DEF IInv, RemoteOK, HalfOK, RemoteRecords, StreamOK, IsStarted
<1>3. queue[user] # <<>> /\ Head(remote.pipeline) = queue[user][1]
  BY <1>1, <1>2, FrontOfTail
<1>4. RemoveMutationBatch(queue[user], queue[user][1].id) = Tail(queue[user])
  BY <1>1, <1>3, RemoveFirst
<1>5. queue' = [queue EXCEPT ![user] = Tail(@)]
  <2>1. queue' = [queue EXCEPT ![user] =
                     RemoveMutationBatch(queue[user], queue[user][1].id)]
    BY <1>3 DEF FailFront
  <2> QED BY <1>4, <2>1
<1>6. queue'[user] = Tail(queue[user])
  BY <1>1, <1>5 DEF IInv, TypeOK
<1>7. remote' = CloseAndReject(remote, Tail(queue[user]))
  BY <1>6 DEF FailFront
<1>8. RemoteOK(remote', Tail(queue[user]))
  BY <1>1, <1>2, <1>7, RejectKeeps DEF IInv
<1> QED BY <1>3, <1>5, <1>8 DEF FailFront

\* An error without a write at the front closes the stream for another try.
LEMMA FailureKeeps ==
  ASSUME IInv, FailFront, remote.state = "Open",
         UNCHANGED <<nextBatchId, user, issued, serverVars>>,
         unread' \in SUBSET Ops, disturbances' \in 0..MaxDisturbances,
         Abandon \/ UNCHANGED strays
  PROVE  IInv'
<1>1. CASE remote.handshakeComplete /\ remote.pipeline # <<>>
  BY <1>1, FailureResolves, ResolveKeeps
<1>2. CASE ~(remote.handshakeComplete /\ remote.pipeline # <<>>)
  <2>1. /\ remote' = CloseAndRetry(remote)
        /\ UNCHANGED <<queue, callbacks, told, outcome>>
    BY <1>2 DEF FailFront
  <2>2. RemoteOK(remote', queue[user])
    BY <2>1, RetryKeeps DEF IInv, IsStarted
  <2>3. refusals' \in SUBSET Ops /\ hangups' \in Nat
    BY DEF serverVars, IInv, TypeOK
  <2> QED BY <2>1, <2>2, <2>3, OnlyRemoteKeeps DEF serverVars
<1> QED BY <1>1, <1>2

\* No step of a client, a stream, the server or the process breaks IInv: one
\* step of the proof for each action of Next.
THEOREM NextIInv == IInv /\ [Next]_vars => IInv'
<1> SUFFICES ASSUME IInv, [Next]_vars PROVE IInv'
  OBVIOUS
<1>1. user \in Users /\ RemoteOK(remote, queue[user])
  BY DEF IInv, TypeOK
<1>2. CASE UNCHANGED vars
  BY <1>2 DEF vars, serverVars, IInv, TypeOK, QueuesOK
<1>3. CASE WriteMutations
  BY <1>3, WriteKeeps
<1>4. ASSUME NEW u \in Users, HandleCredentialChange(u) PROVE IInv'
  BY <1>4, CredentialsKeep
<1>5. CASE DisableNetwork \/ EnableNetwork
  BY <1>5, NetworkKeeps
<1>6. ASSUME NEW c \in remote.tokens, TokenGranted(c) PROVE IInv'
  <2>1. CASE c = remote.closeCount
    <3>1. RemoteOK(remote', queue[user])
      BY <1>1, <1>6, <2>1, OpenKeeps DEF TokenGranted
    <3> QED BY <1>6, <3>1, StreamKeeps DEF TokenGranted
  <2>2. CASE c # remote.closeCount
    <3>1. RemoteOK(remote', queue[user])
      BY <1>1, <1>6, <2>2, DropKeeps DEF TokenGranted
    <3> QED BY <1>6, <3>1, StreamKeeps DEF TokenGranted
  <2> QED BY <2>1, <2>2
<1>7. ASSUME NEW c \in remote.tokens, TokenFailed(c) PROVE IInv'
  <2> DEFINE t == [remote EXCEPT !.tokens = @ \ {c}]
  <2>1. /\ t \in RemoteRecords /\ t.pipeline = remote.pipeline
        /\ t.enabled = remote.enabled /\ t.closeCount = remote.closeCount
        /\ t.tokens = remote.tokens \ {c}
    BY <1>1 DEF RemoteOK, HalfOK, RemoteRecords
  <2>2. remote.state = "Starting"
    BY <1>1, <1>7 DEF TokenFailed, RemoteOK, HalfOK, StreamOK
  <2> HIDE DEF t
  <2>3. /\ t.enabled
        /\ IsFront(t.pipeline, queue[user]) /\ IsFull(t.pipeline, queue[user])
        /\ \A d \in t.tokens : d <= t.closeCount
    BY <1>1, <2>1, <2>2 DEF RemoteOK, HalfOK, StreamOK, IsStarted
  <2>4. RemoteOK(CloseAndRetry(t), queue[user])
    BY <2>1, <2>3, CloseRestarts
  <2> QED BY <1>7, <2>4, StreamKeeps DEF TokenFailed, t
<1>8. CASE BackoffElapsed
  <2>1. RemoteOK(remote', queue[user])
    BY <1>1, <1>8, BackoffKeeps DEF BackoffElapsed
  <2> QED BY <1>8, <2>1, StreamKeeps DEF BackoffElapsed
<1>9. CASE IdleTimeout
  <2>1. RemoteOK(remote', queue[user])
    BY <1>1, <1>9, IdleKeeps DEF IdleTimeout
  <2> QED BY <1>9, <2>1, StreamKeeps DEF IdleTimeout
<1>10. CASE OnHandshakeResponse
  <2>1. RemoteOK(remote', queue[user])
    BY <1>1, <1>10, HandshakeKeeps DEF OnHandshakeResponse
  <2> QED BY <1>10, <2>1, StreamKeeps DEF OnHandshakeResponse
<1>11. CASE OnMutationResult
  <2>1. /\ UNCHANGED <<nextBatchId, user, issued, serverVars>>
        /\ unread' \in SUBSET Ops /\ disturbances' \in 0..MaxDisturbances
        /\ UNCHANGED strays
    BY <1>11 DEF OnMutationResult, IInv, TypeOK
  <2> QED BY <1>11, <2>1, ResultResolves, ResolveKeeps
<1>12. CASE OnPermanentError
  <2>1. /\ UNCHANGED <<nextBatchId, user, issued, serverVars>>
        /\ unread' \in SUBSET Ops /\ disturbances' \in 0..MaxDisturbances
        /\ UNCHANGED strays /\ FailFront
    BY <1>12 DEF OnPermanentError, IInv, TypeOK
  <2>2. remote.state = "Open"
    BY <1>1, <1>12 DEF OnPermanentError, RemoteOK, HalfOK, WireOK
  <2> QED BY <2>1, <2>2, FailureKeeps
<1>13. CASE OnUndecodableResponse
  <2>1. Head(remote.answers) \in Messages
    BY <1>13, HeadTailProperties
       DEF OnUndecodableResponse, IInv, TypeOK, RemoteRecords
  <2>2. unread' \in SUBSET Ops
    BY <1>13, <2>1 DEF OnUndecodableResponse, Messages, IInv, TypeOK
  <2>3. /\ UNCHANGED <<nextBatchId, user, issued, serverVars>>
        /\ disturbances' \in 0..MaxDisturbances
        /\ Abandon /\ FailFront
    BY <1>13, BoundsAreNat DEF OnUndecodableResponse, IInv, TypeOK
  <2>4. remote.state = "Open"
    BY <1>1, <1>13, NoCargo DEF OnUndecodableResponse, RemoteOK, HalfOK
  <2> QED BY <2>2, <2>3, <2>4, FailureKeeps
<1>14. CASE OnStatusOk
  <2>1. RemoteOK(remote', queue[user])
    BY <1>1, <1>14, FinishKeeps DEF OnStatusOk
  <2> QED BY <1>14, <2>1, StreamKeeps DEF OnStatusOk
<1>15. CASE OnTransientError
  <2>1. RemoteOK(remote', queue[user])
    BY <1>1, <1>15, RetryKeeps DEF OnTransientError, IsStarted
  <2> QED BY <1>15, <2>1, StreamKeeps DEF OnTransientError
<1>16. CASE ServerAnswers
  <2>1. RemoteOK(remote', queue[user])
    BY <1>1, <1>16, ServeKeeps DEF ServerAnswers
  <2>2. Head(remote.requests) \in Messages
    BY <1>16, HeadTailProperties DEF ServerAnswers, IInv, TypeOK, RemoteRecords
  <2>3. executed' \in [Users -> SUBSET Ops] /\ doc' \in [Users -> Ops \union {0}]
    <3>1. CASE Head(remote.requests) = Handshake
      BY <1>1, <1>16, <3>1 DEF ServerAnswers, IInv, TypeOK
    <3>2. CASE Head(remote.requests) # Handshake
      <4> DEFINE o == Head(remote.requests)
      <4>1. o \in Ops
        BY <2>2, <3>2 DEF Messages
      <4>2. /\ executed' = [executed EXCEPT ![user] = @ \union {o}]
            /\ doc' = [doc EXCEPT ![user] = o]
        BY <1>16, <3>2 DEF ServerAnswers, Execute
      <4> HIDE DEF o
      <4>3. executed \in [Users -> SUBSET Ops] /\ doc \in [Users -> Ops \union {0}]
        BY DEF IInv, TypeOK
      <4> QED BY <4>1, <4>2, <4>3
    <3> QED BY <3>1, <3>2
  <2>4. UNCHANGED <<queue, nextBatchId, user, callbacks, told, outcome,
                    issued, refusals, hangups, unread, strays, strayed,
                    disturbances>>
    BY <1>16 DEF ServerAnswers
  <2>5. remote' \in RemoteRecords
    BY <2>1 DEF RemoteOK, HalfOK
  <2> QED BY <2>1, <2>3, <2>4, <2>5 DEF IInv, TypeOK, QueuesOK
<1>17. CASE ServerRefuses \/ ServerHangsUp \/ ServerFinishes
  <2>1. PICK status \in {"permanent", "ok"} : ServerEnds(status)
    BY <1>17 DEF ServerRefuses, ServerHangsUp, ServerFinishes
  <2>2. RemoteOK(remote', queue[user])
    BY <1>1, <2>1, EndKeeps DEF ServerEnds
  <2>3. refusals' \in SUBSET Ops
    <3>1. CASE ServerRefuses
      <4>1. Head(remote.requests) \in Messages
        BY <3>1, HeadTailProperties DEF ServerRefuses, IInv, TypeOK, RemoteRecords
      <4> QED BY <3>1, <4>1 DEF ServerRefuses, Messages, IInv, TypeOK
    <3>2. CASE ServerHangsUp \/ ServerFinishes
      BY <3>2 DEF ServerHangsUp, ServerFinishes, IInv, TypeOK
    <3> QED BY <1>17, <3>1, <3>2
  <2>4. hangups' \in Nat /\ disturbances' \in 0..MaxDisturbances
    BY <1>17, BoundsAreNat
       DEF ServerRefuses, ServerHangsUp, ServerFinishes, IInv, TypeOK
  <2>5. /\ UNCHANGED <<queue, nextBatchId, user, callbacks, told, outcome,
                       issued, executed, doc, strayed>>
        /\ unread' \in SUBSET Ops /\ UNCHANGED strays
    BY <2>1 DEF ServerEnds, IInv, TypeOK
  <2> QED BY <2>2, <2>3, <2>4, <2>5, OnlyRemoteKeeps
<1>18. ASSUME NEW s \in strays, StrayIsExecuted(s) PROVE IInv'
  <2>1. s.user \in Users /\ s.op \in Ops
    BY <1>18 DEF IInv, TypeOK
  <2>2. /\ executed' \in [Users -> SUBSET Ops]
        /\ doc' \in [Users -> Ops \union {0}]
        /\ strayed' \in SUBSET Users
    BY <1>18, <2>1 DEF StrayIsExecuted, Execute, IInv, TypeOK
  <2>3. UNCHANGED <<queue, nextBatchId, user, remote, callbacks, told,
                    outcome, issued, refusals, hangups, unread, strays,
                    disturbances>>
    BY <1>18 DEF StrayIsExecuted
  <2> QED BY <2>2, <2>3 DEF IInv, TypeOK, QueuesOK
<1>19. ASSUME NEW u \in Users, Kill(u) PROVE IInv'
  <2>1. told' \in [Ops -> {"waiting", "ok", "error", "lost"}]
    BY <1>19 DEF Kill, ToldAfterDeath, IInv, TypeOK
  <2>2. disturbances' \in 0..MaxDisturbances
    BY <1>19, BoundsAreNat DEF Kill, IInv, TypeOK
  <2> QED BY <1>19, <2>1, <2>2, KillKeeps DEF Kill
<1>20. ASSUME NEW u \in Users, KillWhileAcknowledging(u) PROVE IInv'
  <2>1. told' \in [Ops -> {"waiting", "ok", "error", "lost"}]
    BY <1>20 DEF KillWhileAcknowledging, ToldAfterDeath, IInv, TypeOK
  <2>2. disturbances' \in 0..MaxDisturbances
    BY <1>20, BoundsAreNat DEF KillWhileAcknowledging, IInv, TypeOK
  <2> QED BY <1>20, <2>1, <2>2, KillKeeps DEF KillWhileAcknowledging
<1>21. ASSUME NEW u \in Users, AbortOnStatusOk(u) PROVE IInv'
  <2>1. told' \in [Ops -> {"waiting", "ok", "error", "lost"}]
    BY <1>21 DEF AbortOnStatusOk, ToldAfterDeath, IInv, TypeOK
  <2>2. disturbances' \in 0..MaxDisturbances
    BY <1>21 DEF AbortOnStatusOk, IInv, TypeOK
  <2> QED BY <1>21, <2>1, <2>2, KillKeeps DEF AbortOnStatusOk
<1> QED BY <1>2, <1>3, <1>4, <1>5, <1>6, <1>7, <1>8, <1>9, <1>10, <1>11,
           <1>12, <1>13, <1>14, <1>15, <1>16, <1>17, <1>18, <1>19, <1>20,
           <1>21
        DEF Next, ClientStep, StreamStep, ServerStep, ProcessStep

\* IInv holds in every reachable state, for any users and bounds.
THEOREM Invariance == Spec => []IInv
<1>1. Init => IInv
  BY InitIInv
<1>2. IInv /\ [Next]_vars => IInv'
  BY NextIInv
<1> QED BY <1>1, <1>2, PTL DEF Spec

-----------------------------------------------------------------------------
(* What follows from it *)

\* TypeOK: every variable keeps its type, so that no step looks for a batch in
\* an empty queue or pipeline.
THEOREM TypeCorrect == Spec => []TypeOK
<1>1. IInv => TypeOK
  BY DEF IInv
<1> QED BY <1>1, Invariance, PTL

\* PipelineIsPrefix: the pipeline holds the oldest writes of the user who is
\* signed in, without a gap.
THEOREM PipelineIsFront == Spec => []PipelineIsPrefix
<1>1. IInv => PipelineIsPrefix
  BY DEF IInv, RemoteOK, HalfOK, IsFront, PipelineIsPrefix
<1> QED BY <1>1, Invariance, PTL

\* AnswersFollowPipeline: write responses can be linked to their requests
\* purely by their order.
THEOREM AnswersFollow == Spec => []AnswersFollowPipeline
<1>1. IInv => AnswersFollowPipeline
  BY DEF IInv, RemoteOK, HalfOK, WireOK, Cargo, Established,
         AnswersFollowPipeline
<1> QED BY <1>1, Invariance, PTL

\* NoWriteIsForgotten: while there is something to write, a stream is started
\* or starting.
THEOREM NothingForgotten == Spec => []NoWriteIsForgotten
<1>1. IInv => NoWriteIsForgotten
  <2> SUFFICES ASSUME IInv, remote.enabled, queue[user] # <<>>
               PROVE  remote.pipeline # <<>> /\ IsStarted(remote)
    BY DEF NoWriteIsForgotten
  <2>1. /\ queue[user] \in Seq(Batches) /\ remote.pipeline \in Seq(Batches)
        /\ IsFull(remote.pipeline, queue[user])
        /\ remote.pipeline # <<>> => IsStarted(remote)
    BY DEF IInv, TypeOK, RemoteRecords, RemoteOK
  <2>2. Len(queue[user]) # 0 /\ MaxPendingWrites # 0
    BY <2>1, MaxPendingWritesIsPositive
  <2>3. Len(remote.pipeline) # 0
    BY <2>1, <2>2 DEF IsFull
  <2>4. remote.pipeline # <<>>
    BY <2>3
  <2> QED BY <2>1, <2>4
<1> QED BY <1>1, Invariance, PTL

\* AssertionsHold: of the assertions of the handlers, none ends the app but
\* the one on a graceful stop (GracefulStopIsDesirable), which does when the
\* server itself ends a stream with status OK; it is not claimed here.
THEOREM AssertionsNeverFail == Spec => []AssertionsHold
<1>1. IInv => AssertionsHold
  <2> SUFFICES ASSUME IInv PROVE AssertionsHold
    OBVIOUS
  <2>1. /\ user \in Users /\ queue[user] \in Seq(Batches)
        /\ Ascending(queue[user]) /\ remote \in RemoteRecords
        /\ RemoteOK(remote, queue[user]) /\ StreamOK(remote)
        /\ WireOK(remote) /\ remote.pipeline \in Seq(Batches)
    BY QueueIsTyped DEF IInv, TypeOK, RemoteOK, HalfOK, RemoteRecords
  <2>2. remote.idle => ~ShouldStartWriteStream(Stop(remote))
    <3>1. Stop(remote).pipeline = remote.pipeline
      BY <2>1, StopIsQuiet
    <3> QED BY <2>1, <3>1 DEF StreamOK, ShouldStartWriteStream
  <2>3. remote.closeCount \in remote.tokens => remote.state = "Starting"
    BY <2>1 DEF StreamOK
  <2>4. remote.answers # <<>> /\ remote.handshakeComplete
          => remote.pipeline # <<>>
    BY <2>1, AnswerKeeps
  <2>5. remote.pipeline # <<>> => Head(remote.pipeline).id \in Ids(queue[user])
    <3> SUFFICES ASSUME remote.pipeline # <<>>
                 PROVE  Head(remote.pipeline).id \in Ids(queue[user])
      OBVIOUS
    <3>1. queue[user] # <<>> /\ Head(remote.pipeline) = queue[user][1]
      BY <2>1, FrontOfTail DEF RemoteOK, HalfOK
    <3>2. 1 \in 1..Len(queue[user])
      BY <2>1, <3>1
    <3> QED BY <3>1, <3>2 DEF Ids
  <2>6. remote.handshakeComplete => remote.state = "Open"
    BY <2>1 DEF StreamOK
  <2> QED BY <2>2, <2>3, <2>4, <2>5, <2>6 DEF AssertionsHold
<1> QED BY <1>1, Invariance, PTL

-----------------------------------------------------------------------------
(* A write that waits gets its answer *)

\* Something is at work on the stream, of which the client or the server takes
\* the next step: credentials that are on their way, the backoff timer, an
\* answer to read, a request to answer or the status the server ends it with.
AtWork ==
  \/ remote.closeCount \in remote.tokens
  \/ remote.state = "Backoff"
  \/ remote.answers # <<>>
  \/ remote.requests # <<>> /\ remote.status = "none"
  \/ remote.answers = <<>> /\ remote.status # "none"

\* The steps there are left, from what the stream has reached, until the answer
\* to the write at the front of the pipeline has been read.
StepsToAnswer(r) ==
  CASE r.state = "Backoff" -> 6
    [] r.state = "Starting" -> 5
    [] r.state = "Open" /\ ~r.handshakeComplete /\ r.answers = <<>> -> 4
    [] r.state = "Open" /\ ~r.handshakeComplete /\ r.answers # <<>> -> 3
    [] r.state = "Open" /\ r.handshakeComplete /\ r.answers = <<>> -> 2
    [] OTHER -> 1

\* What takes a stream that has something to write back to its start.
Setback ==
  \/ \E u \in Users : \/ HandleCredentialChange(u)
                      \/ Kill(u) \/ KillWhileAcknowledging(u)
                      \/ AbortOnStatusOk(u)
  \/ \E c \in remote.tokens : TokenFailed(c)
  \/ DisableNetwork \/ OnTransientError
  \/ /\ OnPermanentError \/ OnUndecodableResponse
     /\ ~remote.handshakeComplete

\* The steps that work towards the answer.
Advance ==
  \/ TokenGranted(remote.closeCount) \/ BackoffElapsed
  \/ OnHandshakeResponse
  \/ ServerAnswers /\ remote.answers = <<>>

\* The client learns what became of the write at the front.
FrontIsResolved ==
  /\ OnMutationResult \/ OnPermanentError \/ OnUndecodableResponse
  /\ queue' = [queue EXCEPT ![user] = Tail(@)]
  /\ outcome'[Head(remote.pipeline).op] \in {"accepted", "rejected"}

\* The front stays and is no further from its answer, and nearer by each step
\* that works towards it.
FrontStays ==
  /\ remote'.pipeline # <<>>
  /\ Head(remote'.pipeline) = Head(remote.pipeline)
  /\ StepsToAnswer(remote') <= StepsToAnswer(remote)
  /\ Advance => StepsToAnswer(remote') < StepsToAnswer(remote)

\* While the network is enabled and a write waits, something is at work on the
\* stream whose handler takes it further: the write path cannot come to rest.
THEOREM NoWriteIsStuck ==
  Spec => [](remote.enabled /\ queue[user] # <<>> => AtWork)
<1>1. IInv /\ NoWriteIsForgotten
        => (remote.enabled /\ queue[user] # <<>> => AtWork)
  <2> SUFFICES ASSUME IInv, NoWriteIsForgotten,
                      remote.enabled, queue[user] # <<>>
               PROVE  AtWork
    OBVIOUS
  <2>1. /\ remote \in RemoteRecords /\ StreamOK(remote) /\ WireOK(remote)
        /\ remote.pipeline # <<>> /\ IsStarted(remote)
    BY DEF IInv, RemoteOK, HalfOK, NoWriteIsForgotten
  <2>2. CASE remote.state # "Open"
    BY <2>1, <2>2 DEF IsStarted, StreamOK, AtWork
  <2>3. CASE remote.state = "Open"
    <3>1. Cargo(remote) # <<>>
      <4>1. CASE remote.handshakeComplete
        <5>1. Len(OpsOf(remote.pipeline)) = Len(remote.pipeline)
          BY <2>1, OpsOfBatches DEF RemoteRecords
        <5>2. Len(remote.pipeline) # 0
          BY <2>1, EmptySeq DEF RemoteRecords
        <5> QED BY <2>3, <4>1, <5>1, <5>2 DEF Cargo
      <4>2. CASE ~remote.handshakeComplete
        BY <2>3, <4>2 DEF Cargo
      <4> QED BY <4>1, <4>2
    <3>2. remote.answers \o remote.requests # <<>>
      BY <2>1, <3>1 DEF WireOK
    <3>3. <<>> \o <<>> = <<>>
      BY EmptySeq, ConcatEmptySeq
    <3>4. remote.answers # <<>> \/ remote.requests # <<>>
      BY <3>2, <3>3
    <3> QED BY <3>4 DEF AtWork
  <2> QED BY <2>2, <2>3
<1> QED BY <1>1, Invariance, NothingForgotten, PTL

\* A refill leaves the front of a pipeline that is not empty, and what the
\* stream has reached.
LEMMA FillKeepsFront ==
  ASSUME NEW r \in RemoteRecords, NEW q \in Seq(Batches), Ascending(q),
         HalfOK(r, q), r.pipeline # <<>>, IsStarted(r)
  PROVE  LET t == FillWritePipeline(r, q)
         IN  /\ t.pipeline # <<>> /\ Head(t.pipeline) = Head(r.pipeline)
             /\ t.state = r.state /\ t.answers = r.answers
             /\ t.handshakeComplete = r.handshakeComplete
<1> DEFINE b == NextBatches(r, q)
           sent == Established(r) /\ b # <<>>
           idles == /\ r.enabled
                    /\ r.pipeline = <<>> /\ b = <<>>
                    /\ r.state = "Open"
           x == [r EXCEPT !.pipeline = @ \o b,
                          !.requests = IF sent THEN @ \o OpsOf(b) ELSE @,
                          !.idle = ~sent /\ (@ \/ idles)]
<1>1. b \in Seq(Batches) /\ r.pipeline \in Seq(Batches)
  BY NextBatchesAre DEF HalfOK, RemoteRecords
<1>2. /\ x.pipeline = r.pipeline \o b /\ x.state = r.state
      /\ x.answers = r.answers /\ x.handshakeComplete = r.handshakeComplete
  BY DEF RemoteRecords
<1>3. FillWritePipeline(r, q) = StartIfNeeded(x)
  BY DEF FillWritePipeline
<1> HIDE DEF x, b
<1>4. StartIfNeeded(x) = x
  BY <1>2 DEF StartIfNeeded, ShouldStartWriteStream, IsStarted
<1>5. x.pipeline # <<>> /\ Head(x.pipeline) = Head(r.pipeline)
  <2>1. Len(r.pipeline) \in Nat \ {0}
    BY <1>1, EmptySeq
  <2>2. /\ Len(r.pipeline \o b) = Len(r.pipeline) + Len(b)
        /\ (r.pipeline \o b)[1] = r.pipeline[1] /\ Len(b) \in Nat
    BY <1>1, <2>1, ConcatProperties
  <2> QED BY <1>2, <2>1, <2>2
<1> QED BY <1>2, <1>3, <1>4, <1>5

\* An answer or a permanent error takes the front off the queue and settles it.
LEMMA AnswerResolves ==
  ASSUME IInv, remote.pipeline # <<>>, remote.handshakeComplete,
         OnMutationResult \/ OnPermanentError \/ OnUndecodableResponse
  PROVE  FrontIsResolved
<1>1. /\ queue' = [queue EXCEPT ![user] = Tail(@)]
      /\ Head(remote.pipeline) = queue[user][1] /\ queue[user] # <<>>
      /\ \/ outcome' = [outcome EXCEPT ![queue[user][1].op] = "accepted"]
         \/ outcome' = [outcome EXCEPT ![queue[user][1].op] = "rejected"]
  <2>1. CASE OnMutationResult
    BY <2>1, ResultResolves
  <2>2. CASE OnPermanentError \/ OnUndecodableResponse
    BY <2>2, FailureResolves DEF OnPermanentError, OnUndecodableResponse
  <2> QED BY <2>1, <2>2
<1>2. queue[user][1].op \in Ops
  <2>1. queue[user] \in Seq(Batches)
    BY DEF IInv, TypeOK
  <2>2. 1 \in 1..Len(queue[user])
    BY <1>1, <2>1
  <2> QED BY <2>1, <2>2, BatchesInQueue
<1>3. outcome'[Head(remote.pipeline).op] \in {"accepted", "rejected"}
  <2>1. outcome \in [Ops -> {"open", "accepted", "rejected"}]
    BY DEF IInv, TypeOK
  <2> QED BY <1>1, <1>2, <2>1
<1> QED BY <1>1, <1>3 DEF FrontIsResolved

\* How far the stream is can be told from its state, the handshake and whether
\* an answer is there.
LEMMA StepsAreNat ==
  ASSUME NEW r
  PROVE  StepsToAnswer(r) \in Nat
  BY DEF StepsToAnswer

LEMMA SameSteps ==
  ASSUME NEW r, NEW t, t.state = r.state,
         t.handshakeComplete = r.handshakeComplete,
         t.answers = <<>> <=> r.answers = <<>>
  PROVE  StepsToAnswer(t) <= StepsToAnswer(r)
<1>1. StepsToAnswer(t) = StepsToAnswer(r)
  BY DEF StepsToAnswer
<1> QED BY <1>1, StepsAreNat

LEMMA AppendIsNotEmpty ==
  ASSUME NEW s \in Seq(Messages), NEW e
  PROVE  Append(s, e) # <<>>
<1>1. Len(Append(s, e)) = Len(s) + 1 /\ Len(s) \in Nat
  OBVIOUS
<1> QED BY <1>1

\* A new write goes to the end: the front stays.
LEMMA WriteKeepsFront ==
  ASSUME IInv, WriteMutations, remote.pipeline # <<>>
  PROVE  /\ remote'.pipeline # <<>>
         /\ Head(remote'.pipeline) = Head(remote.pipeline)
         /\ remote'.state = remote.state /\ remote'.answers = remote.answers
         /\ remote'.handshakeComplete = remote.handshakeComplete
<1> DEFINE q == queue'[user]
<1>1. user \in Users /\ user' = user /\ user' \in Users
  BY DEF IInv, TypeOK, WriteMutations
<1>2. IInv'
  BY WriteKeeps
<1>3. q \in Seq(Batches)
  BY <1>1, <1>2 DEF IInv, TypeOK
<1>4. Ascending(q)
  BY <1>1, <1>2 DEF IInv, QueuesOK
<1>5. HalfOK(remote, q)
  <2>1. \E batch : queue' = [queue EXCEPT ![user] = Append(@, batch)]
    BY DEF WriteMutations
  <2>2. PICK batch : queue' = [queue EXCEPT ![user] = Append(@, batch)]
    BY <2>1
  <2>3. q = Append(queue[user], batch) /\ queue[user] \in Seq(Batches)
    BY <1>1, <2>2 DEF IInv, TypeOK
  <2>4. /\ Len(q) = Len(queue[user]) + 1
        /\ \A i \in 1..Len(queue[user]) : q[i] = queue[user][i]
    BY <2>3
  <2>5. remote.pipeline \in Seq(Batches) /\ IsFront(remote.pipeline, queue[user])
    BY DEF IInv, RemoteOK, HalfOK, RemoteRecords
  <2> HIDE DEF q
  <2>6. IsFront(remote.pipeline, q)
    BY <2>3, <2>4, <2>5 DEF IsFront
  <2> QED BY <2>6 DEF IInv, RemoteOK, HalfOK
<1>6. remote' = FillWritePipeline(remote, q)
  BY DEF WriteMutations
<1>7. remote \in RemoteRecords /\ IsStarted(remote)
  BY DEF IInv, RemoteOK, HalfOK
<1> HIDE DEF q
<1> QED BY <1>3, <1>4, <1>5, <1>6, <1>7, FillKeepsFront

\* Each step that works towards the answer brings it nearer.
LEMMA AdvanceIsNearer ==
  ASSUME IInv, Advance
  PROVE  StepsToAnswer(remote') < StepsToAnswer(remote)
<1>1. remote \in RemoteRecords /\ StreamOK(remote) /\ WireOK(remote)
  BY DEF IInv, RemoteOK, HalfOK
<1>2. remote.state # "Open" => remote.answers = <<>> /\ remote.requests = <<>>
  BY <1>1, NoCargo
<1>3. CASE TokenGranted(remote.closeCount)
  <2>1. remote.state = "Starting" /\ ~remote.handshakeComplete
        /\ remote.answers = <<>>
    BY <1>1, <1>2, <1>3 DEF TokenGranted, StreamOK
  <2>2. remote'.state = "Open" /\ ~remote'.handshakeComplete
        /\ remote'.answers = <<>>
    BY <1>1, <1>3, <2>1 DEF TokenGranted, RemoteRecords
  <2>3. StepsToAnswer(remote) = 5 /\ StepsToAnswer(remote') = 4
    BY <2>1, <2>2 DEF StepsToAnswer
  <2> QED BY <2>3
<1>4. CASE BackoffElapsed
  <2>1. remote'.state = "Starting"
    BY <1>1, <1>4 DEF BackoffElapsed, StartStream, RemoteRecords
  <2>2. StepsToAnswer(remote) = 6 /\ StepsToAnswer(remote') = 5
    BY <1>4, <2>1 DEF StepsToAnswer, BackoffElapsed
  <2> QED BY <2>2
<1>5. CASE OnHandshakeResponse
  <2>1. remote.state = "Open" /\ ~remote.handshakeComplete
        /\ remote.answers # <<>>
    BY <1>2, <1>5 DEF OnHandshakeResponse
  <2>2. remote'.state = "Open" /\ remote'.handshakeComplete
    BY <1>1, <1>5, <2>1 DEF OnHandshakeResponse, RemoteRecords
  <2>3. StepsToAnswer(remote) = 3
    BY <2>1 DEF StepsToAnswer
  <2>4. StepsToAnswer(remote') = 2 \/ StepsToAnswer(remote') = 1
    BY <2>2 DEF StepsToAnswer
  <2> QED BY <2>3, <2>4
<1>6. CASE ServerAnswers /\ remote.answers = <<>>
  <2>1. remote.state = "Open"
    BY <1>2, <1>6 DEF ServerAnswers
  <2>2. /\ remote'.state = remote.state
        /\ remote'.handshakeComplete = remote.handshakeComplete
        /\ remote'.answers = Append(remote.answers, Head(remote.requests))
    <3>1. remote' = [remote EXCEPT
                       !.requests = Tail(@),
                       !.answers = Append(@, Head(remote.requests))]
      BY <1>6 DEF ServerAnswers
    <3> QED BY <1>1, <3>1 DEF RemoteRecords
  <2>3. remote'.answers # <<>>
    BY <1>1, <2>2, AppendIsNotEmpty DEF RemoteRecords
  <2>4. CASE remote.handshakeComplete
    <3>1. StepsToAnswer(remote) = 2 /\ StepsToAnswer(remote') = 1
      BY <1>6, <2>1, <2>2, <2>3, <2>4 DEF StepsToAnswer
    <3> QED BY <3>1
  <2>5. CASE ~remote.handshakeComplete
    <3>1. StepsToAnswer(remote) = 4 /\ StepsToAnswer(remote') = 3
      BY <1>6, <2>1, <2>2, <2>3, <2>5 DEF StepsToAnswer
    <3> QED BY <3>1
  <2> QED BY <2>4, <2>5
<1> QED BY <1>3, <1>4, <1>5, <1>6 DEF Advance

\* But for failures, changes of user, kills and the network being disabled,
\* every step leaves the front of the pipeline at least as near to its answer,
\* every step of credentials, timer, handshake and server brings it nearer,
\* until it is resolved: no write, answer or timer of others holds it up.
THEOREM FrontComesNearer ==
  Spec => [][remote.pipeline # <<>> /\ ~Setback
               => FrontIsResolved \/ FrontStays]_vars
<1>1. IInv /\ [Next]_vars
        => [remote.pipeline # <<>> /\ ~Setback
              => FrontIsResolved \/ FrontStays]_vars
  <2> SUFFICES ASSUME IInv, Next, remote.pipeline # <<>>, ~Setback
               PROVE  FrontIsResolved \/ FrontStays
    OBVIOUS
  <2>1. /\ remote \in RemoteRecords /\ StreamOK(remote) /\ WireOK(remote)
        /\ IsStarted(remote) /\ remote.enabled /\ ~remote.idle
    BY DEF IInv, RemoteOK, HalfOK, StreamOK
  <2>2. Advance => StepsToAnswer(remote') < StepsToAnswer(remote)
    BY AdvanceIsNearer
  <2>3. ASSUME remote'.pipeline = remote.pipeline,
               StepsToAnswer(remote') <= StepsToAnswer(remote)
        PROVE  FrontStays
    BY <2>2, <2>3 DEF FrontStays
  <2>4. ASSUME remote'.pipeline = remote.pipeline, Advance
        PROVE  FrontStays
    <3>1. StepsToAnswer(remote') < StepsToAnswer(remote)
      BY <2>2, <2>4
    <3>2. StepsToAnswer(remote') \in Nat /\ StepsToAnswer(remote) \in Nat
      BY StepsAreNat
    <3>3. StepsToAnswer(remote') <= StepsToAnswer(remote)
      BY <3>1, <3>2
    <3> QED BY <2>3, <2>4, <3>3
  <2>5. CASE WriteMutations
    <3>1. /\ remote'.pipeline # <<>>
          /\ Head(remote'.pipeline) = Head(remote.pipeline)
          /\ StepsToAnswer(remote') = StepsToAnswer(remote)
      BY <2>1, <2>5, WriteKeepsFront DEF StepsToAnswer
    <3>2. StepsToAnswer(remote') \in Nat
      BY StepsAreNat
    <3>3. StepsToAnswer(remote') <= StepsToAnswer(remote)
      BY <3>1, <3>2
    <3> QED BY <2>2, <3>1, <3>3 DEF FrontStays
  <2>6. CASE EnableNetwork \/ IdleTimeout
    BY <2>1, <2>6 DEF EnableNetwork, IdleTimeout
  <2>7. ASSUME NEW c \in remote.tokens, TokenGranted(c) PROVE FrontStays
    <3>1. CASE c = remote.closeCount
      <4>1. remote'.pipeline = remote.pipeline
        BY <2>1, <2>7, <3>1 DEF TokenGranted, RemoteRecords
      <4> QED BY <2>4, <2>7, <3>1, <4>1 DEF Advance
    <3>2. CASE c # remote.closeCount
      <4>1. /\ remote'.pipeline = remote.pipeline
            /\ remote'.state = remote.state /\ remote'.answers = remote.answers
            /\ remote'.handshakeComplete = remote.handshakeComplete
        BY <2>1, <2>7, <3>2 DEF TokenGranted, RemoteRecords
      <4> QED BY <2>3, <4>1, SameSteps
    <3> QED BY <3>1, <3>2
  <2>8. CASE BackoffElapsed
    <3>1. remote'.pipeline = remote.pipeline
      BY <2>1, <2>8 DEF BackoffElapsed, StartStream, RemoteRecords
    <3> QED BY <2>4, <2>8, <3>1 DEF Advance
  <2>9. CASE OnHandshakeResponse
    <3>1. remote'.pipeline = remote.pipeline
      BY <2>1, <2>9 DEF OnHandshakeResponse, RemoteRecords
    <3> QED BY <2>4, <2>9, <3>1 DEF Advance
  <2>10. CASE OnMutationResult
    BY <2>10, AnswerResolves DEF OnMutationResult
  <2>11. CASE OnPermanentError \/ OnUndecodableResponse
    <3>1. remote.handshakeComplete
      BY <2>11 DEF Setback
    <3> QED BY <2>11, <3>1, AnswerResolves
  <2>12. CASE ServerAnswers
    <3>1. remote'.pipeline = remote.pipeline
      BY <2>1, <2>12 DEF ServerAnswers, RemoteRecords
    <3>2. CASE remote.answers = <<>>
      BY <2>4, <2>12, <3>1, <3>2 DEF Advance
    <3>3. CASE remote.answers # <<>>
      <4>1. remote' = [remote EXCEPT
                         !.requests = Tail(@),
                         !.answers = Append(@, Head(remote.requests))]
        BY <2>12 DEF ServerAnswers
      <4>2. /\ remote'.state = remote.state
            /\ remote'.answers = Append(remote.answers, Head(remote.requests))
            /\ remote'.handshakeComplete = remote.handshakeComplete
        BY <2>1, <4>1 DEF RemoteRecords
      <4>3. remote'.answers # <<>>
        BY <2>1, <4>2, AppendIsNotEmpty DEF RemoteRecords
      <4> QED BY <2>3, <3>1, <3>3, <4>2, <4>3, SameSteps
    <3> QED BY <3>2, <3>3
  <2>13. CASE ServerRefuses \/ ServerHangsUp \/ ServerFinishes
    <3>1. \E status \in {"permanent", "ok"} :
            remote' = [remote EXCEPT !.status = status]
      BY <2>13 DEF ServerRefuses, ServerHangsUp, ServerFinishes, ServerEnds
    <3>2. /\ remote'.pipeline = remote.pipeline
          /\ remote'.state = remote.state /\ remote'.answers = remote.answers
          /\ remote'.handshakeComplete = remote.handshakeComplete
      BY <2>1, <3>1 DEF RemoteRecords
    <3> QED BY <2>3, <3>2, SameSteps
  <2>14. ASSUME NEW s \in strays, StrayIsExecuted(s) PROVE FrontStays
    <3>1. remote' = remote
      BY <2>14 DEF StrayIsExecuted
    <3> QED BY <2>3, <3>1, SameSteps
  <2>15. ~OnStatusOk
    BY <2>1, FinishKeeps DEF OnStatusOk, IInv
  <2>16. Next => \/ WriteMutations \/ EnableNetwork \/ IdleTimeout
                 \/ \E c \in remote.tokens : TokenGranted(c)
                 \/ BackoffElapsed \/ OnHandshakeResponse \/ OnMutationResult
                 \/ OnPermanentError \/ OnUndecodableResponse \/ OnStatusOk
                 \/ ServerAnswers
                 \/ ServerRefuses \/ ServerHangsUp \/ ServerFinishes
                 \/ \E s \in strays : StrayIsExecuted(s)
    BY DEF Next, ClientStep, StreamStep, ServerStep, ProcessStep, Setback
  <2> QED BY <2>5, <2>6, <2>7, <2>8, <2>9, <2>10, <2>11, <2>12, <2>13, <2>14,
             <2>16, <2>15
<1> QED BY <1>1, Invariance, PTL DEF Spec
=============================================================================
