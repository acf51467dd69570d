-------------------------- MODULE GrpcStreamProofs --------------------------
(***************************************************************************)
(* Proofs about GrpcStream, for any number of messages of the client and   *)
(* of the server.                                                          *)
(*                                                                         *)
(* The worker queue is seen through the set of its callbacks: three lemmas *)
(* say what adding, taking and dropping callbacks do to it, and the steps  *)
(* of the stream are then about sets.  The invariant has three layers, each *)
(* inductive given those before it: the operations under way, the writes   *)
(* and what the server receives, and what the observer hears.              *)
(***************************************************************************)
EXTENDS GrpcStream, SequenceTheorems, FiniteSetTheorems, TLAPS

-----------------------------------------------------------------------------
(* The worker queue *)

\* The callbacks on the worker queue, and those of one kind of operation.
Queued == {worker[i] : i \in 1..Len(worker)}
Has(t) == \E c \in Queued : c.type = t
Once(t) == \A i, j \in 1..Len(worker) :
             worker[i].type = t /\ worker[j].type = t => i = j

LEMMA Added ==
  ASSUME TypeOK, NEW c \in Callbacks, worker' = Append(worker, c)
  PROVE  /\ worker' \in Seq(Callbacks)
         /\ Queued' = Queued \cup {c}
         /\ \A t : t # c.type => (Has(t)' <=> Has(t)) /\ (Once(t) => Once(t)')
         /\ ~ Has(c.type) => Once(c.type)'
<1>1. worker \in Seq(Callbacks)
  BY DEF TypeOK
<1>2. /\ worker' \in Seq(Callbacks) /\ Len(worker') = Len(worker) + 1
      /\ \A i \in 1..Len(worker') :
           worker'[i] = IF i = Len(worker) + 1 THEN c ELSE worker[i]
  BY <1>1, AppendProperties
<1>3. Len(worker) \in Nat
  BY <1>1
<1>4. Queued' = Queued \cup {c}
  BY <1>2, <1>3 DEF Queued
<1>5. ASSUME NEW t, t # c.type PROVE Once(t) => Once(t)'
  BY <1>2, <1>3, <1>5 DEF Once
<1>6. ~ Has(c.type) => Once(c.type)'
  BY <1>2, <1>3 DEF Once, Has, Queued
<1> QED
  BY <1>2, <1>4, <1>5, <1>6 DEF Has

LEMMA TakenOff ==
  ASSUME TypeOK, worker # <<>>, worker' = Tail(worker)
  PROVE  /\ worker' \in Seq(Callbacks)
         /\ Head(worker) \in Callbacks
         /\ Queued = Queued' \cup {Head(worker)}
         /\ \A t : Once(t) => Once(t)'
         /\ \A t : t # Head(worker).type => (Has(t)' <=> Has(t))
         /\ \A t : t = Head(worker).type /\ Once(t) => ~ Has(t)'
<1>1. worker \in Seq(Callbacks)
  BY DEF TypeOK
<1>2. /\ worker' \in Seq(Callbacks) /\ Len(worker') = Len(worker) - 1
      /\ \A i \in 1..Len(worker') : worker'[i] = worker[i + 1]
  BY <1>1, HeadTailProperties
<1>3. Len(worker) \in Nat /\ Len(worker) > 0
  BY <1>1, EmptySeq
<1>4. Head(worker) = worker[1] /\ Head(worker) \in Callbacks
  BY <1>1, <1>3
<1>5. Queued = Queued' \cup {Head(worker)}
  <2>1. ASSUME NEW i \in 1..Len(worker) PROVE worker[i] \in Queued' \cup {Head(worker)}
    <3>1. CASE i = 1
      BY <3>1, <1>4
    <3>2. CASE i # 1
      <4>1. i - 1 \in 1..Len(worker') /\ (i - 1) + 1 = i
        BY <3>2, <1>2, <1>3
      <4> QED
        BY <4>1, <1>2 DEF Queued
    <3> QED
      BY <3>1, <3>2
  <2>2. ASSUME NEW i \in 1..Len(worker') PROVE worker'[i] \in Queued
    <3>1. i + 1 \in 1..Len(worker)
      BY <1>2, <1>3
    <3> QED
      BY <3>1, <1>2 DEF Queued
  <2>3. 1 \in 1..Len(worker)
    BY <1>3
  <2>4. Head(worker) \in Queued
    BY <2>3, <1>4 DEF Queued
  <2>5. Queued \subseteq Queued' \cup {Head(worker)}
    BY <2>1 DEF Queued
  <2>6. Queued' \subseteq Queued
    BY <2>2 DEF Queued
  <2> QED
    BY <2>4, <2>5, <2>6
<1>6. ASSUME NEW t, Once(t) PROVE Once(t)'
  BY <1>2, <1>3, <1>6 DEF Once
<1>7. ASSUME NEW t, t = Head(worker).type, Once(t) PROVE ~ Has(t)'
  <2>1. ASSUME NEW i \in 1..Len(worker') PROVE worker'[i].type # t
    <3>1. i + 1 \in 1..Len(worker) /\ 1 \in 1..Len(worker) /\ i + 1 # 1
      BY <1>2, <1>3
    <3> QED
      BY <3>1, <1>2, <1>4, <1>7 DEF Once
  <2> QED
    BY <2>1 DEF Has, Queued
<1> QED
  BY <1>2, <1>4, <1>5, <1>6, <1>7 DEF Has

LEMMA Dropped ==
  ASSUME worker' = <<>>
  PROVE  /\ worker' \in Seq(Callbacks) /\ Queued' = {}
         /\ \A t : Once(t)' /\ ~ Has(t)'
BY DEF Queued, Has, Once

LEMMA Left ==
  ASSUME worker' = worker
  PROVE  Queued' = Queued /\ \A t : (Once(t)' <=> Once(t)) /\ (Has(t)' <=> Has(t))
BY DEF Queued, Has, Once

-----------------------------------------------------------------------------
(* The operations under way *)

\* The observer is there until the end, and then all operations are over.
EndFits ==
  /\ end = "none" <=> observed
  /\ end # "none" \/ ~started => pending = {} /\ worker = <<>>
  /\ ~started => ~finished
  /\ end = "none" => written <= MaxWrites

\* A callback of a failure means that the call has ended, and a read that
\* failed without a broken connection that all messages have been read.
CallFits ==
  /\ end = "none" => wire # "cancelled"
  /\ finished /\ end = "none" => wire \in {"trailers", "broken"}
  /\ \A c \in Queued :
       ~c.ok => \/ wire = "broken"
                \/ wire = "trailers" /\ c.type = "read" /\ inbox = <<>>

\* While the call lasts there is one read, with gRPC or on the worker queue;
\* after the first failure it is one finish operation.
ReadsFit ==
  /\ Once("read")
  /\ end = "none" =>
       IF started /\ ~finished THEN Read \in pending <=> ~Has("read")
                               ELSE Read \notin pending /\ ~Has("read")

FinishFits ==
  /\ \A c \in Queued : c.type = "finish" => c = [type |-> "finish", ok |-> TRUE, msg |-> 0]
  /\ \A op \in pending : op.type = "finish" => op = Finish
  /\ end = "none" =>
       IF finished THEN Finish \in pending <=> ~Has("finish")
                   ELSE Finish \notin pending /\ ~Has("finish")

StreamInv == TypeOK /\ EndFits /\ CallFits /\ ReadsFit /\ FinishFits /\ NeverBlocks


\* The operations are told apart.
LEMMA Different ==
  /\ Read # Finish
  /\ \A m : Write(m) # Read /\ Write(m) # Finish
  /\ \A m, n : Write(m) = Write(n) => m = n
<1>1. Read.type = "read" /\ Finish.type = "finish" /\ \A m : Write(m).type = "write" /\ Write(m).msg = m
  BY DEF Read, Finish, Write
<1> QED
  BY <1>1

LEMMA StreamInit == Init => StreamInv
<1> SUFFICES ASSUME Init PROVE StreamInv
  OBVIOUS
<1>1. Queued = {} /\ \A t : Once(t) /\ ~ Has(t)
  BY DEF Init, Queued, Once, Has
<1>2. TypeOK
  <2>1. 0 \in 0..(MaxWrites + 1) /\ 0 \in 0..MaxReplies
    BY StreamBoundsAreNat
  <2> QED
    BY <2>1, EmptySeq DEF Init, TypeOK
<1>3. EndFits
  BY StreamBoundsAreNat DEF Init, EndFits
<1> QED
  BY <1>1, <1>2, <1>3 DEF Init, StreamInv, CallFits, ReadsFit, FinishFits, NeverBlocks

\* Every way a stream ends leaves no operation, and waits for none that may
\* not come back.
LEMMA ShutdownKeeps ==
  ASSUME StreamInv, end = "none", Shutdown
  PROVE  /\ finished' \in BOOLEAN /\ blocked' = FALSE
         /\ pending' = {} /\ worker' = <<>>
         /\ wire' \in {"open", "trailers", "broken", "cancelled"}
         /\ (wire' = "open" => ~ HasCompletions)
         /\ (wire' # wire => wire = "open")
         /\ (finished => wire' = wire)
         /\ (started => finished')
<1>1. CASE HasCompletions
  BY <1>1 DEF StreamInv, TypeOK, CallFits, NeverBlocks, Shutdown, Blocks
<1>2. CASE ~ HasCompletions
  <2>1. pending = {} /\ worker = <<>> /\ Queued = {}
    BY <1>2 DEF HasCompletions, Queued
  <2>2. started => finished
    BY <2>1 DEF StreamInv, ReadsFit, Has
  <2> QED
    BY <1>2, <2>1, <2>2 DEF StreamInv, TypeOK, NeverBlocks, Shutdown, Blocks
<1> QED
  BY <1>1, <1>2

\* The invariant of a stream that has ended.
LEMMA EndKeeps ==
  ASSUME StreamInv, end = "none", Shutdown, observed' = FALSE,
         end' \in {"stopped", "server", "Unavailable"},
         started' = started, active' \in BOOLEAN, buffer' \in Seq(Nat),
         written' \in 0..(MaxWrites + 1), sent' \in Seq(Nat),
         UNCHANGED <<heard, inbox, replies>>
  PROVE  StreamInv'
<1>1. /\ finished' \in BOOLEAN /\ blocked' = FALSE /\ pending' = {} /\ worker' = <<>>
      /\ wire' \in {"open", "trailers", "broken", "cancelled"}
  BY ShutdownKeeps
<1>2. Queued' = {} /\ worker' \in Seq(Callbacks) /\ \A t : Once(t)' /\ ~ Has(t)'
  BY <1>1, Dropped
<1>3. TypeOK'
  BY <1>1, <1>2 DEF StreamInv, TypeOK
<1>4. ~ started' => ~ finished'
  <2>1. ~ started => pending = {} /\ worker = <<>> /\ ~ finished
    BY DEF StreamInv, EndFits
  <2> QED
    BY <2>1 DEF Shutdown, HasCompletions
<1>5. EndFits'
  BY <1>1, <1>4 DEF EndFits
<1> QED
  BY <1>1, <1>2, <1>3, <1>5 DEF StreamInv, CallFits, ReadsFit, FinishFits, NeverBlocks

\* What the writer hands to gRPC does not touch the other operations.
LEMMA WriterKeeps ==
  ASSUME NEW queue \in Seq(Nat), NEW busy \in BOOLEAN, TypeOK, TryStartWrite(queue, busy)
  PROVE  /\ buffer' \in Seq(Nat) /\ active' \in BOOLEAN /\ pending' \subseteq Completions
         /\ (Read \in pending' <=> Read \in pending)
         /\ (Finish \in pending' <=> Finish \in pending)
         /\ \A op \in pending' : op.type = "finish" => op \in pending
<1>1. CASE queue = <<>> \/ busy
  BY <1>1 DEF TryStartWrite, TypeOK
<1>2. CASE queue # <<>> /\ ~ busy
  <2>1. /\ buffer' = Tail(queue) /\ active' = TRUE
        /\ pending' = pending \cup {Write(Head(queue))}
    BY <1>2 DEF TryStartWrite
  <2>2. Head(queue) \in Nat /\ Tail(queue) \in Seq(Nat)
    BY <1>2, HeadTailProperties
  <2>3. Write(Head(queue)) \in Completions /\ Write(Head(queue)).type = "write"
    BY <2>2 DEF Write, Completions
  <2> QED
    BY <2>1, <2>2, <2>3, Different DEF TypeOK
<1> QED
  BY <1>1, <1>2

LEMMA StreamNext == StreamInv /\ [Next]_vars => StreamInv'
<1> SUFFICES ASSUME StreamInv, [Next]_vars PROVE StreamInv'
  OBVIOUS
<1>a. TypeOK
  BY DEF StreamInv
<1> DEFINE Same == UNCHANGED <<heard, inbox, replies, started>>
<1>1. CASE Start
  <2>1. /\ worker' = worker /\ pending = {} /\ worker = <<>> /\ ~ finished /\ observed
        /\ started' = TRUE /\ pending' = {Read}
    BY <1>1 DEF Start, StreamInv, EndFits
  <2>2. Queued' = Queued /\ Queued = {} /\ \A t : (Once(t)' <=> Once(t)) /\ ~ Has(t)'
    BY <2>1, Left, Dropped
  <2>3. Read \in Completions /\ Read.type = "read"
    BY DEF Read, Completions
  <2>4. TypeOK'
    BY <1>1, <1>a, <2>1, <2>3 DEF Start, wireVars, TypeOK
  <2> QED
    BY <1>1, <2>1, <2>2, <2>3, <2>4, Different
       DEF Start, wireVars, StreamInv, EndFits, CallFits, ReadsFit, FinishFits, NeverBlocks
<1>2. CASE WriteMessage
  <2>1. /\ started /\ observed /\ written < MaxWrites /\ written' = written + 1
        /\ TryStartWrite(Append(buffer, written + 1), active)
        /\ UNCHANGED <<started, observed, finished, worker, heard, end, blocked, wireVars>>
    BY <1>2 DEF WriteMessage
  <2>2. /\ written' \in 0..(MaxWrites + 1) /\ written' <= MaxWrites /\ written + 1 \in Nat
    BY <1>a, <2>1, StreamBoundsAreNat DEF TypeOK
  <2>3. Append(buffer, written + 1) \in Seq(Nat) /\ active \in BOOLEAN
    BY <1>a, <2>2 DEF TypeOK
  <2>4. /\ buffer' \in Seq(Nat) /\ active' \in BOOLEAN /\ pending' \subseteq Completions
        /\ (Read \in pending' <=> Read \in pending)
        /\ (Finish \in pending' <=> Finish \in pending)
        /\ \A op \in pending' : op.type = "finish" => op \in pending
    BY <1>a, <2>1, <2>3, WriterKeeps
  <2>5. Queued' = Queued /\ \A t : (Once(t)' <=> Once(t)) /\ (Has(t)' <=> Has(t))
    BY <2>1, Left
  <2>6. TypeOK'
    BY <1>a, <2>1, <2>2, <2>4 DEF TypeOK, wireVars
  <2>7. EndFits'
    BY <2>1, <2>2 DEF StreamInv, EndFits
  <2> QED
    BY <2>1, <2>4, <2>5, <2>6, <2>7
       DEF wireVars, StreamInv, CallFits, ReadsFit, FinishFits, NeverBlocks
<1>3. CASE FinishImmediately
  <2>1. end = "none" /\ Shutdown /\ observed' = FALSE /\ end' = "stopped"
    BY <1>3 DEF FinishImmediately, StreamInv, EndFits
  <2> QED
    BY <1>3, <1>a, <2>1, EndKeeps DEF FinishImmediately, TypeOK
<1>4. CASE WriteAndFinish
  <2>1. end = "none" /\ Shutdown /\ observed' = FALSE /\ end' = "stopped" /\ written <= MaxWrites
    BY <1>4 DEF WriteAndFinish, StreamInv, EndFits
  <2>2. written' \in 0..(MaxWrites + 1) /\ written' \in Nat
    BY <1>4, <1>a, <2>1, StreamBoundsAreNat DEF WriteAndFinish, TypeOK
  <2>3. buffer' \in Seq(Nat)
    <3>1. buffer \in Seq(Nat) /\ Append(buffer, written') \in Seq(Nat)
      BY <1>a, <2>2 DEF TypeOK
    <3>2. buffer' = buffer \/ buffer' = Append(buffer, written')
      BY <1>4 DEF WriteAndFinish
    <3> QED
      BY <3>1, <3>2
  <2>4. sent' \in Seq(Nat)
    <3>1. sent \in Seq(Nat) /\ Append(sent, written') \in Seq(Nat)
      BY <1>a, <2>2 DEF TypeOK
    <3>2. sent' = sent \/ sent' = Append(sent, written')
      BY <1>4 DEF WriteAndFinish
    <3> QED
      BY <3>1, <3>2
  <2>5. active' \in BOOLEAN
    BY <1>4, <1>a DEF WriteAndFinish, TypeOK
  <2>6. started' = started /\ UNCHANGED <<heard, inbox, replies>>
    BY <1>4 DEF WriteAndFinish
  <2> QED
    BY <2>1, <2>2, <2>3, <2>4, <2>5, <2>6, EndKeeps
<1>5. CASE ConnectivityChanged
  <2>1. /\ end = "none" /\ Shutdown /\ observed' = FALSE /\ end' = "Unavailable"
        /\ UNCHANGED <<started, buffer, active, written, heard, inbox, replies, sent>>
    BY <1>5 DEF ConnectivityChanged, FinishAndNotify, StreamInv, EndFits
  <2> QED
    BY <1>a, <2>1, EndKeeps DEF TypeOK
<1>6. CASE RunCallback
  <2> DEFINE c == Head(worker)
  <2>1. worker # <<>> /\ end = "none" /\ observed /\ started
    BY <1>6 DEF RunCallback, StreamInv, EndFits
  <2>2. CASE worker' = Tail(worker) /\ c.type \in {"read", "write"}
             /\ UNCHANGED <<started, observed, finished, written, end, blocked, wireVars>>
             /\ buffer' \in Seq(Nat) /\ active' \in BOOLEAN /\ heard' \in Seq(Nat)
             /\ pending' \subseteq Completions
             /\ (Finish \in pending' <=> Finish \in pending)
             /\ (\A op \in pending' : op.type = "finish" => op \in pending)
             /\ (Read \in pending' <=> Read \in pending \/ (c.type = "read" /\ ~ finished))
    <3>1. /\ worker' \in Seq(Callbacks) /\ c \in Callbacks /\ Queued = Queued' \cup {c}
          /\ \A t : (Once(t) => Once(t)') /\ (t # c.type => (Has(t)' <=> Has(t)))
                    /\ (t = c.type /\ Once(t) => ~ Has(t)')
      BY <1>a, <2>1, <2>2, TakenOff
    <3>2. TypeOK'
      BY <1>a, <2>2, <3>1 DEF TypeOK, wireVars
    <3>3. EndFits'
      BY <2>1, <2>2 DEF StreamInv, EndFits
    <3>4. CallFits'
      BY <2>2, <3>1 DEF StreamInv, CallFits, wireVars
    <3>5. ReadsFit'
      <4>1. Has(c.type)
        BY <3>1 DEF Has
      <4>2. CASE c.type = "read"
        <5>1. ~ Has("read")' /\ Has("read") /\ Once("read")'
          BY <3>1, <4>1, <4>2 DEF StreamInv, ReadsFit
        <5> QED
          BY <2>1, <2>2, <4>2, <5>1 DEF StreamInv, ReadsFit
      <4>3. CASE c.type = "write"
        <5>1. "read" # c.type
          BY <4>3
        <5>2. (Has("read")' <=> Has("read")) /\ Once("read")'
          BY <3>1, <5>1 DEF StreamInv, ReadsFit
        <5> QED
          BY <2>1, <2>2, <5>1, <5>2 DEF StreamInv, ReadsFit
      <4> QED
        BY <2>2, <4>2, <4>3
    <3>6. FinishFits'
      <4>1. Has("finish")' <=> Has("finish")
        BY <2>2, <3>1
      <4> QED
        BY <2>2, <3>1, <4>1 DEF StreamInv, FinishFits
    <3> QED
      BY <2>2, <3>2, <3>3, <3>4, <3>5, <3>6 DEF StreamInv, NeverBlocks
  <2>b. c \in Callbacks /\ c \in Queued /\ Has(c.type)
    <3>1. c \in Callbacks /\ c \in Queued
      <4>1. worker \in Seq(Callbacks) /\ 1 \in 1..Len(worker) /\ c = worker[1]
        BY <1>a, <2>1, EmptySeq DEF TypeOK
      <4> QED
        BY <4>1 DEF Queued
    <3> QED
      BY <3>1 DEF Has
  <2>3. CASE c.ok /\ c.type = "read" /\ OnRead(c.msg)
    <3>1. ~ finished
      BY <2>1, <2>3, <2>b DEF StreamInv, ReadsFit
    <3>2. pending' = pending \cup {Read} /\ heard' = Append(heard, c.msg)
      BY <2>1, <2>3 DEF OnRead
    <3>3. heard' \in Seq(Nat)
      BY <1>a, <2>b, <3>2 DEF TypeOK, Callbacks
    <3>4. Read \in Completions /\ Read.type = "read"
      BY DEF Read, Completions
    <3>5. pending' \subseteq Completions /\ \A op \in pending' : op.type = "finish" => op \in pending
      BY <1>a, <3>2, <3>4 DEF TypeOK
    <3> QED
      BY <1>a, <2>2, <2>3, <3>1, <3>2, <3>3, <3>5, Different DEF OnRead, streamVars, TypeOK
  <2>4. CASE c.ok /\ c.type = "write" /\ OnWrite
    <3>1. TryStartWrite(buffer, FALSE)
      BY <2>1, <2>4 DEF OnWrite
    <3>2. buffer \in Seq(Nat) /\ FALSE \in BOOLEAN
      BY <1>a DEF TypeOK
    <3>3. /\ buffer' \in Seq(Nat) /\ active' \in BOOLEAN /\ pending' \subseteq Completions
          /\ (Read \in pending' <=> Read \in pending)
          /\ (Finish \in pending' <=> Finish \in pending)
          /\ \A op \in pending' : op.type = "finish" => op \in pending
      BY <1>a, <3>1, <3>2, WriterKeeps
    <3> QED
      BY <1>a, <2>2, <2>4, <3>3 DEF OnWrite, TypeOK
  <2>5. CASE c.ok /\ c.type = "finish" /\ OnFinish
    <3>1. finished /\ wire \in {"trailers", "broken"}
      BY <2>1, <2>5, <2>b DEF StreamInv, FinishFits, CallFits
    <3>2. StatusOfCall \in {"server", "Unavailable"}
      BY <3>1 DEF StatusOfCall
    <3>3. /\ Shutdown /\ observed' = FALSE /\ end' = StatusOfCall
          /\ UNCHANGED <<started, buffer, active, written, heard, inbox, replies, sent>>
      BY <2>1, <2>5 DEF OnFinish, FinishAndNotify
    <3> QED
      BY <1>a, <2>1, <3>2, <3>3, EndKeeps DEF TypeOK
  <2>6. CASE ~ c.ok /\ OnOperationFailed
    <3>1. wire \in {"trailers", "broken"} /\ c.type \in {"read", "write"}
      BY <2>6, <2>b DEF StreamInv, CallFits, FinishFits, Callbacks
    <3>2. CASE finished
      <4>1. c.type = "read" => FALSE
        BY <2>1, <2>b, <3>2 DEF StreamInv, ReadsFit
      <4> QED
        BY <1>a, <2>2, <2>6, <3>1, <3>2, <4>1 DEF OnOperationFailed, TypeOK
    <3>3. CASE ~ finished
      <4>1. /\ finished' = TRUE /\ blocked' = FALSE /\ pending' = {Finish} /\ worker' = <<>>
            /\ UNCHANGED <<started, observed, buffer, active, written, heard, end, wireVars>>
        BY <2>6, <3>1, <3>3 DEF OnOperationFailed, FinishGrpcCall, Blocks, StreamInv, NeverBlocks
      <4>2. Queued' = {} /\ worker' \in Seq(Callbacks) /\ \A t : Once(t)' /\ ~ Has(t)'
        BY <4>1, Dropped
      <4>3. Finish \in Completions
        BY DEF Finish, Completions
      <4>4. TypeOK'
        BY <1>a, <4>1, <4>2, <4>3 DEF TypeOK, wireVars
      <4> QED
        BY <2>1, <3>1, <4>1, <4>2, <4>4, Different
           DEF wireVars, StreamInv, EndFits, CallFits, ReadsFit, FinishFits, NeverBlocks
    <3> QED
      BY <3>2, <3>3
  <2> QED
    BY <1>6, <2>3, <2>4, <2>5, <2>6 DEF RunCallback
<1>7. ASSUME NEW op \in pending, NEW ok \in BOOLEAN, NEW message \in Nat,
             Complete(op, ok, message), inbox' \in Seq(Nat), sent' \in Seq(Nat),
             ok \/ wire = "broken" \/ (wire = "trailers" /\ op.type = "read" /\ inbox' = <<>>),
             op.type = "finish" => ok /\ message = 0,
             op.type # "read" => inbox' = inbox,
             op.type = "read" => op = Read
      PROVE  StreamInv'
  <2> DEFINE c == [type |-> op.type, ok |-> ok, msg |-> message]
  <2>1. /\ pending' = pending \ {op} /\ worker' = Append(worker, c)
        /\ UNCHANGED <<streamVars, written, heard, end, blocked, wire, replies>>
    BY <1>7 DEF Complete
  <2>2. op \in Completions /\ c \in Callbacks /\ c.type = op.type
    BY <1>a DEF TypeOK, Completions, Callbacks
  <2>3. /\ worker' \in Seq(Callbacks) /\ Queued' = Queued \cup {c}
        /\ \A t : t # op.type => (Has(t)' <=> Has(t)) /\ (Once(t) => Once(t)')
        /\ ~ Has(op.type) => Once(op.type)'
    BY <1>a, <2>1, <2>2, Added
  <2>4. end = "none" /\ started
    BY DEF StreamInv, EndFits
  <2>5. TypeOK'
    BY <1>7, <1>a, <2>1, <2>3 DEF TypeOK, streamVars
  <2>6. EndFits'
    BY <2>1, <2>4 DEF StreamInv, EndFits, streamVars
  <2>7. op.type = "read" => ~ Has("read")
    BY <1>7, <2>4 DEF StreamInv, ReadsFit
  <2>8. CallFits'
    <3>1. op.type = "read" => \A d \in Queued : d.type # "read"
      BY <2>7 DEF Has
    <3>2. ASSUME NEW d \in Queued, ~ d.ok
          PROVE  wire = "broken" \/ (wire = "trailers" /\ d.type = "read" /\ inbox' = <<>>)
      BY <1>7, <3>1, <3>2 DEF StreamInv, CallFits
    <3>3. ~ c.ok => wire = "broken" \/ (wire = "trailers" /\ c.type = "read" /\ inbox' = <<>>)
      BY <1>7
    <3> QED
      BY <2>1, <2>3, <3>2, <3>3 DEF StreamInv, CallFits, streamVars
  <2>9. ReadsFit'
    <3>1. CASE op.type = "read"
      <4>1. Has("read")' /\ Once("read")' /\ Read \notin pending' /\ Read \in pending
        BY <1>7, <2>1, <2>2, <2>3, <2>7, <3>1 DEF Has
      <4> QED
        BY <2>1, <4>1 DEF StreamInv, ReadsFit, streamVars
    <3>2. CASE op.type # "read"
      <4>1. Read.type = "read"
        BY DEF Read
      <4>2. (Read \in pending' <=> Read \in pending) /\ (Has("read")' <=> Has("read"))
        BY <2>1, <2>3, <3>2, <4>1
      <4>3. Once("read")'
        BY <2>3, <3>2 DEF StreamInv, ReadsFit
      <4> QED
        BY <2>1, <4>2, <4>3 DEF StreamInv, ReadsFit, streamVars
    <3> QED
      BY <3>1, <3>2
  <2>10. FinishFits'
    <3>1. CASE op.type = "finish"
      <4>1. op = Finish /\ c = [type |-> "finish", ok |-> TRUE, msg |-> 0]
        BY <1>7, <3>1 DEF StreamInv, FinishFits
      <4>2. Has("finish")' /\ Finish \notin pending' /\ Finish \in pending
        BY <2>1, <2>3, <4>1 DEF Has
      <4> QED
        BY <2>1, <2>3, <2>4, <4>1, <4>2 DEF StreamInv, FinishFits, streamVars
    <3>2. CASE op.type # "finish"
      <4>1. Finish.type = "finish"
        BY DEF Finish
      <4>2. (Finish \in pending' <=> Finish \in pending) /\ (Has("finish")' <=> Has("finish"))
        BY <2>1, <2>3, <3>2, <4>1
      <4> QED
        BY <2>1, <2>2, <2>3, <3>2, <4>2 DEF StreamInv, FinishFits, streamVars
    <3> QED
      BY <3>1, <3>2
  <2> QED
    BY <2>1, <2>5, <2>6, <2>8, <2>9, <2>10 DEF StreamInv, NeverBlocks
<1>8. Read.type = "read" /\ Finish.type = "finish" /\ \A m : Write(m).type = "write"
  BY DEF Read, Finish, Write
<1>9. CASE ReadComes
  <2>1. Head(inbox) \in Nat /\ inbox' \in Seq(Nat)
    BY <1>9, <1>a, HeadTailProperties DEF ReadComes, TypeOK
  <2> QED
    BY <1>7, <1>8, <1>9, <1>a, <2>1 DEF ReadComes, TypeOK
<1>10. CASE ReadFails
  BY <1>7, <1>8, <1>10, <1>a DEF ReadFails, TypeOK
<1>11. CASE FinishComes
  BY <1>7, <1>8, <1>11, <1>a DEF FinishComes, TypeOK
<1>12. ASSUME NEW m \in 1..MaxWrites, WriteGoesOut(m) PROVE StreamInv'
  <2>1. m \in Nat
    BY StreamBoundsAreNat
  <2>2. sent' \in Seq(Nat)
    BY <1>12, <1>a, <2>1 DEF WriteGoesOut, TypeOK
  <2> QED
    BY <1>7, <1>8, <1>12, <1>a, <2>1, <2>2 DEF WriteGoesOut, TypeOK
<1>13. ASSUME NEW m \in 1..MaxWrites, WriteFails(m) PROVE StreamInv'
  <2>1. m \in Nat
    BY StreamBoundsAreNat
  <2> QED
    BY <1>7, <1>8, <1>13, <1>a, <2>1 DEF WriteFails, TypeOK
<1>14. CASE ServerReplies
  <2>1. /\ wire = "open" /\ replies < MaxReplies /\ replies' = replies + 1
        /\ inbox' = Append(inbox, replies + 1)
        /\ UNCHANGED <<streamVars, pending, worker, written, heard, end, blocked, wire, sent>>
    BY <1>14 DEF ServerReplies
  <2>2. replies' \in 0..MaxReplies /\ replies' \in Nat
    BY <1>a, <2>1, StreamBoundsAreNat DEF TypeOK
  <2>3. inbox' \in Seq(Nat)
    BY <1>a, <2>1, <2>2 DEF TypeOK
  <2>4. Queued' = Queued /\ \A t : (Once(t)' <=> Once(t)) /\ (Has(t)' <=> Has(t))
    BY <2>1, Left
  <2>5. TypeOK'
    BY <1>a, <2>1, <2>2, <2>3 DEF TypeOK, streamVars
  <2> QED
    BY <2>1, <2>4, <2>5
       DEF streamVars, StreamInv, EndFits, CallFits, ReadsFit, FinishFits, NeverBlocks
<1>15. CASE CallEnds
  <2>1. /\ wire = "open" /\ wire' \in {"trailers", "broken"}
        /\ UNCHANGED <<streamVars, pending, worker, written, heard, end, blocked,
                       inbox, replies, sent>>
    BY <1>15 DEF CallEnds
  <2>2. Queued' = Queued /\ \A t : (Once(t)' <=> Once(t)) /\ (Has(t)' <=> Has(t))
    BY <2>1, Left
  <2>3. TypeOK'
    BY <1>a, <2>1 DEF TypeOK, streamVars
  <2> QED
    BY <2>1, <2>2, <2>3
       DEF streamVars, StreamInv, EndFits, CallFits, ReadsFit, FinishFits, NeverBlocks
<1>16. CASE UNCHANGED vars
  <2>1. Queued' = Queued /\ \A t : (Once(t)' <=> Once(t)) /\ (Has(t)' <=> Has(t))
    BY <1>16, Left DEF vars
  <2>2. TypeOK'
    BY <1>16, <1>a DEF TypeOK, vars, streamVars, wireVars
  <2> QED
    BY <1>16, <2>1, <2>2 DEF vars, streamVars, wireVars,
         StreamInv, EndFits, CallFits, ReadsFit, FinishFits, NeverBlocks
<1> QED
  BY <1>1, <1>2, <1>3, <1>4, <1>5, <1>6, <1>9, <1>10, <1>11, <1>12, <1>13, <1>14, <1>15, <1>16
     DEF Next, ClientStep, GrpcStep

LEMMA StreamHolds == Spec => []StreamInv
BY StreamInit, StreamNext, PTL DEF Spec

\* Every variable keeps its type; in particular the observer is only ever
\* notified of the status of a call that has ended.
THEOREM TypeCorrect == Spec => []TypeOK
BY StreamHolds, PTL DEF StreamInv

\* The worker queue never waits for an operation of a call that goes on,
\* however stops, failures and answers interleave.
THEOREM Unblocked == Spec => []NeverBlocks
BY StreamHolds, PTL DEF StreamInv

\* FinishGrpcCall is called at most once, and a stream is destroyed with
\* nothing under way.
THEOREM OneFinish == Spec => []FinishedOnce
<1>1. StreamInv => FinishedOnce
  <2> SUFFICES ASSUME StreamInv PROVE FinishedOnce
    OBVIOUS
  <2>1. end # "none" => ~ HasCompletions
    BY DEF StreamInv, EndFits, HasCompletions
  <2> DEFINE back == [type |-> "finish", ok |-> TRUE, msg |-> 0]
  <2>2. Finishes = {op \in pending : op.type = "finish"} \cup {c \in Queued : c.type = "finish"}
    BY DEF Finishes, Queued
  <2>3. ASSUME end = "none", ~ finished PROVE Finishes = {}
    BY <2>2, <2>3 DEF StreamInv, FinishFits, Has
  <2>4. ASSUME end = "none", finished PROVE Finishes = {Finish} \/ Finishes = {back}
    <3>1. CASE Finish \in pending
      BY <2>2, <2>4, <3>1 DEF StreamInv, FinishFits, Has, Finish
    <3>2. CASE Finish \notin pending
      <4>1. {c \in Queued : c.type = "finish"} = {back}
        BY <2>4, <3>2 DEF StreamInv, FinishFits, Has
      <4> QED
        BY <2>2, <3>2, <4>1 DEF StreamInv, FinishFits
    <3> QED
      BY <3>1, <3>2
  <2>5. Cardinality({}) = 0 /\ \A x : Cardinality({x}) = 1
    BY FS_EmptySet, FS_Singleton
  <2> QED
    BY <2>1, <2>3, <2>4, <2>5 DEF FinishedOnce
<1> QED
  BY <1>1, StreamHolds, PTL

-----------------------------------------------------------------------------
(* The writes *)

\* The write that was handed to gRPC last, and whether it has not come back.
Last == written - Len(buffer)
Writing == Write(Last) \in pending

\* One write is under way, the one before those in the buffer; without it the
\* buffer is empty.
WritesFit ==
  /\ Once("write")
  /\ \A op \in pending : op.type = "write" => op = Write(Last) /\ ~Has("write")
  /\ ~active => buffer = <<>> /\ ~Writing /\ ~Has("write")
  /\ Len(buffer) <= written
  /\ \A i \in 1..Len(buffer) : buffer[i] = Last + i

\* The server has received the writes in order, all of them while the call is
\* open.
SentFits ==
  /\ Len(sent) <= Last
  /\ \A i \in 1..Len(sent) : sent[i] = i
  /\ Writing => Len(sent) < Last
  /\ end = "none" /\ wire = "open" => Len(sent) = IF Writing THEN Last - 1 ELSE Last

WriteInv == WritesFit /\ SentFits

LEMMA WriteInit == Init => WriteInv
<1> SUFFICES ASSUME Init PROVE WriteInv
  OBVIOUS
<1>1. Queued = {} /\ \A t : Once(t) /\ ~ Has(t)
  BY DEF Init, Queued, Once, Has
<1>2. Last = 0 /\ Len(buffer) = 0 /\ Len(sent) = 0 /\ ~ Writing
  <2>1. buffer = <<>> /\ sent = <<>> /\ written = 0 /\ pending = {}
    BY DEF Init
  <2>2. Len(buffer) = 0 /\ Len(sent) = 0
    BY <2>1
  <2>3. Last = 0
    <3>1. 0 - 0 = 0
      OBVIOUS
    <3> QED
      BY <2>1, <2>2, <3>1, Zenon DEF Last
  <2>4. ~ Writing
    BY <2>1 DEF Writing
  <2> QED
    BY <2>2, <2>3, <2>4
<1> QED
  BY <1>1, <1>2 DEF Init, WriteInv, WritesFit, SentFits

\* Steps that are about other operations.
LEMMA WritesLeft ==
  ASSUME WriteInv, UNCHANGED <<buffer, written, active, sent>>,
         Once("write")', Has("write")' => Has("write"),
         \A op \in pending' : op.type = "write" => op \in pending,
         end' = "none" /\ wire' = "open" =>
           end = "none" /\ wire = "open" /\ (Writing => Writing')
  PROVE  WriteInv'
<1>1. Last' = Last /\ Write(Last).type = "write"
  BY DEF Last, Write
<1>2. Writing' => Writing
  BY <1>1 DEF Writing
<1> QED
  BY <1>1, <1>2 DEF WriteInv, WritesFit, SentFits

\* The writer takes the messages in the order in which they were written.
LEMMA WriterTakes ==
  ASSUME NEW queue \in Seq(Nat), NEW busy \in BOOLEAN, TryStartWrite(queue, busy),
         NEW last \in Nat, Len(queue) <= last,
         \A i \in 1..Len(queue) : queue[i] = last - Len(queue) + i
  PROVE  /\ Len(buffer') <= last
         /\ \A i \in 1..Len(buffer') : buffer'[i] = last - Len(buffer') + i
         /\ \/ /\ queue = <<>> \/ busy
               /\ buffer' = queue /\ active' = busy /\ pending' = pending
            \/ /\ queue # <<>> /\ ~ busy /\ active' = TRUE
               /\ Len(buffer') = Len(queue) - 1
               /\ pending' = pending \cup {Write(last - Len(buffer'))}
<1>1. CASE queue = <<>> \/ busy
  BY <1>1 DEF TryStartWrite
<1>2. CASE queue # <<>> /\ ~ busy
  <2>1. /\ buffer' = Tail(queue) /\ active' = TRUE
        /\ pending' = pending \cup {Write(Head(queue))}
    BY <1>2 DEF TryStartWrite
  <2>2. /\ buffer' \in Seq(Nat) /\ Len(buffer') = Len(queue) - 1
        /\ \A i \in 1..Len(buffer') : buffer'[i] = queue[i + 1]
    BY <1>2, <2>1, HeadTailProperties
  <2>3. Len(queue) \in Nat /\ Len(queue) > 0 /\ Head(queue) = queue[1]
    BY <1>2, EmptySeq
  <2>4. Head(queue) = last - Len(buffer')
    BY <2>2, <2>3
  <2>5. ASSUME NEW i \in 1..Len(buffer') PROVE buffer'[i] = last - Len(buffer') + i
    <3>1. i + 1 \in 1..Len(queue) /\ i \in Nat
      BY <2>2, <2>3
    <3>2. queue[i + 1] = last - Len(queue) + (i + 1)
      BY <3>1
    <3> QED
      BY <2>2, <2>3, <3>1, <3>2
  <2>6. pending' = pending \cup {Write(last - Len(buffer'))}
    BY <2>1, <2>4
  <2>7. Len(buffer') <= last
    BY <2>2, <2>3
  <2> QED
    BY <1>2, <2>1, <2>2, <2>5, <2>6, <2>7
<1> QED
  BY <1>1, <1>2

LEMMA WriteNext == StreamInv /\ WriteInv /\ [Next]_vars => WriteInv'
<1> SUFFICES ASSUME StreamInv, WriteInv, [Next]_vars PROVE WriteInv'
  OBVIOUS
<1>a. TypeOK
  BY DEF StreamInv
<1>b. /\ written \in Nat /\ Len(buffer) \in Nat /\ Len(sent) \in Nat
      /\ Last \in Nat /\ Last = written - Len(buffer)
      /\ buffer \in Seq(Nat) /\ sent \in Seq(Nat)
  BY <1>a, StreamBoundsAreNat DEF TypeOK, WriteInv, WritesFit, Last
<1>c. Read.type = "read" /\ Finish.type = "finish" /\ \A m : Write(m).type = "write"
  BY DEF Read, Finish, Write
<1>1. CASE Start
  <2>1. /\ worker' = worker /\ pending' = {Read} /\ pending = {}
        /\ UNCHANGED <<buffer, written, active, sent, end, wire>>
    BY <1>1 DEF Start, wireVars, StreamInv, EndFits
  <2>2. \A t : (Once(t)' <=> Once(t)) /\ (Has(t)' <=> Has(t))
    BY <2>1, Left
  <2>3. ~ Writing
    BY <2>1 DEF Writing
  <2> QED
    BY <1>c, <2>1, <2>2, <2>3, WritesLeft DEF WriteInv, WritesFit
<1>2. CASE WriteMessage
  <2> DEFINE queue == Append(buffer, written + 1)
  <2>1. /\ written' = written + 1 /\ TryStartWrite(queue, active)
        /\ UNCHANGED <<worker, end, wire, sent>>
    BY <1>2 DEF WriteMessage, wireVars
  <2>2. /\ queue \in Seq(Nat) /\ Len(queue) = Len(buffer) + 1 /\ queue # <<>>
        /\ \A i \in 1..Len(buffer) : queue[i] = buffer[i]
        /\ queue[Len(buffer) + 1] = written + 1
    <3>1. buffer \in Seq(Nat) /\ written + 1 \in Nat
      BY <1>b
    <3> QED
      BY <3>1, AppendProperties
  <2>3. written + 1 \in Nat /\ Len(queue) <= written + 1
    BY <1>b, <2>2 DEF WriteInv, WritesFit
  <2>4. ASSUME NEW i \in 1..Len(queue) PROVE queue[i] = (written + 1) - Len(queue) + i
    <3>1. CASE i = Len(buffer) + 1
      BY <1>b, <2>2, <3>1
    <3>2. CASE i \in 1..Len(buffer)
      <4>1. buffer[i] = Last + i
        BY <3>2 DEF WriteInv, WritesFit
      <4> QED
        BY <1>b, <2>2, <3>2, <4>1
    <3> QED
      BY <1>b, <2>2, <3>1, <3>2
  <2> HIDE DEF queue
  <2>5. /\ Len(buffer') <= written'
        /\ \A i \in 1..Len(buffer') : buffer'[i] = written' - Len(buffer') + i
        /\ \/ /\ active
              /\ buffer' = queue /\ active' = active /\ pending' = pending
           \/ /\ ~ active /\ active' = TRUE
              /\ Len(buffer') = Len(queue) - 1
              /\ pending' = pending \cup {Write(written' - Len(buffer'))}
    <3>1. active \in BOOLEAN
      BY <1>a DEF TypeOK
    <3>2. /\ Len(buffer') <= written + 1
          /\ \A i \in 1..Len(buffer') : buffer'[i] = (written + 1) - Len(buffer') + i
          /\ \/ /\ queue = <<>> \/ active
                /\ buffer' = queue /\ active' = active /\ pending' = pending
             \/ /\ queue # <<>> /\ ~ active /\ active' = TRUE
                /\ Len(buffer') = Len(queue) - 1
                /\ pending' = pending \cup {Write((written + 1) - Len(buffer'))}
      BY <2>1, <2>2, <2>3, <2>4, <3>1, WriterTakes
    <3> QED
      BY <2>1, <2>2, <3>2, Zenon
  <2>6. Once("write")' /\ (Has("write")' <=> Has("write"))
    BY <2>1, Left DEF WriteInv, WritesFit
  <2>7. CASE active
    <3>0. buffer' = queue /\ active' = active /\ pending' = pending
      BY <2>5, <2>7, Zenon
    <3>1. Last' = Last
      <4>1. Len(buffer') = Len(buffer) + 1 /\ written' = written + 1
        BY <2>1, <2>2, <3>0
      <4> QED
        BY <1>b, <4>1 DEF Last
    <3>2. Writing' <=> Writing
      BY <3>0, <3>1 DEF Writing
    <3> QED
      BY <2>1, <2>5, <2>6, <2>7, <3>1, <3>2 DEF WriteInv, WritesFit, SentFits, Last
  <2>8. CASE ~ active
    <3>1. buffer = <<>> /\ Len(buffer) = 0 /\ ~ Writing /\ ~ Has("write")
      BY <1>b, <2>8 DEF WriteInv, WritesFit
    <3>2. Last' = written + 1 /\ Last = written
      BY <1>b, <2>1, <2>2, <2>5, <2>8, <3>1 DEF Last
    <3>3. \A op \in pending : op.type # "write"
      BY <3>1 DEF WriteInv, WritesFit, Writing
    <3>4. pending' = pending \cup {Write(Last')} /\ active' = TRUE
      BY <2>5, <2>8 DEF Last
    <3>5. Writing'
      BY <3>4 DEF Writing
    <3>6. Len(sent) <= Last /\ Last' = Last + 1 /\ (end = "none" /\ wire = "open" => Len(sent) = Last)
      BY <3>1, <3>2 DEF WriteInv, SentFits
    <3>7. WritesFit'
      BY <2>5, <2>6, <3>1, <3>3, <3>4 DEF WritesFit, Last
    <3>8. SentFits'
      <4>1. sent' = sent /\ end' = end /\ wire' = wire
        BY <2>1
      <4>2. /\ Len(sent) <= Last' /\ Len(sent) < Last'
            /\ end = "none" /\ wire = "open" => Len(sent) = Last' - 1
        BY <1>b, <3>6
      <4> QED
        BY <3>5, <4>1, <4>2 DEF WriteInv, SentFits
    <3> QED
      BY <3>7, <3>8 DEF WriteInv
  <2> QED
    BY <2>7, <2>8
<1>d. ASSUME Shutdown, end = "none", end' # "none", UNCHANGED <<buffer, written, active, sent>>
      PROVE  WriteInv'
  <2>1. pending' = {} /\ worker' = <<>>
    BY <1>d, ShutdownKeeps
  <2>2. Once("write")' /\ ~ Has("write")'
    BY <2>1, Dropped
  <2> QED
    BY <1>d, <2>1, <2>2, WritesLeft
<1>3. CASE FinishImmediately
  BY <1>3, <1>d DEF FinishImmediately, StreamInv, EndFits
<1>4. CASE WriteAndFinish
  <2>1. /\ Shutdown /\ end = "none" /\ end' # "none"
        /\ written' = IF finished THEN written ELSE written + 1
        /\ buffer' = IF active /\ ~ finished THEN Append(buffer, written') ELSE buffer
        /\ active' = (active \/ ~ finished)
        /\ \/ sent' = sent
           \/ ~ finished /\ ~ active /\ wire = "open" /\ sent' = Append(sent, written')
    BY <1>4 DEF WriteAndFinish, StreamInv, EndFits
  <2>2. CASE finished
    BY <1>a, <1>d, <2>1, <2>2 DEF TypeOK
  <2>3. CASE ~ finished
    <3>1. pending' = {} /\ worker' = <<>> /\ ~ Writing'
      BY <2>1, ShutdownKeeps DEF Writing
    <3>2. Once("write")' /\ ~ Has("write")'
      BY <3>1, Dropped
    <3>3. written' = written + 1 /\ active' = TRUE /\ written' \in Nat
      <4>1. written' = written + 1
        BY <2>1, <2>3
      <4>2. active' = TRUE
        BY <2>1, <2>3, Zenon
      <4> QED
        BY <1>b, <4>1, <4>2
    <3>4. CASE active
      <4>1. /\ buffer' = Append(buffer, written + 1) /\ sent' = sent
            /\ Len(buffer') = Len(buffer) + 1
            /\ \A i \in 1..Len(buffer) : buffer'[i] = buffer[i]
            /\ buffer'[Len(buffer) + 1] = written + 1
        BY <1>b, <2>1, <2>3, <3>3, <3>4, AppendProperties
      <4>2. Last' = Last
        BY <1>b, <3>3, <4>1 DEF Last
      <4>3. Last + (Len(buffer) + 1) = written + 1
        BY <1>b
      <4>4. ASSUME NEW i \in 1..Len(buffer') PROVE buffer'[i] = Last' + i
        <5>1. CASE i = Len(buffer) + 1
          BY <4>1, <4>2, <4>3, <5>1
        <5>2. CASE i \in 1..Len(buffer)
          <6>1. buffer[i] = Last + i
            BY <5>2 DEF WriteInv, WritesFit
          <6> QED
            BY <4>1, <4>2, <5>2, <6>1
        <5> QED
          BY <1>b, <4>1, <5>1, <5>2
      <4>5. Len(buffer') <= written'
        BY <1>b, <3>3, <4>1 DEF WriteInv, WritesFit
      <4>6. WritesFit'
        BY <3>1, <3>2, <3>3, <4>4, <4>5 DEF WritesFit
      <4>7. SentFits'
        BY <2>1, <3>1, <4>1, <4>2 DEF WriteInv, SentFits
      <4> QED
        BY <4>6, <4>7 DEF WriteInv
    <3>5. CASE ~ active
      <4>1. buffer' = <<>> /\ Len(buffer') = 0 /\ Len(buffer) = 0 /\ ~ Writing
        BY <1>b, <2>1, <3>5 DEF WriteInv, WritesFit
      <4>2. Last' = Last + 1 /\ Last = written
        BY <1>b, <3>3, <4>1 DEF Last
      <4>3. WritesFit'
        BY <3>1, <3>2, <3>3, <4>1 DEF WritesFit
      <4>4. CASE sent' = sent
        BY <1>b, <2>1, <3>1, <4>2, <4>3, <4>4 DEF WriteInv, SentFits
      <4>5. CASE wire = "open" /\ sent' = Append(sent, written')
        <5>1. Len(sent) = Last
          BY <2>1, <4>1, <4>5 DEF WriteInv, SentFits
        <5>2. /\ Len(sent') = Last' /\ sent'[Last'] = Last'
              /\ \A i \in 1..Last : sent'[i] = sent[i]
          BY <1>b, <3>3, <4>2, <4>5, <5>1, AppendProperties
        <5>3. ASSUME NEW i \in 1..Len(sent') PROVE sent'[i] = i
          <6>1. i = Last' \/ i \in 1..Len(sent)
            BY <1>b, <4>2, <5>1, <5>2
          <6> QED
            BY <5>1, <5>2, <6>1 DEF WriteInv, SentFits
        <5>4. Len(sent') <= Last'
          BY <1>b, <4>2, <5>2
        <5> QED
          BY <2>1, <3>1, <4>3, <5>3, <5>4 DEF WriteInv, SentFits
      <4> QED
        BY <2>1, <4>4, <4>5
    <3> QED
      BY <3>4, <3>5
  <2> QED
    BY <2>2, <2>3
<1>5. CASE ConnectivityChanged
  BY <1>5, <1>d DEF ConnectivityChanged, FinishAndNotify, StreamInv, EndFits
<1>6. CASE RunCallback
  <2> DEFINE c == Head(worker)
  <2>1. worker # <<>> /\ end = "none" /\ observed
    BY <1>6 DEF RunCallback, StreamInv, EndFits
  <2>2. ASSUME worker' = Tail(worker)
        PROVE  /\ c \in Queued /\ Has(c.type) /\ Once("write")'
               /\ (Has("write")' => Has("write"))
               /\ (c.type = "write" => ~ Has("write")')
    <3>1. /\ Queued = Queued' \cup {c} /\ \A t : Once(t) => Once(t)'
          /\ \A t : t = c.type /\ Once(t) => ~ Has(t)'
      BY <1>a, <2>1, <2>2, TakenOff
    <3> QED
      BY <3>1 DEF WriteInv, WritesFit, Has
  <2>3. CASE c.ok /\ c.type = "read" /\ OnRead(c.msg)
    <3>1. /\ worker' = Tail(worker) /\ pending' = pending \cup {Read}
          /\ UNCHANGED <<buffer, written, active, sent, end, wire>>
      BY <2>1, <2>3 DEF OnRead, streamVars, wireVars
    <3>2. Last' = Last
      BY <3>1 DEF Last
    <3> QED
      BY <1>c, <2>2, <3>1, <3>2, WritesLeft DEF Writing
  <2>4. CASE c.ok /\ c.type = "write" /\ OnWrite
    <3>1. /\ worker' = Tail(worker) /\ TryStartWrite(buffer, FALSE)
          /\ UNCHANGED <<written, end, wire, sent>>
      BY <2>1, <2>4 DEF OnWrite, wireVars
    <3>2. Has("write") /\ Once("write")' /\ ~ Has("write")'
      BY <2>2, <2>4, <3>1
    <3>3. ~ Writing /\ \A op \in pending : op.type # "write"
      BY <1>c, <3>2 DEF WriteInv, WritesFit, Writing
    <3>4. /\ Len(buffer') <= written'
          /\ \A i \in 1..Len(buffer') : buffer'[i] = written' - Len(buffer') + i
          /\ \/ /\ buffer = <<>>
                /\ buffer' = buffer /\ active' = FALSE /\ pending' = pending
             \/ /\ buffer # <<>> /\ active' = TRUE
                /\ Len(buffer') = Len(buffer) - 1
                /\ pending' = pending \cup {Write(written' - Len(buffer'))}
      <4>1. Len(buffer) <= written /\ \A i \in 1..Len(buffer) : buffer[i] = written - Len(buffer) + i
        BY <1>b DEF WriteInv, WritesFit
      <4> QED
        BY <1>b, <3>1, <4>1, WriterTakes
    <3>5. CASE buffer = <<>>
      <4>1. Last' = Last /\ active' = FALSE /\ buffer' = <<>> /\ pending' = pending
        BY <3>1, <3>4, <3>5 DEF Last
      <4>2. ~ Writing'
        BY <3>3, <4>1 DEF Writing
      <4> QED
        BY <3>1, <3>2, <3>3, <3>4, <4>1, <4>2 DEF WriteInv, WritesFit, SentFits, Last
    <3>6. CASE buffer # <<>>
      <4>1. /\ active' = TRUE /\ Last' = Last + 1
            /\ pending' = pending \cup {Write(Last')}
        <5>1. /\ active' = TRUE /\ Len(buffer') = Len(buffer) - 1
              /\ pending' = pending \cup {Write(written' - Len(buffer'))}
          BY <3>4, <3>6, Zenon
        <5>2. Last' = Last + 1
          BY <1>b, <3>1, <5>1 DEF Last
        <5> QED
          BY <5>1, <5>2 DEF Last
      <4>2. Writing'
        BY <4>1 DEF Writing
      <4>3. WritesFit'
        BY <3>2, <3>3, <3>4, <4>1 DEF WritesFit, Last
      <4>4. Len(sent) <= Last /\ (end = "none" /\ wire = "open" => Len(sent) = Last)
        BY <3>3 DEF WriteInv, SentFits
      <4>5. SentFits'
        <5>1. sent' = sent /\ end' = end /\ wire' = wire
          BY <3>1
        <5>2. Len(sent) <= Last' /\ Len(sent) < Last' /\ (end = "none" /\ wire = "open" => Len(sent) = Last' - 1)
          BY <1>b, <4>1, <4>4
        <5> QED
          BY <4>2, <5>1, <5>2 DEF WriteInv, SentFits
      <4> QED
        BY <4>3, <4>5 DEF WriteInv
    <3> QED
      BY <3>5, <3>6
  <2>5. CASE c.ok /\ c.type = "finish" /\ OnFinish
    <3>1. c \in Queued /\ c \in Callbacks
      <4>1. worker \in Seq(Callbacks) /\ 1 \in 1..Len(worker) /\ c = worker[1]
        BY <1>a, <2>1, EmptySeq DEF TypeOK
      <4> QED
        BY <4>1 DEF Queued
    <3>2. finished /\ wire \in {"trailers", "broken"}
      BY <2>1, <2>5, <3>1 DEF StreamInv, FinishFits, CallFits, Has
    <3> QED
      BY <1>d, <2>1, <2>5, <3>2 DEF OnFinish, FinishAndNotify, StatusOfCall
  <2>6. CASE ~ c.ok /\ OnOperationFailed
    <3>1. UNCHANGED <<buffer, written, active, sent, end, wire>>
      BY <2>6 DEF OnOperationFailed, wireVars
    <3>2. c \in Queued
      <4>1. worker \in Seq(Callbacks) /\ 1 \in 1..Len(worker) /\ c = worker[1]
        BY <1>a, <2>1, EmptySeq DEF TypeOK
      <4> QED
        BY <4>1 DEF Queued
    <3>3. wire # "open"
      BY <2>6, <3>2 DEF StreamInv, CallFits
    <3>4. CASE finished
      <4>1. worker' = Tail(worker) /\ pending' = pending
        BY <2>6, <3>4 DEF OnOperationFailed
      <4> QED
        BY <2>2, <3>1, <3>3, <4>1, WritesLeft
    <3>5. CASE ~ finished
      <4>1. worker' = <<>> /\ pending' = {Finish}
        BY <2>6, <3>5 DEF OnOperationFailed, FinishGrpcCall
      <4>2. Once("write")' /\ ~ Has("write")'
        BY <4>1, Dropped
      <4> QED
        BY <1>c, <3>1, <3>3, <4>1, <4>2, WritesLeft
    <3> QED
      BY <3>4, <3>5
  <2> QED
    BY <1>6, <2>3, <2>4, <2>5, <2>6 DEF RunCallback
<1>7. ASSUME NEW op \in pending, NEW ok \in BOOLEAN, NEW message \in Nat,
             Complete(op, ok, message), op.type # "write", sent' = sent
      PROVE  WriteInv'
  <2> DEFINE d == [type |-> op.type, ok |-> ok, msg |-> message]
  <2>1. /\ pending' = pending \ {op} /\ worker' = Append(worker, d)
        /\ UNCHANGED <<buffer, written, active, end, wire>>
    BY <1>7 DEF Complete, streamVars
  <2>2. d \in Callbacks /\ d.type = op.type
    BY <1>a DEF TypeOK, Completions, Callbacks
  <2>3. (Has("write")' <=> Has("write")) /\ Once("write")'
    BY <1>7, <1>a, <2>1, <2>2, Added DEF WriteInv, WritesFit
  <2>4. Writing => Writing'
    BY <1>7, <1>c, <2>1 DEF Writing, Last
  <2> QED
    BY <1>7, <2>1, <2>3, <2>4, WritesLeft
<1>8. CASE ReadComes
  <2>1. Head(inbox) \in Nat
    BY <1>8, <1>a, HeadTailProperties DEF ReadComes, TypeOK
  <2> QED
    BY <1>7, <1>8, <1>c, <2>1 DEF ReadComes
<1>9. CASE ReadFails
  BY <1>7, <1>9, <1>c DEF ReadFails
<1>10. CASE FinishComes
  BY <1>7, <1>10, <1>c DEF FinishComes
<1>11. ASSUME NEW m \in 1..MaxWrites, WriteGoesOut(m) \/ WriteFails(m) PROVE WriteInv'
  <2>1. PICK ok \in BOOLEAN :
          /\ Write(m) \in pending /\ Complete(Write(m), ok, m)
          /\ sent' = IF ok /\ wire = "open" THEN Append(sent, m) ELSE sent
          /\ ~ ok => wire = "broken"
    <3>1. CASE WriteGoesOut(m)
      <4>1. /\ Write(m) \in pending /\ Complete(Write(m), TRUE, m)
            /\ sent' = IF TRUE /\ wire = "open" THEN Append(sent, m) ELSE sent
        BY <3>1 DEF WriteGoesOut
      <4> QED
        BY <4>1
    <3>2. CASE WriteFails(m)
      <4>1. /\ Write(m) \in pending /\ Complete(Write(m), FALSE, m)
            /\ wire = "broken" /\ sent' = sent
        BY <3>2 DEF WriteFails
      <4> QED
        BY <4>1
    <3> QED
      BY <1>11, <3>1, <3>2
  <2>2. m = Last /\ Writing /\ ~ Has("write") /\ m \in Nat /\ active
    <3>1. Write(m) = Write(Last) /\ ~ Has("write")
      BY <1>c, <2>1 DEF WriteInv, WritesFit
    <3>2. m = Last
      BY <3>1 DEF Write
    <3> QED
      BY <1>b, <2>1, <3>1, <3>2 DEF Writing, WriteInv, WritesFit
  <2> DEFINE d == [type |-> "write", ok |-> ok, msg |-> m]
  <2>3. /\ pending' = pending \ {Write(Last)} /\ worker' = Append(worker, d)
        /\ UNCHANGED <<buffer, written, active, end, wire>>
    BY <1>c, <2>1, <2>2 DEF Complete, streamVars
  <2>4. d \in Callbacks /\ d.type = "write"
    BY <2>2 DEF Callbacks
  <2>5. Once("write")'
    BY <1>a, <2>2, <2>3, <2>4, Added
  <2>6. Last' = Last /\ ~ Writing' /\ \A op \in pending' : op.type # "write"
    BY <2>3 DEF Last, Writing, WriteInv, WritesFit
  <2>7. WritesFit'
    BY <2>2, <2>3, <2>5, <2>6 DEF WriteInv, WritesFit
  <2>8. Len(sent) < Last /\ (end = "none" /\ wire = "open" => Len(sent) = Last - 1)
    BY <2>2 DEF WriteInv, SentFits
  <2>9. CASE sent' = sent
    <3>1. wire = "open" => FALSE
      <4>1. SUFFICES ASSUME wire = "open" PROVE FALSE
        OBVIOUS
      <4>2. sent' = Append(sent, m)
        BY <2>1, <4>1
      <4>3. Len(sent') = Len(sent) + 1
        BY <1>b, <2>2, <4>2, AppendProperties
      <4> QED
        BY <1>b, <2>9, <4>3
    <3> QED
      BY <1>b, <2>3, <2>6, <2>7, <2>8, <2>9, <3>1 DEF WriteInv, SentFits
  <2>10. CASE wire = "open" /\ sent' = Append(sent, m)
    <3>1. end = "none"
      BY <2>1 DEF StreamInv, EndFits
    <3>2. Len(sent) = Last - 1
      BY <2>8, <2>10, <3>1
    <3>3. /\ Len(sent') = Last /\ sent'[Last] = Last
          /\ \A i \in 1..Len(sent) : sent'[i] = sent[i]
      BY <1>b, <2>2, <2>10, <3>2, AppendProperties
    <3>4. ASSUME NEW i \in 1..Len(sent') PROVE sent'[i] = i
      <4>0. i \in 1..Last
        BY <3>3
      <4>1. i = Last \/ i \in 1..Len(sent)
        BY <1>b, <3>2, <4>0
      <4>2. CASE i = Last
        BY <3>3, <4>2
      <4>3. CASE i \in 1..Len(sent)
        <5>1. sent[i] = i
          BY <4>3 DEF WriteInv, SentFits
        <5> QED
          BY <3>3, <4>3, <5>1
      <4> QED
        BY <4>1, <4>2, <4>3
    <3>5. SentFits'
      BY <1>b, <2>6, <3>3, <3>4 DEF SentFits
    <3> QED
      BY <2>7, <3>5 DEF WriteInv
  <2> QED
    BY <2>1, <2>9, <2>10
<1>12. ASSUME UNCHANGED <<buffer, written, active, sent, pending, worker, end>>,
              wire' = wire \/ wire' # "open"
       PROVE  WriteInv'
  <2>1. (Once("write")' <=> Once("write")) /\ (Has("write")' <=> Has("write"))
    BY <1>12, Left
  <2>2. Writing' <=> Writing
    BY <1>12 DEF Writing, Last
  <2> QED
    BY <1>12, <2>1, <2>2, WritesLeft DEF WriteInv, WritesFit
<1>13. CASE ServerReplies
  BY <1>12, <1>13 DEF ServerReplies, streamVars
<1>14. CASE CallEnds
  BY <1>12, <1>14 DEF CallEnds, streamVars
<1>15. CASE UNCHANGED vars
  BY <1>12, <1>15 DEF vars, streamVars, wireVars
<1> QED
  BY <1>1, <1>2, <1>3, <1>4, <1>5, <1>6, <1>8, <1>9, <1>10, <1>11, <1>13, <1>14, <1>15
     DEF Next, ClientStep, GrpcStep

\* Messages go to gRPC one at a time, and the server receives what was written
\* before the call ended in its order, for any number of messages.
THEOREM WritesInOrder == Spec => []OneWriteAtATime
<1>1. StreamInv /\ WriteInv => OneWriteAtATime
  <2> SUFFICES ASSUME StreamInv, WriteInv PROVE OneWriteAtATime
    OBVIOUS
  <2>1. ASSUME NEW m \in 1..MaxWrites, NEW n \in 1..MaxWrites,
               Write(m) \in pending, Write(n) \in pending
        PROVE  m = n
    <3>1. Write(m).type = "write" /\ Write(n).type = "write"
      BY DEF Write
    <3>2. Write(m) = Write(n)
      BY <2>1, <3>1 DEF WriteInv, WritesFit
    <3> QED
      BY <3>2, Different
  <2>2. Last <= written /\ Len(sent) \in Nat /\ written \in Nat /\ Last \in Int
    BY StreamBoundsAreNat DEF StreamInv, TypeOK, Last
  <2> QED
    BY <2>1, <2>2 DEF WriteInv, SentFits, OneWriteAtATime
<1> QED
  BY <1>1, StreamInit, StreamNext, WriteInit, WriteNext, PTL DEF Spec

-----------------------------------------------------------------------------
(* What the observer hears *)

\* The message on the worker queue, if there is one, and those in the inbox
\* follow on what was heard.
Arrived == \E c \in Queued : c.type = "read" /\ c.ok
Taken == Len(heard) + (IF Arrived THEN 1 ELSE 0)

Follows ==
  /\ \A c \in Queued : c.type = "read" /\ c.ok => c.msg = Len(heard) + 1
  /\ Taken + Len(inbox) = replies
  /\ \A i \in 1..Len(inbox) : inbox[i] = Taken + i

HeardInv ==
  /\ HeardAsSent
  /\ end = "none" /\ ~finished => Follows
  /\ end = "none" /\ finished /\ wire = "trailers" => Len(heard) = replies
  /\ end = "server" => wire # "open"

LEMMA HeardInit == Init => HeardInv
<1> SUFFICES ASSUME Init PROVE HeardInv
  OBVIOUS
<1>1. Queued = {} /\ ~ Arrived
  BY DEF Init, Queued, Arrived
<1>2. heard = <<>> /\ inbox = <<>> /\ replies = 0 /\ end = "none"
  BY DEF Init
<1>3. Len(heard) = 0 /\ Len(inbox) = 0
  BY <1>2
<1>4. Taken = 0
  <2>1. 0 + 0 = 0
    OBVIOUS
  <2> QED
    BY <1>1, <1>3, <2>1, Zenon DEF Taken
<1>5. Follows
  BY <1>1, <1>2, <1>3, <1>4 DEF Follows
<1>6. HeardAsSent
  BY <1>2, <1>3 DEF HeardAsSent
<1> QED
  BY <1>2, <1>5, <1>6 DEF Init, HeardInv

\* The callbacks of reads that have brought a message.
Brought == {c \in Queued : c.type = "read" /\ c.ok}

\* Steps that are not about the messages of the server.
LEMMA HeardLeft ==
  ASSUME HeardInv, UNCHANGED <<heard, inbox, replies, end>>,
         end = "none" /\ ~ finished' => ~ finished /\ Brought' = Brought,
         end = "none" /\ finished' /\ wire' = "trailers" => finished /\ wire = "trailers",
         wire' = wire \/ wire = "open"
  PROVE  HeardInv'
<1>1. HeardAsSent'
  BY DEF HeardInv, HeardAsSent
<1>2. ASSUME end = "none", ~ finished' PROVE Follows'
  <2>1. Brought' = Brought /\ Follows
    BY <1>2 DEF HeardInv
  <2>2. (Arrived' <=> Arrived) /\ Taken' = Taken
    <3>1. Arrived' <=> Arrived
      BY <2>1 DEF Arrived, Brought
    <3> QED
      BY <3>1 DEF Taken
  <2>3. \A c \in Queued' : c.type = "read" /\ c.ok => c \in Queued
    BY <2>1 DEF Brought
  <2> QED
    BY <2>1, <2>2, <2>3 DEF Follows
<1>3. end = "server" => wire' # "open"
  BY DEF HeardInv
<1> QED
  BY <1>1, <1>2, <1>3 DEF HeardInv

\* However the stream ends: the status of the server comes after all its
\* messages.
LEMMA HeardAtTheEnd ==
  ASSUME StreamInv, HeardInv, end = "none", Shutdown, UNCHANGED <<heard, inbox, replies>>,
         end' # "none", end' = "server" => finished /\ wire = "trailers"
  PROVE  HeardInv'
<1>1. finished => wire' = wire
  BY ShutdownKeeps
<1>2. end' = "server" => Len(heard) = replies /\ wire' # "open"
  BY <1>1 DEF HeardInv
<1> QED
  BY <1>2 DEF HeardInv, HeardAsSent

LEMMA HeardNext == StreamInv /\ HeardInv /\ [Next]_vars => HeardInv'
<1> SUFFICES ASSUME StreamInv, HeardInv, [Next]_vars PROVE HeardInv'
  OBVIOUS
<1>a. TypeOK
  BY DEF StreamInv
<1>b. /\ heard \in Seq(Nat) /\ inbox \in Seq(Nat) /\ replies \in Nat
      /\ Len(heard) \in Nat /\ Len(inbox) \in Nat
  BY <1>a, StreamBoundsAreNat DEF TypeOK
<1>c. Read.type = "read" /\ Finish.type = "finish" /\ \A m : Write(m).type = "write"
  BY DEF Read, Finish, Write
<1>d. end = "none" /\ Read \in pending => started /\ ~ finished /\ ~ Has("read")
  BY DEF StreamInv, ReadsFit
<1>e. pending # {} \/ worker # <<>> => end = "none" /\ observed
  BY DEF StreamInv, EndFits
<1>f. ASSUME worker' = worker PROVE Brought' = Brought
  BY <1>f, Left DEF Brought
<1>1. CASE Start
  BY <1>1, <1>f, HeardLeft DEF Start, wireVars
<1>2. CASE WriteMessage
  BY <1>2, <1>f, HeardLeft DEF WriteMessage, wireVars
<1>3. CASE FinishImmediately
  BY <1>3, HeardAtTheEnd DEF FinishImmediately, StreamInv, EndFits
<1>4. CASE WriteAndFinish
  BY <1>4, HeardAtTheEnd DEF WriteAndFinish, StreamInv, EndFits
<1>5. CASE ConnectivityChanged
  <2>1. end = "none"
    BY <1>5 DEF ConnectivityChanged, StreamInv, EndFits
  <2>2. Shutdown /\ end' = "Unavailable" /\ UNCHANGED <<heard, inbox, replies>>
    BY <1>5, <2>1 DEF ConnectivityChanged, FinishAndNotify
  <2> QED
    BY <2>1, <2>2, HeardAtTheEnd
<1>6. CASE RunCallback
  <2> DEFINE c == Head(worker)
  <2>1. worker # <<>> /\ end = "none" /\ observed
    BY <1>6, <1>e DEF RunCallback
  <2>2. c \in Queued /\ c \in Callbacks
    <3>1. worker \in Seq(Callbacks) /\ 1 \in 1..Len(worker) /\ c = worker[1]
      BY <1>a, <2>1, EmptySeq DEF TypeOK
    <3> QED
      BY <3>1 DEF Queued
  <2>3. ASSUME worker' = Tail(worker)
        PROVE  /\ Queued = Queued' \cup {c} /\ (c.type = "read" => ~ Has("read")')
    <3>1. /\ Queued = Queued' \cup {c}
          /\ \A t : t = c.type /\ Once(t) => ~ Has(t)'
      BY <1>a, <2>1, <2>3, TakenOff
    <3> QED
      BY <3>1 DEF StreamInv, ReadsFit
  <2>4. c.type = "read" => ~ finished
    BY <2>1, <2>2 DEF StreamInv, ReadsFit, Has
  <2>5. CASE c.ok /\ c.type = "read" /\ OnRead(c.msg)
    <3>1. /\ worker' = Tail(worker) /\ heard' = Append(heard, c.msg)
          /\ UNCHANGED <<inbox, replies, end, wire, finished>>
      BY <2>1, <2>5 DEF OnRead, streamVars, wireVars
    <3>2. Follows /\ ~ finished
      BY <2>1, <2>4, <2>5 DEF HeardInv
    <3>3. c.msg = Len(heard) + 1 /\ Arrived
      BY <2>2, <2>5, <3>2 DEF Follows, Arrived
    <3>4. /\ Len(heard') = Len(heard) + 1 /\ heard'[Len(heard) + 1] = Len(heard) + 1
          /\ \A i \in 1..Len(heard) : heard'[i] = heard[i]
      BY <1>b, <3>1, <3>3, AppendProperties
    <3>5. ~ Has("read")' /\ ~ Arrived'
      BY <2>3, <2>5, <3>1 DEF Has, Arrived
    <3>6. Taken = Len(heard) + 1
      BY <3>3 DEF Taken
    <3>7. Taken' = Taken
      <4>1. Taken' = Len(heard') + 0
        BY <3>5 DEF Taken
      <4> QED
        BY <1>b, <3>4, <3>6, <4>1
    <3>8. Follows'
      <4>1. \A d \in Queued' : ~ (d.type = "read" /\ d.ok)
        BY <3>5 DEF Arrived
      <4> QED
        BY <3>1, <3>2, <3>7, <4>1 DEF Follows
    <3>9. HeardAsSent'
      <4>1. ASSUME NEW i \in 1..Len(heard') PROVE heard'[i] = i
        <5>1. CASE i = Len(heard) + 1
          BY <3>4, <5>1
        <5>2. CASE i \in 1..Len(heard)
          <6>1. heard[i] = i
            BY <5>2 DEF HeardInv, HeardAsSent
          <6> QED
            BY <3>4, <5>2, <6>1
        <5>3. i \in 1..(Len(heard) + 1)
          BY <3>4
        <5> QED
          BY <1>b, <5>1, <5>2, <5>3
      <4>2. Len(heard') <= replies'
        <5>1. Taken + Len(inbox) = replies
          BY <3>2 DEF Follows
        <5> QED
          BY <1>b, <3>1, <3>4, <3>6, <5>1
      <4> QED
        BY <2>1, <3>1, <4>1, <4>2 DEF HeardAsSent
    <3> QED
      BY <2>1, <3>1, <3>2, <3>8, <3>9 DEF HeardInv
  <2>6. CASE c.ok /\ c.type = "write" /\ OnWrite
    <3>1. worker' = Tail(worker) /\ UNCHANGED <<heard, inbox, replies, end, wire, finished>>
      BY <2>6 DEF OnWrite, wireVars
    <3>2. Brought' = Brought
      BY <2>3, <2>6, <3>1 DEF Brought
    <3> QED
      BY <3>1, <3>2, HeardLeft
  <2>7. CASE c.ok /\ c.type = "finish" /\ OnFinish
    <3>1. finished
      BY <2>1, <2>2, <2>7 DEF StreamInv, FinishFits, Has
    <3>2. /\ Shutdown /\ end' = StatusOfCall /\ UNCHANGED <<heard, inbox, replies>>
      BY <2>1, <2>7 DEF OnFinish, FinishAndNotify
    <3>3. end' # "none" /\ (end' = "server" => wire = "trailers")
      BY <3>2 DEF StatusOfCall
    <3> QED
      BY <2>1, <3>1, <3>2, <3>3, HeardAtTheEnd
  <2>8. CASE ~ c.ok /\ OnOperationFailed
    <3>1. UNCHANGED <<heard, inbox, replies, end, wire>>
      BY <2>8 DEF OnOperationFailed, wireVars
    <3>2. CASE finished
      <4>1. worker' = Tail(worker) /\ finished' = finished
        BY <2>8, <3>2 DEF OnOperationFailed
      <4> QED
        BY <3>1, <3>2, <4>1, HeardLeft
    <3>3. CASE ~ finished
      <4>1. finished' = TRUE
        BY <2>8, <3>3 DEF OnOperationFailed, FinishGrpcCall
      <4>2. ASSUME wire = "trailers" PROVE Len(heard) = replies
        <5>1. c.type = "read" /\ inbox = <<>>
          BY <2>2, <2>8, <4>2 DEF StreamInv, CallFits
        <5>2. ~ Arrived
          <6>1. ASSUME NEW d \in Queued, d.type = "read" PROVE d = c
            <7>1. worker \in Seq(Callbacks) /\ 1 \in 1..Len(worker) /\ c = worker[1]
              BY <1>a, <2>1, EmptySeq DEF TypeOK
            <7>2. PICK i \in 1..Len(worker) : d = worker[i]
              BY DEF Queued
            <7> QED
              BY <5>1, <6>1, <7>1, <7>2 DEF StreamInv, ReadsFit, Once
          <6> QED
            BY <2>8, <6>1 DEF Arrived
        <5>3. Taken = Len(heard) + 0 /\ Len(inbox) = 0
          BY <5>1, <5>2 DEF Taken
        <5>4. Taken + Len(inbox) = replies
          BY <2>1, <3>3 DEF HeardInv, Follows
        <5> QED
          BY <1>b, <5>3, <5>4
      <4> QED
        BY <2>1, <3>1, <4>1, <4>2 DEF HeardInv, HeardAsSent
    <3> QED
      BY <3>2, <3>3
  <2> QED
    BY <1>6, <2>5, <2>6, <2>7, <2>8 DEF RunCallback
<1>7. ASSUME NEW op \in pending, NEW ok \in BOOLEAN, NEW message \in Nat,
             Complete(op, ok, message), op.type = "read" => ~ ok, inbox' = inbox
      PROVE  HeardInv'
  <2> DEFINE d == [type |-> op.type, ok |-> ok, msg |-> message]
  <2>1. /\ worker' = Append(worker, d)
        /\ UNCHANGED <<heard, replies, end, wire, finished>>
    BY <1>7 DEF Complete, streamVars
  <2>2. d \in Callbacks
    BY <1>a DEF TypeOK, Completions, Callbacks
  <2>3. Queued' = Queued \cup {d}
    BY <1>a, <2>1, <2>2, Added
  <2>4. Brought' = Brought
    BY <1>7, <2>3 DEF Brought
  <2> QED
    BY <1>7, <2>1, <2>4, HeardLeft
<1>8. CASE ReadComes
  <2> DEFINE d == [type |-> "read", ok |-> TRUE, msg |-> Head(inbox)]
  <2>1. /\ Read \in pending /\ inbox # <<>> /\ inbox' = Tail(inbox)
        /\ worker' = Append(worker, d)
        /\ UNCHANGED <<heard, replies, end, wire, finished>>
    BY <1>8, <1>c DEF ReadComes, Complete, streamVars
  <2>2. end = "none" /\ ~ finished /\ ~ Has("read") /\ Follows
    BY <1>d, <1>e, <2>1 DEF HeardInv
  <2>3. ~ Arrived /\ Taken = Len(heard)
    <3>1. ~ Arrived
      BY <2>2 DEF Has, Arrived
    <3>2. Taken = Len(heard) + 0
      BY <3>1 DEF Taken
    <3> QED
      BY <1>b, <3>1, <3>2
  <2>4. /\ Len(inbox') = Len(inbox) - 1 /\ Len(inbox) > 0
        /\ \A i \in 1..Len(inbox') : inbox'[i] = inbox[i + 1]
        /\ Head(inbox) = inbox[1] /\ Head(inbox) \in Nat
    BY <1>b, <2>1, EmptySeq, HeadTailProperties
  <2>5. Head(inbox) = Len(heard) + 1
    <3>1. inbox[1] = Taken + 1
      BY <1>b, <2>2, <2>4 DEF Follows
    <3> QED
      BY <2>3, <2>4, <3>1
  <2>6. Queued' = Queued \cup {d}
    <3>1. d \in Callbacks
      BY <2>4 DEF Callbacks
    <3> QED
      BY <1>a, <2>1, <3>1, Added
  <2>7. Arrived' /\ Taken' = Len(heard) + 1
    <3>1. Arrived'
      <4>1. d \in Queued' /\ d.type = "read" /\ d.ok
        BY <2>6
      <4> HIDE DEF d
      <4> QED
        BY <4>1 DEF Arrived
    <3> QED
      BY <2>1, <3>1 DEF Taken
  <2>8. \A e \in Queued' : e.type = "read" /\ e.ok => e.msg = Len(heard) + 1
    BY <2>3, <2>5, <2>6 DEF Arrived
  <2>9. Taken' + Len(inbox') = replies
    <3>1. Taken + Len(inbox) = replies
      BY <2>2 DEF Follows
    <3> QED
      BY <1>b, <2>3, <2>4, <2>7, <3>1
  <2>10. ASSUME NEW i \in 1..Len(inbox') PROVE inbox'[i] = Taken' + i
    <3>1. i + 1 \in 1..Len(inbox) /\ i \in Nat
      BY <1>b, <2>4
    <3>2. inbox[i + 1] = Taken + (i + 1)
      BY <2>2, <3>1 DEF Follows
    <3> QED
      BY <1>b, <2>3, <2>4, <2>7, <3>1, <3>2
  <2>11. Follows'
    BY <2>1, <2>8, <2>9, <2>10 DEF Follows
  <2>12. HeardAsSent'
    BY <2>1 DEF HeardInv, HeardAsSent
  <2> QED
    BY <2>1, <2>2, <2>11, <2>12 DEF HeardInv
<1>9. CASE ReadFails
  BY <1>7, <1>9, <1>c DEF ReadFails
<1>10. CASE FinishComes
  BY <1>7, <1>10, <1>c DEF FinishComes
<1>11. ASSUME NEW m \in 1..MaxWrites, WriteGoesOut(m) \/ WriteFails(m) PROVE HeardInv'
  <2>1. m \in Nat /\ Write(m).type # "read"
    BY <1>c, StreamBoundsAreNat
  <2>2. CASE WriteGoesOut(m)
    BY <1>7, <2>1, <2>2 DEF WriteGoesOut
  <2>3. CASE WriteFails(m)
    BY <1>7, <2>1, <2>3 DEF WriteFails
  <2> QED
    BY <1>11, <2>2, <2>3
<1>12. CASE ServerReplies
  <2>1. /\ wire = "open" /\ replies' = replies + 1 /\ inbox' = Append(inbox, replies + 1)
        /\ UNCHANGED <<heard, end, wire, finished, worker>>
    BY <1>12 DEF ServerReplies, streamVars
  <2>2. Queued' = Queued
    BY <2>1, Left
  <2>3. Taken' = Taken /\ (Taken = Len(heard) \/ Taken = Len(heard) + 1)
    <3>1. Arrived' <=> Arrived
      BY <2>2 DEF Arrived
    <3>2. Taken' = Taken
      BY <2>1, <3>1 DEF Taken
    <3>3. CASE Arrived
      BY <3>2, <3>3 DEF Taken
    <3>4. CASE ~ Arrived
      <4>1. Taken = Len(heard) + 0
        BY <3>4 DEF Taken
      <4> QED
        BY <1>b, <3>2, <4>1
    <3> QED
      BY <3>3, <3>4
  <2>4. /\ Len(inbox') = Len(inbox) + 1 /\ inbox'[Len(inbox) + 1] = replies + 1
        /\ \A i \in 1..Len(inbox) : inbox'[i] = inbox[i]
    BY <1>b, <2>1, AppendProperties
  <2>5. HeardAsSent'
    <3>1. Len(heard') <= replies'
      BY <1>b, <2>1 DEF HeardInv, HeardAsSent
    <3>2. end # "server"
      BY <2>1 DEF HeardInv
    <3> QED
      BY <2>1, <3>1, <3>2 DEF HeardInv, HeardAsSent
  <2>6. ASSUME Follows PROVE Follows'
    <3>1. Taken' + Len(inbox') = replies'
      <4>1. Taken + Len(inbox) = replies
        BY <2>6 DEF Follows
      <4>2. Taken' = Taken /\ Taken \in Nat
        BY <1>b, <2>3
      <4>3. Len(inbox') = Len(inbox) + 1 /\ replies' = replies + 1
        BY <2>1, <2>4
      <4>4. Len(inbox) \in Nat /\ replies \in Nat
        BY <1>b
      <4>5. Taken' + Len(inbox') = Taken + (Len(inbox) + 1)
        BY <4>2, <4>3
      <4>6. Taken + (Len(inbox) + 1) = (Taken + Len(inbox)) + 1
        BY <4>2, <4>4
      <4> QED
        BY <4>1, <4>3, <4>5, <4>6
    <3>2. ASSUME NEW i \in 1..Len(inbox') PROVE inbox'[i] = Taken' + i
      <4>0. i \in 1..(Len(inbox) + 1)
        BY <2>4
      <4>1. CASE i = Len(inbox) + 1
        <5>1. Taken + Len(inbox) = replies
          BY <2>6 DEF Follows
        <5>2. Taken' = Taken /\ Taken \in Nat
          BY <1>b, <2>3
        <5>3. Taken' + i = replies + 1
          BY <1>b, <4>1, <5>1, <5>2
        <5> QED
          BY <2>4, <4>1, <5>3
      <4>2. CASE i \in 1..Len(inbox)
        <5>1. inbox[i] = Taken + i
          BY <2>6, <4>2 DEF Follows
        <5> QED
          BY <2>3, <2>4, <4>2, <5>1
      <4> QED
        BY <1>b, <4>0, <4>1, <4>2
    <3> QED
      BY <2>1, <2>2, <2>6, <3>1, <3>2 DEF Follows
  <2> QED
    BY <2>1, <2>5, <2>6 DEF HeardInv
<1>13. CASE CallEnds
  <2>1. /\ wire = "open" /\ UNCHANGED <<heard, inbox, replies, end, finished, worker>>
    BY <1>13 DEF CallEnds, streamVars
  <2>2. end = "none" => ~ finished
    BY <2>1 DEF StreamInv, CallFits
  <2> QED
    BY <1>f, <2>1, <2>2, HeardLeft
<1>14. CASE UNCHANGED vars
  BY <1>14, <1>f, HeardLeft DEF vars, streamVars, wireVars
<1> QED
  BY <1>1, <1>2, <1>3, <1>4, <1>5, <1>6, <1>8, <1>9, <1>10, <1>11, <1>12, <1>13, <1>14
     DEF Next, ClientStep, GrpcStep

\* The messages of the server reach the observer in order and without a gap,
\* and its status after the last of them, for any number of messages.
THEOREM HeardInOrder == Spec => []HeardAsSent
<1>1. HeardInv => HeardAsSent
  BY DEF HeardInv
<1> QED
  BY <1>1, StreamInit, StreamNext, HeardInit, HeardNext, PTL DEF Spec

-----------------------------------------------------------------------------
(* The channel *)

\* Nothing happens to a call that has not been started.
IdleInv == ~started => wire = "open"

LEMMA IdleInit == Init => IdleInv
BY DEF Init, IdleInv

LEMMA IdleNext == StreamInv /\ IdleInv /\ [Next]_vars => IdleInv'
<1> SUFFICES ASSUME StreamInv, IdleInv, [Next]_vars, ~ started' PROVE wire' = "open"
  BY DEF IdleInv
<1>1. ASSUME ~ started, Shutdown PROVE wire' = wire
  BY <1>1 DEF StreamInv, EndFits, Shutdown, HasCompletions
<1>2. ~ started
  BY DEF Next, ClientStep, Start, WriteMessage, FinishImmediately, WriteAndFinish,
         ConnectivityChanged, FinishAndNotify, RunCallback, OnRead, OnWrite, OnFinish,
         OnOperationFailed, GrpcStep, ReadComes, ReadFails, FinishComes, WriteGoesOut,
         WriteFails, Complete, ServerReplies, CallEnds, vars, streamVars
<1>3. pending = {} /\ worker = <<>> /\ wire = "open"
  BY <1>2 DEF StreamInv, EndFits, IdleInv
<1>4. ~ RunCallback /\ ~ GrpcStep
  BY <1>3 DEF RunCallback, GrpcStep, ReadComes, ReadFails, FinishComes, WriteGoesOut, WriteFails
<1>5. CASE FinishImmediately \/ ConnectivityChanged
  BY <1>1, <1>2, <1>3, <1>5 DEF FinishImmediately, ConnectivityChanged, FinishAndNotify
<1> QED
  BY <1>2, <1>3, <1>4, <1>5
     DEF Next, ClientStep, Start, WriteMessage, WriteAndFinish, ServerReplies, CallEnds,
         vars, wireVars

ChannelInv == StreamInv /\ WriteInv /\ HeardInv /\ IdleInv

LEMMA ChannelHolds == Spec => []ChannelInv
BY StreamInit, StreamNext, WriteInit, WriteNext, HeardInit, HeardNext, IdleInit, IdleNext, PTL
   DEF Spec, ChannelInv

\* However the stream ends, an open call is over for both sides.
LEMMA EndIsTold ==
  ASSUME ChannelInv, end = "none", Shutdown, UNCHANGED <<started, replies, heard>>,
         end' \in {"stopped", "server", "Unavailable"}
  PROVE  Channel!Tell(end')
<1>1. /\ (wire' = "open" => ~ HasCompletions)
      /\ (wire' # wire => wire = "open")
      /\ (finished => wire' = wire)
      /\ wire' \in {"open", "trailers", "broken", "cancelled"}
  BY ShutdownKeeps DEF ChannelInv
<1>2. wire \in {"open", "trailers", "broken", "cancelled"}
  BY DEF ChannelInv, StreamInv, TypeOK
<1>3. wire' = IF HasCompletions /\ ~ finished /\ wire = "open" THEN "cancelled" ELSE wire
  BY DEF Shutdown
<1>4. CASE ~ started
  BY <1>4 DEF Channel!Tell, Call
<1>5. CASE started /\ wire = "open"
  <2>1. ~ finished
    BY <1>5 DEF ChannelInv, StreamInv, CallFits
  <2>2. HasCompletions
    <3>1. Read \in pending \/ Has("read")
      BY <1>5, <2>1 DEF ChannelInv, StreamInv, ReadsFit
    <3>2. ASSUME Has("read") PROVE worker # <<>>
      <4>1. PICK i \in 1..Len(worker) : worker[i].type = "read"
        BY <3>2 DEF Has, Queued
      <4>2. ASSUME worker = <<>> PROVE FALSE
        <5>1. Len(worker) = 0
          BY <4>2
        <5> QED
          BY <4>1, <5>1
      <4> QED
        BY <4>2
    <3> QED
      BY <3>1, <3>2 DEF HasCompletions
  <2> QED
    BY <1>3, <1>5, <2>1, <2>2 DEF Channel!Tell, Call
<1>6. CASE started /\ wire # "open"
  BY <1>2, <1>3, <1>6 DEF Channel!Tell, Call
<1> QED
  BY <1>4, <1>5, <1>6

\* Every step of the stream is a step of the channel or changes nothing of it.
LEMMA ChannelStep == ChannelInv /\ [Next]_vars => [Channel!Next]_Channel!vars
<1> SUFFICES ASSUME ChannelInv, [Next]_vars PROVE Channel!Next \/ UNCHANGED Channel!vars
  OBVIOUS
<1>a. TypeOK /\ StreamInv
  BY DEF ChannelInv, StreamInv
<1>b. wire \in {"open", "trailers", "broken", "cancelled"}
  BY <1>a DEF TypeOK
<1>c. /\ Len(sent) \in Nat /\ Len(heard) \in Nat /\ Len(inbox) \in Nat
      /\ written \in Nat /\ replies \in Nat
  BY <1>a, StreamBoundsAreNat DEF TypeOK
<1>d. ASSUME UNCHANGED <<started, wire>> PROVE Call' = Call
  BY <1>d DEF Call
<1>e. observed <=> end = "none"
  BY <1>a DEF StreamInv, EndFits
<1>f. pending # {} \/ worker # <<>> => end = "none" /\ started
  BY <1>a DEF StreamInv, EndFits
<1>1. CASE Start
  <2>1. Call = "idle" /\ Call' = "open"
    BY <1>1 DEF Start, Call, ChannelInv, IdleInv, wireVars
  <2> QED
    BY <1>1, <1>e, <2>1 DEF Start, wireVars, Channel!Next, Channel!Open
<1>2. CASE WriteMessage
  <2>1. /\ end = "none" /\ started /\ written' = written + 1
        /\ UNCHANGED <<started, wire, replies, heard, sent, end>>
    BY <1>2, <1>e DEF WriteMessage, wireVars
  <2>2. Call # "idle"
    BY <1>b, <2>1 DEF Call
  <2> QED
    BY <1>d, <2>1, <2>2 DEF Channel!Next, Channel!Ask
<1>3. CASE FinishImmediately
  <2>1. /\ end = "none" /\ Shutdown /\ end' = "stopped"
        /\ UNCHANGED <<started, replies, heard, written, sent>>
    BY <1>3, <1>e DEF FinishImmediately
  <2>2. Channel!Tell("stopped")
    BY <2>1, EndIsTold
  <2> QED
    BY <2>1, <2>2 DEF Channel!Next, Channel!Stop
<1>4. CASE WriteAndFinish
  <2>1. /\ end = "none" /\ started /\ Shutdown /\ end' = "stopped"
        /\ UNCHANGED <<started, replies, heard>>
        /\ written' = IF finished THEN written ELSE written + 1
        /\ \/ sent' = sent
           \/ ~ finished /\ ~ active /\ wire = "open" /\ sent' = Append(sent, written')
    BY <1>4, <1>e DEF WriteAndFinish
  <2>2. Channel!Tell("stopped")
    BY <2>1, EndIsTold
  <2>3. Call # "idle"
    BY <1>b, <2>1 DEF Call
  <2>4. CASE sent' = sent
    BY <2>1, <2>2, <2>3, <2>4 DEF Channel!Next, Channel!Stop
  <2>5. CASE sent' # sent
    <3>1. ~ finished /\ ~ active /\ wire = "open" /\ written' = written + 1
          /\ sent' = Append(sent, written + 1) /\ Call = "open"
      BY <2>1, <2>5 DEF Call
    <3>2. Len(sent) = written
      <4>1. ~ Writing /\ Len(buffer) = 0
        BY <3>1 DEF ChannelInv, WriteInv, WritesFit
      <4>2. Len(sent) = Last
        BY <2>1, <3>1, <4>1 DEF ChannelInv, WriteInv, SentFits
      <4> QED
        BY <1>c, <4>1, <4>2 DEF Last
    <3> QED
      BY <2>2, <2>3, <3>1, <3>2 DEF Channel!Next, Channel!Stop, Channel!WithNext
  <2> QED
    BY <2>4, <2>5
<1>5. CASE ConnectivityChanged
  <2>1. /\ end = "none" /\ Shutdown /\ end' = "Unavailable"
        /\ UNCHANGED <<started, replies, heard, written, sent>>
    BY <1>5, <1>e DEF ConnectivityChanged, FinishAndNotify
  <2>2. Channel!Tell("Unavailable")
    BY <2>1, EndIsTold
  <2> QED
    BY <2>1, <2>2 DEF Channel!Next, Channel!TellLoss
<1>6. CASE RunCallback
  <2> DEFINE c == Head(worker)
  <2>1. worker # <<>> /\ end = "none" /\ observed /\ started
    BY <1>6, <1>e, <1>f DEF RunCallback
  <2>2. c \in Queued /\ c \in Callbacks
    <3>1. worker \in Seq(Callbacks) /\ Len(worker) > 0 /\ c = worker[1]
      BY <1>a, <2>1, EmptySeq DEF TypeOK
    <3> QED
      BY <3>1 DEF Queued
  <2>3. CASE c.ok /\ c.type = "read" /\ OnRead(c.msg)
    <3>1. /\ heard' = Append(heard, c.msg)
          /\ UNCHANGED <<started, wire, replies, written, sent, end>>
      BY <2>1, <2>3 DEF OnRead, streamVars, wireVars
    <3>2. ~ finished
      BY <1>a, <2>1, <2>2, <2>3 DEF StreamInv, ReadsFit, Has
    <3>3. Follows /\ Arrived
      BY <2>1, <2>2, <2>3, <3>2 DEF ChannelInv, HeardInv, Arrived
    <3>4. c.msg = Len(heard) + 1 /\ Len(heard) + 1 + Len(inbox) = replies
      BY <2>2, <2>3, <3>3 DEF Follows, Taken
    <3>5. Len(heard) < replies
      BY <1>c, <3>4
    <3> QED
      BY <1>d, <2>1, <3>1, <3>4, <3>5 DEF Channel!Next, Channel!Hear, Channel!WithNext
  <2>4. CASE c.ok /\ c.type = "write" /\ OnWrite
    BY <1>d, <2>4 DEF OnWrite, wireVars, Channel!vars
  <2>5. CASE c.ok /\ c.type = "finish" /\ OnFinish
    <3>1. /\ Shutdown /\ end' = StatusOfCall
          /\ UNCHANGED <<started, replies, heard, written, sent>>
      BY <2>1, <2>5 DEF OnFinish, FinishAndNotify
    <3>2. finished
      BY <1>a, <2>1, <2>2, <2>5 DEF StreamInv, FinishFits, Has
    <3>3. wire \in {"trailers", "broken"}
      BY <1>a, <2>1, <3>2 DEF StreamInv, CallFits
    <3>4. CASE wire = "trailers"
      <4>1. end' = "server" /\ Call = "ended" /\ Len(heard) = replies
        BY <2>1, <3>1, <3>2, <3>4 DEF StatusOfCall, Call, ChannelInv, HeardInv
      <4>2. Channel!Tell("server")
        BY <2>1, <3>1, <4>1, EndIsTold
      <4> QED
        BY <3>1, <4>1, <4>2 DEF Channel!Next, Channel!TellStatus
    <3>5. CASE wire = "broken"
      <4>1. end' = "Unavailable"
        BY <3>1, <3>5 DEF StatusOfCall
      <4>2. Channel!Tell("Unavailable")
        BY <2>1, <3>1, <4>1, EndIsTold
      <4> QED
        BY <3>1, <4>2 DEF Channel!Next, Channel!TellLoss
    <3> QED
      BY <3>3, <3>4, <3>5
  <2>6. CASE ~ c.ok /\ OnOperationFailed
    BY <1>d, <2>6 DEF OnOperationFailed, wireVars, Channel!vars
  <2> QED
    BY <1>6, <2>3, <2>4, <2>5, <2>6 DEF RunCallback
<1>7. CASE ReadComes \/ ReadFails \/ FinishComes \/ \E m \in 1..MaxWrites : WriteFails(m)
  BY <1>7, <1>d DEF ReadComes, ReadFails, FinishComes, WriteFails, Complete, streamVars, Channel!vars
<1>8. ASSUME NEW m \in 1..MaxWrites, WriteGoesOut(m)
      PROVE  Channel!Next \/ UNCHANGED Channel!vars
  <2>1. /\ Write(m) \in pending /\ end = "none" /\ started
        /\ UNCHANGED <<started, wire, replies, heard, written, end>>
        /\ sent' = IF wire = "open" THEN Append(sent, m) ELSE sent
    BY <1>8, <1>f DEF WriteGoesOut, Complete, streamVars
  <2>2. CASE wire # "open"
    BY <1>d, <2>1, <2>2 DEF Channel!vars
  <2>3. CASE wire = "open"
    <3>1. m = Last /\ Writing
      <4>1. Write(m).type = "write"
        BY DEF Write
      <4>2. Write(m) = Write(Last)
        BY <2>1, <4>1 DEF ChannelInv, WriteInv, WritesFit
      <4> QED
        BY <2>1, <4>2, Different DEF Writing
    <3>2. Len(sent) = Last - 1
      BY <2>1, <2>3, <3>1 DEF ChannelInv, WriteInv, SentFits
    <3>3. m = Len(sent) + 1 /\ Len(sent) < written
      <4>1. Len(buffer) \in Nat
        BY <1>a DEF TypeOK
      <4>2. m \in Nat
        OBVIOUS
      <4>3. Last = written - Len(buffer)
        BY DEF Last
      <4> QED
        BY <1>c, <3>1, <3>2, <4>1, <4>2, <4>3
    <3>4. Call = "open"
      BY <2>1, <2>3 DEF Call
    <3> QED
      BY <1>d, <2>1, <2>3, <3>3, <3>4 DEF Channel!Next, Channel!Receive, Channel!WithNext
  <2> QED
    BY <2>2, <2>3
<1>9. CASE ServerReplies
  <2>1. Call = "open"
    BY <1>9 DEF ServerReplies, Call
  <2> QED
    BY <1>9, <1>d, <2>1 DEF ServerReplies, streamVars, Channel!Next, Channel!Reply
<1>10. CASE CallEnds
  <2>1. Call = "open" /\ Call' \in {"ended", "cut"}
    BY <1>10 DEF CallEnds, streamVars, Call
  <2> QED
    BY <1>10, <2>1 DEF CallEnds, streamVars, Channel!Next, Channel!CallIsOver
<1>11. CASE UNCHANGED vars
  BY <1>11, <1>d DEF vars, streamVars, wireVars, Channel!vars
<1> QED
  BY <1>1, <1>2, <1>3, <1>4, <1>5, <1>6, <1>7, <1>8, <1>9, <1>10, <1>11
     DEF Next, ClientStep, GrpcStep

\* The stream implements the channel, for any number of messages: whichever
\* of a failure, a connectivity change, the end of the call and a stop comes
\* first, the observer is told of that one, once and after all the messages
\* it is due, and nothing reaches either side after that.
THEOREM ImplementsChannel == Spec => ChannelSpec
<1>1. Init => Channel!Init
  BY DEF Init, Call, Channel!Init
<1> QED
  BY <1>1, ChannelHolds, ChannelStep, PTL DEF Spec, ChannelSpec, Channel!Spec

-----------------------------------------------------------------------------
(* The end of the call *)

\* The call has ended, and the observer has not been told.
Winding == started /\ wire # "open" /\ end = "none"

\* The steps of gRPC and of the worker queue that are left until it is told:
\* for the read and the messages before it that fails, for the finish
\* operation after that, and for the writes.
ReadLeft == IF Read \in pending THEN 2
            ELSE IF Arrived THEN 3
            ELSE IF Has("read") THEN 1 ELSE 0
ToRead == IF finished THEN 0 ELSE 3 * Len(inbox) + ReadLeft + 3
ToFinish == IF Finish \in pending THEN 2 ELSE IF Has("finish") THEN 1 ELSE 0
WriteLeft == IF Writing THEN 2 ELSE IF Has("write") THEN 1 ELSE 0
ToWrite == 2 * (MaxWrites - Last) + WriteLeft
StepsLeft == ToRead + ToFinish + ToWrite

LEMMA StepsCount ==
  ASSUME StreamInv, WriteInv, end = "none"
  PROVE  /\ ReadLeft \in Nat /\ WriteLeft \in Nat /\ ToFinish \in Nat
         /\ Last \in Nat /\ written \in Nat /\ MaxWrites \in Nat /\ Len(inbox) \in Nat
         /\ Last <= MaxWrites
         /\ ToRead \in Nat /\ ToWrite \in Nat /\ StepsLeft \in Nat
<1>1. /\ written \in Nat /\ Len(buffer) \in Nat /\ Len(inbox) \in Nat /\ MaxWrites \in Nat
      /\ Len(buffer) <= written /\ written <= MaxWrites
  BY StreamBoundsAreNat DEF StreamInv, TypeOK, EndFits, WriteInv, WritesFit
<1>2. Last \in Nat /\ Last <= MaxWrites
  BY <1>1 DEF Last
<1>3. ReadLeft \in Nat /\ WriteLeft \in Nat /\ ToFinish \in Nat
  BY DEF ReadLeft, WriteLeft, ToFinish
<1>4. ToRead \in Nat
  <2>1. 3 * Len(inbox) + ReadLeft + 3 \in Nat
    BY <1>1, <1>3
  <2> QED
    BY <2>1 DEF ToRead
<1>5. ToWrite \in Nat
  BY <1>1, <1>2, <1>3 DEF ToWrite
<1> QED
  BY <1>1, <1>2, <1>3, <1>4, <1>5 DEF StepsLeft

LEMMA StepsNat == StreamInv /\ WriteInv /\ end = "none" => StepsLeft \in Nat
BY StepsCount

\* A call that has ended is not stuck: there is a callback to run, or a read
\* or a finish operation that gRPC gives back.
THEOREM AlwaysAStepLeft ==
  Spec => [](Winding =>
    /\ ~ blocked
    /\ \/ worker # <<>>
       \/ Read \in pending /\ (inbox # <<>> \/ wire \in {"trailers", "broken"})
       \/ Finish \in pending)
<1>1. ASSUME StreamInv, Winding, worker = <<>>
      PROVE  Finish \in pending \/ (Read \in pending /\ wire \in {"trailers", "broken"})
  <2>1. \A t : ~ Has(t)
    <3>1. Len(worker) = 0
      BY <1>1
    <3> QED
      BY <3>1 DEF Has, Queued
  <2> QED
    BY <1>1, <2>1 DEF StreamInv, TypeOK, CallFits, ReadsFit, FinishFits, Winding
<1>2. StreamInv => ~ blocked
  BY DEF StreamInv, NeverBlocks
<1>3. StreamInv => (Winding =>
        /\ ~ blocked
        /\ \/ worker # <<>>
           \/ Read \in pending /\ (inbox # <<>> \/ wire \in {"trailers", "broken"})
           \/ Finish \in pending)
  BY <1>1, <1>2
<1> QED
  BY <1>3, StreamHolds, PTL

\* The steps of one kind of operation leave those of the others alone.
LEMMA ReadsLeft ==
  ASSUME Read \in pending' <=> Read \in pending, Brought' = Brought,
         Has("read")' <=> Has("read"), inbox' = inbox, finished' = finished
  PROVE  ToRead' = ToRead
<1>1. Arrived' <=> Arrived
  BY DEF Arrived, Brought
<1>2. ReadLeft' = ReadLeft
  BY <1>1 DEF ReadLeft
<1> QED
  BY <1>2 DEF ToRead

LEMMA FinishLeft ==
  ASSUME Finish \in pending' <=> Finish \in pending, Has("finish")' <=> Has("finish")
  PROVE  ToFinish' = ToFinish
BY DEF ToFinish

LEMMA WritingLeft ==
  ASSUME \A m : Write(m) \in pending' <=> Write(m) \in pending,
         Has("write")' <=> Has("write"), written' = written, buffer' = buffer
  PROVE  ToWrite' = ToWrite
<1>1. Last' = Last
  BY DEF Last
<1>2. WriteLeft' = WriteLeft
  BY <1>1 DEF WriteLeft, Writing
<1> QED
  BY <1>1, <1>2 DEF ToWrite

\* What gRPC gives back brings the end nearer.
LEMMA GrpcWindsDown ==
  ASSUME StreamInv, WriteInv, StreamInv', WriteInv', Winding, GrpcStep
  PROVE  StepsLeft' < StepsLeft
<1>a. TypeOK /\ end = "none" /\ started
  BY DEF StreamInv, Winding
<1>b. /\ ReadLeft \in Nat /\ WriteLeft \in Nat /\ ToFinish \in Nat
      /\ Last \in Nat /\ MaxWrites \in Nat /\ Len(inbox) \in Nat
      /\ ToRead \in Nat /\ ToWrite \in Nat
  BY <1>a, StepsCount
<1>c. Read.type = "read" /\ Finish.type = "finish" /\ \A m : Write(m).type = "write"
  BY DEF Read, Finish, Write
<1>1. ASSUME NEW op \in pending, NEW ok \in BOOLEAN, NEW message \in Nat,
             Complete(op, ok, message)
      PROVE  /\ pending' = pending \ {op} /\ end' = end /\ finished' = finished
             /\ written' = written /\ buffer' = buffer
             /\ Queued' = Queued \cup {[type |-> op.type, ok |-> ok, msg |-> message]}
             /\ \A t : t # op.type => (Has(t)' <=> Has(t))
             /\ Has(op.type)'
             /\ op.type # "read" => Brought' = Brought
  <2> DEFINE c == [type |-> op.type, ok |-> ok, msg |-> message]
  <2>1. /\ pending' = pending \ {op} /\ worker' = Append(worker, c)
        /\ end' = end /\ finished' = finished /\ written' = written /\ buffer' = buffer
    BY <1>1 DEF Complete, streamVars
  <2>2. c \in Callbacks /\ c.type = op.type
    BY <1>a DEF TypeOK, Completions, Callbacks
  <2>3. Queued' = Queued \cup {c} /\ \A t : t # op.type => (Has(t)' <=> Has(t))
    BY <1>a, <2>1, <2>2, Added
  <2>4. Has(op.type)'
    BY <2>2, <2>3 DEF Has
  <2>5. op.type # "read" => Brought' = Brought
    BY <2>2, <2>3 DEF Brought
  <2> QED
    BY <2>1, <2>3, <2>4, <2>5
<1>2. ASSUME Read \in pending, NEW ok \in BOOLEAN, NEW message \in Nat,
             Complete(Read, ok, message)
      PROVE  /\ ~ finished' /\ ~ finished /\ ReadLeft = 2 /\ ReadLeft' = IF ok THEN 3 ELSE 1
             /\ ToFinish' = ToFinish /\ ToWrite' = ToWrite
  <2>1. ~ finished /\ ~ Has("read")
    BY <1>2, <1>a DEF StreamInv, ReadsFit
  <2>2. /\ pending' = pending \ {Read} /\ finished' = finished
        /\ written' = written /\ buffer' = buffer
        /\ Queued' = Queued \cup {[type |-> "read", ok |-> ok, msg |-> message]}
        /\ (Has("finish")' <=> Has("finish")) /\ (Has("write")' <=> Has("write"))
        /\ Has("read")'
    BY <1>1, <1>2, <1>c
  <2>3. Arrived' <=> ok
    BY <2>1, <2>2 DEF Arrived, Has
  <2>4. ReadLeft = 2 /\ ReadLeft' = IF ok THEN 3 ELSE 1
    BY <1>2, <2>2, <2>3 DEF ReadLeft
  <2>5. ToFinish' = ToFinish /\ ToWrite' = ToWrite
    BY <2>2, Different, FinishLeft, WritingLeft
  <2> QED
    BY <2>1, <2>2, <2>4, <2>5
<1>3. CASE ReadComes
  <2>1. inbox \in Seq(Nat) /\ inbox # <<>>
    BY <1>3, <1>a DEF ReadComes, TypeOK
  <2>2. Head(inbox) \in Nat /\ Len(inbox') = Len(inbox) - 1
    BY <1>3, <2>1, HeadTailProperties DEF ReadComes
  <2>3. /\ ~ finished' /\ ~ finished /\ ReadLeft = 2 /\ ReadLeft' = 3
        /\ ToFinish' = ToFinish /\ ToWrite' = ToWrite
    BY <1>2, <1>3, <2>2 DEF ReadComes
  <2>4. ToRead' = ToRead - 2
    BY <1>b, <2>2, <2>3 DEF ToRead
  <2> QED
    BY <1>b, <2>3, <2>4 DEF StepsLeft
<1>4. CASE ReadFails
  <2>1. /\ ~ finished' /\ ~ finished /\ ReadLeft = 2 /\ ReadLeft' = 1
        /\ ToFinish' = ToFinish /\ ToWrite' = ToWrite
    BY <1>2, <1>4 DEF ReadFails
  <2>2. inbox' = inbox
    BY <1>4 DEF ReadFails
  <2>3. ToRead' = ToRead - 1
    BY <1>b, <2>1, <2>2 DEF ToRead
  <2> QED
    BY <1>b, <2>1, <2>3 DEF StepsLeft
<1>5. CASE FinishComes
  <2>1. Finish \in pending /\ Complete(Finish, TRUE, 0) /\ inbox' = inbox
    BY <1>5 DEF FinishComes
  <2>2. /\ pending' = pending \ {Finish} /\ finished' = finished
        /\ written' = written /\ buffer' = buffer
        /\ (Has("read")' <=> Has("read")) /\ (Has("write")' <=> Has("write"))
        /\ Has("finish")' /\ Brought' = Brought
    BY <1>1, <1>c, <2>1
  <2>3. ToRead' = ToRead /\ ToWrite' = ToWrite
    BY <2>1, <2>2, Different, ReadsLeft, WritingLeft
  <2>4. ToFinish = 2 /\ ToFinish' = 1
    BY <2>1, <2>2 DEF ToFinish
  <2> QED
    BY <1>b, <2>3, <2>4 DEF StepsLeft
<1>6. ASSUME NEW m \in 1..MaxWrites, WriteGoesOut(m) \/ WriteFails(m)
      PROVE  StepsLeft' < StepsLeft
  <2>1. PICK ok \in BOOLEAN :
          Write(m) \in pending /\ Complete(Write(m), ok, m) /\ inbox' = inbox
    BY <1>6 DEF WriteGoesOut, WriteFails
  <2>2. m \in Nat /\ m = Last
    <3>1. Write(m) = Write(Last)
      BY <1>c, <2>1 DEF WriteInv, WritesFit
    <3> QED
      BY <3>1, <1>b, Different
  <2>3. /\ pending' = pending \ {Write(Last)} /\ finished' = finished
        /\ written' = written /\ buffer' = buffer
        /\ (Has("read")' <=> Has("read")) /\ (Has("finish")' <=> Has("finish"))
        /\ Has("write")' /\ Brought' = Brought
    BY <1>1, <1>c, <2>1, <2>2
  <2>4. ToRead' = ToRead /\ ToFinish' = ToFinish
    BY <2>1, <2>3, Different, ReadsLeft, FinishLeft
  <2>5. Last' = Last /\ Writing /\ ~ Writing'
    BY <2>1, <2>2, <2>3 DEF Last, Writing
  <2>6. WriteLeft = 2 /\ WriteLeft' = 1
    BY <2>3, <2>5 DEF WriteLeft
  <2>7. ToWrite' = ToWrite - 1
    BY <1>b, <2>5, <2>6 DEF ToWrite
  <2> QED
    BY <1>b, <2>4, <2>7 DEF StepsLeft
<1> QED
  BY <1>3, <1>4, <1>5, <1>6 DEF GrpcStep

\* Callbacks too, unless the callback is the one that tells the observer.
LEMMA CallbacksWindDown ==
  ASSUME StreamInv, WriteInv, StreamInv', WriteInv', Winding, RunCallback, end' = "none"
  PROVE  StepsLeft' < StepsLeft
<1> DEFINE c == Head(worker)
<1>a. TypeOK /\ end = "none" /\ started /\ observed /\ worker # <<>>
  BY DEF StreamInv, Winding, EndFits, RunCallback
<1>b. /\ ReadLeft \in Nat /\ WriteLeft \in Nat /\ ToFinish \in Nat
      /\ Last \in Nat /\ MaxWrites \in Nat /\ Len(inbox) \in Nat
      /\ ToRead \in Nat /\ ToWrite \in Nat /\ written \in Nat /\ Len(buffer) \in Nat
  <2>1. Len(buffer) \in Nat
    BY <1>a DEF TypeOK
  <2> QED
    BY <1>a, <2>1, StepsCount
<1>c. Read.type = "read" /\ Finish.type = "finish" /\ \A m : Write(m).type = "write"
  BY DEF Read, Finish, Write
<1>d. c \in Callbacks /\ c \in Queued /\ Has(c.type)
  <2>1. worker \in Seq(Callbacks) /\ 1 \in 1..Len(worker) /\ c = worker[1]
    BY <1>a, EmptySeq DEF TypeOK
  <2> QED
    BY <2>1 DEF Queued, Has
<1>1. ASSUME worker' = Tail(worker)
      PROVE  /\ Queued = Queued' \cup {c}
             /\ \A t : t # c.type => (Has(t)' <=> Has(t))
             /\ \A t : t = c.type /\ Once(t) => ~ Has(t)'
             /\ c.type # "read" => Brought' = Brought
  <2>1. /\ Queued = Queued' \cup {c}
        /\ \A t : t # c.type => (Has(t)' <=> Has(t))
        /\ \A t : t = c.type /\ Once(t) => ~ Has(t)'
    BY <1>a, <1>1, TakenOff
  <2> HIDE DEF c
  <2>2. ASSUME c.type # "read" PROVE Brought' = Brought
    <3>1. \A d : d \in Queued /\ d.type = "read" <=> d \in Queued' /\ d.type = "read"
      BY <2>1, <2>2
    <3> QED
      BY <3>1 DEF Brought
  <2> QED
    BY <2>1, <2>2
<1> HIDE DEF c
<1>2. CASE c.ok /\ c.type = "read" /\ OnRead(c.msg)
  <2>1. /\ worker' = Tail(worker) /\ pending' = pending \cup {Read}
        /\ UNCHANGED <<finished, buffer, written, inbox>>
    BY <1>a, <1>2 DEF OnRead, streamVars, wireVars
  <2>2. ~ finished /\ Read \notin pending
    BY <1>2, <1>a, <1>d DEF StreamInv, ReadsFit
  <2>3. Arrived
    BY <1>2, <1>d DEF Arrived
  <2>4. ReadLeft = 3 /\ ReadLeft' = 2
    BY <2>1, <2>2, <2>3 DEF ReadLeft
  <2>5. ToRead' = ToRead - 1
    BY <1>b, <2>1, <2>2, <2>4 DEF ToRead
  <2>6. (Has("finish")' <=> Has("finish")) /\ (Has("write")' <=> Has("write"))
    BY <1>1, <1>2, <2>1
  <2>7. ToFinish' = ToFinish /\ ToWrite' = ToWrite
    BY <2>1, <2>6, Different, FinishLeft, WritingLeft
  <2> QED
    BY <1>b, <2>5, <2>7 DEF StepsLeft
<1>3. ASSUME c.type = "write"
      PROVE  /\ ~ Writing /\ Has("write") /\ WriteLeft = 1
             /\ \A op \in pending : op.type # "write"
  <2>1. Has("write") /\ \A op \in pending : op.type # "write"
    BY <1>3, <1>d DEF WriteInv, WritesFit
  <2>2. ~ Writing
    BY <1>c, <2>1 DEF Writing
  <2> QED
    BY <2>1, <2>2 DEF WriteLeft
<1>4. CASE c.ok /\ c.type = "write" /\ OnWrite
  <2>1. /\ worker' = Tail(worker) /\ TryStartWrite(buffer, FALSE)
        /\ UNCHANGED <<finished, written, inbox>>
    BY <1>a, <1>4 DEF OnWrite, wireVars
  <2>2. /\ (Has("read")' <=> Has("read")) /\ (Has("finish")' <=> Has("finish"))
        /\ ~ Has("write")' /\ Brought' = Brought
    <3>1. Once("write")
      BY DEF WriteInv, WritesFit
    <3> QED
      BY <1>1, <1>4, <2>1, <3>1
  <2>3. buffer \in Seq(Nat) /\ FALSE \in BOOLEAN
    BY <1>a DEF TypeOK
  <2>4. (Read \in pending' <=> Read \in pending) /\ (Finish \in pending' <=> Finish \in pending)
    BY <1>a, <2>1, <2>3, WriterKeeps
  <2>5. ToRead' = ToRead /\ ToFinish' = ToFinish
    BY <2>1, <2>2, <2>4, ReadsLeft, FinishLeft
  <2>6. ~ Writing /\ WriteLeft = 1
    BY <1>3, <1>4
  <2>7. /\ \/ /\ buffer = <<>>
              /\ buffer' = buffer /\ pending' = pending
           \/ /\ buffer # <<>>
              /\ Len(buffer') = Len(buffer) - 1
              /\ pending' = pending \cup {Write(written - Len(buffer'))}
    <3>1. Len(buffer) <= written /\ \A i \in 1..Len(buffer) : buffer[i] = written - Len(buffer) + i
      BY <1>b DEF WriteInv, WritesFit, Last
    <3> QED
      BY <1>b, <2>1, <2>3, <3>1, WriterTakes
  <2>8. CASE buffer = <<>>
    <3>1. Last' = Last /\ pending' = pending
      BY <2>1, <2>7, <2>8 DEF Last
    <3>2. ~ Writing'
      BY <2>6, <3>1 DEF Writing
    <3>3. WriteLeft' = 0
      BY <2>2, <3>2 DEF WriteLeft
    <3>4. ToWrite' = ToWrite - 1
      BY <1>b, <2>6, <3>1, <3>3 DEF ToWrite
    <3> QED
      BY <1>b, <2>5, <3>4 DEF StepsLeft
  <2>9. CASE buffer # <<>>
    <3>1. Len(buffer') = Len(buffer) - 1 /\ pending' = pending \cup {Write(written - Len(buffer'))}
      BY <2>7, <2>9
    <3>2. Last' = Last + 1
      BY <1>b, <2>1, <3>1 DEF Last
    <3>3. Writing'
      BY <2>1, <3>1 DEF Writing, Last
    <3>4. WriteLeft' = 2
      BY <3>3 DEF WriteLeft
    <3>5. ToWrite' = ToWrite - 1
      BY <1>b, <2>6, <3>2, <3>4 DEF ToWrite
    <3> QED
      BY <1>b, <2>5, <3>5 DEF StepsLeft
  <2> QED
    BY <2>8, <2>9
<1>5. CASE c.ok /\ c.type = "finish" /\ OnFinish
  <2>1. finished /\ wire \in {"trailers", "broken"}
    BY <1>5, <1>a, <1>d DEF StreamInv, FinishFits, CallFits
  <2>2. end' = StatusOfCall /\ StatusOfCall # "none"
    BY <1>5, <1>a, <2>1 DEF OnFinish, FinishAndNotify, StatusOfCall
  <2> QED
    BY <2>2
<1>6. CASE ~ c.ok /\ OnOperationFailed
  <2>1. UNCHANGED <<buffer, written, inbox>>
    BY <1>6 DEF OnOperationFailed, wireVars
  <2>2. CASE finished
    <3>1. worker' = Tail(worker) /\ pending' = pending /\ finished' = finished
      BY <1>6, <2>2 DEF OnOperationFailed
    <3>2. c.type = "write"
      <4>1. c.type # "read"
        BY <1>a, <1>d, <2>2 DEF StreamInv, ReadsFit
      <4>2. c.type # "finish"
        BY <1>6, <1>d DEF StreamInv, FinishFits
      <4> QED
        BY <1>d, <4>1, <4>2 DEF Callbacks
    <3>3. /\ (Has("read")' <=> Has("read")) /\ (Has("finish")' <=> Has("finish"))
          /\ ~ Has("write")' /\ Brought' = Brought
      <4>1. Once("write")
        BY DEF WriteInv, WritesFit
      <4> QED
        BY <1>1, <3>1, <3>2, <4>1
    <3>4. ToRead' = ToRead /\ ToFinish' = ToFinish
      BY <2>1, <3>1, <3>3, ReadsLeft, FinishLeft
    <3>5. Last' = Last /\ WriteLeft = 1 /\ ~ Writing
      BY <1>3, <2>1, <3>2 DEF Last
    <3>6. WriteLeft' = 0
      BY <3>1, <3>3, <3>5 DEF WriteLeft, Writing
    <3>7. ToWrite' = ToWrite - 1
      BY <1>b, <3>5, <3>6 DEF ToWrite
    <3> QED
      BY <1>b, <3>4, <3>7 DEF StepsLeft
  <2>3. CASE ~ finished
    <3>1. worker' = <<>> /\ pending' = {Finish} /\ finished'
      BY <1>6, <2>3 DEF OnOperationFailed, FinishGrpcCall
    <3>2. \A t : ~ Has(t)'
      BY <3>1, Dropped
    <3>3. Last' = Last /\ ~ Writing'
      BY <2>1, <3>1, Different DEF Last, Writing
    <3>4. ToRead' = 0 /\ ToFinish' = 2 /\ WriteLeft' = 0
      BY <3>1, <3>2, <3>3 DEF ToRead, ToFinish, WriteLeft
    <3>5. ToRead >= 3
      BY <1>b, <2>3 DEF ToRead
    <3>6. ToWrite' <= ToWrite /\ ToWrite' \in Nat
      <4>1. MaxWrites - Last' \in Nat
        <5>1. Last <= MaxWrites
          BY <1>a, StepsCount
        <5> QED
          BY <1>b, <3>3, <5>1
      <4> QED
        BY <1>b, <3>3, <3>4, <4>1 DEF ToWrite
    <3> QED
      <4>1. StepsLeft' = 0 + 2 + ToWrite' /\ StepsLeft = ToRead + ToFinish + ToWrite
        BY <3>4 DEF StepsLeft
      <4>2. PICK n \in Nat : ToWrite' = n /\ n <= ToWrite
        BY <3>6
      <4>3. StepsLeft' = 2 + n
        BY <4>1, <4>2
      <4> QED
        BY <1>b, <3>5, <4>1, <4>2, <4>3
  <2> QED
    BY <2>2, <2>3
<1> QED
  BY <1>2, <1>4, <1>5, <1>6 DEF RunCallback, c

\* A message written after the end of the call does not put it off.
LEMMA WritingDelaysNothing ==
  ASSUME StreamInv, WriteInv, StreamInv', WriteInv', Winding, WriteMessage
  PROVE  StepsLeft' <= StepsLeft
<1>a. TypeOK /\ end = "none"
  BY DEF StreamInv, Winding
<1>b. /\ ReadLeft \in Nat /\ WriteLeft \in Nat /\ ToFinish \in Nat
      /\ Last \in Nat /\ MaxWrites \in Nat /\ ToRead \in Nat /\ ToWrite \in Nat
      /\ written \in Nat /\ Len(buffer) \in Nat /\ buffer \in Seq(Nat)
  <2>1. buffer \in Seq(Nat) /\ Len(buffer) \in Nat
    BY <1>a DEF TypeOK
  <2> QED
    BY <1>a, <2>1, StepsCount
<1> DEFINE queue == Append(buffer, written + 1)
<1>1. /\ written' = written + 1 /\ TryStartWrite(queue, active)
      /\ UNCHANGED <<worker, finished, inbox>>
  BY DEF WriteMessage, wireVars
<1>2. queue \in Seq(Nat) /\ Len(queue) = Len(buffer) + 1 /\ active \in BOOLEAN
  <2>1. written + 1 \in Nat
    BY <1>b
  <2> QED
    BY <1>a, <1>b, <2>1, AppendProperties DEF TypeOK
<1> HIDE DEF queue
<1>3. /\ (Has("read")' <=> Has("read")) /\ (Has("finish")' <=> Has("finish"))
      /\ (Has("write")' <=> Has("write")) /\ Brought' = Brought
  <2>1. Queued' = Queued /\ \A t : Has(t)' <=> Has(t)
    BY <1>1, Left
  <2> QED
    BY <2>1 DEF Brought
<1>4. (Read \in pending' <=> Read \in pending) /\ (Finish \in pending' <=> Finish \in pending)
  BY <1>a, <1>1, <1>2, WriterKeeps
<1>5. ToRead' = ToRead /\ ToFinish' = ToFinish
  BY <1>1, <1>3, <1>4, ReadsLeft, FinishLeft
<1>6. CASE active
  <2>1. buffer' = queue /\ pending' = pending
    BY <1>1, <1>6 DEF TryStartWrite
  <2>2. Last' = Last
    <3>1. Len(buffer') = Len(buffer) + 1
      BY <1>2, <2>1
    <3> QED
      BY <1>b, <1>1, <3>1 DEF Last
  <2>3. WriteLeft' = WriteLeft
    BY <1>3, <2>1, <2>2 DEF WriteLeft, Writing
  <2>4. ToWrite' = ToWrite
    BY <2>2, <2>3 DEF ToWrite
  <2> QED
    BY <1>b, <1>5, <2>4 DEF StepsLeft
<1>7. CASE ~ active
  <2>1. Len(buffer) = 0 /\ ~ Writing /\ ~ Has("write")
    BY <1>7 DEF WriteInv, WritesFit
  <2>2. Len(buffer') = 0
    <3>1. queue # <<>> /\ Len(queue) = 1
      BY <1>2, <2>1
    <3>2. buffer' = Tail(queue)
      BY <1>1, <1>7, <3>1 DEF TryStartWrite
    <3> QED
      BY <1>2, <3>1, <3>2, HeadTailProperties
  <2>3. Last' = Last + 1
    BY <1>b, <1>1, <2>1, <2>2 DEF Last
  <2>4. WriteLeft = 0 /\ (WriteLeft' = 0 \/ WriteLeft' = 1 \/ WriteLeft' = 2)
    BY <2>1 DEF WriteLeft
  <2>5. PICK w \in 0..2 : WriteLeft' = w
    BY <2>4
  <2>6. ToWrite = 2 * (MaxWrites - Last) /\ ToWrite' = 2 * (MaxWrites - (Last + 1)) + w
    BY <1>b, <2>3, <2>4, <2>5 DEF ToWrite
  <2>7. ToWrite' <= ToWrite /\ ToWrite' \in Int
    BY <1>b, <2>6
  <2> QED
    <3>1. PICK n \in Int : ToWrite' = n /\ n <= ToWrite
      BY <2>7
    <3>2. StepsLeft' = ToRead + ToFinish + n /\ StepsLeft = ToRead + ToFinish + ToWrite
      BY <1>5, <3>1 DEF StepsLeft
    <3> QED
      BY <1>b, <3>1, <3>2
<1> QED
  BY <1>6, <1>7

\* The end of a call is a matter of a number of steps that no step of anybody
\* raises, and that every callback and every answer of gRPC lowers: with
\* AlwaysAStepLeft, what EndIsNoticed says but for the fairness.
THEOREM WindsDown ==
  Spec => [][Winding =>
               \/ end' # "none"
               \/ /\ StepsLeft \in Nat /\ StepsLeft' \in Nat /\ StepsLeft' <= StepsLeft
                  /\ RunCallback \/ GrpcStep => StepsLeft' < StepsLeft]_vars
<1>1. ASSUME StreamInv, WriteInv, [Next]_vars, Winding, end' = "none", ~ UNCHANGED vars
      PROVE  /\ StepsLeft \in Nat /\ StepsLeft' \in Nat /\ StepsLeft' <= StepsLeft
             /\ RunCallback \/ GrpcStep => StepsLeft' < StepsLeft
  <2>1. StreamInv' /\ WriteInv'
    BY <1>1, StreamNext, WriteNext
  <2>2. StepsLeft \in Nat /\ StepsLeft' \in Nat
    <3>1. StepsLeft \in Nat
      BY <1>1, StepsNat DEF Winding
    <3>2. (StreamInv /\ WriteInv /\ end = "none" => StepsLeft \in Nat)'
      BY StepsNat, PTL
    <3> QED
      BY <1>1, <2>1, <3>1, <3>2
  <2>3. RunCallback \/ GrpcStep => StepsLeft' < StepsLeft
    BY <1>1, <2>1, GrpcWindsDown, CallbacksWindDown
  <2>4. RunCallback \/ GrpcStep \/ WriteMessage
    <3>1. started /\ wire # "open" /\ end = "none" /\ observed
      BY <1>1 DEF Winding, StreamInv, EndFits
    <3>2. ~ Start /\ ~ ServerReplies /\ ~ CallEnds
      BY <3>1 DEF Start, ServerReplies, CallEnds
    <3>3. ~ FinishImmediately /\ ~ WriteAndFinish /\ ~ ConnectivityChanged
      BY <1>1, <3>1 DEF FinishImmediately, WriteAndFinish, ConnectivityChanged, FinishAndNotify
    <3> QED
      BY <1>1, <3>2, <3>3 DEF Next, ClientStep
  <2> QED
    BY <1>1, <2>1, <2>2, <2>3, <2>4, WritingDelaysNothing
<1>2. StreamInv /\ WriteInv /\ [Next]_vars =>
        [Winding =>
           \/ end' # "none"
           \/ /\ StepsLeft \in Nat /\ StepsLeft' \in Nat /\ StepsLeft' <= StepsLeft
              /\ RunCallback \/ GrpcStep => StepsLeft' < StepsLeft]_vars
  BY <1>1
<1> QED
  BY <1>2, StreamInit, StreamNext, WriteInit, WriteNext, PTL DEF Spec
=============================================================================
