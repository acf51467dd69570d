----------------------------- MODULE GrpcStream -----------------------------
(***************************************************************************)
(* One GrpcStream of the Firestore client, between the Stream that         *)
(* observes it, the worker queue both run on and the completion queue of   *)
(* gRPC, which another thread polls.  An operation handed to gRPC comes    *)
(* back as a GrpcCompletion; Complete puts the callback of the completion  *)
(* on the worker queue, where it may still be cancelled.  A cancelled      *)
(* callback does nothing, so it is taken off the worker queue here.        *)
(*                                                                         *)
(* gRPC itself is external.  What is assumed of a call: a read gives the   *)
(* messages that have arrived, in order, and fails only after the last of  *)
(* them or when the connection breaks; writes do not fail when the server  *)
(* has ended the call; cancelling makes all operations come back at once.  *)
(***************************************************************************)
EXTENDS Naturals, Sequences, FiniteSets

CONSTANTS
  MaxReplies,   \* bound on the messages of the server
  MaxWrites     \* bound on the messages of the client

ASSUME StreamBoundsAreNat == MaxReplies \in Nat /\ MaxWrites \in Nat

VARIABLES
  started,      \* Start has been called
  observed,     \* whether observer_ is set
  finished,     \* is_grpc_call_finished_
  buffer,       \* queue_ of buffered_writer_
  active,       \* has_active_write_
  pending,      \* the completions gRPC holds
  worker,       \* the callbacks on the worker queue
  written,      \* the messages written so far are 1 .. written
  heard,        \* the messages the observer was given
  end,          \* how the stream ended for the observer
  blocked,      \* whether the worker queue waits for gRPC for good
  wire,         \* the call: "open", "trailers", "broken" or "cancelled"
  inbox,        \* messages of the server that have arrived
  replies,      \* the messages of the server so far are 1 .. replies
  sent          \* what the server has received

streamVars == <<started, observed, finished, buffer, active>>
wireVars == <<wire, inbox, replies, sent>>
vars == <<streamVars, pending, worker, written, heard, end, blocked, wireVars>>

Read == [type |-> "read", msg |-> 0]
Write(m) == [type |-> "write", msg |-> m]
Finish == [type |-> "finish", msg |-> 0]

Init ==
  /\ started = FALSE /\ observed = TRUE /\ finished = FALSE
  /\ buffer = <<>> /\ active = FALSE
  /\ pending = {} /\ worker = <<>>
  /\ written = 0 /\ heard = <<>> /\ end = "none" /\ blocked = FALSE
  /\ wire = "open" /\ inbox = <<>> /\ replies = 0 /\ sent = <<>>

-----------------------------------------------------------------------------
(* The completions, and the end of the call *)

HasCompletions == pending # {} \/ worker # <<>>

\* FastFinishCompletionsBlocking waits until gRPC has given everything back,
\* which it only does for a call that has ended.
Blocks(state) == pending # {} /\ state = "open"

\* FinishGrpcCall: every callback is cancelled, and the call is finished.
FinishGrpcCall ==
  /\ finished' = TRUE
  /\ blocked' = (blocked \/ Blocks(wire))
  /\ pending' = {Finish}
  /\ worker' = <<>>

\* Mutant of Shutdown: the call is finished without being cancelled.
ShutdownWithoutCancel ==
  /\ finished' = (finished \/ HasCompletions)
  /\ wire' = wire
  /\ blocked' = (blocked \/ Blocks(wire))
  /\ pending' = {} /\ worker' = <<>>

\* Mutant of Shutdown: nothing waits for what gRPC still holds.
ShutdownWithoutDrain ==
  /\ LET cancels == HasCompletions /\ ~finished
     IN  /\ wire' = IF cancels /\ wire = "open" THEN "cancelled" ELSE wire
         /\ finished' = (finished \/ cancels)
  /\ UNCHANGED <<blocked, pending, worker>>

\* Shutdown: a call that has not been finished is cancelled and finished; then
\* nothing is left with gRPC or on the worker queue.
Shutdown ==
  /\ LET cancels == HasCompletions /\ ~finished
     IN  /\ wire' = IF cancels /\ wire = "open" THEN "cancelled" ELSE wire
         /\ finished' = (finished \/ cancels)
  /\ blocked' = (blocked \/ Blocks(wire'))
  /\ pending' = {} /\ worker' = <<>>

-----------------------------------------------------------------------------
(* What the Stream and the GrpcConnection ask for *)

Start ==
  /\ ~started /\ observed
  /\ started' = TRUE
  /\ pending' = {Read}
  /\ UNCHANGED <<observed, finished, buffer, active, worker, written, heard,
                 end, blocked, wireVars>>

\* Mutant of TryStartWrite: a write does not wait for the one before.
StartAtOnce(queue, busy) ==
  IF queue = <<>>
  THEN buffer' = queue /\ active' = busy /\ UNCHANGED pending
  ELSE /\ buffer' = Tail(queue)
       /\ active' = TRUE
       /\ pending' = pending \union {Write(Head(queue))}

\* The next message goes to gRPC unless one is there already.
TryStartWrite(queue, busy) ==
  IF queue = <<>> \/ busy
  THEN buffer' = queue /\ active' = busy /\ UNCHANGED pending
  ELSE /\ buffer' = Tail(queue)
       /\ active' = TRUE
       /\ pending' = pending \union {Write(Head(queue))}

\* The Stream writes while it is open, which it is no more after the end.
WriteMessage ==
  /\ started /\ observed /\ written < MaxWrites
  /\ written' = written + 1
  /\ TryStartWrite(Append(buffer, written'), active)
  /\ UNCHANGED <<started, observed, finished, worker, heard, end, blocked,
                 wireVars>>

\* Stop before the handshake is complete, or an answer that cannot be read.
FinishImmediately ==
  /\ observed
  /\ Shutdown
  /\ observed' = FALSE /\ end' = "stopped"
  /\ UNCHANGED <<started, buffer, active, written, heard, inbox, replies, sent>>

\* Stop after it: an empty request says goodbye if no write is active; it is
\* waited for, for half a second, and may not arrive.
WriteAndFinish ==
  /\ started /\ observed
  /\ Shutdown
  /\ written' = IF finished THEN written ELSE written + 1
  /\ buffer' = IF active /\ ~finished THEN Append(buffer, written') ELSE buffer
  /\ active' = (active \/ ~finished)
  /\ \/ UNCHANGED sent
     \/ ~finished /\ ~active /\ wire = "open" /\ sent' = Append(sent, written')
  /\ observed' = FALSE /\ end' = "stopped"
  /\ UNCHANGED <<started, heard, inbox, replies>>

\* Mutant of FinishAndNotify: the observer stays.
NotifyAndKeep(status) ==
  /\ Shutdown
  /\ end' = IF observed THEN status ELSE end
  /\ UNCHANGED <<started, observed, buffer, active, written, heard, inbox,
                 replies, sent>>

\* FinishAndNotify(status); the observer is gone before it is notified.
FinishAndNotify(status) ==
  /\ Shutdown
  /\ observed' = FALSE
  /\ end' = IF observed THEN status ELSE end
  /\ UNCHANGED <<started, buffer, active, written, heard, inbox, replies, sent>>

\* The connection has registered the stream until it shuts down.
ConnectivityChanged ==
  /\ observed
  /\ FinishAndNotify("Unavailable")

-----------------------------------------------------------------------------
(* The callbacks on the worker queue *)

StatusOfCall == CASE wire = "trailers" -> "server"
                  [] wire = "broken" -> "Unavailable"
                  [] OTHER -> "Cancelled"

\* Mutant of OnRead: no further message is asked for.
OnOnlyRead(message) ==
  /\ worker' = Tail(worker)
  /\ heard' = IF observed THEN Append(heard, message) ELSE heard
  /\ UNCHANGED <<streamVars, pending, written, end, blocked, wireVars>>

\* OnRead asks for the next message before it hands this one over.
OnRead(message) ==
  /\ worker' = Tail(worker)
  /\ IF observed
     THEN /\ pending' = pending \union {Read}
          /\ heard' = Append(heard, message)
     ELSE UNCHANGED <<pending, heard>>
  /\ UNCHANGED <<streamVars, written, end, blocked, wireVars>>

OnWrite ==
  /\ worker' = Tail(worker)
  /\ IF observed
     THEN TryStartWrite(buffer, FALSE)
     ELSE UNCHANGED <<buffer, active, pending>>
  /\ UNCHANGED <<started, observed, finished, written, heard, end, blocked,
                 wireVars>>

\* Mutant of OnOperationFailed: the call is cancelled before it is finished,
\* which overwrites its status.
FailAndCancel ==
  /\ IF finished
     THEN worker' = Tail(worker) /\ UNCHANGED <<finished, blocked, pending, wire>>
     ELSE FinishGrpcCall /\ wire' = "cancelled"
  /\ UNCHANGED <<started, observed, buffer, active, written, heard, end,
                 inbox, replies, sent>>

\* Only the first operation that fails finishes the call.
OnOperationFailed ==
  /\ IF finished
     THEN worker' = Tail(worker) /\ UNCHANGED <<finished, blocked, pending>>
     ELSE FinishGrpcCall
  /\ UNCHANGED <<started, observed, buffer, active, written, heard, end,
                 wireVars>>

\* Nothing is left with gRPC when the finish operation has come back.
OnFinish == FinishAndNotify(StatusOfCall)

\* NewCompletion: what a completion runs.
RunCallback ==
  /\ ~blocked /\ worker # <<>>
  /\ LET c == Head(worker)
     IN  \/ c.ok /\ c.type = "read" /\ OnRead(c.msg)
         \/ c.ok /\ c.type = "write" /\ OnWrite
         \/ c.ok /\ c.type = "finish" /\ OnFinish
         \/ ~c.ok /\ OnOperationFailed

-----------------------------------------------------------------------------
(* gRPC and the server *)

Complete(op, ok, message) ==
  /\ pending' = pending \ {op}
  /\ worker' = Append(worker, [type |-> op.type, ok |-> ok, msg |-> message])
  /\ UNCHANGED <<streamVars, written, heard, end, blocked, wire, replies>>

ReadComes ==
  /\ Read \in pending
  /\ inbox # <<>>
  /\ Complete(Read, TRUE, Head(inbox))
  /\ inbox' = Tail(inbox)
  /\ UNCHANGED sent

ReadFails ==
  /\ Read \in pending
  /\ \/ wire = "broken"
     \/ wire = "trailers" /\ inbox = <<>>
  /\ Complete(Read, FALSE, 0)
  /\ UNCHANGED <<inbox, sent>>

\* Mutant of WriteFails: a write fails when the server has ended the call.
WriteFailsAtTheEnd(m) ==
  /\ Write(m) \in pending
  /\ wire \in {"broken", "trailers"}
  /\ Complete(Write(m), FALSE, m)
  /\ UNCHANGED <<inbox, sent>>

\* The server receives only what is written while the call is open.
WriteGoesOut(m) ==
  /\ Write(m) \in pending
  /\ Complete(Write(m), TRUE, m)
  /\ sent' = IF wire = "open" THEN Append(sent, m) ELSE sent
  /\ UNCHANGED inbox

WriteFails(m) ==
  /\ Write(m) \in pending
  /\ wire = "broken"
  /\ Complete(Write(m), FALSE, m)
  /\ UNCHANGED <<inbox, sent>>

FinishComes ==
  /\ Finish \in pending
  /\ wire # "open"
  /\ Complete(Finish, TRUE, 0)
  /\ UNCHANGED <<inbox, sent>>

ServerReplies ==
  /\ wire = "open" /\ started /\ replies < MaxReplies
  /\ replies' = replies + 1
  /\ inbox' = Append(inbox, replies')
  /\ UNCHANGED <<streamVars, pending, worker, written, heard, end, blocked,
                 wire, sent>>

CallEnds ==
  /\ wire = "open" /\ started
  /\ wire' \in {"trailers", "broken"}
  /\ UNCHANGED <<streamVars, pending, worker, written, heard, end, blocked,
                 inbox, replies, sent>>

GrpcStep ==
  \/ ReadComes \/ ReadFails \/ FinishComes
  \/ \E m \in 1..MaxWrites : WriteGoesOut(m) \/ WriteFails(m)

ClientStep ==
  /\ ~blocked
  /\ \/ Start \/ WriteMessage
     \/ FinishImmediately \/ WriteAndFinish \/ ConnectivityChanged

Next == ClientStep \/ RunCallback \/ GrpcStep \/ ServerReplies \/ CallEnds

Spec == Init /\ [][Next]_vars

\* The polling thread and the worker queue keep running, and gRPC gives back
\* what it can.
FairSpec == Spec /\ WF_vars(RunCallback) /\ WF_vars(GrpcStep)

-----------------------------------------------------------------------------
(* Properties *)

Completions == [type : {"read", "write", "finish"}, msg : Nat]

Callbacks == [type : {"read", "write", "finish"}, ok : BOOLEAN, msg : Nat]

\* The values the variables take.
TypeOK ==
  /\ started \in BOOLEAN /\ observed \in BOOLEAN /\ finished \in BOOLEAN
  /\ buffer \in Seq(Nat) /\ active \in BOOLEAN
  /\ pending \subseteq Completions
  /\ worker \in Seq(Callbacks)
  /\ written \in 0..(MaxWrites + 1)
  /\ heard \in Seq(Nat)
  /\ end \in {"none", "stopped", "server", "Unavailable"}
  /\ blocked \in BOOLEAN
  /\ wire \in {"open", "trailers", "broken", "cancelled"}
  /\ inbox \in Seq(Nat) /\ replies \in 0..MaxReplies
  /\ sent \in Seq(Nat)

\* The observer is given the messages of the server in their order, each once
\* and without a gap, although another thread takes them from gRPC; and the
\* status the server ends a call with is notified after all of them, which
\* WritePipeline needs to know which write was refused.
HeardAsSent ==
  /\ Len(heard) <= replies
  /\ \A i \in 1..Len(heard) : heard[i] = i
  /\ end = "server" => Len(heard) = replies

\* "Only one write may be in progress at any given time" (grpc_stream.h), and
\* the server receives what was written in the order in which it was written.
OneWriteAtATime ==
  /\ \A m, n \in 1..MaxWrites :
       Write(m) \in pending /\ Write(n) \in pending => m = n
  /\ Len(sent) <= written
  /\ \A i \in 1..Len(sent) : sent[i] = i

\* The finish operations gRPC holds or has given back.
Finishes ==
  {op \in pending : op.type = "finish"}
    \union {worker[i] : i \in {j \in 1..Len(worker) : worker[j].type = "finish"}}

\* "Otherwise, this function will block indefinitely" (grpc_stream.h on
\* FastFinishCompletionsBlocking): the worker queue never waits for an
\* operation of a call that is neither failed nor cancelled.
NeverBlocks == ~blocked

\* The assertions "FinishGrpcCall called twice" and "destroyed without proper
\* shutdown": from the first failure to the end of the stream exactly one
\* finish operation is under way, and after the end nothing is left.
FinishedOnce ==
  /\ end # "none" => ~HasCompletions
  /\ end = "none" => Cardinality(Finishes) = IF finished THEN 1 ELSE 0

\* The stream implements the channel it promises: whichever of a failure, a
\* connectivity change, the end of the call and a stop comes first, the
\* observer is told once, of that one, and nothing reaches it after that, or
\* reaches the server.
Call == CASE ~started -> "idle"
          [] started /\ wire = "open" -> "open"
          [] started /\ wire = "trailers" -> "ended"
          [] started /\ wire \in {"broken", "cancelled"} -> "cut"
Channel == INSTANCE StreamChannel WITH
  call <- Call, received <- sent, verdict <- end
ChannelSpec == Channel!Spec

\* A call that ends is noticed: there is always a read under way to fail.
EndIsNoticed == started /\ wire # "open" ~> end # "none"
=============================================================================
