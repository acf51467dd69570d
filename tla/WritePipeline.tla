--------------------------- MODULE WritePipeline ---------------------------
(***************************************************************************)
(* The write path of the Firestore client that the app links (under        *)
(* src/CaronaSocial/Pods/FirebaseFirestore): from SyncEngine and the       *)
(* mutation queues LocalStore keeps on disk, through RemoteStore's write   *)
(* pipeline, to the write stream and the server.                           *)
(*                                                                         *)
(* Every handler runs on the client's worker queue, one at a time, so each *)
(* action is one handler with all the handlers it calls.  A write is       *)
(* numbered in the order of issue; the batch id it is stored under is not  *)
(* that number, since ids start again when the disk holds no batch.        *)
(*                                                                         *)
(* What lies below the stream (GrpcStream) is kept to what that module     *)
(* shows of it: answers come in the order of the requests, and the status  *)
(* of a server that gives up comes after every answer, while the status of *)
(* a connection that breaks may overtake answers.  The server is external. *)
(***************************************************************************)
EXTENDS Integers, Sequences, FiniteSets

CONSTANTS
  Users,             \* the users that sign in on the phone
  MaxPendingWrites,  \* kMaxPendingWrites
  MaxWrites,         \* bound on the writes issued
  MaxCloses,         \* bound on the failures of one process' stream
  MaxDisturbances    \* bound on user changes, network switches, kills, and the
                     \* rarer ways in which a stream ends

ASSUME MaxPendingWritesIsPositive == MaxPendingWrites \in Nat \ {0}
ASSUME BoundsAreNat ==
  MaxWrites \in Nat /\ MaxCloses \in Nat /\ MaxDisturbances \in Nat

VARIABLES
  queue,        \* LevelDB: the batches of each user, ordered by id
  nextBatchId,  \* next_batch_id_ of the current user's LevelDbMutationQueue
  user,         \* current_user_
  remote,       \* RemoteStore, its WriteStream and what the stream carries
  callbacks,    \* mutation_callbacks_: per user, at most one write for an id
  told,         \* what the callback of each write was told
  outcome,      \* how the client resolved each write
  issued,       \* the writes issued so far are 1 .. issued
  executed,     \* per user: the writes the server executed
  refusals,     \* the writes the server refused
  hangups,      \* how often it ended a stream on an error with none to refuse
  unread,       \* executed writes of which the result could not be decoded
  doc,          \* per user: the write the server executed last (0: none)
  strays,       \* requests of abandoned streams: the server may yet run them
  strayed,      \* users for whom the server ran such a request
  disturbances

vars == <<queue, nextBatchId, user, remote, callbacks, told, outcome,
          issued, executed, refusals, hangups, unread, doc, strays, strayed,
          disturbances>>
serverVars == <<executed, refusals, hangups, doc, strayed>>

Ops == 1..MaxWrites
Handshake == 0
kBatchIdUnknown == -1

-----------------------------------------------------------------------------
(* The mutation queue of a user *)

\* The rows of q up to this place have an id of at most `last`.
Upto(q, last) ==
  CHOOSE k \in 0..Len(q) : \A i \in 1..Len(q) : (q[i].id <= last) <=> (i <= k)

\* Mutant of RemoveMutationBatch: the newest batch goes.
RemoveLast(q, id) == SubSeq(q, 1, Len(q) - 1)

\* The queue without the batch: RemoveMutationBatch.
RemoveMutationBatch(q, id) ==
  LET k == CHOOSE i \in 1..Len(q) : q[i].id = id
  IN  [i \in 1..(Len(q) - 1) |-> IF i < k THEN q[i] ELSE q[i + 1]]

Ids(q) == {q[i].id : i \in 1..Len(q)}
OpsOf(q) == [i \in 1..Len(q) |-> q[i].op]

\* Mutant of LoadNextBatchIdFromDb: the highest id itself.
HighestBatchId ==
  LET ids == UNION {Ids(queue[u]) : u \in Users}
  IN  IF ids = {} THEN 0 ELSE CHOOSE m \in ids : \A i \in ids : i <= m

\* One more than the largest id on disk, whoever's it is.
LoadNextBatchIdFromDb ==
  LET ids == UNION {Ids(queue[u]) : u \in Users}
  IN  IF ids = {} THEN 1 ELSE 1 + CHOOSE m \in ids : \A i \in ids : i <= m

-----------------------------------------------------------------------------
(* RemoteStore and its write stream *)

IsStarted(r) == r.state \in {"Starting", "Backoff", "Open"}
Established(r) == r.state = "Open" /\ r.handshakeComplete
ShouldStartWriteStream(r) ==
  r.enabled /\ ~IsStarted(r) /\ r.pipeline # <<>>

\* Stream::Start, up to the request for credentials or the backoff timer.
StartStream(r) ==
  IF r.state = "Error"
  THEN [r EXCEPT !.state = "Backoff"]
  ELSE [r EXCEPT !.state = "Starting", !.tokens = @ \union {r.closeCount}]

StartIfNeeded(r) == IF ShouldStartWriteStream(r) THEN StartStream(r) ELSE r

\* The batches FillWritePipeline takes from the queue q.
NextBatches(r, q) ==
  LET last == IF r.pipeline = <<>> THEN kBatchIdUnknown
              ELSE r.pipeline[Len(r.pipeline)].id
      from == Upto(q, last)
      room == from + MaxPendingWrites - Len(r.pipeline)
  IN  IF r.enabled
      THEN SubSeq(q, from + 1, IF room < Len(q) THEN room ELSE Len(q))
      ELSE <<>>

\* Mutants of FillWritePipeline: a write is sent before the handshake is
\* complete, and does not cancel the idle timer.
SendWhenOpen(r, q) ==
  LET batches == NextBatches(r, q)
      sent == r.state = "Open" /\ batches # <<>>
  IN  StartIfNeeded(
        [r EXCEPT !.pipeline = @ \o batches,
                  !.requests = IF sent THEN @ \o OpsOf(batches) ELSE @,
                  !.idle = FALSE])
KeepIdleTimer(r, q) ==
  LET batches == NextBatches(r, q)
      sent == Established(r) /\ batches # <<>>
      idles == r.pipeline = <<>> /\ batches = <<>> /\ r.state = "Open"
  IN  StartIfNeeded(
        [r EXCEPT !.pipeline = @ \o batches,
                  !.requests = IF sent THEN @ \o OpsOf(batches) ELSE @,
                  !.idle = @ \/ idles])

\* A write cancels the idle timer; an open stream with nothing to do sets it.
FillWritePipeline(r, q) ==
  LET batches == NextBatches(r, q)
      sent == Established(r) /\ batches # <<>>
      idles == /\ r.enabled
               /\ r.pipeline = <<>> /\ batches = <<>>
               /\ r.state = "Open"
  IN  StartIfNeeded(
        [r EXCEPT !.pipeline = @ \o batches,
                  !.requests = IF sent THEN @ \o OpsOf(batches) ELSE @,
                  !.idle = ~sent /\ (@ \/ idles)])

\* Stream::Close up to NotifyStreamClose.
Close(r, state) ==
  [r EXCEPT !.state = state, !.closeCount = @ + 1, !.idle = FALSE,
            !.requests = <<>>, !.answers = <<>>, !.status = "none"]

\* NotifyStreamClose resets the handshake after the listener has run.
Reset(r) == [r EXCEPT !.handshakeComplete = FALSE]

Stop(r) == IF IsStarted(r) THEN Reset(Close(r, "Initial")) ELSE r

\* A close with a transient error, or with any error before the handshake.
CloseAndRetry(r) == Reset(StartIfNeeded(Close(r, "Error")))

\* Mutant of CloseAndReject: the pipeline is not filled again.
RejectWithoutRefill(r, q) ==
  Reset(StartIfNeeded([Close(r, "Initial") EXCEPT !.pipeline = Tail(@)]))

\* A close with a permanent error: HandleWriteError rejects the front write,
\* InhibitBackoff clears the error and the pipeline is filled again.
CloseAndReject(r, q) ==
  Reset(StartIfNeeded(
    FillWritePipeline([Close(r, "Initial") EXCEPT !.pipeline = Tail(@)], q)))

\* Mutant of DisableNetworkInternal: the pipeline is not cleared.
StopOnly(r) == Stop([r EXCEPT !.enabled = FALSE])

DisableNetworkInternal(r) ==
  [Stop([r EXCEPT !.enabled = FALSE]) EXCEPT !.pipeline = <<>>]

Enable(r, q) == FillWritePipeline([r EXCEPT !.enabled = TRUE], q)

RestartStreams(r, q) ==
  IF r.enabled THEN Enable(DisableNetworkInternal(r), q) ELSE r

\* A RemoteStore that has not been started.
FreshRemote ==
  [enabled |-> FALSE, pipeline |-> <<>>, state |-> "Initial",
   handshakeComplete |-> FALSE, idle |-> FALSE, closeCount |-> 0,
   tokens |-> {}, requests |-> <<>>, answers |-> <<>>, status |-> "none"]

\* The requests on the wire are lost to the client, not to the server, unless
\* the server has ended the stream itself.
Abandon ==
  strays' = IF remote.status # "none" THEN strays
            ELSE strays \union
                 {[user |-> user, op |-> remote.requests[i]] :
                    i \in {j \in 1..Len(remote.requests) :
                             remote.requests[j] # Handshake}}

-----------------------------------------------------------------------------
(* SyncEngine *)

\* NotifyUser for a batch of the current user.
Notify(batch, status) ==
  LET hit == {c \in callbacks[user] : c.id = batch.id}
  IN  /\ callbacks' = [callbacks EXCEPT ![user] = @ \ hit]
      /\ told' = [o \in Ops |-> IF \E c \in hit : c.op = o THEN status
                                ELSE told[o]]

Init ==
  /\ queue = [u \in Users |-> <<>>]
  /\ nextBatchId = 1
  /\ user \in Users
  /\ remote = [FreshRemote EXCEPT !.enabled = TRUE]
  /\ callbacks = [u \in Users |-> {}]
  /\ told = [o \in Ops |-> "waiting"]
  /\ outcome = [o \in Ops |-> "open"]
  /\ issued = 0
  /\ executed = [u \in Users |-> {}]
  /\ refusals = {}
  /\ hangups = 0
  /\ unread = {}
  /\ doc = [u \in Users |-> 0]
  /\ strays = {}
  /\ strayed = {}
  /\ disturbances = 0

\* unordered_map::insert keeps a callback that is already there.
WriteMutations ==
  /\ issued < MaxWrites
  /\ LET batch == [id |-> nextBatchId, op |-> issued + 1]
     IN  /\ queue' = [queue EXCEPT ![user] = Append(@, batch)]
         /\ callbacks' = IF \E c \in callbacks[user] : c.id = batch.id
                         THEN callbacks
                         ELSE [callbacks EXCEPT ![user] = @ \union {batch}]
         /\ remote' = FillWritePipeline(remote, queue'[user])
  /\ nextBatchId' = nextBatchId + 1
  /\ issued' = issued + 1
  /\ UNCHANGED <<user, told, outcome, serverVars, unread, strays, disturbances>>

\* The notification also comes for a user that has not changed: its token has.
HandleCredentialChange(u) ==
  /\ disturbances < MaxDisturbances
  /\ disturbances' = disturbances + 1
  /\ user' = u
  /\ nextBatchId' = IF u = user THEN nextBatchId ELSE LoadNextBatchIdFromDb
  /\ remote' = RestartStreams(remote, queue[u])
  /\ IF remote.enabled THEN Abandon ELSE UNCHANGED strays
  /\ UNCHANGED <<queue, callbacks, told, outcome, issued, serverVars, unread>>

DisableNetwork ==
  /\ remote.enabled
  /\ disturbances < MaxDisturbances
  /\ disturbances' = disturbances + 1
  /\ remote' = DisableNetworkInternal(remote)
  /\ Abandon
  /\ UNCHANGED <<queue, nextBatchId, user, callbacks, told, outcome,
                 issued, serverVars, unread>>

EnableNetwork ==
  /\ ~remote.enabled
  /\ remote' = Enable(remote, queue[user])
  /\ UNCHANGED <<queue, nextBatchId, user, callbacks, told, outcome,
                 issued, serverVars, unread, strays, disturbances>>

-----------------------------------------------------------------------------
(* The write stream *)

OnlyRemoteChanges ==
  UNCHANGED <<queue, nextBatchId, user, callbacks, told, outcome,
              issued, serverVars, unread, disturbances>>

\* The answer to a request for credentials, stamped with the close count at
\* the time of the request; the gRPC stream is started and says hello.
TokenGranted(c) ==
  /\ c \in remote.tokens
  /\ remote' = IF c = remote.closeCount
               THEN [remote EXCEPT !.tokens = @ \ {c}, !.state = "Open",
                                   !.requests = <<Handshake>>, !.idle = FALSE]
               ELSE [remote EXCEPT !.tokens = @ \ {c}]
  /\ OnlyRemoteChanges /\ UNCHANGED strays

TokenFailed(c) ==
  /\ c \in remote.tokens
  /\ c = remote.closeCount
  /\ remote.closeCount < MaxCloses
  /\ remote' = CloseAndRetry([remote EXCEPT !.tokens = @ \ {c}])
  /\ OnlyRemoteChanges /\ UNCHANGED strays

BackoffElapsed ==
  /\ remote.state = "Backoff"
  /\ remote' = StartStream([remote EXCEPT !.state = "Initial"])
  /\ OnlyRemoteChanges /\ UNCHANGED strays

IdleTimeout ==
  /\ remote.idle
  /\ remote.closeCount < MaxCloses
  /\ remote' = Stop(remote)
  /\ Abandon
  /\ OnlyRemoteChanges

\* The first response completes the handshake and the whole pipeline is sent.
OnHandshakeResponse ==
  /\ remote.answers # <<>>
  /\ ~remote.handshakeComplete
  /\ remote' =
       [remote EXCEPT !.handshakeComplete = TRUE,
                      !.answers = Tail(@),
                      !.requests = @ \o OpsOf(remote.pipeline),
                      !.idle = @ /\ remote.pipeline = <<>>]
  /\ OnlyRemoteChanges /\ UNCHANGED strays

\* Mutant of OnMutationResult: the batch stays in the mutation queue.
AcknowledgeInMemory ==
  /\ remote.answers # <<>>
  /\ remote.handshakeComplete
  /\ LET batch == Head(remote.pipeline)
     IN  /\ Notify(batch, "ok")
         /\ outcome' = [outcome EXCEPT ![batch.op] = "accepted"]
         /\ remote' = FillWritePipeline(
                        [remote EXCEPT !.answers = Tail(@),
                                       !.pipeline = Tail(@)], queue[user])
  /\ UNCHANGED <<queue, nextBatchId, user, issued, serverVars, unread,
                 strays, disturbances>>

\* Every other response resolves the write at the front of the pipeline.
OnMutationResult ==
  /\ remote.answers # <<>>
  /\ remote.handshakeComplete
  /\ LET batch == Head(remote.pipeline)
     IN  /\ Notify(batch, "ok")
         /\ queue' = [queue EXCEPT ![user] = RemoveMutationBatch(@, batch.id)]
         /\ outcome' = [outcome EXCEPT ![batch.op] = "accepted"]
         /\ remote' = FillWritePipeline(
                        [remote EXCEPT !.answers = Tail(@),
                                       !.pipeline = Tail(@)], queue'[user])
  /\ UNCHANGED <<nextBatchId, user, issued, serverVars, unread, strays,
                 disturbances>>

\* The end of a stream with a permanent error: HandleWriteError resolves the
\* write at the front, if the error can be about it.
FailFront ==
  IF remote.handshakeComplete /\ remote.pipeline # <<>>
  THEN LET batch == Head(remote.pipeline)
       IN  /\ Notify(batch, "error")
           /\ queue' = [queue EXCEPT ![user] = RemoveMutationBatch(@, batch.id)]
           /\ outcome' = [outcome EXCEPT ![batch.op] = "rejected"]
           /\ remote' = CloseAndReject(remote, queue'[user])
  ELSE /\ remote' = CloseAndRetry(remote)
       /\ UNCHANGED <<queue, callbacks, told, outcome>>

\* A response that cannot be decoded closes the stream with DataLoss, which
\* counts as permanent, also if it is the result of a write.
OnUndecodableResponse ==
  /\ remote.answers # <<>>
  /\ disturbances < MaxDisturbances
  /\ disturbances' = disturbances + 1
  /\ unread' = unread \union ({Head(remote.answers)} \ {Handshake})
  /\ FailFront
  /\ Abandon
  /\ UNCHANGED <<nextBatchId, user, issued, serverVars>>

\* The server ended the stream with a permanent error.
OnPermanentError ==
  /\ remote.status = "permanent" /\ remote.answers = <<>>
  /\ FailFront
  /\ UNCHANGED <<nextBatchId, user, issued, serverVars, unread, strays,
                 disturbances>>

\* The server ended the stream with status OK, which Close takes for a stop.
OnStatusOk ==
  /\ remote.status = "ok" /\ remote.answers = <<>>
  /\ ~ShouldStartWriteStream(Stop(remote))
  /\ remote' = Stop(remote)
  /\ OnlyRemoteChanges /\ UNCHANGED strays

\* Mutant of OnTransientError: every error is taken for a permanent one.
RejectOnAnyError ==
  /\ remote.state = "Open"
  /\ remote.closeCount < MaxCloses
  /\ FailFront
  /\ Abandon
  /\ UNCHANGED <<nextBatchId, user, issued, serverVars, unread, disturbances>>

\* The connection breaks, or the server gives up with an error worth a retry;
\* the answers that were not read are gone.
OnTransientError ==
  /\ remote.state = "Open"
  /\ remote.closeCount < MaxCloses
  /\ remote' = CloseAndRetry(remote)
  /\ Abandon
  /\ OnlyRemoteChanges

-----------------------------------------------------------------------------
(* The server, and the death of the process *)

Execute(u, o) ==
  /\ executed' = [executed EXCEPT ![u] = @ \union {o}]
  /\ doc' = [doc EXCEPT ![u] = o]

ServerAnswers ==
  /\ remote.requests # <<>>
  /\ remote.status = "none"
  /\ remote' = [remote EXCEPT !.requests = Tail(@),
                              !.answers = Append(@, Head(remote.requests))]
  /\ IF Head(remote.requests) = Handshake THEN UNCHANGED <<executed, doc>>
     ELSE Execute(user, Head(remote.requests))
  /\ UNCHANGED <<queue, nextBatchId, user, callbacks, told, outcome, issued,
                 refusals, hangups, unread, strays, strayed, disturbances>>

\* The server ends the stream; the status reaches the client after the answers.
ServerEnds(status) ==
  /\ remote.state = "Open" /\ remote.status = "none"
  /\ remote.closeCount < MaxCloses
  /\ remote' = [remote EXCEPT !.status = status]
  /\ UNCHANGED <<queue, nextBatchId, user, callbacks, told, outcome, issued,
                 executed, unread, doc, strays, strayed>>

\* It refuses the oldest request it has.
ServerRefuses ==
  /\ ServerEnds("permanent")
  /\ remote.requests # <<>>
  /\ refusals' = refusals \union ({Head(remote.requests)} \ {Handshake})
  /\ UNCHANGED <<hangups, disturbances>>

\* The error is about nothing the client has sent, as when a stream at rest is
\* ended; whatever is at the front when it arrives is taken for its cause.
ServerHangsUp ==
  /\ ServerEnds("permanent")
  /\ remote.requests = <<>>
  /\ disturbances < MaxDisturbances
  /\ disturbances' = disturbances + 1
  /\ hangups' = hangups + 1
  /\ UNCHANGED refusals

ServerFinishes ==
  /\ ServerEnds("ok")
  /\ disturbances < MaxDisturbances
  /\ disturbances' = disturbances + 1
  /\ UNCHANGED <<refusals, hangups>>

StrayIsExecuted(s) ==
  /\ s \in strays
  /\ Execute(s.user, s.op)
  /\ strayed' = strayed \union {s.user}
  /\ UNCHANGED <<queue, nextBatchId, user, remote, callbacks, told, outcome,
                 issued, refusals, hangups, unread, strays, disturbances>>

\* The process dies and a new one starts: what is on disk stays.
Relaunch(u) ==
  /\ user' = u
  /\ nextBatchId' = LoadNextBatchIdFromDb
  /\ remote' = Enable(FreshRemote, queue[u])
  /\ callbacks' = [v \in Users |-> {}]
  /\ Abandon
  /\ UNCHANGED <<queue, outcome, issued, serverVars, unread>>

\* What is told of the writes whose callback dies with the process.
ToldAfterDeath(o) ==
  IF \E v \in Users : \E c \in callbacks[v] : c.op = o THEN "lost" ELSE told[o]

Kill(u) ==
  /\ disturbances < MaxDisturbances
  /\ disturbances' = disturbances + 1
  /\ Relaunch(u)
  /\ told' = [o \in Ops |-> ToldAfterDeath(o)]

\* HandleSuccessfulWrite tells the user before LocalStore removes the batch.
KillWhileAcknowledging(u) ==
  /\ remote.answers # <<>>
  /\ remote.handshakeComplete
  /\ disturbances < MaxDisturbances
  /\ disturbances' = disturbances + 1
  /\ Relaunch(u)
  /\ LET id == Head(remote.pipeline).id
     IN  told' = [o \in Ops |->
           IF \E c \in callbacks[user] : c.id = id /\ c.op = o THEN "ok"
           ELSE ToldAfterDeath(o)]

\* "Write stream was stopped gracefully while still needed": the HARD_ASSERT
\* ends the app, and the user opens it again.
AbortOnStatusOk(u) ==
  /\ remote.status = "ok" /\ remote.answers = <<>>
  /\ ShouldStartWriteStream(Stop(remote))
  /\ Relaunch(u)
  /\ told' = [o \in Ops |-> ToldAfterDeath(o)]
  /\ UNCHANGED disturbances

ClientStep ==
  \/ WriteMutations \/ \E u \in Users : HandleCredentialChange(u)
  \/ DisableNetwork \/ EnableNetwork
StreamStep ==
  \/ \E c \in remote.tokens : TokenGranted(c) \/ TokenFailed(c)
  \/ BackoffElapsed \/ IdleTimeout
  \/ OnHandshakeResponse \/ OnMutationResult
  \/ OnUndecodableResponse \/ OnPermanentError \/ OnStatusOk
  \/ OnTransientError
ServerStep ==
  \/ ServerAnswers \/ ServerRefuses \/ ServerHangsUp \/ ServerFinishes
  \/ \E s \in strays : StrayIsExecuted(s)
ProcessStep ==
  \E u \in Users : Kill(u) \/ KillWhileAcknowledging(u) \/ AbortOnStatusOk(u)

Next == ClientStep \/ StreamStep \/ ServerStep \/ ProcessStep

Spec == Init /\ [][Next]_vars

(***************************************************************************)
(* Tokens arrive, timers elapse, the worker queue runs what gRPC hands it, *)
(* the server gives an answer or an error to a request it holds, and a     *)
(* network that was disabled is enabled again.  Failures, user changes and *)
(* kills need not happen; an app that has aborted is opened again.         *)
(***************************************************************************)
Fairness ==
  /\ WF_vars(\E c \in remote.tokens : TokenGranted(c))
  /\ WF_vars(BackoffElapsed)
  /\ WF_vars(OnHandshakeResponse) /\ WF_vars(OnMutationResult)
  /\ WF_vars(OnPermanentError)
  /\ WF_vars(OnStatusOk \/ \E u \in Users : AbortOnStatusOk(u))
  /\ WF_vars(ServerAnswers)
  /\ WF_vars(EnableNetwork)

FairSpec == Spec /\ Fairness

-----------------------------------------------------------------------------
(* Properties *)

Batches == [id : Nat \ {0}, op : Ops]

Messages == Ops \union {Handshake}

RemoteRecords ==
  [enabled : BOOLEAN, pipeline : Seq(Batches),
   state : {"Initial", "Starting", "Open", "Error", "Backoff"},
   handshakeComplete : BOOLEAN, idle : BOOLEAN, closeCount : Nat,
   tokens : SUBSET Nat, requests : Seq(Messages),
   answers : Seq(Messages), status : {"none", "permanent", "ok"}]

\* The values the variables take.
TypeOK ==
  /\ queue \in [Users -> Seq(Batches)]
  /\ nextBatchId \in Nat \ {0}
  /\ user \in Users
  /\ remote \in RemoteRecords
  /\ callbacks \in [Users -> SUBSET Batches]
  /\ told \in [Ops -> {"waiting", "ok", "error", "lost"}]
  /\ outcome \in [Ops -> {"open", "accepted", "rejected"}]
  /\ issued \in 0..MaxWrites
  /\ executed \in [Users -> SUBSET Ops]
  /\ refusals \in SUBSET Ops
  /\ hangups \in Nat
  /\ unread \in SUBSET Ops
  /\ doc \in [Users -> Ops \union {0}]
  /\ strays \in SUBSET [user : Users, op : Ops]
  /\ strayed \in SUBSET Users
  /\ disturbances \in 0..MaxDisturbances

\* The pipeline holds the oldest writes of the user who is signed in, without
\* a gap, and never more than kMaxPendingWrites of them: whatever order of
\* refills, rejections, user changes and restarts led there, no batch is
\* skipped and none is in it that the queue no longer holds.
PipelineIsPrefix ==
  /\ Len(remote.pipeline) <= MaxPendingWrites
  /\ Len(remote.pipeline) <= Len(queue[user])
  /\ \A i \in 1..Len(remote.pipeline) : remote.pipeline[i] = queue[user][i]

\* "Write responses are linked to their originating request purely based on
\* order" (remote_store.h): on an established stream, the answers that are on
\* their way and then the requests the server still has are the writes of the
\* pipeline, in its order, so that the front is the write an answer is for.
AnswersFollowPipeline ==
  Established(remote) =>
    remote.answers \o remote.requests = OpsOf(remote.pipeline)

\* "Whenever write_pipeline_ is not empty, the RemoteStore will attempt to
\* start or restart the write stream" (remote_store.h), and with the network
\* enabled a write that waits is in the pipeline: no order of failures leaves
\* writes behind with nothing at work on them.
NoWriteIsForgotten ==
  remote.enabled /\ queue[user] # <<>>
    => remote.pipeline # <<>> /\ IsStarted(remote)

\* The HARD_ASSERTs on the way hold, each of which ends the app, but for the
\* one in GracefulStopIsDesirable: a stream that the idle timer stops is not
\* needed, credentials that are not out of date find a stream that is
\* starting, an answer finds a write in the pipeline, and a batch that is
\* resolved is still in the mutation queue.
AssertionsHold ==
  /\ remote.idle => ~ShouldStartWriteStream(Stop(remote))
  /\ remote.closeCount \in remote.tokens => remote.state = "Starting"
  /\ remote.answers # <<>> /\ remote.handshakeComplete
       => remote.pipeline # <<>>
  /\ remote.pipeline # <<>>
       => Head(remote.pipeline).id \in Ids(queue[user])
  /\ remote.handshakeComplete => remote.state = "Open"

\* OnWriteStreamClose: "Graceful stop (due to Stop() or idle timeout). Make
\* sure that's desirable."  The server's status OK is not one of the two.
GracefulStopIsDesirable ==
  remote.status = "ok" /\ remote.answers = <<>>
    => ~ShouldStartWriteStream(Stop(remote))

\* The callbacks that are kept are those of batches in the queue, each under
\* the id its batch has now: an id that is used again never finds the callback
\* of another write, and every write of this process that waits has one.
CallbacksAreOfBatches ==
  \A u \in Users :
    /\ \A c \in callbacks[u] : \E i \in 1..Len(queue[u]) : queue[u][i] = c
    /\ \A i \in 1..Len(queue[u]) :
         told[queue[u][i].op] = "waiting" => queue[u][i] \in callbacks[u]

\* The writes rejected for an error that was not about them.
Misjudged == {o \in Ops : outcome[o] = "rejected" /\ o \notin refusals \union unread}

\* The app is told the truth: "ok" only of a write the server executed, and
\* "error" only of one the server refused or whose result could not be
\* decoded, or else of one write for each time that the server has ended a
\* stream on an error without a request to refuse.
CallbacksTellTheTruth ==
  /\ \A o \in Ops :
       /\ told[o] = "ok" => \E u \in Users : o \in executed[u]
       /\ told[o] = "error" => outcome[o] = "rejected"
       /\ o \in unread => \E u \in Users : o \in executed[u]
  /\ Cardinality(Misjudged) <= hangups

\* What the server accepted of a user's writes is never undone by an older
\* write of the same user that is sent again, unless the server executes a
\* request of a stream the client has given up: writes that were not
\* acknowledged are executed again from the oldest on, so the document may go
\* back for a while, but never behind a write that was acknowledged.
AcknowledgedStays ==
  \A u \in Users \ strayed : \A o \in executed[u] :
    outcome[o] = "accepted" => doc[u] >= o

\* The client implements the queue of writes it promises.
Promise == INSTANCE WriteQueue WITH
  pending <- [u \in Users |-> {queue[u][i].op : i \in 1..Len(queue[u])}]
PromiseSpec == Promise!Spec

\* A write of the user who is signed in is resolved in the end, whatever
\* failed on the way, unless the user changes first.
IsWaiting(o) == \E i \in 1..Len(queue[user]) : queue[user][i].op = o
WritesAreResolved == \A o \in Ops : []<>~IsWaiting(o)
=============================================================================
