---------------------------- MODULE StreamChannel ----------------------------
(***************************************************************************)
(* What a GrpcStream promises to the Stream that observes it, as a channel *)
(* between the client and the server: the messages of each side arrive in  *)
(* their order, each once and without a gap; the client is told once how   *)
(* the stream ended, hears nothing after that, and is told of the status   *)
(* of the server only when it has heard everything the server has sent.    *)
(* Nothing is said of operations, completions, callbacks or the polling    *)
(* thread: those belong to GrpcStream, which implements this               *)
(* specification.  The messages of a side are numbered from 1.             *)
(***************************************************************************)
EXTENDS Naturals, Sequences

VARIABLES
  call,         \* "idle", "open", "ended" by the server, or "cut"
  replies,      \* how many messages the server has sent
  heard,        \* the messages the client has heard
  written,      \* how many messages the client has written
  received,     \* the messages the server has received
  verdict       \* how the stream ended for the client, "none" before

vars == <<call, replies, heard, written, received, verdict>>

Init ==
  /\ call = "idle" /\ replies = 0 /\ heard = <<>>
  /\ written = 0 /\ received = <<>> /\ verdict = "none"

\* A side has received one message more, the next one.
WithNext(seq) == Append(seq, Len(seq) + 1)

\* The client opens the call.
Open ==
  /\ call = "idle" /\ verdict = "none"
  /\ call' = "open"
  /\ UNCHANGED <<replies, heard, written, received, verdict>>

Reply ==
  /\ call = "open"
  /\ replies' = replies + 1
  /\ UNCHANGED <<call, heard, written, received, verdict>>

\* Messages of the server may still be heard when the call is over.
Hear ==
  /\ verdict = "none" /\ Len(heard) < replies
  /\ heard' = WithNext(heard)
  /\ UNCHANGED <<call, replies, written, received, verdict>>

Ask ==
  /\ verdict = "none" /\ call # "idle"
  /\ written' = written + 1
  /\ UNCHANGED <<call, replies, heard, received, verdict>>

Receive ==
  /\ verdict = "none" /\ call = "open" /\ Len(received) < written
  /\ received' = WithNext(received)
  /\ UNCHANGED <<call, replies, heard, written, verdict>>

\* The server ends the call, or the connection breaks.
CallIsOver ==
  /\ call = "open"
  /\ call' \in {"ended", "cut"}
  /\ UNCHANGED <<replies, heard, written, received, verdict>>

\* The client is told how the stream ended, and the call ends with it.
Tell(status) ==
  /\ verdict = "none" /\ verdict' = status
  /\ call' = IF call = "open" THEN "cut" ELSE call
  /\ UNCHANGED <<replies, heard>>

\* The status of the server comes after its last message.
TellStatus ==
  /\ call = "ended" /\ Len(heard) = replies
  /\ Tell("server")
  /\ UNCHANGED <<written, received>>

TellLoss == Tell("Unavailable") /\ UNCHANGED <<written, received>>

\* The client stops the stream, perhaps with a last message, which arrives
\* after all others or not at all.
Stop ==
  /\ Tell("stopped")
  /\ \/ UNCHANGED <<written, received>>
     \/ /\ call # "idle"
        /\ written' = written + 1
        /\ \/ UNCHANGED received
           \/ /\ call = "open" /\ Len(received) = written
              /\ received' = WithNext(received)

Next ==
  \/ Open \/ Reply \/ Hear \/ Ask \/ Receive \/ CallIsOver
  \/ TellStatus \/ TellLoss \/ Stop

Spec == Init /\ [][Next]_vars
=============================================================================
