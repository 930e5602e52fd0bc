--------------------------- MODULE BoundedChannel ---------------------------
(***************************************************************************)
(* What a single-producer/single-consumer channel of bounded capacity      *)
(* promises: values come out once, in the order they went in; never more   *)
(* than Capacity are in flight; the end of the stream is reported only     *)
(* when the sender has closed and every value has been received.           *)
(***************************************************************************)
EXTENDS Naturals, Sequences

CONSTANTS Capacity, Values

VARIABLES
  queue,            \* values sent and not received
  senderClosed,
  receiverClosed,
  ended,            \* the receiver's last call reported the end of the stream
  taken             \* what the last successful receive returned

channelVars == <<queue, senderClosed, receiverClosed, ended, taken>>

Init ==
  /\ queue = <<>>
  /\ senderClosed = FALSE
  /\ receiverClosed = FALSE
  /\ ended = FALSE

Send ==
  /\ ~senderClosed
  /\ Len(queue) < Capacity
  /\ \E v \in Values : queue' = Append(queue, v)
  /\ UNCHANGED <<senderClosed, receiverClosed, ended, taken>>

Receive ==
  /\ queue # <<>>
  /\ ~ended
  /\ taken' = Head(queue)
  /\ queue' = Tail(queue)
  /\ UNCHANGED <<senderClosed, receiverClosed, ended>>

ReportEnd ==
  /\ senderClosed
  /\ queue = <<>>
  /\ ended' = TRUE
  /\ UNCHANGED <<queue, senderClosed, receiverClosed, taken>>

(* The receiver calls again, or goes away. *)
ForgetEnd ==
  /\ ended' = FALSE
  /\ receiverClosed' \in {receiverClosed, TRUE}
  /\ UNCHANGED <<queue, senderClosed, taken>>

CloseSender ==
  /\ senderClosed' = TRUE
  /\ UNCHANGED <<queue, receiverClosed, ended, taken>>

CloseReceiver ==
  /\ receiverClosed' = TRUE
  /\ UNCHANGED <<queue, senderClosed, ended, taken>>

(* Values nobody received are discarded when both endpoints are gone. *)
Reclaim ==
  /\ senderClosed
  /\ receiverClosed
  /\ queue' = <<>>
  /\ UNCHANGED <<senderClosed, receiverClosed, ended, taken>>

Next ==
  \/ Send
  \/ Receive
  \/ ReportEnd
  \/ ForgetEnd
  \/ CloseSender
  \/ CloseReceiver
  \/ Reclaim

Spec == Init /\ [][Next]_channelVars

=============================================================================
