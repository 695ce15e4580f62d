------------------------------- MODULE Channel -------------------------------
(***************************************************************************)
(* What the byte-weighted queue of crates/protocol/src/queue.rs promises:  *)
(* an unbounded FIFO channel with many senders and one receiver.  Nothing  *)
(* is lost, duplicated or reordered while the receiver exists; the end of  *)
(* the stream is reported only when no sender is left and every item was   *)
(* delivered; items already delivered can be put back in front.            *)
(***************************************************************************)
EXTENDS Naturals, Sequences

CONSTANTS Message

VARIABLES queue,      \* sent and not delivered
          delivered,  \* handed to the receiver, oldest first
          sending,    \* some sender exists
          receiving,  \* the receiver exists
          ended       \* the end of the stream was reported

cvars == <<queue, delivered, sending, receiving, ended>>

CInit == /\ queue = <<>> /\ delivered = <<>>
         /\ sending = TRUE /\ receiving = TRUE /\ ended = FALSE

CSend(m) ==
  /\ sending /\ receiving
  /\ queue' = Append(queue, m)
  /\ UNCHANGED <<delivered, sending, receiving, ended>>

CReceive ==
  /\ receiving /\ queue # <<>>
  /\ delivered' = Append(delivered, Head(queue))
  /\ queue' = Tail(queue)
  /\ UNCHANGED <<sending, receiving, ended>>

CReturn(n) ==
  /\ receiving
  /\ n < Len(delivered)
  /\ queue' = SubSeq(delivered, n + 1, Len(delivered)) \o queue
  /\ delivered' = SubSeq(delivered, 1, n)
  /\ UNCHANGED <<sending, receiving, ended>>

CLastSender ==
  /\ sending /\ sending' = FALSE
  /\ UNCHANGED <<queue, delivered, receiving, ended>>

CEnd ==
  /\ receiving /\ ~sending /\ queue = <<>>
  /\ ended' = TRUE
  /\ UNCHANGED <<queue, delivered, sending, receiving>>

CClose ==
  /\ receiving /\ receiving' = FALSE
  /\ queue' = <<>>
  /\ UNCHANGED <<delivered, sending, ended>>

CNext ==
  \/ \E m \in Message : CSend(m)
  \/ CReceive
  \/ \E n \in 0 .. Len(delivered) : CReturn(n)
  \/ CLastSender \/ CEnd \/ CClose

CSpec == CInit /\ [][CNext]_cvars
=============================================================================
