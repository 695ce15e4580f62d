------------------------------ MODULE MCQueue ------------------------------
(***************************************************************************)
(* Instances of ByteQueue and QueueFeedback for TLC.  ByteQueue leaves the *)
(* target open and QueueFeedback computes it, so a behaviour is one of the *)
(* queue or one of the feedback while the other rests.                     *)
(***************************************************************************)
EXTENDS ByteQueue, QueueFeedback

VARIABLE part
mcvars == <<vars, fvars, part>>

MCInit == Init /\ FeedbackInit /\ part \in {"queue", "feedback"}
MCNext ==
  \/ part = "queue" /\ Next /\ UNCHANGED <<fvars, part>>
  \/ part = "feedback" /\ FeedbackNext /\ UNCHANGED <<vars, part>>
MCSpec == MCInit /\ [][MCNext]_mcvars /\ (part = "queue" => Fairness)
=============================================================================
