------------------------------ MODULE MCAnyTls ------------------------------
(***************************************************************************)
(* Instances of AnyTlsPool and AnyTlsSession for TLC.  The client's pool   *)
(* and the server's session share no state, so a behaviour is one of the   *)
(* pool or one of the session while the other rests.                       *)
(***************************************************************************)
EXTENDS AnyTlsPool, AnyTlsSession

VARIABLE part
mcvars == <<avars, svars, part>>

MCInit == PoolInit /\ SessionInit /\ part \in {"pool", "session"}
MCNext ==
  \/ part = "pool" /\ PoolNext /\ UNCHANGED <<svars, part>>
  \/ part = "session" /\ SessionNext /\ UNCHANGED <<avars, part>>
MCSpec == MCInit /\ [][MCNext]_mcvars
MCFairSpec ==
  MCSpec /\ (part = "pool" => PoolFairness) /\ (part = "session" => SessionFairness)
=============================================================================
