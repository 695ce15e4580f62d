------------------------------- MODULE MCDns -------------------------------
(***************************************************************************)
(* Instances of DnsService and DnsCache for TLC.  The exchange with the    *)
(* upstream and the cache share no state, so a behaviour is one of the     *)
(* service or one of the cache while the other rests.                      *)
(***************************************************************************)
EXTENDS DnsService, DnsCache

VARIABLE part
mcvars == <<dvars, cvars, part>>

MCInit == DnsInit /\ CacheInit /\ part \in {"service", "cache"}
MCNext ==
  \/ part = "service" /\ DnsNext /\ UNCHANGED <<cvars, part>>
  \/ part = "cache" /\ CacheNext /\ UNCHANGED <<dvars, part>>
MCSpec == MCInit /\ [][MCNext]_mcvars /\ (part = "service" => DnsFairness)
=============================================================================
