----------------------------- MODULE MCResources -----------------------------
(***************************************************************************)
(* Instances of Resources for TLC.  A behaviour belongs to a scenario: the *)
(* resources that policy creates and the callers that show up in it.       *)
(***************************************************************************)
EXTENDS Resources

\* Pairs of a set of resources and a set of callers.
Scenarios == {<<Dialer \cup DnsService, Caller>>, <<EntryPoint, Caller>>}

VARIABLE scenario
mcvars == <<rvars, scenario>>

Within ==
  /\ \A r \in Resource : creation[r] # "new" => r \in scenario[1]
  /\ \A c \in Caller : caller[c] # "idle" => c \in scenario[2]

MCInit == Init /\ scenario \in Scenarios
MCNext == Next /\ UNCHANGED scenario /\ Within'
MCSpec == MCInit /\ [][MCNext]_mcvars /\ Fairness
=============================================================================
