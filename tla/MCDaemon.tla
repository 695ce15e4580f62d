------------------------------ MODULE MCDaemon ------------------------------
(***************************************************************************)
(* Instances of Daemon for TLC.  A behaviour belongs to a scenario: the    *)
(* resources that policy creates, the policy calls made, and whether       *)
(* policy itself ends resources.                                           *)
(***************************************************************************)
EXTENDS Daemon

EntryPoints == [resources |-> EntryPoint \cup Dialer, calls |-> {}, ends |-> FALSE]
PolicyCalls == [resources |-> Dialer, calls |-> PolicyCall, ends |-> TRUE]

VARIABLE scenario
mcvars == <<vars, scenario>>

Within ==
  /\ \A r \in Resource : /\ creation[r] # "new" => r \in scenario.resources
                         /\ deadline[r] # 0 \/ r \in aborted => scenario.ends
  /\ \A k \in PolicyCall : call[k] # "none" => k \in scenario.calls

MCInit == DaemonInit /\ scenario \in {EntryPoints, PolicyCalls}
MCNext == DaemonNext /\ UNCHANGED scenario /\ Within'
MCSpec == MCInit /\ [][MCNext]_mcvars

LiveInit == DaemonInit /\ scenario = [PolicyCalls EXCEPT !.ends = FALSE]
MCFairSpec == LiveInit /\ [][MCNext]_mcvars /\ TasksRun /\ (TimerFires \/ PolicySettles)
=============================================================================
