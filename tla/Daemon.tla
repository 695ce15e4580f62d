------------------------------- MODULE Daemon -------------------------------
(***************************************************************************)
(* Startup, policy calls and shutdown of the daemon,                       *)
(* crates/daemon/src/lib.rs, around the resource manager of module         *)
(* Resources.                                                              *)
(*                                                                         *)
(* One thread evaluates the policy, serves policy calls and runs shutdown  *)
(* hooks (serve).  A detached task ends the resources in dependency order  *)
(* (drain).  A timer turns a shutdown that takes too long into an abort.   *)
(* The owner may stop, wait for or drop the daemon at any time.            *)
(***************************************************************************)
EXTENDS Resources

CONSTANTS PolicyCall,   \* route, resolve and DNS calls of native components
          Capacity      \* CAPACITY of the command queue

ASSUME CapacityAssumption == Capacity \in Nat \ {0}

VARIABLES
  stopping, force, callsDone, allReleased,  \* cancellation tokens
  evaluating,   \* the entry module evaluates; its result has not been sent to ready
  hooks,        \* the shutdown hooks
  worker,       \* the policy thread: its phases and its result
  commands,     \* the command queue: open, closed, or closed and found empty
  call,         \* the policy call that each native caller makes at present
  drain,        \* progress of the drain task
  awaited,      \* the release tokens that the drain task collected
  owner,        \* how far the owner's drop has come
  waiter        \* progress and result of wait

tokens == <<stopping, force, callsDone, allReleased>>
script == <<evaluating, hooks, worker, commands, call>>
dvars  == <<tokens, script, drain, awaited, owner, waiter>>
vars   == <<rvars, dvars>>

Results == {"Drained", "TimedOut", "Err"}

\* Types of the policy thread, the drain task, the owner and wait.
DaemonTypeOK ==
  /\ stopping \in BOOLEAN /\ force \in BOOLEAN
  /\ callsDone \in BOOLEAN /\ allReleased \in BOOLEAN
  /\ evaluating \in BOOLEAN
  /\ hooks \in {"waiting", "running", "finished", "failed"}
  /\ worker \in {"starting", "serving", "idling"} \cup Results
  /\ commands \in {"open", "closed", "exhausted"}
  /\ call \in [PolicyCall -> {"none", "queued", "running", "dropped"}]
  /\ drain \in {"waiting", "collectEntryPoints", "entryPoints", "collectServices", "services",
                "collectAborted", "aborting", "done"}
  /\ awaited \subseteq Resource
  /\ owner \in {"owned", "dropping", "dropped"}
  /\ waiter \in {"waiting", "failing", "failed", "Network"} \cup Results

DaemonInit ==
  /\ Init
  /\ stopping = FALSE /\ force = FALSE /\ callsDone = FALSE /\ allReleased = FALSE
  /\ evaluating = TRUE /\ hooks = "waiting" /\ worker = "starting" /\ commands = "open"
  /\ call = [k \in PolicyCall |-> "none"]
  /\ drain = "waiting" /\ awaited = {} /\ owner = "owned" /\ waiter = "waiting"

Alive    == worker \in {"starting", "serving", "idling"}
Accepted == {k \in PolicyCall : call[k] \in {"queued", "running"}}

-----------------------------------------------------------------------------
(* The owner, the deadline and wait.                                        *)

Stop ==
  /\ owner = "owned" /\ ~shutdown
  /\ shutdown' = TRUE
  /\ UNCHANGED <<registry, rootClosed, creation, lifetime, tasks, failure, dvars>>

Deadline ==
  /\ shutdown /\ ~force
  /\ force' = TRUE
  /\ UNCHANGED <<rvars, stopping, callsDone, allReleased, script, drain, awaited, owner, waiter>>

\* Worker::drop cancels shutdown, then stopping, then force.
DropOwner ==
  /\ owner = "owned"
  /\ owner' = "dropping"
  /\ shutdown' = TRUE
  /\ UNCHANGED <<registry, rootClosed, creation, lifetime, tasks, failure, tokens, script, drain,
                 awaited, waiter>>

DropTokens ==
  /\ owner = "dropping"
  /\ \/ ~stopping /\ stopping' = TRUE /\ UNCHANGED <<force, owner>>
     \/ stopping /\ force' = TRUE /\ owner' = "dropped" /\ UNCHANGED stopping
  /\ UNCHANGED <<rvars, callsDone, allReleased, script, drain, awaited, waiter>>

\* wait: a failed worker stops admission and aborts what is left.
WaitWorker ==
  /\ owner = "owned"
  /\ worker = "Err"
  /\ \/ waiter = "waiting" /\ waiter' = "failing" /\ stopping' = TRUE /\ UNCHANGED force
     \/ waiter = "failing" /\ waiter' = "failed" /\ force' = TRUE /\ UNCHANGED stopping
  /\ UNCHANGED <<rvars, callsDone, allReleased, script, drain, awaited, owner>>

\* Mistake: the deadline is looked at before the failure.
WaitResultForcedFirst ==
  /\ owner = "owned"
  /\ allReleased
  /\ \/ waiter = "failed" /\ waiter' = "Err"
     \/ /\ waiter = "waiting" /\ worker \in {"Drained", "TimedOut"}
        /\ waiter' = IF force \/ worker = "TimedOut" THEN "TimedOut"
                     ELSE IF failure # None THEN "Network" ELSE "Drained"
  /\ UNCHANGED <<rvars, tokens, script, drain, awaited, owner>>

\* wait: both the worker and the resources are done.
WaitResult ==
  /\ owner = "owned"
  /\ allReleased
  /\ \/ waiter = "failed" /\ waiter' = "Err"
     \/ /\ waiter = "waiting" /\ worker \in {"Drained", "TimedOut"}
        /\ waiter' = IF failure # None THEN "Network"
                     ELSE IF force \/ worker = "TimedOut" THEN "TimedOut" ELSE "Drained"
  /\ UNCHANGED <<rvars, tokens, script, drain, awaited, owner>>

Owner == Stop \/ Deadline \/ DropOwner \/ DropTokens \/ WaitWorker \/ WaitResult

-----------------------------------------------------------------------------
(* Policy calls and the policy thread.                                      *)

\* Policy::send is refused once admission stops or the thread is gone; otherwise it waits for
\* room in the queue.
SendCall(k) ==
  /\ call[k] = "none"
  /\ ~stopping /\ commands = "open" /\ Alive
  /\ Cardinality({j \in PolicyCall : call[j] = "queued"}) < Capacity
  /\ call' = [call EXCEPT ![k] = "queued"]
  /\ UNCHANGED <<rvars, tokens, evaluating, hooks, worker, commands, drain, awaited, owner, waiter>>

\* Mistake: the loop ends with handler calls in progress.
ExhaustedEarly ==
  /\ commands = "exhausted"
  /\ shutdown => hooks = "finished"
  /\ ~evaluating

\* The loop condition of serve: no call can start or remains, the hooks are done and startup
\* was reported.
Exhausted ==
  /\ commands = "exhausted" /\ Accepted = {}
  /\ shutdown => hooks = "finished"
  /\ ~evaluating
Serving == worker = "serving" /\ ~Exhausted /\ hooks # "failed"

\* Script::new
StartScript ==
  /\ worker = "starting" /\ worker' = "serving"
  /\ UNCHANGED <<rvars, tokens, evaluating, hooks, commands, call, drain, awaited, owner, waiter>>

Dispatch(k) ==
  /\ Serving
  /\ call[k] = "queued"
  /\ call' = [call EXCEPT ![k] = "running"]
  /\ UNCHANGED <<rvars, tokens, evaluating, hooks, worker, commands, drain, awaited, owner, waiter>>

Answer(k) ==
  /\ Serving
  /\ call[k] = "running"
  /\ call' = [call EXCEPT ![k] = "none"]
  /\ UNCHANGED <<rvars, tokens, evaluating, hooks, worker, commands, drain, awaited, owner, waiter>>

\* The entry module settles; a failed evaluation starts the shutdown.
Evaluate(ok) ==
  /\ Serving
  /\ evaluating /\ evaluating' = FALSE
  /\ shutdown' = (shutdown \/ ~ok)
  /\ UNCHANGED <<registry, rootClosed, creation, lifetime, tasks, failure, tokens, hooks, worker,
                 commands, call, drain, awaited, owner, waiter>>

\* Mistake: admission stops before the hooks run.
HooksStartStopped ==
  /\ Serving
  /\ shutdown
  /\ hooks = "waiting" /\ hooks' = "running"
  /\ stopping' = TRUE
  /\ UNCHANGED <<rvars, force, callsDone, allReleased, evaluating, worker, commands, call, drain,
                 awaited, owner, waiter>>

\* The hooks run once shutdown is requested; then admission stops, whatever their result.
HooksStart ==
  /\ Serving
  /\ shutdown
  /\ hooks = "waiting" /\ hooks' = "running"
  /\ UNCHANGED <<rvars, tokens, evaluating, worker, commands, call, drain, awaited, owner, waiter>>

HooksReturn ==
  /\ Serving
  /\ hooks = "running" /\ hooks' \in {"finished", "failed"}
  /\ stopping' = TRUE
  /\ UNCHANGED <<rvars, force, callsDone, allReleased, evaluating, worker, commands, call, drain,
                 awaited, owner, waiter>>

CloseCommands ==
  /\ Serving
  /\ \/ stopping /\ commands = "open" /\ commands' = "closed"
     \/ /\ commands = "closed" /\ \A k \in PolicyCall : call[k] # "queued"
        /\ commands' = "exhausted"
  /\ UNCHANGED <<rvars, tokens, evaluating, hooks, worker, call, drain, awaited, owner, waiter>>

LastCall ==
  /\ worker = "serving" /\ hooks # "failed" /\ Exhausted
  /\ worker' = "idling"
  /\ callsDone' = TRUE
  /\ UNCHANGED <<rvars, stopping, force, allReleased, evaluating, hooks, commands, call, drain,
                 awaited, owner, waiter>>

\* The thread returns: the calls it had accepted are dropped with the JS state, and the drop
\* guard cancels calls.
Exit(result) ==
  /\ worker' = result
  /\ callsDone' = TRUE
  /\ call' = [k \in PolicyCall |-> IF k \in Accepted THEN "dropped" ELSE call[k]]
  /\ UNCHANGED <<rvars, stopping, force, allReleased, evaluating, hooks, commands, drain, awaited,
                 owner, waiter>>

WorkerForced == worker \in {"serving", "idling"} /\ force /\ Exit("TimedOut")
WorkerIdle   == worker = "idling" /\ Exit("Drained")
WorkerFails  == (worker = "starting" \/ (worker = "serving" /\ hooks = "failed")) /\ Exit("Err")

Script ==
  \/ \E k \in PolicyCall : Dispatch(k) \/ Answer(k)
  \/ \E ok \in BOOLEAN : Evaluate(ok)
  \/ StartScript \/ HooksStart \/ HooksReturn \/ CloseCommands \/ LastCall
  \/ WorkerForced \/ WorkerIdle \/ WorkerFails

-----------------------------------------------------------------------------
(* The drain task.                                                          *)

DrainTo(from, to) ==
  /\ drain = from /\ drain' = to
  /\ UNCHANGED <<stopping, force, callsDone, script, owner, waiter>>

DrainEntryPoints ==
  /\ stopping
  /\ DrainTo("waiting", "collectEntryPoints")
  /\ DrainTier("EntryPoint")
  /\ UNCHANGED <<awaited, allReleased>>

\* Mistake: only the entries that are still open are awaited.
CollectOpen(from, to, t) ==
  /\ DrainTo(from, to)
  /\ awaited' = {r \in entries : Tier(r) \in t /\ IsOpen(r)}
  /\ UNCHANGED <<rvars, allReleased>>

\* released_tier collects the tokens of the registered entries.
Collect(from, to, t) ==
  /\ DrainTo(from, to)
  /\ awaited' = {r \in entries : Tier(r) \in t}
  /\ UNCHANGED <<rvars, allReleased>>

CollectEntryPoints == Collect("collectEntryPoints", "entryPoints", {"EntryPoint"})

\* Mistake: services drain without waiting for the entry points.
DrainServicesEarly ==
  /\ callsDone
  /\ DrainTo("entryPoints", "collectServices")
  /\ DrainTier("Service")
  /\ UNCHANGED <<awaited, allReleased>>

DrainServices ==
  /\ awaited \subseteq released /\ callsDone
  /\ DrainTo("entryPoints", "collectServices")
  /\ DrainTier("Service")
  /\ UNCHANGED <<awaited, allReleased>>

CollectServices == Collect("collectServices", "services", {"Service"})

ServicesReleased ==
  /\ awaited \subseteq released
  /\ DrainTo("services", "done")
  /\ allReleased' = TRUE
  /\ UNCHANGED <<rvars, awaited>>

\* Mistake: the deadline counts only once the drain has started.
DrainForcedLate ==
  /\ force
  /\ \E from \in {"entryPoints", "services"} : DrainTo(from, "collectAborted")
  /\ Abort
  /\ UNCHANGED <<awaited, allReleased>>

\* The biased select drops the ordered drain at any of its awaits.
DrainForced ==
  /\ force
  /\ \E from \in {"waiting", "entryPoints", "services"} : DrainTo(from, "collectAborted")
  /\ Abort
  /\ UNCHANGED <<awaited, allReleased>>

CollectAborted == Collect("collectAborted", "aborting", Tiers)

AbortedReleased ==
  /\ awaited \subseteq released
  /\ DrainTo("aborting", "done")
  /\ allReleased' = TRUE
  /\ UNCHANGED <<rvars, awaited>>

DrainTask ==
  \/ DrainEntryPoints \/ CollectEntryPoints \/ DrainServices \/ CollectServices
  \/ ServicesReleased \/ DrainForced \/ CollectAborted \/ AbortedReleased

-----------------------------------------------------------------------------
\* What policy does to resources needs the policy thread; the rest of the manager runs on.
ByPolicy ==
  \/ \E r \in Resource : CreateChecked(r) \/ Close(r)
  \/ \E r \in Resource, at \in Deadlines : Drain(r, at)

Manager ==
  \/ \E r \in Resource : (Create(r) /\ creation[r] # "new") \/ Supervise(r)
  \/ \E r \in EntryPoint : Run(r)
  \/ \E c \in Caller : Call(c)
  \/ \E p \in pooled : PoolCloses(p)

DaemonNext ==
  \/ Owner
  \/ \E k \in PolicyCall : SendCall(k)
  \/ Script
  \/ DrainTask
  \/ worker \in {"serving", "idling"} /\ ByPolicy /\ UNCHANGED dvars
  \/ Manager /\ UNCHANGED dvars

DaemonSpec == DaemonInit /\ [][DaemonNext]_vars

\* The runtime polls ready tasks.
TasksRun ==
  /\ Fairness
  /\ WF_vars(DrainTask) /\ WF_vars(DropTokens) /\ WF_vars(WaitWorker) /\ WF_vars(WaitResult)
  /\ WF_vars(StartScript \/ WorkerFails) /\ WF_vars(LastCall) /\ WF_vars(WorkerForced)
  /\ WF_vars(CloseCommands)

\* The timer fires.
TimerFires == WF_vars(Deadline)

\* Evaluation, hooks, handlers and detached promises settle, and sessions end.
PolicySettles ==
  /\ WF_vars(\E ok \in BOOLEAN : Evaluate(ok)) /\ WF_vars(HooksStart) /\ WF_vars(HooksReturn)
  /\ \A k \in PolicyCall : WF_vars(Dispatch(k)) /\ WF_vars(Answer(k))
  /\ WF_vars(WorkerIdle)
  /\ \A c \in Caller : WF_rvars(Finish(c))

-----------------------------------------------------------------------------
(* Properties.                                                              *)

\* wait reports only after every resource is released: when the drain task cancels released,
\* no entry is registered and none can be, whichever of the ordered drain and the abort ended
\* first, and whatever was being created meanwhile.
AllReleasedIsEmpty == allReleased => entries = {} /\ ~accepting

\* The dialers and DNS services that serve entry points and policy calls drain once those are
\* released and no policy call remains (ADR 0003), also when the policy thread failed.
ServicesDrainLast ==
  drain \in {"collectServices", "services"} =>
    entries \cap EntryPoint = {} /\ Accepted = {}

\* Hooks run while admission stays open: unless the deadline passed, the owner dropped the
\* daemon or the worker failed, no tier drains and creation works until the hooks are done.
HooksBeforeDrain ==
  hooks \in {"waiting", "running"} /\ ~force /\ owner = "owned" /\ worker # "Err" =>
    accepting /\ drain = "waiting" /\ ~stopping

\* A Drained result means that nothing was cut off: no abort, no accepted policy call dropped,
\* startup reported and hooks completed.
DrainedIsClean ==
  waiter = "Drained" =>
    ~rootClosed /\ ~evaluating /\ hooks = "finished" /\ \A k \in PolicyCall : call[k] = "none"

\* An inbound failure is never reported as a clean or a timed-out shutdown, although the
\* failing run task and wait are not ordered by anything but the release.
FailureReported == waiter \in {"Drained", "TimedOut"} => failure = None

\* Once shutdown is requested wait returns with every resource released, or the owner has
\* dropped the daemon and every resource is released.
ShutdownCompletes ==
  shutdown ~> allReleased /\ (waiter \in Results \cup {"Network"} \/ owner # "owned")
=============================================================================
