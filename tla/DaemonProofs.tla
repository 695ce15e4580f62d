---------------------------- MODULE DaemonProofs ----------------------------
(***************************************************************************)
(* Proofs about the order in which the daemon shuts down, for any sets of  *)
(* resources, callers and policy calls.  The daemon moves the registry     *)
(* only through steps of module Resources, so its inductive invariant is   *)
(* that of the registry, IInv, with what the drain task, the policy thread *)
(* and wait know of each other.                                            *)
(***************************************************************************)
EXTENDS Daemon, ResourcesProofs

\* An accept loop has a supervisor.
Supervised ==
  \A r \in Resource : creation[r] = "supervised" \/ runner[r] # "none" => supervisor[r] # "none"

\* What each stage of the drain task has made sure of.
Ordered ==
  /\ accepting <=> drain = "waiting"
  /\ drain # "waiting" => stopping \/ force
  /\ rootClosed => force
  /\ drain = "entryPoints" => entries \cap EntryPoint \subseteq awaited
  /\ drain \in {"collectServices", "services"} => entries \cap EntryPoint = {} /\ callsDone
  /\ drain \in {"services", "aborting"} => entries \subseteq awaited
  /\ drain = "done" => entries = {}
  /\ allReleased => drain = "done"

\* How far the policy thread is when admission stops, when it has no more calls and when it ends.
Scripted ==
  /\ stopping => \/ worker = "Err"
                 \/ shutdown /\ (owner # "owned" \/ hooks \in {"finished", "failed"})
  /\ hooks = "running" \/ owner # "owned" => shutdown
  /\ commands # "open" => stopping
  /\ callsDone => worker \notin {"starting", "serving"} /\ Accepted = {}
  /\ worker \in {"idling", "Drained"} =>
       callsDone /\ commands = "exhausted" /\ hooks = "finished" /\ ~evaluating
  /\ worker \in {"starting", "serving", "idling", "Drained"} =>
       \A k \in PolicyCall : call[k] # "dropped"

\* What a result of wait rests on.
Reported ==
  /\ waiter \in {"Drained", "TimedOut"} => allReleased /\ failure = None
  /\ waiter = "Drained" => worker = "Drained" /\ ~rootClosed

DInv == IInv /\ Supervised /\ DaemonTypeOK /\ Ordered /\ Scripted /\ Reported

-----------------------------------------------------------------------------
(* Steps of the registry.                                                   *)

\* The shutdown token is all that the owner and the policy thread change of the registry's state.
LEMMA ShutdownFrame ==
  ASSUME IInv, shutdown' \in BOOLEAN,
         UNCHANGED <<registry, rootClosed, creation, lifetime, tasks, failure>>
  PROVE  IInv'
<1>1. Shape' /\ Phase' /\ Openness' /\ UseCount'
  BY RegistryFrame DEF tasks
<1>2. TypeOK'
  BY DEF IInv, TypeOK, registry, lifetime, tasks
<1>3. Holders'
  BY HoldersFrame DEF IInv, tasks
<1>4. Quiet'
  BY QuietFrame DEF IInv, tasks, registry
<1> QED
  BY <1>1, <1>2, <1>3, <1>4 DEF IInv

\* What policy and the tasks of the manager do is a step of the registry.
LEMMA ManagerIsNext == ByPolicy \/ Manager => Next
BY DEF ByPolicy, Manager, Next, Create

\* Supervised survives whatever leaves creations, supervisors and run tasks alone.
LEMMA SupervisedFrame ==
  ASSUME Supervised, UNCHANGED <<creation, supervisor, runner>>
  PROVE  Supervised'
BY DEF Supervised

\* create starts the supervisor before the accept loop, and a supervisor never returns to none.
LEMMA SupervisedStep ==
  ASSUME IInv, Supervised, ByPolicy \/ Manager
  PROVE  Supervised'
<1> USE DEF registry, lifetime, tasks, daemon
<1>1. ASSUME NEW r \in Resource, Create(r) PROVE Supervised'
  <2>1. CASE CreateChecked(r) \/ BuildFails(r) \/ Build(r) \/ \E e \in Dialer \ {r} : BuildOn(r, e)
    BY <2>1 DEF CreateChecked, BuildFails, Build, BuildOn, Supervised, IInv, TypeOK
  <2>2. CASE Register(r) \/ Refuse(r) \/ DropReservation(r)
    BY <2>2 DEF Register, Refuse, DropReservation, Supervised, IInv, TypeOK
  <2>3. CASE SpawnSupervisor(r)
    BY <2>3 DEF SpawnSupervisor, Supervised, IInv, TypeOK
  <2>4. CASE StartRun(r)
    BY <2>4 DEF StartRun, Supervised, IInv, TypeOK
  <2> QED
    BY <1>1, <2>1, <2>2, <2>3, <2>4 DEF Create
<1>2. ASSUME NEW r \in EntryPoint, Run(r) PROVE Supervised'
  <2>1. \A q \in Resource : runner[q] = "none" => runner'[q] = "none"
    BY <1>2 DEF Run, RunStops, RunFails, RunShutsDown, IInv, TypeOK, Resource
  <2>2. UNCHANGED <<creation, supervisor>>
    BY <1>2 DEF Run, RunStops, RunFails, RunShutsDown
  <2> QED
    BY <2>1, <2>2 DEF Supervised
<1>3. ASSUME NEW r \in Resource, Supervise(r) PROVE Supervised'
  <2>1. \A q \in Resource : supervisor[q] # "none" => supervisor'[q] # "none"
    BY <1>3 DEF Supervise, SuperviseEnd, SuperviseDrained, SuperviseClose, SuperviseTake,
                SuperviseRemove, SuperviseRelease, SupervisorTo, IInv, TypeOK
  <2>2. UNCHANGED <<creation, runner>>
    BY <1>3 DEF Supervise, SuperviseEnd, SuperviseDrained, SuperviseClose, SuperviseTake,
                SuperviseRemove, SuperviseRelease, SupervisorTo
  <2> QED
    BY <2>1, <2>2 DEF Supervised
<1>4. ASSUME NEW r \in Resource, NEW abort, NEW at, Terminate(r, abort, at) PROVE Supervised'
  BY <1>4, SupervisedFrame DEF Terminate
<1>5. ASSUME NEW c \in Caller, Call(c) PROVE Supervised'
  BY <1>5, SupervisedFrame DEF Call, Accept, Lookup, Track, Connect, Disconnect, Finish, Unwind,
                               CallerTo
<1>6. ASSUME NEW p \in pooled, PoolCloses(p) PROVE Supervised'
  BY <1>6, SupervisedFrame DEF PoolCloses
<1> QED
  BY <1>1, <1>2, <1>3, <1>4, <1>5, <1>6 DEF ByPolicy, Manager, Create, Close, Drain

\* What a step of the registry leaves to the drain task, the policy thread and wait.
LEMMA ManagerEffect ==
  ASSUME IInv, ByPolicy \/ Manager
  PROVE  /\ UNCHANGED <<accepting, rootClosed>>
         /\ shutdown => shutdown'
         /\ failure' = failure \/ \E r \in EntryPoint : runner[r] = "running"
<1> USE DEF registry, lifetime, tasks, daemon
<1>1. ASSUME NEW r \in Resource, Create(r) PROVE UNCHANGED <<accepting, rootClosed, daemon>>
  BY <1>1 DEF Create, CreateChecked, BuildFails, Build, BuildOn, Register, Refuse,
              DropReservation, SpawnSupervisor, StartRun
<1>2. ASSUME NEW r \in Resource, Supervise(r) PROVE UNCHANGED <<accepting, rootClosed, daemon>>
  BY <1>2 DEF Supervise, SuperviseEnd, SuperviseDrained, SuperviseClose, SuperviseTake,
              SuperviseRemove, SuperviseRelease, SupervisorTo
<1>3. ASSUME NEW c \in Caller, Call(c) PROVE UNCHANGED <<accepting, rootClosed, daemon>>
  BY <1>3 DEF Call, Accept, Lookup, Track, Connect, Disconnect, Finish, Unwind, CallerTo
<1>4. ASSUME NEW r \in EntryPoint, Run(r)
      PROVE  /\ UNCHANGED <<accepting, rootClosed>> /\ (shutdown => shutdown')
             /\ failure' = failure \/ runner[r] = "running"
  BY <1>4 DEF Run, RunStops, RunFails, RunShutsDown
<1>5. ASSUME NEW r \in Resource, NEW abort, NEW at, Terminate(r, abort, at)
      PROVE  UNCHANGED <<accepting, rootClosed, daemon>>
  BY <1>5 DEF Terminate
<1>6. ASSUME NEW p \in pooled, PoolCloses(p) PROVE UNCHANGED <<accepting, rootClosed, daemon>>
  BY <1>6 DEF PoolCloses
<1>7. \/ UNCHANGED <<accepting, rootClosed, daemon>>
      \/ \E r \in EntryPoint : Run(r)
  <2>1. CASE ByPolicy
    <3>1. \A r \in Resource : CreateChecked(r) => Create(r)
      BY DEF Create
    <3> QED
      BY <2>1, <3>1, <1>1, <1>5 DEF ByPolicy, Close, Drain
  <2>2. CASE Manager
    BY <2>2, <1>1, <1>2, <1>3, <1>6 DEF Manager
  <2> QED
    BY <2>1, <2>2
<1> QED
  BY <1>4, <1>7

\* The accept loop of a resource that has left the registry does not run.
LEMMA NoRunWithoutEntry ==
  ASSUME IInv, Supervised, entries = {}, NEW r \in Resource
  PROVE  runner[r] # "running"
<1> SUFFICES ASSUME runner[r] = "running" PROVE FALSE
  OBVIOUS
<1>1. supervisor[r] # "none" /\ supervisor[r] \in Supervisors /\ live = {}
  BY DEF Supervised, IInv, TypeOK
<1>2. supervisor[r] \in {"removed", "done"}
  BY <1>1 DEF IInv, Phase, Supervisors
<1>3. Tracked(r)
  BY DEF Tracked
<1> QED
  BY <1>2, <1>3 DEF IInv, Quiet

\* A released resource is not registered.
LEMMA ReleasedLeft ==
  ASSUME IInv
  PROVE  entries \cap released = {}
BY DEF IInv, TypeOK, Phase

\* Steps of policy and of the manager.
LEMMA ManagerStep ==
  ASSUME DInv, ByPolicy \/ Manager, UNCHANGED dvars
  PROVE  DInv'
<1> USE DEF dvars, tokens, script
<1>1. IInv' /\ Supervised'
  BY StepInv, ManagerIsNext, SupervisedStep DEF DInv
<1>2. /\ UNCHANGED <<accepting, rootClosed>> /\ (shutdown => shutdown')
      /\ failure' = failure \/ \E r \in EntryPoint : runner[r] = "running"
  BY ManagerEffect DEF DInv
<1>3. ~accepting => entries' \subseteq entries
  BY EntriesStep, ManagerIsNext
<1>4. DaemonTypeOK'
  BY DEF DInv, DaemonTypeOK
<1>5. Ordered'
  BY <1>2, <1>3 DEF DInv, Ordered
<1>6. Scripted'
  BY <1>2 DEF DInv, Scripted, Accepted
<1>7. Reported'
  <2>1. allReleased => entries = {}
    BY DEF DInv, Ordered
  <2>2. allReleased => failure' = failure
    BY <1>2, <2>1, NoRunWithoutEntry DEF DInv, Resource
  <2> QED
    BY <1>2, <2>2 DEF DInv, Reported
<1> QED
  BY <1>1, <1>4, <1>5, <1>6, <1>7 DEF DInv

-----------------------------------------------------------------------------
(* Steps of the owner, of callers and of the policy thread.                 *)

\* The owner, the deadline and wait.
LEMMA OwnerStep ==
  ASSUME DInv, Owner
  PROVE  DInv'
<1> USE DEF tokens, script
<1>1. UNCHANGED <<accepting, entries, rootClosed, failure>> /\ (shutdown => shutdown')
  BY DEF Owner, Stop, Deadline, DropOwner, DropTokens, WaitWorker, WaitResult, registry, daemon, rvars
<1>2. IInv' /\ Supervised'
  <2>1. /\ UNCHANGED <<registry, rootClosed, creation, lifetime, tasks, failure>>
        /\ shutdown' \in BOOLEAN
    BY DEF Owner, Stop, Deadline, DropOwner, DropTokens, WaitWorker, WaitResult, rvars, daemon,
           DInv, IInv, TypeOK
  <2> QED
    BY <2>1, ShutdownFrame, SupervisedFrame DEF DInv, tasks
<1>3. CASE Stop
  <2>1. UNCHANGED dvars
    BY <1>3 DEF Stop
  <2> QED
    BY <1>1, <1>2, <2>1 DEF DInv, DaemonTypeOK, Ordered, Scripted, Reported, Accepted, dvars
<1>4. CASE Deadline
  <2>1. DaemonTypeOK'
    BY <1>4 DEF Deadline, DInv, DaemonTypeOK
  <2>2. Ordered' /\ Scripted' /\ Reported'
    BY <1>1, <1>4 DEF Deadline, DInv, Ordered, Scripted, Reported, Accepted
  <2> QED
    BY <1>2, <2>1, <2>2 DEF DInv
<1>5. CASE DropOwner
  <2>1. DaemonTypeOK'
    BY <1>5 DEF DropOwner, DInv, DaemonTypeOK
  <2>2. Ordered' /\ Scripted' /\ Reported'
    BY <1>1, <1>5 DEF DropOwner, DInv, Ordered, Scripted, Reported, Accepted
  <2> QED
    BY <1>2, <2>1, <2>2 DEF DInv
<1>6. CASE DropTokens
  <2>1. DaemonTypeOK'
    <3>1. CASE stopping' = TRUE /\ UNCHANGED <<force, owner>>
      BY <1>6, <3>1 DEF DropTokens, DInv, DaemonTypeOK
    <3>2. CASE force' = TRUE /\ owner' = "dropped" /\ UNCHANGED stopping
      BY <1>6, <3>2 DEF DropTokens, DInv, DaemonTypeOK
    <3> QED
      BY <1>6, <3>1, <3>2 DEF DropTokens
  <2>2. Ordered' /\ Scripted' /\ Reported'
    BY <1>1, <1>6 DEF DropTokens, DInv, Ordered, Scripted, Reported, Accepted
  <2> QED
    BY <1>2, <2>1, <2>2 DEF DInv
<1>7. CASE WaitWorker
  <2>1. DaemonTypeOK'
    BY <1>7 DEF WaitWorker, DInv, DaemonTypeOK
  <2>2. Ordered' /\ Scripted' /\ Reported'
    BY <1>1, <1>7 DEF WaitWorker, DInv, Ordered, Scripted, Reported, Accepted
  <2> QED
    BY <1>2, <2>1, <2>2 DEF DInv
<1>8. CASE WaitResult
  <2>1. DaemonTypeOK'
    BY <1>8 DEF WaitResult, DInv, DaemonTypeOK, Results
  <2>2. Ordered' /\ Scripted'
    BY <1>1, <1>8 DEF WaitResult, DInv, Ordered, Scripted, Accepted
  <2>3. Reported'
    BY <1>1, <1>8 DEF WaitResult, DInv, Ordered, Reported
  <2> QED
    BY <1>2, <2>1, <2>2, <2>3 DEF DInv
<1> QED
  BY <1>3, <1>4, <1>5, <1>6, <1>7, <1>8 DEF Owner

\* A step of the policy thread or of a caller of policy, which leave the registry alone.
LEMMA ScriptFrame ==
  ASSUME DInv, UNCHANGED <<registry, rootClosed, creation, lifetime, tasks, failure>>,
         shutdown' \in BOOLEAN, UNCHANGED <<force, allReleased, drain, awaited, owner, waiter>>,
         stopping => stopping', callsDone => callsDone', worker = "Drained" => worker' = worker,
         DaemonTypeOK', Scripted'
  PROVE  DInv'
<1>1. IInv' /\ Supervised'
  BY ShutdownFrame, SupervisedFrame DEF DInv, tasks
<1>2. Ordered' /\ Reported'
  BY DEF DInv, Ordered, Reported, registry
<1> QED
  BY <1>1, <1>2 DEF DInv

\* A call is sent, dispatched or answered.
LEMMA CallStep ==
  ASSUME DInv, NEW k \in PolicyCall, SendCall(k) \/ Dispatch(k) \/ Answer(k)
  PROVE  Scripted' /\ DaemonTypeOK'
<1> USE DEF tokens
<1>1. PICK v \in {"none", "queued", "running"} : call' = [call EXCEPT ![k] = v]
  BY DEF SendCall, Dispatch, Answer
<1>2. UNCHANGED <<shutdown, stopping, force, callsDone, allReleased, evaluating, hooks, worker,
                  commands, drain, awaited, owner, waiter>>
  BY DEF SendCall, Dispatch, Answer, rvars, daemon
<1>3. ~callsDone
  <2>1. worker \in {"starting", "serving"} \/ (worker = "idling" /\ commands = "open")
    BY DEF SendCall, Dispatch, Answer, Serving, Alive
  <2> QED
    BY <2>1 DEF DInv, Scripted
<1>4. \A j \in PolicyCall : call[j] # "dropped" => call'[j] # "dropped"
  BY <1>1 DEF DInv, DaemonTypeOK
<1>5. Scripted'
  BY <1>2, <1>3, <1>4 DEF DInv, Scripted
<1>6. DaemonTypeOK'
  BY <1>1, <1>2 DEF DInv, DaemonTypeOK
<1> QED
  BY <1>5, <1>6

\* The policy thread ends with a result.
LEMMA ExitStep ==
  ASSUME DInv, NEW result \in Results, Exit(result), worker \in {"starting", "serving", "idling"},
         result = "Drained" => worker = "idling"
  PROVE  Scripted' /\ DaemonTypeOK'
<1> USE DEF tokens
<1>1. UNCHANGED <<shutdown, stopping, force, allReleased, evaluating, hooks, commands, drain,
                  awaited, owner, waiter>>
      /\ worker' = result /\ callsDone'
  BY DEF Exit, rvars, daemon
<1>2. Accepted' = {}
  BY DEF Exit, Accepted, DInv, DaemonTypeOK
<1>3. Accepted = {} => call' = call
  BY DEF Exit, DInv, DaemonTypeOK
<1>4. DaemonTypeOK'
  BY <1>1 DEF Exit, DInv, DaemonTypeOK, Results
<1>5. stopping => shutdown /\ (owner # "owned" \/ hooks \in {"finished", "failed"})
  BY DEF DInv, Scripted
<1>6. Scripted'
  BY <1>1, <1>2, <1>3, <1>5 DEF DInv, Scripted, Results
<1> QED
  BY <1>4, <1>6

\* The policy thread.
LEMMA ScriptStep ==
  ASSUME DInv, Script \/ \E k \in PolicyCall : SendCall(k)
  PROVE  DInv'
<1> USE DEF tokens
<1> DEFINE Same == /\ UNCHANGED <<registry, rootClosed, creation, lifetime, tasks, failure>>
                   /\ shutdown' \in BOOLEAN
                   /\ UNCHANGED <<force, allReleased, drain, awaited, owner, waiter>>
                   /\ stopping => stopping'
                   /\ callsDone => callsDone'
                   /\ worker = "Drained" => worker' = worker
<1>0. Same /\ DaemonTypeOK' /\ Scripted' => DInv'
  BY ScriptFrame
<1> shutdown \in BOOLEAN
  BY DEF DInv, IInv, TypeOK
<1>1. ASSUME NEW k \in PolicyCall, SendCall(k) \/ Dispatch(k) \/ Answer(k) PROVE DInv'
  <2>1. Same
    BY <1>1 DEF SendCall, Dispatch, Answer, rvars, daemon
  <2> QED
    BY <1>0, <1>1, <2>1, CallStep
<1>2. ASSUME NEW ok \in BOOLEAN, Evaluate(ok) PROVE DInv'
  <2>1. Same /\ (shutdown => shutdown')
    BY <1>2 DEF Evaluate
  <2>2. DaemonTypeOK'
    <3>1. /\ evaluating' \in BOOLEAN
          /\ UNCHANGED <<tokens, hooks, worker, commands, call, drain, awaited, owner, waiter>>
      BY <1>2 DEF Evaluate
    <3> QED
      BY <3>1 DEF DInv, DaemonTypeOK
  <2>3. Scripted'
    BY <1>2, <2>1 DEF Evaluate, Serving, DInv, Scripted, Accepted
  <2> QED
    BY <1>0, <2>1, <2>2, <2>3
<1>3. CASE StartScript
  <2>1. Same /\ shutdown' = shutdown
    BY <1>3 DEF StartScript, rvars, daemon
  <2>2. DaemonTypeOK'
    BY <1>3 DEF StartScript, DInv, DaemonTypeOK
  <2>3. Scripted'
    BY <1>3, <2>1 DEF StartScript, DInv, Scripted, Accepted
  <2> QED
    BY <1>0, <2>1, <2>2, <2>3
<1>4. CASE HooksStart \/ HooksReturn
  <2>1. Same /\ shutdown' = shutdown
    BY <1>4 DEF HooksStart, HooksReturn, rvars, daemon
  <2>2. DaemonTypeOK'
    <3>1. CASE HooksStart
      BY <3>1 DEF HooksStart, DInv, DaemonTypeOK
    <3>2. CASE HooksReturn
      BY <3>2 DEF HooksReturn, DInv, DaemonTypeOK
    <3> QED
      BY <1>4, <3>1, <3>2
  <2>3. Scripted'
    BY <1>4, <2>1 DEF HooksStart, HooksReturn, Serving, DInv, Scripted, Accepted
  <2> QED
    BY <1>0, <2>1, <2>2, <2>3
<1>5. CASE CloseCommands
  <2>1. Same /\ shutdown' = shutdown
    BY <1>5 DEF CloseCommands, rvars, daemon
  <2>2. DaemonTypeOK'
    BY <1>5 DEF CloseCommands, DInv, DaemonTypeOK
  <2>3. Scripted'
    BY <1>5, <2>1 DEF CloseCommands, Serving, DInv, Scripted, Accepted
  <2> QED
    BY <1>0, <2>1, <2>2, <2>3
<1>6. CASE LastCall
  <2>1. Same /\ shutdown' = shutdown
    BY <1>6 DEF LastCall, rvars, daemon
  <2>2. DaemonTypeOK'
    BY <1>6 DEF LastCall, DInv, DaemonTypeOK, Results
  <2>3. Scripted'
    BY <1>6, <2>1 DEF LastCall, Exhausted, DInv, Scripted, Accepted
  <2> QED
    BY <1>0, <2>1, <2>2, <2>3
<1>7. CASE WorkerForced \/ WorkerIdle \/ WorkerFails
  <2>1. PICK result \in Results : Exit(result) /\ worker \in {"starting", "serving", "idling"}
                                   /\ (result = "Drained" => worker = "idling")
    BY <1>7 DEF WorkerForced, WorkerIdle, WorkerFails, Results
  <2>2. Same
    BY <2>1 DEF Exit, rvars, daemon
  <2> QED
    BY <1>0, <2>1, <2>2, ExitStep
<1> QED
  BY <1>1, <1>2, <1>3, <1>4, <1>5, <1>6, <1>7 DEF Script

-----------------------------------------------------------------------------
(* Steps of the drain task.                                                 *)

\* The drain task leaves the policy thread, the owner and wait alone.
LEMMA DrainFrame ==
  ASSUME DInv, IInv', UNCHANGED <<creation, supervisor, runner>>, UNCHANGED <<failure, shutdown>>,
         UNCHANGED <<stopping, force, callsDone, script, owner, waiter>>,
         DaemonTypeOK', Ordered', allReleased => allReleased',
         allReleased => rootClosed' = rootClosed
  PROVE  DInv'
<1>1. Supervised'
  BY SupervisedFrame DEF DInv
<1>2. Scripted'
  BY DEF DInv, Scripted, Accepted, script
<1>3. Reported'
  BY DEF DInv, Reported, script
<1> QED
  BY <1>1, <1>2, <1>3 DEF DInv

\* Entry points first, services later, or an abort.
LEMMA DrainStep ==
  ASSUME DInv, DrainTask
  PROVE  DInv'
<1> USE DEF DrainTo, Tiers
<1>1. CASE DrainEntryPoints
  <2>1. IInv'
    BY <1>1, DrainTierStep DEF DrainEntryPoints, DInv
  <2>2. UNCHANGED <<creation, supervisor, runner, failure, shutdown, entries, rootClosed>> /\ ~accepting'
    BY <1>1 DEF DrainEntryPoints, DrainTier, tasks, daemon
  <2>3. DaemonTypeOK' /\ Ordered'
    BY <1>1, <2>2 DEF DrainEntryPoints, DInv, DaemonTypeOK, Ordered, script
  <2> QED
    BY <1>1, <2>1, <2>2, <2>3, DrainFrame DEF DrainEntryPoints
<1>2. CASE DrainServices
  <2>1. IInv'
    BY <1>2, DrainTierStep DEF DrainServices, DInv
  <2>2. UNCHANGED <<creation, supervisor, runner, failure, shutdown, entries, rootClosed>> /\ ~accepting'
    BY <1>2 DEF DrainServices, DrainTier, tasks, daemon
  <2>3. entries \cap EntryPoint = {}
    BY <1>2, ReleasedLeft DEF DrainServices, DInv, Ordered
  <2>4. DaemonTypeOK' /\ Ordered'
    BY <1>2, <2>2, <2>3 DEF DrainServices, DInv, DaemonTypeOK, Ordered, script
  <2> QED
    BY <1>2, <2>1, <2>2, <2>4, DrainFrame DEF DrainServices
<1>3. CASE DrainForced
  <2>1. IInv'
    BY <1>3, AbortStep DEF DrainForced, DInv
  <2>2. UNCHANGED <<creation, supervisor, runner, failure, shutdown, entries>> /\ ~accepting'
    BY <1>3 DEF DrainForced, Abort, tasks, daemon
  <2>3. DaemonTypeOK' /\ Ordered'
    BY <1>3, <2>2 DEF DrainForced, DInv, DaemonTypeOK, Ordered, script
  <2>4. ~allReleased
    BY <1>3 DEF DrainForced, DInv, Ordered
  <2> QED
    BY <1>3, <2>1, <2>2, <2>3, <2>4, DrainFrame DEF DrainForced
<1>4. CASE CollectEntryPoints \/ CollectServices \/ CollectAborted
  <2>1. UNCHANGED <<rvars, allReleased>>
    BY <1>4 DEF CollectEntryPoints, CollectServices, CollectAborted, Collect
  <2>2. IInv' /\ UNCHANGED <<creation, supervisor, runner, failure, shutdown, entries, rootClosed, accepting>>
    BY <2>1, StepInv DEF DInv, rvars, registry, tasks, daemon
  <2>3. entries \subseteq Resource
    BY DEF DInv, IInv, TypeOK
  <2>4. DaemonTypeOK'
    BY <1>4, <2>1, <2>3 DEF CollectEntryPoints, CollectServices, CollectAborted, Collect, DInv,
                            DaemonTypeOK, script
  <2>5. Ordered'
    BY <1>4, <2>1, <2>2 DEF CollectEntryPoints, CollectServices, CollectAborted, Collect, DInv,
                            Ordered, Tier
  <2> QED
    BY <1>4, <2>1, <2>2, <2>4, <2>5, DrainFrame
       DEF CollectEntryPoints, CollectServices, CollectAborted, Collect
<1>5. CASE ServicesReleased \/ AbortedReleased
  <2>1. UNCHANGED <<rvars, awaited>>
    BY <1>5 DEF ServicesReleased, AbortedReleased
  <2>2. IInv' /\ UNCHANGED <<creation, supervisor, runner, failure, shutdown, entries, rootClosed, accepting>>
    BY <2>1, StepInv DEF DInv, rvars, registry, tasks, daemon
  <2>3. entries = {}
    BY <1>5, ReleasedLeft DEF ServicesReleased, AbortedReleased, DInv, Ordered
  <2>4. DaemonTypeOK'
    BY <1>5, <2>1 DEF ServicesReleased, AbortedReleased, DInv, DaemonTypeOK, script
  <2>5. Ordered'
    BY <1>5, <2>1, <2>2, <2>3 DEF ServicesReleased, AbortedReleased, DInv, Ordered
  <2> QED
    BY <1>5, <2>1, <2>2, <2>4, <2>5, DrainFrame DEF ServicesReleased, AbortedReleased
<1> QED
  BY <1>1, <1>2, <1>3, <1>4, <1>5 DEF DrainTask

-----------------------------------------------------------------------------
(* The theorems.                                                            *)

\* The daemon starts with nothing drained, released or reported.
LEMMA DaemonInitInv == DaemonInit => DInv
<1> SUFFICES ASSUME DaemonInit PROVE DInv
  OBVIOUS
<1>1. IInv
  BY InitInv DEF DaemonInit
<1>2. Supervised
  BY DEF DaemonInit, Init, Supervised
<1>3. DaemonTypeOK
  BY DEF DaemonInit, DaemonTypeOK
<1>4. Ordered /\ Scripted /\ Reported
  BY DEF DaemonInit, Init, Ordered, Scripted, Reported
<1> QED
  BY <1>1, <1>2, <1>3, <1>4 DEF DInv

\* Every step of the daemon preserves the invariant.
LEMMA DaemonStepInv == DInv /\ [DaemonNext]_vars => DInv'
<1> SUFFICES ASSUME DInv, [DaemonNext]_vars PROVE DInv'
  OBVIOUS
<1>1. CASE UNCHANGED vars
  <2>1. UNCHANGED rvars /\ UNCHANGED dvars
    BY <1>1 DEF vars
  <2>2. /\ UNCHANGED <<registry, rootClosed, creation, lifetime, tasks, failure>>
        /\ shutdown' \in BOOLEAN /\ shutdown' = shutdown
    BY <2>1 DEF rvars, daemon, DInv, IInv, TypeOK
  <2>3. DaemonTypeOK'
    BY <2>1 DEF dvars, tokens, script, DInv, DaemonTypeOK
  <2>4. Scripted'
    BY <2>1, <2>2 DEF dvars, tokens, script, DInv, Scripted, Accepted
  <2> QED
    BY <2>1, <2>2, <2>3, <2>4, ScriptFrame DEF dvars, tokens, script
<1>2. CASE DaemonNext
  BY <1>2, OwnerStep, ScriptStep, DrainStep, ManagerStep DEF DaemonNext
<1> QED
  BY <1>1, <1>2

\* The conditions that the drain task, the policy thread and wait establish for each other hold
\* in every reachable state.
THEOREM DaemonInvariance == DaemonSpec => []DInv
BY DaemonInitInv, DaemonStepInv, PTL DEF DaemonSpec

\* The daemon moves the resources only by steps of the resource manager, the owner's stop, or a
\* failed evaluation, so what holds of the registry in module Resources holds in the daemon.
THEOREM DaemonKeepsRegistry == DaemonSpec => [](UseCount /\ CarriersStayOpen /\ ReleasedIsQuiet)
<1>1. DInv => UseCount /\ CarriersStayOpen /\ ReleasedIsQuiet
  BY QuietFromInv, CarriersFromInv DEF DInv, IInv
<1> QED
  BY <1>1, DaemonInvariance, PTL

\* The released token of the daemon means an empty registry that stays empty.
THEOREM ReleasedMeansEmpty == DaemonSpec => []AllReleasedIsEmpty
<1>1. DInv => AllReleasedIsEmpty
  BY DEF DInv, Ordered, AllReleasedIsEmpty
<1> QED
  BY <1>1, DaemonInvariance, PTL

\* Dialers and DNS services drain after entry points and policy calls.
THEOREM ServicesLast == DaemonSpec => []ServicesDrainLast
<1>1. DInv => ServicesDrainLast
  BY DEF DInv, Ordered, Scripted, ServicesDrainLast
<1> QED
  BY <1>1, DaemonInvariance, PTL

\* Admission stays open until the shutdown hooks are done.
THEOREM HooksFirst == DaemonSpec => []HooksBeforeDrain
<1>1. DInv => HooksBeforeDrain
  BY DEF DInv, Ordered, Scripted, HooksBeforeDrain
<1> QED
  BY <1>1, DaemonInvariance, PTL

\* wait reports Drained only when nothing was cut off.
THEOREM CleanWhenDrained == DaemonSpec => []DrainedIsClean
<1>1. DInv => DrainedIsClean
  BY DEF DInv, Scripted, Reported, DaemonTypeOK, Accepted, DrainedIsClean
<1> QED
  BY <1>1, DaemonInvariance, PTL

\* wait never hides the failure of an inbound.
THEOREM FailuresReported == DaemonSpec => []FailureReported
<1>1. DInv => FailureReported
  BY DEF DInv, Reported, FailureReported
<1> QED
  BY <1>1, DaemonInvariance, PTL

=============================================================================
