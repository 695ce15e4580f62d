------------------------------ MODULE Resources ------------------------------
(***************************************************************************)
(* The native resource manager, crates/daemon/src/resources.rs.            *)
(*                                                                         *)
(* Policy creates inbounds and DNS listeners (entry points), dialers and   *)
(* DNS services at run time.  A dialer or a DNS service may be created on  *)
(* a dialer, which then cannot close.  Every registered resource has a     *)
(* supervisor task that waits for its end, lets accepted work drain,       *)
(* closes the resource's scope, destroys the native state, removes the     *)
(* registry entry and only then lets waiters resume.                       *)
(*                                                                         *)
(* The registry mutex makes each critical section one step; everything     *)
(* between two critical sections interleaves.  Callers are the sessions,   *)
(* queries and probes that work inside or through a resource.              *)
(***************************************************************************)
EXTENDS Naturals, FiniteSets

CONSTANTS EntryPoint,   \* ids that become inbounds or DNS listeners
          Dialer,       \* ids that become dialers
          DnsService,   \* ids that become DNS services
          Caller,       \* sessions, queries and probes
          Deadlines,    \* instants that a drain request may fix as its deadline
          None          \* no resource

Resource == EntryPoint \cup Dialer \cup DnsService

ASSUME ResourceAssumption ==
  /\ EntryPoint \cap Dialer = {}
  /\ EntryPoint \cap DnsService = {}
  /\ Dialer \cap DnsService = {}
  /\ None \notin Resource
  /\ IsFiniteSet(Resource)

ASSUME DeadlineAssumption == Deadlines \subseteq Nat \ {0}

Tiers == {"EntryPoint", "Service"}
Tier(r) == IF r \in EntryPoint THEN "EntryPoint" ELSE "Service"

VARIABLES
  accepting,    \* Registry.accepting
  rootClosed,   \* the manager's root scope is cancelled
  creation,     \* progress of the create call of an id
  entries,      \* ids in Registry.entries
  live,         \* entries whose native state has not been taken
  uses,         \* the resource an id reserved or was created on
  users,        \* Entry.users
  path,         \* the id and the dialers that carry it
  admission,    \* ids whose admission token is cancelled
  aborted,      \* ids whose abort token is cancelled
  deadline,     \* the drain deadline of an id, 0 while none is fixed
  cancelled,    \* ids whose own scope token is cancelled
  supervisor,   \* progress of the supervise task of an id
  runner,       \* the run task of an entry point
  released,     \* ids whose released token is cancelled
  pooled,       \* ids that keep a connection of their carrier in a pool
  caller,       \* progress of each caller
  on,           \* the resource each caller works on
  failure,      \* Manager.failure: the first entry point that failed
  shutdown      \* the daemon's shutdown token

registry == <<accepting, entries, live, uses, users, path>>
lifetime == <<admission, aborted, deadline, cancelled, released>>
tasks    == <<supervisor, runner, pooled, caller, on>>
daemon   == <<failure, shutdown>>
rvars    == <<registry, rootClosed, creation, lifetime, tasks, daemon>>

Creations   == {"new", "checked", "built", "refused", "registered", "supervised",
                "created", "failed"}
Supervisors == {"none", "open", "draining", "closing", "waiting", "taken", "removed",
                "done"}
Runners     == {"none", "running", "failing", "done"}
Callers     == {"idle", "found", "tracked", "connected", "unwinding"}

\* Types of the registry, the lifetimes and the tasks.
TypeOK ==
  /\ accepting \in BOOLEAN /\ rootClosed \in BOOLEAN /\ shutdown \in BOOLEAN
  /\ creation \in [Resource -> Creations]
  /\ entries \subseteq Resource /\ live \subseteq entries
  /\ uses \in [Resource -> Dialer \cup {None}]
  /\ users \in [Resource -> Nat]
  /\ path \in [Resource -> SUBSET Resource]
  /\ admission \subseteq Resource /\ aborted \subseteq admission
  /\ deadline \in [Resource -> Deadlines \cup {0}]
  /\ cancelled \subseteq Resource /\ released \subseteq Resource
  /\ supervisor \in [Resource -> Supervisors]
  /\ runner \in [Resource -> Runners]
  /\ pooled \subseteq Dialer \cup DnsService
  /\ caller \in [Caller -> Callers]
  /\ on \in [Caller -> Resource \cup {None}]
  /\ failure \in EntryPoint \cup {None}

Init ==
  /\ accepting = TRUE /\ rootClosed = FALSE /\ shutdown = FALSE
  /\ creation = [r \in Resource |-> "new"]
  /\ entries = {} /\ live = {}
  /\ uses = [r \in Resource |-> None]
  /\ users = [r \in Resource |-> 0]
  /\ path = [r \in Resource |-> {r}]
  /\ admission = {} /\ aborted = {} /\ cancelled = {} /\ released = {}
  /\ deadline = [r \in Resource |-> 0]
  /\ supervisor = [r \in Resource |-> "none"]
  /\ runner = [r \in Resource |-> "none"]
  /\ pooled = {}
  /\ caller = [c \in Caller |-> "idle"]
  /\ on = [c \in Caller |-> None]
  /\ failure = None

-----------------------------------------------------------------------------
(* Scopes.  A dialer's scope is a child of its carrier's scope; the others  *)
(* are children of the root.                                                *)

ScopeOf(r) == IF r \in DnsService THEN {r} ELSE path[r]
Closed(r)  == rootClosed \/ ScopeOf(r) \cap cancelled # {}
IsOpen(r)  == r \notin admission
Usable(r)  == r \in entries /\ r \in live /\ IsOpen(r)

\* Tasks that hold a token of r's tracker: accepted sessions and queries, connections
\* and pools carried by r, and the run task of an entry point.
Tracked(r) ==
  \/ \E c \in Caller : caller[c] \in {"tracked", "connected"} /\ r \in ScopeOf(on[c])
  \/ \E c \in Caller : caller[c] = "connected" /\ r \in path[on[c]]
  \/ \E p \in pooled : r \in path[p]
  \/ runner[r] \in {"running", "failing"}

\* The accepted work that a drain of r waits for; a dialer's own pool does not count.
Busy(r) ==
  \/ r \in EntryPoint /\ Tracked(r)
  \/ \E c \in Caller : caller[c] \in {"tracked", "connected"} /\ on[c] = r
  \/ \E c \in Caller : caller[c] = "connected" /\ r \in path[on[c]]
  \/ \E p \in pooled \ {r} : r \in path[p]

-----------------------------------------------------------------------------
(* create: the only await is the bind of an entry point.                    *)

CreateChecked(r) ==
  /\ creation[r] = "new"
  /\ creation' = [creation EXCEPT ![r] = IF accepting THEN "checked" ELSE "failed"]
  /\ UNCHANGED <<registry, rootClosed, lifetime, tasks, daemon>>

\* The bind or the adapter's constructor fails, the referenced dialer is closed, or the
\* policy stops waiting for the bind.
BuildFails(r) ==
  /\ creation[r] = "checked"
  /\ creation' = [creation EXCEPT ![r] = "failed"]
  /\ UNCHANGED <<registry, rootClosed, lifetime, tasks, daemon>>

\* An entry point is bound, or a dialer is built on the host network.
Build(r) ==
  /\ creation[r] = "checked"
  /\ r \in EntryPoint \cup Dialer
  /\ creation' = [creation EXCEPT ![r] = "built"]
  /\ UNCHANGED <<registry, rootClosed, lifetime, tasks, daemon>>

\* reserve, then the constructor of a dialer or a DNS service on the reserved dialer e.
BuildOn(r, e) ==
  /\ creation[r] = "checked"
  /\ r \in Dialer \cup DnsService
  /\ Usable(e)
  /\ users' = [users EXCEPT ![e] = @ + 1]
  /\ uses' = [uses EXCEPT ![r] = e]
  /\ path' = [path EXCEPT ![r] = {r} \cup path[e]]
  /\ creation' \in {[creation EXCEPT ![r] = "built"], [creation EXCEPT ![r] = "refused"]}
  /\ UNCHANGED <<accepting, entries, live, rootClosed, lifetime, tasks, daemon>>

\* The second look at accepting, under the lock that also inserts the entry.
Register(r) ==
  /\ creation[r] = "built"
  /\ accepting
  /\ entries' = entries \cup {r}
  /\ live' = live \cup {r}
  /\ users' = [users EXCEPT ![r] = 0]
  /\ creation' = [creation EXCEPT ![r] = "registered"]
  /\ UNCHANGED <<accepting, uses, path, rootClosed, lifetime, tasks, daemon>>

Refuse(r) ==
  /\ creation[r] = "built"
  /\ ~accepting
  /\ cancelled' = cancelled \cup {r}
  /\ creation' = [creation EXCEPT ![r] = "refused"]
  /\ UNCHANGED <<registry, rootClosed, admission, aborted, deadline, released, tasks, daemon>>

Minus(m, n) == IF m >= n THEN m - n ELSE 0

\* Mistake: a failed create keeps its use of the dialer.
DropReservationKept(r) ==
  /\ creation[r] = "refused"
  /\ creation' = [creation EXCEPT ![r] = "failed"]
  /\ UNCHANGED <<registry, rootClosed, lifetime, tasks, daemon>>

\* Reservation::drop, once the registry guard is gone.
DropReservation(r) ==
  /\ creation[r] = "refused"
  /\ users' = [e \in Resource |->
                 IF e = uses[r] /\ e \in entries THEN Minus(users[e], 1) ELSE users[e]]
  /\ creation' = [creation EXCEPT ![r] = "failed"]
  /\ UNCHANGED <<accepting, entries, live, uses, path, rootClosed, lifetime, tasks, daemon>>

\* Mistake: the supervisor starts only if the work can start.
SpawnSupervisorLate(r) ==
  /\ creation[r] = "registered"
  /\ supervisor' = [supervisor EXCEPT ![r] = IF Closed(r) THEN "none" ELSE "open"]
  /\ creation' = [creation EXCEPT ![r] = IF r \in EntryPoint THEN "supervised" ELSE "created"]
  /\ UNCHANGED <<registry, rootClosed, lifetime, runner, pooled, caller, on, daemon>>

SpawnSupervisor(r) ==
  /\ creation[r] = "registered"
  /\ supervisor' = [supervisor EXCEPT ![r] = "open"]
  /\ creation' = [creation EXCEPT ![r] = IF r \in EntryPoint THEN "supervised" ELSE "created"]
  /\ UNCHANGED <<registry, rootClosed, lifetime, runner, pooled, caller, on, daemon>>

\* Mistake: the accept loop is spawned without asking whether the scope is closed.
StartRunUnchecked(r) ==
  /\ creation[r] = "supervised"
  /\ runner' = [runner EXCEPT ![r] = "running"]
  /\ creation' = [creation EXCEPT ![r] = "created"]
  /\ UNCHANGED <<registry, rootClosed, lifetime, supervisor, pooled, caller, on, daemon>>

\* run: the accept loop starts unless the scope is already closed.
StartRun(r) ==
  /\ creation[r] = "supervised"
  /\ runner' = [runner EXCEPT ![r] = IF Closed(r) THEN "none" ELSE "running"]
  /\ creation' = [creation EXCEPT ![r] = IF Closed(r) THEN "failed" ELSE "created"]
  /\ UNCHANGED <<registry, rootClosed, lifetime, supervisor, pooled, caller, on, daemon>>

Create(r) ==
  \/ CreateChecked(r) \/ BuildFails(r) \/ Build(r) \/ \E e \in Dialer \ {r} : BuildOn(r, e)
  \/ Register(r) \/ Refuse(r) \/ DropReservation(r) \/ SpawnSupervisor(r) \/ StartRun(r)

-----------------------------------------------------------------------------
(* The run task of an entry point.                                          *)

RunStops(r) ==
  /\ runner[r] = "running"
  /\ r \in admission \/ Closed(r)
  /\ runner' = [runner EXCEPT ![r] = "done"]
  /\ UNCHANGED <<registry, rootClosed, creation, lifetime, supervisor, pooled, caller, on, daemon>>

RunFails(r) ==
  /\ runner[r] = "running"
  /\ failure' = IF failure = None THEN r ELSE failure
  /\ runner' = [runner EXCEPT ![r] = "failing"]
  /\ UNCHANGED <<registry, rootClosed, creation, lifetime, supervisor, pooled, caller, on,
                 shutdown>>

RunShutsDown(r) ==
  /\ runner[r] = "failing"
  /\ shutdown' = TRUE
  /\ runner' = [runner EXCEPT ![r] = "done"]
  /\ UNCHANGED <<registry, rootClosed, creation, lifetime, supervisor, pooled, caller, on,
                 failure>>

Run(r) == RunStops(r) \/ RunFails(r) \/ RunShutsDown(r)

-----------------------------------------------------------------------------
(* Ending a resource.                                                       *)

\* end for every r in S: a later abort can cut a drain short, a later drain changes nothing.
End(S, abort, at) ==
  LET opened == S \ admission IN
  /\ deadline' = [r \in Resource |-> IF r \in opened THEN at ELSE deadline[r]]
  /\ admission' = admission \cup S
  /\ users' = [e \in Resource |->
                 IF e \in entries
                 THEN Minus(users[e], Cardinality({r \in opened : uses[r] = e}))
                 ELSE users[e]]
  /\ aborted' = IF abort THEN aborted \cup S ELSE aborted

\* Mistake: a resource ends although open resources use it.
TerminateUsed(r, abort, at) ==
  /\ r \in entries
  /\ End({r}, abort, at)
  /\ UNCHANGED <<accepting, entries, live, uses, path, rootClosed, creation, cancelled, released,
                 tasks, daemon>>

Terminate(r, abort, at) ==
  /\ r \in entries
  /\ users[r] = 0
  /\ End({r}, abort, at)
  /\ UNCHANGED <<accepting, entries, live, uses, path, rootClosed, creation, cancelled, released,
                 tasks, daemon>>

Close(r) == Terminate(r, TRUE, 0)
Drain(r, at) == Terminate(r, FALSE, at)

DrainTier(t) ==
  /\ accepting' = FALSE
  /\ End({r \in entries : Tier(r) = t /\ IsOpen(r)}, FALSE, 0)
  /\ UNCHANGED <<entries, live, uses, path, rootClosed, creation, cancelled, released,
                 tasks, daemon>>

Abort ==
  /\ accepting' = FALSE
  /\ rootClosed' = TRUE
  /\ UNCHANGED <<entries, live, uses, users, path, creation, lifetime, tasks, daemon>>

-----------------------------------------------------------------------------
(* supervise                                                                *)

SupervisorTo(r, from, to) ==
  /\ supervisor[r] = from
  /\ supervisor' = [supervisor EXCEPT ![r] = to]
  /\ UNCHANGED <<accepting, uses, users, path, rootClosed, creation, admission, aborted, deadline,
                 runner, pooled, caller, on, daemon>>

\* Admission stopped, or an ancestor scope closed; on_drain releases idle pools from here on.
SuperviseEnd(r) ==
  /\ r \in admission \/ Closed(r)
  /\ SupervisorTo(r, "open", "draining")
  /\ UNCHANGED <<entries, live, cancelled, released>>

\* An abort, the deadline, or the end of accepted work.
SuperviseDrained(r) ==
  /\ r \in aborted \/ Closed(r) \/ deadline[r] # 0 \/ ~Busy(r)
  /\ SupervisorTo(r, "draining", "closing")
  /\ UNCHANGED <<entries, live, cancelled, released>>

SuperviseClose(r) ==
  /\ SupervisorTo(r, "closing", "waiting")
  /\ cancelled' = cancelled \cup {r}
  /\ UNCHANGED <<entries, live, released>>

\* Mistake: the native state stays in the entry.
SuperviseTakeNothing(r) ==
  /\ ~Tracked(r)
  /\ SupervisorTo(r, "waiting", "taken")
  /\ UNCHANGED <<entries, live, cancelled, released>>

\* scope.wait() returns and the native state leaves the entry.
SuperviseTake(r) ==
  /\ ~Tracked(r)
  /\ SupervisorTo(r, "waiting", "taken")
  /\ live' = live \ {r}
  /\ UNCHANGED <<entries, cancelled, released>>

SuperviseRemove(r) ==
  /\ SupervisorTo(r, "taken", "removed")
  /\ entries' = entries \ {r}
  /\ UNCHANGED <<live, cancelled, released>>

SuperviseRelease(r) ==
  /\ SupervisorTo(r, "removed", "done")
  /\ released' = released \cup {r}
  /\ UNCHANGED <<entries, live, cancelled>>

Supervise(r) ==
  \/ SuperviseEnd(r) \/ SuperviseDrained(r) \/ SuperviseClose(r)
  \/ SuperviseTake(r) \/ SuperviseRemove(r) \/ SuperviseRelease(r)

-----------------------------------------------------------------------------
(* Callers: accepted sessions, DNS queries, connections and probes.         *)

CallerTo(c, to, r) ==
  /\ caller' = [caller EXCEPT ![c] = to]
  /\ on' = [on EXCEPT ![c] = r]
  /\ UNCHANGED <<registry, rootClosed, creation, lifetime, supervisor, runner, daemon>>

\* An accept loop spawns a session in its scope.
Accept(c, r) ==
  /\ caller[c] = "idle"
  /\ runner[r] = "running"
  /\ ~Closed(r)
  /\ CallerTo(c, "tracked", r)
  /\ UNCHANGED pooled

\* open_dialer and dns_query clone the native state out of the registry.
Lookup(c, r) ==
  /\ caller[c] = "idle"
  /\ r \in Dialer \cup DnsService
  /\ Usable(r)
  /\ CallerTo(c, "found", r)
  /\ UNCHANGED pooled

\* Scope::track refuses once the scope is closed.
Track(c) ==
  /\ caller[c] = "found"
  /\ CallerTo(c, IF Closed(on[c]) THEN "unwinding" ELSE "tracked", on[c])
  /\ UNCHANGED pooled

\* A connection opens on every dialer of the path; the protocol may keep it in a pool.
Connect(c) ==
  /\ caller[c] = "tracked"
  /\ on[c] \notin EntryPoint
  /\ \A r \in path[on[c]] : ~Closed(r)
  /\ CallerTo(c, "connected", on[c])
  /\ pooled' \in {pooled, pooled \cup {on[c]}}

\* A dialer below a DNS service closed its connection.
Disconnect(c) ==
  /\ caller[c] = "connected"
  /\ \E r \in path[on[c]] : Closed(r)
  /\ CallerTo(c, "tracked", on[c])
  /\ UNCHANGED pooled

\* The tracked task ends: it completed, failed, or was dropped by a closed scope.
Finish(c) ==
  /\ caller[c] \in {"tracked", "connected"}
  /\ CallerTo(c, "unwinding", on[c])
  /\ UNCHANGED pooled

\* The caller drops the native state it cloned.
Unwind(c) ==
  /\ caller[c] \in {"found", "unwinding"}
  /\ CallerTo(c, "idle", None)
  /\ UNCHANGED pooled

Call(c) ==
  \/ \E r \in EntryPoint : Accept(c, r)
  \/ \E r \in Resource : Lookup(c, r)
  \/ Track(c) \/ Connect(c) \/ Disconnect(c) \/ Finish(c) \/ Unwind(c)

\* A pooled connection closes; it must once its path is cancelled or its drained owner is idle.
PoolCloses(p) ==
  /\ p \in pooled
  /\ pooled' = pooled \ {p}
  /\ UNCHANGED <<registry, rootClosed, creation, lifetime, supervisor, runner, caller, on, daemon>>

PoolMustClose(p) ==
  /\ \/ \E r \in path[p] : Closed(r)
     \/ /\ p \in Dialer
        /\ supervisor[p] \notin {"none", "open"}
        /\ \A c \in Caller : caller[c] = "connected" => p \notin path[on[c]]
        /\ \A q \in pooled \ {p} : p \notin path[q]
  /\ PoolCloses(p)

-----------------------------------------------------------------------------
Next ==
  \/ \E r \in Resource : Create(r)
  \/ \E r \in EntryPoint : Run(r)
  \/ \E r \in Resource : Supervise(r)
  \/ \E r \in Resource : Close(r)
  \/ \E r \in Resource, at \in Deadlines : Drain(r, at)
  \/ \E t \in Tiers : DrainTier(t)
  \/ Abort
  \/ \E c \in Caller : Call(c)
  \/ \E p \in pooled : PoolCloses(p)

Spec == Init /\ [][Next]_rvars

\* A task that a closed scope cancels is dropped when the runtime next polls it, and the
\* runtime polls every ready task.
CancelledEnds(c) == on[c] # None /\ Closed(on[c]) /\ Finish(c)

Fairness ==
  /\ \A r \in Resource : WF_rvars(Supervise(r)) /\ WF_rvars(SpawnSupervisor(r)) /\ WF_rvars(StartRun(r))
  /\ \A r \in EntryPoint : WF_rvars(RunStops(r)) /\ WF_rvars(RunShutsDown(r))
  /\ \A c \in Caller : WF_rvars(CancelledEnds(c)) /\ WF_rvars(Disconnect(c))
  /\ \A p \in Dialer \cup DnsService : WF_rvars(PoolMustClose(p))

FairSpec == Spec /\ Fairness

-----------------------------------------------------------------------------
(* Properties.                                                              *)

\* r holds a use of the dialer it was created on: its create call holds the reservation,
\* or it is registered and has not been ended.
HoldsUse(r) ==
  \/ creation[r] \in {"built", "refused"}
  \/ creation[r] \in {"registered", "supervised", "created"} /\ r \notin admission
UsersOf(e) == {r \in Resource : uses[r] = e /\ HoldsUse(r)}

\* The user count of a registered resource is exactly the number of reservations and open
\* resources on it, over failed creations, repeated ends, tier drains and aborts; so no
\* saturating subtraction in release_user or end ever hides an error.
UseCount == \A e \in entries : users[e] = Cardinality(UsersOf(e))

\* A resource cannot close while an open resource was created on it (ADR 0003): until the
\* daemon aborts, every dialer below an open resource is registered, live and open, and
\* its scope admits work.
CarriersStayOpen ==
  \A r \in entries : ~rootClosed /\ IsOpen(r) => \A e \in path[r] : Usable(e) /\ ~Closed(e)

\* When waiters on a release resume, the entry is gone, its scope is closed, and no session,
\* query, connection, pool or accept loop of the resource remains, however its creation, its
\* callers and its end interleaved.
ReleasedIsQuiet == \A r \in released : r \notin entries /\ Closed(r) /\ ~Tracked(r)

\* Once the daemon has stopped creation no entry appears, so the snapshot that released_tier
\* takes is complete.
NoLateEntry == [][~accepting => entries' \subseteq entries]_rvars

\* Repeated requests neither extend nor shorten a drain (ADR 0007): the request that stops
\* admission fixes the deadline.
DeadlineFixed == [][\A r \in admission : deadline'[r] = deadline[r]]_rvars

\* Every registered resource that is closed, drained with a deadline or below a closed scope
\* is released, including one whose scope closed before its supervisor or its work started.
EndedIsReleased ==
  \A r \in Resource :
    (r \in entries /\ (r \in aborted \/ deadline[r] # 0 \/ Closed(r))) ~> r \in released

\* The comment on supervise: native state is destroyed before waiters resume, so nobody
\* still holds the native state of a released resource.
NativeDestroyedFirst == \A c \in Caller : on[c] \notin released
=============================================================================
