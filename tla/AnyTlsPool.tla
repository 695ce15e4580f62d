----------------------------- MODULE AnyTlsPool -----------------------------
(***************************************************************************)
(* The AnyTLS client, crates/anytls/src/client.rs with the control part of *)
(* session.rs and stream.rs.  A pool keeps sessions; each session is a     *)
(* task that carries one logical stream at a time.  An opener takes an     *)
(* idle session or dials a new one, queues an Open on it and receives a    *)
(* stream; the session returns itself to the pool when the stream ends.    *)
(* Openers, sessions and the pruning task run concurrently, an opener may  *)
(* be cancelled at every await, and a session may fail at any point.       *)
(***************************************************************************)
EXTENDS Naturals, SequencesExt, FiniteSets

CONSTANTS Opener,       \* connections a caller may have open at the same time
          MaxSequence   \* the largest session id, u64::MAX in the code

ASSUME PoolAssumption == MaxSequence \in Nat

Session == 1 .. MaxSequence
None    == 0
ASSUME OpenersAreNotNone == None \notin Opener

VARIABLES
  slot,        \* pool.sessions: absent, in use or idle (idle_since is set)
  idle,        \* pool.idle, in the order in which sessions became idle
  sequence,    \* the last session id given out
  draining,    \* drain() was called; the pruning task is stopped with it
  task,        \* the task of each session
  current,     \* the opener whose message the session task is handling
  entry,       \* the logical stream of the session, named by its opener
  commands,    \* the Open and Close messages queued on the session
  drops,       \* the queue of dropped streams
  cancelled,   \* sessions whose scope is closed
  clientClosed,\* the scope of the client is closed
  op,          \* what each opener is doing
  on,          \* the session an opener uses
  guards       \* openers whose caller scope still counts this connection as work

pool  == <<slot, idle, sequence, draining>>
tasks == <<task, current, entry, commands, drops>>
opens == <<op, on, guards>>
avars == <<pool, tasks, cancelled, clientClosed, opens>>

Command == [kind : {"open", "close"}, of : Opener]

\* Types of the pool, its sessions and the openers.
PoolTypeOK ==
  /\ slot \in [Session -> {"absent", "used", "idle"}] /\ idle \in Seq(Session)
  /\ sequence \in 0 .. MaxSequence /\ draining \in BOOLEAN
  /\ task \in [Session -> {"none", "select", "opening", "closing", "dropping", "closed", "ended"}]
  /\ current \in [Session -> Opener \cup {None}] /\ entry \in [Session -> Opener \cup {None}]
  /\ commands \in [Session -> Seq(Command)] /\ drops \in [Session -> Seq(Opener)]
  /\ cancelled \subseteq Session /\ clientClosed \in BOOLEAN
  /\ op \in [Opener -> {"out", "dialing", "started", "reserved", "queued", "waiting", "open"}]
  /\ on \in [Opener -> Session \cup {None}] /\ guards \subseteq Opener

PoolInit ==
  /\ slot = [s \in Session |-> "absent"] /\ idle = <<>> /\ sequence = 0 /\ draining = FALSE
  /\ task = [s \in Session |-> "none"] /\ current = [s \in Session |-> None]
  /\ entry = [s \in Session |-> None]
  /\ commands = [s \in Session |-> <<>>] /\ drops = [s \in Session |-> <<>>]
  /\ cancelled = {} /\ clientClosed = FALSE
  /\ op = [o \in Opener |-> "out"] /\ on = [o \in Opener |-> None] /\ guards = {}

Alive(s)     == task[s] \in {"select", "opening", "closing", "dropping"}
Cancelled(s) == clientClosed \/ s \in cancelled

-----------------------------------------------------------------------------
(* The pool, under its lock.                                                *)

\* Sessions that closed, and the n that have been idle for longer than the timeout.
Pruned(n) ==
  {s \in Session : slot[s] # "absent" /\ (task[s] \in {"closed", "ended"}
                                            \/ \E i \in 1 .. n : idle[i] = s)}

Without(S) == SelectSeq(idle, LAMBDA s : s \notin S)

\* Slot::drop closes the session's scope.
DropSlots(S) ==
  /\ slot' = [s \in Session |-> IF s \in S THEN "absent" ELSE slot[s]]
  /\ cancelled' = cancelled \cup {s \in S : slot[s] # "absent"}

\* The session joins the idle list, or is closed when the client drains.
MarkIdle(s) ==
  IF draining
  THEN DropSlots({s}) /\ UNCHANGED idle
  ELSE /\ UNCHANGED cancelled
       /\ IF slot[s] = "absent" THEN UNCHANGED <<slot, idle>>
          ELSE /\ slot' = [slot EXCEPT ![s] = "idle"]
               /\ idle' = Append(idle, s)

Drain ==
  /\ ~draining /\ draining' = TRUE
  /\ DropSlots({s \in Session : slot[s] = "idle"})
  /\ idle' = <<>>
  /\ UNCHANGED <<sequence, tasks, clientClosed, opens>>

\* Mistake: pruned sessions stay in the idle list.
PruneKeepsList ==
  /\ ~draining /\ ~clientClosed
  /\ \E n \in 0 .. Len(idle) : Pruned(n) # {} /\ DropSlots(Pruned(n))
  /\ UNCHANGED <<idle, sequence, draining, tasks, clientClosed, opens>>

\* The pruning task; drain stops it.
Prune ==
  /\ ~draining /\ ~clientClosed
  /\ \E n \in 0 .. Len(idle) : /\ Pruned(n) # {}
                               /\ DropSlots(Pruned(n)) /\ idle' = Without(Pruned(n))
  /\ UNCHANGED <<sequence, draining, tasks, clientClosed, opens>>

-----------------------------------------------------------------------------
(* The openers.                                                             *)

OpenerTo(o, state) == op' = [op EXCEPT ![o] = state]

\* open: register the work, then take the session that became idle last ...
Reuse(o) ==
  /\ op[o] = "out" /\ o \notin guards
  /\ \E n \in 0 .. Len(idle) :
       LET rest == Without(Pruned(n)) IN
       /\ rest # <<>>
       /\ cancelled' = cancelled \cup Pruned(n)
       /\ slot' = [s \in Session |-> IF s \in Pruned(n) THEN "absent"
                                     ELSE IF s = Last(rest) THEN "used" ELSE slot[s]]
       /\ idle' = Front(rest)
       /\ on' = [on EXCEPT ![o] = Last(rest)]
  /\ guards' = guards \cup {o}
  /\ OpenerTo(o, "reserved")
  /\ UNCHANGED <<sequence, draining, tasks, clientClosed>>

\* ... or dial a new one when none is left.
Dial(o) ==
  /\ op[o] = "out" /\ o \notin guards
  /\ \E n \in 0 .. Len(idle) : /\ Without(Pruned(n)) = <<>> /\ idle' = <<>>
                               /\ DropSlots(Pruned(n))
  /\ guards' = guards \cup {o}
  /\ OpenerTo(o, "dialing")
  /\ UNCHANGED <<sequence, draining, tasks, clientClosed, on>>

\* The transport is authenticated: number the session and start its task.
Start(o) ==
  /\ op[o] = "dialing" /\ ~clientClosed
  /\ sequence < MaxSequence /\ sequence' = sequence + 1
  /\ task' = [task EXCEPT ![sequence'] = "select"]
  /\ on' = [on EXCEPT ![o] = sequence']
  /\ OpenerTo(o, "started")
  /\ UNCHANGED <<slot, idle, draining, current, entry, commands, drops, cancelled, clientClosed,
                 guards>>

Insert(o) ==
  /\ op[o] = "started"
  /\ slot' = [slot EXCEPT ![on[o]] = "used"]
  /\ OpenerTo(o, "reserved")
  /\ UNCHANGED <<idle, sequence, draining, tasks, cancelled, clientClosed, on, guards>>

\* Mistake: an opener that gives up leaves its reserved session as it is.
AbandonLeaves(o) ==
  /\ op[o] \in {"dialing", "reserved"}
  /\ guards' = guards \ {o}
  /\ OpenerTo(o, "out")
  /\ UNCHANGED <<pool, tasks, cancelled, clientClosed, on>>

\* The dial fails, or the opener times out or is cancelled before its Open is queued, or the
\* session closed meanwhile.  No stream exists that could return the session, so it is closed.
Abandon(o) ==
  /\ op[o] \in {"dialing", "reserved"}
  /\ cancelled' = IF op[o] = "reserved" THEN cancelled \cup {on[o]} ELSE cancelled
  /\ guards' = guards \ {o}
  /\ OpenerTo(o, "out")
  /\ UNCHANGED <<pool, tasks, clientClosed, on>>

\* Handle::open queues the message; its work guard goes with it.
Enqueue(o) ==
  /\ op[o] = "reserved" /\ task[on[o]] # "ended"
  /\ commands' = [commands EXCEPT ![on[o]] = Append(@, [kind |-> "open", of |-> o])]
  /\ OpenerTo(o, "queued")
  /\ UNCHANGED <<pool, task, current, entry, drops, cancelled, clientClosed, on, guards>>

\* The opener stops waiting for its stream; the message stays queued.
GiveUp(o) ==
  /\ op[o] = "queued"
  /\ OpenerTo(o, "out")
  /\ UNCHANGED <<pool, tasks, cancelled, clientClosed, on, guards>>

\* LogicalStream::drop hands the guard to the session, if there is one.
DropOf(o, s) ==
  IF task[s] = "ended"
  THEN guards' = guards \ {o} /\ UNCHANGED drops
  ELSE drops' = [drops EXCEPT ![s] = Append(@, o)] /\ UNCHANGED guards

\* The stream is dropped: the handshake failed or timed out, or its consumer is done.
DropOpened(o) ==
  /\ op[o] \in {"waiting", "open"}
  /\ DropOf(o, on[o])
  /\ OpenerTo(o, "out")
  /\ UNCHANGED <<pool, task, current, entry, commands, cancelled, clientClosed, on>>

\* poll_shutdown, at most once for a stream and not after it was closed.
ShutOpened(o) ==
  /\ op[o] = "open" /\ task[on[o]] # "ended" /\ entry[on[o]] = o
  /\ [kind |-> "close", of |-> o] \notin Range(commands[on[o]])
  /\ commands' = [commands EXCEPT ![on[o]] = Append(@, [kind |-> "close", of |-> o])]
  /\ UNCHANGED <<pool, task, current, entry, drops, cancelled, clientClosed, opens>>

OpenerStep(o) ==
  \/ Reuse(o) \/ Dial(o) \/ Start(o) \/ Insert(o) \/ Abandon(o) \/ Enqueue(o) \/ GiveUp(o)
  \/ DropOpened(o) \/ ShutOpened(o)

-----------------------------------------------------------------------------
(* The session task.                                                        *)

TaskTo(s, state, o) ==
  /\ task' = [task EXCEPT ![s] = state]
  /\ current' = [current EXCEPT ![s] = o]

\* An Open: insert the entry and write the first frames.  A busy session fails.
TaskOpen(s) ==
  /\ task[s] = "select" /\ commands[s] # <<>> /\ Head(commands[s]).kind = "open"
  /\ LET o == Head(commands[s]).of IN
     IF entry[s] = None
     THEN /\ TaskTo(s, "opening", o) /\ entry' = [entry EXCEPT ![s] = o] /\ UNCHANGED guards
     ELSE /\ TaskTo(s, "closed", None) /\ guards' = guards \ {o} /\ UNCHANGED entry
  /\ commands' = [commands EXCEPT ![s] = Tail(@)]
  /\ UNCHANGED <<pool, drops, cancelled, clientClosed, op, on>>

\* The frames are flushed: the opener gets the stream; if it is gone, the stream is dropped.
TaskOpened(s) ==
  /\ task[s] = "opening"
  /\ LET o == current[s] IN
     IF op[o] = "queued" /\ on[o] = s
     THEN OpenerTo(o, "waiting") /\ UNCHANGED drops
     ELSE drops' = [drops EXCEPT ![s] = Append(@, o)] /\ UNCHANGED op
  /\ TaskTo(s, "select", None)
  /\ UNCHANGED <<pool, entry, commands, cancelled, clientClosed, on, guards>>

\* The peer acknowledges the stream.
PeerAccepts(s) ==
  /\ task[s] = "select" /\ entry[s] # None /\ op[entry[s]] = "waiting"
  /\ OpenerTo(entry[s], "open")
  /\ UNCHANGED <<pool, tasks, cancelled, clientClosed, on, guards>>

\* A FIN of the peer removes the entry and frees the session at once.
PeerFinishes(s) ==
  /\ task[s] = "select" /\ entry[s] # None
  /\ entry' = [entry EXCEPT ![s] = None]
  /\ MarkIdle(s)
  /\ UNCHANGED <<sequence, draining, task, current, commands, drops, clientClosed, opens>>

\* The peer refuses the stream, or its receive queue is full: close it with an error.
PeerRefuses(s) ==
  /\ task[s] = "select" /\ entry[s] # None
  /\ entry' = [entry EXCEPT ![s] = None]
  /\ TaskTo(s, "closing", None)
  /\ UNCHANGED <<pool, commands, drops, cancelled, clientClosed, opens>>

\* A Close of a stream that is still open starts a FIN; any other does nothing.
TaskClose(s) ==
  /\ task[s] = "select" /\ commands[s] # <<>> /\ Head(commands[s]).kind = "close"
  /\ commands' = [commands EXCEPT ![s] = Tail(@)]
  /\ IF entry[s] = Head(commands[s]).of
     THEN entry' = [entry EXCEPT ![s] = None] /\ TaskTo(s, "closing", None)
     ELSE UNCHANGED <<entry, task, current>>
  /\ UNCHANGED <<pool, drops, cancelled, clientClosed, opens>>

\* Mistake: a dropped stream closes whatever the session carries now, or frees it again.
TaskDroppedAny(s) ==
  /\ task[s] = "select" /\ drops[s] # <<>>
  /\ drops' = [drops EXCEPT ![s] = Tail(@)]
  /\ TaskTo(s, "dropping", Head(drops[s])) /\ entry' = [entry EXCEPT ![s] = None]
  /\ UNCHANGED <<pool, commands, cancelled, clientClosed, opens>>

\* Mistake: the guard goes as soon as the drop is seen, before the FIN is written.
TaskDroppedEarly(s) ==
  /\ task[s] = "select" /\ drops[s] # <<>>
  /\ drops' = [drops EXCEPT ![s] = Tail(@)]
  /\ guards' = guards \ {Head(drops[s])}
  /\ IF entry[s] = Head(drops[s])
     THEN TaskTo(s, "dropping", Head(drops[s])) /\ entry' = [entry EXCEPT ![s] = None]
     ELSE UNCHANGED <<task, current, entry>>
  /\ UNCHANGED <<pool, commands, cancelled, clientClosed, op, on>>

\* Mistake: the guard of a stream that the peer closed first is kept.
TaskDroppedKeeps(s) ==
  /\ task[s] = "select" /\ drops[s] # <<>>
  /\ drops' = [drops EXCEPT ![s] = Tail(@)]
  /\ IF entry[s] = Head(drops[s])
     THEN TaskTo(s, "dropping", Head(drops[s])) /\ entry' = [entry EXCEPT ![s] = None]
     ELSE UNCHANGED <<task, current, entry>>
  /\ UNCHANGED <<pool, commands, cancelled, clientClosed, opens>>

\* A dropped stream that is still open is closed; its guard is kept until that is done.
TaskDropped(s) ==
  /\ task[s] = "select" /\ drops[s] # <<>>
  /\ drops' = [drops EXCEPT ![s] = Tail(@)]
  /\ LET o == Head(drops[s]) IN
     IF entry[s] = o
     THEN TaskTo(s, "dropping", o) /\ entry' = [entry EXCEPT ![s] = None] /\ UNCHANGED guards
     ELSE guards' = guards \ {o} /\ UNCHANGED <<task, current, entry>>
  /\ UNCHANGED <<pool, commands, cancelled, clientClosed, op, on>>

\* The FIN is flushed: the session is idle.
Finished(s) ==
  /\ task[s] \in {"closing", "dropping"}
  /\ MarkIdle(s)
  /\ guards' = guards \ {current[s]}
  /\ TaskTo(s, "select", None)
  /\ UNCHANGED <<sequence, draining, entry, commands, drops, clientClosed, op, on>>

\* Transport error, alert, write timeout or cancellation: the future is dropped, which cancels
\* handle.closed ...
Break(s) ==
  /\ Alive(s)
  /\ TaskTo(s, "closed", None)
  /\ guards' = IF task[s] = "dropping" THEN guards \ {current[s]} ELSE guards
  /\ drops' = IF task[s] = "opening" THEN [drops EXCEPT ![s] = Append(@, current[s])] ELSE drops
  /\ UNCHANGED <<pool, entry, commands, cancelled, clientClosed, op, on>>

\* ... and then the session, with its entries and its queues.
DropSession(s) ==
  /\ task[s] = "closed"
  /\ TaskTo(s, "ended", None)
  /\ entry' = [entry EXCEPT ![s] = None]
  /\ guards' = guards \ (Range(drops[s]) \cup {m.of : m \in {n \in Range(commands[s]) : n.kind = "open"}})
  /\ commands' = [commands EXCEPT ![s] = <<>>] /\ drops' = [drops EXCEPT ![s] = <<>>]
  /\ UNCHANGED <<pool, cancelled, clientClosed, op, on>>

\* What the task does by itself, without the peer.
TaskStep(s) ==
  \/ TaskOpen(s) \/ TaskOpened(s) \/ TaskClose(s) \/ TaskDropped(s) \/ Finished(s)
  \/ DropSession(s)

PeerStep(s) == PeerAccepts(s) \/ PeerFinishes(s) \/ PeerRefuses(s)

CloseClient ==
  /\ ~clientClosed /\ clientClosed' = TRUE
  /\ UNCHANGED <<pool, tasks, cancelled, opens>>

PoolNext ==
  \/ Drain \/ Prune \/ CloseClient
  \/ \E o \in Opener : OpenerStep(o)
  \/ \E s \in Session : TaskStep(s) \/ PeerStep(s) \/ Break(s)

PoolSpec == PoolInit /\ [][PoolNext]_avars

\* A task that is ready is polled; a cancelled one is dropped; dialling and opening have a timeout.
PoolFairness ==
  /\ \A s \in Session : /\ WF_avars(TaskOpen(s) \/ TaskClose(s) \/ TaskOpened(s) \/ Finished(s))
                        /\ SF_avars(TaskDropped(s))
                        /\ WF_avars(DropSession(s)) /\ WF_avars(Cancelled(s) /\ Break(s))
  /\ \A o \in Opener : WF_avars(Insert(o)) /\ WF_avars(Abandon(o) \/ Enqueue(o) \/ Start(o))

PoolFairSpec == PoolSpec /\ PoolFairness

-----------------------------------------------------------------------------
(* Properties.                                                              *)

Opening(s) == {o \in Opener : (op[o] = "reserved" /\ on[o] = s)
                                \/ [kind |-> "open", of |-> o] \in Range(commands[s])}

\* A session has one user at a time: while an opener has reserved it or queued an Open on it, the
\* session carries no stream and is not offered to another opener.  So the check for a busy session
\* in Session::message cannot fail on a session taken from the pool.
OneUser ==
  \A s \in Session : Alive(s) =>
    /\ Cardinality(Opening(s)) + Cardinality({entry[s]} \ {None}) <= 1
    /\ slot[s] = "idle" => Opening(s) = {} /\ entry[s] = None

\* The idle list holds exactly the idle sessions, each once: the lookup in Pool::reuse cannot fail,
\* and no session is handed out twice.
IdleListExact == Len(idle) = Cardinality(Range(idle)) /\ Range(idle) = {s \in Session : slot[s] = "idle"}

\* The caller's scope counts a connection as work until the session carries it no more: the guard
\* outlives its Open message, the entry, its drop notice and the FIN written for it.
GuardCoversStream ==
  \A s \in Session : task[s] # "ended" =>
    Opening(s) \cup ({entry[s], current[s]} \ {None}) \cup Range(drops[s]) \subseteq guards

\* A connection that its caller gave up stops counting as work.
GuardReleased == \A o \in Opener : (op[o] = "out" /\ o \in guards) ~> o \notin guards

\* A client that drains and is used no more ends every session, also those that were being dialled
\* or opened when drain was called.
DrainEnds ==
  <>[](draining /\ \A o \in Opener : op[o] = "out") => <>[](\A s \in Session : ~Alive(s))
=============================================================================
