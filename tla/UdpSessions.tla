---------------------------- MODULE UdpSessions ----------------------------
(***************************************************************************)
(* The sessions of one UDP association, crates/daemon/src/network/udp.rs.  *)
(* A loop owns a table with one session per target; the session tasks run  *)
(* concurrently and report their end on a channel.  A session that ended   *)
(* may be replaced before its report is read, so reports carry a           *)
(* generation.                                                             *)
(***************************************************************************)
EXTENDS Naturals, Sequences, FiniteSets

CONSTANTS Target,
          MaxSessions,     \* sessions per association, 1024 in the code
          MaxGeneration    \* the largest generation, u64::MAX in the code

ASSUME UdpAssumption == MaxSessions \in Nat \ {0} /\ MaxGeneration \in Nat

Generation == 1 .. MaxGeneration

VARIABLES
  loop,         \* route_packets: waiting, handling a packet, or returned
  packet,       \* the target of the packet being handled
  sessions,     \* the table: the generation of a target's session, 0 without one
  generation,   \* the last generation given out
  task,         \* progress of the session task of each generation
  target,       \* the target of each generation
  closed,       \* generations whose scope is cancelled by itself
  parentClosed, \* the association's scope is cancelled
  completions   \* the channel of reports

table == <<sessions, generation, target>>
uvars == <<loop, packet, table, task, closed, parentClosed, completions>>

\* Types of the table, the tasks and their reports; generations do not pass their end.
UdpTypeOK ==
  /\ loop \in {"select", "expire", "admit", "send", "returned"}
  /\ packet \in Target
  /\ sessions \in [Target -> 0 .. generation] /\ generation \in 0 .. MaxGeneration
  /\ task \in [Generation -> {"none", "running", "finishing", "closed", "done"}]
  /\ target \in [Generation -> Target]
  /\ closed \subseteq Generation /\ parentClosed \in BOOLEAN
  /\ completions \in Seq(Target \X Generation)

UdpInit ==
  /\ loop = "select" /\ packet \in Target
  /\ sessions = [t \in Target |-> 0] /\ generation = 0
  /\ task = [g \in Generation |-> "none"]
  /\ target \in [Generation -> {packet}]
  /\ closed = {} /\ parentClosed = FALSE /\ completions = <<>>

Closed(g) == parentClosed \/ g \in closed
Entries   == {t \in Target : sessions[t] # 0}

\* Mistake: dropping an entry leaves its session running.
DropEntriesOnly(S) ==
  /\ sessions' = [t \in Target |-> IF t \in S THEN 0 ELSE sessions[t]]
  /\ UNCHANGED closed

\* Entry::drop closes the session's scope.
DropEntries(S) ==
  /\ sessions' = [t \in Target |-> IF t \in S THEN 0 ELSE sessions[t]]
  /\ closed' = closed \cup {sessions[t] : t \in S \cap Entries}

-----------------------------------------------------------------------------
\* The association ends: its scope closed, or no packet can come any more.
Return ==
  /\ loop = "select"
  /\ loop' = "returned"
  /\ DropEntries(Target)
  /\ UNCHANGED <<packet, generation, target, task, parentClosed, completions>>

\* Mistake: a report removes whatever session the target has now.
CompletedAnyGeneration ==
  /\ loop = "select"
  /\ completions # <<>>
  /\ completions' = Tail(completions)
  /\ DropEntries({Head(completions)[1]})
  /\ UNCHANGED <<loop, packet, generation, target, task, parentClosed>>

\* A report removes the entry of its own generation.
Completed ==
  /\ loop = "select"
  /\ completions # <<>>
  /\ completions' = Tail(completions)
  /\ LET t == Head(completions)[1]
         g == Head(completions)[2]
     IN DropEntries(IF sessions[t] = g THEN {t} ELSE {})
  /\ UNCHANGED <<loop, packet, generation, target, task, parentClosed>>

\* A batch arrives, or has another packet.
Packet(t) ==
  /\ loop \in {"select", "send"}
  /\ loop' = "expire"
  /\ packet' = t
  /\ UNCHANGED <<table, task, closed, parentClosed, completions>>

\* A session whose scope is closed is replaced.
Expire ==
  /\ loop = "expire"
  /\ loop' = "admit"
  /\ DropEntries({t \in {packet} \cap Entries : Closed(sessions[t])})
  /\ UNCHANGED <<packet, generation, target, task, parentClosed, completions>>

\* The packet is dropped when the table is full.
Reject ==
  /\ loop = "admit"
  /\ packet \notin Entries
  /\ Cardinality(Entries) >= MaxSessions
  /\ loop' = "send"
  /\ UNCHANGED <<packet, table, task, closed, parentClosed, completions>>

MayAdmit == loop = "admit" /\ packet \notin Entries /\ Cardinality(Entries) < MaxSessions

\* Generations are exhausted, or the association's scope closed and spawn refuses; the session
\* that was being made reports into a channel that goes away.
AdmitFails ==
  /\ MayAdmit
  /\ generation = MaxGeneration \/ parentClosed
  /\ loop' = "returned"
  /\ DropEntries(Target)
  /\ UNCHANGED <<packet, generation, target, task, parentClosed, completions>>

\* spawn and insert.
Admit ==
  /\ MayAdmit
  /\ generation < MaxGeneration /\ ~parentClosed
  /\ generation' = generation + 1
  /\ target' = [target EXCEPT ![generation'] = packet]
  /\ task' = [task EXCEPT ![generation'] = "running"]
  /\ sessions' = [sessions EXCEPT ![packet] = generation']
  /\ loop' = "send"
  /\ UNCHANGED <<packet, closed, parentClosed, completions>>

Found ==
  /\ loop = "admit"
  /\ packet \in Entries
  /\ loop' = "send"
  /\ UNCHANGED <<packet, table, task, closed, parentClosed, completions>>

\* try_send, then the end of the batch.
Sent ==
  /\ loop = "send"
  /\ loop' = "select"
  /\ UNCHANGED <<packet, table, task, closed, parentClosed, completions>>

Loop == Completed \/ Expire \/ Reject \/ AdmitFails \/ Admit \/ Found \/ Sent

-----------------------------------------------------------------------------
(* The session tasks.                                                       *)

\* The work is over, idle or cancelled; its queue is dropped before the scope closes.
Finish(g) ==
  /\ task[g] = "running"
  /\ task' = [task EXCEPT ![g] = "finishing"]
  /\ UNCHANGED <<loop, packet, table, closed, parentClosed, completions>>

\* UdpSession::drop
CloseScope(g) ==
  /\ task[g] = "finishing"
  /\ task' = [task EXCEPT ![g] = "closed"]
  /\ closed' = closed \cup {g}
  /\ UNCHANGED <<loop, packet, table, parentClosed, completions>>

\* Mistake: a report finds no room while another waits.
CompleteIfRoom(g) ==
  /\ task[g] = "closed"
  /\ task' = [task EXCEPT ![g] = "done"]
  /\ completions' = IF loop = "returned" \/ completions # <<>> THEN completions
                    ELSE Append(completions, <<target[g], g>>)
  /\ UNCHANGED <<loop, packet, table, closed, parentClosed>>

\* Completion::drop reports, unless the association is gone.
Complete(g) ==
  /\ task[g] = "closed"
  /\ task' = [task EXCEPT ![g] = "done"]
  /\ completions' = IF loop = "returned" THEN completions
                    ELSE Append(completions, <<target[g], g>>)
  /\ UNCHANGED <<loop, packet, table, closed, parentClosed>>

\* SessionHandle::close
CloseSession(g) ==
  /\ task[g] = "running" /\ g \notin closed
  /\ closed' = closed \cup {g}
  /\ UNCHANGED <<loop, packet, table, task, parentClosed, completions>>

CloseParent ==
  /\ ~parentClosed /\ parentClosed' = TRUE
  /\ UNCHANGED <<loop, packet, table, task, closed, completions>>

UdpNext ==
  \/ Return \/ Loop \/ CloseParent
  \/ \E t \in Target : Packet(t)
  \/ \E g \in Generation : Finish(g) \/ CloseScope(g) \/ Complete(g) \/ CloseSession(g)

UdpSpec == UdpInit /\ [][UdpNext]_uvars

\* A cancelled task is dropped when it is polled; the loop handles what is ready, reports before
\* packets; the association returns once its scope is closed.
UdpFairness ==
  /\ WF_uvars(Expire \/ Reject \/ AdmitFails \/ Admit \/ Found) /\ SF_uvars(Sent)
  /\ SF_uvars(Completed) /\ WF_uvars(parentClosed /\ Return)
  /\ \A g \in Generation : WF_uvars(Closed(g) /\ Finish(g)) /\ WF_uvars(CloseScope(g))
                              /\ WF_uvars(Complete(g))

UdpFairSpec == UdpSpec /\ UdpFairness

-----------------------------------------------------------------------------
(* Properties.                                                              *)

Open(g) == task[g] \in {"running", "finishing"} /\ ~Closed(g)

\* A session that is open is the one in the table for its target: no session runs on behind the
\* table, neither after its entry was replaced nor after the association returned.
OpenIsListed == \A g \in Generation : Open(g) => loop # "returned" /\ sessions[target[g]] = g

\* The loop ends a session only with the whole association: a late report of an earlier session
\* never takes down the one that replaced it.
NoStaleRemoval ==
  [][sessions' # sessions /\ loop' # "returned" => \A g \in Generation : Open(g) => g \notin closed'
    ]_uvars

\* The slot of a session that ended is freed, so the table does not fill up with dead sessions.
SlotsAreFreed ==
  \A g \in Generation : task[g] = "done" ~> (loop = "returned" \/ sessions[target[g]] # g)

=============================================================================
