--------------------------- MODULE HysteriaClient ---------------------------
(***************************************************************************)
(* The shared connection of a Hysteria 2 client,                           *)
(* crates/hysteria2/src/client.rs.  A manager task owns the session.       *)
(* Callers ask it for a lease over a bounded channel; a lease holds a      *)
(* reference to the session and reports its release on a channel of        *)
(* capacity one.  The manager retires as soon as nobody uses the session,  *)
(* and the next caller starts another.                                     *)
(*                                                                         *)
(* Each caller makes one call of Client::tcp or Client::udp.  What is done *)
(* with the lease in between (a stream, a UDP entry) is external.          *)
(***************************************************************************)
EXTENDS Naturals, Sequences, FiniteSets

CONSTANTS Caller,
          QueueSize,     \* capacity of the request channel, 64 in the code
          MaxManager,    \* bound on managers started
          MaxSession     \* bound on sessions connected

ASSUME HysteriaAssumption == QueueSize \in Nat \ {0} /\ MaxManager \in Nat /\ MaxSession \in Nat

VARIABLES
  call,      \* progress of each caller
  asked,     \* the manager whose sender a caller has cloned
  lease,     \* the session and manager of each caller's lease
  reply,     \* the oneshot of each caller's request
  requests,  \* the request channel of the present manager
  manager,   \* number of the manager in the slot, 0 before the first
  phase,     \* what the manager does; "none" once it has returned
  serving,   \* the requests taken from the channel and not yet answered
  session,   \* the manager's session, 0 without one
  sessions,  \* sessions connected so far
  failed,    \* sessions whose connection has a close reason
  token,     \* a release is in the present manager's release channel
  closed     \* the client's scope is cancelled

cvars == <<call, asked, lease, reply>>
mvars == <<requests, manager, phase, serving, session, sessions, token>>
hvars == <<cvars, mvars, failed, closed>>

NoLease == [session |-> 0, manager |-> 0]

\* Types of the calls, the manager and the channel between them, which stays within its capacity.
HysteriaTypeOK ==
  /\ call \in [Caller -> {"idle", "slot", "send", "wait", "leased", "released", "done", "failed"}]
  /\ asked \in [Caller -> 0 .. manager]
  /\ lease \in [Caller -> [session : 0 .. sessions, manager : 0 .. manager]]
  /\ reply \in [Caller -> {"none", "pending", "lease", "error", "lost", "gone"}]
  /\ requests \in Seq(Caller) /\ Len(requests) <= QueueSize
  /\ manager \in 0 .. MaxManager
  /\ phase \in {"none", "select", "connecting", "retiring"}
  /\ serving \subseteq Caller
  /\ sessions \in 0 .. MaxSession /\ session \in 0 .. sessions
  /\ failed \subseteq 1 .. sessions
  /\ token \in BOOLEAN /\ closed \in BOOLEAN

HysteriaInit ==
  /\ call = [c \in Caller |-> "idle"] /\ asked = [c \in Caller |-> 0]
  /\ lease = [c \in Caller |-> NoLease] /\ reply = [c \in Caller |-> "none"]
  /\ requests = <<>> /\ manager = 0 /\ phase = "none" /\ serving = {}
  /\ session = 0 /\ sessions = 0 /\ failed = {} /\ token = FALSE /\ closed = FALSE

\* Arc::strong_count of the manager's session, less the manager's own reference.
Users(s) == {c \in Caller : lease[c].session = s}
Unused   == session = 0 \/ Users(session) = {}

-----------------------------------------------------------------------------
(* Client::session.                                                         *)

Call(c) ==
  /\ call[c] = "idle"
  /\ call' = [call EXCEPT ![c] = "slot"]
  /\ UNCHANGED <<asked, lease, reply, mvars, failed, closed>>

\* Mistake: the slot keeps the sender of a manager that has returned.
SlotOnce(c) ==
  /\ call[c] = "slot"
  /\ IF manager # 0
     THEN /\ call' = [call EXCEPT ![c] = "send"]
          /\ asked' = [asked EXCEPT ![c] = manager]
          /\ UNCHANGED mvars
     ELSE /\ manager < MaxManager
          /\ manager' = manager + 1 /\ phase' = "select"
          /\ requests' = <<>> /\ serving' = {} /\ session' = 0 /\ token' = FALSE
          /\ call' = [call EXCEPT ![c] = "send"]
          /\ asked' = [asked EXCEPT ![c] = manager']
          /\ UNCHANGED sessions
  /\ UNCHANGED <<lease, reply, failed, closed>>

\* Under the slot's lock: take the manager's sender, after starting a manager if there is
\* none or the last has returned.  A closed scope refuses the new manager.
Slot(c) ==
  /\ call[c] = "slot"
  /\ \/ /\ phase # "none"
        /\ call' = [call EXCEPT ![c] = "send"]
        /\ asked' = [asked EXCEPT ![c] = manager]
        /\ UNCHANGED mvars
     \/ /\ phase = "none" /\ closed
        /\ call' = [call EXCEPT ![c] = "failed"]
        /\ UNCHANGED <<asked, mvars>>
     \/ /\ phase = "none" /\ ~closed /\ manager < MaxManager
        /\ manager' = manager + 1 /\ phase' = "select"
        /\ requests' = <<>> /\ serving' = {} /\ session' = 0 /\ token' = FALSE
        /\ call' = [call EXCEPT ![c] = "send"]
        /\ asked' = [asked EXCEPT ![c] = manager']
        /\ UNCHANGED sessions
  /\ UNCHANGED <<lease, reply, failed, closed>>

\* Enqueue the request, waiting for room; a manager that has returned is asked no more.
Send(c) ==
  /\ call[c] = "send"
  /\ \/ /\ asked[c] # manager \/ phase = "none"
        /\ call' = [call EXCEPT ![c] = "slot"]
        /\ UNCHANGED <<reply, requests>>
     \/ /\ asked[c] = manager /\ phase # "none" /\ Len(requests) < QueueSize
        /\ call' = [call EXCEPT ![c] = "wait"]
        /\ reply' = [reply EXCEPT ![c] = "pending"]
        /\ requests' = Append(requests, c)
  /\ UNCHANGED <<asked, lease, manager, phase, serving, session, sessions, token, failed, closed>>

\* Mistake: a request lost with its manager fails the call.
ReceiveOnce(c) ==
  /\ call[c] = "wait" /\ reply[c] \in {"lease", "error", "lost"}
  /\ call' = [call EXCEPT ![c] = IF reply[c] = "lease" THEN "leased" ELSE "failed"]
  /\ UNCHANGED <<asked, lease, reply, mvars, failed, closed>>

\* The answer: a lease, the error of a connection attempt, or nothing because the manager
\* returned with the request in its channel.  Only the last is tried again.
Receive(c) ==
  /\ call[c] = "wait"
  /\ call' = [call EXCEPT ![c] =
       CASE reply[c] = "lease" -> "leased"
         [] reply[c] = "error" -> "failed"
         [] reply[c] = "lost"  -> IF closed THEN "failed" ELSE "slot"
         [] OTHER -> @]
  /\ call' # call
  /\ UNCHANGED <<asked, lease, reply, mvars, failed, closed>>

\* The caller's scope is cancelled, which drops the call where it waits: before its first
\* poll, for room in the channel, or for the answer.  Between starting a manager and sending
\* to its empty channel there is nothing to wait for.  A lease that is already in the oneshot
\* is dropped with it.
Cancel(c) ==
  /\ \/ call[c] \in {"slot", "wait"}
     \/ call[c] = "send" /\ asked[c] = manager /\ phase # "none" /\ Len(requests) = QueueSize
  /\ IF call[c] = "wait" /\ reply[c] = "lease"
     THEN /\ call' = [call EXCEPT ![c] = "released"]
          /\ lease' = [lease EXCEPT ![c].session = 0]
          /\ UNCHANGED reply
     ELSE /\ call' = [call EXCEPT ![c] = "done"]
          /\ reply' = [reply EXCEPT ![c] = IF call[c] = "wait" THEN "gone" ELSE @]
          /\ UNCHANGED lease
  /\ UNCHANGED <<asked, mvars, failed, closed>>

-----------------------------------------------------------------------------
(* Dropping a lease, which has two fields.                                  *)

\* The drop of the reference to the session.
DropSession(c) == lease' = [lease EXCEPT ![c].session = 0] /\ UNCHANGED token

\* Released::drop: try_send on a channel of one; a manager that returned hears nothing.
Report(c) ==
  /\ token' = (token \/ (lease[c].manager = manager /\ phase # "none"))
  /\ UNCHANGED lease

\* Mistake: the fields of Lease in the other order.
DropLeaseReversed(c) ==
  /\ \/ call[c] = "leased"   /\ call' = [call EXCEPT ![c] = "released"] /\ Report(c)
     \/ call[c] = "released" /\ call' = [call EXCEPT ![c] = "done"] /\ DropSession(c)
  /\ UNCHANGED <<asked, reply, requests, manager, phase, serving, session, sessions, failed, closed>>

\* The stream ends or the scope of the UDP entry closes: the reference goes first, then the
\* report, with steps of others in between.
DropLease(c) ==
  /\ \/ call[c] = "leased"   /\ call' = [call EXCEPT ![c] = "released"] /\ DropSession(c)
     \/ call[c] = "released" /\ call' = [call EXCEPT ![c] = "done"] /\ Report(c)
  /\ UNCHANGED <<asked, reply, requests, manager, phase, serving, session, sessions, failed, closed>>

-----------------------------------------------------------------------------
(* manage.                                                                  *)

Manages == <<asked, manager, sessions, failed, closed>>

\* Answer the request of c with a lease of s.  If the caller has gone the lease is dropped
\* at once, which leaves a report.
Grant(c, s) ==
  IF reply[c] = "gone"
  THEN token' = TRUE /\ UNCHANGED <<lease, reply>>
  ELSE /\ lease' = [lease EXCEPT ![c] = [session |-> s, manager |-> manager]]
       /\ reply' = [reply EXCEPT ![c] = "lease"]
       /\ UNCHANGED token

\* Take the next request.  A failed session is forgotten, its leases keep it.
Recv ==
  /\ phase = "select" /\ requests # <<>>
  /\ requests' = Tail(requests)
  /\ LET c == Head(requests)
         s == IF session \in failed THEN 0 ELSE session
     IN \/ /\ reply[c] = "gone"
           /\ phase' = IF Unused THEN "retiring" ELSE "select"
           /\ UNCHANGED <<lease, reply, serving, session, token>>
        \/ /\ reply[c] # "gone" /\ s = 0
           /\ phase' = "connecting" /\ serving' = {c} /\ session' = 0
           /\ UNCHANGED <<lease, reply, token>>
        \/ /\ reply[c] # "gone" /\ s # 0
           /\ Grant(c, s)
           /\ UNCHANGED <<phase, serving, session>>
  /\ UNCHANGED <<call, Manages>>

\* Mistake: any release retires the manager.
RecvReleaseAny ==
  /\ phase = "select" /\ requests = <<>> /\ token
  /\ token' = FALSE
  /\ phase' = "retiring"
  /\ UNCHANGED <<call, lease, reply, requests, serving, session, Manages>>

\* With no request waiting (the select is biased), take a report and look whether the
\* session is still used.
RecvRelease ==
  /\ phase = "select" /\ requests = <<>> /\ token
  /\ token' = FALSE
  /\ phase' = IF Unused THEN "retiring" ELSE "select"
  /\ UNCHANGED <<call, lease, reply, requests, serving, session, Manages>>

\* The connection is authenticated.  The select does not prefer the caller's leaving.
Connected ==
  /\ phase = "connecting" /\ sessions < MaxSession
  /\ sessions' = sessions + 1 /\ session' = sessions'
  /\ \E c \in serving : Grant(c, sessions')
  /\ phase' = "select" /\ serving' = {}
  /\ UNCHANGED <<call, asked, requests, manager, failed, closed>>

\* The attempt fails, times out, or its caller leaves: the manager returns.
NotConnected ==
  /\ phase = "connecting"
  /\ phase' = "retiring" /\ serving' = {}
  /\ reply' = [c \in Caller |-> IF c \in serving /\ reply[c] = "pending" THEN "error" ELSE reply[c]]
  /\ UNCHANGED <<call, lease, requests, session, token, Manages>>

\* The manager returns, or is aborted with the client's scope: its session reference is
\* dropped, then its channel with the requests in it.
Return ==
  /\ phase = "retiring" \/ (closed /\ phase \in {"select", "connecting"})
  /\ phase' = "none" /\ session' = 0 /\ serving' = {} /\ requests' = <<>> /\ token' = FALSE
  /\ reply' = [c \in Caller |->
       IF reply[c] = "pending" /\ (c \in serving \/ \E i \in DOMAIN requests : requests[i] = c)
       THEN "lost" ELSE reply[c]]
  /\ UNCHANGED <<call, lease, Manages>>

-----------------------------------------------------------------------------
\* The connection of a session ends by itself.
Fail ==
  /\ \E s \in 1 .. sessions : s \notin failed /\ failed' = failed \cup {s}
  /\ UNCHANGED <<cvars, mvars, closed>>

\* The client is dropped or its carrier's scope is closed.
Close ==
  /\ ~closed /\ closed' = TRUE
  /\ UNCHANGED <<cvars, mvars, failed>>

ManagerStep == Recv \/ RecvRelease \/ Connected \/ NotConnected \/ Return
CallStep(c) == Slot(c) \/ Send(c) \/ Receive(c) \/ DropLease(c)

HysteriaNext ==
  \/ \E c \in Caller : Call(c) \/ CallStep(c) \/ Cancel(c)
  \/ ManagerStep \/ Fail \/ Close

HysteriaSpec == HysteriaInit /\ [][HysteriaNext]_hvars

\* Tasks are scheduled, connection attempts end (IO_TIMEOUT), and leases are dropped in
\* the end.
HysteriaFairSpec ==
  HysteriaSpec /\ WF_hvars(ManagerStep) /\ \A c \in Caller : WF_hvars(CallStep(c))

-----------------------------------------------------------------------------
(* Properties.                                                              *)

\* The streams and UDP entries of a client share one connection (docs/hysteria2.md): a
\* manager retires, and another connects, only if no working session has a user.
SharedConnection ==
  Cardinality({lease[c].session : c \in Caller} \ (failed \cup {0})) <= 1

\* A call fails because a connection attempt made for it failed or the client is closed,
\* never because an idle manager retired with the request in its channel.
FailureHasCause == \A c \in Caller : call[c] = "failed" => reply[c] = "error" \/ closed

Quiet == \A c \in Caller : call[c] \in {"idle", "done", "failed"}

\* "The last user releases the connection immediately" (docs/hysteria2.md): with no call in
\* progress the manager returns, so a drain of the client's scope needs no timer.
LastUserRetires == Quiet ~> (phase = "none" \/ ~Quiet)

\* A call is not stranded between managers.
CallReturns ==
  \A c \in Caller : call[c] \in {"slot", "send", "wait"} ~> call[c] \notin {"slot", "send", "wait"}
=============================================================================
