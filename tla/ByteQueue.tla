------------------------------ MODULE ByteQueue ------------------------------
(***************************************************************************)
(* The byte-weighted multi-producer queue, crates/protocol/src/queue.rs,   *)
(* one atomic operation per step.  Producers reserve byte credits against  *)
(* a limit, publish into a lock-free queue and wake the receiver; the     *)
(* receiver registers its waker, pops, releases the credits and notifies   *)
(* producers that wait for capacity.  Either side may be dropped at any    *)
(* point where it is not inside a call.                                    *)
(*                                                                         *)
(* The limit that refresh computes is any member of Targets here; module  *)
(* QueueFeedback models the computation.                                   *)
(***************************************************************************)
EXTENDS Naturals, Sequences, FiniteSets, SequencesExt, FiniteSetsExt

CONSTANTS Producer,   \* Sender handles
          First,      \* the Sender that channel returns; the others are clones
          Costs,      \* credits an item may need, its fixed overhead included
          Targets,    \* values of the feedback target
          MaxSend,    \* bound: items a producer publishes
          MaxReplay,  \* bound: calls of prepend
          Batch       \* limit of recv_many

ASSUME QueueAssumption ==
  /\ First \in Producer
  /\ IsFiniteSet(Producer)
  /\ Costs \subseteq Nat \ {0}
  /\ Targets \subseteq Nat /\ Targets # {}
  /\ MaxSend \in Nat /\ MaxReplay \in Nat
  /\ Batch \in Nat \ {0}

VARIABLES
  items,    \* Shared.items: <<producer, sequence number, cost>>
  bytes,    \* Shared.bytes: credits in use
  limit,    \* Shared.target
  senders,  \* Shared.senders
  closed,   \* Shared.closed: the receiver is dropped
  waker,    \* Shared.readable: the receiver's waker is registered
  woken,    \* the receiver task has been woken
  ppc, cost, seen, notice, sent,  \* per producer: progress, credits of its permit, target it
                                 \* loaded, its Notified future, items published
  rpc, batch, credit, prefix, replays, out, ended  \* receiver: progress, items left in the
                  \* batch, credits to release, replayed items, calls of prepend, items
                  \* delivered, None returned

fields   == <<items, bytes, limit, senders, closed, waker, woken>>
producer == <<ppc, cost, seen, notice, sent>>
receiver == <<rpc, batch, credit, prefix, replays, out, ended>>
vars     == <<fields, producer, receiver>>

Message == Producer \X (1 .. MaxSend) \X Costs

PPC  == {"absent", "ready", "check", "load", "reserve", "waiting", "recheck", "permit", "push",
        "published", "discard", "wake", "notify", "lastWake", "gone"}
RPC == {"idle", "register", "pop", "senders", "popAgain", "asleep", "tryPop", "fill", "release",
        "notify", "closing", "dropNotify", "gone"}

\* Types of the fields of Shared, the calls of producers and of the receiver.
TypeOK ==
  /\ items \in Seq(Message)
  /\ bytes \in Nat /\ limit \in Targets /\ senders \in Nat
  /\ closed \in BOOLEAN /\ waker \in BOOLEAN /\ woken \in BOOLEAN /\ ended \in BOOLEAN
  /\ ppc \in [Producer -> PPC]
  /\ cost \in [Producer -> Costs \cup {0}]
  /\ seen \in [Producer -> Targets]
  /\ notice \in [Producer -> {"none", "enabled", "notified"}]
  /\ sent \in [Producer -> 0 .. MaxSend]
  /\ rpc \in RPC /\ batch \in 0 .. Batch /\ credit \in Nat /\ replays \in 0 .. MaxReplay
  /\ prefix \in Seq(Message) /\ out \in Seq(Message)

Init ==
  /\ items = <<>> /\ bytes = 0 /\ senders = 1
  /\ limit \in Targets
  /\ closed = FALSE /\ waker = FALSE /\ woken = FALSE
  /\ ppc = [p \in Producer |-> IF p = First THEN "ready" ELSE "absent"]
  /\ cost = [p \in Producer |-> 0]
  /\ seen = [p \in Producer |-> limit]
  /\ notice = [p \in Producer |-> "none"]
  /\ sent = [p \in Producer |-> 0]
  /\ rpc = "idle" /\ batch = 0 /\ credit = 0 /\ replays = 0
  /\ prefix = <<>> /\ out = <<>> /\ ended = FALSE

-----------------------------------------------------------------------------
Go(p, from, to) == ppc[p] = from /\ ppc' = [ppc EXCEPT ![p] = to]

\* AtomicWaker::wake takes the registered waker; Notify::notify_waiters reaches every enabled
\* future.
WakeReceiver   == waker' = FALSE /\ woken' = (woken \/ waker)
NotifyWaiters  == notice' = [p \in Producer |-> IF notice[p] = "enabled" THEN "notified"
                                                                       ELSE notice[p]]

Clone(p, q) ==
  /\ ppc[p] = "ready"
  /\ Go(q, "absent", "ready")
  /\ senders' = senders + 1
  /\ UNCHANGED <<items, bytes, limit, closed, waker, woken, cost, seen, notice, sent, receiver>>

\* send enables its Notified future before it tries; try_send does not wait.
Send(p, c, await) ==
  /\ sent[p] < MaxSend
  /\ Go(p, "ready", "check")
  /\ cost' = [cost EXCEPT ![p] = c]
  /\ notice' = [notice EXCEPT ![p] = IF await THEN "enabled" ELSE "none"]
  /\ UNCHANGED <<fields, seen, sent, receiver>>

\* The call returns without a permit.
Return(p) ==
  /\ ppc' = [ppc EXCEPT ![p] = "ready"]
  /\ cost' = [cost EXCEPT ![p] = 0]
  /\ notice' = [notice EXCEPT ![p] = "none"]

CheckClosed(p) ==
  /\ ppc[p] = "check"
  /\ \/ closed /\ Return(p)
     \/ ~closed /\ Go(p, "check", "load") /\ UNCHANGED <<cost, notice>>
  /\ UNCHANGED <<fields, seen, sent, receiver>>

LoadTarget(p) ==
  /\ Go(p, "load", "reserve")
  /\ limit' \in Targets
  /\ seen' = [seen EXCEPT ![p] = limit']
  /\ UNCHANGED <<items, bytes, senders, closed, waker, woken, cost, notice, sent, receiver>>

\* Mistake: every item is compared with the target alone.
FitsAlone(p) == bytes = 0 \/ cost[p] <= seen[p]

\* The update of bytes: an empty queue admits any item.
Fits(p) == bytes = 0 \/ bytes + cost[p] <= seen[p]

Reserve(p) ==
  /\ Fits(p)
  /\ Go(p, "reserve", "recheck")
  /\ bytes' = bytes + cost[p]
  /\ UNCHANGED <<items, limit, senders, closed, waker, woken, cost, seen, notice, sent, receiver>>

\* Mistake: the future is enabled only after the attempt has failed, on its own again.
FullLate(p) ==
  /\ ~Fits(p)
  /\ ppc[p] = "reserve"
  /\ \/ notice[p] = "none" /\ Return(p)
     \/ /\ notice[p] # "none" /\ Go(p, "reserve", "waiting")
        /\ notice' = [notice EXCEPT ![p] = "enabled"] /\ UNCHANGED cost
  /\ UNCHANGED <<fields, seen, sent, receiver>>

Full(p) ==
  /\ ~Fits(p)
  /\ ppc[p] = "reserve"
  /\ \/ notice[p] = "none" /\ Return(p)
     \/ notice[p] # "none" /\ Go(p, "reserve", "waiting") /\ UNCHANGED <<cost, notice>>
  /\ UNCHANGED <<fields, seen, sent, receiver>>

\* notified.await returns; the loop enables a new future and tries again.
Retry(p) ==
  /\ notice[p] = "notified"
  /\ Go(p, "waiting", "check")
  /\ notice' = [notice EXCEPT ![p] = "enabled"]
  /\ UNCHANGED <<fields, cost, seen, sent, receiver>>

\* The future that waits for capacity is dropped.
CancelWait(p) ==
  /\ ppc[p] = "waiting"
  /\ Return(p)
  /\ UNCHANGED <<fields, seen, sent, receiver>>

\* Permit::drop releases the credits, then notifies.
DropPermit(p) ==
  /\ bytes' = bytes - cost[p]
  /\ cost' = [cost EXCEPT ![p] = 0]
  /\ ppc' = [ppc EXCEPT ![p] = "notify"]

\* The second look at closed, after the credits are taken.
Recheck(p) ==
  /\ ppc[p] = "recheck"
  /\ \/ closed /\ DropPermit(p)
     \/ ~closed /\ Go(p, "recheck", "permit") /\ UNCHANGED <<bytes, cost>>
  /\ notice' = [notice EXCEPT ![p] = "none"]
  /\ UNCHANGED <<items, limit, senders, closed, waker, woken, seen, sent, receiver>>

\* The owner of a permit sends its item, or drops the permit.
UsePermit(p) ==
  /\ ppc[p] = "permit"
  /\ \/ DropPermit(p)
     \/ ~closed /\ Go(p, "permit", "push") /\ UNCHANGED <<bytes, cost>>
  /\ UNCHANGED <<items, limit, senders, closed, waker, woken, seen, notice, sent, receiver>>

Push(p) ==
  /\ Go(p, "push", "published")
  /\ items' = Append(items, <<p, sent[p] + 1, cost[p]>>)
  /\ sent' = [sent EXCEPT ![p] = @ + 1]
  /\ cost' = [cost EXCEPT ![p] = 0]
  /\ UNCHANGED <<bytes, limit, senders, closed, waker, woken, seen, notice, receiver>>

\* Mistake: no look at closed after the push.
PublishedUnchecked(p) ==
  /\ Go(p, "published", "wake")
  /\ UNCHANGED <<fields, cost, seen, notice, sent, receiver>>

\* Closure may race publication: look once more after the push.
Published(p) ==
  /\ Go(p, "published", IF closed THEN "discard" ELSE "wake")
  /\ UNCHANGED <<fields, cost, seen, notice, sent, receiver>>

\* Mistake: a discarded item keeps its credits.
DiscardOneKept ==
  /\ items # <<>>
  /\ items' = Tail(items)
  /\ UNCHANGED bytes

\* discard: pop and release until the queue is empty.
DiscardOne ==
  /\ items # <<>>
  /\ items' = Tail(items)
  /\ bytes' = bytes - Head(items)[3]

Discard(p) ==
  /\ ppc[p] = "discard"
  /\ \/ DiscardOne /\ UNCHANGED ppc
     \/ items = <<>> /\ Go(p, "discard", "wake") /\ UNCHANGED <<items, bytes>>
  /\ UNCHANGED <<limit, senders, closed, waker, woken, cost, seen, notice, sent, receiver>>

Wake(p) ==
  /\ ppc[p] \in {"wake", "lastWake"}
  /\ ppc' = [ppc EXCEPT ![p] = IF ppc[p] = "wake" THEN "ready" ELSE "gone"]
  /\ WakeReceiver
  /\ UNCHANGED <<items, bytes, limit, senders, closed, cost, seen, notice, sent, receiver>>

Notify(p) ==
  /\ Go(p, "notify", "ready")
  /\ NotifyWaiters
  /\ UNCHANGED <<fields, cost, seen, sent, receiver>>

\* Only the last sender wakes the receiver.
DropSender(p) ==
  /\ Go(p, "ready", IF senders = 1 THEN "lastWake" ELSE "gone")
  /\ senders' = senders - 1
  /\ UNCHANGED <<items, bytes, limit, closed, waker, woken, cost, seen, notice, sent, receiver>>

ProducerStep(p) ==
  \/ CheckClosed(p) \/ LoadTarget(p) \/ Reserve(p) \/ Full(p) \/ Retry(p) \/ Recheck(p)
  \/ UsePermit(p) \/ Push(p) \/ Published(p) \/ Discard(p) \/ Wake(p) \/ Notify(p)

-----------------------------------------------------------------------------
RGo(from, to) == rpc = from /\ rpc' = to

Deliver(m) == out' = Append(out, m)

\* poll_recv and the first item of recv_many; n is the number of items the call may take.
Recv(n) ==
  /\ rpc = "idle"
  /\ batch' = n - 1
  /\ \/ /\ prefix # <<>>
        /\ Deliver(Head(prefix)) /\ prefix' = Tail(prefix)
        /\ rpc' = "fill"
     \/ prefix = <<>> /\ rpc' = "register" /\ UNCHANGED <<prefix, out>>
  /\ UNCHANGED <<fields, producer, credit, replays, ended>>

Register ==
  /\ RGo("register", "pop")
  /\ waker' = TRUE /\ woken' = FALSE
  /\ UNCHANGED <<items, bytes, limit, senders, closed, producer, batch, credit, prefix, replays, out, ended>>

\* items.pop() hands the item over; its credits are released afterwards.
Pop(from) ==
  /\ RGo(from, "release")
  /\ items # <<>>
  /\ items' = Tail(items)
  /\ Deliver(Head(items))
  /\ credit' = Head(items)[3]
  /\ UNCHANGED <<bytes, limit, senders, closed, waker, woken, producer, batch, prefix, replays, ended>>

PopEmpty ==
  /\ RGo("pop", "senders")
  /\ items = <<>>
  /\ UNCHANGED <<fields, producer, batch, credit, prefix, replays, out, ended>>

\* Mistake: the waker is registered when the poll is about to return, not before the pop.
LoadSendersRegister ==
  /\ RGo("senders", IF senders = 0 THEN "popAgain" ELSE "asleep")
  /\ waker' = TRUE /\ woken' = FALSE
  /\ UNCHANGED <<items, bytes, limit, senders, closed, producer, batch, credit, prefix, replays,
                 out, ended>>


\* Senders remain: Poll::Pending.
LoadSenders ==
  /\ RGo("senders", IF senders = 0 THEN "popAgain" ELSE "asleep")
  /\ UNCHANGED <<fields, producer, batch, credit, prefix, replays, out, ended>>

EndOfStream ==
  /\ RGo("popAgain", "idle")
  /\ items = <<>>
  /\ ended' = TRUE
  /\ UNCHANGED <<fields, producer, batch, credit, prefix, replays, out>>

\* The runtime polls a woken receiver again.
Repoll ==
  /\ RGo("asleep", "register")
  /\ woken
  /\ UNCHANGED <<fields, producer, batch, credit, prefix, replays, out, ended>>

\* The future that waits for an item is dropped, as a select does.
CancelRecv ==
  /\ RGo("asleep", "idle")
  /\ UNCHANGED <<fields, producer, batch, credit, prefix, replays, out, ended>>

\* try_recv neither registers a waker nor looks at the queue twice.
TryRecv ==
  /\ rpc = "idle"
  /\ prefix = <<>>
  /\ rpc' = "tryPop" /\ batch' = 0
  /\ UNCHANGED <<fields, producer, credit, prefix, replays, out, ended>>

TryRecvEmpty ==
  /\ RGo("tryPop", "idle")
  /\ items = <<>>
  /\ UNCHANGED <<fields, producer, batch, credit, prefix, replays, out, ended>>

Release ==
  /\ RGo("release", "notify")
  /\ bytes' = bytes - credit
  /\ credit' = 0
  /\ UNCHANGED <<items, limit, senders, closed, waker, woken, producer, batch, prefix, replays, out, ended>>

\* The end of complete: refresh may move the target, then waiting producers are notified.
NotifyWriters ==
  /\ RGo("notify", IF batch = 0 THEN "idle" ELSE "fill")
  /\ limit' \in Targets
  /\ NotifyWaiters
  /\ UNCHANGED <<items, bytes, senders, closed, waker, woken, ppc, cost, seen, sent, batch, credit,
                 prefix, replays, out, ended>>

\* recv_many takes more, replayed items first, and releases their credits together.
FillPrefix ==
  /\ rpc = "fill" /\ batch > 0 /\ prefix # <<>>
  /\ Deliver(Head(prefix)) /\ prefix' = Tail(prefix)
  /\ batch' = batch - 1
  /\ UNCHANGED <<fields, producer, rpc, credit, replays, ended>>

FillItem ==
  /\ rpc = "fill" /\ batch > 0 /\ prefix = <<>> /\ items # <<>>
  /\ Deliver(Head(items)) /\ items' = Tail(items)
  /\ credit' = credit + Head(items)[3]
  /\ batch' = batch - 1
  /\ UNCHANGED <<bytes, limit, senders, closed, waker, woken, producer, rpc, prefix, replays,
                 ended>>

FillDone ==
  /\ RGo("fill", IF credit = 0 THEN "idle" ELSE "release")
  /\ batch = 0 \/ (prefix = <<>> /\ items = <<>>)
  /\ batch' = 0
  /\ UNCHANGED <<fields, producer, credit, prefix, replays, out, ended>>

\* prepend puts the items after the n oldest delivered back in front.
Prepend(n) ==
  /\ rpc = "idle"
  /\ n < Len(out)
  /\ replays < MaxReplay
  /\ replays' = replays + 1
  /\ prefix' = SubSeq(out, n + 1, Len(out)) \o prefix
  /\ out' = SubSeq(out, 1, n)
  /\ UNCHANGED <<fields, producer, rpc, batch, credit, ended>>

DropReceiver ==
  /\ RGo("idle", "closing")
  /\ closed' = TRUE
  /\ prefix' = <<>>
  /\ UNCHANGED <<items, bytes, limit, senders, waker, woken, producer, batch, credit, replays, out, ended>>

Closing ==
  /\ rpc = "closing"
  /\ \/ DiscardOne /\ UNCHANGED rpc
     \/ items = <<>> /\ RGo("closing", "dropNotify") /\ UNCHANGED <<items, bytes>>
  /\ UNCHANGED <<limit, senders, closed, waker, woken, producer, batch, credit, prefix, replays, out, ended>>

DropNotify ==
  /\ RGo("dropNotify", "gone")
  /\ NotifyWaiters
  /\ UNCHANGED <<fields, ppc, cost, seen, sent, batch, credit, prefix, replays, out, ended>>

ReceiverStep ==
  \/ Register \/ PopEmpty \/ LoadSenders \/ EndOfStream \/ Repoll \/ TryRecvEmpty
  \/ \E from \in {"pop", "popAgain", "tryPop"} : Pop(from)
  \/ Release \/ NotifyWriters \/ FillPrefix \/ FillItem \/ FillDone \/ Closing \/ DropNotify

Next ==
  \/ \E p, q \in Producer : Clone(p, q)
  \/ \E p \in Producer, c \in Costs, await \in BOOLEAN : Send(p, c, await)
  \/ \E p \in Producer : ProducerStep(p) \/ CancelWait(p) \/ DropSender(p)
  \/ \E n \in 1 .. Batch : Recv(n)
  \/ TryRecv \/ CancelRecv
  \/ \E n \in 0 .. Len(out) : Prepend(n)
  \/ DropReceiver
  \/ ReceiverStep

Spec == Init /\ [][Next]_vars

\* Tasks are polled when they are woken, and a poll runs to its end.  The liveness properties
\* also suppose a receiver that keeps receiving or is dropped, as every adapter's loop does.
Fairness ==
  /\ \A p \in Producer : WF_vars(ProducerStep(p))
  /\ WF_vars(ReceiverStep)
  /\ SF_vars(\E n \in 1 .. Batch : Recv(n))

FairSpec == Spec /\ Fairness

-----------------------------------------------------------------------------
(* Properties.                                                              *)

Holding(p) == ppc[p] \in {"recheck", "permit", "push"}
Holders    == {p \in Producer : Holding(p)}

\* Every credit in use belongs to exactly one queued item, one permit or the item that the
\* receiver is completing: none leaks and none is released twice, also when the queue closes
\* while items are published and discarded from both ends.
CreditConservation ==
  bytes = FoldSeq(LAMBDA m, sum : m[3] + sum, 0, items) + MapThenSumSet(LAMBDA p : cost[p], Holders)
            + credit

\* Only an otherwise empty queue admits an item larger than every target
\* (docs/tun-buffering.md): beyond the target there is a single holder of credits.
OversizeIsAlone ==
  (\A t \in Targets : bytes > t)
    => Len(items) + Cardinality(Holders) + (IF credit > 0 THEN 1 ELSE 0) = 1

\* After the receiver is dropped, no item and no credit remains once the calls in progress
\* have returned, so nothing is retained by a producer that keeps its Sender.
ClosedKeepsNothing ==
  rpc = "gone" /\ (\A p \in Producer : ppc[p] \in {"absent", "ready", "waiting", "gone"})
    => items = <<>> /\ bytes = 0

\* The channel that the queue implements: replayed items come first, and a closed one is empty.
Abstract ==
  INSTANCE Channel WITH queue <- IF closed THEN <<>> ELSE prefix \o items, delivered <- out,
                        sending <- senders > 0, receiving <- ~closed


\* A receiver that sleeps in recv continues once an item or the end of the stream is there.
ReceiverProceeds == (rpc = "asleep" /\ (items # <<>> \/ senders = 0)) ~> rpc # "asleep"

\* A producer in send does not wait for capacity forever while the receiver keeps receiving.
SenderProceeds == \A p \in Producer : ppc[p] = "waiting" ~> ppc[p] # "waiting"
=============================================================================
