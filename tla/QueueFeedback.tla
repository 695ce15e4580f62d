---------------------------- MODULE QueueFeedback ----------------------------
(***************************************************************************)
(* Shared::refresh of crates/protocol/src/queue.rs, one atomic operation   *)
(* per step: producers and the receiver refresh the target concurrently    *)
(* without a lock, and the receiver counts completions.  Module Capacity   *)
(* is the same feedback with one owner; this module shows that the         *)
(* lock-free version implements it.                                        *)
(***************************************************************************)
EXTENDS Integers, FiniteSets

CONSTANTS Thread, Receiver,
          Initial, Delay, Interval, MaxUsize, Bits, Amounts,
          MaxTime,    \* bound: readings of the clock
          MaxCount    \* bound: completions

ASSUME FeedbackAssumption ==
  /\ Receiver \in Thread
  /\ MaxUsize \in Nat /\ Initial \in 0 .. MaxUsize
  /\ Delay \in Nat /\ Interval \in Nat \ {0} /\ Bits \in Nat \ {0}
  /\ Amounts \subseteq Nat \ {0}
  /\ MaxTime \in Nat /\ MaxCount \in Nat

VARIABLES
  target, completed, updated, refreshing,  \* fields of Shared
  clock, counts,                           \* time since the epoch, completions so far
  pc, now, taken                           \* per thread: progress, clock reading, completions taken

shared == <<target, completed, updated, refreshing>>
local  == <<pc, now, taken>>
fvars  == <<shared, clock, counts, local>>

PC == {"idle", "load", "swap", "again", "take", "target", "updated", "unlock", "count"}

\* Types of the fields of Shared and the refreshing threads; the target stays a usize.
FeedbackTypeOK ==
  /\ target \in Initial .. MaxUsize /\ completed \in Nat
  /\ updated \in 0 .. clock /\ refreshing \in BOOLEAN
  /\ clock \in 0 .. MaxTime /\ counts \in 0 .. MaxCount
  /\ pc \in [Thread -> PC]
  /\ now \in [Thread -> 0 .. clock] /\ taken \in [Thread -> Nat]

FeedbackInit ==
  /\ target = Initial /\ completed = 0 /\ updated = 0 /\ refreshing = FALSE
  /\ clock = 0 /\ counts = 0
  /\ pc = [t \in Thread |-> "idle"]
  /\ now = [t \in Thread |-> 0] /\ taken = [t \in Thread |-> 0]

\* saturating_sub
Since(t) == IF now[t] >= updated THEN now[t] - updated ELSE 0

\* refresh returns: the receiver goes on to count, a producer to reserve.
Returned(t) == IF t = Receiver THEN "count" ELSE "idle"

Tick ==
  /\ clock < MaxTime
  /\ clock' = clock + 1
  /\ UNCHANGED <<shared, counts, local>>

\* try_reserve, or complete after its release of the credits.
Start(t) ==
  /\ pc[t] = "idle"
  /\ t = Receiver => counts < MaxCount
  /\ pc' = [pc EXCEPT ![t] = "load"]
  /\ now' = [now EXCEPT ![t] = clock]
  /\ UNCHANGED <<shared, clock, counts, taken>>

LoadUpdated(t) ==
  /\ pc[t] = "load"
  /\ pc' = [pc EXCEPT ![t] = IF Since(t) < Interval THEN Returned(t) ELSE "swap"]
  /\ UNCHANGED <<shared, clock, counts, now, taken>>

Swap(t) ==
  /\ pc[t] = "swap"
  /\ refreshing' = TRUE
  /\ pc' = [pc EXCEPT ![t] = IF refreshing THEN Returned(t) ELSE "again"]
  /\ UNCHANGED <<target, completed, updated, clock, counts, now, taken>>

\* Another updater may have finished between the load and the swap.
Again(t) ==
  /\ pc[t] = "again"
  /\ pc' = [pc EXCEPT ![t] = IF Since(t) >= Interval THEN "take" ELSE "unlock"]
  /\ UNCHANGED <<shared, clock, counts, now, taken>>

\* Mistake: the counter is read and reset in two operations.
TakeLoad(t) ==
  /\ pc[t] = "take"
  /\ pc' = [pc EXCEPT ![t] = "target"]
  /\ taken' = [taken EXCEPT ![t] = completed]
  /\ UNCHANGED <<shared, clock, counts, now>>

Take(t) ==
  /\ pc[t] = "take"
  /\ pc' = [pc EXCEPT ![t] = "target"]
  /\ taken' = [taken EXCEPT ![t] = completed]
  /\ completed' = 0
  /\ UNCHANGED <<target, updated, refreshing, clock, counts, now>>

C == INSTANCE Capacity WITH epoch <- updated, Now <- 0 .. MaxTime

StoreTarget(t) ==
  /\ pc[t] = "target"
  /\ pc' = [pc EXCEPT ![t] = "updated"]
  /\ target' = C!NextTarget(target, taken[t], Since(t))
  /\ UNCHANGED <<completed, updated, refreshing, clock, counts, now, taken>>

StoreUpdated(t) ==
  /\ pc[t] = "updated"
  /\ pc' = [pc EXCEPT ![t] = "unlock"]
  /\ updated' = now[t]
  /\ UNCHANGED <<target, completed, refreshing, clock, counts, now, taken>>

Unlock(t) ==
  /\ pc[t] = "unlock"
  /\ pc' = [pc EXCEPT ![t] = Returned(t)]
  /\ refreshing' = FALSE
  /\ UNCHANGED <<target, completed, updated, clock, counts, now, taken>>

\* completed.fetch_add, after the refresh.
CountCompleted(t, bytes) ==
  /\ pc[t] = "count"
  /\ pc' = [pc EXCEPT ![t] = "idle"]
  /\ completed' = completed + bytes
  /\ counts' = counts + 1
  /\ UNCHANGED <<target, updated, refreshing, clock, now, taken>>

FeedbackNext ==
  \/ Tick
  \/ \E t \in Thread :
       \/ Start(t) \/ LoadUpdated(t) \/ Swap(t) \/ Again(t) \/ Take(t)
       \/ StoreTarget(t) \/ StoreUpdated(t) \/ Unlock(t)
       \/ \E bytes \in Amounts : CountCompleted(t, bytes)

FeedbackSpec == FeedbackInit /\ [][FeedbackNext]_fvars

-----------------------------------------------------------------------------
(* Properties.                                                              *)

Updating == {t \in Thread : pc[t] \in {"again", "take", "target", "updated", "unlock"}}

\* refreshing is a lock: it is set exactly while one thread updates, although nobody waits for
\* it, and every way out of the update clears it.
OneUpdater == Cardinality(Updating) = (IF refreshing THEN 1 ELSE 0)

\* The feedback with one owner: a sample takes effect at the moment its completions are taken.
Sampling(t) == pc[t] \in {"target", "updated"}
Seen ==
  INSTANCE Capacity WITH
    target <- IF \E t \in Thread : pc[t] = "target"
              THEN LET t == CHOOSE t \in Thread : pc[t] = "target"
                   IN C!NextTarget(target, taken[t], Since(t))
              ELSE target,
    epoch <- IF \E t \in Thread : Sampling(t)
             THEN now[CHOOSE t \in Thread : Sampling(t)]
             ELSE updated,
    Now <- 0 .. MaxTime

\* However refreshes and completions interleave, the target is what the sequential feedback
\* computes: every interval is sampled once, the target is never halved twice for the same
\* interval, and no completion is lost or counted twice.
ImplementsCapacity == Seen!CapacitySpec
=============================================================================
