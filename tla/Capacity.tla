------------------------------ MODULE Capacity ------------------------------
(***************************************************************************)
(* The capacity feedback of crates/protocol/src/queue.rs as one owner sees *)
(* it: struct Capacity.  The target follows TARGET_DELAY of the measured   *)
(* consumption, sampled at most once per FEEDBACK_INTERVAL, and decays by  *)
(* halving for every interval that passed.                                 *)
(***************************************************************************)
EXTENDS Integers

CONSTANTS Initial,    \* the initial target, below which it never falls
          Delay,      \* TARGET_DELAY
          Interval,   \* FEEDBACK_INTERVAL
          MaxUsize,   \* usize::MAX
          Bits,       \* usize::BITS
          Amounts,    \* credits that one completion may return
          Now         \* readings of the clock since the queue was created

VARIABLES target, completed, epoch

cvars == <<target, completed, epoch>>

AtMost(m, n)  == IF m <= n THEN m ELSE n
AtLeast(m, n) == IF m >= n THEN m ELSE n

Sample(bytes, elapsed) == AtMost((bytes * Delay) \div elapsed, MaxUsize)
Periods(elapsed) == AtMost(elapsed \div Interval, Bits - 1)

NextTarget(old, bytes, elapsed) ==
  AtLeast(AtLeast(Sample(bytes, elapsed), old \div 2 ^ Periods(elapsed)), Initial)

CapacityInit == target = Initial /\ completed = 0 /\ epoch = 0

\* Capacity::target, when an interval has passed.
Refresh(now) ==
  /\ now - epoch >= Interval
  /\ target' = NextTarget(target, completed, now - epoch)
  /\ completed' = 0
  /\ epoch' = now

\* The end of Capacity::complete.
Count(bytes) ==
  /\ completed' = completed + bytes
  /\ UNCHANGED <<target, epoch>>

CapacityNext == (\E now \in Now : Refresh(now)) \/ (\E bytes \in Amounts : Count(bytes))

CapacitySpec == CapacityInit /\ [][CapacityNext]_cvars
=============================================================================
