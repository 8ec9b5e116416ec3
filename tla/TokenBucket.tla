---------------------------- MODULE TokenBucket ----------------------------
(***************************************************************************)
(* The token bucket of kits/safe-helpers/token_bucket.py, replayed over      *)
(* events in whatever order they are given: the clock a take reads may stand *)
(* still, jump ahead or step back.  Tokens, costs and the refill are counted *)
(* in one smallest unit, so the rounding of floats is left out.             *)
(***************************************************************************)
EXTENDS Naturals

CONSTANTS
  Capacity,   \* capacity
  Rate,       \* refill_per_second
  Cost,       \* costs of the events
  MaxTime     \* bound: readings of the clock

ASSUME BucketAssumption ==
  /\ Capacity \in Nat \ {0}
  /\ Rate \in Nat
  /\ Cost \subseteq Nat \ {0}
  /\ MaxTime \in Nat

VARIABLES
  tokens,    \* _tokens
  updated,   \* _updated
  \* history, read by no guard
  since,     \* cost let through while _updated stood at or after each time
  emptied    \* _updated at the last take that was let through

vars == <<tokens, updated, since, emptied>>

Time == 0..MaxTime

\* A bucket starts full, at the time of the first event.
Init ==
  /\ tokens = Capacity
  /\ updated \in Time
  /\ since = [t \in Time |-> 0]
  /\ emptied = updated

-----------------------------------------------------------------------------
Least(a, b) == IF a <= b THEN a ELSE b

\* Mutant: the refill forgets what was left.
RefillFresh(at) ==
  IF at <= updated THEN tokens ELSE Least(Capacity, (at - updated) * Rate)

\* _refill: nothing happens unless the clock is ahead of the last reading.
Refill(at) ==
  IF at <= updated THEN tokens ELSE Least(Capacity, tokens + (at - updated) * Rate)

\* Mutant: the clock's reading is kept even when it went back.
StampAlways(at) == at

Stamp(at) == IF at <= updated THEN updated ELSE at

Covers(held, cost) == cost <= Capacity /\ cost <= held

Allow(at, cost) ==
  /\ Covers(Refill(at), cost)
  /\ tokens' = Refill(at) - cost
  /\ updated' = Stamp(at)
  /\ since' = [t \in Time |-> IF t <= updated' THEN since[t] + cost ELSE since[t]]
  /\ emptied' = updated'

\* A refused take keeps the refill.
Deny(at, cost) ==
  /\ ~Covers(Refill(at), cost)
  /\ tokens' = Refill(at)
  /\ updated' = Stamp(at)
  /\ UNCHANGED <<since, emptied>>

Take(at, cost) == Allow(at, cost) \/ Deny(at, cost)

Next == \E at \in Time, cost \in Cost : Take(at, cost)

Spec == Init /\ [][Next]_vars

-----------------------------------------------------------------------------
(* Properties. *)

\* The bucket holds between nothing and its capacity, and its time is a reading of
\* the clock.
TypeOK ==
  /\ tokens \in 0..Capacity
  /\ updated \in Time
  /\ since \in [Time -> Nat]
  /\ emptied \in Time

\* From any time on, no more is let through than one full bucket and what flows in
\* from that time, whatever the order of events and wherever the clock jumps.
NeverOverspends ==
  \A t \in Time : t <= updated => since[t] <= Capacity + (updated - t) * Rate

\* A take that fits the bucket is refused only while the bucket still recovers from
\* the last take that was let through: refused takes, however many, do not delay it.
DenialIsEarned ==
  [][\A at \in Time, cost \in Cost :
       Deny(at, cost) /\ cost <= Capacity => (updated' - emptied) * Rate < cost]_vars

=============================================================================
