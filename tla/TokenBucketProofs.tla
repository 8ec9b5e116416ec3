------------------------- MODULE TokenBucketProofs -------------------------
(* Proofs, for any capacity, rate, costs and order of events, about the      *)
(* token bucket.                                                             *)
EXTENDS TokenBucket, TLAPS

-----------------------------------------------------------------------------
(* What flows in. *)

\* Two stretches of time add up.
LEMMA Flow ==
  ASSUME NEW a \in Nat, NEW b \in Nat, NEW c \in Nat, a <= b, b <= c
  PROVE  /\ (b - a) * Rate \in Nat
         /\ (c - b) * Rate \in Nat
         /\ (c - a) * Rate = (b - a) * Rate + (c - b) * Rate
<1>1. Rate \in Nat
  BY BucketAssumption
<1>2. \A x, y \in Nat : (x + y) * Rate = x * Rate + y * Rate /\ x * Rate \in Nat
  BY <1>1
<1>3. b - a \in Nat /\ c - b \in Nat /\ c - a = (b - a) + (c - b)
  OBVIOUS
<1> QED
  BY <1>2, <1>3

LEMMA Inflow ==
  ASSUME NEW a \in Nat, NEW b \in Nat, a <= b
  PROVE  (b - a) * Rate \in Nat
<1>1. b <= b
  OBVIOUS
<1> QED
  BY <1>1, Flow

\* The refill at a reading of the clock, and the time it leaves.
LEMMA RefillFlow ==
  ASSUME TypeOK, NEW at \in Time
  PROVE  /\ Stamp(at) \in Time /\ updated <= Stamp(at)
         /\ (Stamp(at) - updated) * Rate \in Nat
         /\ Refill(at) = Least(Capacity, tokens + (Stamp(at) - updated) * Rate)
         /\ Refill(at) \in 0..Capacity
<1>0. /\ Capacity \in Nat /\ Rate \in Nat /\ MaxTime \in Nat
      /\ tokens \in 0..Capacity /\ updated \in Nat /\ at \in Nat
      /\ updated \in Time
  BY BucketAssumption DEF TypeOK, Time
<1>1. CASE at <= updated
  <2>1. Stamp(at) = updated /\ Refill(at) = tokens
    BY <1>1 DEF Stamp, Refill
  <2>2. (Stamp(at) - updated) * Rate = 0
    BY <1>0, <2>1
  <2> QED
    BY <1>0, <2>1, <2>2 DEF Least
<1>2. CASE ~(at <= updated)
  <2>1. Stamp(at) = at /\ Refill(at) = Least(Capacity, tokens + (at - updated) * Rate)
    BY <1>2 DEF Stamp, Refill
  <2>2. (at - updated) * Rate \in Nat
    BY <1>0, <1>2, Flow
  <2> QED
    BY <1>0, <1>2, <2>1, <2>2 DEF Least
<1> QED
  BY <1>1, <1>2

-----------------------------------------------------------------------------
(* Type correctness. *)

LEMMA InitType == Init => TypeOK
  BY BucketAssumption DEF Init, TypeOK, Time

LEMMA TakeType ==
  ASSUME TypeOK, NEW at \in Time, NEW cost \in Cost, Take(at, cost)
  PROVE  TypeOK'
<1>0. cost \in Nat /\ cost # 0 /\ Capacity \in Nat
  BY BucketAssumption
<1>1. Stamp(at) \in Time /\ Refill(at) \in 0..Capacity
  BY RefillFlow
<1>2. CASE Allow(at, cost)
  <2>1. tokens' \in 0..Capacity /\ updated' \in Time /\ emptied' \in Time
    <3>1. /\ cost <= Refill(at) /\ tokens' = Refill(at) - cost
          /\ updated' = Stamp(at) /\ emptied' = updated'
      BY <1>2 DEF Allow, Covers
    <3> HIDE DEF Refill, Stamp
    <3> QED
      BY <1>0, <1>1, <3>1
  <2>2. since' \in [Time -> Nat]
    BY <1>0, <1>2 DEF Allow, TypeOK
  <2> QED
    BY <2>1, <2>2 DEF TypeOK
<1>3. CASE Deny(at, cost)
  BY <1>1, <1>3 DEF Deny, TypeOK
<1> QED
  BY <1>2, <1>3 DEF Take

\* The bucket neither runs into debt nor over its rim.
THEOREM BucketTypeCorrect == Spec => []TypeOK
<1>1. TypeOK /\ [Next]_vars => TypeOK'
  BY TakeType DEF Next, vars, TypeOK
<1> QED
  BY <1>1, InitType, PTL DEF Spec

-----------------------------------------------------------------------------
(* No more is let through than flows in. *)

\* What is in the bucket and what was let through since t came from one full bucket
\* and from what flowed in since t; nothing was let through after the bucket's time.
SpendInv ==
  /\ \A t \in Time : t <= updated => tokens + since[t] <= Capacity + (updated - t) * Rate
  /\ \A t \in Time : t > updated => since[t] = 0

\* A refill, before anything is taken, keeps the account.
LEMMA RefillSpend ==
  ASSUME TypeOK, SpendInv, NEW at \in Time, NEW t \in Time, t <= Stamp(at)
  PROVE  Refill(at) + since[t] <= Capacity + (Stamp(at) - t) * Rate
<1> DEFINE u == Stamp(at)
           r == Refill(at)
           f == (u - updated) * Rate
<1>0. /\ Capacity \in Nat /\ Rate \in Nat /\ updated \in Nat /\ t \in Nat /\ tokens \in Nat
      /\ since[t] \in Nat
  BY BucketAssumption DEF TypeOK, Time
<1>1. u \in Nat /\ updated <= u /\ f \in Nat /\ r = Least(Capacity, tokens + f) /\ r \in Nat
  BY RefillFlow DEF Time
<1> HIDE DEF r
<1>2. r <= Capacity /\ r <= tokens + f
  BY <1>0, <1>1 DEF Least
<1>3. CASE t <= updated
  <2>1. tokens + since[t] <= Capacity + (updated - t) * Rate
    BY <1>3 DEF SpendInv
  <2>2. (u - t) * Rate = (updated - t) * Rate + f /\ (updated - t) * Rate \in Nat
    BY <1>0, <1>1, <1>3, Flow
  <2> HIDE DEF u, f
  <2>3. r + since[t] <= Capacity + (u - t) * Rate
    <3> DEFINE p == (updated - t) * Rate
               q == (u - t) * Rate
    <3>1. q = p + f /\ p \in Nat /\ tokens + since[t] <= Capacity + p
      BY <2>1, <2>2
    <3> HIDE DEF p, q
    <3>2. r + since[t] <= Capacity + q
      BY <1>0, <1>1, <1>2, <3>1
    <3> QED
      BY <3>2 DEF q
  <2> QED
    BY <2>3 DEF r, u
<1>4. CASE ~(t <= updated)
  <2>1. since[t] = 0
    BY <1>0, <1>4 DEF SpendInv
  <2>2. (u - t) * Rate \in Nat
    BY <1>0, <1>1, Flow
  <2> QED
    BY <1>0, <1>1, <1>2, <2>1, <2>2 DEF r
<1> QED
  BY <1>3, <1>4

LEMMA TakeSpend ==
  ASSUME TypeOK, SpendInv, NEW at \in Time, NEW cost \in Cost, Take(at, cost)
  PROVE  SpendInv'
<1>0. /\ cost \in Nat /\ Capacity \in Nat /\ Refill(at) \in Nat /\ updated \in Nat
      /\ Stamp(at) \in Nat /\ updated <= Stamp(at) /\ updated' = Stamp(at)
  BY BucketAssumption, RefillFlow DEF Take, Allow, Deny, TypeOK, Time
<1>t. Time \subseteq Nat /\ \A t \in Time : since[t] \in Nat
  BY DEF TypeOK, Time
<1>1. ASSUME NEW t \in Time, t <= updated'
      PROVE  tokens' + since'[t] <= Capacity + (updated' - t) * Rate
  <2> DEFINE q == (updated' - t) * Rate
  <2>1. Refill(at) + since[t] <= Capacity + q
    BY <1>0, <1>1, RefillSpend
  <2>2. CASE Allow(at, cost)
    <3>1. tokens' = Refill(at) - cost /\ since'[t] = since[t] + cost
      BY <1>1, <2>2 DEF Allow
    <3>2. tokens' + since'[t] = Refill(at) + since[t]
      <4> HIDE DEF Refill
      <4> QED
        BY <1>0, <1>t, <3>1
    <3> QED
      BY <2>1, <3>2
  <2>3. CASE Deny(at, cost)
    BY <2>1, <2>3 DEF Deny
  <2> QED
    BY <2>2, <2>3 DEF Take
<1>2. ASSUME NEW t \in Time, t > updated' PROVE since'[t] = 0
  <2>1. t > updated /\ ~(t <= updated')
    BY <1>0, <1>t, <1>2
  <2>2. since[t] = 0
    BY <2>1 DEF SpendInv
  <2>3. since'[t] = since[t]
    BY <2>1 DEF Take, Allow, Deny
  <2> QED
    BY <2>2, <2>3
<1> QED
  BY <1>1, <1>2 DEF SpendInv

\* From any time on at most a full bucket and the inflow are let through.
THEOREM SpendCorrect == Spec => []NeverOverspends
<1>1. Init => SpendInv
  <2> SUFFICES ASSUME Init, NEW t \in Time
               PROVE  /\ t <= updated => tokens + since[t] <= Capacity + (updated - t) * Rate
                      /\ since[t] = 0
    BY DEF SpendInv
  <2>1. t \in Nat /\ updated \in Nat /\ Capacity \in Nat /\ tokens = Capacity /\ since[t] = 0
    BY BucketAssumption DEF Init, Time
  <2>2. t <= updated => (updated - t) * Rate \in Nat
    BY <2>1, Inflow
  <2> QED
    BY <2>1, <2>2
<1>2. TypeOK /\ SpendInv /\ [Next]_vars => SpendInv'
  BY TakeSpend DEF Next, vars, SpendInv
<1>3. TypeOK /\ SpendInv => NeverOverspends
  <2> SUFFICES ASSUME TypeOK, SpendInv, NEW t \in Time, t <= updated
               PROVE  since[t] <= Capacity + (updated - t) * Rate
    BY DEF NeverOverspends
  <2>1. /\ tokens \in Nat /\ since[t] \in Nat /\ Capacity \in Nat
        /\ t \in Nat /\ updated \in Nat
    BY BucketAssumption DEF TypeOK, Time
  <2>2. (updated - t) * Rate \in Nat
    BY <2>1, Inflow
  <2>3. tokens + since[t] <= Capacity + (updated - t) * Rate
    BY DEF SpendInv
  <2> QED
    BY <2>1, <2>2, <2>3
<1>4. TypeOK /\ [Next]_vars => TypeOK'
  BY TakeType DEF Next, vars, TypeOK
<1> QED
  BY <1>1, <1>2, <1>3, <1>4, InitType, PTL DEF Spec

-----------------------------------------------------------------------------
(* Denials are earned. *)

\* The bucket holds at least what flowed in since it was last taken from.
RecoverInv ==
  /\ emptied <= updated
  /\ Least(Capacity, (updated - emptied) * Rate) <= tokens

\* A refill keeps that up.
LEMMA RefillRecovers ==
  ASSUME TypeOK, RecoverInv, NEW at \in Time
  PROVE  Least(Capacity, (Stamp(at) - emptied) * Rate) <= Refill(at)
<1> DEFINE u == Stamp(at)
           f == (u - updated) * Rate
           p == (updated - emptied) * Rate
           q == (u - emptied) * Rate
<1>0. Capacity \in Nat /\ updated \in Nat /\ emptied \in Nat /\ tokens \in Nat
  BY BucketAssumption DEF TypeOK, Time
<1>1. u \in Nat /\ updated <= u /\ f \in Nat /\ Refill(at) = Least(Capacity, tokens + f)
  BY RefillFlow DEF Time
<1>2. q = p + f /\ p \in Nat
  BY <1>0, <1>1, Flow DEF RecoverInv
<1>3. Least(Capacity, p) <= tokens
  BY DEF RecoverInv
<1> HIDE DEF u, f, p, q
<1>4. Least(Capacity, q) <= Least(Capacity, tokens + f)
  BY <1>0, <1>1, <1>2, <1>3 DEF Least
<1> QED
  BY <1>1, <1>4 DEF q, u

LEMMA TakeRecovers ==
  ASSUME TypeOK, RecoverInv, NEW at \in Time, NEW cost \in Cost, Take(at, cost)
  PROVE  RecoverInv'
<1>0. /\ Capacity \in Nat /\ updated \in Nat /\ emptied \in Nat /\ Rate \in Nat
      /\ Stamp(at) \in Nat /\ updated <= Stamp(at) /\ updated' = Stamp(at)
  BY BucketAssumption, RefillFlow DEF Take, Allow, Deny, TypeOK, Time
<1>1. CASE Allow(at, cost)
  <2>1. emptied' = updated' /\ tokens' \in Nat
    BY <1>1, TakeType DEF Allow, TypeOK, Take
  <2>2. (updated' - emptied') * Rate = 0
    BY <1>0, <2>1
  <2> QED
    BY <1>0, <2>1, <2>2 DEF RecoverInv, Least
<1>2. CASE Deny(at, cost)
  <2>1. tokens' = Refill(at) /\ emptied' = emptied
    BY <1>2 DEF Deny
  <2>2. emptied' <= updated'
    BY <1>0, <2>1 DEF RecoverInv
  <2>3. Least(Capacity, (updated' - emptied') * Rate) <= tokens'
    BY <1>0, <2>1, RefillRecovers
  <2> QED
    BY <2>2, <2>3 DEF RecoverInv
<1> QED
  BY <1>1, <1>2 DEF Take

\* A refused take that fits the bucket asked for more than flowed in since the last
\* take that was let through.
THEOREM DenialCorrect == Spec => DenialIsEarned
<1>1. Init => RecoverInv
  <2> SUFFICES ASSUME Init PROVE RecoverInv
    OBVIOUS
  <2>1. updated \in Nat /\ Capacity \in Nat /\ Rate \in Nat /\ tokens = Capacity /\ emptied = updated
    BY BucketAssumption DEF Init, Time
  <2>2. (updated - emptied) * Rate = 0
    BY <2>1
  <2> QED
    BY <2>1, <2>2 DEF RecoverInv, Least
<1>2. TypeOK /\ RecoverInv /\ [Next]_vars => RecoverInv'
  BY TakeRecovers DEF Next, vars, RecoverInv
<1>3. ASSUME TypeOK, RecoverInv, NEW at \in Time, NEW cost \in Cost,
             Deny(at, cost), cost <= Capacity
      PROVE  (updated' - emptied) * Rate < cost
  <2> DEFINE q == (Stamp(at) - emptied) * Rate
  <2>0. /\ Capacity \in Nat /\ cost \in Nat /\ updated \in Nat /\ emptied \in Nat
        /\ Stamp(at) \in Nat /\ updated <= Stamp(at) /\ Refill(at) \in Nat
    BY <1>3, BucketAssumption, RefillFlow DEF TypeOK, Time
  <2>1. ~(cost <= Refill(at)) /\ updated' = Stamp(at)
    BY <1>3 DEF Deny, Covers
  <2>2. Least(Capacity, q) <= Refill(at)
    BY <1>3, RefillRecovers
  <2>3. q \in Nat
    <3>1. emptied <= Stamp(at)
      BY <1>3, <2>0 DEF RecoverInv
    <3> QED
      BY <2>0, <3>1, Inflow
  <2>4. q < cost
    <3> HIDE DEF q, Refill
    <3> QED
      BY <1>3, <2>0, <2>1, <2>2, <2>3 DEF Least
  <2> QED
    BY <2>1, <2>4
<1>4. TypeOK /\ RecoverInv =>
        [\A at \in Time, cost \in Cost :
           Deny(at, cost) /\ cost <= Capacity => (updated' - emptied) * Rate < cost]_vars
  BY <1>3
<1>5. TypeOK /\ [Next]_vars => TypeOK'
  BY TakeType DEF Next, vars, TypeOK
<1> QED
  BY <1>1, <1>2, <1>4, <1>5, InitType, PTL DEF Spec, DenialIsEarned

=============================================================================
