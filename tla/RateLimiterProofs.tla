------------------------- MODULE RateLimiterProofs -------------------------
(***************************************************************************)
(* The budget of RateLimiter, proved for every limit, window and number of *)
(* requests.                                                               *)
(*                                                                         *)
(* A bucket's counter is at least the number of requests it admitted in    *)
(* the last Window ticks (Recent), because it cannot have expired after    *)
(* the first of them: every hit, also one that is rejected, extends it.    *)
(***************************************************************************)
EXTENDS RateLimiter, FiniteSetTheorems, TLAPS

USE RequestsAssumption, LimitAssumption, WindowAssumption

\* The requests b admitted less than a window ago.
Recent(b) ==
    {r \in Requests : verdict[r] = "admitted" /\ stamp[r] = b /\ now < hitAt[r] + Window}

HitsArePast == \A r \in Requests : hitAt[r] <= now

\* A request that was counted has a bucket, which outlives it by a window.
HitsExtend ==
    \A r \in Requests : verdict[r] # "open" =>
        stamp[r] \in Bucket /\ hitAt[r] + Window <= expires[stamp[r]]

CountCovers == \A b \in Bucket : now < expires[b] => Cardinality(Recent(b)) <= count[b]

IInv == TypeOKLimiter /\ HitsArePast /\ HitsExtend /\ CountCovers /\ SpanBudget

\* One more element makes a finite set at most one larger.
LEMMA OneMore ==
  ASSUME NEW S, NEW x, IsFiniteSet(S)
  PROVE  IsFiniteSet(S \cup {x}) /\ Cardinality(S \cup {x}) <= Cardinality(S) + 1
  <1>1. Cardinality(S) \in Nat
    BY FS_CardinalityType
  <1>2. /\ IsFiniteSet(S \cup {x})
        /\ Cardinality(S \cup {x}) = IF x \in S THEN Cardinality(S) ELSE Cardinality(S) + 1
    BY FS_AddElement, Zenon
  <1> QED BY <1>1, <1>2

LEMMA RecentFinite == \A b : IsFiniteSet(Recent(b))
  <1>1. \A b : Recent(b) \subseteq Requests
    BY DEF Recent
  <1> QED BY <1>1, FS_Subset

LEMMA AdmittedFinite == \A b, t : IsFiniteSet(AdmittedIn(b, t))
  <1>1. \A b, t : AdmittedIn(b, t) \subseteq Requests
    BY DEF AdmittedIn
  <1> QED BY <1>1, FS_Subset

\* What is recent before a hit is covered by what the bucket counts after it.
LEMMA RecentBelowIncremented ==
  ASSUME IInv, NEW b \in Bucket
  PROVE  Cardinality(Recent(b)) + 1 <= Incremented(b)
  <1>1. CASE now < expires[b]
    <2>1. Cardinality(Recent(b)) <= count[b]
      BY <1>1 DEF IInv, CountCovers
    <2>2. Cardinality(Recent(b)) \in Nat /\ count[b] \in Nat
      BY RecentFinite, FS_CardinalityType DEF IInv, TypeOKLimiter
    <2> QED BY <1>1, <2>1, <2>2 DEF Incremented
  <1>2. CASE ~(now < expires[b])
    <2>1. Recent(b) = {}
      BY <1>2 DEF IInv, TypeOKLimiter, HitsExtend, Recent
    <2> QED BY <1>2, <2>1, FS_EmptySet DEF Incremented
  <1> QED BY <1>1, <1>2

LEMMA InitIInv == InitLimiter => IInv
  <1> SUFFICES ASSUME InitLimiter PROVE IInv
    OBVIOUS
  <1>1. TypeOKLimiter /\ HitsArePast /\ HitsExtend
    BY DEF InitLimiter, TypeOKLimiter, HitsArePast, HitsExtend
  <1>2. CountCovers
    BY DEF InitLimiter, CountCovers
  <1>3. SpanBudget
    <2> SUFFICES ASSUME NEW b \in Bucket, NEW t \in 0..MaxTime
                 PROVE  Cardinality(AdmittedIn(b, t)) <= Limit
      BY DEF SpanBudget
    <2>1. AdmittedIn(b, t) = {}
      BY DEF InitLimiter, AdmittedIn
    <2> QED BY <2>1, FS_EmptySet
  <1> QED BY <1>1, <1>2, <1>3 DEF IInv

\* Time only takes requests out of Recent.
LEMMA TickStep ==
  ASSUME IInv, Tick
  PROVE  IInv'
  <1> USE DEF IInv, Tick, redis
  <1>1. TypeOKLimiter'
    BY DEF TypeOKLimiter
  <1>2. HitsArePast' /\ HitsExtend'
    BY DEF TypeOKLimiter, HitsArePast, HitsExtend
  <1>3. CountCovers'
    <2> SUFFICES ASSUME NEW b \in Bucket, (now < expires[b])'
                 PROVE  Cardinality(Recent(b)') <= count'[b]
      BY DEF CountCovers
    <2>1. Recent(b)' \subseteq Recent(b)
      BY DEF TypeOKLimiter, Recent
    <2>2. Cardinality(Recent(b)') <= Cardinality(Recent(b))
      BY <2>1, RecentFinite, FS_Subset
    <2>3. Cardinality(Recent(b)) <= count[b]
      BY DEF TypeOKLimiter, CountCovers
    <2>4. IsFiniteSet(Recent(b)')
      BY <2>1, RecentFinite, FS_Subset
    <2>5. Cardinality(Recent(b)) \in Nat /\ Cardinality(Recent(b)') \in Nat /\ count[b] \in Nat
      BY <2>4, RecentFinite, FS_CardinalityType DEF TypeOKLimiter
    <2> QED BY <2>2, <2>3, <2>5
  <1>4. SpanBudget'
    BY DEF SpanBudget, AdmittedIn
  <1> QED BY <1>1, <1>2, <1>3, <1>4

\* A request that only names its bucket is not counted yet.
LEMMA StampStep ==
  ASSUME IInv, NEW r \in Requests, NEW k \in Key, Stamp(r, k)
  PROVE  IInv'
  <1> USE DEF IInv, Stamp, redis
  <1>1. [key |-> k, window |-> now \div Window] \in Bucket
    <2>1. now \div Window \in 0..MaxTime
      BY DEF TypeOKLimiter
    <2> QED BY <2>1 DEF Bucket
  <1>2. TypeOKLimiter'
    BY <1>1 DEF TypeOKLimiter
  <1>3. verdict[r] = "open"
    BY NoBucketAssumption DEF TypeOKLimiter, HitsExtend
  <1>4. HitsArePast' /\ HitsExtend'
    BY <1>3 DEF TypeOKLimiter, HitsArePast, HitsExtend
  <1>5. \A b \in Bucket : Recent(b)' = Recent(b)
    BY <1>3 DEF TypeOKLimiter, Recent
  <1>6. CountCovers'
    BY <1>5 DEF CountCovers
  <1>7. \A b \in Bucket, t \in 0..MaxTime : AdmittedIn(b, t)' = AdmittedIn(b, t)
    BY <1>3 DEF TypeOKLimiter, AdmittedIn
  <1>8. SpanBudget'
    BY <1>7 DEF SpanBudget
  <1> QED BY <1>2, <1>4, <1>6, <1>8

\* The heart of it: whether the hit is admitted or not, its bucket's counter
\* still covers what is recent, and so the limit covers every span that ends now.
LEMMA HitStep ==
  ASSUME IInv, NEW r \in Requests, Hit(r)
  PROVE  IInv'
  <1>1. PICK b \in Bucket : b = stamp[r]
    BY DEF IInv, TypeOKLimiter, Hit
  <1>2. PICK n \in Nat : n = Incremented(b)
    BY DEF IInv, TypeOKLimiter, Incremented
  <1>3. /\ verdict[r] = "open"
        /\ count' = [count EXCEPT ![b] = n]
        /\ expires' = [expires EXCEPT ![b] = now + Window]
        /\ verdict' = [verdict EXCEPT ![r] = IF n > Limit THEN "rejected" ELSE "admitted"]
        /\ hitAt' = [hitAt EXCEPT ![r] = now]
        /\ UNCHANGED <<now, stamp>>
    BY <1>1, <1>2 DEF Hit
  <1>4. TypeOKLimiter'
    BY <1>1, <1>2, <1>3 DEF IInv, TypeOKLimiter
  <1>5. HitsArePast'
    BY <1>3 DEF IInv, TypeOKLimiter, HitsArePast
  <1>6. HitsExtend'
    BY <1>1, <1>3 DEF IInv, TypeOKLimiter, HitsArePast, HitsExtend
  <1>7. Recent(b)' \subseteq Recent(b) \cup {r}
    BY <1>3 DEF IInv, TypeOKLimiter, Recent
  <1>8. Cardinality(Recent(b)') <= n
    <2>1. Cardinality(Recent(b)) + 1 <= n
      BY <1>1, <1>2, RecentBelowIncremented
    <2>2. /\ IsFiniteSet(Recent(b) \cup {r})
          /\ Cardinality(Recent(b) \cup {r}) <= Cardinality(Recent(b)) + 1
      BY RecentFinite, OneMore
    <2>3. IsFiniteSet(Recent(b)') /\ Cardinality(Recent(b)') <= Cardinality(Recent(b) \cup {r})
      BY <1>7, <2>2, FS_Subset
    <2>4. /\ Cardinality(Recent(b)) \in Nat
          /\ Cardinality(Recent(b)') \in Nat
          /\ Cardinality(Recent(b) \cup {r}) \in Nat
      BY <2>2, <2>3, RecentFinite, FS_CardinalityType
    <2> QED BY <1>2, <2>1, <2>2, <2>3, <2>4
  <1>9. CountCovers'
    <2> SUFFICES ASSUME NEW c \in Bucket, (now < expires[c])'
                 PROVE  Cardinality(Recent(c)') <= count'[c]
      BY DEF CountCovers
    <2>1. CASE c = b
      <3>1. count'[c] = n
        BY <1>1, <1>3, <2>1 DEF IInv, TypeOKLimiter
      <3>2. Cardinality(Recent(c)') <= n
        BY <1>8, <2>1
      <3> QED BY <3>1, <3>2
    <2>2. CASE c # b
      <3>1. Recent(c)' = Recent(c)
        BY <1>1, <1>3, <2>2 DEF IInv, TypeOKLimiter, Recent
      <3>2. count'[c] = count[c] /\ now < expires[c]
        BY <1>1, <1>3, <2>2 DEF IInv, TypeOKLimiter
      <3>3. Cardinality(Recent(c)) <= count[c]
        BY <3>2 DEF IInv, CountCovers
      <3> QED BY <3>1, <3>2, <3>3
    <2> QED BY <2>1, <2>2
  <1>10. SpanBudget'
    <2> SUFFICES ASSUME NEW c \in Bucket, NEW t \in 0..MaxTime
                 PROVE  Cardinality(AdmittedIn(c, t)') <= Limit
      BY DEF SpanBudget
    <2>1. CASE r \in AdmittedIn(c, t)'
      <3>1. c = b /\ n <= Limit
        BY <1>1, <1>3, <2>1 DEF IInv, TypeOKLimiter, AdmittedIn
      <3>2. now < t + Window
        BY <1>3, <2>1 DEF IInv, TypeOKLimiter, AdmittedIn
      <3>3. AdmittedIn(c, t)' \subseteq Recent(c)'
        BY <1>3, <1>4, <3>2 DEF TypeOKLimiter, AdmittedIn, Recent
      <3>4. IsFiniteSet(Recent(c)')
        BY <1>7, <3>1, RecentFinite, FS_AddElement, FS_Subset
      <3>5. Cardinality(AdmittedIn(c, t)') <= Cardinality(Recent(c)')
        BY <3>3, <3>4, FS_Subset
      <3>6. Cardinality(Recent(c)') <= n
        BY <1>8, <3>1
      <3>7. Cardinality(AdmittedIn(c, t)') \in Nat /\ Cardinality(Recent(c)') \in Nat
        BY <3>3, <3>4, FS_Subset, FS_CardinalityType
      <3> QED BY <1>2, <3>1, <3>5, <3>6, <3>7
    <2>2. CASE r \notin AdmittedIn(c, t)'
      <3>1. AdmittedIn(c, t)' \subseteq AdmittedIn(c, t)
        BY <1>3, <2>2 DEF IInv, TypeOKLimiter, AdmittedIn
      <3>2. Cardinality(AdmittedIn(c, t)') <= Cardinality(AdmittedIn(c, t))
        BY <3>1, AdmittedFinite, FS_Subset
      <3>3. Cardinality(AdmittedIn(c, t)) <= Limit
        BY DEF IInv, SpanBudget
      <3>4. Cardinality(AdmittedIn(c, t)') \in Nat /\ Cardinality(AdmittedIn(c, t)) \in Nat
        BY <3>1, AdmittedFinite, FS_Subset, FS_CardinalityType
      <3> QED BY <3>2, <3>3, <3>4
    <2> QED BY <2>1, <2>2
  <1> QED BY <1>4, <1>5, <1>6, <1>9, <1>10 DEF IInv

LEMMA StepIInv == IInv /\ [NextLimiter]_limiter => IInv'
  <1> SUFFICES ASSUME IInv, [NextLimiter]_limiter PROVE IInv'
    OBVIOUS
  <1>1. CASE Tick
    BY <1>1, TickStep
  <1>2. CASE \E r \in Requests : Hit(r) \/ \E k \in Key : Stamp(r, k)
    BY <1>2, HitStep, StampStep
  <1>3. CASE UNCHANGED limiter
    BY <1>3 DEF limiter, redis, IInv, TypeOKLimiter, HitsArePast, HitsExtend, CountCovers,
                Recent, SpanBudget, AdmittedIn
  <1> QED BY <1>1, <1>2, <1>3 DEF NextLimiter

\* The counters, stamps and verdicts keep their types, and the counters cover
\* what their buckets admitted recently.
THEOREM LimiterInvariant == SpecLimiter => []IInv
  <1> QED BY InitIInv, StepIInv, PTL DEF SpecLimiter

\* No bucket admits more than Limit requests in any span as long as a window,
\* however late its requests reach Redis.
THEOREM SpanBudgetHolds == SpecLimiter => []SpanBudget
  <1>1. IInv => SpanBudget
    BY DEF IInv
  <1> QED BY <1>1, LimiterInvariant, PTL
=============================================================================
