---------------------------- MODULE RateLimiter ----------------------------
(***************************************************************************)
(* The fixed-window limiter of core/rate_limit.py: a counter in Redis for  *)
(* every scope, client address and window of the clock.                    *)
(*                                                                         *)
(* A request reads the clock, which names its bucket, and then awaits      *)
(* Redis; any time may pass in between.  INCR and EXPIRE run as one Redis  *)
(* transaction.  A bucket that expired counts from one again.              *)
(***************************************************************************)
EXTENDS Naturals, FiniteSets

CONSTANTS
    Requests,   \* request ids, each used for one call
    Addresses,  \* client addresses
    Limit,      \* requests a bucket admits (RATE_LIMIT_PER_MINUTE)
    Window,     \* window_seconds, in ticks
    MaxTime,    \* bound on the clock
    NoBucket

ASSUME RequestsAssumption == IsFiniteSet(Requests)
ASSUME LimitAssumption == Limit \in Nat
ASSUME WindowAssumption == Window \in Nat \ {0} /\ MaxTime \in Nat

Scope == {"chat", "chat_stream"}
Key == [scope : Scope, address : Addresses]
Bucket == [key : Key, window : 0..MaxTime]

ASSUME NoBucketAssumption == NoBucket \notin Bucket

VARIABLES
    now,      \* the clock of the API process and of Redis
    count,    \* [Bucket -> Nat]: the counters in Redis
    expires,  \* [Bucket -> Nat]: when each counter disappears
    stamp,    \* [Requests -> Bucket]: the bucket the request named
    verdict,  \* [Requests -> {"open", "admitted", "rejected"}]
    hitAt     \* [Requests -> Nat]: when Redis counted the request

redis == <<count, expires>>
limiter == <<now, redis, stamp, verdict, hitAt>>

InitLimiter ==
    /\ now = 0
    /\ count = [b \in Bucket |-> 0]
    /\ expires = [b \in Bucket |-> 0]
    /\ stamp = [r \in Requests |-> NoBucket]
    /\ verdict = [r \in Requests |-> "open"]
    /\ hitAt = [r \in Requests |-> 0]

Tick ==
    /\ now < MaxTime
    /\ now' = now + 1
    /\ UNCHANGED <<redis, stamp, verdict, hitAt>>

\* int(time.time() // window_seconds) names the bucket.
Stamp(r, key) ==
    /\ stamp[r] = NoBucket
    /\ stamp' = [stamp EXCEPT ![r] = [key |-> key, window |-> now \div Window]]
    /\ UNCHANGED <<now, redis, verdict, hitAt>>

Incremented(b) == IF now < expires[b] THEN count[b] + 1 ELSE 1

\* Mutant of Hit: the bucket disappears when its window ends.
HitUntilWindowEnds(r) ==
    /\ stamp[r] # NoBucket
    /\ verdict[r] = "open"
    /\ LET b == stamp[r] IN
         /\ count' = [count EXCEPT ![b] = Incremented(b)]
         /\ expires' = [expires EXCEPT ![b] = (b.window + 1) * Window]
         /\ verdict' = [verdict EXCEPT ![r] =
                           IF Incremented(b) > Limit THEN "rejected" ELSE "admitted"]
    /\ hitAt' = [hitAt EXCEPT ![r] = now]
    /\ UNCHANGED <<now, stamp>>

\* INCR, EXPIRE, and the comparison with the limit.
Hit(r) ==
    /\ stamp[r] # NoBucket
    /\ verdict[r] = "open"
    /\ LET b == stamp[r] IN
         /\ count' = [count EXCEPT ![b] = Incremented(b)]
         /\ expires' = [expires EXCEPT ![b] = now + Window]
         /\ verdict' = [verdict EXCEPT ![r] =
                           IF Incremented(b) > Limit THEN "rejected" ELSE "admitted"]
    /\ hitAt' = [hitAt EXCEPT ![r] = now]
    /\ UNCHANGED <<now, stamp>>

NextLimiter == Tick \/ \E r \in Requests : Hit(r) \/ \E k \in Key : Stamp(r, k)

SpecLimiter == InitLimiter /\ [][NextLimiter]_limiter

-----------------------------------------------------------------------------
TypeOKLimiter ==
    /\ now \in 0..MaxTime
    /\ count \in [Bucket -> Nat]
    /\ expires \in [Bucket -> Nat]
    /\ stamp \in [Requests -> Bucket \cup {NoBucket}]
    /\ verdict \in [Requests -> {"open", "admitted", "rejected"}]
    /\ hitAt \in [Requests -> 0..MaxTime]

\* The requests a bucket admitted in the Window ticks that start with t.
AdmittedIn(b, t) ==
    {r \in Requests : /\ verdict[r] = "admitted"
                      /\ stamp[r] = b
                      /\ t <= hitAt[r]
                      /\ hitAt[r] < t + Window}

\* However long requests wait for Redis, and although late ones reach a bucket
\* whose window is over or which has expired in the meantime, no bucket admits
\* more than Limit of them in any span as long as a window.
SpanBudget == \A b \in Bucket, t \in 0..MaxTime : Cardinality(AdmittedIn(b, t)) <= Limit
=============================================================================
