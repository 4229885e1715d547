---------------------------- MODULE TokenBucket ----------------------------
(***************************************************************************)
(* ratelimit.MemoryLimiter, one bucket of tokens per client, with the      *)
(* goroutine that forgets idle buckets, and RateLimitPlugin.Execute, which *)
(* asks it with requests_per_second as the limit and one second as the     *)
(* window; the burst that its Init reads is not used.  Allow and cleanup   *)
(* hold the mutex and are atomic.                                          *)
(*                                                                         *)
(* The clock ticks Window times in a window.  Tokens are counted in parts: *)
(* Window parts are a token, and a tick brings Limit parts, which is       *)
(* exact where the code rounds floats.                                     *)
(***************************************************************************)
EXTENDS Integers

CONSTANTS Clients,
          Limit,      \* requests_per_second
          Window,     \* ticks in a window
          TTL,        \* bucketTTL
          Interval,   \* cleanupInterval
          MaxTime     \* bound on the clock

TokenBucketConstants ==
    /\ Limit \in Nat \ {0}
    /\ Window \in Nat \ {0} /\ Interval \in Nat \ {0} /\ MaxTime \in Nat
    /\ TTL \in Nat /\ TTL >= Window

VARIABLES
    now,
    due,      \* when the cleanup ticker fires next
    buckets,  \* buckets[c]: a bucket, or NoBucket
    since,    \* since[c][t]: how many requests of c were allowed at t or later
    last      \* the latest answer

vars == <<now, due, buckets, since, last>>

Times == 0 .. MaxTime
Bucket == [tokens: Int, lastCheck: Times, lastAccess: Times]
NoBucket == [tokens |-> -1, lastCheck |-> 0, lastAccess |-> 0]
Full == Limit * Window

TypeOK ==
    /\ now \in Times
    /\ due \in Nat
    /\ buckets \in [Clients -> Bucket]
    /\ \A c \in Clients : buckets[c] = NoBucket \/ buckets[c].tokens \in 0 .. Full
    /\ since \in [Clients -> [Times -> Nat]]
    /\ last \in [client: Clients, at: Times, allowed: BOOLEAN]

(* NewMemoryLimiter                                                        *)
Init ==
    /\ now = 0
    /\ due = Interval
    /\ buckets = [c \in Clients |-> NoBucket]
    /\ since = [c \in Clients |-> [t \in Times |-> 0]]
    /\ last \in [client: Clients, at: {0}, allowed: {TRUE}]

-----------------------------------------------------------------------------
\* Mutant: the refill is not capped at the limit.
RefillUncapped(b) == b.tokens + (now - b.lastCheck) * Limit

Refill(b) ==
    LET refilled == b.tokens + (now - b.lastCheck) * Limit
    IN  IF refilled > Full THEN Full ELSE refilled

\* Mutant: a bucket must hold more than one token.
EnoughStrict(tokens) == tokens > Window

Enough(tokens) == tokens >= Window

(* MemoryLimiter.Allow: an unknown client has a full bucket.               *)
Allow(c) ==
    LET b == IF buckets[c] = NoBucket
             THEN [tokens |-> Full, lastCheck |-> now, lastAccess |-> now]
             ELSE buckets[c]
        tokens == Refill(b)
        ok == Enough(tokens)
    IN  /\ buckets' = [buckets EXCEPT ![c] =
              [tokens |-> IF ok THEN tokens - Window ELSE tokens,
               lastCheck |-> now, lastAccess |-> now]]
        /\ since' = [since EXCEPT ![c] =
              [t \in Times |-> IF ok /\ t <= now THEN @[t] + 1 ELSE @[t]]]
        /\ last' = [client |-> c, at |-> now, allowed |-> ok]

(* RateLimitPlugin.Execute: the memory limiter has no errors; a request    *)
(* without an address is not limited and reaches no bucket.                *)
Execute(c) ==
    /\ Allow(c)
    /\ UNCHANGED <<now, due>>

\* Mutant: buckets are forgotten at once, empty or not.
CleanupAll ==
    /\ now >= due
    /\ due' = now + Interval
    /\ buckets' = [c \in Clients |-> IF buckets[c].lastAccess < now THEN NoBucket ELSE buckets[c]]
    /\ UNCHANGED <<now, since, last>>

\* Mutant: buckets are looked at again only after the time to live.
CleanupLate ==
    /\ now >= due
    /\ due' = now + Interval + TTL
    /\ buckets' = [c \in Clients |->
          IF now - buckets[c].lastAccess > TTL THEN NoBucket ELSE buckets[c]]
    /\ UNCHANGED <<now, since, last>>

(* runCleanup and cleanup                                                  *)
Cleanup ==
    /\ now >= due
    /\ due' = now + Interval
    /\ buckets' = [c \in Clients |->
          IF now - buckets[c].lastAccess > TTL THEN NoBucket ELSE buckets[c]]
    /\ UNCHANGED <<now, since, last>>

(* Time passes; the ticker is never late by a whole unit of the clock.     *)
Tick ==
    /\ now < MaxTime
    /\ now < due
    /\ now' = now + 1
    /\ UNCHANGED <<due, buckets, since, last>>

Next == (\E c \in Clients : Execute(c)) \/ Cleanup \/ Tick

Spec == Init /\ [][Next]_vars

-----------------------------------------------------------------------------
(* From any moment on, a client gets through no more requests than a full  *)
(* bucket plus what is refilled meanwhile, although cleanup throws buckets *)
(* away and a new one starts full.                                         *)
RateBounded ==
    \A c \in Clients, t \in 0 .. now :
        since[c][t] * Window <= Full + (now - t) * Limit

(* Nobody is refused without a reason: there was a time since which the    *)
(* client has used up a full bucket and the refill, to less than a token.  *)
DenialJustified ==
    last.at = now /\ ~last.allowed =>
        \E t \in 0 .. now :
            since[last.client][t] * Window > Full + (now - t) * Limit - Window

(* The buckets of clients that went away are given up.                     *)
IdleForgotten ==
    \A c \in Clients : buckets[c] # NoBucket => now - buckets[c].lastAccess <= TTL + Interval

(* MemoryLimiter: the limit is neither exceeded nor applied to a client    *)
(* that has kept to it, and what it costs to know that is given up in      *)
(* time.                                                                   *)
LimitHonoured ==
    /\ RateBounded
    /\ DenialJustified
    /\ IdleForgotten
=============================================================================
