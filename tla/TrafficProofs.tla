---------------------------- MODULE TrafficProofs ----------------------------
(***************************************************************************)
(* What the sidecar keeps of past traffic, as parts of RequestPath: the    *)
(* two rate limiters for every limit, window, delay and number of clients  *)
(* or sidecars, the scorer for every setup, and the two rings, that of the *)
(* learning engine and that of the audit log, for every size of the ring.  *)
(***************************************************************************)
EXTENDS RequestPath, FiniteSetTheorems, TLAPS

-----------------------------------------------------------------------------
(* The in-memory limiter.  What a client could take at this moment: a      *)
(* bucket that was dropped is as good as a full one.                       *)
Level(c) == IF buckets[c] = TB!NoBucket THEN TB!Full ELSE TB!Refill(buckets[c])

(* The refill since t, when the clock is at n.                             *)
Gain(m, t) == (m - t) * BucketSetup.limit

(* A bucket was last used after the cleanup before last, and the next is   *)
(* no later than an interval away.                                         *)
DueInv ==
    /\ due - BucketSetup.interval <= now /\ now <= due
    /\ \A c \in BucketSetup.clients : buckets[c] # TB!NoBucket =>
          /\ buckets[c].lastAccess <= now
          /\ buckets[c].lastCheck = buckets[c].lastAccess
          /\ due - BucketSetup.interval - buckets[c].lastAccess <= BucketSetup.ttl

(* What a client took since t and could still take is never more than a    *)
(* full bucket and the refill since t, and for the time when its bucket    *)
(* was last full it is no less.                                            *)
LevelInv ==
    \A c \in BucketSetup.clients :
        /\ \A t \in TB!Times : t > now => since[c][t] = 0
        /\ \A t \in 0 .. now : since[c][t] * BucketSetup.window + Level(c) <= TB!Full + Gain(now, t)
        /\ \E t \in 0 .. now : since[c][t] * BucketSetup.window + Level(c) >= TB!Full + Gain(now, t)

(* Who has just been refused has less than a token.                        *)
RefusedInv ==
    /\ last.at <= now
    /\ last.at = now /\ ~last.allowed => Level(last.client) < BucketSetup.window

BucketInv == TB!TypeOK /\ DueInv /\ LevelInv /\ RefusedInv

-----------------------------------------------------------------------------
(* Multiplication by the limit respects the order.                         *)
LEMMA GainIsMonotonic ==
    ASSUME NEW l \in Nat, NEW a \in Nat, NEW b \in Nat, a <= b
    PROVE  a * l <= b * l
  OBVIOUS

(* The refill grows by the limit in a tick.                                *)
LEMMA GainGrows ==
    ASSUME TB!TokenBucketConstants, NEW m \in Nat, NEW t \in Nat
    PROVE  /\ Gain(m, t) \in Int
           /\ Gain(m + 1, t) = Gain(m, t) + BucketSetup.limit
           /\ Gain(m, m) = 0
           /\ t <= m => Gain(m, t) \in Nat
<1>1. BucketSetup.limit \in Nat
  BY DEF TB!TokenBucketConstants
<1>2. t <= m => m - t \in Nat
  OBVIOUS
<1>3. \A a \in Nat : a * BucketSetup.limit \in Nat
  BY <1>1
<1> QED
  BY <1>1, <1>2, <1>3 DEF Gain

(* A bucket's level is at most full, grows by the limit with every tick    *)
(* until then, and is full after a window without use.                     *)
LEMMA LevelFacts ==
    ASSUME TB!TokenBucketConstants, BucketInv, NEW c \in BucketSetup.clients
    PROVE  /\ Level(c) \in 0 .. TB!Full /\ TB!Full \in Nat
           /\ buckets[c] # TB!NoBucket =>
                 LET filled == buckets[c].tokens + Gain(now, buckets[c].lastAccess)
                 IN  filled \in Nat /\ Level(c) = IF filled > TB!Full THEN TB!Full ELSE filled
<1>1. BucketSetup.limit \in Nat /\ BucketSetup.window \in Nat
  BY DEF TB!TokenBucketConstants
<1>2. TB!Full \in Nat
  BY <1>1 DEF TB!Full
<1>3. CASE buckets[c] = TB!NoBucket
  BY <1>2, <1>3 DEF Level
<1>4. CASE buckets[c] # TB!NoBucket
  <2>1. /\ buckets[c].tokens \in Nat /\ buckets[c].lastAccess \in Nat /\ now \in Nat
        /\ buckets[c].lastAccess <= now /\ buckets[c].lastCheck = buckets[c].lastAccess
    BY <1>2, <1>4 DEF BucketInv, TB!TypeOK, TB!Bucket, TB!Times, DueInv
  <2>2. Gain(now, buckets[c].lastAccess) \in Nat
    BY <2>1, GainGrows
  <2>3. Level(c) = IF buckets[c].tokens + Gain(now, buckets[c].lastAccess) > TB!Full
                   THEN TB!Full ELSE buckets[c].tokens + Gain(now, buckets[c].lastAccess)
    BY <1>4, <2>1 DEF Level, TB!Refill, Gain
  <2> QED
    BY <1>2, <1>4, <2>1, <2>2, <2>3
<1> QED
  BY <1>3, <1>4

(* At the start there is no bucket, which is as good as a full one.        *)
LEMMA BucketInit ==
    ASSUME TB!TokenBucketConstants
    PROVE  TB!Init => BucketInv
<1> SUFFICES ASSUME TB!Init PROVE BucketInv
  OBVIOUS
<1> USE DEF TB!Init, TB!TokenBucketConstants
<1>1. TB!TypeOK
  <2>1. 0 \in TB!Times
    BY DEF TB!Times
  <2>2. TB!NoBucket \in TB!Bucket
    BY <2>1 DEF TB!NoBucket, TB!Bucket
  <2>3. last \in [client: BucketSetup.clients, at: TB!Times, allowed: BOOLEAN]
    BY <2>1
  <2> QED
    BY <2>1, <2>2, <2>3 DEF TB!TypeOK
<1>2. DueInv
  BY DEF DueInv, TB!NoBucket
<1>3. \A c \in BucketSetup.clients : Level(c) = TB!Full /\ TB!Full \in Nat
  BY DEF Level, TB!Full
<1>4. Gain(now, 0) = 0
  BY DEF Gain
<1>5. LevelInv
  BY <1>3, <1>4 DEF LevelInv, TB!Times
<1>6. RefusedInv
  <2>1. last.at = 0 /\ last.allowed = TRUE
    OBVIOUS
  <2> QED
    BY <2>1 DEF RefusedInv
<1> QED
  BY <1>1, <1>2, <1>5, <1>6 DEF BucketInv

(* A request takes a token from the level of its client, if there is one.  *)
LEMMA AllowStep ==
    ASSUME TB!TokenBucketConstants, BucketInv, NEW c \in BucketSetup.clients, TB!Execute(c)
    PROVE  BucketInv'
<1> DEFINE ok == TB!Enough(Level(c))
           left == IF ok THEN Level(c) - BucketSetup.window ELSE Level(c)
           used == [tokens |-> left, lastCheck |-> now, lastAccess |-> now]
<1>1. /\ BucketSetup.limit \in Nat /\ BucketSetup.window \in Nat \ {0} /\ now \in Nat /\ now \in TB!Times
      /\ now <= BucketSetup.maxTime /\ BucketSetup.maxTime \in Nat
  BY DEF TB!TokenBucketConstants, BucketInv, TB!TypeOK, TB!Times
<1>2. TB!Full \in Nat /\ Level(c) \in 0 .. TB!Full
  BY LevelFacts
<1>3. Level(c) = TB!Refill(IF buckets[c] = TB!NoBucket
                          THEN [tokens |-> TB!Full, lastCheck |-> now, lastAccess |-> now]
                          ELSE buckets[c])
  <2>1. CASE buckets[c] = TB!NoBucket
    BY <1>1, <1>2, <2>1 DEF Level, TB!Refill
  <2> QED
    BY <2>1 DEF Level
<1>4. /\ buckets' = [buckets EXCEPT ![c] = used]
      /\ since' = [since EXCEPT ![c] =
              [t \in TB!Times |-> IF ok /\ t <= now THEN @[t] + 1 ELSE @[t]]]
      /\ last' = [client |-> c, at |-> now, allowed |-> ok]
      /\ now' = now /\ due' = due
  BY <1>3 DEF TB!Execute, TB!Allow
<1>5. /\ left \in 0 .. TB!Full /\ (ok => left = Level(c) - BucketSetup.window)
      /\ (~ok => left = Level(c) /\ left < BucketSetup.window)
  BY <1>1, <1>2 DEF TB!Enough
<1>6. ok \in BOOLEAN
  BY DEF TB!Enough
<1> HIDE DEF ok, left
<1>7. used \in TB!Bucket /\ used # TB!NoBucket
  BY <1>1, <1>2, <1>5 DEF TB!Bucket, TB!NoBucket
<1>8. \A d \in BucketSetup.clients : buckets'[d] = IF d = c THEN used ELSE buckets[d]
  BY <1>4 DEF BucketInv, TB!TypeOK
<1>9. \A d \in BucketSetup.clients : \A t \in TB!Times :
         since'[d][t] = IF d = c /\ ok /\ t <= now THEN since[d][t] + 1 ELSE since[d][t]
  BY <1>4 DEF BucketInv, TB!TypeOK
<1>10. TB!TypeOK'
  <2>1. buckets' \in [BucketSetup.clients -> TB!Bucket]
    BY <1>4, <1>7 DEF BucketInv, TB!TypeOK
  <2>2. \A d \in BucketSetup.clients : buckets'[d] = TB!NoBucket \/ buckets'[d].tokens \in 0 .. TB!Full
    BY <1>5, <1>8 DEF BucketInv, TB!TypeOK
  <2>3. since' \in [BucketSetup.clients -> [TB!Times -> Nat]]
    BY <1>4 DEF BucketInv, TB!TypeOK
  <2>4. last' \in [client: BucketSetup.clients, at: TB!Times, allowed: BOOLEAN]
    BY <1>1, <1>4, <1>6
  <2>5. now' \in TB!Times /\ due' \in Nat
    BY <1>4 DEF BucketInv, TB!TypeOK
  <2> QED
    BY <2>1, <2>2, <2>3, <2>4, <2>5 DEF TB!TypeOK, TB!NoBucket, TB!Full, TB!Times, TB!Bucket
<1>11. DueInv'
  <2> SUFFICES ASSUME NEW d \in BucketSetup.clients, buckets'[d] # TB!NoBucket
               PROVE  /\ buckets'[d].lastAccess <= now
                      /\ buckets'[d].lastCheck = buckets'[d].lastAccess
                      /\ due - BucketSetup.interval - buckets'[d].lastAccess <= BucketSetup.ttl
    BY <1>4 DEF BucketInv, DueInv, TB!NoBucket
  <2>1. CASE d = c
    BY <1>1, <1>8, <2>1 DEF BucketInv, DueInv, TB!TypeOK, TB!TokenBucketConstants
  <2>2. CASE d # c
    BY <1>8, <2>2 DEF BucketInv, DueInv
  <2> QED
    BY <2>1, <2>2
<1>12. \A d \in BucketSetup.clients : Level(d)' = IF d = c THEN left ELSE Level(d)
  <2> TAKE d \in BucketSetup.clients
  <2>1. CASE d = c
    <3>1. Level(d)' = TB!Refill(used)
      BY <1>4, <1>7, <1>8, <2>1 DEF Level, TB!Refill, TB!Full, TB!NoBucket
    <3>2. TB!Refill(used) = left
      BY <1>1, <1>2, <1>5 DEF TB!Refill
    <3> QED
      BY <2>1, <3>1, <3>2
  <2>2. CASE d # c
    BY <1>4, <1>8, <2>2 DEF Level, TB!Refill, TB!Full, TB!NoBucket
  <2> QED
    BY <2>1, <2>2
<1>13. LevelInv'
  <2> SUFFICES ASSUME NEW d \in BucketSetup.clients
               PROVE  /\ \A t \in TB!Times : t > now => since'[d][t] = 0
                      /\ \A t \in 0 .. now :
                            since'[d][t] * BucketSetup.window + Level(d)' <= TB!Full + Gain(now, t)
                      /\ \E t \in 0 .. now :
                            since'[d][t] * BucketSetup.window + Level(d)' >= TB!Full + Gain(now, t)
    BY <1>4 DEF LevelInv, TB!Times, Gain, TB!Full
  <2>1. \A t \in TB!Times : t > now => since'[d][t] = 0
    BY <1>1, <1>9 DEF BucketInv, LevelInv, TB!Times
  <2>2. \A t \in 0 .. now : t \in TB!Times /\ since[d][t] \in Nat
    BY <1>1 DEF TB!Times, BucketInv, TB!TypeOK
  <2>3. \A t \in 0 .. now : since'[d][t] * BucketSetup.window + Level(d)'
                             = since[d][t] * BucketSetup.window + Level(d)
    <3> TAKE t \in 0 .. now
    <3>1. CASE d = c /\ ok
      BY <1>1, <1>2, <1>5, <1>9, <1>12, <2>2, <3>1
    <3>2. CASE ~(d = c /\ ok)
      BY <1>5, <1>9, <1>12, <2>2, <3>2
    <3> QED
      BY <3>1, <3>2
  <2> QED
    BY <2>1, <2>3 DEF BucketInv, LevelInv
<1>14. RefusedInv'
  BY <1>1, <1>4, <1>5, <1>12 DEF RefusedInv
<1> QED
  BY <1>10, <1>11, <1>13, <1>14 DEF BucketInv

(* A bucket that is dropped is full: it was idle for a window and more.    *)
LEMMA CleanupStep ==
    ASSUME TB!TokenBucketConstants, BucketInv, TB!Cleanup
    PROVE  BucketInv'
<1>1. /\ now >= due /\ due' = now + BucketSetup.interval
      /\ now' = now /\ since' = since /\ last' = last
      /\ \A c \in BucketSetup.clients : buckets'[c] =
             IF now - buckets[c].lastAccess > BucketSetup.ttl THEN TB!NoBucket ELSE buckets[c]
  BY DEF TB!Cleanup
<1>2. /\ BucketSetup.limit \in Nat /\ BucketSetup.window \in Nat /\ BucketSetup.interval \in Nat
      /\ BucketSetup.ttl \in Nat /\ BucketSetup.ttl >= BucketSetup.window /\ now \in Nat
  BY DEF TB!TokenBucketConstants, BucketInv, TB!TypeOK, TB!Times
<1>3. TB!TypeOK'
  <2>1. TB!NoBucket \in TB!Bucket
    BY DEF TB!NoBucket, TB!Bucket, TB!Times, TB!TokenBucketConstants
  <2>2. buckets' \in [BucketSetup.clients -> TB!Bucket]
    BY <2>1 DEF TB!Cleanup, BucketInv, TB!TypeOK
  <2>3. \A c \in BucketSetup.clients : buckets'[c] = TB!NoBucket \/ buckets'[c].tokens \in 0 .. TB!Full
    BY <1>1 DEF BucketInv, TB!TypeOK
  <2>4. /\ now \in TB!Times /\ due' \in Nat /\ since \in [BucketSetup.clients -> [TB!Times -> Nat]]
        /\ last \in [client: BucketSetup.clients, at: TB!Times, allowed: BOOLEAN]
    BY <1>1, <1>2 DEF BucketInv, TB!TypeOK
  <2> QED
    BY <1>1, <2>2, <2>3, <2>4 DEF TB!TypeOK, TB!NoBucket, TB!Full, TB!Times, TB!Bucket
<1>4. DueInv'
  <2> SUFFICES ASSUME NEW c \in BucketSetup.clients, buckets'[c] # TB!NoBucket
               PROVE  /\ buckets'[c].lastAccess <= now
                      /\ buckets'[c].lastCheck = buckets'[c].lastAccess
                      /\ now - buckets'[c].lastAccess <= BucketSetup.ttl
    BY <1>1, <1>2 DEF DueInv, TB!NoBucket
  <2>1. buckets'[c] = buckets[c] /\ ~(now - buckets[c].lastAccess > BucketSetup.ttl)
    BY <1>1
  <2>2. buckets[c].lastAccess \in Nat
    BY <2>1 DEF BucketInv, TB!TypeOK, TB!Bucket, TB!Times
  <2> QED
    BY <1>2, <2>1, <2>2 DEF BucketInv, DueInv
<1>5. \A c \in BucketSetup.clients : Level(c)' = Level(c)
  <2> TAKE c \in BucketSetup.clients
  <2>1. CASE buckets[c] = TB!NoBucket
    BY <1>1, <2>1 DEF Level, TB!NoBucket, TB!Full, TB!Refill
  <2>2. CASE buckets[c] # TB!NoBucket /\ now - buckets[c].lastAccess > BucketSetup.ttl
    <3>1. buckets[c].tokens \in Nat /\ buckets[c].lastAccess \in Nat
      BY <2>2 DEF BucketInv, TB!TypeOK, TB!Bucket, TB!Times
    <3>2. BucketSetup.window <= now - buckets[c].lastAccess /\ now - buckets[c].lastAccess \in Nat
      BY <1>2, <2>2, <3>1
    <3>3. BucketSetup.window * BucketSetup.limit <= (now - buckets[c].lastAccess) * BucketSetup.limit
      BY <1>2, <3>2, GainIsMonotonic
    <3>4. TB!Full <= Gain(now, buckets[c].lastAccess)
      BY <1>2, <3>3 DEF TB!Full, Gain
    <3>5. Gain(now, buckets[c].lastAccess) \in Int
      BY <1>2, <3>1, GainGrows
    <3>6. Level(c) = TB!Full
      BY <2>2, <3>1, <3>4, <3>5, LevelFacts
    <3> QED
      BY <1>1, <2>2, <3>6 DEF Level, TB!NoBucket, TB!Full
  <2>3. CASE buckets[c] # TB!NoBucket /\ ~(now - buckets[c].lastAccess > BucketSetup.ttl)
    BY <1>1, <2>3 DEF Level, TB!NoBucket, TB!Full, TB!Refill
  <2> QED
    BY <2>1, <2>2, <2>3
<1>6. LevelInv'
  BY <1>1, <1>5 DEF BucketInv, LevelInv, Gain, TB!Times, TB!Full
<1>7. RefusedInv'
  BY <1>1, <1>5 DEF BucketInv, RefusedInv, TB!TypeOK
<1> QED
  BY <1>3, <1>4, <1>6, <1>7 DEF BucketInv

(* A tick brings the limit, or as much as there is room for.               *)
LEMMA TickStep ==
    ASSUME TB!TokenBucketConstants, BucketInv, TB!Tick
    PROVE  BucketInv'
<1>1. /\ now < BucketSetup.maxTime /\ now < due /\ now' = now + 1
      /\ due' = due /\ buckets' = buckets /\ since' = since /\ last' = last
  BY DEF TB!Tick
<1>2. /\ BucketSetup.limit \in Nat /\ BucketSetup.window \in Nat /\ BucketSetup.interval \in Nat
      /\ now \in Nat /\ BucketSetup.maxTime \in Nat /\ due \in Nat
  BY DEF TB!TokenBucketConstants, BucketInv, TB!TypeOK, TB!Times
<1>3. TB!TypeOK'
  <2>1. now' \in TB!Times
    BY <1>1, <1>2 DEF TB!Times
  <2>2. \A c \in BucketSetup.clients : buckets'[c] = TB!NoBucket \/ buckets'[c].tokens \in 0 .. TB!Full
    BY <1>1 DEF BucketInv, TB!TypeOK
  <2> QED
    BY <1>1, <2>1, <2>2 DEF BucketInv, TB!TypeOK, TB!NoBucket, TB!Full, TB!Times, TB!Bucket
<1>4. DueInv'
  <2> SUFFICES ASSUME NEW c \in BucketSetup.clients, buckets[c] # TB!NoBucket
               PROVE  buckets[c].lastAccess <= now + 1
    BY <1>1, <1>2 DEF BucketInv, DueInv, TB!NoBucket
  <2>1. buckets[c].lastAccess \in Nat /\ buckets[c].lastAccess <= now
    BY DEF BucketInv, DueInv, TB!TypeOK, TB!Bucket, TB!Times
  <2> QED
    BY <1>2, <2>1
<1>5. \A c \in BucketSetup.clients :
         Level(c)' = IF Level(c) + BucketSetup.limit > TB!Full THEN TB!Full
                     ELSE Level(c) + BucketSetup.limit
  <2> TAKE c \in BucketSetup.clients
  <2>1. TB!Full \in Nat /\ Level(c) \in 0 .. TB!Full
    BY LevelFacts
  <2>2. CASE buckets[c] = TB!NoBucket
    BY <1>1, <1>2, <2>1, <2>2 DEF Level, TB!NoBucket, TB!Full
  <2>3. CASE buckets[c] # TB!NoBucket
    <3> DEFINE filled == buckets[c].tokens + Gain(now, buckets[c].lastAccess)
    <3>1. /\ buckets[c].tokens \in Nat /\ buckets[c].lastAccess \in Nat
          /\ buckets[c].lastCheck = buckets[c].lastAccess
      BY <2>3 DEF BucketInv, DueInv, TB!TypeOK, TB!Bucket, TB!Times
    <3>2. filled \in Nat /\ Level(c) = IF filled > TB!Full THEN TB!Full ELSE filled
      BY <2>3, LevelFacts
    <3>3. Gain(now + 1, buckets[c].lastAccess) = Gain(now, buckets[c].lastAccess) + BucketSetup.limit
      BY <1>2, <3>1, GainGrows
    <3>4. Gain(now, buckets[c].lastAccess) \in Int
      BY <1>2, <3>1, GainGrows
    <3>5. Level(c)' = LET more == buckets[c].tokens + Gain(now + 1, buckets[c].lastAccess)
                      IN  IF more > TB!Full THEN TB!Full ELSE more
      BY <1>1, <2>3, <3>1 DEF Level, TB!NoBucket, TB!Full, TB!Refill, Gain
    <3>6. buckets[c].tokens + Gain(now + 1, buckets[c].lastAccess) = filled + BucketSetup.limit
      BY <1>2, <3>1, <3>3, <3>4
    <3> HIDE DEF filled
    <3> QED
      BY <1>2, <2>1, <3>2, <3>5, <3>6
  <2> QED
    BY <2>2, <2>3
<1>6. LevelInv'
  <2> SUFFICES ASSUME NEW c \in BucketSetup.clients
               PROVE  /\ \A t \in TB!Times : t > now + 1 => since[c][t] = 0
                      /\ \A t \in 0 .. now + 1 :
                            since[c][t] * BucketSetup.window + Level(c)' <= TB!Full + Gain(now + 1, t)
                      /\ \E t \in 0 .. now + 1 :
                            since[c][t] * BucketSetup.window + Level(c)' >= TB!Full + Gain(now + 1, t)
    BY <1>1 DEF LevelInv, TB!Times, Gain, TB!Full
  <2>1. TB!Full \in Nat /\ Level(c) \in 0 .. TB!Full /\ Level(c)' \in 0 .. TB!Full
    BY <1>2, <1>5, LevelFacts
  <2>2. now + 1 \in TB!Times /\ 0 .. now + 1 \subseteq TB!Times /\ 0 .. now \subseteq TB!Times
    BY <1>1, <1>2 DEF TB!Times
  <2>3. since[c][now + 1] = 0
    BY <1>2, <2>2 DEF BucketInv, LevelInv
  <2>4. \A t \in 0 .. now : since[c][t] * BucketSetup.window \in Int
    BY <1>2, <2>2 DEF BucketInv, TB!TypeOK
  <2>5. \A t \in 0 .. now : Gain(now, t) \in Int /\ Gain(now + 1, t) = Gain(now, t) + BucketSetup.limit
    <3> TAKE t \in 0 .. now
    <3>1. t \in Nat
      BY <1>2
    <3> QED
      BY <1>2, <3>1, GainGrows
  <2>6. Gain(now + 1, now + 1) = 0
    BY <1>2, GainGrows
  <2>7. \A t \in TB!Times : t > now + 1 => since[c][t] = 0
    BY <1>2 DEF BucketInv, LevelInv, TB!Times
  <2>8. \A t \in 0 .. now + 1 :
           since[c][t] * BucketSetup.window + Level(c)' <= TB!Full + Gain(now + 1, t)
    <3> TAKE t \in 0 .. now + 1
    <3>1. CASE t = now + 1
      BY <1>2, <2>1, <2>3, <2>6, <3>1
    <3>2. CASE t \in 0 .. now
      <4>1. since[c][t] * BucketSetup.window + Level(c) <= TB!Full + Gain(now, t)
        BY <3>2 DEF BucketInv, LevelInv
      <4>2. Level(c)' <= Level(c) + BucketSetup.limit
        BY <1>2, <1>5, <2>1
      <4> QED
        BY <1>2, <2>1, <2>4, <2>5, <3>2, <4>1, <4>2
    <3> QED
      BY <1>2, <3>1, <3>2
  <2>9. \E t \in 0 .. now + 1 :
           since[c][t] * BucketSetup.window + Level(c)' >= TB!Full + Gain(now + 1, t)
    <3>1. CASE Level(c)' = TB!Full
      <4>1. since[c][now + 1] * BucketSetup.window + Level(c)' >= TB!Full + Gain(now + 1, now + 1)
        BY <1>2, <2>1, <2>3, <2>6, <3>1
      <4> QED
        BY <1>2, <4>1
    <3>2. CASE Level(c)' # TB!Full
      <4>1. PICK t \in 0 .. now : since[c][t] * BucketSetup.window + Level(c) >= TB!Full + Gain(now, t)
        BY DEF BucketInv, LevelInv
      <4>2. Level(c)' = Level(c) + BucketSetup.limit
        BY <1>5, <3>2
      <4>3. since[c][t] * BucketSetup.window + Level(c)' >= TB!Full + Gain(now + 1, t)
        BY <1>2, <2>1, <2>4, <2>5, <4>1, <4>2
      <4> QED
        BY <1>2, <4>3
    <3> QED
      BY <3>1, <3>2
  <2> QED
    BY <2>7, <2>8, <2>9
<1>7. RefusedInv'
  BY <1>1, <1>2 DEF BucketInv, RefusedInv, TB!TypeOK, TB!Times
<1> QED
  BY <1>3, <1>4, <1>6, <1>7 DEF BucketInv

(* The invariant holds in every behaviour of the in-memory limiter.        *)
THEOREM BucketInvariant == Spec => [](part = "token bucket" => BucketInv)
<1> USE BucketAssumption
<1>1. Init => (part = "token bucket" => BucketInv)
  BY BucketInit DEF Init
<1>2. BucketInv /\ [TB!Next]_(TB!vars) => BucketInv'
  <2> SUFFICES ASSUME BucketInv, [TB!Next]_(TB!vars) PROVE BucketInv'
    OBVIOUS
  <2>1. CASE UNCHANGED TB!vars
    BY <2>1 DEF TB!vars, BucketInv, TB!TypeOK, DueInv, LevelInv, RefusedInv, Level, Gain,
       TB!NoBucket, TB!Full, TB!Refill, TB!Times, TB!Bucket
  <2>2. ASSUME NEW c \in BucketSetup.clients, TB!Execute(c) PROVE BucketInv'
    BY <2>2, AllowStep
  <2>3. CASE TB!Cleanup
    BY <2>3, CleanupStep
  <2>4. CASE TB!Tick
    BY <2>4, TickStep
  <2> QED
    BY <2>1, <2>2, <2>3, <2>4 DEF TB!Next
<1>3. [Next]_vars => part' = part /\ (part = "token bucket" => [TB!Next]_(TB!vars))
  BY DEF Next, vars, bucketVars, TB!vars
<1>4. (part = "token bucket" => BucketInv) /\ [Next]_vars => (part = "token bucket" => BucketInv)'
  BY <1>2, <1>3
<1> QED
  BY <1>1, <1>4, PTL DEF Spec

(* MemoryLimiter.Allow: whatever is cleaned up, no client gets through     *)
(* more than the limit, none is refused that has kept to it, and idle      *)
(* buckets are given up in time.                                           *)
THEOREM LimitHonouredHolds == Spec => []LimitHonoured
<1> USE BucketAssumption
<1>1. BucketInv => TB!LimitHonoured
  <2> SUFFICES ASSUME BucketInv PROVE TB!LimitHonoured
    OBVIOUS
  <2>1. /\ now \in Nat /\ BucketSetup.window \in Nat /\ 0 .. now \subseteq TB!Times
        /\ due \in Nat /\ BucketSetup.interval \in Nat /\ BucketSetup.ttl \in Nat
    BY DEF BucketInv, TB!TypeOK, TB!Times, TB!TokenBucketConstants
  <2>2. TB!RateBounded
    <3> SUFFICES ASSUME NEW c \in BucketSetup.clients, NEW t \in 0 .. now
                 PROVE  since[c][t] * BucketSetup.window <= TB!Full + (now - t) * BucketSetup.limit
      BY DEF TB!RateBounded
    <3>1. since[c][t] * BucketSetup.window + Level(c) <= TB!Full + Gain(now, t)
      BY DEF BucketInv, LevelInv
    <3>2. Level(c) \in Nat /\ TB!Full \in Nat /\ Gain(now, t) \in Int
      <4>1. Level(c) \in Nat /\ TB!Full \in Nat
        BY LevelFacts
      <4>2. t \in Nat
        BY <2>1
      <4> QED
        BY <2>1, <4>1, <4>2, GainGrows
    <3>3. since[c][t] * BucketSetup.window \in Int
      BY <2>1 DEF BucketInv, TB!TypeOK
    <3>4. since[c][t] * BucketSetup.window <= TB!Full + Gain(now, t)
      BY <3>1, <3>2, <3>3
    <3> QED
      BY <3>4 DEF Gain
  <2>3. TB!DenialJustified
    <3> SUFFICES ASSUME last.at = now, ~last.allowed
                 PROVE  \E t \in 0 .. now :
                           since[last.client][t] * BucketSetup.window
                           > TB!Full + (now - t) * BucketSetup.limit - BucketSetup.window
      BY DEF TB!DenialJustified
    <3>1. last.client \in BucketSetup.clients /\ Level(last.client) < BucketSetup.window
      BY DEF BucketInv, RefusedInv, TB!TypeOK
    <3>2. PICK t \in 0 .. now :
             since[last.client][t] * BucketSetup.window + Level(last.client) >= TB!Full + Gain(now, t)
      BY <3>1 DEF BucketInv, LevelInv
    <3>3. Level(last.client) \in Nat /\ TB!Full \in Nat
      BY <3>1, LevelFacts
    <3>4. t \in Nat /\ Gain(now, t) \in Int
      BY <2>1, GainGrows
    <3>5. since[last.client][t] * BucketSetup.window \in Int
      BY <2>1, <3>1 DEF BucketInv, TB!TypeOK
    <3>6. since[last.client][t] * BucketSetup.window > TB!Full + Gain(now, t) - BucketSetup.window
      BY <2>1, <3>1, <3>2, <3>3, <3>4, <3>5
    <3> QED
      BY <3>6 DEF Gain
  <2>4. TB!IdleForgotten
    <3> SUFFICES ASSUME NEW c \in BucketSetup.clients, buckets[c] # TB!NoBucket
                 PROVE  now - buckets[c].lastAccess <= BucketSetup.ttl + BucketSetup.interval
      BY DEF TB!IdleForgotten
    <3>1. buckets[c].lastAccess \in Nat
      BY DEF BucketInv, TB!TypeOK, TB!Bucket, TB!Times
    <3> QED
      BY <2>1, <3>1 DEF BucketInv, DueInv
  <2> QED
    BY <2>2, <2>3, <2>4 DEF TB!LimitHonoured
<1> QED
  BY BucketInvariant, <1>1, PTL DEF LimitHonoured

-----------------------------------------------------------------------------
(* The Redis limiter.  Lower(b) and Upper(b) are where window b begins and *)
(* where the next one does.                                                *)
Lower(b) == b * FleetSetup.window
Upper(b) == (b + 1) * FleetSetup.window

(* What is under way has read a time that has come.                        *)
ReadInv == \A m \in FleetSetup.nodes : redisPc[m] # "idle" => read[m] <= redisNow

(* A counter is kept until its window and the grace are over, and until    *)
(* then it counts what has passed on an answer; below the limit, whatever  *)
(* it counts has passed or was lost.                                       *)
CounterInv(b) ==
    /\ expires[b] # RW!Never => expires[b] >= RW!Over(b)
    /\ unanswered[b] <= admitted[b]
    /\ redisNow < RW!Over(b) => admitted[b] <= count[b] + unanswered[b]
    /\ admitted[b] <= FleetSetup.limit + unanswered[b] + late[b]
    /\ \/ count[b] <= admitted[b] - unanswered[b] + lost[b]
       \/ FleetSetup.limit <= admitted[b] - unanswered[b] + lost[b]

RedisInv == RW!TypeOK /\ ReadInv /\ \A b \in RW!Windows : CounterInv(b)

(* What CounterInv(w) speaks about does not change.                        *)
CounterKept(w) ==
    /\ count'[w] = count[w] /\ expires'[w] = expires[w] /\ admitted'[w] = admitted[w]
    /\ unanswered'[w] = unanswered[w] /\ lost'[w] = lost[w] /\ late'[w] = late[w]

(* Every time is in its window.                                            *)
LEMMA WindowFacts ==
    ASSUME RW!RedisConstants, NEW t \in RW!Times
    PROVE  /\ RW!WindowOf(t) \in RW!Windows
           /\ Lower(RW!WindowOf(t)) <= t /\ t < Upper(RW!WindowOf(t))
<1> DEFINE b == t \div FleetSetup.window
<1>1. /\ t \in Nat /\ t <= FleetSetup.maxTime /\ FleetSetup.maxTime \in Nat
      /\ FleetSetup.window \in Nat /\ FleetSetup.window > 0
  BY DEF RW!RedisConstants, RW!Times
<1>2. b \in Nat /\ b * FleetSetup.window <= t /\ t < (b + 1) * FleetSetup.window
  BY <1>1
<1>3. b <= FleetSetup.maxTime \div FleetSetup.window
  BY <1>1
<1> QED
  BY <1>1, <1>2, <1>3 DEF RW!WindowOf, RW!Windows, Lower, Upper

(* A window begins and ends at times, its length apart.                    *)
LEMMA WindowTyped ==
    ASSUME RW!RedisConstants, NEW b \in RW!Windows
    PROVE  /\ Lower(b) \in Nat /\ Upper(b) = Lower(b) + FleetSetup.window /\ Upper(b) \in Nat
           /\ RW!Over(b) = Upper(b) + FleetSetup.grace /\ RW!Over(b) \in Nat
<1>1. FleetSetup.window \in Nat /\ FleetSetup.grace \in Nat /\ b \in Nat
  BY DEF RW!RedisConstants, RW!Windows
<1>2. b * FleetSetup.window \in Nat
  BY <1>1
<1> QED
  BY <1>1, <1>2 DEF Lower, Upper, RW!Over

(* The state in numbers.                                                   *)
LEMMA RedisTyped ==
    ASSUME RW!RedisConstants, RW!TypeOK
    PROVE  /\ redisNow \in Nat /\ FleetSetup.limit \in Nat
           /\ \A b \in RW!Windows :
                 /\ count[b] \in Nat /\ expires[b] \in Nat \cup {RW!Never} /\ RW!Over(b) \in Nat
                 /\ admitted[b] \in Nat /\ unanswered[b] \in Nat
                 /\ lost[b] \in Nat /\ late[b] \in Nat
           /\ \A m \in FleetSetup.nodes : /\ read[m] \in Nat
                                         /\ RW!WindowOf(read[m]) \in RW!Windows
<1>1. \A m \in FleetSetup.nodes : read[m] \in RW!Times
  BY DEF RW!TypeOK
<1>2. \A m \in FleetSetup.nodes : RW!WindowOf(read[m]) \in RW!Windows
  BY <1>1, WindowFacts
<1>3. \A b \in RW!Windows : RW!Over(b) \in Nat
  BY WindowTyped
<1> QED
  BY <1>1, <1>2, <1>3 DEF RW!TypeOK, RW!Times, RW!RedisConstants

(* At the start no sidecar has read the clock and no counter is there.     *)
LEMMA RedisInit ==
    ASSUME RW!RedisConstants
    PROVE  RW!Init => RedisInv
<1> SUFFICES ASSUME RW!Init PROVE RedisInv
  OBVIOUS
<1> USE DEF RW!Init, RW!RedisConstants
<1>1. RW!TypeOK
  BY DEF RW!TypeOK, RW!Times, RW!Never
<1>2. ReadInv
  BY DEF ReadInv
<1>3. \A b \in RW!Windows : CounterInv(b)
  BY DEF CounterInv
<1> QED
  BY <1>1, <1>2, <1>3 DEF RedisInv

(* The facts about a window stay while nothing of it changes.              *)
LEMMA CounterKeeps ==
    ASSUME RW!RedisConstants, RedisInv, redisNow' >= redisNow, redisNow' \in Nat,
           NEW w \in RW!Windows, CounterKept(w)
    PROVE  CounterInv(w)'
<1>1. CounterInv(w) /\ redisNow \in Nat /\ RW!Over(w) \in Nat
  BY RedisTyped DEF RedisInv
<1>2. RW!Over(w)' = RW!Over(w) /\ RW!Never' = RW!Never
  BY DEF RW!Over, RW!Never
<1> QED
  BY <1>1, <1>2 DEF CounterInv, CounterKept

(* What a sidecar does by itself touches no counter.                       *)
LEMMA SidecarStep ==
    ASSUME RW!RedisConstants, RedisInv, NEW m \in FleetSetup.nodes,
           RW!Start(m) \/ RW!ReadClock(m) \/ RW!Crash(m)
    PROVE  RedisInv'
<1>1. redisNow' = redisNow /\ \A w \in RW!Windows : CounterKept(w)
  BY DEF RW!Start, RW!ReadClock, RW!Crash, RW!historyVars, CounterKept
<1>2. RW!TypeOK /\ redisNow \in RW!Times /\ 0 \in RW!Times /\ redisNow \in Nat
  BY DEF RedisInv, RW!TypeOK, RW!Times, RW!RedisConstants
<1>3. RW!TypeOK'
  <2>1. CASE RW!Start(m)
    BY <1>2, <2>1 DEF RW!TypeOK, RW!Start, RW!historyVars
  <2>2. CASE RW!ReadClock(m)
    BY <1>2, <2>2 DEF RW!TypeOK, RW!ReadClock, RW!historyVars
  <2>3. CASE RW!Crash(m)
    BY <1>2, <2>3 DEF RW!TypeOK, RW!Crash, RW!Return, RW!historyVars
  <2> QED
    BY <2>1, <2>2, <2>3
<1>4. ReadInv'
  BY <1>1, <1>2 DEF RW!Start, RW!ReadClock, RW!Crash, RW!Return, RW!TypeOK, RedisInv, ReadInv
<1>5. \A w \in RW!Windows : CounterInv(w)'
  BY <1>1, <1>2, CounterKeeps
<1> QED
  BY <1>3, <1>4, <1>5 DEF RedisInv, RW!Windows

(* INCR, answered or not, finds the counter of its window still there, or  *)
(* it is late; a failure lets one more pass, of which nobody was told.     *)
LEMMA IncrStep ==
    ASSUME RW!RedisConstants, RedisInv, NEW m \in FleetSetup.nodes,
           RW!Incr(m) \/ RW!IncrLost(m) \/ RW!IncrFails(m)
    PROVE  RedisInv'
<1>b. PICK b \in RW!Windows : b = RW!WindowOf(read[m])
  BY RedisTyped DEF RedisInv
<1>1. /\ RW!TypeOK /\ 0 \in RW!Times /\ redisNow \in Nat /\ FleetSetup.limit \in Nat
      /\ \A w \in RW!Windows : /\ count[w] \in Nat /\ admitted[w] \in Nat /\ unanswered[w] \in Nat
                              /\ lost[w] \in Nat /\ late[w] \in Nat /\ RW!Over(w) \in Nat
  BY RedisTyped DEF RedisInv, RW!Times, RW!RedisConstants
<1>2. redisPc[m] = "incr" /\ redisNow' = redisNow /\ backend' = backend /\ expires' = expires
  BY DEF RW!Incr, RW!IncrLost, RW!IncrFails
<1>3. \/ redisPc' = redisPc /\ read' = read
      \/ redisPc' = [redisPc EXCEPT ![m] = "expire"] /\ read' = read
      \/ redisPc' = [redisPc EXCEPT ![m] = "idle"] /\ read' = [read EXCEPT ![m] = 0]
  BY DEF RW!Incr, RW!IncrLost, RW!IncrFails, RW!Return
<1>4. ReadInv'
  BY <1>1, <1>2, <1>3 DEF RedisInv, ReadInv, RW!TypeOK
<1>5. /\ RW!Over(b)' = RW!Over(b)
      /\ CounterInv(b)
  BY <1>1 DEF RedisInv, RW!Over
<1>6. CASE RW!Incr(m)
  <2>1. /\ count' = [count EXCEPT ![b] = @ + 1]
        /\ late' = IF redisNow >= RW!Over(b) THEN [late EXCEPT ![b] = @ + 1] ELSE late
        /\ admitted' = IF count[b] + 1 <= FleetSetup.limit THEN [admitted EXCEPT ![b] = @ + 1] ELSE admitted
        /\ unanswered' = unanswered /\ lost' = lost
    BY <1>b, <1>6 DEF RW!Incr, RW!Count, RW!Verdict
  <2>2. RW!TypeOK'
    BY <1>1, <1>2, <1>3, <2>1 DEF RW!TypeOK
  <2>3. /\ count'[b] = count[b] + 1 /\ unanswered'[b] = unanswered[b] /\ lost'[b] = lost[b]
        /\ late'[b] = IF redisNow >= RW!Over(b) THEN late[b] + 1 ELSE late[b]
        /\ admitted'[b] = IF count[b] + 1 <= FleetSetup.limit THEN admitted[b] + 1 ELSE admitted[b]
    BY <1>1, <2>1 DEF RW!TypeOK
  <2>4. CounterInv(b)'
    BY <1>1, <1>2, <1>5, <2>3 DEF CounterInv, RW!Never
  <2>5. \A w \in RW!Windows : w # b => CounterKept(w)
    BY <1>1, <1>2, <2>1 DEF CounterKept, RW!TypeOK
  <2>6. \A w \in RW!Windows : CounterInv(w)'
    BY <1>1, <1>2, <2>4, <2>5, CounterKeeps
  <2> QED
    BY <1>4, <2>2, <2>6 DEF RedisInv, RW!Windows
<1>7. CASE RW!IncrLost(m)
  <2>1. /\ count' = [count EXCEPT ![b] = @ + 1]
        /\ late' = IF redisNow >= RW!Over(b) THEN [late EXCEPT ![b] = @ + 1] ELSE late
        /\ lost' = [lost EXCEPT ![b] = @ + 1]
        /\ unanswered' = unanswered /\ admitted' = admitted
    BY <1>b, <1>7 DEF RW!IncrLost, RW!Count
  <2>2. RW!TypeOK'
    BY <1>1, <1>2, <1>3, <2>1 DEF RW!TypeOK
  <2>3. /\ count'[b] = count[b] + 1 /\ unanswered'[b] = unanswered[b] /\ lost'[b] = lost[b] + 1
        /\ late'[b] = IF redisNow >= RW!Over(b) THEN late[b] + 1 ELSE late[b]
        /\ admitted'[b] = admitted[b]
    BY <1>1, <2>1 DEF RW!TypeOK
  <2>4. CounterInv(b)'
    BY <1>1, <1>2, <1>5, <2>3 DEF CounterInv, RW!Never
  <2>5. \A w \in RW!Windows : w # b => CounterKept(w)
    BY <1>1, <1>2, <2>1 DEF CounterKept, RW!TypeOK
  <2>6. \A w \in RW!Windows : CounterInv(w)'
    BY <1>1, <1>2, <2>4, <2>5, CounterKeeps
  <2> QED
    BY <1>4, <2>2, <2>6 DEF RedisInv, RW!Windows
<1>8. CASE RW!IncrFails(m)
  <2>1. /\ unanswered' = [unanswered EXCEPT ![b] = @ + 1]
        /\ admitted' = [admitted EXCEPT ![b] = @ + 1]
        /\ count' = count /\ lost' = lost /\ late' = late
    BY <1>b, <1>8 DEF RW!IncrFails
  <2>2. RW!TypeOK'
    BY <1>1, <1>2, <1>3, <2>1 DEF RW!TypeOK
  <2>3. unanswered'[b] = unanswered[b] + 1 /\ admitted'[b] = admitted[b] + 1
    BY <1>1, <2>1 DEF RW!TypeOK
  <2>4. CounterInv(b)'
    BY <1>1, <1>2, <1>5, <2>1, <2>3 DEF CounterInv, RW!Never
  <2>5. \A w \in RW!Windows : w # b => CounterKept(w)
    BY <1>1, <1>2, <2>1 DEF CounterKept, RW!TypeOK
  <2>6. \A w \in RW!Windows : CounterInv(w)'
    BY <1>1, <1>2, <2>4, <2>5, CounterKeeps
  <2> QED
    BY <1>4, <2>2, <2>6 DEF RedisInv, RW!Windows
<1> QED
  BY <1>6, <1>7, <1>8

(* EXPIRE comes after its window has begun: Grace remains after its end.   *)
LEMMA ExpireStep ==
    ASSUME RW!RedisConstants, RedisInv, NEW m \in FleetSetup.nodes, RW!Expire(m)
    PROVE  RedisInv'
<1>b. PICK b \in RW!Windows : b = RW!WindowOf(read[m])
  BY RedisTyped DEF RedisInv
<1> DEFINE then == redisNow + (FleetSetup.window + FleetSetup.grace)
<1>1. /\ redisPc[m] = "expire" /\ redisNow' = redisNow /\ backend' = backend
      /\ count' = count /\ admitted' = admitted /\ unanswered' = unanswered
      /\ lost' = lost /\ late' = late
      /\ \/ redisPc' = redisPc /\ read' = read
         \/ redisPc' = [redisPc EXCEPT ![m] = "idle"] /\ read' = [read EXCEPT ![m] = 0]
      /\ expires' = expires \/ expires' = [expires EXCEPT ![b] = then]
  BY <1>b DEF RW!Expire, RW!TimeToLive, RW!Return, RW!historyVars
<1>2. /\ RW!TypeOK /\ 0 \in RW!Times /\ redisNow \in Nat
      /\ FleetSetup.grace \in Nat /\ FleetSetup.window \in Nat
      /\ read[m] \in RW!Times /\ read[m] \in Nat /\ read[m] <= redisNow
  BY <1>1 DEF RedisInv, ReadInv, RW!TypeOK, RW!Times, RW!RedisConstants
<1>3. /\ Lower(b) <= read[m] /\ Lower(b) \in Nat
      /\ RW!Over(b) = Lower(b) + FleetSetup.window + FleetSetup.grace /\ RW!Over(b) \in Nat
  BY <1>b, <1>2, WindowFacts, WindowTyped
<1>4. then \in Nat /\ then >= RW!Over(b)
  BY <1>2, <1>3
<1> HIDE DEF then
<1>5. \A w \in RW!Windows : expires'[w] = expires[w] \/ (w = b /\ expires'[w] = then)
  BY <1>1, <1>2, <1>3 DEF RW!TypeOK
<1>6. RW!TypeOK'
  BY <1>1, <1>2, <1>3, <1>4 DEF RW!TypeOK
<1>7. ReadInv'
  BY <1>1, <1>2 DEF RedisInv, ReadInv, RW!TypeOK
<1>8. RW!Over(b)' = RW!Over(b) /\ CounterInv(b)
  BY <1>3 DEF RW!Over, RedisInv
<1>9. CounterInv(b)'
  BY <1>2, <1>1, <1>3, <1>4, <1>5, <1>8 DEF CounterInv, RW!Never
<1>10. \A w \in RW!Windows : w # b => CounterKept(w)
  BY <1>1, <1>5 DEF CounterKept
<1>11. \A w \in RW!Windows : CounterInv(w)'
  BY <1>1, <1>2, <1>9, <1>10, CounterKeeps
<1> QED
  BY <1>6, <1>7, <1>11 DEF RedisInv, RW!Windows

(* A counter that is dropped is not needed any more.                       *)
LEMMA DropStep ==
    ASSUME RW!RedisConstants, RedisInv, NEW b \in RW!Windows, RW!Drop(b)
    PROVE  RedisInv'
<1>1. /\ expires[b] # RW!Never /\ redisNow >= expires[b] /\ redisNow' = redisNow /\ backend' = backend
      /\ redisPc' = redisPc /\ read' = read /\ admitted' = admitted
      /\ unanswered' = unanswered /\ lost' = lost /\ late' = late
      /\ count' = [count EXCEPT ![b] = 0] /\ expires' = [expires EXCEPT ![b] = RW!Never]
  BY DEF RW!Drop, RW!historyVars
<1>2. /\ RW!TypeOK /\ redisNow \in Nat /\ RW!Over(b) \in Nat /\ expires[b] \in Nat
      /\ admitted[b] \in Nat /\ unanswered[b] \in Nat /\ lost[b] \in Nat /\ late[b] \in Nat
      /\ CounterInv(b) /\ RW!Over(b)' = RW!Over(b)
  BY <1>1, RedisTyped DEF RedisInv, RW!Over
<1>3. ~(redisNow < RW!Over(b))
  BY <1>1, <1>2 DEF CounterInv
<1>4. RW!TypeOK'
  BY <1>1, <1>2 DEF RW!TypeOK
<1>5. ReadInv'
  BY <1>1 DEF RedisInv, ReadInv
<1>6. count'[b] = 0 /\ expires'[b] = RW!Never
  BY <1>1, <1>2 DEF RW!TypeOK
<1>7. CounterInv(b)'
  BY <1>1, <1>2, <1>3, <1>6 DEF CounterInv, RW!Never
<1>8. \A w \in RW!Windows : w # b => CounterKept(w)
  BY <1>1, <1>2 DEF CounterKept, RW!TypeOK
<1>9. \A w \in RW!Windows : CounterInv(w)'
  BY <1>1, <1>2, <1>7, <1>8, CounterKeeps
<1> QED
  BY <1>4, <1>5, <1>9 DEF RedisInv, RW!Windows

(* The clock ticks, however much is under way.                             *)
LEMMA RedisTick ==
    ASSUME RW!RedisConstants, RedisInv, RW!Tick
    PROVE  RedisInv'
<1>1. /\ redisNow < FleetSetup.maxTime /\ redisNow' = redisNow + 1 /\ backend' = backend
      /\ redisPc' = redisPc /\ read' = read
      /\ \A w \in RW!Windows : CounterKept(w)
  BY DEF RW!Tick, RW!historyVars, CounterKept
<1>2. /\ RW!TypeOK /\ redisNow \in Nat /\ FleetSetup.maxTime \in Nat
      /\ \A m \in FleetSetup.nodes : read[m] \in Nat
  BY DEF RedisInv, RW!TypeOK, RW!Times, RW!RedisConstants
<1>3. RW!TypeOK'
  BY <1>1, <1>2 DEF RW!TypeOK, RW!Times, RW!Tick, RW!historyVars
<1>4. ReadInv'
  BY <1>1, <1>2 DEF RedisInv, ReadInv
<1>5. \A w \in RW!Windows : CounterInv(w)'
  BY <1>1, <1>2, CounterKeeps
<1> QED
  BY <1>3, <1>4, <1>5 DEF RedisInv, RW!Windows

(* The invariant holds in every behaviour of the fleet.                    *)
THEOREM RedisInvariant == Spec => [](part = "redis window" => RedisInv)
<1> USE FleetAssumption
<1>1. Init => (part = "redis window" => RedisInv)
  BY RedisInit DEF Init
<1>2. RedisInv /\ [RW!Next]_(RW!vars) => RedisInv'
  <2> SUFFICES ASSUME RedisInv, [RW!Next]_(RW!vars) PROVE RedisInv'
    OBVIOUS
  <2>1. CASE UNCHANGED RW!vars
    BY <2>1 DEF RW!vars, RW!historyVars, RedisInv, RW!TypeOK, ReadInv, CounterInv,
       RW!Times, RW!Windows, RW!Never, RW!Over
  <2>2. ASSUME NEW m \in FleetSetup.nodes, RW!Start(m) \/ RW!Allow(m) \/ RW!Crash(m) PROVE RedisInv'
    BY <2>2, SidecarStep, IncrStep, ExpireStep DEF RW!Allow
  <2>3. ASSUME NEW b \in RW!Windows, RW!Drop(b) PROVE RedisInv'
    BY <2>3, DropStep
  <2>4. CASE RW!Tick
    BY <2>4, RedisTick
  <2> QED
    BY <2>1, <2>2, <2>3, <2>4 DEF RW!Next
<1>3. [Next]_vars => part' = part /\ (part = "redis window" => [RW!Next]_(RW!vars))
  BY DEF Next, vars, redisVars, RW!vars, RW!historyVars
<1>4. (part = "redis window" => RedisInv) /\ [Next]_vars => (part = "redis window" => RedisInv)'
  BY <1>2, <1>3
<1> QED
  BY <1>1, <1>4, PTL DEF Spec

(* RedisLimiter.Allow: for every fleet, window and grace, and however late *)
(* commands are, no more than the limit passes in a window, but for what   *)
(* got no answer and what came after the grace, and nothing is refused     *)
(* before the limit is used up.                                            *)
THEOREM WindowBoundedHolds == Spec => []WindowBounded
<1> USE FleetAssumption
<1>1. RedisInv => RW!WindowBounded
  <2> SUFFICES ASSUME RedisInv, NEW b \in RW!Windows
               PROVE  /\ admitted[b] <= FleetSetup.limit + unanswered[b] + late[b]
                      /\ count[b] >= FleetSetup.limit =>
                             admitted[b] - unanswered[b] + lost[b] >= FleetSetup.limit
    BY DEF RW!WindowBounded
  <2> QED
    BY RedisTyped DEF RedisInv, CounterInv
<1> QED
  BY RedisInvariant, <1>1, PTL DEF WindowBounded

-----------------------------------------------------------------------------
(* The windows of k requests at the times T: w[i] is the request with      *)
(* which the window of the i-th began.  A window is no longer than m, and  *)
(* the next begins more than m after it.                                   *)
Fall(T, k, m, w) ==
    /\ w \in [1 .. k -> 1 .. k]
    /\ \A i \in 1 .. k : w[i] <= i /\ w[w[i]] = w[i] /\ T[i] - T[w[i]] <= m
    /\ \A i \in 2 .. k : w[i] = i => T[i] - T[w[i - 1]] > m

(* U and v are T and w with one request more, at t: it begins a window or  *)
(* falls into the last one.                                                *)
OneMore(T, w, U, v, k, m, t) ==
    /\ U \in [1 .. k + 1 -> Nat] /\ v \in [1 .. k + 1 -> 1 .. k + 1]
    /\ \A i \in 1 .. k : U[i] = T[i] /\ v[i] = w[i]
    /\ U[k + 1] = t
    /\ v[k + 1] = IF k = 0 \/ t - T[w[k]] > m THEN k + 1 ELSE w[k]

(* The requests come one after the other, the last at t at the latest.     *)
InOrder(T, k, t) ==
    /\ T \in [1 .. k -> Nat]
    /\ \A i \in 1 .. k : T[i] <= t
    /\ \A i, j \in 1 .. k : i <= j => T[i] <= T[j]

(* The scorer.  When the requests of ip were counted.                      *)
Times(ip) == [i \in 1 .. Len(counted[ip]) |-> counted[ip][i][1]]

(* A score is a natural number up to 10000.                                *)
IsScore(x) == x \in Nat /\ x <= 10000

(* What the k-th request of a window scores.                               *)
ScoreOf(s, k) == Scores(s)!RateScore([count |-> k, windowStart |-> 0])

CountersTyped(s) ==
    /\ scorerNow \in 0 .. s.maxTime
    /\ ipFrequency \in [s.ips -> [count: Nat, windowStart: Nat]]
    /\ counted \in [s.ips -> Seq(Nat \X Nat)]

(* The requests of an address fall into windows, each scored for its place *)
(* in its window, and the counter is the place of the last.                *)
Windows(s, ip, w) ==
    LET k == Len(counted[ip]) IN
    /\ Fall(Times(ip), k, s.minute, w)
    /\ \A i \in 1 .. k : counted[ip][i][2] = ScoreOf(s, i - w[i] + 1)
    /\ k = 0 => ipFrequency[ip] = Scores(s)!Absent
    /\ k > 0 => ipFrequency[ip] = [count |-> k - w[k] + 1, windowStart |-> Times(ip)[w[k]]]

WindowInv(s) ==
    \A ip \in s.ips : /\ InOrder(Times(ip), Len(counted[ip]), scorerNow)
                      /\ \E w : Windows(s, ip, w)

(* What was answered last, and from which counter.                         *)
AnswerInv(s) ==
    scored # <<>> =>
        LET f == scored[1]
            total == Scores(s)!PatternTotal(f.families)
        IN  /\ f \in Scores(s)!Features
            /\ \/ total >= 7000 /\ scored[3] = "block"
               \/ /\ total < 7000
                  /\ IsScore(scored[4])
                  /\ scored[3] = Scores(s)!ScoreThreshold(
                                     Scores(s)!Cap(total + Scores(s)!AnomalyTotal(f, scored[4])))
                  /\ f.ip \in s.ips =>
                        /\ scorerNow - ipFrequency[f.ip].windowStart <= s.minute
                        /\ scored[4] > 0 => ipFrequency[f.ip].count > s.maxReqPerMinute

ScorerInv(s) == CountersTyped(s) /\ WindowInv(s) /\ AnswerInv(s)

-----------------------------------------------------------------------------
(* Quotients, and the score of a rate: more than the maximum is noticed.   *)
LEMMA Quotients ==
    ASSUME NEW a \in Nat, NEW m \in Nat \ {0}
    PROVE  /\ a \div m \in Nat
           /\ a >= m => a \div m >= 1
  OBVIOUS

(* A score is a number up to the unit.                                     *)
LEMMA ScoresAre ==
    ASSUME NEW s, NEW x
    PROVE  x \in 0 .. Scores(s)!One <=> IsScore(x)
<1>1. Scores(s)!One = 10000
  BY DEF Scores!One
<1>2. Scores(s)!One \in Nat
  BY <1>1
<1>3. x \in 0 .. Scores(s)!One <=> x \in Nat /\ x <= Scores(s)!One
  BY <1>2
<1> QED
  BY <1>1, <1>3 DEF IsScore

(* What the assumption says of a setup, without the names of the module.   *)
LEMMA SetupScored ==
    ASSUME NEW s, Scores(s)!ScorerConstants
    PROVE  /\ s.maxReqPerMinute \in Nat \ {0} /\ s.maxReqPerMinute <= 10000
           /\ s.minute \in Nat /\ s.maxTime \in Nat
           /\ \A x \in s.entropyScores \cup s.charScores : IsScore(x)
           /\ s.lengths \subseteq Nat
           /\ s.families \subseteq {"sqli", "xss", "traversal", "cmd"}
           /\ Scores(s)!NoIP \notin s.ips
<1>1. s.families \subseteq {"sqli", "xss", "traversal", "cmd"}
  BY DEF Scores!ScorerConstants, Scores!Weight
<1>2. /\ s.maxReqPerMinute \in 1 .. Scores(s)!One /\ s.minute \in Nat /\ s.maxTime \in Nat
      /\ \A x \in s.entropyScores \cup s.charScores : x \in 0 .. Scores(s)!One
      /\ s.lengths \subseteq Nat /\ Scores(s)!NoIP \notin s.ips
  BY DEF Scores!ScorerConstants
<1>3. s.maxReqPerMinute \in Nat \ {0} /\ s.maxReqPerMinute <= 10000
  <2>1. Scores(s)!One = 10000
    BY DEF Scores!One
  <2>2. Scores(s)!One \in Nat
    BY <2>1
  <2>3. s.maxReqPerMinute \in Nat \ {0} /\ s.maxReqPerMinute <= Scores(s)!One
    BY <1>2, <2>2
  <2> QED
    BY <2>1, <2>3
<1>4. \A x \in s.entropyScores \cup s.charScores : IsScore(x)
  BY <1>2, ScoresAre
<1> QED
  BY <1>1, <1>2, <1>3, <1>4

(* The scores of user agents,                                              *)
LEMMA UserAgentScores ==
    ASSUME NEW s, Scores(s)!ScorerConstants, NEW u \in s.userAgents
    PROVE  IsScore(Scores(s)!UAScore[u])
<1>1. s.userAgents \subseteq DOMAIN Scores(s)!UAScore
  BY DEF Scores!ScorerConstants
<1>2. \A x \in DOMAIN Scores(s)!UAScore : IsScore(Scores(s)!UAScore[x])
  BY DEF Scores!UAScore, IsScore
<1> QED
  BY <1>1, <1>2

(* of rates, positive beyond the maximum and only there,                   *)
LEMMA RateScores ==
    ASSUME NEW s, Scores(s)!ScorerConstants, NEW c, c.count \in Nat
    PROVE  /\ IsScore(Scores(s)!RateScore(c))
           /\ Scores(s)!RateScore(c) > 0 <=> c.count > s.maxReqPerMinute
           /\ Scores(s)!RateScore(c) = ScoreOf(s, c.count)
<1> DEFINE m == s.maxReqPerMinute
           a == (c.count - m) * 10000
           q == a \div m
<1>1. m \in Nat \ {0} /\ m <= 10000
  BY SetupScored
<1>2. ScoreOf(s, c.count) = Scores(s)!RateScore(c)
  BY DEF ScoreOf, Scores!RateScore
<1>3. Scores(s)!RateScore(c) = IF c.count > m THEN (IF q > 10000 THEN 10000 ELSE q) ELSE 0
  BY DEF Scores!RateScore, Scores!Cap, Scores!One
<1>4. CASE c.count > m
  <2>1. a \in Nat /\ a >= m
    BY <1>1, <1>4
  <2>2. q \in Nat /\ q >= 1
    BY <2>1, <1>1, Quotients
  <2> HIDE DEF q
  <2> QED
    BY <1>2, <1>3, <1>4, <2>2 DEF IsScore
<1>5. CASE ~(c.count > m)
  BY <1>2, <1>3, <1>5 DEF IsScore
<1> QED
  BY <1>4, <1>5

(* The sums: anomalies alone are no more than a half, one pattern two      *)
(* thirds, and any but the traversal enough to block.                      *)
LEMMA AnomaliesBounded ==
    ASSUME NEW s, Scores(s)!ScorerConstants, NEW f \in Scores(s)!Features, NEW rate, IsScore(rate)
    PROVE  Scores(s)!AnomalyTotal(f, rate) \in Nat /\ Scores(s)!AnomalyTotal(f, rate) <= 5000
<1> DEFINE entropy == f.entropy
           chars == f.chars
           length == f.length
           ua == Scores(s)!UAScore[f.ua]
           excess == (length * 10000) \div 4
           long == IF length > 1 THEN (IF excess > 10000 THEN 10000 ELSE excess) ELSE 0
<1>1. /\ f.entropy \in s.entropyScores /\ f.chars \in s.charScores /\ f.length \in s.lengths
      /\ f.ua \in s.userAgents
  BY DEF Scores!Features
<1>2. IsScore(entropy) /\ IsScore(chars) /\ length \in Nat
  BY <1>1, SetupScored
<1>3. IsScore(ua)
  BY <1>1, UserAgentScores
<1>4. Scores(s)!AnomalyTotal(f, rate) =
        ((entropy * 15) \div 100) + ((chars * 10) \div 100) + ((ua * 10) \div 100)
          + ((rate * 10) \div 100) + ((long * 5) \div 100)
  BY DEF Scores!AnomalyTotal, Scores!Part, Scores!LengthScore, Scores!Cap, Scores!One
<1> HIDE DEF entropy, chars, length, ua
<1>5. excess \in Nat
  BY <1>2
<1> HIDE DEF excess
<1>6. IsScore(long)
  BY <1>5 DEF IsScore
<1> HIDE DEF long
<1> QED
  BY <1>2, <1>3, <1>4, <1>6 DEF IsScore

(* and of patterns: any is suspicious, and all but the traversal reach a   *)
(* block.                                                                  *)
LEMMA PatternsWeigh ==
    ASSUME NEW s, Scores(s)!ScorerConstants, NEW F \in SUBSET s.families
    PROVE  /\ Scores(s)!PatternTotal(F) \in Nat
           /\ F = {} => Scores(s)!PatternTotal(F) = 0
           /\ F # {} => Scores(s)!PatternTotal(F) >= 6750
           /\ F \cap {"sqli", "xss", "cmd"} # {} => Scores(s)!PatternTotal(F) >= 7000
<1>1. F \subseteq {"sqli", "xss", "traversal", "cmd"}
  BY SetupScored
<1> DEFINE of(f) == IF f \in F THEN Scores(s)!Part(Scores(s)!PatternScore, Scores(s)!Weight[f])
                               ELSE 0
<1>2. Scores(s)!PatternTotal(F) = of("sqli") + of("xss") + of("traversal") + of("cmd")
  BY Zenon DEF Scores!PatternTotal
<1>3. /\ Scores(s)!Part(Scores(s)!PatternScore, Scores(s)!Weight["sqli"]) = 7200
      /\ Scores(s)!Part(Scores(s)!PatternScore, Scores(s)!Weight["xss"]) = 7200
      /\ Scores(s)!Part(Scores(s)!PatternScore, Scores(s)!Weight["traversal"]) = 6750
      /\ Scores(s)!Part(Scores(s)!PatternScore, Scores(s)!Weight["cmd"]) = 7200
  BY DEF Scores!Part, Scores!PatternScore, Scores!Weight
<1> DEFINE a == of("sqli")
           b == of("xss")
           c == of("traversal")
           d == of("cmd")
<1>4. /\ a = IF "sqli" \in F THEN 7200 ELSE 0
      /\ b = IF "xss" \in F THEN 7200 ELSE 0
      /\ c = IF "traversal" \in F THEN 6750 ELSE 0
      /\ d = IF "cmd" \in F THEN 7200 ELSE 0
  BY <1>3
<1>5. /\ F # {} => "sqli" \in F \/ "xss" \in F \/ "traversal" \in F \/ "cmd" \in F
      /\ F \cap {"sqli", "xss", "cmd"} # {} => "sqli" \in F \/ "xss" \in F \/ "cmd" \in F
  BY <1>1
<1>6. F = {} => "sqli" \notin F /\ "xss" \notin F /\ "traversal" \notin F /\ "cmd" \notin F
  OBVIOUS
<1>7. Scores(s)!PatternTotal(F) = a + b + c + d
  BY <1>2, Zenon
<1> HIDE DEF a, b, c, d
<1> QED
  BY <1>4, <1>5, <1>6, <1>7

-----------------------------------------------------------------------------
(* They come in order and fall into windows again.                         *)
LEMMA NextPlace ==
    ASSUME NEW k \in Nat, NEW m \in Nat, NEW t \in Nat,
           NEW T, InOrder(T, k, t), NEW w, Fall(T, k, m, w),
           NEW U, NEW v, OneMore(T, w, U, v, k, m, t)
    PROVE  InOrder(U, k + 1, t) /\ Fall(U, k + 1, m, v)
<1> USE DEF OneMore
<1>1. \A i \in 1 .. k + 1 : i = k + 1 \/ i \in 1 .. k
  OBVIOUS
<1>2. \A i \in 1 .. k : U[i] = T[i] /\ T[i] \in Nat /\ T[i] <= t
  BY DEF InOrder
<1>3. InOrder(U, k + 1, t)
  <2>1. \A i \in 1 .. k + 1 : U[i] <= t
    <3>1. U[k + 1] <= t
      OBVIOUS
    <3>2. \A i \in 1 .. k : U[i] <= t
      BY <1>2
    <3> QED
      BY <1>1, <3>1, <3>2, Zenon
  <2>2. \A i, j \in 1 .. k : i <= j => U[i] <= U[j]
    BY <1>2 DEF InOrder
  <2>3. \A i, j \in 1 .. k + 1 : i <= j => (i \in 1 .. k /\ j \in 1 .. k) \/ j = k + 1
    BY <1>1
  <2>4. \A i, j \in 1 .. k + 1 : i <= j => U[i] <= U[j]
    BY <2>1, <2>2, <2>3
  <2> QED
    BY <2>1, <2>4 DEF InOrder
<1>4. \A i \in 1 .. k : /\ v[i] = w[i] /\ v[i] \in 1 .. k /\ v[v[i]] = v[i] /\ v[i] <= i
                        /\ U[i] - U[v[i]] <= m
  BY <1>2 DEF Fall
<1>5. /\ v[v[k + 1]] = v[k + 1] /\ v[k + 1] <= k + 1 /\ t - U[v[k + 1]] <= m
      /\ v[k + 1] = k + 1 /\ k > 0 => t - U[v[k]] > m
  <2>1. CASE k = 0
    BY <2>1
  <2>2. CASE k > 0 /\ t - T[w[k]] > m
    <3>1. v[k + 1] = k + 1 /\ v[k] = w[k] /\ w[k] \in 1 .. k
      BY <1>4, <2>2
    <3> QED
      BY <1>2, <2>2, <3>1
  <2>3. CASE k > 0 /\ ~(t - T[w[k]] > m)
    <3>1. v[k + 1] = w[k] /\ v[k] = w[k] /\ w[k] \in 1 .. k /\ v[w[k]] = w[k]
      BY <1>4, <2>3
    <3> QED
      BY <1>2, <2>3, <3>1
  <2> QED
    BY <2>1, <2>2, <2>3
<1>6. \A i \in 2 .. k : v[i] = i => U[i] - U[v[i - 1]] > m
  <2> SUFFICES ASSUME NEW i \in 2 .. k, v[i] = i
               PROVE  U[i] - U[v[i - 1]] > m
    OBVIOUS
  <2>1. i - 1 \in 1 .. k /\ i \in 1 .. k
    OBVIOUS
  <2>2. T[i] - T[w[i - 1]] > m
    BY <1>4, <2>1 DEF Fall
  <2>3. v[i - 1] = w[i - 1] /\ w[i - 1] \in 1 .. k
    BY <1>4, <2>1
  <2>4. U[i] = T[i] /\ U[w[i - 1]] = T[w[i - 1]]
    BY <1>2, <2>1, <2>3
  <2> QED
    BY <2>2, <2>3, <2>4
<1>7. \A i \in 1 .. k + 1 : v[i] <= i /\ v[v[i]] = v[i] /\ U[i] - U[v[i]] <= m
  BY <1>1, <1>4, <1>5
<1>8. \A i \in 2 .. k + 1 : v[i] = i => U[i] - U[v[i - 1]] > m
  <2>1. \A i \in 2 .. k + 1 : i \in 2 .. k \/ (i = k + 1 /\ i - 1 = k /\ k > 0)
    OBVIOUS
  <2> QED
    BY <1>5, <1>6, <2>1
<1> QED
  BY <1>3, <1>7, <1>8 DEF Fall

(* A request of ip is counted: its score is that of its place.             *)
LEMMA WindowGrows ==
    ASSUME NEW s, Scores(s)!ScorerConstants, CountersTyped(s), NEW ip \in s.ips,
           InOrder(Times(ip), Len(counted[ip]), scorerNow), NEW w, Windows(s, ip, w),
           NEW c, c = Scores(s)!Counter(ip), ipFrequency'[ip] = c,
           counted'[ip] = Append(counted[ip], <<scorerNow, Scores(s)!RateScore(c)>>)
    PROVE  /\ c \in [count: Nat, windowStart: Nat]
           /\ scorerNow - c.windowStart <= s.minute
           /\ InOrder(Times(ip)', Len(counted[ip])', scorerNow)
           /\ \E v : Windows(s, ip, v)'
<1>k. PICK k \in Nat : k = Len(counted[ip])
  BY DEF CountersTyped
<1>t. PICK T : T = Times(ip)
  OBVIOUS
<1>u. PICK U : U = [i \in 1 .. k + 1 |-> IF i <= k THEN T[i] ELSE scorerNow]
  OBVIOUS
<1> DEFINE fresh == k = 0 \/ scorerNow - T[w[k]] > s.minute
<1>1. counted[ip] \in Seq(Nat \X Nat) /\ scorerNow \in Nat /\ s.minute \in Nat
  BY SetupScored DEF CountersTyped
<1>2. /\ Len(counted[ip]) = k /\ Len(counted'[ip]) = k + 1
      /\ \A i \in 1 .. k : counted'[ip][i] = counted[ip][i]
      /\ counted'[ip][k + 1] = <<scorerNow, Scores(s)!RateScore(c)>>
  BY <1>1, <1>k
<1>3. Times(ip)' = U
  <2>1. Times(ip)' = [i \in 1 .. k + 1 |-> counted'[ip][i][1]]
    BY <1>2 DEF Times
  <2>2. \A i \in 1 .. k + 1 : counted'[ip][i][1] = IF i <= k THEN T[i] ELSE scorerNow
    BY <1>2, <1>t DEF Times
  <2> QED
    BY <1>u, <2>1, <2>2
<1>4. InOrder(T, k, scorerNow) /\ Fall(T, k, s.minute, w)
  BY <1>2, <1>t DEF Windows
<1>5. U \in [1 .. k + 1 -> Nat] /\ U[k + 1] = scorerNow /\ \A i \in 1 .. k : U[i] = T[i]
  BY <1>1, <1>4, <1>u DEF InOrder
<1>6. k > 0 => w[k] \in 1 .. k /\ T[w[k]] \in Nat
  BY <1>4 DEF Fall, InOrder
<1>7. ipFrequency[ip] = IF k = 0 THEN Scores(s)!Absent
                        ELSE [count |-> k - w[k] + 1, windowStart |-> T[w[k]]]
  BY <1>2, <1>t DEF Windows
<1>8. c = IF fresh THEN [count |-> 1, windowStart |-> scorerNow]
          ELSE [count |-> k - w[k] + 2, windowStart |-> T[w[k]]]
  <2>1. CASE k = 0
    BY <1>7, <2>1 DEF Scores!Counter
  <2>2. CASE k > 0
    <3>1. ipFrequency[ip] = [count |-> k - w[k] + 1, windowStart |-> T[w[k]]]
      BY <1>7, <2>2
    <3>2. ipFrequency[ip] # Scores(s)!Absent
      BY <1>6, <2>2, <3>1 DEF Scores!Absent
    <3>3. c = IF fresh THEN [count |-> 1, windowStart |-> scorerNow]
              ELSE [ipFrequency[ip] EXCEPT !.count = @ + 1]
      BY <2>2, <3>1, <3>2 DEF Scores!Counter
    <3>4. [ipFrequency[ip] EXCEPT !.count = @ + 1] = [count |-> k - w[k] + 2, windowStart |-> T[w[k]]]
      BY <1>6, <2>2, <3>1
    <3> QED
      BY <3>3, <3>4
  <2> QED
    BY <2>1, <2>2
<1>v. PICK v : v = [i \in 1 .. k + 1 |-> IF i <= k THEN w[i] ELSE IF fresh THEN k + 1 ELSE w[k]]
  OBVIOUS
<1>9. /\ \A i \in 1 .. k : v[i] = w[i]
      /\ v[k + 1] = IF fresh THEN k + 1 ELSE w[k]
      /\ v \in [1 .. k + 1 -> 1 .. k + 1]
  <2>1. \A i \in 1 .. k : w[i] \in 1 .. k
    BY <1>4 DEF Fall
  <2>2. ~fresh => w[k] \in 1 .. k
    BY <1>6
  <2> QED
    BY <1>v, <2>1, <2>2
<1>10. InOrder(U, k + 1, scorerNow) /\ Fall(U, k + 1, s.minute, v)
  <2>1. OneMore(T, w, U, v, k, s.minute, scorerNow)
    BY <1>5, <1>9 DEF OneMore
  <2> QED
    BY <1>1, <1>4, <2>1, NextPlace, Zenon
<1>11. c.count = (k + 1) - v[k + 1] + 1 /\ c.windowStart = U[v[k + 1]]
  <2>1. CASE fresh
    BY <1>5, <1>8, <1>9, <2>1
  <2>2. CASE ~fresh
    <3>1. k > 0 /\ w[k] \in 1 .. k
      BY <1>6, <2>2
    <3>2. v[k + 1] = w[k] /\ U[w[k]] = T[w[k]]
      BY <1>5, <1>9, <2>2, <3>1
    <3>3. c.count = k - w[k] + 2 /\ c.windowStart = T[w[k]]
      BY <1>8, <2>2
    <3> QED
      BY <3>1, <3>2, <3>3
  <2> QED
    BY <2>1, <2>2
<1>12. /\ c \in [count: Nat, windowStart: Nat] /\ scorerNow - c.windowStart <= s.minute
       /\ c = [count |-> c.count, windowStart |-> c.windowStart]
  <2>1. CASE fresh
    BY <1>1, <1>8, <2>1
  <2>2. CASE ~fresh
    <3>1. k # 0 /\ ~(scorerNow - T[w[k]] > s.minute)
      BY <2>2
    <3>2. scorerNow - T[w[k]] <= s.minute
      BY <1>1, <1>6, <3>1
    <3> QED
      BY <1>6, <1>8, <2>2, <3>1, <3>2
  <2> QED
    BY <2>1, <2>2
<1>13. Windows(s, ip, v)'
  <2> DEFINE score(i) == ScoreOf(s, i - v[i] + 1)
  <2>1. Scores(s)!RateScore(c) = score(k + 1)
    <3>1. Scores(s)!RateScore(c) = ScoreOf(s, c.count)
      BY <1>12, RateScores
    <3>2. \A x : x = c.count => Scores(s)!RateScore(c) = ScoreOf(s, x)
      BY <3>1
    <3> QED
      BY <1>11, <3>2
  <2>2. \A i \in 1 .. k : counted[ip][i][2] = score(i)
    BY <1>2, <1>9 DEF Windows
  <2> HIDE DEF score
  <2>3. \A i \in 1 .. k + 1 : counted'[ip][i][2] = score(i)
    BY <1>2, <2>1, <2>2
  <2>4. Fall(Times(ip)', Len(counted'[ip]), s.minute, v)
    BY <1>2, <1>3, <1>10, Zenon
  <2>5. Len(counted'[ip]) # 0
    BY <1>2
  <2>6. \A i \in 1 .. Len(counted'[ip]) : counted'[ip][i][2] = ScoreOf(s, i - v[i] + 1)
    BY <1>2, <2>3 DEF score
  <2>7. ipFrequency'[ip] = [count |-> Len(counted'[ip]) - v[Len(counted'[ip])] + 1,
                            windowStart |-> Times(ip)'[v[Len(counted'[ip])]]]
    <3>1. \A x, y : x = c.count /\ y = c.windowStart =>
              ipFrequency'[ip] = [count |-> x, windowStart |-> y]
      BY <1>12
    <3>2. Times(ip)'[v[Len(counted'[ip])]] = U[v[k + 1]] /\ Len(counted'[ip]) = k + 1
      BY <1>2, <1>3
    <3> QED
      BY <1>11, <3>1, <3>2
  <2> QED
    BY <2>4, <2>5, <2>6, <2>7, Zenon DEF Windows
<1> QED
  BY <1>2, <1>3, <1>10, <1>12, <1>13

(* No address has been counted yet.                                        *)
LEMMA ScorerInit ==
    ASSUME NEW s, Scores(s)!ScorerConstants, Scores(s)!Init
    PROVE  ScorerInv(s)
<1>1. CountersTyped(s)
  BY SetupScored DEF Scores!Init, Scores!Absent, CountersTyped
<1>2. WindowInv(s)
  <2> SUFFICES ASSUME NEW ip \in s.ips
               PROVE  /\ InOrder(Times(ip), Len(counted[ip]), scorerNow)
                      /\ \E w : Windows(s, ip, w)
    BY DEF WindowInv
  <2>1. counted[ip] = <<>> /\ Len(counted[ip]) = 0 /\ ipFrequency[ip] = Scores(s)!Absent
    BY DEF Scores!Init
  <2>2. InOrder(Times(ip), 0, scorerNow)
    BY <2>1 DEF InOrder, Times
  <2>3. Windows(s, ip, [i \in 1 .. 0 |-> i])
    BY <2>1 DEF Windows, Fall
  <2> QED
    BY <2>1, <2>2, <2>3
<1>3. AnswerInv(s)
  BY DEF Scores!Init, AnswerInv
<1> QED
  BY <1>1, <1>2, <1>3 DEF ScorerInv

(* What the counters say depends on them only, and time may pass.          *)
LEMMA CountersStay ==
    ASSUME NEW s, Scores(s)!ScorerConstants, CountersTyped(s), WindowInv(s),
           scorerNow' \in 0 .. s.maxTime, scorerNow <= scorerNow',
           UNCHANGED <<ipFrequency, counted>>
    PROVE  CountersTyped(s)' /\ WindowInv(s)'
<1>1. CountersTyped(s)'
  BY DEF CountersTyped
<1>2. ASSUME NEW ip \in s.ips
      PROVE  /\ InOrder(Times(ip), Len(counted[ip]), scorerNow)'
             /\ \E w : Windows(s, ip, w)'
  <2>1. Times(ip)' = Times(ip)
    BY DEF Times
  <2>2. PICK w : Windows(s, ip, w)
    BY DEF WindowInv
  <2>3. Windows(s, ip, w)'
    BY <2>1, <2>2 DEF Windows
  <2>4. InOrder(Times(ip), Len(counted[ip]), scorerNow)
    BY DEF WindowInv
  <2>5. Len(counted[ip]) = Len(counted'[ip]) /\ scorerNow \in Nat /\ scorerNow' \in Nat
    BY SetupScored DEF CountersTyped
  <2>6. InOrder(Times(ip), Len(counted[ip]), scorerNow')
    BY <2>4, <2>5 DEF InOrder
  <2> QED
    BY <2>1, <2>3, <2>5, <2>6
<1> QED
  BY <1>1, <1>2 DEF WindowInv

(* Every request of an address joins the window of the one before or       *)
(* begins its own, as its counter does.                                    *)
LEMMA ScorerStep ==
    ASSUME NEW s, Scores(s)!ScorerConstants, ScorerInv(s), Scores(s)!Next
    PROVE  ScorerInv(s)'
<1> USE DEF ScorerInv
<1>1. CASE Scores(s)!Tick
  <2>1. scorerNow' \in 0 .. s.maxTime /\ scorerNow <= scorerNow'
    BY <1>1, SetupScored DEF Scores!Tick, CountersTyped
  <2>2. UNCHANGED <<ipFrequency, counted>> /\ scored' = <<>>
    BY <1>1 DEF Scores!Tick
  <2>3. AnswerInv(s)'
    BY <2>2 DEF AnswerInv
  <2> QED
    BY <2>1, <2>2, <2>3, CountersStay
<1>2. CASE Scores(s)!Return
  <2>1. UNCHANGED <<scorerNow, ipFrequency, counted>> /\ scored' = <<>>
    BY <1>2 DEF Scores!Return
  <2>2. scorerNow' \in 0 .. s.maxTime /\ scorerNow <= scorerNow'
    BY <2>1, SetupScored DEF CountersTyped
  <2>3. AnswerInv(s)'
    BY <2>1 DEF AnswerInv
  <2> QED
    BY <2>1, <2>2, <2>3, CountersStay
<1>3. ASSUME NEW f \in Scores(s)!Features, Scores(s)!EvaluatePatterns(f)
      PROVE  ScorerInv(s)'
  <2>1. /\ UNCHANGED <<scorerNow, ipFrequency, counted>>
        /\ Scores(s)!PatternTotal(f.families) >= 7000
        /\ scored' = <<f, Scores(s)!PatternTotal(f.families), "block", 0>>
    BY <1>3 DEF Scores!EvaluatePatterns
  <2>2. scorerNow' \in 0 .. s.maxTime /\ scorerNow <= scorerNow'
    BY <2>1, SetupScored DEF CountersTyped
  <2>3. AnswerInv(s)'
    BY <2>1 DEF AnswerInv
  <2> QED
    BY <2>1, <2>2, <2>3, CountersStay
<1>4. ASSUME NEW f \in Scores(s)!Features, Scores(s)!EvaluateAll(f)
      PROVE  ScorerInv(s)'
  <2> DEFINE total == Scores(s)!PatternTotal(f.families)
             answered(c) ==
                 scored' = <<f, Scores(s)!Cap(total + Scores(s)!AnomalyTotal(f, Scores(s)!RateScore(c))),
                             Scores(s)!ScoreThreshold(
                                 Scores(s)!Cap(total + Scores(s)!AnomalyTotal(f, Scores(s)!RateScore(c)))),
                             Scores(s)!RateScore(c)>>
  <2>1. scorerNow' = scorerNow /\ total < 7000 /\ f.ip \in s.ips \cup {Scores(s)!NoIP}
    BY <1>4 DEF Scores!EvaluateAll, Scores!Features
  <2>2. scorerNow' \in 0 .. s.maxTime /\ scorerNow <= scorerNow'
    BY <2>1, SetupScored DEF CountersTyped
  <2>3. ASSUME NEW c, c.count \in Nat, answered(c),
               f.ip \in s.ips => /\ ipFrequency'[f.ip] = c
                                 /\ scorerNow - c.windowStart <= s.minute
        PROVE  AnswerInv(s)'
    <3>1. /\ scored'[1] = f /\ scored'[4] = Scores(s)!RateScore(c)
          /\ scored'[3] = Scores(s)!ScoreThreshold(
                              Scores(s)!Cap(total + Scores(s)!AnomalyTotal(f, scored'[4])))
      BY <2>3
    <3>2. IsScore(scored'[4]) /\ (scored'[4] > 0 => c.count > s.maxReqPerMinute)
      BY <2>3, <3>1, RateScores
    <3> QED
      BY <2>1, <2>3, <3>1, <3>2 DEF AnswerInv
  <2>4. CASE f.ip = Scores(s)!NoIP
    <3>1. UNCHANGED <<ipFrequency, counted>> /\ answered(Scores(s)!Absent)
      BY <1>4, <2>4 DEF Scores!EvaluateAll
    <3>2. Scores(s)!Absent.count \in Nat
      BY DEF Scores!Absent
    <3>3. f.ip \notin s.ips
      BY <2>4, SetupScored
    <3> QED
      BY <2>2, <2>3, <3>1, <3>2, <3>3, CountersStay
  <2>5. CASE f.ip \in s.ips
    <3> DEFINE ip == f.ip
               c == Scores(s)!Counter(ip)
    <3>1. ip # Scores(s)!NoIP
      BY <2>5, SetupScored
    <3>2. /\ answered(c) /\ ipFrequency' = [ipFrequency EXCEPT ![ip] = c]
          /\ counted' = [counted EXCEPT ![ip] = Append(@, <<scorerNow, Scores(s)!RateScore(c)>>)]
      BY <1>4, <3>1 DEF Scores!EvaluateAll
    <3> HIDE DEF c
    <3>3. /\ ipFrequency'[ip] = c
          /\ counted'[ip] = Append(counted[ip], <<scorerNow, Scores(s)!RateScore(c)>>)
      BY <2>5, <3>2 DEF CountersTyped
    <3>4. \A a \in s.ips \ {ip} : ipFrequency'[a] = ipFrequency[a] /\ counted'[a] = counted[a]
      BY <2>5, <3>2 DEF CountersTyped
    <3>5. /\ InOrder(Times(ip), Len(counted[ip]), scorerNow)
          /\ \E w : Windows(s, ip, w)
      BY <2>5 DEF WindowInv
    <3>6. /\ c \in [count: Nat, windowStart: Nat]
          /\ scorerNow - c.windowStart <= s.minute
          /\ InOrder(Times(ip)', Len(counted[ip])', scorerNow)
          /\ \E v : Windows(s, ip, v)'
      <4>1. PICK w : Windows(s, ip, w)
        BY <3>5
      <4>2. c = Scores(s)!Counter(ip)
        BY DEF c
      <4> HIDE DEF ip
      <4> QED
        BY <2>5, <3>3, <3>5, <4>1, <4>2, WindowGrows DEF ip
    <3>7. AnswerInv(s)'
      BY <2>3, <3>2, <3>3, <3>6
    <3>8. CountersTyped(s)'
      <4>1. Scores(s)!RateScore(c) \in Nat /\ scorerNow \in Nat
        BY <3>6, RateScores, SetupScored DEF IsScore, CountersTyped
      <4>2. counted' \in [s.ips -> Seq(Nat \X Nat)]
        BY <2>5, <3>2, <4>1 DEF CountersTyped
      <4>3. ipFrequency' \in [s.ips -> [count: Nat, windowStart: Nat]]
        BY <2>5, <3>2, <3>6 DEF CountersTyped
      <4> QED
        BY <2>2, <4>2, <4>3 DEF CountersTyped
    <3>9. ASSUME NEW a \in s.ips \ {ip}
          PROVE  /\ InOrder(Times(a), Len(counted[a]), scorerNow)'
                 /\ \E w : Windows(s, a, w)'
      <4>1. PICK w : Windows(s, a, w)
        BY DEF WindowInv
      <4>2. /\ Times(a)' = Times(a) /\ counted'[a] = counted[a] /\ ipFrequency'[a] = ipFrequency[a]
        BY <3>4, <3>9 DEF Times
      <4>3. Windows(s, a, w)'
        BY <4>1, <4>2 DEF Windows
      <4> QED
        BY <2>1, <4>2, <4>3 DEF WindowInv
    <3>10. WindowInv(s)'
      BY <2>1, <3>6, <3>9 DEF WindowInv
    <3> QED
      BY <3>7, <3>8, <3>10
  <2> QED
    BY <2>1, <2>4, <2>5
<1> QED
  BY <1>1, <1>2, <1>3, <1>4 DEF Scores!Next

(* Of more than twice max requests within m, one is more than the max-th   *)
(* of its window: the last window began after the first of them, and the   *)
(* one before it too, or the two would be more than m apart.               *)
LEMMA BurstIsNoticed ==
    ASSUME NEW k \in Nat, NEW m \in Nat, NEW t \in Nat, NEW max \in Nat \ {0},
           NEW T, InOrder(T, k, t), NEW w, Fall(T, k, m, w),
           NEW i \in 1 .. k, NEW j \in 1 .. k, j - i = 2 * max, T[j] - T[i] <= m
    PROVE  \E l \in i .. j : l - w[l] + 1 > max
<1> SUFFICES ASSUME \A l \in i .. j : l - w[l] + 1 <= max
             PROVE  FALSE
  <2>1. \A l \in i .. j : l \in Int /\ w[l] \in Int
    BY DEF Fall
  <2> QED
    BY <2>1
<1>1. PICK b \in 1 .. k : b = w[j] /\ w[b] = b
  BY DEF Fall
<1>2. b > i + max /\ b <= j
  <2>1. j \in i .. j /\ w[j] <= j
    BY DEF Fall
  <2> QED
    BY <1>1, <2>1
<1>3. PICK a \in 1 .. k : a = w[b - 1]
  <2>1. b - 1 \in 1 .. k
    BY <1>2
  <2> QED
    BY <2>1 DEF Fall
<1>4. a > i
  <2>1. b - 1 \in i .. j
    BY <1>2
  <2> QED
    BY <1>2, <1>3, <2>1
<1>5. T[b] - T[a] > m
  <2>1. b \in 2 .. k
    BY <1>2
  <2> QED
    BY <1>1, <1>3, <2>1 DEF Fall
<1>6. T[b] <= T[j] /\ T[i] <= T[a] /\ T[a] \in Nat /\ T[b] \in Nat /\ T[i] \in Nat /\ T[j] \in Nat
  BY <1>2, <1>4 DEF InOrder
<1> QED
  BY <1>5, <1>6

(* A set of indexes that has all from a to k has at least so many.         *)
LEMMA IntervalWithin ==
    ASSUME NEW k \in Nat, NEW a \in 1 .. k, NEW S, a .. k \subseteq S, S \subseteq 1 .. k
    PROVE  Cardinality(S) \in Nat /\ Cardinality(S) >= (k - a) + 1
<1>1. IsFiniteSet(1 .. k)
  BY FS_Interval
<1>2. IsFiniteSet(S)
  BY <1>1, FS_Subset
<1>3. Cardinality(a .. k) = (k - a) + 1
  BY FS_Interval
<1>4. Cardinality(a .. k) <= Cardinality(S)
  BY <1>2, FS_Subset
<1> QED
  BY <1>2, <1>3, <1>4, FS_CardinalityType

(* A counter counts what was counted since its window began.               *)
LEMMA CounterCounts ==
    ASSUME NEW s, CountersTyped(s), WindowInv(s), NEW ip \in s.ips, ipFrequency[ip].count > 0
    PROVE  LET c == Cardinality(Scores(s)!Since(ip, ipFrequency[ip].windowStart))
           IN  c \in Nat /\ c >= ipFrequency[ip].count
<1>s. PICK S : S = Scores(s)!Since(ip, ipFrequency[ip].windowStart)
  OBVIOUS
<1>k. PICK k \in Nat : k = Len(counted[ip])
  BY DEF CountersTyped
<1>w. PICK w : Windows(s, ip, w)
  BY DEF WindowInv
<1>1. k > 0
  BY <1>k, <1>w DEF Windows, Scores!Absent
<1>2. PICK a \in 1 .. k : a = w[k]
  BY <1>k, <1>w, <1>1 DEF Windows, Fall
<1>3. ipFrequency[ip] = [count |-> (k - a) + 1, windowStart |-> Times(ip)[a]]
  BY <1>k, <1>w, <1>1, <1>2 DEF Windows
<1>4. a .. k \subseteq S
  <2> SUFFICES ASSUME NEW i \in a .. k
               PROVE  i \in S
    OBVIOUS
  <2>1. InOrder(Times(ip), k, scorerNow) /\ i \in 1 .. k
    BY <1>k DEF WindowInv
  <2>2. Times(ip)[a] <= Times(ip)[i] /\ Times(ip)[a] \in Nat /\ Times(ip)[i] \in Nat
    BY <2>1 DEF InOrder
  <2>3. counted[ip][i][1] = Times(ip)[i] /\ i \in 1 .. Len(counted[ip])
    BY <1>k, <2>1 DEF Times
  <2> QED
    BY <1>s, <1>3, <2>2, <2>3 DEF Scores!Since
<1>5. S \subseteq 1 .. k
  BY <1>s, <1>k DEF Scores!Since
<1>6. Cardinality(S) \in Nat /\ Cardinality(S) >= (k - a) + 1
  BY <1>4, <1>5, IntervalWithin
<1> QED
  BY <1>s, <1>3, <1>6

(* The invariant implies what is promised of the scores.                   *)
LEMMA ScoresFollow ==
    ASSUME NEW s, Scores(s)!ScorerConstants, ScorerInv(s)
    PROVE  Scores(s)!ScoresJustified
<1> USE DEF ScorerInv
<1> DEFINE f == scored[1]
           total == Scores(s)!PatternTotal(f.families)
           anomalies == Scores(s)!AnomalyTotal(f, scored[4])
<1>1. ASSUME scored # <<>>
      PROVE  /\ f \in Scores(s)!Features /\ f.families \in SUBSET s.families
             /\ total \in Nat
             /\ f.families = {} => total = 0
             /\ f.families # {} => total >= 6750
             /\ f.families \cap {"sqli", "xss", "cmd"} # {} => total >= 7000
             /\ total >= 7000 => scored[3] = "block"
             /\ total < 7000 => /\ IsScore(scored[4])
                                /\ anomalies \in Nat /\ anomalies <= 5000
                                /\ scored[3] = Scores(s)!ScoreThreshold(Scores(s)!Cap(total + anomalies))
  <2>1. f \in Scores(s)!Features /\ f.families \in SUBSET s.families
    BY <1>1 DEF AnswerInv, Scores!Features
  <2>2. /\ total \in Nat
        /\ f.families = {} => total = 0
        /\ f.families # {} => total >= 6750
        /\ f.families \cap {"sqli", "xss", "cmd"} # {} => total >= 7000
    BY <2>1, PatternsWeigh
  <2>3. \/ total >= 7000 /\ scored[3] = "block"
        \/ /\ total < 7000 /\ IsScore(scored[4])
           /\ scored[3] = Scores(s)!ScoreThreshold(Scores(s)!Cap(total + anomalies))
    BY <1>1 DEF AnswerInv
  <2>4. IsScore(scored[4]) => anomalies \in Nat /\ anomalies <= 5000
    BY <2>1, AnomaliesBounded
  <2> HIDE DEF f, total, anomalies
  <2>5. ~(total >= 7000 /\ total < 7000)
    BY <2>2
  <2> QED
    BY <2>1, <2>2, <2>3, <2>4, <2>5
<1>2. Scores(s)!BlockHasEvidence
  <2> SUFFICES ASSUME scored # <<>>, scored[3] = "block", f.families = {}
               PROVE  FALSE
    BY DEF Scores!BlockHasEvidence, Scores!Answered, Scores!Verdict, Scores!Asked
  <2>1. total = 0 /\ anomalies \in Nat /\ anomalies <= 5000
        /\ scored[3] = Scores(s)!ScoreThreshold(Scores(s)!Cap(total + anomalies))
    BY <1>1
  <2> HIDE DEF f, total, anomalies
  <2> QED
    BY <2>1 DEF Scores!ScoreThreshold, Scores!Cap, Scores!One
<1>3. Scores(s)!EvidenceCounts
  <2> SUFFICES ASSUME scored # <<>>
               PROVE  /\ f.families # {} => scored[3] # "allow"
                      /\ f.families \cap {"sqli", "xss", "cmd"} # {} => scored[3] = "block"
    BY DEF Scores!EvidenceCounts, Scores!Answered, Scores!Verdict, Scores!Asked
  <2>1. ASSUME f.families # {} PROVE scored[3] # "allow"
    <3>1. total \in Nat /\ total >= 6750 /\ (total >= 7000 => scored[3] = "block")
          /\ (total < 7000 =>
                /\ anomalies \in Nat
                /\ scored[3] = Scores(s)!ScoreThreshold(Scores(s)!Cap(total + anomalies)))
      BY <1>1, <2>1
    <3> HIDE DEF f, total, anomalies
    <3> QED
      BY <3>1 DEF Scores!ScoreThreshold, Scores!Cap, Scores!One
  <2> QED
    BY <1>1, <2>1
<1>4. Scores(s)!RateJustified
  <2> SUFFICES ASSUME scored # <<>>, f.ip # Scores(s)!NoIP, total < 7000
               PROVE  /\ scorerNow - ipFrequency[f.ip].windowStart <= s.minute
                      /\ scored[4] > 0 =>
                           Scores(s)!Cardinality(Scores(s)!Since(f.ip, ipFrequency[f.ip].windowStart))
                               > s.maxReqPerMinute
    BY DEF Scores!RateJustified, Scores!Answered, Scores!Asked
  <2>1. f.ip \in s.ips /\ total \in Nat
    BY <1>1 DEF Scores!Features
  <2>2. /\ scorerNow - ipFrequency[f.ip].windowStart <= s.minute
        /\ scored[4] > 0 => ipFrequency[f.ip].count > s.maxReqPerMinute
    BY <2>1 DEF AnswerInv
  <2>3. ipFrequency[f.ip].count \in Nat /\ s.maxReqPerMinute \in Nat
    BY <2>1, SetupScored DEF CountersTyped
  <2> DEFINE counting(ip) == Cardinality(Scores(s)!Since(ip, ipFrequency[ip].windowStart))
  <2>4. ASSUME NEW ip \in s.ips, ipFrequency[ip].count > 0
        PROVE  counting(ip) \in Nat /\ counting(ip) >= ipFrequency[ip].count
    BY <2>4, CounterCounts
  <2>5. Scores(s)!Cardinality(Scores(s)!Since(f.ip, ipFrequency[f.ip].windowStart)) = counting(f.ip)
    BY DEF Scores!Cardinality, Cardinality
  <2> HIDE DEF f, total, counting
  <2>6. ipFrequency[f.ip].count > 0 => counting(f.ip) \in Nat /\ counting(f.ip) >= ipFrequency[f.ip].count
    BY <2>1, <2>4
  <2> QED
    BY <2>2, <2>3, <2>5, <2>6
<1>5. Scores(s)!RateNoticed
  <2> SUFFICES ASSUME NEW ip \in s.ips, NEW i \in 1 .. Len(counted[ip]), NEW j \in 1 .. Len(counted[ip]),
                      j - i = 2 * s.maxReqPerMinute,
                      counted[ip][j][1] - counted[ip][i][1] <= s.minute
               PROVE  \E l \in i .. j : counted[ip][l][2] > 0
    BY DEF Scores!RateNoticed
  <2>1. PICK w : Windows(s, ip, w)
    BY DEF WindowInv
  <2>2. Times(ip)[j] - Times(ip)[i] <= s.minute
    BY DEF Times
  <2>3. /\ Len(counted[ip]) \in Nat /\ scorerNow \in Nat /\ s.minute \in Nat
        /\ s.maxReqPerMinute \in Nat \ {0}
    BY SetupScored DEF CountersTyped
  <2>4. InOrder(Times(ip), Len(counted[ip]), scorerNow) /\ Fall(Times(ip), Len(counted[ip]), s.minute, w)
    BY <2>1 DEF WindowInv, Windows
  <2>5. PICK l \in i .. j : l - w[l] + 1 > s.maxReqPerMinute
    BY <2>2, <2>3, <2>4, BurstIsNoticed, Zenon
  <2>6. l \in 1 .. Len(counted[ip]) /\ w[l] \in 1 .. l
    <3>1. l \in 1 .. Len(counted[ip])
      BY <2>3
    <3>2. w[l] \in 1 .. Len(counted[ip]) /\ w[l] <= l
      BY <2>4, <3>1 DEF Fall
    <3> QED
      BY <3>1, <3>2
  <2> DEFINE c == [count |-> l - w[l] + 1, windowStart |-> 0]
  <2>7. Scores(s)!RateScore(c) > 0
    <3>1. c.count \in Nat /\ c.count > s.maxReqPerMinute
      BY <2>5, <2>6
    <3> QED
      BY <3>1, RateScores
  <2>8. counted[ip][l][2] = ScoreOf(s, l - w[l] + 1)
    BY <2>1, <2>6 DEF Windows
  <2> QED
    BY <2>7, <2>8 DEF ScoreOf
<1> QED
  BY <1>2, <1>3, <1>4, <1>5 DEF Scores!ScoresJustified

-----------------------------------------------------------------------------
ScorersInv ==
    /\ part = "scores" => ScorerInv(ScoreSetup)
    /\ part = "rates" => ScorerInv(RateSetup)

(* The invariant of AppSecPlugin.Inspect and of trackRate holds in every   *)
(* behaviour of either setup of the scorer.                                *)
THEOREM ScorerInvariant == Spec => []ScorersInv
<1>1. Init => ScorersInv
  BY ScoreAssumption, ScorerInit DEF Init, ScorersInv
<1>2. ScorersInv /\ [Next]_vars => ScorersInv'
  <2> SUFFICES ASSUME ScorersInv, [Next]_vars
               PROVE  ScorersInv'
    OBVIOUS
  <2>1. CASE part = "scores" /\ part' = part /\ Scores(ScoreSetup)!Next
    BY <2>1, ScoreAssumption, ScorerStep DEF ScorersInv
  <2>2. CASE part = "rates" /\ part' = part /\ Scores(RateSetup)!Next
    BY <2>2, ScoreAssumption, ScorerStep DEF ScorersInv
  <2>3. CASE part' = part /\ (part \in {"scores", "rates"} => UNCHANGED scorerVars)
    <3>1. ASSUME NEW s, Scores(s)!ScorerConstants, ScorerInv(s), UNCHANGED scorerVars
          PROVE  ScorerInv(s)'
      <4>1. scorerNow' \in 0 .. s.maxTime /\ scorerNow <= scorerNow'
        BY <3>1, SetupScored DEF scorerVars, ScorerInv, CountersTyped
      <4>2. UNCHANGED <<ipFrequency, counted, scored, scorerNow>>
        BY <3>1 DEF scorerVars
      <4>3. AnswerInv(s)'
        BY <3>1, <4>2 DEF ScorerInv, AnswerInv
      <4> QED
        BY <3>1, <4>1, <4>2, <4>3, CountersStay DEF ScorerInv
    <3> QED
      BY <2>3, <3>1, ScoreAssumption DEF ScorersInv
  <2> QED
    BY <2>1, <2>2, <2>3 DEF Next, vars
<1> QED
  BY <1>1, <1>2, PTL DEF Spec

(* BasicScorer, for any addresses, families of patterns, scores, minute    *)
(* and maximum: no sum of anomalies blocks; what matches a pattern is at   *)
(* least suspicious; a score for the rate means more than the maximum in   *)
(* a window no older than a minute; and more than twice the maximum        *)
(* within a minute do not go unnoticed, however they fall into windows.    *)
THEOREM ScoresJustifiedHolds == Spec => []ScoresJustified
<1>1. ScorersInv => ScoresJustified
  BY ScoreAssumption, ScoresFollow DEF ScorersInv, ScoresJustified
<1> QED
  BY <1>1, ScorerInvariant, PTL

-----------------------------------------------------------------------------
(* The ring, of M slots: slot i has the element Place(i, p, M) of those    *)
(* that are kept, the oldest being the first, when the cursor is p.        *)
Place(i, p, M) == IF i < p THEN M - p + i + 1 ELSE i - p + 1

(* The ring r holds the sequence s of elements of T.                       *)
Holds(r, s, M, T) ==
    /\ r \in [slot: [0 .. M - 1 -> T], len: Nat, pos: 0 .. M - 1]
    /\ r.len <= M
    /\ s \in Seq(T) /\ Len(s) = r.len
    /\ r.len < M => r.pos = 0
    /\ \A i \in 0 .. M - 1 : i < r.len => r.slot[i] = s[Place(i, r.pos, M)]

(* Push, whose maximum is a constant, for any maximum.                     *)
Pushed(r, e, M) ==
    IF r.len < M
    THEN [r EXCEPT !.slot[r.len] = e, !.len = r.len + 1]
    ELSE [r EXCEPT !.slot[r.pos] = e, !.pos = (r.pos + 1) % M]

(* Push adds the new element as the last one, in place of the oldest when  *)
(* the ring is full.                                                       *)
LEMMA PushHolds ==
    ASSUME NEW M \in Nat \ {0}, NEW T, NEW r, NEW s, NEW e \in T, Holds(r, s, M, T)
    PROVE  Holds(Pushed(r, e, M), Append(IF Len(s) = M THEN Tail(s) ELSE s, e), M, T)
<1> DEFINE u == Append(IF Len(s) = M THEN Tail(s) ELSE s, e)
           v == Pushed(r, e, M)
<1>0. M \in Nat /\ M >= 1
  OBVIOUS
<1>1. /\ r \in [slot: [0 .. M - 1 -> T], len: Nat, pos: 0 .. M - 1]
      /\ r.len <= M /\ s \in Seq(T) /\ Len(s) = r.len
      /\ r.len < M => r.pos = 0
      /\ \A i \in 0 .. M - 1 : i < r.len => r.slot[i] = s[Place(i, r.pos, M)]
  BY DEF Holds
<1>2. PICK t \in [0 .. M - 1 -> T], l \in Nat, p \in 0 .. M - 1 : r = [slot |-> t, len |-> l, pos |-> p]
  BY <1>1
<1>3. /\ l <= M /\ Len(s) = l /\ (l < M => p = 0)
      /\ \A i \in 0 .. M - 1 : i < l => t[i] = s[Place(i, p, M)]
  BY <1>1, <1>2
<1>4. CASE l < M
  <2>1. v = [slot |-> [t EXCEPT ![l] = e], len |-> l + 1, pos |-> 0] /\ u = Append(s, e)
    <3>1. r.len = l /\ Len(s) # M
      BY <1>0, <1>2, <1>3, <1>4
    <3>2. v = [r EXCEPT !.slot[l] = e, !.len = l + 1]
      BY <3>1, <1>4 DEF Pushed
    <3>3. u = Append(s, e)
      BY <3>1
    <3> HIDE DEF u, v
    <3>4. v = [slot |-> [t EXCEPT ![l] = e], len |-> l + 1, pos |-> p]
      BY <3>2, <1>2
    <3> QED
      BY <3>3, <3>4, <1>3, <1>4
  <2>2. /\ u \in Seq(T) /\ Len(u) = l + 1 /\ u[l + 1] = e
        /\ \A j \in 1 .. l : u[j] = s[j]
    BY <1>1, <1>3, <2>1
  <2>3. ASSUME NEW i \in 0 .. M - 1, i < l + 1
        PROVE  [t EXCEPT ![l] = e][i] = u[i + 1]
    <3>1. CASE i = l
      BY <3>1, <1>2, <2>2
    <3>2. CASE i < l
      <4>1. t[i] = s[i + 1]
        BY <3>2, <1>0, <1>3, <1>4 DEF Place
      <4>2. i + 1 \in 1 .. l
        BY <3>2, <1>0
      <4> QED
        BY <3>2, <4>1, <4>2, <1>2, <2>2
    <3> QED
      <4>1. i \in Nat /\ l \in Nat
        BY <1>0, <1>2
      <4>2. i = l \/ i < l
        BY <4>1, <2>3
      <4> QED
        BY <3>1, <3>2, <4>2
  <2>4. \A i \in 0 .. M - 1 : Place(i, 0, M) = i + 1
    BY <1>0 DEF Place
  <2>5. [t EXCEPT ![l] = e] \in [0 .. M - 1 -> T] /\ 0 \in 0 .. M - 1 /\ l + 1 <= M
    BY <1>0, <1>2, <1>4
  <2> HIDE DEF u, v
  <2>6. /\ v \in [slot: [0 .. M - 1 -> T], len: Nat, pos: 0 .. M - 1]
        /\ v.len = l + 1 /\ v.pos = 0 /\ v.slot = [t EXCEPT ![l] = e]
    BY <2>1, <2>5
  <2>7. \A i \in 0 .. M - 1 : i < v.len => v.slot[i] = u[Place(i, v.pos, M)]
    BY <2>3, <2>4, <2>6
  <2>8. Holds(v, u, M, T)
    BY <2>2, <2>5, <2>6, <2>7 DEF Holds
  <2> QED
    BY <2>8 DEF u, v
<1>5. CASE l = M
  <2> DEFINE q == IF p + 1 = M THEN 0 ELSE p + 1
  <2>1. (p + 1) % M = q /\ q \in 0 .. M - 1
    BY <1>0
  <2>2. v = [slot |-> [t EXCEPT ![p] = e], len |-> M, pos |-> q] /\ u = Append(Tail(s), e)
    <3>1. r.len = M /\ Len(s) = M /\ ~ (r.len < M) /\ r.pos = p
      BY <1>0, <1>2, <1>3, <1>5
    <3>2. v = [r EXCEPT !.slot[p] = e, !.pos = q]
      BY <3>1, <2>1 DEF Pushed
    <3>3. u = Append(Tail(s), e)
      BY <3>1
    <3> HIDE DEF q, u, v
    <3>4. v = [slot |-> [t EXCEPT ![p] = e], len |-> l, pos |-> q]
      BY <3>2, <1>2
    <3> QED
      BY <3>3, <3>4, <1>5
  <2>3. /\ u \in Seq(T) /\ Len(u) = M /\ u[M] = e
        /\ \A j \in 1 .. M - 1 : u[j] = s[j + 1]
    <3>1. /\ Tail(s) \in Seq(T) /\ Len(Tail(s)) = M - 1
          /\ \A j \in 1 .. M - 1 : Tail(s)[j] = s[j + 1]
      BY <1>0, <1>1, <1>3, <1>5
    <3> HIDE DEF q
    <3> QED
      BY <3>1, <1>0, <2>2
  <2>4. ASSUME NEW i \in 0 .. M - 1
        PROVE  [t EXCEPT ![p] = e][i] = u[Place(i, q, M)]
    <3>1. CASE i = p
      <4>1. Place(i, q, M) = M
        BY <3>1, <1>0 DEF Place
      <4> QED
        BY <3>1, <4>1, <2>3
    <3>2. CASE i # p
      <4>1. t[i] = s[Place(i, p, M)]
        BY <1>0, <1>3, <1>5
      <4>2. Place(i, q, M) \in 1 .. M - 1 /\ Place(i, q, M) + 1 = Place(i, p, M)
        <5>1. i \in Nat /\ p \in Nat /\ i < M /\ p < M /\ i # p
          BY <3>2, <1>0
        <5>2. CASE p + 1 = M
          <6>1. i < p /\ q = 0
            BY <5>1, <5>2, <1>0
          <6> QED
            BY <6>1, <5>1, <5>2, <1>0 DEF Place
        <5>3. CASE p + 1 # M
          BY <5>1, <5>3, <1>0 DEF Place
        <5> QED
          BY <5>2, <5>3
      <4> QED
        BY <3>2, <4>1, <4>2, <2>3
    <3> QED
      BY <3>1, <3>2
  <2>5. [t EXCEPT ![p] = e] \in [0 .. M - 1 -> T]
    OBVIOUS
  <2> HIDE DEF q, u, v
  <2>6. /\ v \in [slot: [0 .. M - 1 -> T], len: Nat, pos: 0 .. M - 1]
        /\ v.len = M /\ v.pos = q /\ v.slot = [t EXCEPT ![p] = e]
    BY <1>0, <2>1, <2>2, <2>5
  <2>7. Holds(v, u, M, T)
    BY <1>0, <2>3, <2>4, <2>6 DEF Holds
  <2> QED
    BY <2>7 DEF u, v
<1> QED
  BY <1>0, <1>3, <1>4, <1>5

(* The places of the slots in use are those of the sequence, each once.    *)
LEMMA Places ==
    ASSUME NEW M \in Nat \ {0}, NEW T, NEW r, NEW s, Holds(r, s, M, T)
    PROVE  /\ r.len \in Nat /\ r.len <= M /\ DOMAIN s = 1 .. r.len
           /\ r.pos \in Nat /\ r.pos < M /\ (r.len < M => r.pos = 0)
           /\ \A i \in 0 .. r.len - 1 : /\ Place(i, r.pos, M) \in 1 .. r.len
                                        /\ s[Place(i, r.pos, M)] = r.slot[i]
                                        /\ r.slot[i] \in T
           /\ \A i, j \in 0 .. r.len - 1 : Place(i, r.pos, M) = Place(j, r.pos, M) => i = j
           /\ \A k \in 1 .. r.len : \E i \in 0 .. r.len - 1 : Place(i, r.pos, M) = k
<1> DEFINE p == r.pos
<1>0. M \in Nat /\ M >= 1
  OBVIOUS
<1>1. /\ r \in [slot: [0 .. M - 1 -> T], len: Nat, pos: 0 .. M - 1]
      /\ r.len <= M /\ s \in Seq(T) /\ Len(s) = r.len
      /\ r.len < M => r.pos = 0
      /\ \A i \in 0 .. M - 1 : i < r.len => r.slot[i] = s[Place(i, r.pos, M)]
  BY DEF Holds
<1>2. /\ r.len \in Nat /\ p \in 0 .. M - 1 /\ DOMAIN s = 1 .. r.len /\ p \in Nat /\ p < M
      /\ r.slot \in [0 .. M - 1 -> T]
  BY <1>0, <1>1
<1>3. ASSUME NEW i \in 0 .. r.len - 1
      PROVE  Place(i, p, M) \in 1 .. r.len /\ s[Place(i, p, M)] = r.slot[i] /\ r.slot[i] \in T
  <2>1. i \in 0 .. M - 1 /\ i < r.len
    BY <1>0, <1>1, <1>2
  <2>2. s[Place(i, p, M)] = r.slot[i]
    BY <1>1, <2>1
  <2>3. Place(i, p, M) \in 1 .. r.len
    <3>1. CASE r.len < M
      BY <3>1, <1>0, <1>1, <1>2 DEF Place
    <3>2. CASE r.len = M
      BY <3>2, <1>0, <1>2 DEF Place
    <3> QED
      BY <3>1, <3>2, <1>0, <1>1, <1>2
  <2> QED
    BY <2>1, <2>2, <2>3, <1>2
<1>4. \A i, j \in 0 .. r.len - 1 : Place(i, p, M) = Place(j, p, M) => i = j
  BY <1>0, <1>1, <1>2 DEF Place
<1>5. ASSUME NEW k \in 1 .. r.len
      PROVE  \E i \in 0 .. r.len - 1 : Place(i, p, M) = k
  <2>1. CASE k <= M - p
    <3>1. p + k - 1 \in 0 .. r.len - 1 /\ Place(p + k - 1, p, M) = k
      BY <2>1, <1>0, <1>1, <1>2 DEF Place
    <3> QED
      BY <3>1
  <2>2. CASE k > M - p
    <3>1. r.len = M
      BY <2>2, <1>0, <1>1, <1>2
    <3> DEFINE i == k - 1 - (M - p)
    <3>2. i \in Nat /\ i < p /\ i \in 0 .. r.len - 1 /\ M - p + i + 1 = k
      <4>1. M \in Nat /\ p \in Nat /\ k \in Nat /\ 1 <= k /\ k <= M /\ p < M /\ k > M - p
        BY <2>2, <3>1, <1>0, <1>2
      <4> HIDE DEF p
      <4>2. k - 1 - (M - p) \in Nat /\ k - 1 - (M - p) < p /\ k - 1 - (M - p) <= M - 1
        BY <4>1
      <4> QED
        BY <4>1, <4>2, <3>1
    <3>3. Place(i, p, M) = k
      BY <3>2 DEF Place
    <3> QED
      BY <3>2, <3>3
  <2> QED
    BY <2>1, <2>2, <1>0, <1>2
<1> QED
  BY <1>1, <1>2, <1>3, <1>4, <1>5

(* Sets between which there is a function that is one to one.              *)
LEMMA SameNumber ==
    ASSUME NEW S, NEW T, IsFiniteSet(S), NEW f \in [S -> T],
           \A a, b \in S : f[a] = f[b] => a = b,
           \A t \in T : \E s \in S : f[s] = t
    PROVE  IsFiniteSet(T) /\ Cardinality(T) = Cardinality(S)
<1>1. f \in Bijection(S, T)
  BY DEF Bijection, Injection, Surjection, IsInjective
<1>2. ExistsBijection(S, T)
  BY <1>1, Zenon DEF ExistsBijection
<1> QED
  BY <1>2, FS_Bijection, Zenon

(* So counting in the slots is counting in the sequence.                   *)
LEMMA CountedAlike ==
    ASSUME NEW M \in Nat \ {0}, NEW T, NEW r, NEW s, Holds(r, s, M, T), NEW A
    PROVE  /\ Cardinality({i \in 0 .. r.len - 1 : r.slot[i] \in A})
                 = Cardinality({j \in DOMAIN s : s[j] \in A})
           /\ IsFiniteSet({i \in 0 .. r.len - 1 : r.slot[i] \in A})
<1> DEFINE p == r.pos
           S == {i \in 0 .. r.len - 1 : r.slot[i] \in A}
           U == {j \in DOMAIN s : s[j] \in A}
           f == [i \in S |-> Place(i, p, M)]
<1>1. /\ r.len \in Nat /\ DOMAIN s = 1 .. r.len
      /\ \A i \in 0 .. r.len - 1 : Place(i, p, M) \in 1 .. r.len /\ s[Place(i, p, M)] = r.slot[i]
      /\ \A i, j \in 0 .. r.len - 1 : Place(i, p, M) = Place(j, p, M) => i = j
      /\ \A k \in 1 .. r.len : \E i \in 0 .. r.len - 1 : Place(i, p, M) = k
  BY Places
<1>2. IsFiniteSet(S)
  <2>1. IsFiniteSet(0 .. r.len - 1)
    BY <1>1, FS_Interval
  <2> QED
    BY <2>1, FS_Subset
<1>3. f \in [S -> U]
  BY <1>1
<1>4. \A a, b \in S : f[a] = f[b] => a = b
  BY <1>1
<1>5. \A t \in U : \E i \in S : f[i] = t
  <2> SUFFICES ASSUME NEW t \in U PROVE \E i \in S : Place(i, p, M) = t
    OBVIOUS
  <2>1. PICK i \in 0 .. r.len - 1 : Place(i, p, M) = t
    BY <1>1
  <2> QED
    BY <2>1, <1>1
<1> HIDE DEF S, U, f
<1>6. Cardinality(U) = Cardinality(S)
  BY <1>2, <1>3, <1>4, <1>5, SameNumber, Zenon
<1> QED
  BY <1>2, <1>6 DEF S, U

-----------------------------------------------------------------------------
(* The learning engine: the ring holds the requests recorded last.         *)
LearningInv ==
    /\ enabled \in BOOLEAN
    /\ Holds(ring, recent, LearningSetup.maxSize, LE!Record)

(* The size of the ring.                                                   *)
LEMMA LearningSize == LearningSetup.maxSize \in Nat \ {0} /\ LE!Slots = 0 .. LearningSetup.maxSize - 1
BY LearningAssumption DEF LE!LearningConstants, LE!Slots

(* A request is recorded as the last one, unless recording is off.         *)
LEMMA KeepsAll ==
    ASSUME LearningInv, NEW r \in LE!Record, LE!RecordRequest(r)
    PROVE  LearningInv'
<1> DEFINE M == LearningSetup.maxSize
<1>1. enabled' = enabled /\ enabled \in BOOLEAN /\ Holds(ring, recent, M, LE!Record)
  BY DEF LE!RecordRequest, LearningInv
<1>2. CASE ~ enabled
  BY <1>1, <1>2 DEF LE!RecordRequest, LearningInv, Holds, Place
<1>3. CASE enabled
  <2>1. /\ ring' = Pushed(ring, r, M)
        /\ recent' = Append(IF Len(recent) = M THEN Tail(recent) ELSE recent, r)
    BY <1>3 DEF LE!RecordRequest, LE!Push, Pushed
  <2>2. Holds(Pushed(ring, r, M), Append(IF Len(recent) = M THEN Tail(recent) ELSE recent, r), M, LE!Record)
    BY <1>1, LearningSize, PushHolds
  <2>3. Holds(ring', recent', M, LE!Record)
    BY <2>1, <2>2
  <2> QED
    BY <1>1, <2>3 DEF LearningInv, LE!Record
<1> QED
  BY <1>1, <1>2, <1>3

(* The ring of the learning engine always holds the requests recorded      *)
(* last, those of the time when recording was off excepted.                *)
THEOREM LearningInvariant == Spec => [](part = "learning" => LearningInv)
<1>1. Init => (part = "learning" => LearningInv)
  <2> SUFFICES ASSUME LE!Init PROVE LearningInv
    BY DEF Init
  <2>1. LE!Blank \in LE!Record
    <3>1. LearningSetup.paths # {} /\ LearningSetup.ips # {}
      BY LearningAssumption DEF LE!LearningConstants
    <3> QED
      BY <3>1 DEF LE!Blank, LE!Record
  <2>2. /\ ring = [slot |-> [i \in LE!Slots |-> LE!Blank], len |-> 0, pos |-> 0]
        /\ enabled = TRUE /\ recent = <<>>
    BY DEF LE!Init, LE!NewRing
  <2>3. 0 \in LE!Slots /\ \A i \in LE!Slots : ~ (i < 0)
    BY LearningSize
  <2> QED
    BY <2>1, <2>2, <2>3, LearningSize DEF LearningInv, Holds
<1>2. LearningInv /\ [LE!Next]_(LE!vars) => LearningInv'
  <2>1. LearningInv /\ UNCHANGED LE!vars => LearningInv'
    BY DEF LE!vars, LearningInv, Holds, Place, LE!Record
  <2>2. LearningInv /\ LE!Switch => LearningInv'
    BY DEF LE!Switch, LearningInv, Holds, Place, LE!Record
  <2> QED
    BY <2>1, <2>2, KeepsAll DEF LE!Next
<1>3. [Next]_vars => part' = part /\ (part = "learning" => [LE!Next]_(LE!vars))
  BY DEF Next, vars, learningVars, LE!vars
<1>4. (part = "learning" => LearningInv) /\ [Next]_vars => (part = "learning" => LearningInv)'
  BY <1>2, <1>3
<1> QED
  BY <1>1, <1>4, PTL DEF Spec

(* The instance of the engine counts as this module does.                  *)
LEMMA LearningCounts == \A S : LE!Cardinality(S) = Cardinality(S)
BY DEF LE!Cardinality, Cardinality, LE!IsFiniteSet, IsFiniteSet

(* How many of the requests that are kept are in A.                        *)
Among(A) == {j \in DOMAIN recent : recent[j] \in A}
Kept(A) == Cardinality(Among(A))

(* What the engine counts in its slots, it counts of the requests kept.    *)
LEMMA Counted ==
    ASSUME LearningInv, NEW A
    PROVE  /\ Cardinality({i \in LE!Used(ring) : ring.slot[i] \in A}) = Kept(A)
           /\ IsFiniteSet({i \in LE!Used(ring) : ring.slot[i] \in A})
BY LearningSize, CountedAlike DEF LearningInv, LE!Used, Kept, Among

(* The numbers of requests in A and in B.                                  *)
LEMMA KeptFacts ==
    ASSUME LearningInv, NEW A, NEW B
    PROVE  /\ Kept(A) \in Nat
           /\ A \subseteq B => Kept(A) <= Kept(B)
           /\ Kept(A) = 0 <=> Among(A) = {}
           /\ \A j \in DOMAIN recent : recent[j] \in LE!Record
<1>1. recent \in Seq(LE!Record)
  BY DEF LearningInv, Holds
<1>2. IsFiniteSet(DOMAIN recent)
  <2>1. DOMAIN recent = 1 .. Len(recent) /\ Len(recent) \in Nat
    BY <1>1
  <2> QED
    BY <2>1, FS_Interval
<1>3. IsFiniteSet(Among(A)) /\ IsFiniteSet(Among(B))
  BY <1>2, FS_Subset DEF Among
<1>4. Kept(A) \in Nat /\ (Kept(A) = 0 <=> Among(A) = {})
  BY <1>3, FS_CardinalityType, FS_EmptySet DEF Kept
<1>5. A \subseteq B => Among(A) \in SUBSET Among(B)
  BY DEF Among
<1>6. A \subseteq B => Kept(A) <= Kept(B)
  BY <1>3, <1>5, FS_Subset DEF Kept
<1>7. \A j \in DOMAIN recent : recent[j] \in LE!Record
  BY <1>1
<1> QED
  BY <1>4, <1>6, <1>7

(* The requests of a group of paths, of an address, and those refused.     *)
InGroup(g) == {r \in LE!Record : LE!normalizePath(r.path) = g}
OfAddress(a) == {r \in LE!Record : r.ip = a}
Refused == {r \in LE!Record : r.verdict = "block"}

(* A slot in use has a record.                                             *)
LEMMA SlotsHold ==
    ASSUME LearningInv
    PROVE  \A i \in LE!Used(ring) : ring.slot[i] \in LE!Record
BY LearningSize, Places DEF LearningInv, LE!Used

(* What the engine counts of a group of paths,                             *)
LEMMA GroupsCount ==
    ASSUME LearningInv, NEW g
    PROVE  /\ LE!Cardinality(LE!OfGroup(g)) = Kept(InGroup(g))
           /\ LE!Cardinality(LE!BlockedOf(LE!OfGroup(g))) = Kept(InGroup(g) \cap Refused)
<1>1. LE!OfGroup(g) = {i \in LE!Used(ring) : ring.slot[i] \in InGroup(g)}
  BY SlotsHold DEF LE!OfGroup, InGroup
<1>2. LE!BlockedOf(LE!OfGroup(g)) = {i \in LE!Used(ring) : ring.slot[i] \in InGroup(g) \cap Refused}
  BY <1>1, SlotsHold DEF LE!BlockedOf, Refused
<1> QED
  BY <1>1, <1>2, Counted, LearningCounts

(* of an address,                                                          *)
LEMMA AddressesCount ==
    ASSUME LearningInv, NEW a
    PROVE  /\ LE!Cardinality(LE!OfIP(a)) = Kept(OfAddress(a))
           /\ LE!Cardinality(LE!BlockedOf(LE!OfIP(a))) = Kept(OfAddress(a) \cap Refused)
<1>1. LE!OfIP(a) = {i \in LE!Used(ring) : ring.slot[i] \in OfAddress(a)}
  BY SlotsHold DEF LE!OfIP, OfAddress
<1>2. LE!BlockedOf(LE!OfIP(a)) = {i \in LE!Used(ring) : ring.slot[i] \in OfAddress(a) \cap Refused}
  BY <1>1, SlotsHold DEF LE!BlockedOf, Refused
<1> QED
  BY <1>1, <1>2, Counted, LearningCounts

(* and in all.                                                             *)
LEMMA AllCount ==
    ASSUME LearningInv
    PROVE  /\ ring.len = Kept(LE!Record)
           /\ LE!Cardinality(LE!BlockedOf(LE!Used(ring))) = Kept(Refused)
           /\ ring.len = Len(recent) /\ ring.len \in Nat
<1>1. ring.len = Len(recent) /\ ring.len \in Nat /\ recent \in Seq(LE!Record)
  BY DEF LearningInv, Holds
<1>2. Among(LE!Record) = 1 .. ring.len
  BY <1>1 DEF Among
<1>3. Kept(LE!Record) = ring.len
  <2>1. Cardinality(1 .. ring.len) = IF 1 > ring.len THEN 0 ELSE ring.len - 1 + 1
    <3>1. 1 \in Int /\ ring.len \in Int
      BY <1>1
    <3> QED
      BY <3>1, FS_Interval, Zenon
  <2> QED
    BY <1>1, <1>2, <2>1 DEF Kept
<1>4. LE!BlockedOf(LE!Used(ring)) = {i \in LE!Used(ring) : ring.slot[i] \in Refused}
  BY SlotsHold DEF LE!BlockedOf, Refused
<1> QED
  BY <1>1, <1>3, <1>4, Counted, LearningCounts

(* Every suggestion is one of the four kinds, of a group or an address.    *)
LEMMA SafeIsEarned ==
    ASSUME LearningInv, NEW s \in LE!analyzeWhitelist
    PROVE  /\ s.type \in {"safe", "false positives"}
           /\ s.type = "safe" =>
                 /\ Kept(InGroup(s.pattern)) >= LearningSetup.safePath
                 /\ Kept(InGroup(s.pattern) \cap Refused) = 0
           /\ s.type = "false positives" =>
                 /\ Kept(InGroup(s.pattern)) >= LearningSetup.minPath
                 /\ Kept(InGroup(s.pattern) \cap Refused) > 0
<1> DEFINE hits(g) == LE!Cardinality(LE!OfGroup(g))
           bad(g) == LE!Cardinality(LE!BlockedOf(LE!OfGroup(g)))
<1>1. \/ \E g \in LE!Groups : /\ hits(g) >= LearningSetup.minPath /\ 10 * bad(g) > hits(g)
                              /\ s = LE!Suggest("false positives", g, bad(g), hits(g), bad(g))
      \/ \E g \in LE!Groups : /\ bad(g) = 0 /\ hits(g) >= LearningSetup.safePath
                              /\ s = LE!Suggest("safe", g, 95, 100, hits(g))
  BY DEF LE!analyzeWhitelist
<1> HIDE DEF hits, bad
<1>2. \A g : /\ hits(g) = Kept(InGroup(g)) /\ bad(g) = Kept(InGroup(g) \cap Refused)
             /\ hits(g) \in Nat /\ bad(g) \in Nat
  BY GroupsCount, KeptFacts DEF hits, bad
<1>3. CASE \E g \in LE!Groups : /\ hits(g) >= LearningSetup.minPath /\ 10 * bad(g) > hits(g)
                                /\ s = LE!Suggest("false positives", g, bad(g), hits(g), bad(g))
  <2>1. PICK g \in LE!Groups : /\ hits(g) >= LearningSetup.minPath /\ 10 * bad(g) > hits(g)
                               /\ s = LE!Suggest("false positives", g, bad(g), hits(g), bad(g))
    BY <1>3
  <2>4. bad(g) \in Nat /\ hits(g) \in Nat
    BY <1>2
  <2>2. bad(g) > 0
    <3>1. \A b, h \in Nat : 10 * b > h => b > 0
      OBVIOUS
    <3> QED
      BY <2>1, <2>4, <3>1
  <2>3. s.type = "false positives" /\ s.pattern = g
    BY <2>1 DEF LE!Suggest
  <2> QED
    BY <1>2, <2>1, <2>2, <2>3
<1>4. CASE \E g \in LE!Groups : /\ bad(g) = 0 /\ hits(g) >= LearningSetup.safePath
                                /\ s = LE!Suggest("safe", g, 95, 100, hits(g))
  BY <1>2, <1>4 DEF LE!Suggest
<1> QED
  BY <1>1, <1>3, <1>4

(* An address to be blocked has been refused what it was refused for.      *)
LEMMA BlockIsEarned ==
    ASSUME LearningInv, NEW s \in LE!analyzeBlocklist
    PROVE  \E a \in LearningSetup.ips :
              /\ s.type = "blocklist" /\ s.pattern = <<a>>
              /\ Kept(OfAddress(a)) >= LearningSetup.minIP
              /\ 5 * Kept(OfAddress(a) \cap Refused) >= 4 * Kept(OfAddress(a))
<1> DEFINE hits(a) == LE!Cardinality(LE!OfIP(a))
           bad(a) == LE!Cardinality(LE!BlockedOf(LE!OfIP(a)))
<1>1. PICK a \in LearningSetup.ips :
         /\ hits(a) >= LearningSetup.minIP /\ 10 * bad(a) >= 8 * hits(a)
         /\ s = LE!Suggest("blocklist", <<a>>, bad(a), hits(a), bad(a))
  BY DEF LE!analyzeBlocklist
<1> HIDE DEF hits, bad
<1>2. /\ hits(a) = Kept(OfAddress(a)) /\ bad(a) = Kept(OfAddress(a) \cap Refused)
      /\ hits(a) \in Nat /\ bad(a) \in Nat
  BY AddressesCount, KeptFacts DEF hits, bad
<1>3. 5 * bad(a) >= 4 * hits(a)
  BY <1>1, <1>2
<1>4. s.type = "blocklist" /\ s.pattern = <<a>>
  BY <1>1 DEF LE!Suggest
<1> QED
  BY <1>1, <1>2, <1>3, <1>4

(* An address to be limited has asked as often as it is said.              *)
LEMMA LimitIsEarned ==
    ASSUME LearningInv, NEW s \in LE!analyzeRate
    PROVE  \E a \in LearningSetup.ips :
              /\ s.type = "rate_limit" /\ s.pattern = <<a>>
              /\ Kept(OfAddress(a)) >= LearningSetup.busyIP
              /\ s.num <= 5 * s.den
<1> DEFINE hits(a) == LE!Cardinality(LE!OfIP(a))
<1>1. PICK a \in LearningSetup.ips :
         /\ hits(a) >= LearningSetup.busyIP
         /\ s = LE!Suggest("rate_limit", <<a>>, 5 * hits(a), ring.len, hits(a))
  BY DEF LE!analyzeRate
<1> HIDE DEF hits
<1>2. hits(a) = Kept(OfAddress(a)) /\ hits(a) \in Nat
  BY AddressesCount, KeptFacts DEF hits
<1>3. hits(a) <= ring.len /\ ring.len \in Nat
  <2>1. OfAddress(a) \subseteq LE!Record
    BY DEF OfAddress
  <2> QED
    BY <1>2, <2>1, KeptFacts, AllCount
<1> QED
  BY <1>1, <1>2, <1>3 DEF LE!Suggest

(* So every suggestion is earned.                                          *)
LEMMA Earned ==
    ASSUME LearningInv
    PROVE  LE!SuggestionsEarned
<1> SUFFICES ASSUME NEW s \in LE!Suggestions
             PROVE  LET In(r) == IF s.type \in {"safe", "false positives"}
                                 THEN LE!normalizePath(r.path) = s.pattern ELSE <<r.ip>> = s.pattern
                        Bad(r) == In(r) /\ LE!IsBlock(r)
                    IN  CASE s.type = "safe" -> LE!Did(Bad) = 0 /\ LE!Did(In) >= LearningSetup.safePath
                          [] s.type = "false positives" ->
                                LE!Did(Bad) > 0 /\ LE!Did(In) >= LearningSetup.minPath
                          [] s.type = "blocklist" ->
                                LE!Did(In) >= LearningSetup.minIP /\ 5 * LE!Did(Bad) >= 4 * LE!Did(In)
                          [] s.type = "rate_limit" ->
                                LE!Did(In) >= LearningSetup.busyIP /\ s.num <= 5 * s.den
  BY DEF LE!SuggestionsEarned
<1> DEFINE In(r) == IF s.type \in {"safe", "false positives"}
                    THEN LE!normalizePath(r.path) = s.pattern ELSE <<r.ip>> = s.pattern
           Bad(r) == In(r) /\ LE!IsBlock(r)
           in == LE!Cardinality({j \in DOMAIN recent : In(recent[j])})
           refused == LE!Cardinality({j \in DOMAIN recent : Bad(recent[j])})
<1>1. \A j \in DOMAIN recent : recent[j] \in LE!Record
  BY KeptFacts
<1> SUFFICES CASE s.type = "safe" -> refused = 0 /\ in >= LearningSetup.safePath
               [] s.type = "false positives" -> refused > 0 /\ in >= LearningSetup.minPath
               [] s.type = "blocklist" -> in >= LearningSetup.minIP /\ 5 * refused >= 4 * in
               [] s.type = "rate_limit" -> in >= LearningSetup.busyIP /\ s.num <= 5 * s.den
  BY DEF LE!Did
<1>2. CASE s \in LE!analyzeWhitelist
  <2>1. s.type \in {"safe", "false positives"}
    BY <1>2, SafeIsEarned
  <2>2. {j \in DOMAIN recent : In(recent[j])} = Among(InGroup(s.pattern))
    BY <1>1, <2>1 DEF Among, InGroup
  <2>3. {j \in DOMAIN recent : Bad(recent[j])} = Among(InGroup(s.pattern) \cap Refused)
    BY <1>1, <2>1 DEF Among, InGroup, Refused, LE!IsBlock
  <2>4. in = Kept(InGroup(s.pattern)) /\ refused = Kept(InGroup(s.pattern) \cap Refused)
    BY <2>2, <2>3, LearningCounts DEF Kept
  <2> HIDE DEF in, refused
  <2> QED
    BY <1>2, <2>1, <2>4, SafeIsEarned
<1>3. ASSUME NEW a \in LearningSetup.ips, s.pattern = <<a>>, s.type \in {"blocklist", "rate_limit"}
      PROVE  in = Kept(OfAddress(a)) /\ refused = Kept(OfAddress(a) \cap Refused)
  <2>1. \A r : In(r) <=> r.ip = a
    <3>1. \A b : <<b>> = <<a>> <=> b = a
      OBVIOUS
    <3> QED
      BY <1>3, <3>1
  <2>2. {j \in DOMAIN recent : In(recent[j])} = Among(OfAddress(a))
    BY <1>1, <2>1 DEF Among, OfAddress
  <2>3. {j \in DOMAIN recent : Bad(recent[j])} = Among(OfAddress(a) \cap Refused)
    BY <1>1, <2>1 DEF Among, OfAddress, Refused, LE!IsBlock
  <2> QED
    BY <2>2, <2>3, LearningCounts DEF Kept
<1> HIDE DEF in, refused
<1>4. CASE s \in LE!analyzeBlocklist
  <2>1. PICK a \in LearningSetup.ips :
              /\ s.type = "blocklist" /\ s.pattern = <<a>>
              /\ Kept(OfAddress(a)) >= LearningSetup.minIP
              /\ 5 * Kept(OfAddress(a) \cap Refused) >= 4 * Kept(OfAddress(a))
    BY <1>4, BlockIsEarned
  <2> QED
    BY <1>3, <2>1
<1>5. CASE s \in LE!analyzeRate
  <2>1. PICK a \in LearningSetup.ips :
              /\ s.type = "rate_limit" /\ s.pattern = <<a>>
              /\ Kept(OfAddress(a)) >= LearningSetup.busyIP
              /\ s.num <= 5 * s.den
    BY <1>5, LimitIsEarned
  <2> QED
    BY <1>3, <2>1
<1> QED
  BY <1>2, <1>4, <1>5 DEF LE!Suggestions

(* Paths of one group are normalized alike.                                *)
LEMMA OneGroup ==
    ASSUME NEW p, NEW q
    PROVE  LE!SameGroup(p, q) <=> LE!normalizePath(p) = LE!normalizePath(q)
<1> DEFINE seg(x) == LearningSetup.segments[x]
           kind(t) == LearningSetup.kind[t]
           norm(t) == IF kind(t) = "word" THEN t ELSE kind(t)
<1>1. \A x : LE!normalizePath(x) = [i \in DOMAIN seg(x) |-> norm(seg(x)[i])]
  BY DEF LE!normalizePath
<1>2. \A t, u : LE!SameSegment(t, u) <=> norm(t) = norm(u)
  BY DEF LE!SameSegment
<1>3. LE!SameGroup(p, q) <=> /\ DOMAIN seg(p) = DOMAIN seg(q)
                             /\ \A i \in DOMAIN seg(p) : norm(seg(p)[i]) = norm(seg(q)[i])
  BY <1>2 DEF LE!SameGroup
<1> HIDE DEF seg, norm
<1>4. /\ DOMAIN LE!normalizePath(p) = DOMAIN seg(p)
      /\ DOMAIN LE!normalizePath(q) = DOMAIN seg(q)
      /\ \A i \in DOMAIN seg(p) : LE!normalizePath(p)[i] = norm(seg(p)[i])
      /\ \A i \in DOMAIN seg(q) : LE!normalizePath(q)[i] = norm(seg(q)[i])
  BY <1>1
<1>5. (LE!normalizePath(p) = LE!normalizePath(q)) =>
         /\ DOMAIN seg(p) = DOMAIN seg(q)
         /\ \A i \in DOMAIN seg(p) : norm(seg(p)[i]) = norm(seg(q)[i])
  BY <1>4
<1>6. DOMAIN seg(p) = DOMAIN seg(q) /\ (\A i \in DOMAIN seg(p) : norm(seg(p)[i]) = norm(seg(q)[i]))
         => LE!normalizePath(p) = LE!normalizePath(q)
  BY <1>1
<1> QED
  BY <1>3, <1>5, <1>6

(* No group and no address that has earned a suggestion goes without.      *)
LEMMA Missed ==
    ASSUME LearningInv
    PROVE  LE!NothingMissed
<1>1. \A j \in DOMAIN recent : recent[j] \in LE!Record
  BY KeptFacts
<1>0. /\ LearningSetup.minIP \in Nat /\ LearningSetup.minIP > 0
      /\ LearningSetup.minPath \in Nat /\ LearningSetup.safePath \in Nat
      /\ LearningSetup.minPath <= LearningSetup.safePath
  BY LearningAssumption DEF LE!LearningConstants
<1>2. ASSUME NEW a \in LearningSetup.ips,
             LE!Cardinality({j \in DOMAIN recent : recent[j].ip = a}) >= LearningSetup.minIP,
             LE!Cardinality({j \in DOMAIN recent : recent[j].ip = a /\ ~ LE!IsBlock(recent[j])}) = 0
      PROVE  \E s \in LE!Suggestions : s.type = "blocklist" /\ s.pattern = <<a>>
  <2> DEFINE hits == LE!Cardinality(LE!OfIP(a))
             bad == LE!Cardinality(LE!BlockedOf(LE!OfIP(a)))
  <2>1. hits = Kept(OfAddress(a)) /\ bad = Kept(OfAddress(a) \cap Refused) /\ hits \in Nat /\ bad \in Nat
    BY AddressesCount, KeptFacts
  <2>2. {j \in DOMAIN recent : recent[j].ip = a} = Among(OfAddress(a))
    BY <1>1 DEF Among, OfAddress
  <2>3. {j \in DOMAIN recent : recent[j].ip = a /\ ~ LE!IsBlock(recent[j])} = Among(OfAddress(a) \ Refused)
    BY <1>1 DEF Among, OfAddress, Refused, LE!IsBlock
  <2>4. Kept(OfAddress(a) \ Refused) = 0 /\ Kept(OfAddress(a)) >= LearningSetup.minIP
    BY <1>2, <2>2, <2>3, LearningCounts DEF Kept
  <2>5. Among(OfAddress(a) \ Refused) = {}
    BY <2>4, KeptFacts
  <2>6. Among(OfAddress(a)) = Among(OfAddress(a) \cap Refused)
    BY <2>5 DEF Among
  <2>7. hits = bad /\ hits >= LearningSetup.minIP
    BY <2>1, <2>4, <2>6 DEF Kept
  <2>8. LE!Suggest("blocklist", <<a>>, bad, hits, bad) \in LE!analyzeBlocklist
    <3>1. hits >= LearningSetup.minIP /\ bad > 0 /\ 10 * bad >= 8 * hits
      <4> HIDE DEF hits, bad
      <4> QED
        BY <1>0, <2>1, <2>7
    <3> QED
      BY <3>1 DEF LE!analyzeBlocklist
  <2> HIDE DEF hits, bad
  <2>9. /\ LE!Suggest("blocklist", <<a>>, bad, hits, bad).type = "blocklist"
        /\ LE!Suggest("blocklist", <<a>>, bad, hits, bad).pattern = <<a>>
    BY DEF LE!Suggest
  <2> QED
    BY <2>8, <2>9 DEF LE!Suggestions
<1>3. ASSUME NEW p \in LearningSetup.paths,
             LE!Cardinality({j \in DOMAIN recent : LE!SameGroup(recent[j].path, p)}) >= LearningSetup.safePath,
             LE!Cardinality({j \in DOMAIN recent : LE!SameGroup(recent[j].path, p) /\ LE!IsBlock(recent[j])}) = 0
      PROVE  \E s \in LE!Suggestions : s.type = "safe" /\ s.pattern = LE!normalizePath(p)
  <2> DEFINE g == LE!normalizePath(p)
             hits == LE!Cardinality(LE!OfGroup(g))
             bad == LE!Cardinality(LE!BlockedOf(LE!OfGroup(g)))
  <2>0. g \in LE!Groups
    BY DEF LE!Groups
  <2>1. hits = Kept(InGroup(g)) /\ bad = Kept(InGroup(g) \cap Refused) /\ hits \in Nat
    BY GroupsCount, KeptFacts
  <2>2. {j \in DOMAIN recent : LE!SameGroup(recent[j].path, p)} = Among(InGroup(g))
    BY <1>1, OneGroup DEF Among, InGroup
  <2>3. {j \in DOMAIN recent : LE!SameGroup(recent[j].path, p) /\ LE!IsBlock(recent[j])}
           = Among(InGroup(g) \cap Refused)
    BY <1>1, OneGroup DEF Among, InGroup, Refused, LE!IsBlock
  <2>4. bad = 0 /\ hits >= LearningSetup.safePath
    BY <1>3, <2>1, <2>2, <2>3, LearningCounts DEF Kept
  <2>5. hits >= LearningSetup.minPath
    <3> HIDE DEF hits
    <3> QED
      BY <1>0, <2>1, <2>4
  <2>6. LE!Suggest("safe", g, 95, 100, hits) \in LE!analyzeWhitelist
    BY <2>0, <2>4, <2>5 DEF LE!analyzeWhitelist
  <2> HIDE DEF g, hits
  <2>7. /\ LE!Suggest("safe", g, 95, 100, hits).type = "safe"
        /\ LE!Suggest("safe", g, 95, 100, hits).pattern = g
    BY DEF LE!Suggest
  <2> QED
    BY <2>6, <2>7 DEF LE!Suggestions, g
<1> QED
  BY <1>2, <1>3 DEF LE!NothingMissed, LE!Did

(* The dataset that is exported has every record that is kept, once.       *)
LEMMA Complete ==
    ASSUME LearningInv
    PROVE  LE!ExportComplete
<1>1. \A j \in DOMAIN recent : recent[j] \in LE!Record
  BY KeptFacts
<1>2. LE!Stats.total = Len(recent) /\ LE!Stats.blocked = Kept(Refused)
  BY AllCount DEF LE!Stats
<1>3. LE!Did(LE!IsBlock) = Kept(Refused)
  <2>1. {j \in DOMAIN recent : LE!IsBlock(recent[j])} = Among(Refused)
    BY <1>1 DEF Among, Refused, LE!IsBlock
  <2> QED
    BY <2>1, LearningCounts DEF LE!Did, Kept
<1>4. \A p \in LearningSetup.paths : \A v \in {"allow", "block"} :
         LE!Cardinality({i \in DOMAIN LE!ExportDataset :
                 LE!ExportDataset[i].path = p /\ LE!ExportDataset[i].label = v})
            = LE!Cardinality({j \in DOMAIN recent : recent[j].path = p /\ recent[j].verdict = v})
  <2> SUFFICES ASSUME NEW p \in LearningSetup.paths, NEW v \in {"allow", "block"}
               PROVE  LE!Cardinality({i \in DOMAIN LE!ExportDataset :
                          LE!ExportDataset[i].path = p /\ LE!ExportDataset[i].label = v})
                       = LE!Cardinality({j \in DOMAIN recent :
                             recent[j].path = p /\ recent[j].verdict = v})
    OBVIOUS
  <2> DEFINE A == {r \in LE!Record : r.path = p /\ r.verdict = v}
             S == {i \in LE!Used(ring) : ring.slot[i] \in A}
             T == {i \in DOMAIN LE!ExportDataset :
                      LE!ExportDataset[i].path = p /\ LE!ExportDataset[i].label = v}
             f == [i \in S |-> i + 1]
  <2>1. ring.len \in Nat
    BY AllCount
  <2>2. /\ DOMAIN LE!ExportDataset = 1 .. ring.len
        /\ \A i \in 1 .. ring.len : /\ LE!ExportDataset[i].path = ring.slot[i - 1].path
                                    /\ LE!ExportDataset[i].label = ring.slot[i - 1].verdict
    BY DEF LE!ExportDataset
  <2>3. LE!Used(ring) = 0 .. ring.len - 1
    BY DEF LE!Used
  <2>4. \A i \in 0 .. ring.len - 1 : i + 1 \in 1 .. ring.len /\ (i + 1) - 1 = i
    BY <2>1
  <2>5. \A i \in 1 .. ring.len : i - 1 \in 0 .. ring.len - 1 /\ (i - 1) + 1 = i
    BY <2>1
  <2>6. \A i \in 0 .. ring.len - 1 : i \in S <=> i + 1 \in T
    BY <2>2, <2>3, <2>4, SlotsHold
  <2>7. IsFiniteSet(S)
    BY Counted
  <2>8. f \in [S -> T]
    BY <2>3, <2>6
  <2>9. \A a, b \in S : f[a] = f[b] => a = b
    BY <2>1, <2>3
  <2>10. \A t \in T : \E s \in S : f[s] = t
    BY <2>2, <2>5, <2>6
  <2> HIDE DEF S, T, f
  <2>11. Cardinality(T) = Cardinality(S)
    BY <2>7, <2>8, <2>9, <2>10, SameNumber, Zenon
  <2>12. Cardinality(S) = Kept(A)
    BY Counted DEF S
  <2>13. {j \in DOMAIN recent : recent[j].path = p /\ recent[j].verdict = v} = Among(A)
    BY <1>1 DEF Among
  <2> QED
    BY <2>11, <2>12, <2>13, LearningCounts DEF T, Kept
<1> QED
  <2>1. LE!Stats.total = Len(recent) /\ LE!Stats.blocked = LE!Did(LE!IsBlock)
    BY <1>2, <1>3
  <2> QED
    BY <2>1, <1>4, Zenon DEF LE!ExportComplete, LE!Did

(* The learning engine: however the ring has wrapped around and whenever   *)
(* recording was off, for every size of the ring and all thresholds.       *)
THEOREM LearningSoundHolds == Spec => []LearningSound
<1>1. LearningInv => LE!LearningSound
  BY Earned, Missed, Complete DEF LE!LearningSound
<1> QED
  BY LearningInvariant, <1>1, PTL DEF LearningSound

-----------------------------------------------------------------------------
(* A finite set of numbers in descending order: those above a number, and  *)
(* the one that has k - 1 others above it.                                 *)
Above(S, i) == {j \in S : j > i}
At(S, k) == CHOOSE i \in S : Cardinality(Above(S, i)) = k - 1

(* A set of k numbers has one with none above it, one with one above it,   *)
(* and so on up to k - 1.                                                  *)
LEMMA Ranks ==
    ASSUME NEW S \in SUBSET Nat, IsFiniteSet(S)
    PROVE  /\ Cardinality(S) \in Nat
           /\ \A i \in S : Cardinality(Above(S, i)) \in Nat /\ Cardinality(Above(S, i)) < Cardinality(S)
           /\ \A i, j \in S : i < j => Cardinality(Above(S, j)) < Cardinality(Above(S, i))
           /\ \A k \in 1 .. Cardinality(S) : \E i \in S : Cardinality(Above(S, i)) = k - 1
<1>1. \A i \in S : IsFiniteSet(Above(S, i)) /\ Cardinality(Above(S, i)) \in Nat
  <2> SUFFICES ASSUME NEW i \in S PROVE IsFiniteSet(Above(S, i)) /\ Cardinality(Above(S, i)) \in Nat
    OBVIOUS
  <2>1. Above(S, i) \in SUBSET S
    BY DEF Above
  <2> QED
    BY <2>1, FS_Subset, FS_CardinalityType
<1>2. Cardinality(S) \in Nat
  BY FS_CardinalityType
<1>3. ASSUME NEW i \in S, NEW T, IsFiniteSet(T), Above(S, i) \cup {i} \subseteq T
      PROVE  Cardinality(Above(S, i)) < Cardinality(T)
  <2>1. i \notin Above(S, i)
    BY DEF Above
  <2>2. /\ IsFiniteSet(Above(S, i) \cup {i})
        /\ Cardinality(Above(S, i) \cup {i}) = Cardinality(Above(S, i)) + 1
    BY <1>1, <2>1, FS_AddElement
  <2>3. Cardinality(Above(S, i) \cup {i}) <= Cardinality(T)
    BY <1>3, FS_Subset
  <2>4. Cardinality(T) \in Nat
    BY <1>3, FS_CardinalityType
  <2> QED
    BY <1>1, <2>2, <2>3, <2>4
<1>4. \A i \in S : Cardinality(Above(S, i)) < Cardinality(S)
  <2> SUFFICES ASSUME NEW i \in S PROVE Cardinality(Above(S, i)) < Cardinality(S)
    OBVIOUS
  <2>1. Above(S, i) \cup {i} \subseteq S
    BY DEF Above
  <2> QED
    BY <1>3, <2>1
<1>5. \A i, j \in S : i < j => Cardinality(Above(S, j)) < Cardinality(Above(S, i))
  <2> SUFFICES ASSUME NEW i \in S, NEW j \in S, i < j
               PROVE  Cardinality(Above(S, j)) < Cardinality(Above(S, i))
    OBVIOUS
  <2>1. Above(S, j) \cup {j} \subseteq Above(S, i)
    <3>1. i \in Nat /\ j \in Nat /\ j > i
      OBVIOUS
    <3>2. \A m \in S : m > j => m > i
      BY <3>1
    <3> QED
      BY <3>1, <3>2 DEF Above
  <2> QED
    BY <1>1, <1>3, <2>1
<1>6. ASSUME NEW k \in 1 .. Cardinality(S)
      PROVE  \E i \in S : Cardinality(Above(S, i)) = k - 1
  <2> DEFINE f == [i \in S |-> Cardinality(Above(S, i)) + 1]
             K == 1 .. Cardinality(S)
  <2>1. \A i \in S : Cardinality(Above(S, i)) + 1 \in K
    BY <1>1, <1>2, <1>4
  <2>2. \A i, j \in S : f[i] = f[j] => i = j
    <3> SUFFICES ASSUME NEW i \in S, NEW j \in S, i < j PROVE f[i] # f[j]
      OBVIOUS
    <3> QED
      BY <1>1, <1>5
  <2>3. f \in [S -> K] /\ DOMAIN f = S
    BY <2>1
  <2> HIDE DEF f
  <2>4. f \in Injection(S, K)
    BY <2>2, <2>3 DEF Injection, IsInjective
  <2>5. IsFiniteSet(K) /\ Cardinality(K) = Cardinality(S)
    <3>1. /\ IsFiniteSet(1 .. Cardinality(S))
          /\ Cardinality(1 .. Cardinality(S)) =
                IF 1 > Cardinality(S) THEN 0 ELSE Cardinality(S) - 1 + 1
      <4>1. 1 \in Int /\ Cardinality(S) \in Int
        BY <1>2
      <4> QED
        BY <4>1, FS_Interval, Zenon
    <3> QED
      BY <1>2, <3>1
  <2>6. f \in Surjection(S, K)
    BY <2>4, <2>5, FS_Injection
  <2>7. PICK i \in S : f[i] = k
    BY <2>6 DEF Surjection
  <2>8. Cardinality(Above(S, i)) + 1 = k
    BY <2>7 DEF f
  <2> QED
    BY <1>1, <2>8
<1> QED
  BY <1>1, <1>2, <1>4, <1>5, <1>6

(* So it can be enumerated in descending order.                            *)
LEMMA Ordered ==
    ASSUME NEW S \in SUBSET Nat, IsFiniteSet(S)
    PROVE  /\ \A k \in 1 .. Cardinality(S) :
                 At(S, k) \in S /\ Cardinality(Above(S, At(S, k))) = k - 1
           /\ \A k, l \in 1 .. Cardinality(S) : k < l => At(S, l) < At(S, k)
           /\ \A i \in S : \E k \in 1 .. Cardinality(S) :
                 At(S, k) = i /\ Cardinality(Above(S, i)) = k - 1
<1>1. \A k \in 1 .. Cardinality(S) :
         At(S, k) \in S /\ Cardinality(Above(S, At(S, k))) = k - 1
  <2> SUFFICES ASSUME NEW k \in 1 .. Cardinality(S)
               PROVE  At(S, k) \in S /\ Cardinality(Above(S, At(S, k))) = k - 1
    OBVIOUS
  <2>1. \E i \in S : Cardinality(Above(S, i)) = k - 1
    BY Ranks
  <2> QED
    BY <2>1, Zenon DEF At
<1>2. ASSUME NEW k \in 1 .. Cardinality(S), NEW l \in 1 .. Cardinality(S), k < l
      PROVE  At(S, l) < At(S, k)
  <2>1. Cardinality(Above(S, At(S, k))) = k - 1 /\ Cardinality(Above(S, At(S, l))) = l - 1
    BY <1>1
  <2>2. At(S, k) \in S /\ At(S, l) \in S /\ At(S, k) \in Nat /\ At(S, l) \in Nat
    BY <1>1
  <2>3. k - 1 < l - 1 /\ Cardinality(S) \in Nat
    BY <1>2, Ranks
  <2>4. CASE At(S, k) < At(S, l)
    <3>1. l - 1 < k - 1
      BY <2>1, <2>2, <2>4, Ranks
    <3> QED
      BY <2>3, <3>1
  <2>5. CASE At(S, k) = At(S, l)
    BY <2>1, <2>3, <2>5
  <2> QED
    BY <2>2, <2>4, <2>5
<1>3. ASSUME NEW i \in S
      PROVE  \E k \in 1 .. Cardinality(S) : At(S, k) = i /\ Cardinality(Above(S, i)) = k - 1
  <2> DEFINE k == Cardinality(Above(S, i)) + 1
  <2>1. k \in 1 .. Cardinality(S) /\ Cardinality(Above(S, i)) = k - 1
    BY Ranks
  <2>2. At(S, k) \in S /\ Cardinality(Above(S, At(S, k))) = Cardinality(Above(S, i))
    BY <1>1, <2>1
  <2>3. At(S, k) = i
    <3>1. At(S, k) \in Nat /\ i \in Nat
      BY <2>2
    <3>2. ~ (At(S, k) < i) /\ ~ (i < At(S, k))
      <4> HIDE DEF k
      <4>1. Cardinality(Above(S, i)) \in Nat /\ At(S, k) \in S
        BY <2>2, Ranks
      <4>2. At(S, k) < i => Cardinality(Above(S, i)) < Cardinality(Above(S, At(S, k)))
        BY <4>1, Ranks
      <4>3. i < At(S, k) => Cardinality(Above(S, At(S, k))) < Cardinality(Above(S, i))
        BY <4>1, Ranks
      <4> QED
        BY <2>2, <4>1, <4>2, <4>3
    <3> QED
      BY <3>1, <3>2
  <2> QED
    BY <2>1, <2>3
<1> QED
  BY <1>1, <1>2, <1>3

(* The first L of them: no others when they are fewer than L.              *)
LEMMA CutOff ==
    ASSUME NEW S \in SUBSET Nat, IsFiniteSet(S), NEW L \in Nat,
           NEW T, T = {i \in S : Cardinality(Above(S, i)) < L}
    PROVE  /\ IsFiniteSet(T) /\ Cardinality(T) \in Nat /\ Cardinality(T) <= L
           /\ Cardinality(T) < L => T = S
           /\ \A i \in T : \A j \in S : i < j => j \in T
<1>1. T \in SUBSET S /\ IsFiniteSet(T) /\ Cardinality(T) \in Nat
  BY FS_Subset, FS_CardinalityType
<1>2. \A i \in S : Cardinality(Above(S, i)) \in Nat /\ Cardinality(Above(S, i)) < Cardinality(S)
  BY Ranks
<1>3. IsFiniteSet(1 .. L) /\ Cardinality(1 .. L) = L
  <2>1. /\ IsFiniteSet(1 .. L)
        /\ Cardinality(1 .. L) = IF 1 > L THEN 0 ELSE L - 1 + 1
    BY FS_Interval
  <2> QED
    BY <2>1
<1>4. Cardinality(T) <= L
  <2> DEFINE f == [i \in T |-> Cardinality(Above(S, i)) + 1]
  <2>1. \A i \in T : Cardinality(Above(S, i)) + 1 \in 1 .. L
    BY <1>2
  <2>2. \A i, j \in T : f[i] = f[j] => i = j
    <3> SUFFICES ASSUME NEW i \in T, NEW j \in T, i < j PROVE f[i] # f[j]
      BY <1>1
    <3>1. i \in S /\ j \in S /\ Cardinality(Above(S, j)) < Cardinality(Above(S, i))
      BY <1>1, Ranks
    <3> QED
      BY <1>2, <3>1
  <2>3. f \in [T -> 1 .. L] /\ DOMAIN f = T
    BY <2>1
  <2> HIDE DEF f
  <2>4. f \in Injection(T, 1 .. L)
    BY <2>2, <2>3 DEF Injection, IsInjective
  <2> QED
    BY <1>3, <2>4, FS_Injection
<1>5. ASSUME Cardinality(T) < L PROVE T = S
  <2> SUFFICES ASSUME NEW h \in S, h \notin T PROVE FALSE
    BY <1>1
  <2>1. L < Cardinality(S) /\ Cardinality(S) \in Nat
    BY <1>2, Ranks
  <2> DEFINE g == [k \in 1 .. L |-> At(S, k)]
  <2>2. \A k \in 1 .. L : k \in 1 .. Cardinality(S) /\ k - 1 < L
    BY <2>1
  <2>3. \A k \in 1 .. L : At(S, k) \in T
    BY <2>2, Ordered
  <2>4. \A k, l \in 1 .. L : g[k] = g[l] => k = l
    <3> SUFFICES ASSUME NEW k \in 1 .. L, NEW l \in 1 .. L, k < l PROVE g[k] # g[l]
      OBVIOUS
    <3>1. At(S, l) < At(S, k) /\ At(S, l) \in Nat
      BY <2>2, Ordered
    <3> QED
      BY <3>1
  <2>5. g \in [1 .. L -> T] /\ DOMAIN g = 1 .. L
    BY <2>3
  <2> HIDE DEF g
  <2>6. g \in Injection(1 .. L, T)
    BY <2>4, <2>5 DEF Injection, IsInjective
  <2>7. L <= Cardinality(T)
    BY <1>1, <1>3, <2>6, FS_Injection
  <2> QED
    BY <1>1, <1>5, <2>7
<1>6. ASSUME NEW i \in T, NEW j \in S, i < j PROVE j \in T
  <2>1. i \in S /\ Cardinality(Above(S, i)) < L
    OBVIOUS
  <2>2. Cardinality(Above(S, j)) < Cardinality(Above(S, i))
    BY <1>6, <2>1, Ranks
  <2>3. Cardinality(Above(S, j)) \in Nat /\ Cardinality(Above(S, i)) \in Nat
    BY <1>2, <2>1
  <2>4. Cardinality(Above(S, j)) < L
    BY <2>1, <2>2, <2>3
  <2> QED
    BY <2>4
<1> QED
  BY <1>1, <1>4, <1>5, <1>6

-----------------------------------------------------------------------------
(* The audit log: the ring holds its newest events.                        *)
Logged == [actor: {k.actor : k \in QuerySetup.kinds} \cup {AQ!Any},
           action: {k.action : k \in QuerySetup.kinds} \cup {AQ!Any},
           result: {k.result : k \in QuerySetup.kinds} \cup {AQ!Any}, n: Nat]
Newest == [j \in 1 .. events.len |-> log[Len(log) - events.len + j]]

LogInv ==
    /\ log \in Seq(Logged)
    /\ \A i \in 1 .. Len(log) : log[i].n = i
    /\ events.len <= Len(log)
    /\ Holds(events, Newest, QuerySetup.maxSize, Logged)
    /\ Len(log) <= QuerySetup.maxSize => events.len = Len(log) /\ events.pos = 0
    /\ Len(log) > QuerySetup.maxSize => events.len = QuerySetup.maxSize
    /\ Len(log) >= QuerySetup.maxSize => events.pos = Len(log) % QuerySetup.maxSize
    /\ \A i \in 0 .. events.len - 1 : (events.slot[i].n - 1) % QuerySetup.maxSize = i

(* What Query and Stats have returned since the last event.                *)
ResultInv ==
    /\ filter \in AQ!Filters
    /\ filter = AQ!NoFilter => answer = <<>>
    /\ filter # AQ!NoFilter => answer = AQ!Found(filter)
    /\ stats # AQ!NoStats => stats = AQ!Count

(* The parameters of the audit log, and the limit of a query.              *)
LEMMA QuerySizes ==
    /\ QuerySetup.maxSize \in Nat \ {0}
    /\ AQ!Slots = 0 .. QuerySetup.maxSize - 1
    /\ \A f : AQ!Limit(f) \in Nat /\ AQ!Limit(f) <= QuerySetup.maxLimit
    /\ QuerySetup.maxLimit \in Nat
<1>1. /\ QuerySetup.maxSize \in Nat \ {0} /\ QuerySetup.maxLimit \in Nat
      /\ QuerySetup.defaultLimit \in 1 .. QuerySetup.maxLimit
  BY QueryAssumption DEF AQ!AuditQueryConstants
<1>2. \A f : AQ!Limit(f) \in Nat /\ AQ!Limit(f) <= QuerySetup.maxLimit
  BY <1>1 DEF AQ!Limit
<1> QED
  BY <1>1, <1>2 DEF AQ!Slots

(* Indexes in a circle: the remainder of a number and of the next one.     *)
LEMMA Remainder ==
    ASSUME NEW a \in Nat, NEW m \in Nat \ {0}
    PROVE  /\ a % m \in 0 .. m - 1
           /\ (a + 1) % m = IF (a % m) + 1 = m THEN 0 ELSE (a % m) + 1
           /\ a < m => a % m = a
           /\ a >= m /\ a < 2 * m => a % m = a - m
<1> DEFINE q == a \div m
           r == a % m
<1>1. q \in Nat /\ r \in 0 .. m - 1 /\ a = m * q + r
  OBVIOUS
<1>2. ASSUME NEW x \in Int, NEW y \in 0 .. m - 1 PROVE (m * x + y) % m = y
  OBVIOUS
<1>3. CASE r + 1 = m
  <2>1. a + 1 = m * (q + 1)
    BY <1>1, <1>3
  <2>2. (m * (q + 1)) % m = 0
    OBVIOUS
  <2> QED
    BY <2>1, <2>2, <1>1, <1>3
<1>4. CASE r + 1 # m
  <2>1. a + 1 = m * q + (r + 1) /\ r + 1 \in 0 .. m - 1
    BY <1>1, <1>4
  <2> QED
    BY <2>1, <1>1, <1>2, <1>4
<1>5. ASSUME a < m PROVE a % m = a
  <2>1. a = m * 0 + a /\ a \in 0 .. m - 1
    BY <1>5
  <2> QED
    BY <2>1, <1>2
<1>6. ASSUME a >= m, a < 2 * m PROVE a % m = a - m
  <2>1. a = m * 1 + (a - m) /\ a - m \in 0 .. m - 1
    BY <1>6
  <2> QED
    BY <2>1, <1>2
<1> QED
  BY <1>1, <1>3, <1>4, <1>5, <1>6

(* The n elements after the first o: how they change when one is appended. *)
Part(l, o, k) == [j \in 1 .. k |-> l[o + j]]

(* Such a part is a sequence of elements of the whole.                     *)
LEMMA PartTyped ==
    ASSUME NEW T, NEW l \in Seq(T), NEW o \in Nat, NEW k \in Nat, o + k <= Len(l)
    PROVE  /\ Part(l, o, k) \in Seq(T) /\ Len(Part(l, o, k)) = k
           /\ \A j \in 1 .. k : Part(l, o, k)[j] = l[o + j] /\ o + j \in 1 .. Len(l)
<1>1. \A j \in 1 .. k : o + j \in 1 .. Len(l)
  OBVIOUS
<1>2. \A j \in 1 .. k : l[o + j] \in T
  BY <1>1
<1> QED
  BY <1>1, <1>2 DEF Part

(* Sequences of the same elements are the same.                            *)
LEMMA SameSequence ==
    ASSUME NEW T, NEW s \in Seq(T), NEW t \in Seq(T), Len(s) = Len(t),
           \A i \in 1 .. Len(s) : s[i] = t[i]
    PROVE  s = t
OBVIOUS

(* A part that reaches the end grows by what is appended,                  *)
LEMMA PartGrows ==
    ASSUME NEW T, NEW l \in Seq(T), NEW o \in Nat, NEW k \in Nat, o + k = Len(l), NEW e \in T
    PROVE  Part(Append(l, e), o, k + 1) = Append(Part(l, o, k), e)
<1> DEFINE s == Part(Append(l, e), o, k + 1)
           p == Part(l, o, k)
           t == Append(p, e)
<1>1. /\ Append(l, e) \in Seq(T) /\ Len(Append(l, e)) = Len(l) + 1 /\ Append(l, e)[Len(l) + 1] = e
      /\ \A i \in 1 .. Len(l) : Append(l, e)[i] = l[i]
  OBVIOUS
<1>2. /\ s \in Seq(T) /\ Len(s) = k + 1
      /\ \A j \in 1 .. k + 1 : s[j] = Append(l, e)[o + j] /\ o + j \in 1 .. Len(l) + 1
  <2>1. k + 1 \in Nat /\ o + (k + 1) <= Len(Append(l, e)) /\ Append(l, e) \in Seq(T)
    BY <1>1
  <2>2. /\ s \in Seq(T) /\ Len(s) = k + 1
        /\ \A j \in 1 .. k + 1 : s[j] = Append(l, e)[o + j] /\ o + j \in 1 .. Len(Append(l, e))
    BY <2>1, PartTyped, Zenon
  <2> QED
    BY <1>1, <2>2
<1>3. p \in Seq(T) /\ Len(p) = k /\ \A j \in 1 .. k : p[j] = l[o + j] /\ o + j \in 1 .. Len(l)
  <2>1. k \in Nat /\ o + k <= Len(l)
    OBVIOUS
  <2> QED
    BY <2>1, PartTyped, Zenon
<1> HIDE DEF p, s
<1>4. t \in Seq(T) /\ Len(t) = k + 1 /\ t[k + 1] = e /\ \A j \in 1 .. k : t[j] = p[j]
  BY <1>3
<1> HIDE DEF t
<1>5. ASSUME NEW j \in 1 .. k + 1 PROVE s[j] = t[j]
  <2>1. CASE j \in 1 .. k
    BY <2>1, <1>1, <1>2, <1>3, <1>4
  <2>2. CASE j = k + 1
    <3>1. o + j = Len(l) + 1 /\ j \in 1 .. k + 1
      BY <2>2
    <3> QED
      BY <2>2, <3>1, <1>1, <1>2, <1>4
  <2> QED
    BY <2>1, <2>2
<1>6. s = t
  BY <1>2, <1>4, <1>5, SameSequence
<1> QED
  BY <1>6 DEF s, t, p

(* or drops its first element for it.                                      *)
LEMMA PartMoves ==
    ASSUME NEW T, NEW l \in Seq(T), NEW o \in Nat, NEW k \in Nat \ {0}, o + k = Len(l), NEW e \in T
    PROVE  Part(Append(l, e), o + 1, k) = Append(Tail(Part(l, o, k)), e)
<1> DEFINE s == Part(Append(l, e), o + 1, k)
           p == Part(l, o, k)
           q == Tail(p)
           t == Append(q, e)
<1>1. /\ Append(l, e) \in Seq(T) /\ Len(Append(l, e)) = Len(l) + 1 /\ Append(l, e)[Len(l) + 1] = e
      /\ \A i \in 1 .. Len(l) : Append(l, e)[i] = l[i]
  OBVIOUS
<1>2. /\ s \in Seq(T) /\ Len(s) = k
      /\ \A j \in 1 .. k : s[j] = Append(l, e)[o + 1 + j] /\ o + 1 + j \in 1 .. Len(l) + 1
  <2>1. k \in Nat /\ o + 1 \in Nat /\ (o + 1) + k <= Len(Append(l, e)) /\ Append(l, e) \in Seq(T)
    BY <1>1
  <2>2. /\ s \in Seq(T) /\ Len(s) = k
        /\ \A j \in 1 .. k : s[j] = Append(l, e)[(o + 1) + j] /\ (o + 1) + j \in 1 .. Len(Append(l, e))
    BY <2>1, PartTyped, Zenon
  <2> QED
    BY <1>1, <2>2
<1>3. p \in Seq(T) /\ Len(p) = k /\ \A j \in 1 .. k : p[j] = l[o + j] /\ o + j \in 1 .. Len(l)
  <2>1. k \in Nat /\ o + k <= Len(l)
    OBVIOUS
  <2> QED
    BY <2>1, PartTyped, Zenon
<1> HIDE DEF p, s
<1>4. q \in Seq(T) /\ Len(q) = k - 1 /\ \A j \in 1 .. k - 1 : q[j] = p[j + 1]
  BY <1>3
<1> HIDE DEF q
<1>5. t \in Seq(T) /\ Len(t) = k /\ t[k] = e /\ \A j \in 1 .. k - 1 : t[j] = q[j]
  BY <1>4
<1> HIDE DEF t
<1>6. ASSUME NEW j \in 1 .. k PROVE s[j] = t[j]
  <2>1. CASE j \in 1 .. k - 1
    <3>1. j + 1 \in 1 .. k /\ o + (j + 1) = o + 1 + j
      BY <2>1
    <3> QED
      BY <2>1, <3>1, <1>1, <1>2, <1>3, <1>4, <1>5
  <2>2. CASE j = k
    <3>1. o + 1 + k = Len(l) + 1
      OBVIOUS
    <3> QED
      BY <2>2, <3>1, <1>1, <1>2, <1>5
  <2> QED
    BY <2>1, <2>2
<1>7. s = t
  BY <1>2, <1>5, <1>6, SameSequence
<1> QED
  BY <1>7 DEF s, t, q, p

(* Record: the event takes the last place of those that are kept.          *)
LEMMA EventIsLogged ==
    ASSUME LogInv, NEW k \in QuerySetup.kinds, AQ!Record(k)
    PROVE  LogInv'
<1> DEFINE M == QuerySetup.maxSize
           e == [actor |-> k.actor, action |-> k.action, result |-> k.result, n |-> Len(log) + 1]
           L == Len(log)
<1>0. M \in Nat \ {0} /\ M \in Nat /\ M >= 1
  BY QuerySizes
<1>1. /\ log \in Seq(Logged) /\ L \in Nat
      /\ \A i \in 1 .. L : log[i].n = i
      /\ events.len <= L /\ Holds(events, Newest, M, Logged)
      /\ L <= M => events.len = L /\ events.pos = 0
      /\ L > M => events.len = M
      /\ L >= M => events.pos = L % M
      /\ \A i \in 0 .. events.len - 1 : (events.slot[i].n - 1) % M = i
  BY DEF LogInv
<1>2. events' = Pushed(events, e, M) /\ log' = Append(log, e)
  BY DEF AQ!Record, AQ!Push, Pushed
<1>3. e \in Logged /\ e.n = L + 1
  BY <1>1 DEF Logged
<1>4. /\ log' \in Seq(Logged) /\ Len(log') = L + 1 /\ log'[L + 1] = e
      /\ \A i \in 1 .. L : log'[i] = log[i]
  <2> HIDE DEF e
  <2> QED
    BY <1>1, <1>2, <1>3
<1>5. \A i \in 1 .. Len(log') : log'[i].n = i
  BY <1>1, <1>3, <1>4
<1>6. /\ events \in [slot: [0 .. M - 1 -> Logged], len: Nat, pos: 0 .. M - 1] /\ events.len <= M
      /\ Newest \in Seq(Logged) /\ Len(Newest) = events.len
  BY <1>1 DEF Holds
<1>7. /\ events.len < M => events'.len = events.len + 1 /\ events'.pos = events.pos
      /\ events.len = M => events'.len = M
  BY <1>0, <1>2, <1>6 DEF Pushed
<1>8. /\ L + 1 <= M => events'.len = L + 1 /\ events'.pos = 0
      /\ L + 1 > M => events'.len = M
      /\ events'.len <= L + 1 /\ events'.len \in Nat
  BY <1>0, <1>1, <1>6, <1>7
<1>9. Newest' = Append(IF Len(Newest) = M THEN Tail(Newest) ELSE Newest, e)
  <2> DEFINE o == L - events.len
  <2>1. o \in Nat /\ events.len \in Nat /\ o + events.len = L
    BY <1>1, <1>6
  <2>2. Newest = Part(log, o, events.len) /\ Newest' = Part(log', Len(log') - events'.len, events'.len)
    BY DEF Newest, Part
  <2> HIDE DEF e
  <2>3. CASE events.len < M
    <3>1. events'.len = events.len + 1 /\ Len(log') - events'.len = o
      BY <1>1, <1>4, <1>6, <1>7, <2>3
    <3> HIDE DEF o
    <3>2. Newest' = Part(Append(log, e), o, events.len + 1)
      BY <1>2, <2>2, <3>1
    <3>3. Part(Append(log, e), o, events.len + 1) = Append(Part(log, o, events.len), e)
      BY <1>1, <1>3, <2>1, PartGrows
    <3>4. Len(Newest) # M
      BY <1>6, <2>3, <1>0
    <3> QED
      BY <2>2, <3>2, <3>3, <3>4
  <2>4. CASE events.len = M
    <3>1. events'.len = M /\ Len(log') - events'.len = o + 1
      BY <1>0, <1>1, <1>4, <1>6, <1>7, <2>4
    <3> HIDE DEF o
    <3>2. Newest' = Part(Append(log, e), o + 1, M)
      BY <1>2, <2>2, <3>1
    <3>3. Part(Append(log, e), o + 1, M) = Append(Tail(Part(log, o, M)), e)
      BY <1>0, <1>1, <1>3, <2>1, <2>4, PartMoves
    <3>4. Len(Newest) = M
      BY <1>6, <2>4
    <3> QED
      BY <2>2, <2>4, <3>2, <3>3, <3>4
  <2> QED
    BY <2>3, <2>4, <1>0, <1>6
<1>10. Holds(events', Newest', M, Logged)
  <2>1. Holds(Pushed(events, e, M), Append(IF Len(Newest) = M THEN Tail(Newest) ELSE Newest, e), M, Logged)
    <3> HIDE DEF e
    <3> QED
      BY <1>0, <1>1, <1>3, PushHolds
  <2> QED
    BY <1>2, <1>9, <2>1
<1>11. L + 1 >= M => events'.pos = (L + 1) % M
  <2> SUFFICES ASSUME L + 1 >= M PROVE events'.pos = (L + 1) % M
    OBVIOUS
  <2>1. CASE L + 1 = M
    <3>1. M % M = 0
      BY <1>0
    <3> QED
      BY <1>8, <2>1, <3>1
  <2>2. CASE L >= M
    <3>1. events.len = M /\ events.pos = L % M
      BY <1>0, <1>1, <2>2
    <3>2. events'.pos = ((L % M) + 1) % M
      BY <1>0, <1>2, <1>6, <3>1 DEF Pushed
    <3>3. L % M \in 0 .. M - 1 /\ (L + 1) % M = IF (L % M) + 1 = M THEN 0 ELSE (L % M) + 1
      BY <1>0, <1>1, Remainder
    <3>4. ((L % M) + 1) % M = IF (L % M) + 1 = M THEN 0 ELSE (L % M) + 1
      <4> DEFINE x == L % M
      <4>1. x \in 0 .. M - 1
        BY <3>3
      <4> HIDE DEF x
      <4>2. x \in Nat /\ x < M /\ M \in Nat \ {0}
        BY <1>0, <4>1
      <4> HIDE DEF M
      <4>3. x + 1 \in Nat /\ (x + 1 = M \/ x + 1 < M)
        BY <4>2
      <4>4. x + 1 < M => (x + 1) % M = x + 1
        BY <4>2, <4>3, Remainder, Zenon
      <4>5. M % M = 0
        BY <4>2
      <4> QED
        BY <4>3, <4>4, <4>5 DEF x
    <3> QED
      BY <3>2, <3>3, <3>4
  <2> QED
    BY <1>0, <1>1, <2>1, <2>2
<1>12. \A i \in 0 .. events'.len - 1 : (events'.slot[i].n - 1) % M = i
  <2>1. L % M \in 0 .. M - 1 /\ (L < M => L % M = L)
    BY <1>0, <1>1, Remainder
  <2>2. e.n - 1 = L
    BY <1>1, <1>3
  <2> HIDE DEF e
  <2>3. CASE events.len < M
    <3>1. events.len = L /\ events'.slot = [events.slot EXCEPT ![L] = e] /\ events'.len = L + 1
      BY <1>0, <1>1, <1>2, <1>6, <2>3 DEF Pushed
    <3>2. L \in 0 .. M - 1 /\ L % M = L
      BY <1>1, <2>1, <2>3, <3>1
    <3>3. ASSUME NEW i \in 0 .. L PROVE (events'.slot[i].n - 1) % M = i
      <4>1. CASE i = L
        BY <1>6, <2>2, <3>1, <3>2, <4>1
      <4>2. CASE i # L
        <5>1. i \in 0 .. events.len - 1 /\ events'.slot[i] = events.slot[i]
          BY <1>1, <1>6, <3>1, <4>2
        <5> QED
          BY <1>1, <5>1
      <4> QED
        BY <4>1, <4>2
    <3>4. 0 .. events'.len - 1 = 0 .. L
      BY <1>1, <3>1
    <3> QED
      BY <3>3, <3>4
  <2>4. CASE events.len = M
    <3>1. /\ events'.slot = [events.slot EXCEPT ![events.pos] = e] /\ events'.len = M
          /\ events.pos = L % M
      BY <1>0, <1>1, <1>2, <1>6, <2>4 DEF Pushed
    <3>2. ASSUME NEW i \in 0 .. M - 1 PROVE (events'.slot[i].n - 1) % M = i
      <4>1. CASE i = events.pos
        BY <1>6, <2>2, <3>1, <4>1
      <4>2. CASE i # events.pos
        <5>1. i \in 0 .. events.len - 1 /\ events'.slot[i] = events.slot[i]
          BY <1>6, <2>4, <3>1, <4>2
        <5> QED
          BY <1>1, <5>1
      <4> QED
        BY <4>1, <4>2
    <3> QED
      BY <3>1, <3>2
  <2> QED
    BY <1>0, <1>6, <2>3, <2>4
<1> HIDE DEF e
<1> QED
  BY <1>4, <1>5, <1>8, <1>10, <1>11, <1>12 DEF LogInv, Logged

(* The slot i has the event with this number.                              *)
Index(i) == Len(log) - events.len + Place(i, events.pos, QuerySetup.maxSize)

(* The slots in use have the last events, each one once, in their places.  *)
LEMMA SlotFacts ==
    ASSUME LogInv
    PROVE  /\ events.len \in Nat /\ events.pos \in Nat /\ Len(log) \in Nat
           /\ \A i \in 0 .. events.len - 1 :
                 /\ Index(i) \in 1 .. Len(log) /\ Index(i) > Len(log) - QuerySetup.maxSize
                 /\ events.slot[i] = log[Index(i)] /\ events.slot[i].n = Index(i)
                 /\ events.slot[i] \in Logged
           /\ \A m \in 1 .. Len(log) : m > Len(log) - QuerySetup.maxSize =>
                 \E i \in 0 .. events.len - 1 : Index(i) = m
           /\ \A i, j \in 0 .. events.len - 1 : Index(i) = Index(j) => i = j
           /\ \A i \in 0 .. events.len - 1 : AQ!Place(events.slot[i]) = i
<1> DEFINE M == QuerySetup.maxSize
           L == Len(log)
           p == events.pos
           len == events.len
<1>0. M \in Nat \ {0} /\ M \in Nat /\ M >= 1
  BY QuerySizes
<1>1. /\ log \in Seq(Logged) /\ L \in Nat
      /\ \A i \in 1 .. L : log[i].n = i
      /\ len <= L /\ Holds(events, Newest, M, Logged)
      /\ L <= M => len = L /\ p = 0
      /\ L > M => len = M
  BY DEF LogInv
<1>2. /\ len \in Nat /\ len <= M /\ DOMAIN Newest = 1 .. len
      /\ p \in Nat /\ p < M /\ (len < M => p = 0)
      /\ \A i \in 0 .. len - 1 : /\ Place(i, p, M) \in 1 .. len
                                 /\ Newest[Place(i, p, M)] = events.slot[i]
                                 /\ events.slot[i] \in Logged
      /\ \A i, j \in 0 .. len - 1 : Place(i, p, M) = Place(j, p, M) => i = j
      /\ \A k \in 1 .. len : \E i \in 0 .. len - 1 : Place(i, p, M) = k
  BY <1>0, <1>1, Places
<1> HIDE DEF M, L, p, len
<1>3. \A i \in 0 .. len - 1 : Index(i) = L - len + Place(i, p, M)
  BY DEF Index, L, len, p, M
<1>4. ASSUME NEW i \in 0 .. len - 1
      PROVE  /\ Index(i) \in 1 .. L /\ Index(i) > L - M
             /\ events.slot[i] = log[Index(i)] /\ events.slot[i].n = Index(i)
             /\ events.slot[i] \in Logged
  <2>1. Place(i, p, M) \in 1 .. len /\ Newest[Place(i, p, M)] = events.slot[i] /\ events.slot[i] \in Logged
    BY <1>2
  <2>2. Index(i) \in 1 .. L /\ Index(i) > L - M
    <3>1. /\ L \in Nat /\ len \in Nat /\ M \in Nat /\ len <= L /\ len <= M
          /\ Place(i, p, M) \in Nat /\ 1 <= Place(i, p, M) /\ Place(i, p, M) <= len
      BY <1>0, <1>1, <1>2, <2>1
    <3>2. Index(i) = L - len + Place(i, p, M)
      BY <1>3
    <3> QED
      BY <3>1, <3>2
  <2>3. Newest[Place(i, p, M)] = log[Index(i)]
    BY <1>3, <2>1 DEF Newest, L, len
  <2> QED
    BY <1>1, <2>1, <2>2, <2>3
<1>5. ASSUME NEW m \in 1 .. L, m > L - M PROVE \E i \in 0 .. len - 1 : Index(i) = m
  <2>1. m - (L - len) \in 1 .. len
    <3>1. CASE L <= M
      BY <3>1, <1>0, <1>1, <1>2
    <3>2. CASE L > M
      BY <3>2, <1>0, <1>1, <1>2, <1>5
    <3> QED
      BY <3>1, <3>2, <1>0, <1>1
  <2>2. PICK i \in 0 .. len - 1 : Place(i, p, M) = m - (L - len)
    BY <1>2, <2>1
  <2>3. Index(i) = m
    BY <1>1, <1>2, <1>3, <2>2
  <2> QED
    BY <2>3
<1>6. \A i, j \in 0 .. len - 1 : Index(i) = Index(j) => i = j
  <2> SUFFICES ASSUME NEW i \in 0 .. len - 1, NEW j \in 0 .. len - 1, Index(i) = Index(j) PROVE i = j
    OBVIOUS
  <2>1. Place(i, p, M) \in Nat /\ Place(j, p, M) \in Nat
    BY <1>2
  <2>2. Place(i, p, M) = Place(j, p, M)
    BY <1>1, <1>2, <1>3, <2>1
  <2> QED
    BY <1>2, <2>2
<1>7. \A i \in 0 .. len - 1 : AQ!Place(events.slot[i]) = i
  BY DEF LogInv, AQ!Place, len
<1> QED
  BY <1>1, <1>2, <1>4, <1>5, <1>6, <1>7 DEF L, len, p, M

(* The instance of the log counts as this module does.                     *)
LEMMA QueryCounts == \A S : AQ!Cardinality(S) = Cardinality(S)
BY DEF AQ!Cardinality, Cardinality, AQ!IsFiniteSet, IsFiniteSet

(* What a query takes: the slots in descending order, up to the limit.     *)
LEMMA TakenFacts ==
    ASSUME LogInv, NEW f
    PROVE  /\ AQ!Hits(f) \in SUBSET Nat /\ IsFiniteSet(AQ!Hits(f))
           /\ AQ!Hits(f) = {i \in 0 .. events.len - 1 : AQ!Matches(f, events.slot[i])}
           /\ AQ!Taken(f) \in SUBSET AQ!Hits(f) /\ IsFiniteSet(AQ!Taken(f))
           /\ Cardinality(AQ!Taken(f)) \in Nat /\ Cardinality(AQ!Taken(f)) <= AQ!Limit(f)
           /\ Cardinality(AQ!Taken(f)) < AQ!Limit(f) => AQ!Taken(f) = AQ!Hits(f)
           /\ \A i \in AQ!Taken(f) : \A j \in AQ!Hits(f) : i < j => j \in AQ!Taken(f)
           /\ AQ!Found(f) = [k \in 1 .. Cardinality(AQ!Taken(f)) |-> events.slot[At(AQ!Taken(f), k)]]
<1>1. events.len \in Nat
  BY SlotFacts
<1>2. AQ!Hits(f) = {i \in 0 .. events.len - 1 : AQ!Matches(f, events.slot[i])}
  BY DEF AQ!Hits, AQ!Used
<1>3. AQ!Hits(f) \in SUBSET Nat /\ IsFiniteSet(AQ!Hits(f))
  <2>1. IsFiniteSet(0 .. events.len - 1)
    BY <1>1, FS_Interval
  <2>2. AQ!Hits(f) \in SUBSET (0 .. events.len - 1)
    BY <1>2
  <2> QED
    BY <2>1, <2>2, <1>1, FS_Subset
<1>4. AQ!Taken(f) = {i \in AQ!Hits(f) : Cardinality(Above(AQ!Hits(f), i)) < AQ!Limit(f)}
  BY QueryCounts DEF AQ!Taken, Above
<1>5. AQ!Found(f) = [k \in 1 .. Cardinality(AQ!Taken(f)) |-> events.slot[At(AQ!Taken(f), k)]]
  BY DEF AQ!Found, AQ!Descending, At, Above, AQ!Cardinality, Cardinality, AQ!IsFiniteSet,
     IsFiniteSet
<1>6. AQ!Limit(f) \in Nat
  BY QuerySizes
<1>7. /\ IsFiniteSet(AQ!Taken(f)) /\ Cardinality(AQ!Taken(f)) \in Nat
      /\ Cardinality(AQ!Taken(f)) <= AQ!Limit(f)
      /\ Cardinality(AQ!Taken(f)) < AQ!Limit(f) => AQ!Taken(f) = AQ!Hits(f)
      /\ \A i \in AQ!Taken(f) : \A j \in AQ!Hits(f) : i < j => j \in AQ!Taken(f)
  <2> DEFINE S == AQ!Hits(f)
             T == AQ!Taken(f)
             L == AQ!Limit(f)
  <2>1. /\ S \in SUBSET Nat /\ IsFiniteSet(S) /\ L \in Nat
        /\ T = {i \in S : Cardinality(Above(S, i)) < L}
    BY <1>3, <1>4, <1>6
  <2> HIDE DEF S, T, L
  <2>2. /\ IsFiniteSet(T) /\ Cardinality(T) \in Nat /\ Cardinality(T) <= L
        /\ Cardinality(T) < L => T = S
    BY <2>1, CutOff
  <2>3. \A i \in T : \A j \in S : i < j => j \in T
    BY <2>1, CutOff
  <2> QED
    BY <2>2, <2>3 DEF S, T, L
<1> QED
  BY <1>2, <1>3, <1>4, <1>5, <1>7

(* The ring of the audit log always holds its newest events, and what was  *)
(* returned since the last of them is what is found in it now.             *)
THEOREM QueryInvariant == Spec => [](part = "audit query" => LogInv /\ ResultInv)
<1>1. Init => (part = "audit query" => LogInv /\ ResultInv)
  <2> SUFFICES ASSUME AQ!Init PROVE LogInv /\ ResultInv
    BY DEF Init
  <2> DEFINE M == QuerySetup.maxSize
  <2>1. /\ events = [slot |-> [i \in 0 .. M - 1 |-> AQ!Blank], len |-> 0, pos |-> 0]
        /\ log = <<>> /\ filter = AQ!NoFilter /\ answer = <<>> /\ stats = AQ!NoStats
    BY QuerySizes DEF AQ!Init, AQ!NewRing
  <2>2. M \in Nat /\ M >= 1 /\ QuerySetup.maxLimit \in Nat
    BY QuerySizes
  <2>3. AQ!Blank \in Logged
    BY DEF AQ!Blank, Logged
  <2>4. AQ!NoFilter \in AQ!Filters
    BY <2>2 DEF AQ!NoFilter, AQ!Filters
  <2>5. Newest \in Seq(Logged) /\ Len(Newest) = 0
    <3>1. Newest = [j \in 1 .. 0 |-> log[Len(log) - events.len + j]]
      BY <2>1 DEF Newest
    <3>2. \A j \in 1 .. 0 : log[Len(log) - events.len + j] \in Logged
      OBVIOUS
    <3> QED
      BY <3>1, <3>2
  <2>6. \A i \in 0 .. M - 1 : ~ (i < 0)
    OBVIOUS
  <2>7. Holds(events, Newest, M, Logged)
    BY <2>1, <2>2, <2>3, <2>5, <2>6 DEF Holds
  <2>8. log \in Seq(Logged) /\ Len(log) = 0 /\ events.len = 0 /\ events.pos = 0
    BY <2>1
  <2>9. LogInv
    BY <2>2, <2>7, <2>8 DEF LogInv
  <2> QED
    BY <2>1, <2>4, <2>9 DEF ResultInv
<1>2. LogInv /\ ResultInv /\ [AQ!Next]_(AQ!vars) => LogInv' /\ ResultInv'
  <2> SUFFICES ASSUME LogInv, ResultInv, [AQ!Next]_(AQ!vars) PROVE LogInv' /\ ResultInv'
    OBVIOUS
  <2>1. ASSUME UNCHANGED <<events, log>>
        PROVE  /\ LogInv'
               /\ \A f : AQ!Found(f)' = AQ!Found(f)
               /\ AQ!Count' = AQ!Count
    <3>1. LogInv'
      BY <2>1 DEF LogInv, Newest, Holds, Logged
    <3>2. \A f : AQ!Found(f)' = AQ!Found(f)
      BY <2>1 DEF AQ!Found, AQ!Taken, AQ!Hits, AQ!Descending, AQ!Matches, AQ!Limit, AQ!Used
    <3>3. AQ!Count' = AQ!Count
      BY <2>1 DEF AQ!Count, AQ!With, AQ!Used
    <3> QED
      BY <3>1, <3>2, <3>3
  <2>2. ASSUME NEW k \in QuerySetup.kinds, AQ!Record(k)
        PROVE  LogInv' /\ ResultInv'
    <3>1. filter' = AQ!NoFilter /\ answer' = <<>> /\ stats' = AQ!NoStats
      BY <2>2 DEF AQ!Record
    <3>2. AQ!NoFilter \in AQ!Filters
      BY QuerySizes DEF AQ!NoFilter, AQ!Filters
    <3> QED
      BY <2>2, <3>1, <3>2, EventIsLogged DEF ResultInv, AQ!NoFilter, AQ!NoStats, AQ!Filters
  <2>3. ASSUME NEW f \in AQ!Filters \ {AQ!NoFilter}, AQ!Query(f)
        PROVE  LogInv' /\ ResultInv'
    <3>1. /\ UNCHANGED <<events, log>> /\ stats' = stats
          /\ filter' = f /\ answer' = AQ!Found(f)
      BY <2>3 DEF AQ!Query
    <3>2. AQ!Found(f)' = AQ!Found(f) /\ AQ!Count' = AQ!Count /\ LogInv'
      BY <2>1, <3>1
    <3>3. answer' = AQ!Found(filter)'
      BY <3>1, <3>2
    <3> QED
      BY <3>1, <3>2, <3>3 DEF ResultInv, AQ!NoFilter, AQ!NoStats, AQ!Filters
  <2>4. CASE AQ!Stats
    <3>1. UNCHANGED <<events, log, filter, answer>> /\ stats' = AQ!Count
      BY <2>4 DEF AQ!Stats
    <3>2. (\A f : AQ!Found(f)' = AQ!Found(f)) /\ AQ!Count' = AQ!Count /\ LogInv'
      BY <2>1, <3>1
    <3>3. AQ!Found(filter)' = AQ!Found(filter)
      BY <3>1, <3>2
    <3> QED
      BY <3>1, <3>2, <3>3 DEF ResultInv, AQ!NoFilter, AQ!NoStats, AQ!Filters
  <2>5. CASE UNCHANGED AQ!vars
    <3>1. UNCHANGED <<events, log, filter, answer, stats>>
      BY <2>5 DEF AQ!vars
    <3>2. (\A f : AQ!Found(f)' = AQ!Found(f)) /\ AQ!Count' = AQ!Count /\ LogInv'
      BY <2>1, <3>1
    <3>3. AQ!Found(filter)' = AQ!Found(filter)
      BY <3>1, <3>2
    <3> QED
      BY <3>1, <3>2, <3>3 DEF ResultInv, AQ!NoFilter, AQ!NoStats, AQ!Filters
  <2> QED
    BY <2>2, <2>3, <2>4, <2>5 DEF AQ!Next
<1>3. [Next]_vars => part' = part /\ (part = "audit query" => [AQ!Next]_(AQ!vars))
  BY DEF Next, vars, queryVars, AQ!vars
<1>4. (part = "audit query" => LogInv /\ ResultInv) /\ [Next]_vars
         => (part = "audit query" => LogInv /\ ResultInv)'
  BY <1>2, <1>3
<1> QED
  BY <1>1, <1>4, PTL DEF Spec

(* The slots and the events that are kept are as many, whichever are       *)
(* counted.                                                                *)
LEMMA RetainedAre ==
    ASSUME LogInv
    PROVE  /\ AQ!Retained = {events.slot[i] : i \in 0 .. events.len - 1}
           /\ \A S \in SUBSET (0 .. events.len - 1) :
                 /\ IsFiniteSet(S) /\ IsFiniteSet({events.slot[i] : i \in S})
                 /\ Cardinality({events.slot[i] : i \in S}) = Cardinality(S)
           /\ Cardinality(0 .. events.len - 1) = events.len
<1> DEFINE len == events.len
           M == QuerySetup.maxSize
<1>1. /\ len \in Nat /\ Len(log) \in Nat /\ log \in Seq(Logged)
      /\ \A i \in 0 .. len - 1 : /\ Index(i) \in 1 .. Len(log) /\ Index(i) > Len(log) - M
                                 /\ events.slot[i] = log[Index(i)] /\ events.slot[i].n = Index(i)
      /\ \A m \in 1 .. Len(log) : m > Len(log) - M => \E i \in 0 .. len - 1 : Index(i) = m
      /\ \A i, j \in 0 .. len - 1 : Index(i) = Index(j) => i = j
  BY SlotFacts DEF LogInv
<1>2. AQ!Retained = {log[m] : m \in {k \in 1 .. Len(log) : k > Len(log) - M}}
  BY <1>1 DEF AQ!Retained
<1> HIDE DEF len, M
<1>3. AQ!Retained = {events.slot[i] : i \in 0 .. len - 1}
  <2>1. ASSUME NEW i \in 0 .. len - 1 PROVE events.slot[i] \in AQ!Retained
    BY <1>1, <1>2
  <2>2. ASSUME NEW e \in AQ!Retained PROVE \E i \in 0 .. len - 1 : e = events.slot[i]
    <3>1. PICK m \in 1 .. Len(log) : m > Len(log) - M /\ e = log[m]
      BY <1>2
    <3>2. PICK i \in 0 .. len - 1 : Index(i) = m
      BY <1>1, <3>1
    <3> QED
      BY <1>1, <3>1, <3>2
  <2> QED
    BY <2>1, <2>2
<1>4. IsFiniteSet(0 .. len - 1) /\ Cardinality(0 .. len - 1) = len
  <2>1. 0 \in Int /\ len - 1 \in Int
    BY <1>1
  <2>2. /\ IsFiniteSet(0 .. len - 1)
        /\ Cardinality(0 .. len - 1) = IF 0 > len - 1 THEN 0 ELSE (len - 1) - 0 + 1
    BY <2>1, FS_Interval, Zenon
  <2> QED
    BY <1>1, <2>2
<1>5. ASSUME NEW S \in SUBSET (0 .. len - 1)
      PROVE  /\ IsFiniteSet(S) /\ IsFiniteSet({events.slot[i] : i \in S})
             /\ Cardinality({events.slot[i] : i \in S}) = Cardinality(S)
  <2> DEFINE U == {events.slot[i] : i \in S}
             f == [i \in S |-> events.slot[i]]
  <2>1. IsFiniteSet(S)
    BY <1>4, FS_Subset
  <2>2. f \in [S -> U]
    OBVIOUS
  <2>3. \A a, b \in S : f[a] = f[b] => a = b
    <3> SUFFICES ASSUME NEW a \in S, NEW b \in S, events.slot[a] = events.slot[b] PROVE a = b
      OBVIOUS
    <3>1. Index(a) = Index(b) /\ a \in 0 .. len - 1 /\ b \in 0 .. len - 1
      BY <1>1
    <3> QED
      BY <1>1, <3>1
  <2>4. \A t \in U : \E i \in S : f[i] = t
    OBVIOUS
  <2> HIDE DEF f, U
  <2>5. IsFiniteSet(U) /\ Cardinality(U) = Cardinality(S)
    BY <2>1, <2>2, <2>3, <2>4, SameNumber, Zenon
  <2> QED
    BY <2>1, <2>5 DEF U
<1> QED
  BY <1>3, <1>4, <1>5 DEF len

(* Stats counts the events that are kept.                                  *)
LEMMA StatsFollow ==
    ASSUME LogInv, ResultInv
    PROVE  AQ!StatsAgree
<1> SUFFICES ASSUME stats # AQ!NoStats
             PROVE  /\ stats.total = AQ!Cardinality(AQ!Retained)
                    /\ stats.allowed = AQ!Cardinality({e \in AQ!Retained : e.result = "allowed"})
                    /\ stats.blocked = AQ!Cardinality({e \in AQ!Retained : e.result # "allowed"})
  BY DEF AQ!StatsAgree
<1> DEFINE U == 0 .. events.len - 1
           A == {i \in U : events.slot[i].result = "allowed"}
           B == {i \in U : events.slot[i].result # "allowed"}
<1>1. stats = [total |-> events.len, allowed |-> Cardinality(A), blocked |-> events.len - Cardinality(A)]
  BY QueryCounts DEF ResultInv, AQ!Count, AQ!With, AQ!Used
<1>2. /\ AQ!Retained = {events.slot[i] : i \in U} /\ Cardinality(U) = events.len
      /\ \A S \in SUBSET U : /\ IsFiniteSet(S)
                             /\ Cardinality({events.slot[i] : i \in S}) = Cardinality(S)
  BY RetainedAre
<1>3. /\ A \in SUBSET U /\ B \in SUBSET U /\ U \in SUBSET U
      /\ B = U \ A /\ U \cap A = A
      /\ {e \in AQ!Retained : e.result = "allowed"} = {events.slot[i] : i \in A}
      /\ {e \in AQ!Retained : e.result # "allowed"} = {events.slot[i] : i \in B}
  BY <1>2
<1> HIDE DEF A, B, U
<1>4. Cardinality(B) = Cardinality(U) - Cardinality(A)
  <2>1. IsFiniteSet(U) /\ IsFiniteSet(A)
    BY <1>2, <1>3
  <2>2. Cardinality(U \ A) = Cardinality(U) - Cardinality(U \cap A)
    BY <2>1, FS_Difference, Zenon
  <2> QED
    BY <2>2, <1>3
<1>5. /\ Cardinality({events.slot[i] : i \in A}) = Cardinality(A)
      /\ Cardinality({events.slot[i] : i \in B}) = Cardinality(B)
      /\ Cardinality({events.slot[i] : i \in U}) = Cardinality(U)
  BY <1>2, <1>3
<1> QED
  BY <1>1, <1>2, <1>3, <1>4, <1>5, QueryCounts

(* The answer to a query, slot by slot.                                    *)
LEMMA AnswerIs ==
    ASSUME LogInv, ResultInv, filter # AQ!NoFilter
    PROVE  /\ Cardinality(AQ!Taken(filter)) \in Nat
           /\ DOMAIN answer = 1 .. Cardinality(AQ!Taken(filter))
           /\ Len(answer) = Cardinality(AQ!Taken(filter))
           /\ \A k \in DOMAIN answer : /\ At(AQ!Taken(filter), k) \in AQ!Taken(filter)
                                       /\ answer[k] = events.slot[At(AQ!Taken(filter), k)]
           /\ \A k, l \in DOMAIN answer : k < l => At(AQ!Taken(filter), l) < At(AQ!Taken(filter), k)
           /\ \A i \in AQ!Taken(filter) : \E k \in DOMAIN answer : At(AQ!Taken(filter), k) = i
           /\ AQ!Range(answer) = {events.slot[i] : i \in AQ!Taken(filter)}
           /\ AQ!Wanted = {events.slot[i] : i \in AQ!Hits(filter)}
<1> DEFINE T == AQ!Taken(filter)
           c == Cardinality(T)
<1>1. /\ T \in SUBSET AQ!Hits(filter) /\ AQ!Hits(filter) \in SUBSET Nat /\ IsFiniteSet(T) /\ c \in Nat
      /\ AQ!Found(filter) = [k \in 1 .. c |-> events.slot[At(T, k)]]
      /\ AQ!Hits(filter) = {i \in 0 .. events.len - 1 : AQ!Matches(filter, events.slot[i])}
  BY TakenFacts
<1>2. answer = [k \in 1 .. c |-> events.slot[At(T, k)]]
  BY <1>1 DEF ResultInv
<1> HIDE DEF T, c
<1>3. DOMAIN answer = 1 .. c /\ \A k \in 1 .. c : answer[k] = events.slot[At(T, k)]
  BY <1>2
<1>4. Len(answer) = c
  <2>1. \A k \in 1 .. c : events.slot[At(T, k)] \in {events.slot[At(T, j)] : j \in 1 .. c}
    OBVIOUS
  <2> QED
    BY <1>1, <1>2, <2>1
<1>5. T \in SUBSET Nat
  BY <1>1
<1>6. /\ \A k \in 1 .. c : At(T, k) \in T
      /\ \A k, l \in 1 .. c : k < l => At(T, l) < At(T, k)
      /\ \A i \in T : \E k \in 1 .. c : At(T, k) = i
  BY <1>1, <1>5, Ordered DEF c
<1>7. AQ!Range(answer) = {events.slot[i] : i \in T}
  BY <1>3, <1>6 DEF AQ!Range
<1>8. AQ!Wanted = {events.slot[i] : i \in AQ!Hits(filter)}
  <2>1. AQ!Retained = {events.slot[i] : i \in 0 .. events.len - 1}
    BY RetainedAre
  <2> QED
    BY <1>1, <2>1 DEF AQ!Wanted, AQ!Matches
<1> QED
  BY <1>1, <1>3, <1>4, <1>6, <1>7, <1>8 DEF T, c

(* So what Query returns is what it promises.                              *)
LEMMA QueryFollows ==
    ASSUME LogInv, ResultInv
    PROVE  AQ!QueryFaithful
<1>1. AQ!QueryComplete
  <2> SUFFICES ASSUME filter # AQ!NoFilter
               PROVE  /\ AQ!Range(answer) \subseteq AQ!Wanted
                      /\ Len(answer) = AQ!Cardinality(AQ!Range(answer))
                      /\ Len(answer) < AQ!Limit(filter) => AQ!Range(answer) = AQ!Wanted
    BY DEF AQ!QueryComplete
  <2> DEFINE T == AQ!Taken(filter)
             H == AQ!Hits(filter)
  <2>1. /\ Len(answer) = Cardinality(T)
        /\ AQ!Range(answer) = {events.slot[i] : i \in T}
        /\ AQ!Wanted = {events.slot[i] : i \in H}
    BY AnswerIs
  <2>2. /\ T \in SUBSET H /\ H \in SUBSET (0 .. events.len - 1)
        /\ Cardinality(T) < AQ!Limit(filter) => T = H
    BY TakenFacts
  <2> HIDE DEF T, H
  <2>3. Cardinality({events.slot[i] : i \in T}) = Cardinality(T)
    BY <2>2, RetainedAre
  <2> QED
    BY <2>1, <2>2, <2>3, QueryCounts
<1>2. AQ!QueryOrder
  <2> SUFFICES ASSUME filter # AQ!NoFilter
               PROVE  /\ \A i, j \in DOMAIN answer : i < j => AQ!Place(answer[i]) > AQ!Place(answer[j])
                      /\ \A e \in AQ!Wanted \ AQ!Range(answer), i \in DOMAIN answer :
                             AQ!Place(e) < AQ!Place(answer[i])
    BY DEF AQ!QueryOrder
  <2> DEFINE T == AQ!Taken(filter)
             H == AQ!Hits(filter)
             c == Cardinality(T)
  <2>1. /\ c \in Nat /\ DOMAIN answer = 1 .. c
        /\ \A k \in 1 .. c : At(T, k) \in T /\ answer[k] = events.slot[At(T, k)]
        /\ \A k, l \in 1 .. c : k < l => At(T, l) < At(T, k)
        /\ \A i \in T : \E k \in 1 .. c : At(T, k) = i
        /\ AQ!Wanted = {events.slot[i] : i \in H}
    BY AnswerIs
  <2>2. /\ T \in SUBSET H /\ H \in SUBSET (0 .. events.len - 1)
        /\ \A i \in T : \A j \in H : i < j => j \in T
    BY TakenFacts
  <2>3. /\ events.len \in Nat
        /\ \A i \in 0 .. events.len - 1 : AQ!Place(events.slot[i]) = i
    BY SlotFacts
  <2>4. AQ!Range(answer) = {events.slot[i] : i \in T}
    BY AnswerIs
  <2> HIDE DEF T, H, c
  <2>5. \A i \in 1 .. c : At(T, i) \in 0 .. events.len - 1 /\ AQ!Place(answer[i]) = At(T, i)
    BY <2>1, <2>2, <2>3
  <2>6. ASSUME NEW e \in AQ!Wanted \ AQ!Range(answer), NEW i \in 1 .. c
        PROVE  AQ!Place(e) < AQ!Place(answer[i])
    <3>1. PICK h \in H : e = events.slot[h]
      BY <2>1
    <3>2. h \notin T /\ h \in 0 .. events.len - 1 /\ AQ!Place(e) = h
      BY <2>2, <2>3, <2>4, <2>6, <3>1
    <3>3. At(T, i) \in T /\ ~ (At(T, i) < h)
      BY <2>1, <2>2, <3>2
    <3>4. At(T, i) # h
      BY <3>2, <3>3
    <3> QED
      BY <2>3, <2>5, <3>2, <3>3, <3>4
  <2>7. \A i, j \in 1 .. c : i < j => AQ!Place(answer[i]) > AQ!Place(answer[j])
    BY <2>1, <2>3, <2>5
  <2> QED
    BY <2>1, <2>6, <2>7
<1> QED
  BY <1>1, <1>2, StatsFollow DEF AQ!QueryFaithful

(* Store.Query and Store.Stats: for every size of the ring, every limit    *)
(* and however many events there were.                                     *)
THEOREM QueryFaithfulHolds == Spec => []QueryFaithful
<1>1. LogInv /\ ResultInv => AQ!QueryFaithful
  BY QueryFollows
<1> QED
  BY QueryInvariant, <1>1, PTL DEF QueryFaithful
=============================================================================
