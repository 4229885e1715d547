----------------------------- MODULE RequestPath -----------------------------
(***************************************************************************)
(* The parts that a request meets in the sidecar, side by side: the two    *)
(* rate limiters, the chain and the rule engines, the scorer, the learning *)
(* engine, the audit log as it is read; and beside them the PolicyStore    *)
(* and the upstream pool.  They share no state, and only the one that part *)
(* names runs: the behaviours of this module are those of each part on its *)
(* own, and its states are their sum, not their product.                   *)
(*                                                                         *)
(* A part's parameters are the fields of its Setup.  The scorer has two,   *)
(* since it is checked in two instances.                                   *)
(***************************************************************************)
EXTENDS Integers, Sequences, FiniteSets

CONSTANTS BucketSetup, FleetSetup, ScoreSetup, RateSetup, LearningSetup,
          ChainSetup, PolicySetup, QuerySetup, PoolSetup

VARIABLES
    part,
    now, due, buckets, since, last,
    redisNow, backend, redisPc, read, count, expires, admitted, unanswered, lost, late,
    scorerNow, ipFrequency, scored, counted,
    ring, enabled, recent,
    config, waiting, chain, lists, clock, added, pc, status, by, writes, steady, passed,
    order, policies, adds, listedAt,
    events, log, filter, answer, stats,
    lbType, n, index, healthy, failures, activeConns, choicePc, pos, seen, best, least, cursor, probed,
    answers, streak, wasSick, wasWell, most, settled

bucketVars == <<now, due, buckets, since, last>>
redisVars == <<redisNow, backend, redisPc, read, count, expires, admitted, unanswered, lost,
               late>>
scorerVars == <<scorerNow, ipFrequency, scored, counted>>
learningVars == <<ring, enabled, recent>>
chainVars == <<config, waiting, chain, lists, clock, added, pc, status, by, writes, steady, passed>>
storeVars == <<order, policies, adds, listedAt>>
queryVars == <<events, log, filter, answer, stats>>
poolVars == <<lbType, n, index, healthy, failures, activeConns, choicePc, pos, seen, best, least,
              cursor, probed, answers, streak, wasSick, wasWell, most, settled>>
vars == <<part, bucketVars, redisVars, scorerVars, learningVars, chainVars, storeVars, queryVars,
          poolVars>>

TB == INSTANCE TokenBucket
          WITH Clients <- BucketSetup.clients, Limit <- BucketSetup.limit,
               Window <- BucketSetup.window, TTL <- BucketSetup.ttl,
               Interval <- BucketSetup.interval, MaxTime <- BucketSetup.maxTime

RW == INSTANCE RedisWindow
          WITH Nodes <- FleetSetup.nodes, Limit <- FleetSetup.limit,
               Window <- FleetSetup.window, Grace <- FleetSetup.grace,
               MaxCount <- FleetSetup.maxCount, MaxTime <- FleetSetup.maxTime,
               now <- redisNow, pc <- redisPc, passed <- admitted

Scores(s) == INSTANCE Scorer
    WITH IPs <- s.ips, Families <- s.families, EntropyScores <- s.entropyScores,
         CharScores <- s.charScores, UserAgents <- s.userAgents, Lengths <- s.lengths,
         MaxReqPerMinute <- s.maxReqPerMinute, Minute <- s.minute, MaxTime <- s.maxTime,
         MaxCounted <- s.maxCounted, now <- scorerNow, last <- scored

LE == INSTANCE Learning
          WITH MaxSize <- LearningSetup.maxSize, Paths <- LearningSetup.paths,
               IPs <- LearningSetup.ips, Segments <- LearningSetup.segments,
               Kind <- LearningSetup.kind, Query <- LearningSetup.query,
               MinPath <- LearningSetup.minPath, SafePath <- LearningSetup.safePath,
               MinIP <- LearningSetup.minIP, BusyIP <- LearningSetup.busyIP

CH == INSTANCE Inspection
          WITH Reqs <- ChainSetup.reqs, Request <- ChainSetup.request,
               Templates <- ChainSetup.templates, Configs <- ChainSetup.configs,
               MaxRules <- ChainSetup.maxRules, MaxClock <- ChainSetup.maxClock

PS == INSTANCE PolicyStore
          WITH Policies <- PolicySetup.policies, MaxAdds <- PolicySetup.maxAdds,
               since <- listedAt

AQ == INSTANCE AuditQuery
          WITH Kinds <- QuerySetup.kinds, MaxSize <- QuerySetup.maxSize, MaxLimit <- QuerySetup.maxLimit,
               DefaultLimit <- QuerySetup.defaultLimit, MaxEvents <- QuerySetup.maxEvents,
               ring <- events

UP == INSTANCE UpstreamPool
          WITH Requests <- PoolSetup.requests, Client <- PoolSetup.client,
               Hash <- PoolSetup.hash, MaxTargets <- PoolSetup.maxTargets,
               LBTypes <- PoolSetup.lbTypes, pc <- choicePc, steady <- settled

ASSUME BucketAssumption == TB!TokenBucketConstants
ASSUME FleetAssumption == RW!RedisConstants
ASSUME ScoreAssumption ==
    Scores(ScoreSetup)!ScorerConstants /\ Scores(RateSetup)!ScorerConstants
ASSUME LearningAssumption == LE!LearningConstants
ASSUME InspectionAssumption == CH!InspectionConstants
ASSUME PolicyAssumption == PS!PolicyStoreConstants
ASSUME QueryAssumption == AQ!AuditQueryConstants
ASSUME PoolAssumption == UP!PoolConstants

-----------------------------------------------------------------------------
Parts == {"token bucket", "redis window", "scores", "rates", "learning", "inspection",
          "policies", "audit query", "pool"}

Init ==
    /\ part \in Parts
    /\ TB!Init /\ RW!Init /\ LE!Init /\ CH!Init /\ PS!Init /\ AQ!Init /\ UP!Init
    /\ IF part = "rates" THEN Scores(RateSetup)!Init ELSE Scores(ScoreSetup)!Init
    /\ part # "inspection" => config = CHOOSE c \in ChainSetup.configs : TRUE
    /\ part # "pool" => lbType = CHOOSE l \in PoolSetup.lbTypes : TRUE

Next ==
    \/ /\ part = "token bucket" /\ TB!Next
       /\ UNCHANGED <<part, redisVars, scorerVars, learningVars, chainVars, storeVars,
                      queryVars, poolVars>>
    \/ /\ part = "redis window" /\ RW!Next
       /\ UNCHANGED <<part, bucketVars, scorerVars, learningVars, chainVars, storeVars,
                      queryVars, poolVars>>
    \/ /\ part = "scores" /\ Scores(ScoreSetup)!Next
       /\ UNCHANGED <<part, bucketVars, redisVars, learningVars, chainVars, storeVars,
                      queryVars, poolVars>>
    \/ /\ part = "rates" /\ Scores(RateSetup)!Next
       /\ UNCHANGED <<part, bucketVars, redisVars, learningVars, chainVars, storeVars,
                      queryVars, poolVars>>
    \/ /\ part = "learning" /\ LE!Next
       /\ UNCHANGED <<part, bucketVars, redisVars, scorerVars, chainVars, storeVars,
                      queryVars, poolVars>>
    \/ /\ part = "inspection" /\ CH!Next
       /\ UNCHANGED <<part, bucketVars, redisVars, scorerVars, learningVars, storeVars,
                      queryVars, poolVars>>
    \/ /\ part = "policies" /\ PS!Next
       /\ UNCHANGED <<part, bucketVars, redisVars, scorerVars, learningVars, chainVars,
                      queryVars, poolVars>>
    \/ /\ part = "audit query" /\ AQ!Next
       /\ UNCHANGED <<part, bucketVars, redisVars, scorerVars, learningVars, chainVars,
                      storeVars, poolVars>>
    \/ /\ part = "pool" /\ UP!Next
       /\ UNCHANGED <<part, bucketVars, redisVars, scorerVars, learningVars, chainVars,
                      storeVars, queryVars>>

Spec == Init /\ [][Next]_vars

-----------------------------------------------------------------------------
(* The state of each part is of the expected kind; among others no bucket  *)
(* overflows, no node uses a Redis that did not answer, no counter exceeds *)
(* what was counted, and no request is answered twice.                     *)
TypeOK ==
    /\ part = "token bucket" => TB!TypeOK
    /\ part = "redis window" => RW!TypeOK
    /\ part = "scores" => Scores(ScoreSetup)!TypeOK
    /\ part = "rates" => Scores(RateSetup)!TypeOK
    /\ part = "learning" => LE!TypeOK
    /\ part = "inspection" => CH!TypeOK
    /\ part = "policies" => PS!TypeOK
    /\ part = "audit query" => AQ!TypeOK
    /\ part = "pool" => UP!TypeOK

(* MemoryLimiter: from any moment on a client gets through no more than a  *)
(* full bucket and the refill since then, also when its bucket was dropped *)
(* meanwhile; whoever is refused has used up all but less than a token of  *)
(* it; and no bucket outlives its last use by more than the time to live   *)
(* and an interval.                                                        *)
LimitHonoured == part = "token bucket" => TB!LimitHonoured

(* RedisLimiter.Allow: in no window do more requests of the fleet pass     *)
(* than the limit, wherever a sidecar dies, but for those that got no      *)
(* answer and those that reached Redis when the grace was over; and none   *)
(* is refused before the limit is used up.                                 *)
WindowBounded == part = "redis window" => RW!WindowBounded

(* BasicScorer: no sum of anomalies blocks; what matches a pattern is at   *)
(* least suspicious, and every family but path traversal blocks on its     *)
(* own; a score for the rate means more than the maximum in a window no    *)
(* older than a minute; and of more than twice the maximum within a        *)
(* minute, however it falls into two windows, one request has scored.      *)
ScoresJustified ==
    /\ part = "scores" => Scores(ScoreSetup)!ScoresJustified
    /\ part = "rates" => Scores(RateSetup)!ScoresJustified

(* The learning engine: every suggestion is earned by the requests that    *)
(* are still kept, also when the ring has come round; who was always       *)
(* blocked and what never was is suggested, across the numbers and queries *)
(* in a path; and the dataset has all of them, once.                       *)
LearningSound == part = "learning" => LE!LearningSound

(* Chain.Execute and both Evaluates: no plugin that is loaded lets pass    *)
(* what it refuses, and the first by priority answers; a blocking rule     *)
(* that is there during the whole evaluation blocks unless one before it   *)
(* matched, whatever is added and deleted meanwhile; and the PolicyStore   *)
(* lists each of its policies once, the oldest first.                      *)
InspectionSound ==
    /\ part = "inspection" => CH!InspectionSound
    /\ part = "policies" => PS!StoreConsistent

(* Store.Query: what is returned is kept and was asked for, only the limit *)
(* leaves events out, and the order is that of the places in the ring,     *)
(* which is the newest first only while it has not come round; Store.Stats *)
(* counts the same events.                                                 *)
QueryFaithful == part = "audit query" => AQ!QueryFaithful

(* Pool: a target's counter is the number of requests under way; it is out *)
(* exactly when its last three probes failed; the target chosen was in at  *)
(* some moment of the scan; least connections chooses none that had more   *)
(* than another had throughout; while all are in, the rounds are even and  *)
(* a client keeps its target.                                              *)
PoolSound == part = "pool" => UP!PoolSound
=============================================================================
