---------------------------- MODULE UpstreamPool ----------------------------
(***************************************************************************)
(* The upstream pool: Next chooses a target for a request by round robin,  *)
(* least connections or hash of the client address; the director of the    *)
(* reverse proxy counts the connection and a goroutine discounts it when   *)
(* the request ends; HealthCheck takes targets out after three failed      *)
(* probes and puts them back after one that succeeds.                      *)
(*                                                                         *)
(* Next holds the read lock, so that no target is added under it, but the  *)
(* flags and counters of the targets are atomics that change while it      *)
(* scans: it is one step per target.  The targets are numbered from zero   *)
(* in the order in which they are added.                                   *)
(***************************************************************************)
EXTENDS Integers, FiniteSets

CONSTANTS Requests,
          Client,        \* Client[r]: the host part of r's address
          Hash,          \* Hash[c]: the FNV hash of the address c
          MaxTargets,    \* bound on AddTarget
          LBTypes        \* the strategies of the instance

PoolConstants ==
    /\ IsFiniteSet(Requests)
    /\ MaxTargets \in Nat
    /\ LBTypes \subseteq {"round_robin", "least_conn", "ip_hash"}
    /\ \A r \in Requests : Hash[Client[r]] \in Nat

VARIABLES
    lbType, n,           \* the strategy; the number of targets
    index,               \* the counter of round robin
    healthy, failures, activeConns,    \* of each target
    pc, pos, seen,       \* of each request: where it is, the first index of
                         \* its scan, the targets scanned
    best, least,         \* ... the best of them and minConns, the connections
                         \* it had when it was looked at
    cursor, probed,      \* the targets that checkAll goes over; the next one
    answers,             \* answers[t]: the target answers its probes
    \* history
    streak,              \* streak[t]: failed probes since one succeeded
    wasSick, wasWell,    \* of each request: the targets that were out, and
                         \* in, at some moment since it entered Next
    most,                \* most[r][t]: the most connections t had in r's scan
    steady               \* no target was added or taken out since a choice

pool == <<n, healthy>>
req == <<pc, pos, seen, best, least>>
check == <<cursor, probed, failures, streak>>
hist == <<wasSick, wasWell, most, steady>>
vars == <<lbType, pool, index, activeConns, req, check, answers, hist>>

None == -1
T == 0 .. MaxTargets - 1
Targets == 0 .. n - 1
Sick == {t \in Targets : ~healthy[t]}

(* The target scanned after k others.                                      *)
At(r) == (pos[r] + seen[r]) % n

-----------------------------------------------------------------------------
Init ==
    /\ lbType \in LBTypes
    /\ n = 0 /\ index = 0
    /\ healthy = [t \in T |-> TRUE]
    /\ failures = [t \in T |-> 0]
    /\ activeConns = [t \in T |-> 0]
    /\ pc = [r \in Requests |-> "new"]
    /\ pos = [r \in Requests |-> 0]
    /\ seen = [r \in Requests |-> 0]
    /\ best = [r \in Requests |-> None]
    /\ least = [r \in Requests |-> 0]
    /\ cursor = 0 /\ probed = 0
    /\ answers = [t \in T |-> TRUE]
    /\ streak = [t \in T |-> 0]
    /\ wasSick = [r \in Requests |-> {}]
    /\ wasWell = [r \in Requests |-> {}]
    /\ most = [r \in Requests |-> [t \in T |-> 0]]
    /\ steady = TRUE

AddTarget ==
    /\ n < MaxTargets
    /\ \A r \in Requests : pc[r] # "scan"
    /\ n' = n + 1
    /\ steady' = (index = 0 /\ steady /\ \A r \in Requests : pc[r] = "new")
    /\ UNCHANGED <<lbType, healthy, index, activeConns, req, check, answers,
                   wasSick, wasWell, most>>

\* Mutant: the counter is read and written, and an overlapping choice is lost.
AdvanceLost ==
    IF n > 0 /\ lbType = "round_robin" /\ \A r \in Requests : pc[r] # "scan" THEN index + 1 ELSE index

(* The atomic increment of the counter by round robin.                     *)
Advance == IF n > 0 /\ lbType = "round_robin" THEN index + 1 ELSE index

\* Mutant: the address is hashed with its port, which differs by connection.
StartPort(r) ==
    (Hash[Client[r]] + Cardinality({s \in Requests : pc[s] # "new"})) % n

(* The index from which a scan starts.                                     *)
Start(r) ==
    CASE lbType = "least_conn" -> 0
      [] lbType = "ip_hash" -> Hash[Client[r]] % n
      [] OTHER -> Advance % n

(* Next: an empty pool has no target.                                      *)
Enter(r) ==
    /\ pc[r] = "new"
    /\ index' = Advance
    /\ pos' = [pos EXCEPT ![r] = IF n = 0 THEN 0 ELSE Start(r)]
    /\ pc' = [pc EXCEPT ![r] = IF n = 0 THEN "chosen" ELSE "scan"]
    /\ wasSick' = [wasSick EXCEPT ![r] = Sick]
    /\ wasWell' = [wasWell EXCEPT ![r] = Targets \ Sick]
    /\ most' = [most EXCEPT ![r] = activeConns]
    /\ UNCHANGED <<lbType, pool, activeConns, seen, best, least, check, answers, steady>>

\* Mutant: least connections stops at the first target that is in.
BetterFirst(r, t) == healthy[t] /\ best[r] = None

\* Mutant: least connections compares with "<=" and so skips no equal target,
\* and does not skip the targets that are out.
BetterAny(r, t) == best[r] = None \/ activeConns[t] <= least[r]

(* A healthy target is better than what was found, if anything.            *)
(* round robin and ip hash stop at the first.                              *)
Better(r, t) ==
    /\ healthy[t]
    /\ best[r] = None \/ activeConns[t] < least[r]

(* What a scan that found b returns: without a healthy target ip hash      *)
(* returns the one it started from, and the others return nil.             *)
Result(r, b) == IF b = None /\ lbType = "ip_hash" THEN pos[r] ELSE b

(* One iteration of roundRobin, leastConn or ipHash.                       *)
Scan(r) ==
    /\ pc[r] = "scan"
    /\ LET b == IF Better(r, At(r)) THEN At(r) ELSE best[r]
           over == seen[r] + 1 = n \/ (b # None /\ lbType # "least_conn")
       IN  /\ best' = [best EXCEPT ![r] = IF over THEN Result(r, b) ELSE b]
           /\ least' = [least EXCEPT ![r] = IF Better(r, At(r)) THEN activeConns[At(r)] ELSE @]
           /\ pc' = [pc EXCEPT ![r] = IF over THEN "chosen" ELSE "scan"]
    /\ seen' = [seen EXCEPT ![r] = @ + 1]
    /\ UNCHANGED <<lbType, pool, index, activeConns, pos, check, answers, hist>>

(* The director: it counts the connection, or logs "no healthy upstream    *)
(* targets", and the request fails for want of a host.                     *)
Direct(r) ==
    /\ pc[r] = "chosen"
    /\ IF best[r] = None
       THEN pc' = [pc EXCEPT ![r] = "failed"] /\ UNCHANGED activeConns
       ELSE /\ pc' = [pc EXCEPT ![r] = "proxied"]
            /\ activeConns' = [activeConns EXCEPT ![best[r]] = @ + 1]
    /\ wasSick' = [wasSick EXCEPT ![r] = {}]
    /\ wasWell' = [wasWell EXCEPT ![r] = {}]
    /\ least' = [least EXCEPT ![r] = 0]
    /\ most' = [q \in Requests |->
                  IF q = r THEN [t \in T |-> 0]
                  ELSE IF pc[q] = "scan" THEN [t \in T |-> IF activeConns'[t] > most[q][t]
                                                            THEN activeConns'[t] ELSE most[q][t]]
                  ELSE most[q]]
    /\ UNCHANGED <<lbType, pool, index, pos, seen, best, check, answers, steady>>

\* Mutant: a connection to a target that is out is not discounted.
DiscountHealthy(r) ==
    /\ pc[r] = "proxied"
    /\ pc' = [pc EXCEPT ![r] = "done"]
    /\ activeConns' = [activeConns EXCEPT ![best[r]] = IF healthy[best[r]] THEN @ - 1 ELSE @]
    /\ UNCHANGED <<lbType, pool, index, pos, seen, best, least, check, answers, hist>>

(* The request's context ends, whoever ends it, and the goroutine wakes.   *)
Discount(r) ==
    /\ pc[r] = "proxied"
    /\ pc' = [pc EXCEPT ![r] = "done"]
    /\ activeConns' = [activeConns EXCEPT ![best[r]] = @ - 1]
    /\ UNCHANGED <<lbType, pool, index, pos, seen, best, least, check, answers, hist>>

-----------------------------------------------------------------------------
(* The ticker fires: checkAll takes a copy of the targets.                 *)
CheckAll ==
    /\ probed = cursor
    /\ n > 0
    /\ probed' = 0 /\ cursor' = n
    /\ UNCHANGED <<lbType, pool, index, activeConns, req, failures, streak, answers, hist>>

(* The third failure in a row takes a target out.                          *)
MaxFailures == 3

\* Mutant: a success does not reset the count of failures.
FailuresKept(t) == IF answers[t] THEN failures[t] ELSE failures[t] + 1

FailuresAfter(t) == IF answers[t] THEN 0 ELSE failures[t] + 1

\* Mutant: a target that is out stays out.
SickForGood(t) == IF ~answers[t] /\ FailuresAfter(t) >= MaxFailures THEN Sick \cup {t} ELSE Sick

(* The targets that are out after the probe of t.                          *)
SickAfter(t) ==
    IF answers[t] THEN Sick \ {t}
    ELSE IF FailuresAfter(t) >= MaxFailures THEN Sick \cup {t} ELSE Sick

(* One probe.  The count is capped where the code's goes on.               *)
Probe ==
    /\ probed < cursor
    /\ LET t == probed
           f == FailuresAfter(t)
           sick == SickAfter(t)
       IN  /\ failures' = [failures EXCEPT ![t] = IF f > MaxFailures THEN MaxFailures ELSE f]
           /\ streak' = [streak EXCEPT ![t] = IF answers[t] THEN 0
                                              ELSE IF @ = MaxFailures THEN @ ELSE @ + 1]
           /\ healthy' = [healthy EXCEPT ![t] = t \notin sick]
           /\ steady' = (steady /\ sick = {})
           /\ wasSick' = [r \in Requests |-> IF pc[r] = "scan" THEN wasSick[r] \cup sick ELSE wasSick[r]]
           /\ wasWell' = [r \in Requests |->
                            IF pc[r] = "scan" THEN wasWell[r] \cup (Targets \ sick) ELSE wasWell[r]]
    /\ probed' = probed + 1
    /\ UNCHANGED <<lbType, n, index, activeConns, req, cursor, answers, most>>

(* A target starts or stops answering.                                     *)
Turn(t) ==
    /\ t \in Targets
    /\ answers' = [answers EXCEPT ![t] = ~@]
    /\ UNCHANGED <<lbType, pool, index, activeConns, req, check, hist>>

Choose(r) == Enter(r) \/ Scan(r) \/ Direct(r) \/ Discount(r)

Next ==
    \/ AddTarget
    \/ \E r \in Requests : Choose(r)
    \/ CheckAll \/ Probe
    \/ \E t \in T : Turn(t)

Spec == Init /\ [][Next]_vars

(* The goroutines of the requests and of HealthCheck run, and a probe ends *)
(* with an answer or an error.                                             *)
FairSpec == Spec /\ WF_vars(CheckAll) /\ WF_vars(Probe) /\ \A r \in Requests : WF_vars(Choose(r))

-----------------------------------------------------------------------------
TypeOK ==
    /\ n \in 0 .. MaxTargets
    /\ index \in 0 .. Cardinality(Requests)
    /\ failures \in [T -> 0 .. MaxFailures]
    /\ activeConns \in [T -> 0 .. Cardinality(Requests)]
    /\ best \in [Requests -> {None} \cup Targets]
    /\ seen \in [Requests -> 0 .. n]
    /\ least \in [Requests -> 0 .. Cardinality(Requests)]

(* The counter by which least connections chooses is the number of         *)
(* requests under way at the target, whatever happened to its health or to *)
(* the pool since they were counted.                                       *)
ConnsAccounted ==
    \A t \in T : activeConns[t] = Cardinality({r \in Requests : pc[r] = "proxied" /\ best[r] = t})

(* A target is out exactly when its last three probes or more failed.      *)
OutJustified == \A t \in Targets : healthy[t] <=> streak[t] < MaxFailures

(* Although flags change under the scan, the target chosen was in at some  *)
(* moment of it; only if each target was out at some moment is there none, *)
(* and only then does ip hash choose one that is out.                      *)
ChoiceJustified ==
    \A r \in Requests : pc[r] = "chosen" =>
        \/ best[r] \in wasWell[r]
        \/ (best[r] = None \/ lbType = "ip_hash") /\ wasWell[r] \subseteq wasSick[r]

(* Least connections, although connections come and go under its scan: no  *)
(* target that was in throughout had fewer at every moment than the chosen *)
(* one when it was looked at.                                              *)
LeastChosen ==
    \A r \in Requests : (pc[r] = "chosen" /\ lbType = "least_conn") =>
        \A t \in wasWell[r] \ wasSick[r] : best[r] # None /\ least[r] <= most[r][t]

(* While every target stays in, round robin gives no target two requests   *)
(* more than another, however the requests overlap, except for those that  *)
(* are still choosing.                                                     *)
Chosen(t) == Cardinality({r \in Requests : best[r] = t})
RoundRobinEven ==
    (steady /\ lbType = "round_robin") =>
        \A s, t \in Targets : Chosen(s) <= Chosen(t) + 1 + Cardinality({r \in Requests : pc[r] = "scan"})

(* While every target stays in, the requests of a client go to one target. *)
ClientSticks ==
    (steady /\ lbType = "ip_hash") =>
        \A r, s \in Requests :
            (Client[r] = Client[s] /\ best[r] # None /\ best[s] # None) => best[r] = best[s]

(* A target that answers for good is in for good, and one that does not is *)
(* out: a round of probes always ends and another begins.                  *)
HealthFollows ==
    \A t \in T :
        /\ <>[](t \in Targets /\ answers[t]) => <>[]healthy[t]
        /\ <>[](t \in Targets /\ ~answers[t]) => <>[](~healthy[t])

(* The pool: health and connections are what the probes and the requests   *)
(* made them, and each strategy keeps to its rule on them, although it     *)
(* looks at the targets one by one while they change.                      *)
PoolSound ==
    /\ ConnsAccounted
    /\ OutJustified
    /\ ChoiceJustified
    /\ LeastChosen
    /\ RoundRobinEven
    /\ ClientSticks
=============================================================================
