---------------------------- MODULE RequestProofs ----------------------------
(***************************************************************************)
(* The upstream pool, the PolicyStore and the inspection of requests, as   *)
(* parts of RequestPath, for any number of requests, targets, policies and *)
(* rules.  A request to the pool is looked at by what its scan has met so  *)
(* far, the pool by how the indexes that round robin hands out fall on the *)
(* targets.  An evaluated request is looked at by which plugins it has     *)
(* passed, and by what of the rules it began with is still there.          *)
(***************************************************************************)
EXTENDS TrafficProofs, WellFoundedInduction

Requests == PoolSetup.requests

Stages == {"new", "scan", "chosen", "failed", "proxied", "done"}

(* Every variable of the pool and its values.                              *)
TargetsTyped ==
    /\ lbType \in PoolSetup.lbTypes
    /\ n \in 0 .. PoolSetup.maxTargets
    /\ index \in Nat
    /\ healthy \in [UP!T -> BOOLEAN]
    /\ failures \in [UP!T -> 0 .. UP!MaxFailures]
    /\ streak \in [UP!T -> 0 .. UP!MaxFailures]
    /\ activeConns \in [UP!T -> Int]
    /\ answers \in [UP!T -> BOOLEAN]
    /\ cursor \in Nat /\ probed \in Nat
    /\ settled \in BOOLEAN

ScansTyped ==
    /\ choicePc \in [Requests -> Stages]
    /\ pos \in [Requests -> Nat]
    /\ seen \in [Requests -> Nat]
    /\ best \in [Requests -> {UP!None} \cup UP!T]
    /\ wasSick \in [Requests -> SUBSET UP!T]
    /\ wasWell \in [Requests -> SUBSET UP!T]

(* The health of a target follows its streak; a round goes over targets    *)
(* that are there, and those to come are well.                             *)
HealthInv ==
    /\ cursor <= n
    /\ \A t \in UP!T : /\ failures[t] = streak[t]
                       /\ healthy[t] <=> streak[t] < UP!MaxFailures
                       /\ t >= n => healthy[t]

(* The target that a scan meets after k others.                            *)
Met(r, k) == (pos[r] + k) % n

(* How far a request is: what it has found was in, and what it has met     *)
(* without finding any was out; the flags of this moment are on record.    *)
RequestInv(r) ==
    /\ best[r] \in {UP!None} \cup UP!Targets
    /\ seen[r] <= n
    /\ choicePc[r] = "new" => best[r] = UP!None /\ seen[r] = 0
    /\ choicePc[r] = "proxied" => best[r] # UP!None
    /\ choicePc[r] = "scan" =>
          /\ n > 0 /\ pos[r] < n /\ seen[r] < n
          /\ wasWell[r] \subseteq UP!Targets
          /\ \A t \in UP!Targets : IF healthy[t] THEN t \in wasWell[r] ELSE t \in wasSick[r]
          /\ best[r] # UP!None => best[r] \in wasWell[r] /\ lbType = "least_conn"
          /\ best[r] = UP!None => \A k \in 0 .. seen[r] - 1 : Met(r, k) \in wasSick[r]

(* While nothing has been added or taken out, a scan ends where it starts. *)
Straight(r) ==
    /\ choicePc[r] = "scan" => best[r] = UP!None /\ seen[r] = 0
    /\ choicePc[r] \notin {"new", "scan"} => best[r] = pos[r]
    /\ choicePc[r] # "new" /\ lbType = "ip_hash" =>
           pos[r] = PoolSetup.hash[PoolSetup.client[r]] % n

SteadyInv ==
    settled =>
        /\ \A t \in UP!Targets : healthy[t]
        /\ n = 0 => index = 0 /\ \A r \in Requests : best[r] = UP!None
        /\ n > 0 /\ lbType # "least_conn" => \A r \in Requests : Straight(r)

Entered == {r \in Requests : choicePc[r] # "new"}
Proxied(t) == {r \in Requests : choicePc[r] = "proxied" /\ best[r] = t}
Scanning == {r \in Requests : choicePc[r] = "scan"}
StartedAt(t) == {r \in Requests : choicePc[r] # "new" /\ pos[r] = t}

(* The indexes of round robin: after q rounds and some more, the targets   *)
(* from 1 to the last index have had one request more than the others.     *)
Round(q) ==
    \A t \in UP!Targets :
        Cardinality(StartedAt(t)) = IF 1 <= t /\ t <= index % n THEN q + 1 ELSE q

RoundInv ==
    (settled /\ lbType = "round_robin" /\ n > 0) => \E q \in Nat : Round(q)

(* What least connections knows of the targets it has met: each was out,   *)
(* or had, when it had most, no fewer connections than the best.           *)
LeastTyped ==
    /\ least \in [Requests -> 0 .. Cardinality(Requests)]
    /\ most \in [Requests -> [UP!T -> Int]]

LeastMet(r) ==
    choicePc[r] = "scan" =>
        /\ \A t \in UP!T : activeConns[t] <= most[r][t]
        /\ \A k \in 0 .. seen[r] - 1 :
              Met(r, k) \in wasSick[r] \/ (best[r] # UP!None /\ least[r] <= most[r][Met(r, k)])

LeastInv ==
    /\ LeastTyped
    /\ \A r \in Requests : LeastMet(r)
    /\ UP!LeastChosen

PoolInv ==
    /\ TargetsTyped /\ ScansTyped
    /\ LeastInv
    /\ HealthInv
    /\ \A r \in Requests : RequestInv(r)
    /\ index <= Cardinality(Entered)
    /\ \A t \in UP!T : activeConns[t] = Cardinality(Proxied(t))
    /\ UP!ChoiceJustified
    /\ SteadyInv
    /\ RoundInv

-----------------------------------------------------------------------------
(* Counting: the instance of the pool counts as this module does, and one  *)
(* element makes a difference of one.                                      *)
LEMMA SameCardinality == \A S : UP!Cardinality(S) = Cardinality(S) /\ UP!IsFiniteSet(S) = IsFiniteSet(S)
BY DEF UP!Cardinality, Cardinality, UP!IsFiniteSet, IsFiniteSet

(* There are finitely many requests, and no more in a part of them.        *)
LEMMA RequestsFinite ==
    ASSUME NEW S, S \subseteq Requests
    PROVE  /\ IsFiniteSet(S)
           /\ Cardinality(S) \in Nat
           /\ Cardinality(S) <= Cardinality(Requests)
<1>1. IsFiniteSet(Requests)
  BY PoolAssumption, SameCardinality DEF UP!PoolConstants, Requests
<1>2. IsFiniteSet(S) /\ Cardinality(S) <= Cardinality(Requests)
  BY <1>1, FS_Subset
<1> QED
  BY <1>2, FS_CardinalityType

(* One more,                                                               *)
LEMMA OneAdded ==
    ASSUME NEW S, S \subseteq Requests, NEW r \in Requests \ S
    PROVE  Cardinality(S \cup {r}) = Cardinality(S) + 1
BY RequestsFinite, FS_AddElement

(* one less,                                                               *)
LEMMA OneLess ==
    ASSUME NEW S, S \subseteq Requests, NEW r \in S
    PROVE  Cardinality(S \ {r}) = Cardinality(S) - 1
BY RequestsFinite, FS_RemoveElement

(* and no more in a part.                                                  *)
LEMMA NoMore ==
    ASSUME NEW S, S \subseteq Requests, NEW U, U \subseteq S
    PROVE  Cardinality(U) <= Cardinality(S)
BY RequestsFinite, FS_Subset

(* Going round from any target one meets every other.                      *)
LEMMA AllAreMet ==
    ASSUME NEW m \in Nat, NEW p \in 0 .. m - 1, NEW t \in 0 .. m - 1
    PROVE  \E k \in 0 .. m - 1 : (p + k) % m = t
<1>1. CASE p <= t
  <2>1. t - p \in 0 .. m - 1 /\ (p + (t - p)) % m = t
    BY <1>1, Remainder
  <2> QED
    BY <2>1
<1>2. CASE p > t
  <2> DEFINE k == t + m - p
  <2>1. k \in 0 .. m - 1 /\ p + k = t + m /\ t + m \in Nat /\ t + m >= m /\ t + m < 2 * m
    BY <1>2
  <2>2. (t + m) % m = (t + m) - m
    BY <2>1, Remainder
  <2>3. (p + k) % m = t
    BY <2>1, <2>2
  <2> QED
    BY <2>1, <2>3
<1> QED
  BY <1>1, <1>2

(* What a scan meets is a target.                                          *)
LEMMA MetIsTarget ==
    ASSUME PoolInv, NEW r \in Requests, choicePc[r] = "scan", NEW k \in Nat
    PROVE  Met(r, k) \in UP!Targets /\ Met(r, k) \in UP!T
<1>1. /\ n \in Nat \ {0} /\ pos[r] \in Nat /\ pos[r] + k \in Nat
      /\ n <= PoolSetup.maxTargets /\ PoolSetup.maxTargets \in Nat
  BY PoolAssumption DEF PoolInv, ScansTyped, TargetsTyped, RequestInv, UP!PoolConstants
<1>2. Met(r, k) \in 0 .. n - 1
  BY <1>1, Remainder DEF Met
<1> QED
  BY <1>1, <1>2 DEF UP!Targets, UP!T

-----------------------------------------------------------------------------
(* Whatever leaves choices, counters and flags alone keeps the invariant:  *)
(* the start of a round, and a target that starts or stops answering.      *)
choices == <<lbType, n, index, healthy, failures, streak, activeConns, choicePc, pos, seen, best,
             wasSick, wasWell, least, most, settled>>

(* What does not touch a choice keeps the invariant ...                    *)
LEMMA QuietStep ==
    ASSUME PoolInv, UNCHANGED choices,
           answers' \in [UP!T -> BOOLEAN], cursor' \in Nat, probed' \in Nat, cursor' <= n
    PROVE  PoolInv'
<1> USE DEF PoolInv, choices
<1>1. TargetsTyped' /\ ScansTyped'
  BY DEF TargetsTyped, ScansTyped, UP!T
<1>2. HealthInv'
  BY DEF HealthInv, UP!T
<1>3. (\A r \in Requests : RequestInv(r))' /\ UP!ChoiceJustified'
  BY DEF RequestInv, Met, UP!ChoiceJustified, UP!Targets
<1>4. /\ index' <= Cardinality(Entered')
      /\ (\A t \in UP!T : activeConns[t] = Cardinality(Proxied(t)))'
  BY DEF Entered, Proxied
<1>5. SteadyInv'
  BY DEF SteadyInv, Straight, UP!Targets
<1>6. RoundInv'
  <2>1. \A t : StartedAt(t)' = StartedAt(t)
    BY DEF StartedAt
  <2> QED
    BY <2>1 DEF RoundInv, Round, UP!Targets
<1>7. LeastInv'
  BY DEF LeastInv, LeastTyped, LeastMet, Met, UP!LeastChosen, UP!T
<1> QED
  BY <1>1, <1>2, <1>3, <1>4, <1>5, <1>6, <1>7

(* ... as does the start of a round of probes, or a target's turn to       *)
(* answer or not.                                                          *)
LEMMA RoundBegins ==
    ASSUME PoolInv, UP!CheckAll \/ \E t \in UP!T : UP!Turn(t)
    PROVE  PoolInv'
<1>1. UNCHANGED choices
  BY DEF choices, UP!CheckAll, UP!Turn, UP!pool, UP!req, UP!check, UP!hist
<1>2. n \in Nat /\ cursor \in Nat /\ probed \in Nat /\ cursor <= n /\ answers \in [UP!T -> BOOLEAN]
  BY DEF PoolInv, TargetsTyped, HealthInv
<1>3. answers' \in [UP!T -> BOOLEAN] /\ cursor' \in Nat /\ probed' \in Nat /\ cursor' <= n
  <2>1. CASE UP!CheckAll
    BY <1>2, <2>1 DEF UP!CheckAll
  <2>2. ASSUME NEW t \in UP!T, UP!Turn(t)
        PROVE  answers' \in [UP!T -> BOOLEAN] /\ UNCHANGED <<cursor, probed>>
    BY <1>2, <2>2 DEF UP!Turn, UP!check
  <2> QED
    BY <1>2, <2>1, <2>2
<1> QED
  BY <1>1, <1>3, QuietStep

(* AddTarget: nobody scans, and the new one is well.                       *)
LEMMA AddStep ==
    ASSUME PoolInv, UP!AddTarget
    PROVE  PoolInv'
<1> USE DEF PoolInv
<1>1. /\ n' = n + 1 /\ n < PoolSetup.maxTargets /\ \A r \in Requests : choicePc[r] # "scan"
      /\ settled' = (index = 0 /\ settled /\ \A r \in Requests : choicePc[r] = "new")
      /\ UNCHANGED <<lbType, index, healthy, failures, streak, activeConns, choicePc, pos, seen, best,
                     wasSick, wasWell, least, most, answers, cursor, probed>>
  BY DEF UP!AddTarget, UP!req, UP!check, Requests
<1>2. n \in Nat /\ PoolSetup.maxTargets \in Nat /\ index \in Nat
  BY PoolAssumption DEF TargetsTyped, UP!PoolConstants
<1>3. TargetsTyped'
  BY <1>1, <1>2 DEF TargetsTyped, UP!T
<1>4. ScansTyped'
  BY <1>1 DEF ScansTyped, UP!T
<1>5. HealthInv'
  <2>1. cursor' <= n'
    BY <1>1, <1>2 DEF HealthInv, TargetsTyped
  <2>2. \A t \in UP!T : /\ failures'[t] = streak'[t]
                        /\ healthy'[t] <=> streak'[t] < UP!MaxFailures
                        /\ t >= n' => healthy'[t]
    BY <1>1, <1>2 DEF HealthInv, UP!T
  <2> QED
    BY <2>1, <2>2 DEF HealthInv
<1>6. ASSUME NEW r \in Requests PROVE RequestInv(r)'
  BY <1>1, <1>2 DEF RequestInv, Met, UP!Targets, ScansTyped
<1>7. UP!ChoiceJustified'
  BY <1>1 DEF UP!ChoiceJustified
<1>8. /\ index' <= Cardinality(Entered')
      /\ (\A t \in UP!T : activeConns[t] = Cardinality(Proxied(t)))'
  BY <1>1 DEF Entered, Proxied
<1>9. SteadyInv'
  <2> SUFFICES ASSUME settled' PROVE SteadyInv'
    BY DEF SteadyInv
  <2>1. \A t \in UP!Targets' : healthy'[t]
    <3>1. settled
      BY <1>1
    <3>2. \A t \in UP!Targets : healthy[t]
      BY <3>1 DEF SteadyInv
    <3>3. healthy[n]
      BY <1>1, <1>2 DEF HealthInv, UP!T
    <3> QED
      BY <1>1, <1>2, <3>2, <3>3 DEF UP!Targets
  <2>2. \A r \in Requests : choicePc'[r] = "new" /\ best'[r] = UP!None /\ seen'[r] = 0
    BY <1>1 DEF RequestInv
  <2>3. \A r \in Requests : Straight(r)'
    BY <2>2 DEF Straight
  <2> QED
    BY <1>1, <1>2, <2>1, <2>3 DEF SteadyInv
<1>10. RoundInv'
  <2> SUFFICES ASSUME settled' PROVE Round(0)'
    BY DEF RoundInv
  <2>1. \A t \in UP!T \cup UP!Targets' : StartedAt(t)' = {}
    BY <1>1 DEF StartedAt
  <2>2. index' = 0 /\ n' \in Nat \ {0}
    <3>1. index = 0
      BY <1>1
    <3> QED
      BY <1>1, <1>2, <3>1
  <2>3. \A m \in Nat \ {0} : 0 % m = 0
    BY Remainder
  <2>4. index' % n' = 0
    BY <2>2, <2>3
  <2>5. Cardinality({}) = 0
    BY FS_EmptySet
  <2>6. ASSUME NEW t \in UP!Targets' PROVE Cardinality(StartedAt(t)') = 0
    BY <2>1, <2>5
  <2>7. \A t \in UP!Targets' : t \in Int
    BY <2>2 DEF UP!Targets
  <2>8. \A t \in Int : ~(1 <= t /\ t <= 0)
    OBVIOUS
  <2> QED
    BY <2>4, <2>6, <2>7, <2>8 DEF Round
<1>11. LeastInv'
  BY <1>1 DEF LeastInv, LeastTyped, LeastMet, UP!LeastChosen, UP!T, Requests
<1> QED
  BY <1>3, <1>4, <1>5, <1>6, <1>7, <1>8, <1>9, <1>10, <1>11

(* A request that leaves the pool, or fails: the director counts it at the *)
(* target that was chosen, and the end of the request discounts it.        *)
Leaves(r, stage) ==
    /\ choicePc' = [choicePc EXCEPT ![r] = stage]
    /\ UNCHANGED <<lbType, n, index, healthy, failures, streak, pos, seen, best, cursor, probed,
                   answers, settled>>
    /\ \A q \in Requests \ {r} :
          /\ wasSick'[q] = wasSick[q] /\ wasWell'[q] = wasWell[q] /\ least'[q] = least[q]
          /\ choicePc[q] # "scan" => most'[q] = most[q]
          /\ choicePc[q] = "scan" =>
                \A t \in UP!T : activeConns'[t] <= most'[q][t] /\ most[q][t] <= most'[q][t]

(* A request that moves on from its choice leaves everything else alone.   *)
LEMMA LeaveStep ==
    ASSUME PoolInv, NEW r \in Requests, NEW stage \in {"failed", "proxied", "done"},
           choicePc[r] \in {"chosen", "proxied"}, Leaves(r, stage),
           stage = "proxied" => best[r] # UP!None,
           wasSick' \in [Requests -> SUBSET UP!T], wasWell' \in [Requests -> SUBSET UP!T],
           activeConns' \in [UP!T -> Int], LeastTyped',
           (\A t \in UP!T : activeConns[t] = Cardinality(Proxied(t)))'
    PROVE  PoolInv'
<1> USE DEF PoolInv, Leaves
<1>1. /\ choicePc \in [Requests -> Stages]
      /\ choicePc' \in [Requests -> Stages]
      /\ choicePc'[r] = stage /\ \A q \in Requests \ {r} : choicePc'[q] = choicePc[q]
  BY DEF ScansTyped, Stages
<1>2. TargetsTyped' /\ ScansTyped'
  BY <1>1 DEF TargetsTyped, ScansTyped, UP!T
<1>3. HealthInv'
  BY DEF HealthInv, UP!T
<1>4. ASSUME NEW q \in Requests PROVE RequestInv(q)'
  <2>1. RequestInv(q)
    OBVIOUS
  <2>2. CASE q = r
    BY <1>1, <2>1, <2>2 DEF RequestInv, UP!Targets
  <2>3. CASE q # r
    BY <1>1, <2>1, <2>3 DEF RequestInv, Met, UP!Targets
  <2> QED
    BY <2>2, <2>3
<1>5. UP!ChoiceJustified'
  <2>1. ASSUME NEW q \in Requests, choicePc'[q] = "chosen"
        PROVE  /\ choicePc[q] = "chosen" /\ best'[q] = best[q]
               /\ wasWell'[q] = wasWell[q] /\ wasSick'[q] = wasSick[q] /\ lbType' = lbType
    BY <1>1, <2>1
  <2> QED
    BY <2>1 DEF UP!ChoiceJustified, Requests
<1>6. index' <= Cardinality(Entered')
  <2>1. Entered' = Entered
    BY <1>1 DEF Entered
  <2> QED
    BY <2>1
<1>7. SteadyInv'
  <2>1. ASSUME NEW q \in Requests, Straight(q) PROVE Straight(q)'
    BY <1>1, <2>1 DEF Straight
  <2> QED
    BY <2>1 DEF SteadyInv, UP!Targets
<1>8. RoundInv'
  <2>1. \A t : StartedAt(t)' = StartedAt(t)
    BY <1>1 DEF StartedAt
  <2> QED
    BY <2>1 DEF RoundInv, Round, UP!Targets
<1>9. LeastInv'
  <2>1. ASSUME NEW q \in Requests PROVE LeastMet(q)'
    <3>1. CASE choicePc'[q] # "scan"
      BY <3>1 DEF LeastMet
    <3>2. CASE choicePc'[q] = "scan"
      <4>1. q # r /\ choicePc[q] = "scan"
        BY <1>1, <3>2
      <4>2. /\ \A t \in UP!T : activeConns'[t] <= most'[q][t] /\ most[q][t] <= most'[q][t]
            /\ wasSick'[q] = wasSick[q] /\ least'[q] = least[q] /\ best' = best /\ seen' = seen
            /\ \A k : Met(q, k)' = Met(q, k)
        BY <4>1 DEF Met
      <4>3. /\ least[q] \in Int /\ \A t \in UP!T : most[q][t] \in Int /\ most'[q][t] \in Int
        BY RequestsFinite DEF LeastInv, LeastTyped
      <4>4. ASSUME NEW k \in 0 .. seen[q] - 1 PROVE Met(q, k) \in UP!T
        BY <4>1, MetIsTarget
      <4>5. \A k \in 0 .. seen[q] - 1 :
               Met(q, k) \in wasSick[q] \/ (best[q] # UP!None /\ least[q] <= most[q][Met(q, k)])
        BY <4>1 DEF LeastInv, LeastMet
      <4>6. ASSUME NEW k \in 0 .. seen[q] - 1
            PROVE  Met(q, k) \in wasSick[q] \/ (best[q] # UP!None /\ least[q] <= most'[q][Met(q, k)])
        BY <4>2, <4>3, <4>4, <4>5
      <4> QED
        BY <4>2, <4>6 DEF LeastMet, UP!T, UP!None
    <3> QED
      BY <3>1, <3>2
  <2>2. UP!LeastChosen'
    <3>1. ASSUME NEW q \in Requests, choicePc'[q] = "chosen"
          PROVE  /\ choicePc[q] = "chosen" /\ best'[q] = best[q] /\ lbType' = lbType
                 /\ wasWell'[q] = wasWell[q] /\ wasSick'[q] = wasSick[q]
                 /\ least'[q] = least[q] /\ most'[q] = most[q]
      BY <1>1, <3>1
    <3> QED
      BY <3>1 DEF LeastInv, UP!LeastChosen, Requests, UP!None
  <2> QED
    BY <2>1, <2>2 DEF LeastInv
<1> QED
  BY <1>2, <1>3, <1>4, <1>5, <1>6, <1>7, <1>8, <1>9

(* The request goes to its target, which counts it, or fails ...           *)
LEMMA DirectStep ==
    ASSUME PoolInv, NEW r \in Requests, UP!Direct(r)
    PROVE  PoolInv'
<1> USE DEF PoolInv
<1>1. /\ choicePc \in [Requests -> Stages] /\ choicePc[r] = "chosen"
      /\ best \in [Requests -> {UP!None} \cup UP!T]
      /\ wasSick \in [Requests -> SUBSET UP!T] /\ wasWell \in [Requests -> SUBSET UP!T]
      /\ activeConns \in [UP!T -> Int]
      /\ least \in [Requests -> 0 .. Cardinality(Requests)] /\ most \in [Requests -> [UP!T -> Int]]
      /\ Cardinality(Requests) \in Nat
  BY RequestsFinite DEF UP!Direct, ScansTyped, TargetsTyped, LeastInv, LeastTyped
<1>2. wasSick' \in [Requests -> SUBSET UP!T] /\ wasWell' \in [Requests -> SUBSET UP!T]
  BY <1>1 DEF UP!Direct
<1>5. /\ UNCHANGED <<lbType, n, index, healthy, failures, streak, pos, seen, best, cursor, probed,
                     answers, settled>>
      /\ \A q \in Requests \ {r} : /\ wasSick'[q] = wasSick[q] /\ wasWell'[q] = wasWell[q]
                                    /\ least'[q] = least[q]
  BY <1>1 DEF UP!Direct, UP!pool, UP!check
<1>6. most' = [q \in Requests |->
                 IF q = r THEN [t \in UP!T |-> 0]
                 ELSE IF choicePc[q] = "scan"
                 THEN [t \in UP!T |-> IF activeConns'[t] > most[q][t] THEN activeConns'[t] ELSE most[q][t]]
                 ELSE most[q]]
  BY DEF UP!Direct, Requests
<1>7. ASSUME activeConns' \in [UP!T -> Int]
      PROVE  /\ LeastTyped'
             /\ \A q \in Requests \ {r} :
                   /\ choicePc[q] # "scan" => most'[q] = most[q]
                   /\ choicePc[q] = "scan" =>
                         \A t \in UP!T : activeConns'[t] <= most'[q][t] /\ most[q][t] <= most'[q][t]
  <2>1. least' \in [Requests -> 0 .. Cardinality(Requests)]
    BY <1>1 DEF UP!Direct
  <2>2. most' \in [Requests -> [UP!T -> Int]]
    BY <1>1, <1>6, <1>7
  <2>3. ASSUME NEW q \in Requests \ {r}, choicePc[q] = "scan", NEW t \in UP!T
        PROVE  activeConns'[t] <= most'[q][t] /\ most[q][t] <= most'[q][t]
    <3>1. most'[q][t] = IF activeConns'[t] > most[q][t] THEN activeConns'[t] ELSE most[q][t]
      BY <1>6, <2>3
    <3>2. activeConns'[t] \in Int /\ most[q][t] \in Int
      BY <1>1, <1>7
    <3> QED
      BY <3>1, <3>2
  <2>4. ASSUME NEW q \in Requests \ {r}, choicePc[q] # "scan" PROVE most'[q] = most[q]
    BY <1>6, <2>4
  <2> QED
    BY <2>1, <2>2, <2>3, <2>4 DEF LeastTyped, UP!T, Requests
<1>3. CASE best[r] = UP!None
  <2>1. Leaves(r, "failed") /\ activeConns' = activeConns
    BY <1>1, <1>3, <1>5, <1>7 DEF UP!Direct, Leaves
  <2>2. \A t \in UP!T : Proxied(t)' = Proxied(t)
    BY <1>1, <2>1 DEF Proxied, Leaves
  <2>3. (\A t \in UP!T : activeConns[t] = Cardinality(Proxied(t)))'
    BY <2>1, <2>2 DEF UP!T
  <2> QED
    BY <1>1, <1>2, <1>3, <1>7, <2>1, <2>3, LeaveStep
<1>4. CASE best[r] # UP!None
  <2> DEFINE b == best[r]
  <2>0. activeConns' = [activeConns EXCEPT ![b] = @ + 1] /\ b \in UP!T
    BY <1>1, <1>4 DEF UP!Direct
  <2>6. activeConns' \in [UP!T -> Int]
    BY <1>1, <2>0
  <2>1. Leaves(r, "proxied") /\ activeConns' = [activeConns EXCEPT ![b] = @ + 1] /\ b \in UP!T
    BY <1>1, <1>4, <1>5, <1>7, <2>0, <2>6 DEF UP!Direct, Leaves
  <2>2. \A t \in UP!T : Proxied(t)' = IF t = b THEN Proxied(t) \cup {r} ELSE Proxied(t)
    BY <1>1, <2>1 DEF Proxied, Leaves
  <2>3. r \notin Proxied(b) /\ Proxied(b) \subseteq Requests
    BY <1>1 DEF Proxied
  <2>4. Cardinality(Proxied(b) \cup {r}) = Cardinality(Proxied(b)) + 1
    BY <2>3, OneAdded
  <2>5. (\A t \in UP!T : activeConns[t] = Cardinality(Proxied(t)))'
    BY <1>1, <2>1, <2>2, <2>4 DEF UP!T
  <2> QED
    BY <1>1, <1>2, <1>4, <1>7, <2>1, <2>5, <2>6, LeaveStep
<1> QED
  BY <1>3, <1>4

(* ... and is counted out when its context ends.                           *)
LEMMA DiscountStep ==
    ASSUME PoolInv, NEW r \in Requests, UP!Discount(r)
    PROVE  PoolInv'
<1> USE DEF PoolInv
<1> DEFINE b == best[r]
<1>1. /\ choicePc \in [Requests -> Stages] /\ choicePc[r] = "proxied"
      /\ best \in [Requests -> {UP!None} \cup UP!T]
      /\ wasSick \in [Requests -> SUBSET UP!T] /\ wasWell \in [Requests -> SUBSET UP!T]
      /\ activeConns \in [UP!T -> Int]
  BY DEF UP!Discount, ScansTyped, TargetsTyped
<1>2. b \in UP!T
  BY <1>1 DEF RequestInv
<1>0. /\ activeConns' = [activeConns EXCEPT ![b] = @ - 1]
      /\ UNCHANGED <<wasSick, wasWell, least, most>>
  BY DEF UP!Discount, UP!hist
<1>9. ASSUME NEW q \in Requests, choicePc[q] = "scan", NEW t \in UP!T
      PROVE  activeConns'[t] <= most'[q][t] /\ most[q][t] <= most'[q][t]
  <2>1. activeConns[t] <= most[q][t] /\ activeConns[t] \in Int /\ most[q][t] \in Int
    BY <1>1, <1>9 DEF LeastInv, LeastMet, LeastTyped
  <2>2. activeConns'[t] = IF t = b THEN activeConns[t] - 1 ELSE activeConns[t]
    BY <1>0, <1>1
  <2> QED
    BY <1>0, <2>1, <2>2
<1>3. /\ Leaves(r, "done") /\ activeConns' = [activeConns EXCEPT ![b] = @ - 1]
      /\ UNCHANGED <<wasSick, wasWell, least, most>>
  BY <1>0, <1>1, <1>9 DEF UP!Discount, Leaves, UP!pool, UP!check, UP!hist
<1>10. LeastTyped'
  BY <1>0 DEF LeastInv, LeastTyped, UP!T
<1>4. \A t \in UP!T : Proxied(t)' = IF t = b THEN Proxied(t) \ {r} ELSE Proxied(t)
  BY <1>1, <1>3 DEF Proxied, Leaves
<1>5. r \in Proxied(b) /\ Proxied(b) \subseteq Requests
  BY <1>1 DEF Proxied
<1>6. Cardinality(Proxied(b) \ {r}) = Cardinality(Proxied(b)) - 1
  BY <1>5, OneLess
<1>7. (\A t \in UP!T : activeConns[t] = Cardinality(Proxied(t)))'
  BY <1>1, <1>3, <1>4, <1>6 DEF UP!T
<1>8. activeConns' \in [UP!T -> Int]
  BY <1>1, <1>2, <1>3
<1> QED
  BY <1>1, <1>3, <1>7, <1>8, <1>10, LeaveStep

(* Enter: the scan starts at a target, and by round robin the next in turn *)
(* has one request more.                                                   *)
LEMMA StartIsTarget ==
    ASSUME PoolInv, NEW r \in Requests, n > 0
    PROVE  /\ UP!Start(r) \in UP!Targets
           /\ lbType = "round_robin" => UP!Start(r) = (index + 1) % n
           /\ lbType = "ip_hash" => UP!Start(r) = PoolSetup.hash[PoolSetup.client[r]] % n
<1>1. /\ n \in Nat \ {0} /\ index + 1 \in Nat /\ PoolSetup.hash[PoolSetup.client[r]] \in Nat
      /\ lbType \in {"round_robin", "least_conn", "ip_hash"}
  BY PoolAssumption DEF PoolInv, TargetsTyped, UP!PoolConstants, Requests
<1>2. \A a \in Nat : a % n \in 0 .. n - 1
  BY <1>1, Remainder
<1>3. CASE lbType = "least_conn"
  BY <1>1, <1>3 DEF UP!Start, UP!Targets
<1>4. CASE lbType = "ip_hash"
  BY <1>1, <1>2, <1>4 DEF UP!Start, UP!Targets
<1>5. CASE lbType = "round_robin"
  BY <1>1, <1>2, <1>5 DEF UP!Start, UP!Advance, UP!Targets
<1> QED
  BY <1>1, <1>3, <1>4, <1>5

(* Round robin: the request that draws the next index is one more for the  *)
(* target after the last, and a round is over when all have had one.       *)
LEMMA TurnPasses ==
    ASSUME PoolInv, NEW r \in Requests, choicePc[r] = "new", n > 0, NEW q \in Nat, Round(q),
           \A t \in UP!Targets :
              StartedAt(t)' = IF t = (index + 1) % n THEN StartedAt(t) \cup {r} ELSE StartedAt(t),
           index' = index + 1, n' = n
    PROVE  (\E k \in Nat : Round(k))'
<1> DEFINE m == index % n
           next == (index + 1) % n
           size(t) == Cardinality(StartedAt(t))
           size2(t) == Cardinality(StartedAt(t)')
<1>1. n \in Nat \ {0} /\ index \in Nat
  BY DEF PoolInv, TargetsTyped
<1>2. m \in 0 .. n - 1 /\ next = IF m + 1 = n THEN 0 ELSE m + 1
  BY <1>1, Remainder
<1>3. \A t \in 0 .. n - 1 : size(t) = IF 1 <= t /\ t <= m THEN q + 1 ELSE q
  BY DEF Round, UP!Targets
<1>4. \A t \in 0 .. n - 1 : size2(t) = IF t = next THEN size(t) + 1 ELSE size(t)
  <2>1. ASSUME NEW t \in UP!Targets
        PROVE  StartedAt(t) \subseteq Requests /\ r \notin StartedAt(t)
    BY DEF StartedAt
  <2>2. ASSUME NEW t \in UP!Targets PROVE size2(t) = IF t = next THEN size(t) + 1 ELSE size(t)
    BY <2>1, OneAdded
  <2> QED
    BY <2>2 DEF UP!Targets
<1> HIDE DEF m, next, size, size2
<1>5. \E k \in Nat : \A t \in 0 .. n - 1 : size2(t) = IF 1 <= t /\ t <= next THEN k + 1 ELSE k
  <2>1. CASE m + 1 = n
    <3>1. \A t \in 0 .. n - 1 : size2(t) = IF 1 <= t /\ t <= next THEN (q + 1) + 1 ELSE q + 1
      BY <1>1, <1>2, <1>3, <1>4, <2>1
    <3> QED
      BY <3>1
  <2>2. CASE m + 1 # n
    BY <1>1, <1>2, <1>3, <1>4, <2>2
  <2> QED
    BY <2>1, <2>2
<1> QED
  BY <1>5 DEF Round, UP!Targets, next, size2

(* A request begins to choose.                                             *)
LEMMA EnterStep ==
    ASSUME PoolInv, NEW r \in Requests, UP!Enter(r)
    PROVE  PoolInv'
<1> USE DEF PoolInv
<1>1. /\ choicePc \in [Requests -> Stages] /\ pos \in [Requests -> Nat]
      /\ wasSick \in [Requests -> SUBSET UP!T] /\ wasWell \in [Requests -> SUBSET UP!T]
      /\ n \in Nat /\ n <= PoolSetup.maxTargets /\ PoolSetup.maxTargets \in Nat /\ index \in Nat
  BY PoolAssumption DEF ScansTyped, TargetsTyped, UP!PoolConstants
<1>2. UP!Targets \subseteq UP!T /\ UP!Sick \subseteq UP!Targets
  BY <1>1 DEF UP!Targets, UP!T, UP!Sick
<1>3. /\ choicePc[r] = "new"
      /\ index' = UP!Advance
      /\ pos' = [pos EXCEPT ![r] = IF n = 0 THEN 0 ELSE UP!Start(r)]
      /\ choicePc' = [choicePc EXCEPT ![r] = IF n = 0 THEN "chosen" ELSE "scan"]
      /\ wasSick' = [wasSick EXCEPT ![r] = UP!Sick]
      /\ wasWell' = [wasWell EXCEPT ![r] = UP!Targets \ UP!Sick]
      /\ most' = [most EXCEPT ![r] = activeConns]
      /\ UNCHANGED <<lbType, n, healthy, activeConns, seen, best, least, cursor, probed, failures, streak,
                     answers, settled>>
  BY DEF UP!Enter, UP!pool, UP!check
<1>4. \A q \in Requests \ {r} : /\ choicePc'[q] = choicePc[q] /\ pos'[q] = pos[q]
                                /\ wasSick'[q] = wasSick[q] /\ wasWell'[q] = wasWell[q]
  BY <1>1, <1>3
<1>5. /\ choicePc'[r] = IF n = 0 THEN "chosen" ELSE "scan"
      /\ wasSick'[r] = UP!Sick /\ wasWell'[r] = UP!Targets \ UP!Sick
      /\ best[r] = UP!None /\ seen[r] = 0
  BY <1>1, <1>3 DEF RequestInv
<1>6. n > 0 => pos'[r] = UP!Start(r) /\ pos'[r] \in 0 .. n - 1
  BY <1>1, <1>3, StartIsTarget DEF UP!Targets
<1>7. index' \in Nat /\ index' <= index + 1 /\ (n = 0 => index' = index)
  BY <1>1, <1>3 DEF UP!Advance
<1>8. TargetsTyped'
  BY <1>3, <1>7 DEF TargetsTyped, UP!T
<1>9. ScansTyped'
  <2>1. pos'[r] \in Nat
    BY <1>1, <1>3, <1>6
  <2>2. pos' \in [Requests -> Nat]
    BY <1>1, <1>3, <2>1
  <2>3. choicePc' \in [Requests -> Stages]
    BY <1>1, <1>3 DEF Stages
  <2>4. wasSick' \in [Requests -> SUBSET UP!T] /\ wasWell' \in [Requests -> SUBSET UP!T]
    BY <1>1, <1>2, <1>3
  <2> QED
    BY <1>3, <2>2, <2>3, <2>4 DEF ScansTyped, UP!T
<1>10. HealthInv'
  BY <1>3 DEF HealthInv, UP!T
<1>11. ASSUME NEW q \in Requests PROVE RequestInv(q)'
  <2>1. RequestInv(q)
    OBVIOUS
  <2>2. CASE q # r
    BY <1>3, <1>4, <2>1, <2>2 DEF RequestInv, Met, UP!Targets
  <2>3. CASE q = r
    BY <1>1, <1>2, <1>3, <1>5, <1>6, <2>1, <2>3 DEF RequestInv, UP!Targets, UP!Sick
  <2> QED
    BY <2>2, <2>3
<1>12. index' <= Cardinality(Entered')
  <2>1. Entered' = Entered \cup {r} /\ r \notin Entered /\ Entered \subseteq Requests
    BY <1>1, <1>3, <1>4, <1>5 DEF Entered
  <2>2. Cardinality(Entered') = Cardinality(Entered) + 1 /\ Cardinality(Entered) \in Nat
    BY <2>1, OneAdded, RequestsFinite
  <2> QED
    BY <1>1, <1>7, <2>2
<1>13. (\A t \in UP!T : activeConns[t] = Cardinality(Proxied(t)))'
  <2>1. \A t : Proxied(t)' = Proxied(t)
    BY <1>3, <1>4, <1>5 DEF Proxied
  <2> QED
    BY <1>3, <2>1 DEF UP!T
<1>14. UP!ChoiceJustified'
  <2>1. ASSUME NEW q \in Requests, choicePc'[q] = "chosen", q # r
        PROVE  /\ choicePc[q] = "chosen" /\ best'[q] = best[q]
               /\ wasWell'[q] = wasWell[q] /\ wasSick'[q] = wasSick[q] /\ lbType' = lbType
    BY <1>3, <1>4, <2>1
  <2>2. choicePc'[r] = "chosen" => best'[r] = UP!None /\ wasWell'[r] = {}
    BY <1>1, <1>3, <1>5 DEF UP!Targets
  <2> QED
    BY <2>1, <2>2 DEF UP!ChoiceJustified, Requests, UP!None
<1>15. SteadyInv'
  <2>1. ASSUME NEW q \in Requests \ {r}, Straight(q) PROVE Straight(q)'
    BY <1>3, <1>4, <2>1 DEF Straight
  <2>2. n > 0 => Straight(r)'
    BY <1>3, <1>5, <1>6, StartIsTarget DEF Straight
  <2> QED
    BY <1>3, <1>7, <2>1, <2>2 DEF SteadyInv, UP!Targets
<1>16. RoundInv'
  <2> SUFFICES ASSUME settled, lbType = "round_robin", n > 0 PROVE (\E q \in Nat : Round(q))'
    BY <1>3 DEF RoundInv
  <2>1. PICK q \in Nat : Round(q)
    BY DEF RoundInv
  <2>2. pos'[r] = (index + 1) % n /\ index' = index + 1
    BY <1>3, <1>6, StartIsTarget DEF UP!Advance
  <2>3. \A t : StartedAt(t)' = IF t = (index + 1) % n THEN StartedAt(t) \cup {r} ELSE StartedAt(t)
    BY <1>3, <1>4, <1>5, <2>2 DEF StartedAt
  <2> QED
    BY <1>3, <2>1, <2>2, <2>3, TurnPasses
<1>17. LeastInv'
  <2>1. activeConns \in [UP!T -> Int] /\ most \in [Requests -> [UP!T -> Int]]
    BY DEF TargetsTyped, LeastInv, LeastTyped
  <2>2. LeastTyped'
    BY <1>3, <2>1 DEF LeastInv, LeastTyped, UP!T
  <2>3. most'[r] = activeConns /\ \A q \in Requests \ {r} : most'[q] = most[q]
    BY <1>3, <2>1
  <2>4. ASSUME NEW q \in Requests \ {r} PROVE LeastMet(q)'
    BY <1>3, <1>4, <2>3 DEF LeastInv, LeastMet, Met, UP!T, UP!None
  <2>5. LeastMet(r)'
    <3>1. \A t \in UP!T : activeConns[t] \in Int /\ activeConns[t] <= activeConns[t]
      BY <2>1
    <3> QED
      BY <1>3, <1>5, <2>3, <3>1 DEF LeastMet, UP!T
  <2>6. UP!LeastChosen'
    <3>1. ASSUME NEW q \in Requests \ {r}, choicePc'[q] = "chosen"
          PROVE  /\ choicePc[q] = "chosen" /\ best'[q] = best[q] /\ lbType' = lbType
                 /\ wasWell'[q] = wasWell[q] /\ wasSick'[q] = wasSick[q]
                 /\ least'[q] = least[q] /\ most'[q] = most[q]
      BY <1>3, <1>4, <2>3, <3>1
    <3>2. choicePc'[r] = "chosen" => wasWell'[r] = {}
      BY <1>1, <1>5 DEF UP!Targets
    <3> QED
      BY <3>1, <3>2 DEF LeastInv, UP!LeastChosen, Requests, UP!None
  <2> QED
    BY <2>2, <2>4, <2>5, <2>6 DEF LeastInv
<1> QED
  BY <1>8, <1>9, <1>10, <1>11, <1>12, <1>13, <1>14, <1>15, <1>16, <1>17

(* Scan: the target under the cursor is found, or on record as out; when   *)
(* none was found all have been met.                                       *)
Found(r) == IF UP!Better(r, UP!At(r)) THEN UP!At(r) ELSE best[r]
Over(r) == seen[r] + 1 = n \/ (Found(r) # UP!None /\ lbType # "least_conn")

(* A step of a scan: what it finds was in, and if it has found none, the   *)
(* target it has just met was out.                                         *)
LEMMA ScanFinds ==
    ASSUME PoolInv, NEW r \in Requests, choicePc[r] = "scan"
    PROVE  /\ UP!At(r) \in UP!Targets /\ UP!At(r) = Met(r, seen[r])
           /\ Found(r) \in {UP!None} \cup UP!Targets
           /\ Found(r) # UP!None => Found(r) \in wasWell[r]
           /\ Found(r) = UP!None => \A k \in 0 .. seen[r] : Met(r, k) \in wasSick[r]
<1>1. /\ RequestInv(r) /\ pos[r] \in Nat /\ seen[r] \in Nat /\ n \in Nat \ {0}
      /\ n > 0 /\ pos[r] < n /\ seen[r] < n
  BY DEF PoolInv, ScansTyped, TargetsTyped, RequestInv
<1>2. UP!At(r) \in UP!Targets /\ UP!At(r) = Met(r, seen[r])
  <2>1. UP!At(r) = Met(r, seen[r]) /\ pos[r] + seen[r] \in Nat
    BY <1>1 DEF UP!At, Met
  <2>2. Met(r, seen[r]) \in 0 .. n - 1
    BY <1>1, <2>1, Remainder DEF Met
  <2> QED
    BY <2>1, <2>2 DEF UP!Targets
<1>3. CASE UP!Better(r, UP!At(r))
  <2>1. healthy[UP!At(r)] /\ Found(r) = UP!At(r)
    BY <1>3 DEF UP!Better, Found
  <2>2. UP!At(r) \in wasWell[r] /\ UP!At(r) # UP!None
    BY <1>1, <1>2, <2>1 DEF RequestInv, UP!Targets, UP!None
  <2> QED
    BY <1>2, <2>1, <2>2
<1>4. CASE ~UP!Better(r, UP!At(r))
  <2>1. Found(r) = best[r]
    BY <1>4 DEF Found
  <2>2. CASE best[r] # UP!None
    BY <1>1, <1>2, <2>1, <2>2 DEF RequestInv
  <2>3. CASE best[r] = UP!None
    <3>1. ~healthy[UP!At(r)]
      BY <1>4, <2>3 DEF UP!Better
    <3>2. UP!At(r) \in wasSick[r] /\ \A k \in 0 .. seen[r] - 1 : Met(r, k) \in wasSick[r]
      BY <1>1, <1>2, <2>3, <3>1 DEF RequestInv
    <3>3. \A k \in 0 .. seen[r] : k \in 0 .. seen[r] - 1 \/ k = seen[r]
      BY <1>1
    <3>4. \A k \in 0 .. seen[r] : Met(r, k) \in wasSick[r]
      BY <1>2, <3>2, <3>3
    <3> QED
      BY <1>2, <2>1, <2>3, <3>4
  <2> QED
    BY <2>2, <2>3
<1> QED
  BY <1>3, <1>4

(* A scan that has met all targets and found none: each was out when it    *)
(* was met.                                                                *)
LEMMA NoneFound ==
    ASSUME PoolInv, NEW r \in Requests, choicePc[r] = "scan", Found(r) = UP!None, seen[r] + 1 = n
    PROVE  wasWell[r] \subseteq wasSick[r]
<1>1. /\ pos[r] \in 0 .. n - 1 /\ n \in Nat \ {0} /\ wasWell[r] \subseteq UP!Targets
      /\ 0 .. seen[r] = 0 .. n - 1
  BY DEF PoolInv, ScansTyped, TargetsTyped, RequestInv
<1>2. \A k \in 0 .. n - 1 : Met(r, k) \in wasSick[r]
  BY <1>1, ScanFinds
<1>3. ASSUME NEW t \in UP!Targets PROVE t \in wasSick[r]
  <2>1. \E k \in 0 .. n - 1 : Met(r, k) = t
    BY <1>1, AllAreMet DEF Met, UP!Targets
  <2> QED
    BY <1>2, <2>1
<1> QED
  BY <1>1, <1>3

(* Least connections: of what it has met, the target under the cursor with *)
(* the rest, each was out or had no fewer connections than the best.       *)
LeastFound(r) == IF UP!Better(r, UP!At(r)) THEN activeConns[UP!At(r)] ELSE least[r]

LEMMA ScanKeepsLeast ==
    ASSUME PoolInv, NEW r \in Requests, choicePc[r] = "scan", NEW k \in 0 .. seen[r]
    PROVE  Met(r, k) \in wasSick[r] \/ (Found(r) # UP!None /\ LeastFound(r) <= most[r][Met(r, k)])
<1> DEFINE a == UP!At(r)
           m == Met(r, k)
<1>1. /\ RequestInv(r) /\ LeastMet(r) /\ seen[r] \in Nat /\ k \in Nat
      /\ a \in UP!Targets /\ a = Met(r, seen[r]) /\ a # UP!None
      /\ m \in UP!T /\ a \in UP!T
  BY ScanFinds, MetIsTarget DEF PoolInv, LeastInv, ScansTyped, UP!Targets, UP!None
<1>2. /\ least[r] \in Int /\ activeConns[a] \in Int /\ most[r][m] \in Int /\ most[r][a] \in Int
      /\ activeConns[a] <= most[r][a]
  BY <1>1, RequestsFinite DEF PoolInv, TargetsTyped, LeastInv, LeastTyped, LeastMet
<1>3. k < seen[r] => (m \in wasSick[r] \/ (best[r] # UP!None /\ least[r] <= most[r][m]))
  BY <1>1 DEF LeastMet
<1>4. k >= seen[r] => m = a
  BY <1>1
<1>5. ~healthy[a] => a \in wasSick[r]
  BY <1>1 DEF RequestInv
<1>6. CASE UP!Better(r, a)
  <2>1. Found(r) = a /\ LeastFound(r) = activeConns[a] /\ (best[r] = UP!None \/ activeConns[a] < least[r])
    BY <1>6 DEF Found, LeastFound, UP!Better
  <2> HIDE DEF a, m
  <2> QED
    BY <1>1, <1>2, <1>3, <1>4, <2>1 DEF m
<1>7. CASE ~UP!Better(r, a)
  <2>1. /\ Found(r) = best[r] /\ LeastFound(r) = least[r]
        /\ ~healthy[a] \/ (best[r] # UP!None /\ ~(activeConns[a] < least[r]))
    BY <1>7 DEF Found, LeastFound, UP!Better
  <2> HIDE DEF a, m
  <2> QED
    BY <1>1, <1>2, <1>3, <1>4, <1>5, <2>1 DEF m
<1> QED
  BY <1>6, <1>7

(* The scan goes on, or ends with its choice.                              *)
LEMMA ScanStep ==
    ASSUME PoolInv, NEW r \in Requests, UP!Scan(r)
    PROVE  PoolInv'
<1> USE DEF PoolInv
<1> DEFINE b == Found(r)
           chosen == IF Over(r) THEN UP!Result(r, b) ELSE b
<1>1. /\ choicePc[r] = "scan"
      /\ best' = [best EXCEPT ![r] = chosen]
      /\ choicePc' = [choicePc EXCEPT ![r] = IF Over(r) THEN "chosen" ELSE "scan"]
      /\ seen' = [seen EXCEPT ![r] = @ + 1]
      /\ least' = [least EXCEPT ![r] = LeastFound(r)]
      /\ UNCHANGED <<lbType, n, healthy, index, activeConns, pos, cursor, probed, failures, streak,
                     answers, wasSick, wasWell, most, settled>>
  BY DEF UP!Scan, Found, LeastFound, Over, UP!pool, UP!check, UP!hist
<1>2. /\ choicePc \in [Requests -> Stages] /\ best \in [Requests -> {UP!None} \cup UP!T]
      /\ seen \in [Requests -> Nat] /\ pos \in [Requests -> Nat]
      /\ n \in Nat /\ n <= PoolSetup.maxTargets /\ PoolSetup.maxTargets \in Nat
  BY PoolAssumption DEF ScansTyped, TargetsTyped, UP!PoolConstants
<1>3. /\ choicePc'[r] = IF Over(r) THEN "chosen" ELSE "scan"
      /\ best'[r] = chosen /\ seen'[r] = seen[r] + 1
      /\ \A q \in Requests \ {r} : /\ choicePc'[q] = choicePc[q] /\ best'[q] = best[q]
                                   /\ seen'[q] = seen[q]
  BY <1>1, <1>2
<1>4. /\ pos[r] \in UP!Targets /\ seen[r] < n /\ n > 0
      /\ b \in {UP!None} \cup UP!Targets
      /\ chosen \in {UP!None} \cup UP!Targets
      /\ UP!Targets \subseteq UP!T
  BY <1>1, <1>2, ScanFinds DEF RequestInv, UP!Targets, UP!T, UP!Result
<1> HIDE DEF b, chosen
<1>5. TargetsTyped'
  BY <1>1 DEF TargetsTyped, UP!T
<1>6. ScansTyped'
  <2>1. best' \in [Requests -> {UP!None} \cup UP!T]
    BY <1>1, <1>2, <1>4
  <2>2. choicePc' \in [Requests -> Stages] /\ seen' \in [Requests -> Nat]
    BY <1>1, <1>2 DEF Stages
  <2> QED
    BY <1>1, <2>1, <2>2 DEF ScansTyped, UP!T, UP!None
<1>7. HealthInv'
  BY <1>1 DEF HealthInv, UP!T
<1>8. ASSUME NEW q \in Requests PROVE RequestInv(q)'
  <2>1. RequestInv(q)
    OBVIOUS
  <2>2. CASE q # r
    BY <1>1, <1>3, <2>1, <2>2 DEF RequestInv, Met, UP!Targets, UP!None
  <2>3. CASE q = r /\ Over(r)
    BY <1>1, <1>2, <1>3, <1>4, <2>3 DEF RequestInv, UP!Targets, UP!None
  <2>4. CASE q = r /\ ~Over(r)
    <3>1. choicePc'[r] = "scan" /\ best'[r] = b /\ seen[r] + 1 < n
      BY <1>2, <1>3, <1>4, <2>4 DEF Over, chosen, b
    <3>2. b # UP!None => b \in wasWell[r] /\ lbType = "least_conn"
      BY <1>1, <2>4, ScanFinds DEF Over, b
    <3>3. b = UP!None => \A k \in 0 .. seen'[r] - 1 : Met(r, k) \in wasSick[r]
      <4>1. 0 .. seen'[r] - 1 = 0 .. seen[r]
        BY <1>2, <1>3
      <4> QED
        BY <1>1, <4>1, ScanFinds DEF b
    <3>4. /\ wasWell[r] \subseteq UP!Targets /\ pos[r] < n
          /\ \A t \in UP!Targets : IF healthy[t] THEN t \in wasWell[r] ELSE t \in wasSick[r]
      BY <1>1, <2>1, <2>4 DEF RequestInv
    <3> QED
      BY <1>1, <1>2, <1>3, <1>4, <2>4, <3>1, <3>2, <3>3, <3>4 DEF RequestInv, Met, UP!Targets, UP!None
  <2> QED
    BY <2>2, <2>3, <2>4
<1>9. index' <= Cardinality(Entered')
  <2>1. Entered' = Entered
    BY <1>1, <1>3 DEF Entered
  <2> QED
    BY <1>1, <2>1
<1>10. (\A t \in UP!T : activeConns[t] = Cardinality(Proxied(t)))'
  <2>1. \A t : Proxied(t)' = Proxied(t)
    BY <1>1, <1>3 DEF Proxied
  <2> QED
    BY <1>1, <2>1 DEF UP!T
<1>11. UP!ChoiceJustified'
  <2>1. ASSUME NEW q \in Requests, choicePc'[q] = "chosen", q # r
        PROVE  /\ choicePc[q] = "chosen" /\ best'[q] = best[q]
               /\ wasWell'[q] = wasWell[q] /\ wasSick'[q] = wasSick[q] /\ lbType' = lbType
    BY <1>1, <1>3, <2>1
  <2>2. ASSUME Over(r)
        PROVE  \/ best'[r] \in wasWell[r]
               \/ (best'[r] = UP!None \/ lbType = "ip_hash") /\ wasWell[r] \subseteq wasSick[r]
    <3>1. CASE b # UP!None
      BY <1>1, <1>3, <2>2, <3>1, ScanFinds DEF b, chosen, UP!Result
    <3>2. CASE b = UP!None
      <4>1. seen[r] + 1 = n
        BY <2>2, <3>2 DEF Over, b
      <4>2. wasWell[r] \subseteq wasSick[r]
        BY <1>1, <3>2, <4>1, NoneFound DEF b
      <4>3. best'[r] = UP!None \/ lbType = "ip_hash"
        BY <1>3, <3>2 DEF chosen, UP!Result
      <4> QED
        BY <4>2, <4>3
    <3> QED
      BY <3>1, <3>2
  <2>3. choicePc'[r] = "chosen" => Over(r)
    BY <1>3
  <2> QED
    BY <1>1, <2>1, <2>2, <2>3 DEF UP!ChoiceJustified, Requests, UP!None
<1>12. SteadyInv'
  <2> SUFFICES ASSUME settled PROVE SteadyInv'
    BY <1>1 DEF SteadyInv
  <2>1. \A t \in UP!Targets : healthy[t]
    BY DEF SteadyInv
  <2>2. ASSUME lbType # "least_conn", NEW q \in Requests PROVE Straight(q)'
    <3>1. Straight(q)
      BY <1>4, <2>2 DEF SteadyInv
    <3>2. CASE q # r
      BY <1>1, <1>3, <3>1, <3>2 DEF Straight, UP!None
    <3>3. CASE q = r
      <4>1. best[r] = UP!None /\ seen[r] = 0
        BY <1>1, <3>1, <3>3 DEF Straight
      <4>2. UP!At(r) = pos[r]
        <5>1. pos[r] + seen[r] = pos[r] /\ pos[r] \in Nat /\ pos[r] < n /\ n \in Nat \ {0}
          BY <1>2, <1>4, <4>1 DEF UP!Targets
        <5> QED
          BY <5>1, Remainder DEF UP!At
      <4>3. b = pos[r]
        BY <1>4, <2>1, <4>1, <4>2 DEF b, Found, UP!Better
      <4>4. pos[r] # UP!None
        BY <1>4 DEF UP!Targets, UP!None
      <4>5. Over(r) /\ chosen = pos[r]
        BY <2>2, <4>3, <4>4 DEF Over, b, chosen, UP!Result
      <4> QED
        BY <1>1, <1>3, <3>1, <3>3, <4>5 DEF Straight
    <3> QED
      BY <3>2, <3>3
  <2> QED
    BY <1>1, <1>4, <2>1, <2>2 DEF SteadyInv, UP!Targets
<1>13. RoundInv'
  <2>1. \A t : StartedAt(t)' = StartedAt(t)
    BY <1>1, <1>3 DEF StartedAt
  <2> QED
    BY <1>1, <2>1 DEF RoundInv, Round, UP!Targets
<1>14. LeastInv'
  <2>1. least \in [Requests -> 0 .. Cardinality(Requests)] /\ most \in [Requests -> [UP!T -> Int]]
    BY DEF LeastInv, LeastTyped
  <2>2. LeastFound(r) \in 0 .. Cardinality(Requests)
    <3>1. UP!At(r) \in UP!T
      BY <1>1, <1>4, ScanFinds
    <3>2. activeConns[UP!At(r)] \in 0 .. Cardinality(Requests)
      <4>1. activeConns[UP!At(r)] = Cardinality(Proxied(UP!At(r)))
        BY <3>1
      <4>2. Proxied(UP!At(r)) \subseteq Requests
        BY DEF Proxied
      <4>3. Cardinality(Proxied(UP!At(r))) \in Nat /\ Cardinality(Requests) \in Nat
            /\ Cardinality(Proxied(UP!At(r))) <= Cardinality(Requests)
        BY <4>2, RequestsFinite
      <4> QED
        BY <4>1, <4>3
    <3> QED
      BY <2>1, <3>2 DEF LeastFound
  <2>3. LeastTyped'
    BY <1>1, <2>1, <2>2 DEF LeastTyped, UP!T
  <2>4. least'[r] = LeastFound(r) /\ \A q \in Requests \ {r} : least'[q] = least[q]
    BY <1>1, <2>1
  <2>5. ASSUME NEW q \in Requests \ {r} PROVE LeastMet(q)'
    BY <1>1, <1>3, <2>4 DEF LeastInv, LeastMet, Met, UP!T, UP!None
  <2>6. \A k \in 0 .. seen[r] :
           Met(r, k) \in wasSick[r] \/ (b # UP!None /\ LeastFound(r) <= most[r][Met(r, k)])
    BY <1>1, ScanKeepsLeast DEF b
  <2>7. LeastMet(r)'
    <3> SUFFICES ASSUME ~Over(r) PROVE LeastMet(r)'
      BY <1>3 DEF LeastMet
    <3>1. best'[r] = b /\ 0 .. seen'[r] - 1 = 0 .. seen[r] /\ \A k : Met(r, k)' = Met(r, k)
      BY <1>1, <1>2, <1>3 DEF chosen, b, Met
    <3>2. \A t \in UP!T : activeConns[t] <= most[r][t]
      BY <1>1 DEF LeastInv, LeastMet
    <3> QED
      BY <1>1, <2>4, <2>6, <3>1, <3>2 DEF LeastMet, UP!T, UP!None
  <2>8. UP!LeastChosen'
    <3>1. ASSUME NEW q \in Requests \ {r}, choicePc'[q] = "chosen"
          PROVE  /\ choicePc[q] = "chosen" /\ best'[q] = best[q] /\ lbType' = lbType
                 /\ wasWell'[q] = wasWell[q] /\ wasSick'[q] = wasSick[q]
                 /\ least'[q] = least[q] /\ most'[q] = most[q]
      BY <1>1, <1>3, <2>4, <3>1
    <3>2. ASSUME choicePc'[r] = "chosen", lbType = "least_conn", NEW t \in wasWell[r] \ wasSick[r]
          PROVE  best'[r] # UP!None /\ least'[r] <= most[r][t]
      <4>1. seen[r] + 1 = n /\ best'[r] = b
        BY <1>3, <3>2 DEF Over, chosen, b, UP!Result
      <4>2. t \in 0 .. n - 1 /\ pos[r] \in 0 .. n - 1 /\ 0 .. n - 1 = 0 .. seen[r]
        BY <1>1, <1>2, <1>4, <4>1 DEF RequestInv, UP!Targets
      <4>3. PICK k \in 0 .. n - 1 : Met(r, k) = t
        BY <1>2, <4>2, AllAreMet DEF Met
      <4> QED
        BY <2>4, <2>6, <4>1, <4>2, <4>3
    <3> QED
      BY <1>1, <3>1, <3>2 DEF LeastInv, UP!LeastChosen, Requests, UP!None
  <2> QED
    BY <2>3, <2>5, <2>7, <2>8 DEF LeastInv
<1> QED
  BY <1>5, <1>6, <1>7, <1>8, <1>9, <1>10, <1>11, <1>12, <1>13, <1>14

(* Probe: the streak of one target decides on its health, and the scans    *)
(* under way have the flags of this moment on record.                      *)
LEMMA ProbeStep ==
    ASSUME PoolInv, UP!Probe
    PROVE  PoolInv'
<1> USE DEF PoolInv
<1> DEFINE t == probed
           sick == UP!SickAfter(t)
           f == UP!FailuresAfter(t)
<1>1. /\ probed < cursor /\ cursor <= n /\ n \in Nat /\ n <= PoolSetup.maxTargets
      /\ cursor \in Nat /\ probed \in Nat /\ PoolSetup.maxTargets \in Nat
  BY PoolAssumption DEF UP!Probe, TargetsTyped, HealthInv, UP!PoolConstants
<1>2. t \in UP!Targets /\ UP!Targets \subseteq UP!T /\ t < n
  BY <1>1 DEF UP!Targets, UP!T
<1>3. /\ failures' = [failures EXCEPT ![t] = IF f > UP!MaxFailures THEN UP!MaxFailures ELSE f]
      /\ streak' = [streak EXCEPT ![t] = IF answers[t] THEN 0
                                         ELSE IF @ = UP!MaxFailures THEN @ ELSE @ + 1]
      /\ healthy' = [healthy EXCEPT ![t] = t \notin sick]
      /\ settled' = (settled /\ sick = {})
      /\ probed' = probed + 1
      /\ UNCHANGED <<lbType, n, index, activeConns, choicePc, pos, seen, best, least, most, cursor,
                     answers>>
  BY DEF UP!Probe, UP!req
<1>4. /\ wasSick' = [r \in Requests |-> IF choicePc[r] = "scan" THEN wasSick[r] \cup sick ELSE wasSick[r]]
      /\ wasWell' = [r \in Requests |->
                        IF choicePc[r] = "scan" THEN wasWell[r] \cup (UP!Targets \ sick) ELSE wasWell[r]]
  BY DEF UP!Probe, Requests
<1>5. /\ failures \in [UP!T -> 0 .. UP!MaxFailures] /\ streak \in [UP!T -> 0 .. UP!MaxFailures]
      /\ healthy \in [UP!T -> BOOLEAN] /\ UP!MaxFailures = 3
  BY DEF TargetsTyped, UP!MaxFailures
<1>6. /\ failures'[t] = streak'[t]
      /\ failures'[t] \in 0 .. UP!MaxFailures
      /\ t \in sick <=> streak'[t] >= UP!MaxFailures
  <2>1. failures[t] = streak[t] /\ (t \in UP!Sick <=> streak[t] >= UP!MaxFailures)
    BY <1>2, <1>5 DEF HealthInv, UP!Sick
  <2>2. CASE answers[t]
    BY <1>2, <1>3, <1>5, <2>1, <2>2 DEF UP!SickAfter, UP!FailuresAfter
  <2>3. CASE ~answers[t]
    BY <1>2, <1>3, <1>5, <2>1, <2>3 DEF UP!SickAfter, UP!FailuresAfter
  <2> QED
    BY <2>2, <2>3
<1>7. /\ sick \subseteq UP!Targets
      /\ \A s \in UP!Targets : s \in sick <=> ~healthy'[s]
  <2>1. \A s \in UP!Targets : s # t => (s \in sick <=> ~healthy[s])
    BY DEF UP!SickAfter, UP!Sick
  <2>2. sick \subseteq UP!Targets
    BY <1>2 DEF UP!SickAfter, UP!Sick
  <2>3. \A s \in UP!T : healthy'[s] = IF s = t THEN t \notin sick ELSE healthy[s]
    BY <1>2, <1>3, <1>5
  <2> QED
    BY <1>2, <2>1, <2>2, <2>3
<1>8. \A s \in UP!T \ {t} : /\ failures'[s] = failures[s] /\ streak'[s] = streak[s]
                            /\ healthy'[s] = healthy[s]
  BY <1>2, <1>3, <1>5
<1>9. healthy'[t] <=> streak'[t] < UP!MaxFailures
  BY <1>2, <1>5, <1>6, <1>7
<1> HIDE DEF sick, f
<1>10. TargetsTyped'
  <2>1. failures' \in [UP!T -> 0 .. UP!MaxFailures] /\ streak' \in [UP!T -> 0 .. UP!MaxFailures]
    BY <1>2, <1>3, <1>5, <1>6
  <2>2. healthy' \in [UP!T -> BOOLEAN]
    BY <1>2, <1>3, <1>5
  <2>3. settled' \in BOOLEAN
    BY <1>3 DEF TargetsTyped
  <2> QED
    BY <1>1, <1>3, <2>1, <2>2, <2>3 DEF TargetsTyped, UP!T, UP!MaxFailures
<1>11. ScansTyped'
  <2>1. /\ wasSick \in [Requests -> SUBSET UP!T] /\ wasWell \in [Requests -> SUBSET UP!T]
        /\ sick \subseteq UP!T
    BY <1>2, <1>7 DEF ScansTyped
  <2>2. wasSick' \in [Requests -> SUBSET UP!T]
    BY <1>4, <2>1
  <2>3. wasWell' \in [Requests -> SUBSET UP!T]
    BY <1>2, <1>4, <2>1
  <2> QED
    BY <1>3, <2>2, <2>3 DEF ScansTyped, UP!T, UP!None
<1>12. HealthInv'
  <2>1. ASSUME NEW s \in UP!T
        PROVE  /\ failures'[s] = streak'[s]
               /\ healthy'[s] <=> streak'[s] < UP!MaxFailures
               /\ s >= n => healthy'[s]
    <3>1. CASE s = t
      BY <1>1, <1>6, <1>9, <3>1
    <3>2. CASE s # t
      BY <1>8, <3>2 DEF HealthInv
    <3> QED
      BY <3>1, <3>2
  <2> QED
    BY <1>1, <1>3, <2>1 DEF HealthInv, UP!T, UP!MaxFailures
<1>13. ASSUME NEW r \in Requests PROVE RequestInv(r)'
  <2>1. RequestInv(r)
    OBVIOUS
  <2>2. CASE choicePc[r] # "scan"
    BY <1>3, <2>1, <2>2 DEF RequestInv, UP!Targets, UP!None
  <2>3. CASE choicePc[r] = "scan"
    <3>1. wasSick'[r] = wasSick[r] \cup sick /\ wasWell'[r] = wasWell[r] \cup (UP!Targets \ sick)
      BY <1>4, <2>3
    <3>2. \A s \in UP!Targets : IF healthy'[s] THEN s \in wasWell'[r] ELSE s \in wasSick'[r]
      BY <1>7, <3>1
    <3>3. /\ wasWell'[r] \subseteq UP!Targets
          /\ best[r] # UP!None => best[r] \in wasWell'[r] /\ lbType = "least_conn"
          /\ best[r] = UP!None => \A k \in 0 .. seen[r] - 1 : Met(r, k) \in wasSick'[r]
      BY <2>1, <2>3, <3>1 DEF RequestInv
    <3> QED
      BY <1>3, <2>1, <2>3, <3>2, <3>3 DEF RequestInv, Met, UP!Targets, UP!None
  <2> QED
    BY <2>2, <2>3
<1>14. index' <= Cardinality(Entered')
  <2>1. Entered' = Entered
    BY <1>3 DEF Entered
  <2> QED
    BY <1>3, <2>1
<1>15. (\A s \in UP!T : activeConns[s] = Cardinality(Proxied(s)))'
  <2>1. \A s : Proxied(s)' = Proxied(s)
    BY <1>3 DEF Proxied
  <2> QED
    BY <1>3, <2>1 DEF UP!T
<1>16. UP!ChoiceJustified'
  <2>1. ASSUME NEW q \in Requests, choicePc'[q] = "chosen"
        PROVE  /\ choicePc[q] = "chosen" /\ best'[q] = best[q]
               /\ wasWell'[q] = wasWell[q] /\ wasSick'[q] = wasSick[q] /\ lbType' = lbType
    BY <1>3, <1>4, <2>1
  <2> QED
    BY <2>1 DEF UP!ChoiceJustified, Requests, UP!None
<1>17. SteadyInv'
  <2> SUFFICES ASSUME settled' PROVE SteadyInv'
    BY DEF SteadyInv
  <2>1. settled /\ sick = {}
    BY <1>3
  <2>2. \A s \in UP!Targets' : healthy'[s]
    BY <1>3, <1>7, <2>1 DEF UP!Targets
  <2>3. ASSUME NEW r \in Requests, Straight(r) PROVE Straight(r)'
    BY <1>3, <2>3 DEF Straight, UP!None
  <2> QED
    BY <1>3, <2>1, <2>2, <2>3 DEF SteadyInv, UP!None
<1>18. RoundInv'
  <2>1. \A s : StartedAt(s)' = StartedAt(s)
    BY <1>3 DEF StartedAt
  <2>2. settled' => settled
    BY <1>3
  <2> QED
    BY <1>3, <2>1, <2>2 DEF RoundInv, Round, UP!Targets
<1>19. LeastInv'
  <2>1. LeastTyped'
    BY <1>3 DEF LeastInv, LeastTyped, UP!T
  <2>2. ASSUME NEW q \in Requests PROVE LeastMet(q)'
    <3>1. choicePc[q] = "scan" => wasSick[q] \subseteq wasSick'[q]
      BY <1>4
    <3> QED
      BY <1>3, <3>1 DEF LeastInv, LeastMet, Met, UP!T, UP!None
  <2>3. UP!LeastChosen'
    <3>1. ASSUME NEW q \in Requests, choicePc'[q] = "chosen"
          PROVE  choicePc[q] = "chosen" /\ wasWell'[q] = wasWell[q] /\ wasSick'[q] = wasSick[q]
      BY <1>3, <1>4, <3>1
    <3> QED
      BY <1>3, <3>1 DEF LeastInv, UP!LeastChosen, Requests, UP!None
  <2> QED
    BY <2>1, <2>2, <2>3 DEF LeastInv
<1> QED
  BY <1>10, <1>11, <1>12, <1>13, <1>14, <1>15, <1>16, <1>17, <1>18, <1>19

-----------------------------------------------------------------------------
(* Every step of the pool keeps the invariant.                             *)
LEMMA PoolStep ==
    ASSUME PoolInv, [UP!Next]_(UP!vars)
    PROVE  PoolInv'
<1>1. CASE UNCHANGED UP!vars
  <2>1. UNCHANGED <<choices, answers, cursor, probed>>
    BY <1>1 DEF UP!vars, choices, UP!pool, UP!req, UP!check, UP!hist
  <2>2. answers' \in [UP!T -> BOOLEAN] /\ cursor' \in Nat /\ probed' \in Nat /\ cursor' <= n
    BY <2>1 DEF PoolInv, TargetsTyped, HealthInv
  <2> QED
    BY <2>1, <2>2, QuietStep
<1>2. ASSUME NEW r \in Requests, UP!Choose(r) PROVE PoolInv'
  BY <1>2, EnterStep, ScanStep, DirectStep, DiscountStep DEF UP!Choose
<1> QED
  BY <1>1, <1>2, AddStep, RoundBegins, ProbeStep DEF UP!Next, Requests

(* The invariant holds in every behaviour of the pool.                     *)
THEOREM PoolInvariant == Spec => [](part = "pool" => PoolInv)
<1>1. Init => (part = "pool" => PoolInv)
  <2> SUFFICES ASSUME UP!Init PROVE PoolInv
    BY DEF Init
  <2> USE DEF UP!Init
  <2>1. TargetsTyped
    BY PoolAssumption DEF TargetsTyped, UP!PoolConstants, UP!MaxFailures
  <2>2. ScansTyped
    BY DEF ScansTyped, Requests, Stages
  <2>3. HealthInv
    BY DEF HealthInv, UP!MaxFailures
  <2>4. \A r \in Requests : RequestInv(r)
    BY DEF RequestInv, Requests
  <2>5. Entered = {} /\ \A t : Proxied(t) = {}
    BY DEF Entered, Proxied, Requests
  <2>6. index <= Cardinality(Entered) /\ \A t \in UP!T : activeConns[t] = Cardinality(Proxied(t))
    BY <2>5, FS_EmptySet
  <2>7. UP!ChoiceJustified
    BY DEF UP!ChoiceJustified
  <2>8. SteadyInv /\ RoundInv
    BY DEF SteadyInv, RoundInv, UP!Targets, Requests
  <2>9. LeastInv
    <3>1. Cardinality(Requests) \in Nat
      BY RequestsFinite
    <3> QED
      BY <3>1 DEF LeastInv, LeastTyped, LeastMet, UP!LeastChosen, Requests
  <2> QED
    BY <2>1, <2>2, <2>3, <2>4, <2>6, <2>7, <2>8, <2>9 DEF PoolInv
<1>2. (part = "pool" => PoolInv) /\ [Next]_vars => (part = "pool" => PoolInv)'
  <2>1. [Next]_vars => part' = part /\ (part = "pool" => [UP!Next]_(UP!vars))
    BY DEF Next, vars, poolVars, UP!vars, UP!pool, UP!req, UP!check, UP!hist
  <2> QED
    BY <2>1, PoolStep
<1> QED
  BY <1>1, <1>2, PTL DEF Spec

(* A steady pool: a target has as many choices as scans that started there *)
(* and are over, so that the turns of round robin bound the difference.    *)
LEMMA RoundsAreEven ==
    ASSUME PoolInv
    PROVE  UP!RoundRobinEven
<1> SUFFICES ASSUME settled, lbType = "round_robin", NEW s \in UP!Targets, NEW t \in UP!Targets
             PROVE  Cardinality({r \in Requests : best[r] = s}) <=
                       Cardinality({r \in Requests : best[r] = t}) + 1 + Cardinality(Scanning)
  BY SameCardinality DEF UP!RoundRobinEven, UP!Chosen, Scanning, Requests
<1> DEFINE on(u) == {r \in Requests : best[r] = u}
<1>1. n > 0 /\ n \in Nat /\ UP!None \notin UP!Targets
  BY DEF PoolInv, TargetsTyped, UP!Targets, UP!None
<1>2. ASSUME NEW r \in Requests
      PROVE  /\ choicePc[r] \in {"new", "scan"} => best[r] = UP!None
             /\ choicePc[r] \notin {"new", "scan"} => best[r] = pos[r]
  BY <1>1 DEF PoolInv, RequestInv, SteadyInv, Straight
<1>3. \A u \in UP!Targets : on(u) \subseteq StartedAt(u) /\ StartedAt(u) \subseteq on(u) \cup Scanning
  BY <1>1, <1>2 DEF StartedAt, Scanning
<1>4. \A u : on(u) \subseteq Requests /\ StartedAt(u) \subseteq Requests /\ Scanning \subseteq Requests
  BY DEF StartedAt, Scanning
<1>5. PICK q \in Nat : Round(q)
  BY <1>1 DEF PoolInv, RoundInv
<1>6. Cardinality(on(s)) <= Cardinality(StartedAt(s))
  BY <1>3, <1>4, NoMore
<1>7. Cardinality(StartedAt(s)) <= q + 1 /\ q <= Cardinality(StartedAt(t))
  BY <1>5 DEF Round
<1>8. Cardinality(StartedAt(t)) <= Cardinality(on(t)) + Cardinality(Scanning)
  <2>1. /\ IsFiniteSet(on(t)) /\ IsFiniteSet(Scanning)
        /\ on(t) \cup Scanning \subseteq Requests /\ on(t) \cap Scanning \subseteq Requests
    BY <1>4, RequestsFinite
  <2>2. Cardinality(on(t) \cup Scanning) =
          Cardinality(on(t)) + Cardinality(Scanning) - Cardinality(on(t) \cap Scanning)
    BY <2>1, FS_Union
  <2>3. Cardinality(StartedAt(t)) <= Cardinality(on(t) \cup Scanning)
    BY <1>3, <2>1, NoMore
  <2>4. /\ Cardinality(on(t)) \in Nat /\ Cardinality(Scanning) \in Nat
        /\ Cardinality(on(t) \cap Scanning) \in Nat /\ Cardinality(StartedAt(t)) \in Nat
        /\ Cardinality(on(t) \cup Scanning) \in Nat
    BY <1>4, <2>1, RequestsFinite
  <2> QED
    BY <2>2, <2>3, <2>4
<1>9. /\ Cardinality(on(s)) \in Nat /\ Cardinality(on(t)) \in Nat /\ Cardinality(Scanning) \in Nat
      /\ Cardinality(StartedAt(s)) \in Nat /\ Cardinality(StartedAt(t)) \in Nat
  BY <1>4, RequestsFinite
<1> HIDE DEF on
<1>10. Cardinality(on(s)) <= Cardinality(on(t)) + 1 + Cardinality(Scanning)
  BY <1>6, <1>7, <1>8, <1>9
<1> QED
  BY <1>10 DEF on

(* The invariant implies what is promised of the pool.                     *)
LEMMA PoolFollows ==
    ASSUME PoolInv
    PROVE  UP!PoolSound /\ UP!TypeOK
<1> USE DEF PoolInv
<1>1. UP!ConnsAccounted
  BY SameCardinality DEF UP!ConnsAccounted, Proxied, Requests
<1>2. UP!OutJustified
  <2>1. UP!Targets \subseteq UP!T
    BY PoolAssumption DEF UP!Targets, UP!T, TargetsTyped, UP!PoolConstants
  <2> QED
    BY <2>1 DEF UP!OutJustified, HealthInv
<1>3. UP!ClientSticks
  <2> SUFFICES ASSUME settled, lbType = "ip_hash", NEW r \in Requests, NEW q \in Requests,
                      PoolSetup.client[r] = PoolSetup.client[q],
                      best[r] # UP!None, best[q] # UP!None
               PROVE  best[r] = best[q]
    BY DEF UP!ClientSticks, Requests
  <2>1. n > 0
    BY DEF SteadyInv, TargetsTyped
  <2>2. ASSUME NEW k \in Requests, best[k] # UP!None
        PROVE  best[k] = PoolSetup.hash[PoolSetup.client[k]] % n
    BY <2>1, <2>2 DEF SteadyInv, Straight, RequestInv
  <2> QED
    BY <2>2
<1>4. UP!TypeOK
  <2>1. Cardinality(Requests) \in Nat /\ Entered \subseteq Requests /\ \A t : Proxied(t) \subseteq Requests
    BY RequestsFinite DEF Entered, Proxied
  <2>2. index \in 0 .. Cardinality(Requests)
    BY <2>1, RequestsFinite DEF TargetsTyped
  <2>3. ASSUME NEW t \in UP!T PROVE activeConns[t] \in 0 .. Cardinality(Requests)
    BY <2>1, RequestsFinite
  <2>4. activeConns \in [UP!T -> 0 .. Cardinality(Requests)]
    BY <2>3 DEF TargetsTyped
  <2>5. best \in [Requests -> {UP!None} \cup UP!Targets] /\ seen \in [Requests -> 0 .. n]
    BY DEF ScansTyped, RequestInv, TargetsTyped
  <2> QED
    BY <2>2, <2>4, <2>5, SameCardinality DEF UP!TypeOK, TargetsTyped, LeastInv, LeastTyped, Requests
<1> QED
  BY <1>1, <1>2, <1>3, <1>4, RoundsAreEven DEF UP!PoolSound, LeastInv

(* Pool: whatever requests, probes and additions come between the steps of *)
(* a scan, a target's counter is the number of requests under way, it is   *)
(* out exactly after three failed probes, a choice is justified by what    *)
(* the scan met, least connections finds none better by its count, rounds  *)
(* are even and clients keep their target.                                 *)
THEOREM PoolSoundHolds == Spec => []PoolSound
<1>1. PoolInv => UP!PoolSound
  BY PoolFollows
<1> QED
  BY PoolInvariant, <1>1, PTL DEF PoolSound

-----------------------------------------------------------------------------
(* Sequences: t is s with e put in at place k, and t is s without what was *)
(* at place k; InsertAt and RemoveAt of the community modules do that.     *)
Longer(t, s, k, e) ==
    /\ Len(t) = Len(s) + 1
    /\ t[k] = e
    /\ \A i \in 1 .. k - 1 : t[i] = s[i]
    /\ \A i \in k + 1 .. Len(s) + 1 : t[i] = s[i - 1]

Shorter(t, s, k) ==
    /\ Len(t) = Len(s) - 1
    /\ \A i \in 1 .. k - 1 : t[i] = s[i]
    /\ \A i \in k .. Len(s) - 1 : t[i] = s[i + 1]

(* Concatenation, place by place.                                          *)
LEMMA Joined ==
    ASSUME NEW S, NEW p \in Seq(S), NEW q \in Seq(S)
    PROVE  /\ p \o q \in Seq(S)
           /\ Len(p) \in Nat /\ Len(q) \in Nat
           /\ Len(p \o q) = Len(p) + Len(q)
           /\ \A i \in 1 .. Len(p) : (p \o q)[i] = p[i]
           /\ \A i \in 1 .. Len(q) : (p \o q)[Len(p) + i] = q[i]
<1>1. Len(p) \in Nat /\ Len(q) \in Nat
  OBVIOUS
<1>2. p \o q \in Seq(S) /\ Len(p \o q) = Len(p) + Len(q)
  OBVIOUS
<1>3. \A i \in 1 .. Len(p) : (p \o q)[i] = p[i]
  BY <1>1
<1>4. \A i \in 1 .. Len(q) : (p \o q)[Len(p) + i] = q[i]
  BY <1>1
<1> QED
  BY <1>1, <1>2, <1>3, <1>4

(* What Chain.Add does to the slice of plugins.                            *)
LEMMA Inserted ==
    ASSUME NEW S, NEW s \in Seq(S), NEW k \in 1 .. Len(s) + 1, NEW e \in S
    PROVE  /\ CH!InsertAt(s, k, e) \in Seq(S)
           /\ Longer(CH!InsertAt(s, k, e), s, k, e)
<1> DEFINE a == SubSeq(s, 1, k - 1)
           b == SubSeq(s, k, Len(s))
           c == a \o <<e>>
<1>0. Len(s) \in Nat /\ k \in Nat /\ 1 <= k /\ k <= Len(s) + 1
  OBVIOUS
<1>1. /\ a \in Seq(S) /\ Len(a) = k - 1
      /\ \A i \in 1 .. k - 1 : a[i] = s[i]
  OBVIOUS
<1>2. /\ b \in Seq(S) /\ Len(b) = Len(s) - k + 1
      /\ \A i \in 1 .. Len(s) - k + 1 : b[i] = s[k + i - 1]
  OBVIOUS
<1>3. CH!InsertAt(s, k, e) = c \o b
  BY DEF CH!InsertAt
<1> HIDE DEF a, b
<1>4. /\ c \in Seq(S) /\ Len(c) = k /\ c[k] = e
      /\ \A i \in 1 .. k - 1 : c[i] = s[i]
  BY <1>0, <1>1
<1> HIDE DEF c
<1>5. c \o b \in Seq(S) /\ Len(c \o b) = Len(s) + 1
  BY <1>0, <1>2, <1>4, Joined
<1>6. (c \o b)[k] = e /\ \A i \in 1 .. k - 1 : (c \o b)[i] = s[i]
  BY <1>0, <1>2, <1>4, Joined
<1>7. ASSUME NEW i \in k + 1 .. Len(s) + 1
      PROVE  (c \o b)[i] = s[i - 1]
  <2>1. PICK j \in Nat : i = k + j /\ 1 <= j /\ j <= Len(s) - k + 1
    <3>1. i - k \in Nat
      BY <1>0
    <3> QED
      BY <1>0, <3>1
  <2>2. (c \o b)[k + j] = b[j]
    BY <2>1, <1>0, <1>2, <1>4, Joined
  <2>3. b[j] = s[k + j - 1]
    BY <2>1, <1>0, <1>2
  <2> QED
    BY <2>1, <2>2, <2>3, <1>0
<1> QED
  BY <1>3, <1>5, <1>6, <1>7 DEF Longer

(* What deleting a rule or a policy does to the order they are kept in.    *)
LEMMA Removed ==
    ASSUME NEW S, NEW s \in Seq(S), NEW k \in 1 .. Len(s)
    PROVE  /\ CH!RemoveAt(s, k) \in Seq(S)
           /\ Shorter(CH!RemoveAt(s, k), s, k)
           /\ PS!RemoveAt(s, k) = CH!RemoveAt(s, k)
<1> DEFINE a == SubSeq(s, 1, k - 1)
           b == SubSeq(s, k + 1, Len(s))
<1>1. /\ a \in Seq(S) /\ Len(a) = k - 1
      /\ \A i \in 1 .. k - 1 : a[i] = s[i]
  OBVIOUS
<1>2. /\ b \in Seq(S) /\ Len(b) = Len(s) - k
      /\ \A i \in 1 .. Len(s) - k : b[i] = s[k + i]
  OBVIOUS
<1> HIDE DEF a, b
<1>3. CH!RemoveAt(s, k) = a \o b /\ PS!RemoveAt(s, k) = a \o b
  BY DEF CH!RemoveAt, PS!RemoveAt, a, b
<1>6. Len(s) \in Nat /\ k \in Nat /\ 1 <= k /\ k <= Len(s)
  OBVIOUS
<1>4. /\ a \o b \in Seq(S) /\ Len(a \o b) = Len(s) - 1
      /\ \A i \in 1 .. k - 1 : (a \o b)[i] = s[i]
  <2>1. /\ a \o b \in Seq(S) /\ Len(a \o b) = Len(a) + Len(b)
        /\ \A i \in 1 .. Len(a) : (a \o b)[i] = a[i]
    BY <1>1, <1>2, Joined, Zenon
  <2> QED
    BY <1>1, <1>2, <1>6, <2>1
<1>5. ASSUME NEW i \in k .. Len(s) - 1 PROVE (a \o b)[i] = s[i + 1]
  <2>1. Len(s) \in Nat /\ i \in Nat /\ k \in Nat
    OBVIOUS
  <2>2. PICK j \in 1 .. Len(s) - k : i = k - 1 + j
    <3>1. i - (k - 1) \in 1 .. Len(s) - k
      BY <2>1
    <3> QED
      BY <2>1, <3>1
  <2>3. (a \o b)[k - 1 + j] = b[j]
    BY <1>1, <1>2, Joined
  <2>4. b[j] = s[k + j]
    BY <1>2
  <2> QED
    BY <2>1, <2>2, <2>3, <2>4
<1> QED
  BY <1>3, <1>4, <1>5 DEF Shorter

(* Of the numbers with a property there is a least.                        *)
LEMMA Least ==
    ASSUME NEW S, S \subseteq Nat, S # {}
    PROVE  \E i \in S : \A j \in S : i <= j
<1> DEFINE R == OpToRel(<, Nat)
<1>1. \A i, j \in Nat : i < j => <<i, j>> \in R
  BY Zenon DEF OpToRel
<1>2. \E i \in S : \A j \in S : ~ (<<j, i>> \in R)
  <2> HIDE DEF R
  <2>1. IsWellFoundedOn(R, Nat)
    BY Zenon, NatLessThanWellFounded DEF R
  <2> QED
    BY <2>1, WFMin, Zenon
<1>3. PICK i \in S : \A j \in S : ~ (<<j, i>> \in R)
  BY <1>2
<1> HIDE DEF R
<1>4. \A j \in S : ~ (j < i)
  BY <1>1, <1>3
<1>5. \A j \in S : i <= j
  BY <1>4
<1> QED
  BY <1>5

-----------------------------------------------------------------------------
(* The PolicyStore: the order has the policies that are there, in the      *)
(* order of their additions.                                               *)
StoreInv ==
    /\ policies \subseteq PolicySetup.policies
    /\ adds \in Nat /\ adds <= PolicySetup.maxAdds
    /\ order \in Seq(PolicySetup.policies) /\ Len(order) <= adds
    /\ \A i \in 1 .. Len(order) : order[i] \in policies
    /\ \A p \in policies : \E i \in 1 .. Len(order) : order[i] = p
    /\ listedAt \in [PolicySetup.policies -> Nat]
    /\ \A p \in policies : listedAt[p] <= adds
    /\ \A i, j \in 1 .. Len(order) : i < j => listedAt[order[i]] < listedAt[order[j]]

(* AddPolicy: the new policy is the last in the order, and the latest.     *)
LEMMA StoreAdds ==
    ASSUME StoreInv, NEW p \in PolicySetup.policies, PS!AddPolicy(p)
    PROVE  StoreInv'
<1> USE DEF StoreInv
<1>1. /\ p \notin policies /\ adds < PolicySetup.maxAdds /\ adds' = adds + 1
      /\ policies' = policies \cup {p} /\ order' = Append(order, p)
      /\ listedAt' = [listedAt EXCEPT ![p] = adds + 1]
  BY DEF PS!AddPolicy
<1>2. PolicySetup.maxAdds \in Nat
  BY PolicyAssumption DEF PS!PolicyStoreConstants
<1>3. p \in policies' /\ Len(order) \in Nat /\ order \in Seq(PolicySetup.policies)
  BY <1>1
<1>4. /\ order' \in Seq(PolicySetup.policies) /\ Len(order') = Len(order) + 1
      /\ order'[Len(order) + 1] = p
      /\ \A i \in 1 .. Len(order) : order'[i] = order[i] /\ order[i] \in policies
  BY <1>1, <1>3
<1>9. \A i \in 1 .. Len(order') : i \in 1 .. Len(order) \/ i = Len(order) + 1
  BY <1>3, <1>4
<1>10. \A i \in 1 .. Len(order') : order'[i] \in policies'
  BY <1>1, <1>4, <1>9
<1>5. \A q \in policies' : \E i \in 1 .. Len(order') : order'[i] = q
  BY <1>1, <1>3, <1>4
<1>6. /\ listedAt' \in [PolicySetup.policies -> Nat] /\ listedAt'[p] = adds + 1
      /\ \A q \in policies : q # p /\ listedAt'[q] = listedAt[q] /\ listedAt[q] \in Nat
  BY <1>1
<1>7. ASSUME NEW i \in 1 .. Len(order'), NEW j \in 1 .. Len(order'), i < j
      PROVE  listedAt'[order'[i]] < listedAt'[order'[j]]
  <2>1. i \in 1 .. Len(order) /\ (j \in 1 .. Len(order) \/ j = Len(order) + 1)
    BY <1>3, <1>4, <1>7, <1>9
  <2>2. order[i] \in policies /\ listedAt'[order'[i]] = listedAt[order[i]]
    BY <2>1, <1>4, <1>6
  <2>3. CASE j \in 1 .. Len(order)
    BY <2>1, <2>2, <2>3, <1>4, <1>6, <1>7
  <2>4. CASE j = Len(order) + 1
    <3>1. order'[j] = p /\ listedAt[order[i]] <= adds /\ listedAt[order[i]] \in Nat
      BY <2>2, <2>4, <1>4, <1>6
    <3>2. listedAt'[order'[j]] = adds + 1 /\ adds \in Nat
      BY <3>1, <1>6
    <3> HIDE DEF StoreInv
    <3> QED
      BY <2>2, <3>1, <3>2
  <2> QED
    BY <2>1, <2>3, <2>4
<1>8. \A q \in policies' : listedAt'[q] <= adds'
  BY <1>1, <1>6
<1>11. policies' \subseteq PolicySetup.policies /\ adds' \in Nat /\ adds' <= PolicySetup.maxAdds
  BY <1>1, <1>2
<1>12. Len(order') <= adds'
  BY <1>1, <1>3, <1>4
<1> HIDE DEF StoreInv
<1> QED
  BY <1>4, <1>5, <1>6, <1>7, <1>8, <1>10, <1>11, <1>12 DEF StoreInv

(* One entry and no other has the policy that is removed.                  *)
LEMMA StoreRemoves ==
    ASSUME StoreInv, NEW p \in PolicySetup.policies, PS!RemovePolicy(p)
    PROVE  StoreInv'
<1>1. /\ order \in Seq(PolicySetup.policies) /\ Len(order) \in Nat
      /\ DOMAIN order = 1 .. Len(order)
      /\ \A i \in 1 .. Len(order) : order[i] \in policies /\ listedAt[order[i]] \in Nat
      /\ \A i, j \in 1 .. Len(order) : i < j => listedAt[order[i]] < listedAt[order[j]]
      /\ \A q \in policies : \E i \in 1 .. Len(order) : order[i] = q
  <2>1. /\ order \in Seq(PolicySetup.policies)
        /\ listedAt \in [PolicySetup.policies -> Nat] /\ policies \subseteq PolicySetup.policies
        /\ \A i \in 1 .. Len(order) : order[i] \in policies
    BY DEF StoreInv
  <2>2. Len(order) \in Nat /\ DOMAIN order = 1 .. Len(order)
    BY <2>1
  <2>3. \A i \in 1 .. Len(order) : order[i] \in policies /\ listedAt[order[i]] \in Nat
    BY <2>1
  <2>4. /\ \A i, j \in 1 .. Len(order) : i < j => listedAt[order[i]] < listedAt[order[j]]
        /\ \A q \in policies : \E i \in 1 .. Len(order) : order[i] = q
    BY DEF StoreInv
  <2> QED
    BY <2>1, <2>2, <2>3, <2>4
<1>2. p \in policies /\ policies' = policies \ {p} /\ adds' = adds /\ listedAt' = listedAt
  BY DEF PS!RemovePolicy
<1>3. \A i, j \in 1 .. Len(order) : i # j => order[i] # order[j]
  <2> SUFFICES ASSUME NEW i \in 1 .. Len(order), NEW j \in 1 .. Len(order), i < j
               PROVE  order[i] # order[j]
    BY <1>1
  <2>1. listedAt[order[i]] < listedAt[order[j]] /\ listedAt[order[i]] \in Nat
    BY <1>1
  <2> QED
    BY <2>1
<1>4. PICK k \in 1 .. Len(order) : order[k] = p
  BY <1>1, <1>2
<1>5. (CHOOSE i \in DOMAIN order : order[i] = p /\ \A j \in 1 .. i - 1 : order[j] # p) = k
  <2>1. k \in DOMAIN order /\ order[k] = p /\ \A j \in 1 .. k - 1 : order[j] # p
    BY <1>1, <1>3, <1>4
  <2>2. \A i \in DOMAIN order : order[i] = p => i = k
    BY <1>1, <1>3, <1>4
  <2> QED
    BY <2>1, <2>2
<1>6. order' = PS!RemoveAt(order, k)
  BY <1>5 DEF PS!RemovePolicy
<1>7. PS!RemoveAt(order, k) \in Seq(PolicySetup.policies) /\ Shorter(PS!RemoveAt(order, k), order, k)
  <2>1. order \in Seq(PolicySetup.policies)
    BY <1>1
  <2> QED
    BY <2>1, Removed, Zenon
<1>8. /\ order' \in Seq(PolicySetup.policies)
      /\ Len(order') = Len(order) - 1
      /\ \A i \in 1 .. k - 1 : order'[i] = order[i]
      /\ \A i \in k .. Len(order) - 1 : order'[i] = order[i + 1]
  BY <1>6, <1>7 DEF Shorter
<1>9. ASSUME NEW i \in 1 .. Len(order')
      PROVE  \E a \in 1 .. Len(order) :
                order'[i] = order[a] /\ ((a = i /\ i < k) \/ (a = i + 1 /\ i >= k))
  <2>1. CASE i < k
    BY <2>1, <1>1, <1>8
  <2>2. CASE i >= k
    <3>1. i \in k .. Len(order) - 1 /\ i + 1 \in 1 .. Len(order)
      BY <2>2, <1>1, <1>8
    <3> QED
      BY <2>2, <3>1, <1>8
  <2> QED
    BY <2>1, <2>2, <1>1, <1>8
<1>10. ASSUME NEW i \in 1 .. Len(order') PROVE order'[i] \in policies'
  <2>1. PICK a \in 1 .. Len(order) : order'[i] = order[a] /\ a # k
    BY <1>1, <1>9
  <2> QED
    BY <2>1, <1>1, <1>2, <1>3, <1>4
<1>11. ASSUME NEW q \in policies' PROVE \E i \in 1 .. Len(order') : order'[i] = q
  <2>1. PICK i \in 1 .. Len(order) : order[i] = q /\ i # k
    BY <1>1, <1>2, <1>4
  <2>2. CASE i < k
    <3>1. i \in 1 .. k - 1 /\ i \in 1 .. Len(order')
      BY <2>2, <1>1, <1>8
    <3> QED
      BY <2>1, <3>1, <1>8
  <2>3. CASE i > k
    <3>1. i - 1 \in k .. Len(order) - 1 /\ i - 1 \in 1 .. Len(order') /\ (i - 1) + 1 = i
      BY <2>3, <1>1, <1>8
    <3> QED
      BY <2>1, <3>1, <1>8
  <2> QED
    BY <2>1, <2>2, <2>3, <1>1
<1>12. ASSUME NEW i \in 1 .. Len(order'), NEW j \in 1 .. Len(order'), i < j
       PROVE  listedAt'[order'[i]] < listedAt'[order'[j]]
  <2>1. PICK a \in 1 .. Len(order) :
           order'[i] = order[a] /\ ((a = i /\ i < k) \/ (a = i + 1 /\ i >= k))
    BY <1>9
  <2>2. PICK b \in 1 .. Len(order) :
           order'[j] = order[b] /\ ((b = j /\ j < k) \/ (b = j + 1 /\ j >= k))
    BY <1>9
  <2>3. a < b
    BY <2>1, <2>2, <1>1, <1>8, <1>12
  <2> QED
    BY <2>1, <2>2, <2>3, <1>1, <1>2
<1> QED
  BY <1>1, <1>2, <1>8, <1>10, <1>11, <1>12 DEF StoreInv

(* What List returns follows: each entry is of a policy that is there.     *)
THEOREM StoreInvariant == Spec => [](part = "policies" => StoreInv)
<1>1. Init => (part = "policies" => StoreInv)
  <2> SUFFICES ASSUME PS!Init PROVE StoreInv
    BY DEF Init
  <2>1. PolicySetup.maxAdds \in Nat
    BY PolicyAssumption DEF PS!PolicyStoreConstants
  <2> QED
    BY <2>1 DEF PS!Init, StoreInv
<1>2. StoreInv /\ [PS!Next]_(PS!vars) => StoreInv'
  <2>1. StoreInv /\ UNCHANGED PS!vars => StoreInv'
    BY DEF PS!vars, StoreInv
  <2> QED
    BY <2>1, StoreAdds, StoreRemoves DEF PS!Next
<1>3. [Next]_vars => part' = part /\ (part = "policies" => [PS!Next]_(PS!vars))
  BY DEF Next, vars, storeVars, PS!vars
<1>4. (part = "policies" => StoreInv) /\ [Next]_vars => (part = "policies" => StoreInv)'
  BY <1>2, <1>3
<1> QED
  BY <1>1, <1>4, PTL DEF Spec

(* The order is that of the additions, so List is the policies, each once. *)
LEMMA StoreFollows ==
    ASSUME StoreInv
    PROVE  PS!StoreConsistent /\ PS!TypeOK
<1>1. DOMAIN order = 1 .. Len(order) /\ Len(order) \in Nat /\ \A i \in 1 .. Len(order) : order[i] \in policies
  BY DEF StoreInv
<1>2. PS!List = 1 .. Len(order)
  BY <1>1 DEF PS!List
<1>3. {order[i] : i \in PS!List} = policies
  BY <1>1, <1>2 DEF StoreInv
<1> QED
  <2>1. PS!StoreConsistent
    BY <1>1, <1>2, <1>3 DEF StoreInv, PS!StoreConsistent
  <2>2. PS!TypeOK
    BY <1>1 DEF StoreInv, PS!TypeOK
  <2> QED
    BY <2>1, <2>2

-----------------------------------------------------------------------------
(* The chain of plugins and the rules of the two engines: what a plugin is, *)
(* what the list of an engine has, and what an evaluation knows of a rule. *)
Plugins == {"validation", "geo", "bot", "rate"}
Entry == [id: Nat, serial: Nat, rule: ChainSetup.templates]
Known == [id: Nat, serial: Nat, rule: ChainSetup.templates, engine: CH!Engines]

(* The plugins are there in the order of their priorities, before anything *)
(* is asked of them.                                                       *)
ChainInv ==
    /\ waiting \subseteq Plugins
    /\ chain \in Seq(Plugins)
    /\ \A i, j \in 1 .. Len(chain) : i < j => CH!Priority[chain[i]] <= CH!Priority[chain[j]]
    /\ waiting # {} => \A r \in ChainSetup.reqs : pc[r] = "new"

(* The rules of an engine are in the order in which they were added.       *)
RulesInv ==
    /\ added \in Nat /\ clock \in Nat
    /\ lists \in [CH!Engines -> Seq(Entry)]
    /\ \A e \in CH!Engines : \A i \in 1 .. Len(lists[e]) :
          1 <= lists[e][i].serial /\ lists[e][i].serial <= added
    /\ \A e \in CH!Engines : \A i, j \in 1 .. Len(lists[e]) :
          i < j => lists[e][i].serial < lists[e][j].serial

(* How far an evaluation is, who answered, and where its engines stopped.  *)
EvalsTyped ==
    /\ pc \in [ChainSetup.reqs -> {"new", "rules", "policy", "done"}]
    /\ status \in [ChainSetup.reqs -> {0, 204, 403, 415, 429}]
    /\ by \in [ChainSetup.reqs -> Plugins \cup CH!Engines \cup {"nobody"}]
    /\ writes \in [ChainSetup.reqs -> {0, 1}]
    /\ steady \in [ChainSetup.reqs -> SUBSET Known]
    /\ passed \in [ChainSetup.reqs -> [CH!Engines -> Nat]]

(* Every answer that the plugin may give to the request is a refusal.      *)
Refuses(p, r) == 0 \notin CH!Answers(p, ChainSetup.request[r])

(* What the chain let pass no plugin refuses, and what it did not the      *)
(* first that refuses answered.                                            *)
AskedInv(r) ==
    /\ pc[r] # "done" => by[r] = "nobody" /\ writes[r] = 0
    /\ pc[r] # "new" /\ by[r] \notin Plugins => \A i \in 1 .. Len(chain) : ~ Refuses(chain[i], r)
    /\ by[r] \in Plugins => \E i \in 1 .. Len(chain) :
          by[r] = chain[i] /\ \A j \in 1 .. i - 1 : ~ Refuses(chain[j], r)

(* An engine that has let a request pass did so by a rule before every     *)
(* blocking one that matches and has been there all the time.              *)
Through(r, e) ==
    \/ pc[r] = "done" /\ status[r] = 204
    \/ pc[r] = "policy" /\ e = "rules"

Blocks(s, r) == s.rule.action = "block" /\ CH!MatchesIn(s.engine, s.rule, ChainSetup.request[r])

SteadyRules(r) ==
    /\ steady[r] \subseteq CH!RuleSet(lists)
    /\ \A s \in steady[r] : Blocks(s, r) /\ Through(r, s.engine) =>
          1 <= passed[r][s.engine] /\ passed[r][s.engine] < s.serial

InspectionInv ==
    /\ ChainInv /\ RulesInv /\ EvalsTyped
    /\ \A r \in ChainSetup.reqs : AskedInv(r)
    /\ \A r \in ChainSetup.reqs : SteadyRules(r)

(* Every plugin has a priority.                                            *)
LEMMA Priorities ==
    /\ DOMAIN CH!Priority = Plugins
    /\ \A p \in Plugins : CH!Priority[p] \in Nat
BY DEF CH!Priority, Plugins

(* Chain.Add puts a plugin behind all whose priority is not greater.       *)
LEMMA ChainGrows ==
    ASSUME NEW c \in Seq(Plugins), NEW p \in Plugins,
           \A i, j \in 1 .. Len(c) : i < j => CH!Priority[c[i]] <= CH!Priority[c[j]]
    PROVE  /\ CH!ChainAdd(c, p) \in Seq(Plugins)
           /\ \A i, j \in 1 .. Len(CH!ChainAdd(c, p)) :
                 i < j => CH!Priority[CH!ChainAdd(c, p)[i]] <= CH!Priority[CH!ChainAdd(c, p)[j]]
<1> DEFINE rank(i) == CH!Priority[c[i]]
           low == {i \in DOMAIN c : CH!Priority[c[i]] <= CH!Priority[p]}
           k == CH!Cardinality(low)
           d == CH!InsertAt(c, k + 1, p)
<1>1. /\ Len(c) \in Nat /\ DOMAIN c = 1 .. Len(c)
      /\ \A i \in 1 .. Len(c) : rank(i) \in Nat
      /\ CH!Priority[p] \in Nat
  BY Priorities
<1>2. k \in 0 .. Len(c) /\ low = 1 .. k
  <2>1. \E m \in 0 .. Len(c) : low = 1 .. m
    <3>1. CASE low = 1 .. Len(c)
      BY <3>1, <1>1
    <3>2. CASE low # 1 .. Len(c)
      <4> DEFINE high == {i \in 1 .. Len(c) : i \notin low}
      <4>1. high \subseteq Nat /\ high # {}
        BY <3>2, <1>1
      <4>2. PICK h \in high : \A j \in high : h <= j
        BY <4>1, Least
      <4>3. \A i \in 1 .. Len(c) : i < h => i \in low
        BY <4>2, <1>1
      <4>4. \A i \in 1 .. Len(c) : i > h => i \notin low
        BY <4>2, <1>1
      <4>5. low = 1 .. h - 1
        BY <4>2, <4>3, <4>4, <1>1
      <4> QED
        BY <4>2, <4>5, <1>1
    <3> QED
      BY <3>1, <3>2
  <2>2. PICK m \in 0 .. Len(c) : low = 1 .. m
    BY <2>1
  <2>3. CH!Cardinality(low) = Cardinality(low)
    BY DEF CH!Cardinality, Cardinality, CH!IsFiniteSet, IsFiniteSet
  <2>4. Cardinality(1 .. m) = m
    BY <2>2, <1>1, FS_Interval
  <2> QED
    BY <2>2, <2>3, <2>4
<1>3. CH!ChainAdd(c, p) = d
  BY DEF CH!ChainAdd
<1> HIDE DEF k, low
<1>4. k \in Nat /\ k + 1 \in 1 .. Len(c) + 1
  BY <1>1, <1>2
<1>5. /\ d \in Seq(Plugins) /\ Len(d) = Len(c) + 1 /\ d[k + 1] = p
      /\ \A i \in 1 .. (k + 1) - 1 : d[i] = c[i]
      /\ \A i \in (k + 1) + 1 .. Len(c) + 1 : d[i] = c[i - 1]
  <2>1. k + 1 \in 1 .. Len(c) + 1
    BY <1>4
  <2>2. d \in Seq(Plugins) /\ Longer(d, c, k + 1, p)
    BY <2>1, Inserted, Zenon
  <2> QED
    BY <2>2 DEF Longer
<1> HIDE DEF d
<1>6. \A i \in 1 .. k : rank(i) <= CH!Priority[p]
  BY <1>2 DEF low
<1>7. \A i \in 1 .. Len(c) : i > k => rank(i) > CH!Priority[p]
  BY <1>1, <1>2 DEF low
<1>8. ASSUME NEW i \in 1 .. Len(d)
      PROVE  \/ i <= k /\ i \in 1 .. Len(c) /\ d[i] = c[i]
             \/ i = k + 1 /\ d[i] = p
             \/ i > k + 1 /\ i - 1 \in 1 .. Len(c) /\ d[i] = c[i - 1]
  BY <1>1, <1>4, <1>5
<1>9. ASSUME NEW i \in 1 .. Len(d), NEW j \in 1 .. Len(d), i < j
      PROVE  CH!Priority[d[i]] <= CH!Priority[d[j]]
  <2>1. CASE i <= k /\ j <= k
    BY <2>1, <1>1, <1>4, <1>8, <1>9
  <2>2. CASE i <= k /\ j = k + 1
    BY <2>2, <1>1, <1>4, <1>6, <1>8
  <2>3. CASE i <= k /\ j > k + 1
    <3>1. i \in 1 .. Len(c) /\ j - 1 \in 1 .. Len(c) /\ i < j - 1 /\ d[i] = c[i] /\ d[j] = c[j - 1]
      BY <2>3, <1>1, <1>4, <1>8
    <3> QED
      BY <3>1
  <2>4. CASE i = k + 1 /\ j > k + 1
    BY <2>4, <1>1, <1>4, <1>7, <1>8
  <2>5. CASE i > k + 1
    BY <2>5, <1>1, <1>4, <1>8, <1>9
  <2> QED
    BY <2>1, <2>2, <2>3, <2>4, <2>5, <1>4, <1>9
<1> QED
  BY <1>3, <1>5, <1>9

(* The chain and the list of an engine, element by element.                *)
LEMMA ChainTyped ==
    ASSUME ChainInv
    PROVE  /\ Len(chain) \in Nat /\ DOMAIN chain = 1 .. Len(chain)
           /\ \A i \in 1 .. Len(chain) : chain[i] \in Plugins /\ CH!Priority[chain[i]] \in Nat
<1>1. chain \in Seq(Plugins)
  BY DEF ChainInv
<1> QED
  BY <1>1, Priorities

(* The rules of an engine, one by one.                                     *)
LEMMA ListTyped ==
    ASSUME RulesInv, NEW e \in CH!Engines
    PROVE  /\ lists[e] \in Seq(Entry)
           /\ Len(lists[e]) \in Nat /\ DOMAIN lists[e] = 1 .. Len(lists[e])
           /\ \A i \in 1 .. Len(lists[e]) : lists[e][i] \in Entry /\ lists[e][i].serial \in Nat
<1>1. lists[e] \in Seq(Entry)
  BY DEF RulesInv
<1>2. \A i \in 1 .. Len(lists[e]) : lists[e][i] \in Entry
  BY <1>1
<1> QED
  BY <1>1, <1>2 DEF Entry

(* Evaluate: a rule that matches is passed by only for an earlier one.     *)
LEMMA FirstMatch ==
    ASSUME RulesInv, NEW e \in CH!Engines, NEW q, NEW i \in 1 .. Len(lists[e]),
           CH!MatchesIn(e, lists[e][i].rule, q)
    PROVE  \E k \in 1 .. Len(lists[e]) :
              /\ k <= i
              /\ CH!Evaluate(e, q).action = lists[e][k].rule.action
              /\ CH!Evaluate(e, q).serial = lists[e][k].serial
<1> DEFINE hits == {j \in DOMAIN lists[e] : CH!MatchesIn(e, lists[e][j].rule, q)}
           first == CHOOSE j \in hits : \A k \in hits : j <= k
<1>1. DOMAIN lists[e] = 1 .. Len(lists[e]) /\ i \in hits
  BY ListTyped
<1>2. hits \subseteq Nat /\ hits # {}
  BY <1>1
<1>3. first \in hits /\ \A k \in hits : first <= k
  <2> HIDE DEF hits
  <2>1. \E j \in hits : \A k \in hits : j <= k
    BY <1>2, Least
  <2> QED
    BY <2>1, Zenon
<1>4. CH!Evaluate(e, q) = [action |-> lists[e][first].rule.action, serial |-> lists[e][first].serial]
  BY <1>2 DEF CH!Evaluate
<1> HIDE DEF first
<1> QED
  BY <1>1, <1>3, <1>4

(* What Evaluate returns is of the expected kind.                          *)
LEMMA EvaluateTyped ==
    ASSUME RulesInv, NEW e \in CH!Engines, NEW q
    PROVE  CH!Evaluate(e, q).serial \in Nat
<1>1. CASE \E i \in 1 .. Len(lists[e]) : CH!MatchesIn(e, lists[e][i].rule, q)
  <2>1. PICK k \in 1 .. Len(lists[e]) : CH!Evaluate(e, q).serial = lists[e][k].serial
    BY <1>1, FirstMatch
  <2> QED
    BY <2>1, ListTyped
<1>2. CASE ~ \E i \in 1 .. Len(lists[e]) : CH!MatchesIn(e, lists[e][i].rule, q)
  <2>1. CH!Evaluate(e, q) = CH!Pass
    BY <1>2, ListTyped DEF CH!Evaluate
  <2> QED
    BY <2>1 DEF CH!Pass
<1> QED
  BY <1>1, <1>2

(* A rule of the list of an engine, as the evaluations know it.            *)
Tagged(l, e, i) == [id |-> l[e][i].id, serial |-> l[e][i].serial, rule |-> l[e][i].rule, engine |-> e]

(* The rules of both engines are those of their lists.                     *)
LEMMA RuleSetHas ==
    ASSUME NEW l \in [CH!Engines -> Seq(Entry)]
    PROVE  /\ CH!RuleSet(l) \subseteq Known
           /\ \A s : s \in CH!RuleSet(l) <=>
                  \E e \in CH!Engines : \E i \in 1 .. Len(l[e]) : s = Tagged(l, e, i)
<1>1. \A s : s \in CH!RuleSet(l) <=>
         \E e \in CH!Engines : \E i \in 1 .. Len(l[e]) : s = Tagged(l, e, i)
  <2> DEFINE of(e) == {Tagged(l, e, i) : i \in DOMAIN l[e]}
  <2>1. \A e \in CH!Engines : DOMAIN l[e] = 1 .. Len(l[e])
    OBVIOUS
  <2>2. CH!RuleSet(l) = UNION {of(e) : e \in CH!Engines}
    BY Zenon DEF CH!RuleSet, Tagged
  <2>3. \A s : s \in CH!RuleSet(l) <=> \E e \in CH!Engines : s \in of(e)
    BY <2>2
  <2>4. \A s : s \in CH!RuleSet(l) <=> \E e \in CH!Engines : \E i \in DOMAIN l[e] : s = Tagged(l, e, i)
    BY <2>3, Zenon
  <2> QED
    BY <2>1, <2>4
<1>2. ASSUME NEW e \in CH!Engines, NEW i \in 1 .. Len(l[e]) PROVE Tagged(l, e, i) \in Known
  <2>1. l[e] \in Seq(Entry)
    OBVIOUS
  <2>2. l[e][i] \in Entry
    BY <2>1
  <2> QED
    BY <2>2 DEF Entry, Known, Tagged
<1> QED
  BY <1>1, <1>2

-----------------------------------------------------------------------------
(* The steps.  A plugin is loaded before anything is evaluated.            *)
LEMMA PluginLoads ==
    ASSUME InspectionInv, NEW p \in waiting, CH!LoadPlugin(p)
    PROVE  InspectionInv'
<1>1. /\ p \in Plugins /\ waiting' = waiting \ {p}
      /\ UNCHANGED <<config, lists, clock, added, pc, status, by, writes, steady, passed>>
  BY DEF CH!LoadPlugin, InspectionInv, ChainInv, CH!evals
<1>2. \A r \in ChainSetup.reqs : pc[r] = "new"
  BY DEF InspectionInv, ChainInv
<1>3. ChainInv'
  <2>1. chain \in Seq(Plugins)
    BY DEF InspectionInv, ChainInv
  <2>2. \A i, j \in 1 .. Len(chain) : i < j => CH!Priority[chain[i]] <= CH!Priority[chain[j]]
    BY DEF InspectionInv, ChainInv
  <2>3. /\ CH!ChainAdd(chain, p) \in Seq(Plugins)
        /\ \A i, j \in 1 .. Len(CH!ChainAdd(chain, p)) :
              i < j => CH!Priority[CH!ChainAdd(chain, p)[i]] <= CH!Priority[CH!ChainAdd(chain, p)[j]]
    BY <1>1, <2>1, <2>2, ChainGrows
  <2>4. chain' = chain \/ chain' = CH!ChainAdd(chain, p)
    BY DEF CH!LoadPlugin
  <2> QED
    BY <1>1, <1>2, <2>1, <2>2, <2>3, <2>4 DEF InspectionInv, ChainInv
<1>4. RulesInv' /\ EvalsTyped'
  BY <1>1 DEF InspectionInv, RulesInv, EvalsTyped
<1>5. ASSUME NEW r \in ChainSetup.reqs PROVE AskedInv(r)' /\ SteadyRules(r)'
  <2>1. pc[r] = "new" /\ AskedInv(r) /\ SteadyRules(r)
    BY <1>2 DEF InspectionInv
  <2>2. by[r] = "nobody" /\ "nobody" \notin Plugins
    BY <2>1 DEF AskedInv, Plugins
  <2>3. AskedInv(r)'
    BY <1>1, <2>1, <2>2 DEF AskedInv
  <2>4. SteadyRules(r)'
    BY <1>1, <2>1 DEF SteadyRules, Through, Blocks, CH!RuleSet, CH!MatchesIn
  <2> QED
    BY <2>3, <2>4
<1> QED
  BY <1>3, <1>4, <1>5 DEF InspectionInv

(* An evaluation that is left alone, over rules of which none it knew has  *)
(* gone without its taking note.                                           *)
LEMMA EvalStays ==
    ASSUME InspectionInv, NEW r \in ChainSetup.reqs,
           pc'[r] = pc[r], status'[r] = status[r], by'[r] = by[r], writes'[r] = writes[r],
           passed'[r] = passed[r], chain' = chain, config' = config,
           steady'[r] \subseteq steady[r], steady'[r] \subseteq CH!RuleSet(lists)'
    PROVE  AskedInv(r)' /\ SteadyRules(r)'
<1>1. AskedInv(r) /\ SteadyRules(r)
  BY DEF InspectionInv
<1>2. \A p : Refuses(p, r)' = Refuses(p, r)
  BY DEF Refuses, CH!Answers, CH!Validation, CH!Geo, CH!Bot, CH!Country
<1>3. AskedInv(r)'
  BY <1>1, <1>2 DEF AskedInv
<1>4. SteadyRules(r)'
  BY <1>1 DEF SteadyRules, Through, Blocks, CH!MatchesIn
<1> QED
  BY <1>3, <1>4

(* AddRule: the new rule is the last of its list, and no evaluation has    *)
(* begun with it.                                                          *)
LEMMA RuleIsAdded ==
    ASSUME InspectionInv, NEW e \in CH!Engines, NEW t \in ChainSetup.templates, CH!AddRule(e, t)
    PROVE  InspectionInv'
<1> DEFINE new == [id |-> clock, serial |-> added + 1, rule |-> t]
<1>1. /\ added' = added + 1 /\ lists' = [lists EXCEPT ![e] = Append(@, new)]
      /\ UNCHANGED <<config, waiting, chain, clock, pc, status, by, writes, steady, passed>>
  BY DEF CH!AddRule, CH!plugs
<1>2. RulesInv /\ ChainInv /\ EvalsTyped
  BY DEF InspectionInv
<1>3. new \in Entry /\ new.serial = added + 1 /\ added \in Nat
  BY <1>2 DEF RulesInv, Entry
<1> HIDE DEF new
<1>4. /\ lists' \in [CH!Engines -> Seq(Entry)]
      /\ \A d \in CH!Engines : d # e => lists'[d] = lists[d]
      /\ Len(lists'[e]) = Len(lists[e]) + 1 /\ lists'[e][Len(lists[e]) + 1] = new
      /\ \A i \in 1 .. Len(lists[e]) : lists'[e][i] = lists[e][i]
  <2>1. lists[e] \in Seq(Entry) /\ Len(lists[e]) \in Nat /\ lists \in [CH!Engines -> Seq(Entry)]
    BY <1>2, ListTyped DEF RulesInv
  <2>2. lists'[e] = Append(lists[e], new) /\ \A d \in CH!Engines : d # e => lists'[d] = lists[d]
    BY <1>1, <2>1
  <2>3. Append(lists[e], new) \in Seq(Entry)
    BY <1>3, <2>1
  <2> QED
    BY <1>1, <1>3, <2>1, <2>2, <2>3
<1>5. ASSUME NEW d \in CH!Engines, NEW i \in 1 .. Len(lists'[d])
      PROVE  \/ i \in 1 .. Len(lists[d]) /\ lists'[d][i] = lists[d][i]
             \/ /\ d = e /\ i = Len(lists[d]) + 1 /\ lists'[d][i] = new
                /\ \A j \in 1 .. Len(lists'[d]) : j < i => j \in 1 .. Len(lists[d])
  <2>1. Len(lists[d]) \in Nat
    BY <1>2, ListTyped
  <2> QED
    BY <1>4, <2>1
<1>6. RulesInv'
  <2>1. \A d \in CH!Engines : \A i \in 1 .. Len(lists[d]) :
           lists[d][i].serial \in Nat /\ 1 <= lists[d][i].serial /\ lists[d][i].serial <= added
    BY <1>2, ListTyped DEF RulesInv
  <2>2. ASSUME NEW d \in CH!Engines, NEW i \in 1 .. Len(lists'[d])
        PROVE  1 <= lists'[d][i].serial /\ lists'[d][i].serial <= added'
    BY <1>1, <1>3, <1>5, <2>1
  <2>3. ASSUME NEW d \in CH!Engines, NEW i \in 1 .. Len(lists'[d]), NEW j \in 1 .. Len(lists'[d]),
               i < j
        PROVE  lists'[d][i].serial < lists'[d][j].serial
    <3>1. CASE j \in 1 .. Len(lists[d]) /\ lists'[d][j] = lists[d][j]
      <4>1. i \in 1 .. Len(lists[d]) /\ Len(lists[d]) \in Nat
        BY <2>3, <3>1, <1>2, ListTyped
      <4>2. lists'[d][i] = lists[d][i]
        BY <4>1, <1>4
      <4> QED
        BY <2>3, <3>1, <4>1, <4>2, <1>2 DEF RulesInv
    <3>2. CASE lists'[d][j] = new /\ i \in 1 .. Len(lists[d])
      <4>1. lists'[d][i] = lists[d][i]
        BY <3>2, <1>4
      <4> QED
        BY <3>2, <4>1, <1>3, <2>1
    <3> QED
      BY <2>3, <3>1, <3>2, <1>5
  <2> QED
    BY <1>1, <1>2, <1>3, <1>4, <2>2, <2>3 DEF RulesInv
<1>7. CH!RuleSet(lists) \subseteq CH!RuleSet(lists)'
  <2>1. ASSUME NEW d \in CH!Engines, NEW i \in 1 .. Len(lists[d])
        PROVE  Tagged(lists', d, i) = Tagged(lists, d, i) /\ i \in 1 .. Len(lists'[d])
    <3>1. Len(lists[d]) \in Nat
      BY <1>2, ListTyped
    <3> QED
      BY <1>4, <3>1 DEF Tagged
  <2>2. \A s : s \in CH!RuleSet(lists') <=>
           \E d \in CH!Engines : \E i \in 1 .. Len(lists'[d]) : s = Tagged(lists', d, i)
    BY <1>4, RuleSetHas
  <2>3. \A s : s \in CH!RuleSet(lists) <=>
           \E d \in CH!Engines : \E i \in 1 .. Len(lists[d]) : s = Tagged(lists, d, i)
    BY <1>2, RuleSetHas DEF RulesInv
  <2>4. CH!RuleSet(lists)' = CH!RuleSet(lists')
    BY DEF CH!RuleSet
  <2> QED
    BY <2>1, <2>2, <2>3, <2>4
<1>8. ChainInv' /\ EvalsTyped'
  BY <1>1, <1>2 DEF ChainInv, EvalsTyped
<1>9. ASSUME NEW r \in ChainSetup.reqs PROVE AskedInv(r)' /\ SteadyRules(r)'
  <2>1. steady'[r] \subseteq CH!RuleSet(lists)'
    BY <1>1, <1>7 DEF InspectionInv, SteadyRules
  <2> QED
    BY <1>1, <2>1, EvalStays
<1> QED
  BY <1>6, <1>8, <1>9 DEF InspectionInv

(* RemoveRule: the first rule with the id goes, from what evaluations know *)
(* of too, and the order of the others stays.                              *)
LEMMA RuleIsRemoved ==
    ASSUME InspectionInv, NEW e \in CH!Engines, NEW id, CH!RemoveRule(e, id)
    PROVE  InspectionInv'
<1>1. RulesInv /\ ChainInv /\ EvalsTyped
  BY DEF InspectionInv
<1> DEFINE hits == {i \in DOMAIN lists[e] : lists[e][i].id = id}
           Of(i) == lists[e][i].id = id /\ \A j \in 1 .. i - 1 : lists[e][j].id # id
           k == CHOOSE i \in DOMAIN lists[e] : Of(i)
<1>2. k \in 1 .. Len(lists[e])
  <2>1. DOMAIN lists[e] = 1 .. Len(lists[e]) /\ Len(lists[e]) \in Nat
    BY <1>1, ListTyped
  <2>2. hits \subseteq Nat /\ hits # {}
    BY <2>1 DEF CH!RemoveRule
  <2>3. PICK i \in hits : \A j \in hits : i <= j
    BY <2>2, Least
  <2>4. i \in DOMAIN lists[e] /\ Of(i)
    BY <2>1, <2>3
  <2> QED
    BY <2>1, <2>4
<1>3. /\ lists' = [lists EXCEPT ![e] = CH!RemoveAt(lists[e], k)]
      /\ steady' = [r \in ChainSetup.reqs |-> steady[r] \cap CH!RuleSet(lists)']
      /\ UNCHANGED <<config, waiting, chain, clock, added, pc, status, by, writes, passed>>
  BY DEF CH!RemoveRule, CH!plugs
<1> HIDE DEF k
<1>4. /\ lists' \in [CH!Engines -> Seq(Entry)]
      /\ \A d \in CH!Engines : d # e => lists'[d] = lists[d]
      /\ Shorter(lists'[e], lists[e], k)
  <2>1. lists[e] \in Seq(Entry) /\ lists \in [CH!Engines -> Seq(Entry)]
    BY <1>1, ListTyped DEF RulesInv
  <2>2. CH!RemoveAt(lists[e], k) \in Seq(Entry) /\ Shorter(CH!RemoveAt(lists[e], k), lists[e], k)
    BY <2>1, <1>2, Removed, Zenon
  <2> QED
    BY <1>3, <2>1, <2>2
<1>5. ASSUME NEW d \in CH!Engines, NEW i \in 1 .. Len(lists'[d])
      PROVE  \E a \in 1 .. Len(lists[d]) :
                lists'[d][i] = lists[d][a] /\ ((a = i /\ (d = e => i < k)) \/ (a = i + 1 /\ d = e /\ i >= k))
  <2>1. Len(lists[e]) \in Nat
    BY <1>1, ListTyped
  <2>2. CASE d # e
    BY <2>2, <1>4
  <2>3. CASE d = e /\ i < k
    <3>1. i \in 1 .. k - 1 /\ i \in 1 .. Len(lists[e])
      BY <2>1, <2>3, <1>2
    <3> QED
      BY <2>3, <3>1, <1>4 DEF Shorter
  <2>4. CASE d = e /\ i >= k
    <3>1. i \in k .. Len(lists[e]) - 1 /\ i + 1 \in 1 .. Len(lists[e])
      BY <2>1, <2>4, <1>2, <1>4 DEF Shorter
    <3> QED
      BY <2>4, <3>1, <1>4 DEF Shorter
  <2> QED
    BY <2>1, <2>2, <2>3, <2>4, <1>2, <1>4 DEF Shorter
<1>6. RulesInv'
  <2>1. \A d \in CH!Engines : \A i \in 1 .. Len(lists'[d]) :
           1 <= lists'[d][i].serial /\ lists'[d][i].serial <= added'
    BY <1>1, <1>3, <1>5 DEF RulesInv
  <2>2. ASSUME NEW d \in CH!Engines, NEW i \in 1 .. Len(lists'[d]), NEW j \in 1 .. Len(lists'[d]),
               i < j
        PROVE  lists'[d][i].serial < lists'[d][j].serial
    <3>1. PICK a \in 1 .. Len(lists[d]) :
             lists'[d][i] = lists[d][a] /\ ((a = i /\ (d = e => i < k)) \/ (a = i + 1 /\ d = e /\ i >= k))
      BY <1>5
    <3>2. PICK b \in 1 .. Len(lists[d]) :
             lists'[d][j] = lists[d][b] /\ ((b = j /\ (d = e => j < k)) \/ (b = j + 1 /\ d = e /\ j >= k))
      BY <1>5
    <3>3. a < b
      BY <2>2, <3>1, <3>2, <1>2
    <3> QED
      BY <3>1, <3>2, <3>3, <1>1 DEF RulesInv
  <2> QED
    BY <1>1, <1>3, <1>4, <2>1, <2>2 DEF RulesInv
<1>7. ChainInv'
  BY <1>1, <1>3 DEF ChainInv
<1>8. ASSUME NEW r \in ChainSetup.reqs
      PROVE  steady'[r] \subseteq steady[r] /\ steady'[r] \subseteq CH!RuleSet(lists)'
  BY <1>3
<1>9. EvalsTyped'
  BY <1>1, <1>3, <1>8 DEF EvalsTyped
<1>10. ASSUME NEW r \in ChainSetup.reqs PROVE AskedInv(r)' /\ SteadyRules(r)'
  BY <1>3, <1>8, EvalStays
<1> QED
  BY <1>6, <1>7, <1>9, <1>10 DEF InspectionInv

(* What a plugin may answer.                                               *)
LEMMA AnswersAre ==
    ASSUME NEW p \in Plugins, NEW q
    PROVE  CH!Answers(p, q) \subseteq {0, 403, 415, 429}
<1>1. CH!Validation(q) \in {0, 403, 415}
  BY DEF CH!Validation
<1>2. CH!Geo(q) \in {0, 403} /\ CH!Bot(q) \in {0, 403}
  BY DEF CH!Geo, CH!Bot
<1>3. CASE p = "validation"
  BY <1>1, <1>3 DEF CH!Answers
<1>4. CASE p = "geo"
  BY <1>2, <1>4 DEF CH!Answers
<1>6. CASE p = "bot"
  BY <1>2, <1>6 DEF CH!Answers
<1>5. CASE p = "rate"
  BY <1>5 DEF CH!Answers
<1> QED
  BY <1>3, <1>4, <1>5, <1>6 DEF Plugins

(* A step of one request leaves the facts about the others alone.          *)
LEMMA OthersStay ==
    ASSUME InspectionInv, NEW r \in ChainSetup.reqs,
           UNCHANGED <<chain, config, lists>>,
           \A q \in ChainSetup.reqs \ {r} :
              /\ pc'[q] = pc[q] /\ status'[q] = status[q] /\ by'[q] = by[q] /\ writes'[q] = writes[q]
              /\ passed'[q] = passed[q] /\ steady'[q] = steady[q]
    PROVE  \A q \in ChainSetup.reqs \ {r} : AskedInv(q)' /\ SteadyRules(q)'
<1> TAKE q \in ChainSetup.reqs \ {r}
<1>1. CH!RuleSet(lists)' = CH!RuleSet(lists)
  BY DEF CH!RuleSet
<1>2. steady'[q] \subseteq steady[q] /\ steady'[q] \subseteq CH!RuleSet(lists)'
  BY <1>1 DEF InspectionInv, SteadyRules
<1> QED
  BY <1>2, EvalStays

(* Chain.Execute: the request passes all plugins, or the first that        *)
(* refuses it answers.                                                     *)
LEMMA ChainEvaluates ==
    ASSUME InspectionInv, NEW r \in ChainSetup.reqs, CH!EvalChain(r)
    PROVE  InspectionInv'
<1>1. /\ waiting = {} /\ pc[r] = "new"
      /\ UNCHANGED <<config, waiting, chain, lists, clock, added, passed>>
      /\ steady' = [steady EXCEPT ![r] = CH!RuleSet(lists)]
  BY DEF CH!EvalChain, CH!plugs
<1>2. ChainInv /\ RulesInv /\ EvalsTyped /\ AskedInv(r)
  BY DEF InspectionInv
<1>3. ChainInv' /\ RulesInv'
  BY <1>1, <1>2 DEF ChainInv, RulesInv
<1>4. CH!RuleSet(lists) \subseteq Known /\ CH!RuleSet(lists)' = CH!RuleSet(lists)
  BY <1>1, <1>2, RuleSetHas DEF RulesInv, CH!RuleSet
<1>5. steady' \in [ChainSetup.reqs -> SUBSET Known] /\ steady'[r] = CH!RuleSet(lists)
  BY <1>1, <1>2, <1>4 DEF EvalsTyped
<1>6. writes[r] = 0 /\ by[r] = "nobody" /\ "nobody" \notin Plugins
  BY <1>1, <1>2 DEF AskedInv, Plugins
<1>7. CASE /\ \A i \in DOMAIN chain : 0 \in CH!Answers(chain[i], ChainSetup.request[r])
           /\ pc' = [pc EXCEPT ![r] = "rules"]
           /\ UNCHANGED <<status, by, writes>>
  <2>1. EvalsTyped' /\ pc'[r] = "rules"
    BY <1>1, <1>2, <1>5, <1>7 DEF EvalsTyped
  <2>2. AskedInv(r)'
    <3>1. \A i \in 1 .. Len(chain) : ~ Refuses(chain[i], r)'
      BY <1>1, <1>2, <1>7, ChainTyped DEF Refuses, CH!Answers, CH!Validation, CH!Geo, CH!Bot, CH!Country
    <3> QED
      BY <1>1, <1>6, <1>7, <2>1, <3>1 DEF AskedInv
  <2>3. SteadyRules(r)'
    BY <1>4, <1>5, <2>1 DEF SteadyRules, Through
  <2>4. \A q \in ChainSetup.reqs \ {r} : AskedInv(q)' /\ SteadyRules(q)'
    BY <1>1, <1>2, <1>7, OthersStay DEF EvalsTyped
  <2> QED
    BY <1>3, <2>1, <2>2, <2>3, <2>4 DEF InspectionInv
<1>8. ASSUME NEW i \in DOMAIN chain, NEW code \in CH!Answers(chain[i], ChainSetup.request[r]) \ {0},
             \A j \in 1 .. i - 1 : 0 \in CH!Answers(chain[j], ChainSetup.request[r]),
             CH!Answer(r, code, chain[i])
      PROVE  InspectionInv'
  <2>1. i \in 1 .. Len(chain) /\ chain[i] \in Plugins
    BY <1>2, ChainTyped
  <2>2. code \in {403, 415, 429}
    BY <2>1, AnswersAre
  <2>3. /\ pc' = [pc EXCEPT ![r] = "done"] /\ status' = [status EXCEPT ![r] = code]
        /\ by' = [by EXCEPT ![r] = chain[i]] /\ writes' = [writes EXCEPT ![r] = @ + 1]
    BY <1>8 DEF CH!Answer
  <2>4. EvalsTyped' /\ pc'[r] = "done" /\ by'[r] = chain[i] /\ status'[r] = code
    BY <1>1, <1>2, <1>5, <1>6, <2>1, <2>2, <2>3 DEF EvalsTyped
  <2>5. AskedInv(r)'
    <3>1. \A j \in 1 .. i - 1 : ~ Refuses(chain[j], r)'
      BY <1>1, <1>8 DEF Refuses, CH!Answers, CH!Validation, CH!Geo, CH!Bot, CH!Country
    <3> QED
      BY <1>1, <2>1, <2>4, <3>1 DEF AskedInv
  <2>6. SteadyRules(r)'
    BY <1>4, <1>5, <2>2, <2>4 DEF SteadyRules, Through
  <2>7. \A q \in ChainSetup.reqs \ {r} : AskedInv(q)' /\ SteadyRules(q)'
    BY <1>1, <1>2, <2>3, OthersStay DEF EvalsTyped
  <2> QED
    BY <1>3, <2>4, <2>5, <2>6, <2>7 DEF InspectionInv
<1> QED
  BY <1>7, <1>8 DEF CH!EvalChain

(* A blocking rule that has been there all the time is in the list, and    *)
(* Evaluate returned one before it or this one.                            *)
LEMMA EngineEvaluates ==
    ASSUME InspectionInv, NEW r \in ChainSetup.reqs, NEW e \in CH!Engines, CH!EvalEngine(r, e)
    PROVE  InspectionInv'
<1> DEFINE res == CH!Evaluate(e, ChainSetup.request[r])
<1>1. /\ pc[r] = e
      /\ UNCHANGED <<config, waiting, chain, lists, clock, added, steady>>
      /\ passed' = [passed EXCEPT ![r][e] = res.serial]
  BY DEF CH!EvalEngine, CH!plugs
<1>2. ChainInv /\ RulesInv /\ EvalsTyped /\ AskedInv(r) /\ SteadyRules(r)
  BY DEF InspectionInv
<1>3. /\ e \in {"rules", "policy"} /\ "nobody" \notin Plugins /\ e \notin Plugins
      /\ by[r] = "nobody" /\ writes[r] = 0
  BY <1>1, <1>2 DEF CH!Engines, Plugins, AskedInv
<1>4. \/ /\ res.action \in {"allow", "log"} /\ e = "rules" /\ pc' = [pc EXCEPT ![r] = "policy"]
         /\ UNCHANGED <<status, by, writes>>
      \/ res.action \in {"allow", "log"} /\ e = "policy" /\ CH!Answer(r, 204, "nobody")
      \/ res.action \notin {"allow", "log"} /\ CH!Answer(r, 403, e)
  BY <1>3 DEF CH!EvalEngine
<1>5. res.serial \in Nat
  BY <1>2, EvaluateTyped
<1> HIDE DEF res
<1>6. /\ passed' \in [ChainSetup.reqs -> [CH!Engines -> Nat]] /\ passed'[r][e] = res.serial
      /\ \A d \in CH!Engines : d # e => passed'[r][d] = passed[r][d]
      /\ \A q \in ChainSetup.reqs : q # r => passed'[q] = passed[q]
  BY <1>1, <1>2, <1>5 DEF EvalsTyped
<1>7. /\ EvalsTyped'
      /\ \A q \in ChainSetup.reqs \ {r} : pc'[q] = pc[q] /\ status'[q] = status[q]
                                        /\ by'[q] = by[q] /\ writes'[q] = writes[q]
      /\ by'[r] \notin Plugins
      /\ pc'[r] # "done" => by'[r] = "nobody" /\ writes'[r] = 0
      /\ (pc'[r] = "done" /\ status'[r] = 204) => e = "policy"
      /\ pc'[r] = "policy" => e = "rules"
      /\ (pc'[r] = "policy" \/ (pc'[r] = "done" /\ status'[r] = 204)) => res.action \in {"allow", "log"}
  <2>1. CASE pc' = [pc EXCEPT ![r] = "policy"] /\ UNCHANGED <<status, by, writes>>
    BY <2>1, <1>1, <1>2, <1>3, <1>4, <1>6 DEF EvalsTyped, CH!Answer
  <2>2. CASE CH!Answer(r, 204, "nobody")
    BY <2>2, <1>1, <1>2, <1>3, <1>4, <1>6 DEF EvalsTyped, CH!Answer
  <2>3. CASE CH!Answer(r, 403, e)
    BY <2>3, <1>1, <1>2, <1>3, <1>4, <1>6 DEF EvalsTyped, CH!Answer
  <2> QED
    BY <1>4, <2>1, <2>2, <2>3
<1>8. ChainInv' /\ RulesInv'
  <2>1. waiting = {}
    BY <1>1, <1>2, <1>3 DEF ChainInv
  <2>2. ChainInv'
    BY <1>1, <1>2, <2>1 DEF ChainInv
  <2> QED
    BY <1>1, <1>2, <2>2 DEF RulesInv
<1>9. AskedInv(r)'
  <2>1. \A i \in 1 .. Len(chain) : ~ Refuses(chain[i], r)
    BY <1>1, <1>2, <1>3 DEF AskedInv
  <2>2. \A i \in 1 .. Len(chain) : ~ Refuses(chain[i], r)'
    BY <1>1, <2>1 DEF Refuses, CH!Answers, CH!Validation, CH!Geo, CH!Bot, CH!Country
  <2> QED
    BY <1>1, <1>7, <2>2 DEF AskedInv
<1>10. SteadyRules(r)'
  <2>1. CH!RuleSet(lists)' = CH!RuleSet(lists)
    BY <1>1 DEF CH!RuleSet
  <2>2. ASSUME NEW s \in steady'[r], Blocks(s, r), Through(r, s.engine)'
        PROVE  1 <= passed'[r][s.engine] /\ passed'[r][s.engine] < s.serial
    <3>1. s \in steady[r] /\ s \in CH!RuleSet(lists) /\ s.engine \in CH!Engines
      BY <1>1, <1>2 DEF SteadyRules, EvalsTyped, Known
    <3>2. CASE s.engine = e
      <4>1. PICK i \in 1 .. Len(lists[e]) : s.serial = lists[e][i].serial /\ s.rule = lists[e][i].rule
        <5>1. PICK d \in CH!Engines : \E i \in 1 .. Len(lists[d]) : s = Tagged(lists, d, i)
          BY <1>2, <3>1, RuleSetHas DEF RulesInv
        <5> QED
          BY <3>2, <5>1 DEF Tagged
      <4>2. PICK k \in 1 .. Len(lists[e]) : k <= i /\ res.action = lists[e][k].rule.action
                                                 /\ res.serial = lists[e][k].serial
        BY <1>2, <2>2, <3>2, <4>1, FirstMatch DEF Blocks, res
      <4>3. res.action \in {"allow", "log"}
        BY <2>2, <1>7 DEF Through
      <4>4. k # i
        BY <2>2, <4>1, <4>2, <4>3 DEF Blocks
      <4>5. k < i
        BY <4>2, <4>4
      <4>6. lists[e][k].serial < lists[e][i].serial /\ 1 <= lists[e][k].serial
        BY <4>5, <1>2 DEF RulesInv
      <4> QED
        BY <3>2, <4>1, <4>2, <4>6, <1>6
    <3>3. CASE s.engine # e
      <4>1. s.engine = "rules" /\ e = "policy" /\ Through(r, s.engine)
        BY <2>2, <3>1, <3>3, <1>1, <1>3, <1>7 DEF Through, CH!Engines
      <4>2. 1 <= passed[r][s.engine] /\ passed[r][s.engine] < s.serial
        BY <1>2, <2>2, <3>1, <4>1 DEF SteadyRules
      <4> QED
        BY <3>1, <3>3, <4>2, <1>6
    <3> QED
      BY <3>2, <3>3
  <2>3. \A s : Blocks(s, r)' = Blocks(s, r)
    BY DEF Blocks, CH!MatchesIn
  <2>4. steady'[r] \subseteq CH!RuleSet(lists)'
    BY <1>1, <1>2, <2>1 DEF SteadyRules
  <2> QED
    BY <2>2, <2>3, <2>4 DEF SteadyRules
<1>11. \A q \in ChainSetup.reqs \ {r} : AskedInv(q)' /\ SteadyRules(q)'
  BY <1>1, <1>6, <1>7, OthersStay
<1> QED
  BY <1>7, <1>8, <1>9, <1>10, <1>11 DEF InspectionInv

(* The invariant holds in every behaviour of the chain and the engines.    *)
THEOREM InspectionInvariant == Spec => [](part = "inspection" => InspectionInv)
<1>1. Init => (part = "inspection" => InspectionInv)
  <2> SUFFICES ASSUME CH!Init PROVE InspectionInv
    BY DEF Init
  <2> USE DEF CH!Init
  <2>1. ChainInv
    BY Priorities DEF ChainInv, Plugins
  <2>2. RulesInv
    BY DEF RulesInv
  <2>3. EvalsTyped
    BY DEF EvalsTyped
  <2>4. "nobody" \notin Plugins
    BY DEF Plugins
  <2>5. \A r \in ChainSetup.reqs : AskedInv(r) /\ SteadyRules(r)
    BY <2>4 DEF AskedInv, SteadyRules
  <2> QED
    BY <2>1, <2>2, <2>3, <2>5 DEF InspectionInv
<1>2. InspectionInv /\ [CH!Next]_(CH!vars) => InspectionInv'
  <2> SUFFICES ASSUME InspectionInv, [CH!Next]_(CH!vars) PROVE InspectionInv'
    OBVIOUS
  <2>1. CASE UNCHANGED <<config, chain, waiting, lists, added, pc, status, by, writes, steady, passed>>
             /\ clock' \in Nat
    <3>1. ChainInv' /\ RulesInv' /\ EvalsTyped'
      BY <2>1 DEF InspectionInv, ChainInv, RulesInv, EvalsTyped
    <3>2. CH!RuleSet(lists)' = CH!RuleSet(lists)
      BY <2>1 DEF CH!RuleSet
    <3>3. ASSUME NEW r \in ChainSetup.reqs PROVE AskedInv(r)' /\ SteadyRules(r)'
      <4>1. steady'[r] \subseteq steady[r] /\ steady'[r] \subseteq CH!RuleSet(lists)'
        BY <2>1, <3>2 DEF InspectionInv, SteadyRules
      <4> QED
        BY <2>1, <4>1, EvalStays
    <3> QED
      BY <3>1, <3>3 DEF InspectionInv
  <2>2. clock \in Nat
    BY DEF InspectionInv, RulesInv
  <2>3. CASE UNCHANGED CH!vars \/ CH!Tick
    BY <2>1, <2>2, <2>3 DEF CH!vars, CH!Tick, CH!plugs, CH!evals
  <2> QED
    BY <2>3, PluginLoads, RuleIsAdded, RuleIsRemoved, ChainEvaluates, EngineEvaluates
       DEF CH!Next, CH!Operator
<1>3. [Next]_vars => part' = part /\ (part = "inspection" => [CH!Next]_(CH!vars))
  BY DEF Next, vars, chainVars, CH!vars, CH!plugs, CH!evals
<1>4. (part = "inspection" => InspectionInv) /\ [Next]_vars => (part = "inspection" => InspectionInv)'
  BY <1>2, <1>3
<1> QED
  BY <1>1, <1>4, PTL DEF Spec

(* The invariant implies what is promised of the inspection.               *)
LEMMA InspectionFollows ==
    ASSUME InspectionInv
    PROVE  CH!InspectionSound
<1>1. CH!PluginsEnforced
  <2> SUFFICES ASSUME NEW r \in ChainSetup.reqs, pc[r] # "new"
               PROVE  LET refusing == {p \in CH!ToSet(chain) : 0 \notin CH!Answers(p, ChainSetup.request[r])}
                      IN  /\ refusing # {} => by[r] \in CH!ToSet(chain)
                          /\ by[r] \in CH!ToSet(chain) =>
                                 \A p \in refusing : CH!Priority[by[r]] <= CH!Priority[p]
    BY DEF CH!PluginsEnforced
  <2>1. /\ Len(chain) \in Nat /\ CH!ToSet(chain) = {chain[i] : i \in 1 .. Len(chain)}
        /\ \A i \in 1 .. Len(chain) : chain[i] \in Plugins /\ CH!Priority[chain[i]] \in Nat
    BY ChainTyped DEF InspectionInv, CH!ToSet
  <2>2. CASE by[r] \notin Plugins
    BY <2>1, <2>2 DEF InspectionInv, AskedInv, Refuses
  <2>3. CASE by[r] \in Plugins
    <3>1. PICK i \in 1 .. Len(chain) : by[r] = chain[i] /\ \A j \in 1 .. i - 1 : ~ Refuses(chain[j], r)
      BY <2>3 DEF InspectionInv, AskedInv
    <3>2. ASSUME NEW j \in 1 .. Len(chain), Refuses(chain[j], r)
          PROVE  CH!Priority[chain[i]] <= CH!Priority[chain[j]]
      <4>1. i = j \/ i < j
        BY <3>1, <3>2, <2>1
      <4> QED
        BY <4>1, <2>1 DEF InspectionInv, ChainInv
    <3> QED
      BY <3>1, <3>2, <2>1 DEF Refuses
  <2> QED
    BY <2>2, <2>3
<1>2. CH!SteadyRuleBlocks
  <2> SUFFICES ASSUME NEW r \in ChainSetup.reqs, NEW s \in steady[r],
                      pc[r] = "done", status[r] = 204, s.rule.action = "block",
                      CH!MatchesIn(s.engine, s.rule, ChainSetup.request[r])
               PROVE  passed[r][s.engine] \in 1 .. s.serial - 1
    BY DEF CH!SteadyRuleBlocks
  <2>1. 1 <= passed[r][s.engine] /\ passed[r][s.engine] < s.serial
    BY DEF InspectionInv, SteadyRules, Blocks, Through
  <2>2. passed[r][s.engine] \in Nat /\ s.serial \in Nat
    BY DEF InspectionInv, EvalsTyped, Known
  <2> QED
    BY <2>1, <2>2
<1> QED
  BY <1>1, <1>2 DEF CH!InspectionSound

(* handleEvaluate and the PolicyStore: for every number of requests, every *)
(* configuration and every set of rules, no plugin that is loaded lets     *)
(* pass what it refuses, a blocking rule that is there all the time        *)
(* blocks, and List has each policy once, the oldest first.                *)
THEOREM InspectionSoundHolds == Spec => []InspectionSound
<1>1. (part = "inspection" => InspectionInv) /\ (part = "policies" => StoreInv) => InspectionSound
  BY InspectionFollows, StoreFollows DEF InspectionSound
<1> QED
  BY InspectionInvariant, StoreInvariant, <1>1, PTL

-----------------------------------------------------------------------------
(* Every part of the request path.  Of the engines one thing is missing:   *)
(* no more rules are added than there are to be.                           *)
RulesCounted == added \in Nat /\ added <= ChainSetup.maxRules

(* It is AddRule's guard that bounds them.                                 *)
LEMMA RulesAreCounted == Spec => [](part = "inspection" => RulesCounted)
<1>1. ChainSetup.maxRules \in Nat
  BY InspectionAssumption DEF CH!InspectionConstants
<1>2. Init => (part = "inspection" => RulesCounted)
  BY <1>1 DEF Init, CH!Init, RulesCounted
<1>3. RulesCounted /\ [CH!Next]_(CH!vars) => RulesCounted'
  <2> SUFFICES ASSUME RulesCounted, [CH!Next]_(CH!vars) PROVE RulesCounted'
    OBVIOUS
  <2>1. CASE UNCHANGED CH!vars
    BY <2>1 DEF CH!vars, CH!plugs, RulesCounted
  <2>2. ASSUME NEW e \in CH!Engines, NEW t \in ChainSetup.templates, CH!AddRule(e, t)
        PROVE  RulesCounted'
    BY <2>2, <1>1 DEF CH!AddRule, RulesCounted
  <2>3. CASE added' = added
    BY <2>3 DEF RulesCounted
  <2>4. ASSUME CH!Next
        PROVE  \/ \E e \in CH!Engines, t \in ChainSetup.templates : CH!AddRule(e, t)
               \/ added' = added
    BY <2>4 DEF CH!Next, CH!Operator, CH!LoadPlugin, CH!RemoveRule, CH!Tick, CH!EvalChain,
       CH!EvalEngine, CH!plugs
  <2> QED
    BY <2>1, <2>2, <2>3, <2>4
<1>4. [Next]_vars => part' = part /\ (part = "inspection" => [CH!Next]_(CH!vars))
  BY DEF Next, vars, chainVars, CH!vars, CH!plugs, CH!evals
<1>5. (part = "inspection" => RulesCounted) /\ [Next]_vars => (part = "inspection" => RulesCounted)'
  BY <1>3, <1>4
<1> QED
  BY <1>2, <1>5, PTL DEF Spec

(* The counter of an address is a place in a window, and no more than its  *)
(* requests.                                                               *)
LEMMA ScorerIsTyped ==
    ASSUME NEW s, Scores(s)!ScorerConstants, ScorerInv(s)
    PROVE  Scores(s)!TypeOK
<1>1. scorerNow \in 0 .. s.maxTime
  BY DEF ScorerInv, CountersTyped
<1>2. ASSUME NEW ip \in s.ips
      PROVE  /\ ipFrequency[ip].count \in 0 .. Len(counted[ip])
             /\ ipFrequency[ip].windowStart \in 0 .. scorerNow
  <2> DEFINE k == Len(counted[ip])
  <2>1. /\ InOrder(Times(ip), k, scorerNow) /\ counted[ip] \in Seq(Nat \X Nat)
        /\ scorerNow \in Nat
    BY <1>1, <1>2 DEF ScorerInv, CountersTyped, WindowInv, Scores!ScorerConstants
  <2>2. PICK w : Windows(s, ip, w)
    BY <1>2 DEF ScorerInv, WindowInv
  <2>3. k \in Nat
    BY <2>1
  <2>4. CASE k = 0
    BY <2>1, <2>2, <2>4 DEF Windows, Scores!Absent
  <2>5. CASE k > 0
    <3>1. k \in 1 .. k
      BY <2>3, <2>5
    <3>2. w[k] \in 1 .. k
      BY <2>2, <3>1 DEF Windows, Fall
    <3>3. ipFrequency[ip] = [count |-> k - w[k] + 1, windowStart |-> Times(ip)[w[k]]]
      BY <2>2, <2>5 DEF Windows
    <3>4. Times(ip)[w[k]] \in 0 .. scorerNow
      BY <2>1, <3>2 DEF InOrder
    <3> QED
      BY <2>3, <3>2, <3>3, <3>4
  <2> QED
    BY <2>3, <2>4, <2>5
<1> QED
  BY <1>1, <1>2 DEF Scores!TypeOK

(* The rings hold what they are made for; an answer is at most as long as  *)
(* the limit and of events that were recorded.                             *)
LEMMA RingsAreTyped ==
    /\ LearningInv => LE!TypeOK
    /\ LogInv /\ ResultInv => AQ!TypeOK
<1>1. LearningInv => LE!TypeOK
  <2> SUFFICES ASSUME LearningInv PROVE LE!TypeOK
    OBVIOUS
  <2> DEFINE M == LearningSetup.maxSize
  <2>1. M \in Nat /\ LE!Slots = 0 .. M - 1
    BY LearningSize
  <2>2. /\ ring \in [slot: [0 .. M - 1 -> LE!Record], len: Nat, pos: 0 .. M - 1] /\ ring.len <= M
    BY DEF LearningInv, Holds
  <2> QED
    BY <2>1, <2>2 DEF LE!TypeOK
<1>2. LogInv /\ ResultInv => AQ!TypeOK
  <2> SUFFICES ASSUME LogInv, ResultInv PROVE AQ!TypeOK
    OBVIOUS
  <2> DEFINE M == QuerySetup.maxSize
  <2>1. M \in Nat /\ AQ!Slots = 0 .. M - 1 /\ QuerySetup.maxLimit \in Nat
    BY QuerySizes
  <2>2. events.len \in 0 .. M /\ events.pos \in AQ!Slots
    <3>1. /\ events \in [slot: [0 .. M - 1 -> Logged], len: Nat, pos: 0 .. M - 1]
          /\ events.len <= M
      BY DEF LogInv, Holds
    <3> QED
      BY <2>1, <3>1
  <2>3. CASE filter = AQ!NoFilter
    <3>1. answer = <<>> /\ Len(answer) = 0 /\ AQ!Range(answer) = {}
      BY <2>3 DEF ResultInv, AQ!Range
    <3> QED
      BY <2>1, <2>2, <3>1 DEF AQ!TypeOK
  <2>4. CASE filter # AQ!NoFilter
    <3>1. /\ Len(answer) = Cardinality(AQ!Taken(filter))
          /\ AQ!Range(answer) = {events.slot[i] : i \in AQ!Taken(filter)}
          /\ Cardinality(AQ!Taken(filter)) \in Nat
      BY <2>4, AnswerIs
    <3>2. /\ Cardinality(AQ!Taken(filter)) <= AQ!Limit(filter)
          /\ AQ!Taken(filter) \subseteq 0 .. events.len - 1
      BY TakenFacts
    <3>3. AQ!Limit(filter) \in Nat /\ AQ!Limit(filter) <= QuerySetup.maxLimit
      BY QuerySizes
    <3>4. Len(answer) <= QuerySetup.maxLimit
      BY <2>1, <3>1, <3>2, <3>3
    <3>5. AQ!Range(answer) \subseteq AQ!Range(log)
      <4>1. \A i \in 0 .. events.len - 1 : Index(i) \in 1 .. Len(log) /\ events.slot[i] = log[Index(i)]
        BY SlotFacts
      <4>2. DOMAIN log = 1 .. Len(log)
        BY DEF LogInv
      <4> QED
        BY <3>1, <3>2, <4>1, <4>2 DEF AQ!Range
    <3> QED
      BY <2>2, <3>4, <3>5 DEF AQ!TypeOK
  <2> QED
    BY <2>3, <2>4
<1> QED
  BY <1>1, <1>2

(* An evaluation is at one of its stages and has written at most one       *)
(* answer.                                                                 *)
LEMMA ChainIsTyped ==
    ASSUME InspectionInv, RulesCounted
    PROVE  CH!TypeOK
<1>1. added \in 0 .. ChainSetup.maxRules
  BY InspectionAssumption DEF CH!InspectionConstants, RulesCounted
<1>2. writes \in [ChainSetup.reqs -> 0 .. 1]
  BY DEF InspectionInv, EvalsTyped
<1> QED
  BY <1>1, <1>2 DEF CH!TypeOK, InspectionInv, EvalsTyped

(* The store has policies, no more than were added.                        *)
LEMMA StoreIsTyped ==
    ASSUME StoreInv
    PROVE  PS!TypeOK
<1>1. adds \in 0 .. PolicySetup.maxAdds
  BY PolicyAssumption DEF PS!PolicyStoreConstants, StoreInv
<1> QED
  BY <1>1 DEF PS!TypeOK, StoreInv

(* The state of every part of the request path is of the kind expected,    *)
(* for every setup: no bucket overflows, no answer of the audit log is     *)
(* longer than the limit, no counter of the pool exceeds the requests      *)
(* there are, and no request is answered twice.                            *)
THEOREM RequestPathTyped == Spec => []TypeOK
<1>1. BucketInv => TB!TypeOK
  BY DEF BucketInv
<1>2. RedisInv => RW!TypeOK
  BY DEF RedisInv
<1>3. /\ ScorersInv /\ part = "scores" => Scores(ScoreSetup)!TypeOK
      /\ ScorersInv /\ part = "rates" => Scores(RateSetup)!TypeOK
  BY ScoreAssumption, ScorerIsTyped DEF ScorersInv
<1>4. /\ (part = "token bucket" => BucketInv) /\ (part = "redis window" => RedisInv)
      /\ ScorersInv
      /\ (part = "learning" => LearningInv) /\ (part = "audit query" => LogInv /\ ResultInv)
      /\ (part = "pool" => PoolInv) /\ (part = "policies" => StoreInv)
      /\ (part = "inspection" => InspectionInv) /\ (part = "inspection" => RulesCounted)
      => TypeOK
  BY <1>1, <1>2, <1>3, RingsAreTyped, PoolFollows, StoreIsTyped, ChainIsTyped DEF TypeOK
<1> QED
  BY <1>4, BucketInvariant, RedisInvariant, ScorerInvariant, LearningInvariant, QueryInvariant,
     PoolInvariant, StoreInvariant, InspectionInvariant, RulesAreCounted, PTL
=============================================================================
