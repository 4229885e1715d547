-------------------------------- MODULE Scorer --------------------------------
(***************************************************************************)
(* The built-in anomaly scorer (appsec.BasicScorer).  Evaluate holds the   *)
(* lock from its first line to its last, so that it is one step.           *)
(*                                                                         *)
(* Scores are integers, in ten thousandths.  A request is described by     *)
(* what the analyses of its text yield: the families of attack patterns    *)
(* that match, the entropy above 4.5 and the character score, the kind of  *)
(* its User-Agent, and its length in units of 2048 characters.             *)
(***************************************************************************)
EXTENDS Integers, Sequences, FiniteSets

CONSTANTS IPs,              \* client addresses; NoIP, the empty one, is another
          Families,         \* the families of patterns of the instance
          EntropyScores,    \* normalised entropy scores
          CharScores,       \* scores of analyzeCharDistribution
          UserAgents,       \* kinds of User-Agent, a subset of UAScore's domain
          Lengths,          \* lengths of a URI, in units of 2048
          MaxReqPerMinute,  \* maxReqPerMinute (300)
          Minute,           \* a minute, in ticks of the model's clock
          MaxTime,          \* bound on the clock
          MaxCounted        \* bound on the requests of an address that count

VARIABLES
    now,
    ipFrequency,   \* ipFrequency[ip]: the counter of ip; Absent
    last,          \* the features and the result of an Evaluate that returns
    counted        \* counted[ip]: when requests of ip were counted and what
                   \* they scored for their rate (history)

vars == <<now, ipFrequency, last, counted>>

NoIP == "no ip"
Absent == [count |-> 0, windowStart |-> 0]
One == 10000

-----------------------------------------------------------------------------
(* checkPatterns: 0.9 for the first pattern of a family, anywhere.         *)
PatternScore == 9000

(* The weights of the families.                                            *)
Weight == [sqli |-> 80, xss |-> 80, traversal |-> 75, cmd |-> 80]

Part(score, weight) == (score * weight) \div 100

\* Mutant: only the first family that matches counts, and as the traversal.
PatternTotalFirst(families) == IF families = {} THEN 0 ELSE Part(PatternScore, 30)

PatternTotal(families) ==
    LET of(f) == IF f \in families THEN Part(PatternScore, Weight[f]) ELSE 0
    IN  of("sqli") + of("xss") + of("traversal") + of("cmd")

Cap(score) == IF score > One THEN One ELSE score

(* analyzeHeaders: none, one of a known tool, a short one (of a tool or    *)
(* not), an overlong one of a tool or not, an ordinary one.                *)
UAScore == [missing |-> 3000, tool |-> 8000, short |-> 2000, shortTool |-> 10000,
            long |-> 3000, longTool |-> 10000, ordinary |-> 0]

(* The sixth part: what is longer than 2048, up to 8192.                   *)
LengthScore(len) == IF len > 1 THEN Cap((len * One) \div 4) ELSE 0

ScorerConstants ==
    /\ NoIP \notin IPs /\ Families \subseteq DOMAIN Weight /\ UserAgents \subseteq DOMAIN UAScore
    /\ EntropyScores \subseteq 0 .. One /\ CharScores \subseteq 0 .. One /\ Lengths \subseteq Nat
    /\ MaxReqPerMinute \in 1 .. One /\ Minute \in Nat /\ MaxTime \in Nat

\* Mutant: the window of an address never ends.
CounterForever(ip) ==
    IF ipFrequency[ip] = Absent THEN [count |-> 1, windowStart |-> now]
    ELSE [ipFrequency[ip] EXCEPT !.count = @ + 1]

\* Mutant: the window moves on with every request.
CounterSliding(ip) ==
    IF ipFrequency[ip] = Absent \/ now - ipFrequency[ip].windowStart > Minute
    THEN [count |-> 1, windowStart |-> now]
    ELSE [count |-> ipFrequency[ip].count, windowStart |-> now]

(* checkRate: the counter of ip after a request ...                        *)
Counter(ip) ==
    IF ipFrequency[ip] = Absent \/ now - ipFrequency[ip].windowStart > Minute
    THEN [count |-> 1, windowStart |-> now]
    ELSE [ipFrequency[ip] EXCEPT !.count = @ + 1]

(* ... and its score: how far the rate is above the maximum.               *)
RateScore(c) ==
    IF c.count > MaxReqPerMinute
    THEN Cap(((c.count - MaxReqPerMinute) * One) \div MaxReqPerMinute) ELSE 0

ScoreThreshold(score) ==
    IF score >= 7000 THEN "block" ELSE IF score >= 4000 THEN "suspicious" ELSE "allow"

\* Mutant: the parts that are no evidence of an attack weigh as much.
AnomalyTotalHeavy(f, rate) ==
    Part(f.entropy, 80) + Part(f.chars, 10) + Part(UAScore[f.ua], 10) + Part(rate, 10)
      + Part(LengthScore(f.length), 5)

(* Parts 2 to 6.                                                           *)
AnomalyTotal(f, rate) ==
    Part(f.entropy, 15) + Part(f.chars, 10) + Part(UAScore[f.ua], 10) + Part(rate, 10)
      + Part(LengthScore(f.length), 5)

Features == [families: SUBSET Families, entropy: EntropyScores, chars: CharScores,
             ua: UserAgents, length: Lengths, ip: IPs \cup {NoIP}]

Init ==
    /\ now = 0
    /\ ipFrequency = [ip \in IPs |-> Absent]
    /\ last = <<>>
    /\ counted = [ip \in IPs |-> <<>>]

(* Enough evidence from patterns blocks at once, before the rate is        *)
(* counted and without a cap ...                                           *)
EvaluatePatterns(f) ==
    /\ PatternTotal(f.families) >= 7000
    /\ last' = <<f, PatternTotal(f.families), "block", 0>>
    /\ UNCHANGED <<now, ipFrequency, counted>>

(* ... and everything else is summed up.                                   *)
EvaluateAll(f) ==
    /\ PatternTotal(f.families) < 7000
    /\ f.ip # NoIP => Len(counted[f.ip]) < MaxCounted
    /\ LET c == IF f.ip = NoIP THEN Absent ELSE Counter(f.ip)
           score == Cap(PatternTotal(f.families) + AnomalyTotal(f, RateScore(c)))
       IN  /\ last' = <<f, score, ScoreThreshold(score), RateScore(c)>>
           /\ IF f.ip = NoIP THEN UNCHANGED <<ipFrequency, counted>>
              ELSE /\ ipFrequency' = [ipFrequency EXCEPT ![f.ip] = c]
                   /\ counted' = [counted EXCEPT ![f.ip] = Append(@, <<now, RateScore(c)>>)]
    /\ UNCHANGED now

(* The caller has the result and the lock is free.                         *)
Return ==
    /\ last # <<>>
    /\ last' = <<>>
    /\ UNCHANGED <<now, ipFrequency, counted>>

Tick ==
    /\ now < MaxTime
    /\ last = <<>>
    /\ now' = now + 1
    /\ UNCHANGED <<last, ipFrequency, counted>>

Next ==
    \/ Tick \/ Return
    \/ last = <<>> /\ \E f \in Features : EvaluatePatterns(f) \/ EvaluateAll(f)

Spec == Init /\ [][Next]_vars

-----------------------------------------------------------------------------
Answered == last # <<>>
Asked == last[1]
Verdict == last[3]

Since(ip, t) == {i \in 1 .. Len(counted[ip]) : counted[ip][i][1] >= t}

TypeOK ==
    /\ now \in 0 .. MaxTime
    /\ \A ip \in IPs : /\ ipFrequency[ip].count \in 0 .. Len(counted[ip])
                       /\ ipFrequency[ip].windowStart \in 0 .. now

(* No sum of the unsupervised parts reaches the threshold of a block: what *)
(* is blocked matched a pattern.                                           *)
BlockHasEvidence == (Answered /\ Verdict = "block") => Asked.families # {}

(* A request that matches a pattern is at least suspicious, whatever the   *)
(* other parts say, and every family but the traversal blocks.             *)
EvidenceCounts ==
    Answered => /\ Asked.families # {} => Verdict # "allow"
                /\ Asked.families \cap {"sqli", "xss", "cmd"} # {} => Verdict = "block"

(* An address scores for its rate only when more than the maximum of       *)
(* its requests were counted in its window, which is no older than a       *)
(* minute.                                                                 *)
RateJustified ==
    (Answered /\ Asked.ip # NoIP /\ PatternTotal(Asked.families) < 7000) =>
        LET start == ipFrequency[Asked.ip].windowStart
        IN  /\ now - start <= Minute
            /\ last[4] > 0 => Cardinality(Since(Asked.ip, start)) > MaxReqPerMinute

(* Windows are fixed, so that a burst may fall into two of them, but of    *)
(* more than twice the maximum of counted requests within a minute one has *)
(* scored for the rate.                                                    *)
RateNoticed ==
    \A ip \in IPs : \A i, j \in 1 .. Len(counted[ip]) :
        (j - i = 2 * MaxReqPerMinute /\ counted[ip][j][1] - counted[ip][i][1] <= Minute) =>
            \E k \in i .. j : counted[ip][k][2] > 0

(* BasicScorer: a verdict says what the patterns found and a score for the *)
(* rate what was counted, and neither passes over anything.                *)
ScoresJustified ==
    /\ BlockHasEvidence
    /\ EvidenceCounts
    /\ RateJustified
    /\ RateNoticed
=============================================================================
