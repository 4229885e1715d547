------------------------------ MODULE Learning ------------------------------
(***************************************************************************)
(* The learning engine of the sidecar: a ring of the last requests and     *)
(* their verdicts, and what it suggests to the operator from them.  Record *)
(* holds the write lock and every reader the read lock, so that each is    *)
(* one step.                                                               *)
(*                                                                         *)
(* Rates are compared by cross multiplication.  The thresholds on counts,  *)
(* literals in the code, are constants, to be small in the instances.      *)
(***************************************************************************)
EXTENDS Ring, Sequences, FiniteSets

CONSTANTS Paths,        \* request paths
          Segments,     \* Segments[p]: the segments of p before its query
          Kind,         \* Kind[s]: whether a segment is a number, a uuid, a hash
          Query,        \* Query[p]: [has, amps, eqs]: a "?", how many "&" and "="
          IPs,
          MinPath,      \* requests of a path before it is judged (10)
          SafePath,     \* requests of a path to be called safe (50)
          MinIP,        \* requests of an address before it is judged (5)
          BusyIP        \* requests of an address to be called busy (50)

LearningConstants ==
    /\ MaxSize \in Nat \ {0} /\ Paths # {} /\ IPs # {}
    /\ MinPath \in Nat /\ SafePath \in Nat /\ MinPath <= SafePath
    /\ MinIP \in Nat \ {0} /\ BusyIP \in Nat

VARIABLES ring,         \* records, position
          enabled,
          recent        \* the requests recorded, the last MaxSize (history)

vars == <<ring, enabled, recent>>

Record == [path: Paths, ip: IPs, verdict: {"allow", "block"}]
Blank == [path |-> CHOOSE p \in Paths : TRUE, ip |-> CHOOSE i \in IPs : TRUE, verdict |-> "allow"]

Init ==
    /\ ring = NewRing(Blank)
    /\ enabled = TRUE
    /\ recent = <<>>

(* Engine.Record                                                           *)
RecordRequest(r) ==
    /\ IF enabled
       THEN /\ ring' = Push(ring, r)
            /\ recent' = Append(IF Len(recent) = MaxSize THEN Tail(recent) ELSE recent, r)
       ELSE UNCHANGED <<ring, recent>>
    /\ UNCHANGED enabled

(* Enable and Disable                                                      *)
Switch ==
    /\ enabled' = ~enabled
    /\ UNCHANGED <<ring, recent>>

Next == Switch \/ \E r \in Record : RecordRequest(r)

Spec == Init /\ [][Next]_vars

-----------------------------------------------------------------------------
\* Mutant: the query takes part in the grouping.
normalizePathWhole(p) == <<p>>

(* normalizePath: numbers, uuids and hashes are one path; the query is not *)
(* part of it.                                                             *)
normalizePath(p) ==
    [i \in DOMAIN Segments[p] |->
        IF Kind[Segments[p][i]] = "word" THEN Segments[p][i] ELSE Kind[Segments[p][i]]]

Groups == {normalizePath(p) : p \in Paths}

(* The records of a group of paths, of an address; those that are blocked. *)
OfGroup(g) == {i \in Used(ring) : normalizePath(ring.slot[i].path) = g}
OfIP(ip) == {i \in Used(ring) : ring.slot[i].ip = ip}
BlockedOf(S) == {i \in S : ring.slot[i].verdict = "block"}

Stats == [total |-> ring.len, allowed |-> ring.len - Cardinality(BlockedOf(Used(ring))),
          blocked |-> Cardinality(BlockedOf(Used(ring)))]

(* A suggestion, for a path or for an address, which is a path of one      *)
(* segment here; its confidence is num / den.                              *)
Suggest(type, pattern, num, den, matches) ==
    [type |-> type, pattern |-> pattern, num |-> num, den |-> den, matches |-> matches]

(* A tenth of the requests of a path blocked, or none of many.             *)
analyzeWhitelist ==
    LET n(g) == Cardinality(OfGroup(g))
        b(g) == Cardinality(BlockedOf(OfGroup(g)))
    IN  {Suggest("false positives", g, b(g), n(g), b(g)) :
             g \in {g \in Groups : n(g) >= MinPath /\ 10 * b(g) > n(g)}}
        \cup
        {Suggest("safe", g, 95, 100, n(g)) :
             g \in {g \in Groups : n(g) >= MinPath /\ b(g) = 0 /\ n(g) >= SafePath}}

\* Mutant: an address is judged by a single request.
analyzeBlocklistHasty ==
    LET n(ip) == Cardinality(OfIP(ip))
        b(ip) == Cardinality(BlockedOf(OfIP(ip)))
    IN  {Suggest("blocklist", <<ip>>, b(ip), n(ip), b(ip)) :
             ip \in {ip \in IPs : b(ip) > 0 /\ 10 * b(ip) >= 8 * n(ip)}}

(* Four fifths of the requests of an address blocked.                      *)
analyzeBlocklist ==
    LET n(ip) == Cardinality(OfIP(ip))
        b(ip) == Cardinality(BlockedOf(OfIP(ip)))
    IN  {Suggest("blocklist", <<ip>>, b(ip), n(ip), b(ip)) :
             ip \in {ip \in IPs : n(ip) >= MinIP /\ b(ip) > 0 /\ 10 * b(ip) >= 8 * n(ip)}}

(* Many requests, and a tenth of all, from an address.                     *)
analyzeRate ==
    LET n(ip) == Cardinality(OfIP(ip))
    IN  {Suggest("rate_limit", <<ip>>, 5 * n(ip), ring.len, n(ip)) :
             ip \in {ip \in IPs : n(ip) >= BusyIP /\ 10 * n(ip) > ring.len}}

Suggestions == analyzeWhitelist \cup analyzeBlocklist \cup analyzeRate

(* ExportDataset, in the order of the slots; the count of parameters is    *)
(* one more than that of "&", except in a query without "=".               *)
QueryParams(p) == IF Query[p].has /\ Query[p].eqs = 0 THEN 0 ELSE Query[p].amps + 1

\* Mutant: the export starts at the oldest record and does not go around.
ExportFromCursor ==
    [i \in 1 .. ring.len - ring.pos |->
        [path |-> ring.slot[ring.pos + i - 1].path, label |-> ring.slot[ring.pos + i - 1].verdict,
         params |-> QueryParams(ring.slot[ring.pos + i - 1].path)]]

ExportDataset ==
    [i \in 1 .. ring.len |->
        [path |-> ring.slot[i - 1].path, label |-> ring.slot[i - 1].verdict,
         params |-> QueryParams(ring.slot[i - 1].path)]]

-----------------------------------------------------------------------------
TypeOK ==
    /\ ring.len \in 0 .. MaxSize
    /\ ring.pos \in Slots
    /\ \A i \in Slots : ring.slot[i] \in Record

(* What a path or an address has done in the last MaxSize requests.        *)
Did(p(_)) == Cardinality({i \in DOMAIN recent : p(recent[i])})
IsBlock(r) == r.verdict = "block"

(* Every suggestion is earned by the last MaxSize requests that were       *)
(* recorded, all of them: also when the ring has wrapped around and when   *)
(* recording was off for a while, no path is called safe that was blocked  *)
(* in them, and no address is to be blocked or limited for what it did     *)
(* before them.  Only the confidence of a limit exceeds one, up to five.   *)
SuggestionsEarned ==
    \A s \in Suggestions :
        LET In(r) == IF s.type \in {"safe", "false positives"} THEN normalizePath(r.path) = s.pattern
                     ELSE <<r.ip>> = s.pattern
            Bad(r) == In(r) /\ IsBlock(r)
        IN  CASE s.type = "safe" -> Did(Bad) = 0 /\ Did(In) >= SafePath
              [] s.type = "false positives" -> Did(Bad) > 0 /\ Did(In) >= MinPath
              [] s.type = "blocklist" -> Did(In) >= MinIP /\ 5 * Did(Bad) >= 4 * Did(In)
              [] s.type = "rate_limit" -> Did(In) >= BusyIP /\ s.num <= 5 * s.den

(* Two segments are one if they are equal, or of one kind, or if one is    *)
(* spelled as the placeholder for the kind of the other.                   *)
SameSegment(s, t) ==
    \/ s = t
    \/ Kind[s] # "word" /\ Kind[s] = Kind[t]
    \/ Kind[s] = "word" /\ Kind[t] # "word" /\ s = Kind[t]
    \/ Kind[t] = "word" /\ Kind[s] # "word" /\ t = Kind[s]

SameGroup(p, q) ==
    /\ DOMAIN Segments[p] = DOMAIN Segments[q]
    /\ \A i \in DOMAIN Segments[p] : SameSegment(Segments[p][i], Segments[q][i])

(* An address whose requests were all blocked is in the suggestions, and   *)
(* so is a path that never was, however its requests differ in the numbers *)
(* of their paths and in their queries.                                    *)
NothingMissed ==
    /\ \A ip \in IPs :
         LET In(r) == r.ip = ip
             Good(r) == In(r) /\ ~IsBlock(r)
         IN  (Did(In) >= MinIP /\ Did(Good) = 0) =>
                 \E s \in Suggestions : s.type = "blocklist" /\ s.pattern = <<ip>>
    /\ \A p \in Paths :
         LET In(r) == SameGroup(r.path, p)
             Bad(r) == In(r) /\ IsBlock(r)
         IN  (Did(In) >= SafePath /\ Did(Bad) = 0) =>
                 \E s \in Suggestions : s.type = "safe" /\ s.pattern = normalizePath(p)

(* The statistics and the dataset account for those requests, no more and  *)
(* no less.                                                                *)
ExportComplete ==
    /\ Stats.total = Len(recent) /\ Stats.blocked = Did(IsBlock)
    /\ \A p \in Paths : \A v \in {"allow", "block"} :
         LET Same(r) == r.path = p /\ r.verdict = v
         IN  Cardinality({i \in DOMAIN ExportDataset :
                 ExportDataset[i].path = p /\ ExportDataset[i].label = v}) = Did(Same)

(* The learning engine: suggestions, statistics and dataset say of the     *)
(* last MaxSize requests what is true of them, and all of it.              *)
LearningSound ==
    /\ SuggestionsEarned
    /\ NothingMissed
    /\ ExportComplete
=============================================================================
