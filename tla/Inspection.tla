----------------------------- MODULE Inspection -----------------------------
(***************************************************************************)
(* What handleEvaluate asks about a request, in detail: the plugins of the *)
(* chain, in the order of their priorities, then the custom rules, which   *)
(* an operator adds and deletes meanwhile, then the rules of the policy    *)
(* engine.  The scorer has a module of its own, and Sidecar has what       *)
(* becomes of the verdict.                                                 *)
(*                                                                         *)
(* A request is a record of what the checks find in it; see Request.       *)
(***************************************************************************)
EXTENDS Integers, Sequences, FiniteSets, SequencesExt

CONSTANTS Reqs,        \* requests
          Request,     \* Request[r]: what the checks find in r
          Templates,   \* the rules that an operator adds, see RuleMatches
          Configs,     \* configurations of the plugins
          MaxRules,    \* bound on the rules added
          MaxClock     \* bound on the clock

InspectionConstants == MaxRules \in Nat /\ MaxClock \in Nat

VARIABLES
    config,    \* the configuration of the plugins
    waiting,   \* plugins of the configuration that are not loaded yet
    chain,     \* byPhase[pre_request]
    lists,     \* the rules of the two engines
    clock, added,     \* the time in nanoseconds; how many rules were added
    pc, status, by, writes,  \* of each request: the stage, the answer, who
                             \* gave it and how often a header was written
    \* history
    steady,    \* steady[r]: the rules present since the evaluation began
    passed     \* passed[r][e]: the rule by which e let r pass, by serial number

plugs == <<config, waiting, chain>>
evals == <<pc, status, by, writes, steady, passed>>
vars == <<plugs, lists, clock, added, evals>>

Engines == {"rules", "policy"}

-----------------------------------------------------------------------------
(* The plugins                                                             *)
Priority == [validation |-> 25, geo |-> 50, bot |-> 75, rate |-> 100]

(* The plugins see the request to /evaluate; the sidecar passes on the     *)
(* original content type apart from its headers, which have none.          *)
OuterType == ""

GraphQLTypes == {"application/json", "application/graphql"}
UploadTypes == {"multipart/form-data", "image/png", "application/pdf"}

(* InspectGraphQL: a query that is too deep or introspects, or too many    *)
(* queries at once, or a suspicious variable.                              *)
GraphQLIssue(q) ==
    /\ q.ctype \in GraphQLTypes
    /\ \/ q.gql.form = "single" /\ (q.gql.depth > 20 \/ q.gql.introspects \/ q.gql.suspicious)
       \/ q.gql.form = "batch" /\ (q.gql.count > 10 \/ q.gql.introspects \/ q.gql.suspicious)

(* InspectFileUpload: a bad extension, type, signature or size.            *)
UploadIssue(q, ctype) == ctype \in UploadTypes /\ q.upload

Validation(q) ==
    CASE config.types # {} /\ q.ctype \notin config.types /\ q.body # {} -> 415
      [] q.badURI -> 403
      [] q.body # {} /\ (q.badBody \/ GraphQLIssue(q) \/ UploadIssue(q, OuterType)) -> 403
      [] OTHER -> 0

(* lookupCountry: without a database every country is unknown.             *)
Country(q) == IF config.geoDB = "none" THEN "XX" ELSE q.country

Geo(q) ==
    CASE ~q.validIP -> 0
      [] config.geoMode = "allow" /\ config.allowed # {} ->
             IF Country(q) \in config.allowed THEN 0 ELSE 403
      [] OTHER -> IF Country(q) \in config.blocked THEN 403 ELSE 0

Bot(q) == IF q.bot /\ config.botMode = "block" THEN 403 ELSE 0

(* What a plugin may answer: 0 lets the request pass.  The limiter is a    *)
(* module of its own, and here a choice.                                   *)
Answers(p, q) ==
    CASE p = "validation" -> {Validation(q)}
      [] p = "geo" -> {Geo(q)}
      [] p = "bot" -> {Bot(q)}
      [] p = "rate" -> IF q.ip = "" THEN {0} ELSE {0, 429}

(* Registry.Create: a plugin whose Init fails is skipped.                  *)
Loads(p) == p # "geo" \/ config.geoDB # "broken"

\* Mutant: the chain keeps the order of the configuration.
ChainAddLast(c, p) == Append(c, p)

(* Chain.Add: a stable sort by priority.                                   *)
ChainAdd(c, p) ==
    LET k == Cardinality({i \in DOMAIN c : Priority[c[i]] <= Priority[p]})
    IN  InsertAt(c, k + 1, p)

LoadPlugin(p) ==
    /\ p \in waiting
    /\ waiting' = waiting \ {p}
    /\ chain' = IF Loads(p) THEN ChainAdd(chain, p) ELSE chain
    /\ UNCHANGED <<config, lists, clock, added, evals>>

-----------------------------------------------------------------------------
(* matchRule of the custom rules.  An empty condition holds.  A pattern is *)
(* the set of its paths and a CIDR the set of its addresses; a CIDR that   *)
(* does not parse is skipped.                                              *)
RuleMatches(t, q) ==
    /\ t.methods # {} => q.method \in t.methods
    /\ t.exact # "" => q.path = t.exact
    /\ t.pattern # {} => q.path \in t.pattern
    /\ t.hosts # {} => q.host \in t.hosts
    /\ t.ips # {} => q.ip \in t.ips
    /\ \A c \in t.cidrs : c # {} => q.validIP /\ q.ip \in c
    /\ t.header # "" => \/ t.value = ""
                        \/ t.header \in DOMAIN q.headers /\ t.value \in q.headers[t.header]
    /\ t.contains # "" => t.contains \in q.body
    /\ t.param # "" => \E i \in DOMAIN q.params :
                           /\ q.params[i][1] = t.param
                           /\ \A j \in 1 .. i - 1 : q.params[j][1] # t.param
                           /\ t.paramValue # "" => q.params[i][2] = t.paramValue

(* A rule of the policy engine has a phase and a function for its match.   *)
PolicyMatches(t, q) == t.phase = "request" /\ t.match # "nil" /\ RuleMatches(t, q)

MatchesIn(e, t, q) == t.enabled /\ IF e = "rules" THEN RuleMatches(t, q) ELSE PolicyMatches(t, q)

Pass == [action |-> "allow", serial |-> 0]

\* Mutant: a rule of the engine is skipped after one that only logs.
EvaluateSkip(e, q) ==
    LET hits == {i \in DOMAIN lists[e] : MatchesIn(e, lists[e][i].rule, q) /\
                                         \A j \in 1 .. i - 1 : lists[e][j].rule.action # "log"}
    IN  IF hits = {} THEN Pass
        ELSE LET i == CHOOSE i \in hits : \A j \in hits : i <= j
             IN  [action |-> lists[e][i].rule.action, serial |-> lists[e][i].serial]

(* Evaluate, under the read lock: the first rule that matches decides.     *)
Evaluate(e, q) ==
    LET hits == {i \in DOMAIN lists[e] : MatchesIn(e, lists[e][i].rule, q)}
    IN  IF hits = {} THEN Pass
        ELSE LET i == CHOOSE i \in hits : \A j \in hits : i <= j
             IN  [action |-> lists[e][i].rule.action, serial |-> lists[e][i].serial]

RuleSet(l) == UNION {{[id |-> l[e][i].id, serial |-> l[e][i].serial, rule |-> l[e][i].rule, engine |-> e] :
                      i \in DOMAIN l[e]} : e \in Engines}

(* handleRulesAdd and AddRule: the id of a custom rule is the time.        *)
AddRule(e, t) ==
    /\ added < MaxRules
    /\ added' = added + 1
    /\ lists' = [lists EXCEPT ![e] = Append(@, [id |-> clock, serial |-> added + 1, rule |-> t])]
    /\ UNCHANGED <<plugs, clock, pc, status, by, writes, steady, passed>>

(* handleRulesDelete and RemoveRule: the first rule with the id.           *)
RemoveRule(e, id) ==
    /\ \E i \in DOMAIN lists[e] : lists[e][i].id = id
    /\ LET k == CHOOSE i \in DOMAIN lists[e] :
                    lists[e][i].id = id /\ \A j \in 1 .. i - 1 : lists[e][j].id # id
       IN  lists' = [lists EXCEPT ![e] = RemoveAt(@, k)]
    /\ steady' = [r \in Reqs |-> steady[r] \cap RuleSet(lists')]
    /\ UNCHANGED <<plugs, clock, added, pc, status, by, writes, passed>>

Tick ==
    /\ clock < MaxClock
    /\ clock' = clock + 1
    /\ UNCHANGED <<plugs, lists, added, evals>>

-----------------------------------------------------------------------------
Answer(r, code, who) ==
    /\ pc' = [pc EXCEPT ![r] = "done"]
    /\ status' = [status EXCEPT ![r] = code]
    /\ by' = [by EXCEPT ![r] = who]
    /\ writes' = [writes EXCEPT ![r] = @ + 1]

(* Chain.Execute: the first plugin that returns an error ends it.  It has  *)
(* written the answer itself and set StatusCode, so that handleEvaluate    *)
(* writes none.                                                            *)
EvalChain(r) ==
    /\ waiting = {}
    /\ pc[r] = "new"
    /\ \/ /\ \A i \in DOMAIN chain : 0 \in Answers(chain[i], Request[r])
          /\ pc' = [pc EXCEPT ![r] = "rules"]
          /\ UNCHANGED <<status, by, writes>>
       \/ \E i \in DOMAIN chain :
             /\ \A j \in 1 .. i - 1 : 0 \in Answers(chain[j], Request[r])
             /\ \E code \in Answers(chain[i], Request[r]) \ {0} : Answer(r, code, chain[i])
    /\ steady' = [steady EXCEPT ![r] = RuleSet(lists)]
    /\ UNCHANGED <<plugs, lists, clock, added, passed>>

(* The stages of the two engines.  "log" lets a request pass.              *)
EvalEngine(r, e) ==
    /\ pc[r] = e
    /\ LET res == Evaluate(e, Request[r])
       IN  IF res.action \in {"allow", "log"}
           THEN IF e = "rules"
                THEN pc' = [pc EXCEPT ![r] = "policy"] /\ UNCHANGED <<status, by, writes>>
                ELSE Answer(r, 204, "nobody")
           ELSE Answer(r, 403, e)
    /\ passed' = [passed EXCEPT ![r][e] = Evaluate(e, Request[r]).serial]
    /\ UNCHANGED <<plugs, lists, clock, added, steady>>

-----------------------------------------------------------------------------
Init ==
    /\ config \in Configs
    /\ waiting = DOMAIN Priority
    /\ chain = <<>>
    /\ lists = [e \in Engines |-> <<>>]
    /\ clock = 1 /\ added = 0
    /\ pc = [r \in Reqs |-> "new"]
    /\ status = [r \in Reqs |-> 0]
    /\ by = [r \in Reqs |-> "nobody"]
    /\ writes = [r \in Reqs |-> 0]
    /\ steady = [r \in Reqs |-> {}]
    /\ passed = [r \in Reqs |-> [e \in Engines |-> 0]]

Operator ==
    \/ \E e \in Engines, t \in Templates : AddRule(e, t)
    \/ \E e \in Engines, id \in 1 .. MaxClock : RemoveRule(e, id)
    \/ Tick

Next ==
    \/ \E p \in waiting : LoadPlugin(p)
    \/ waiting = {} /\ Operator
    \/ \E r \in Reqs : EvalChain(r) \/ \E e \in Engines : EvalEngine(r, e)

Spec == Init /\ [][Next]_vars

-----------------------------------------------------------------------------
TypeOK ==
    /\ pc \in [Reqs -> {"new", "rules", "policy", "done"}]
    /\ status \in [Reqs -> {0, 204, 403, 415, 429}]
    /\ writes \in [Reqs -> 0 .. 1]
    /\ added \in 0 .. MaxRules

(* Whatever the order of the configuration, no plugin lets pass what it    *)
(* refuses, and of those that refuse a request the first by priority       *)
(* answers it, once.                                                       *)
PluginsEnforced ==
    \A r \in Reqs : pc[r] # "new" =>
        LET refusing == {p \in ToSet(chain) : 0 \notin Answers(p, Request[r])}
        IN  /\ refusing # {} => by[r] \in ToSet(chain)
            /\ by[r] \in ToSet(chain) =>
                   \A p \in refusing : Priority[by[r]] <= Priority[p]

(* A blocking rule that is there from the beginning of an evaluation to    *)
(* its end is not passed by, unless a rule added before it matched first,  *)
(* whatever is added and deleted meanwhile.                                *)
SteadyRuleBlocks ==
    \A r \in Reqs : \A s \in steady[r] :
        (pc[r] = "done" /\ status[r] = 204 /\ s.rule.action = "block"
           /\ MatchesIn(s.engine, s.rule, Request[r])) =>
            passed[r][s.engine] \in 1 .. s.serial - 1

(* handleEvaluate: what a plugin or a rule refuses is refused, while the   *)
(* plugins come in any order and the rules change.                         *)
InspectionSound ==
    /\ PluginsEnforced
    /\ SteadyRuleBlocks
=============================================================================
