--------------------------- MODULE MCRequestPath ---------------------------
(***************************************************************************)
(* Small instances of the parts of RequestPath for TLC.                    *)
(***************************************************************************)
EXTENDS RequestPath, TLC

CONSTANTS c1, n1, n2

(* Three tokens in a window of two ticks, so that a tick brings one and a  *)
(* half; buckets are forgotten after three idle ticks.                     *)
MCBucket == [clients |-> {c1}, limit |-> 3, window |-> 2, ttl |-> 3, interval |-> 2, maxTime |-> 7]

(* Windows of two ticks, a grace of one; commands come as late as they     *)
(* like.                                                                   *)
MCFleet == [nodes |-> {n1, n2}, limit |-> 1, window |-> 2, grace |-> 1,
            maxCount |-> 2, maxTime |-> 3]

(* Every combination of scores while the clock stands still; and the       *)
(* rate of an address over several minutes.                                *)
MCScores == [ips |-> {"ip1"}, families |-> {"sqli", "xss", "traversal", "cmd"},
             entropyScores |-> {0, 3000, 10000}, charScores |-> {0, 6000, 10000},
             userAgents |-> {"missing", "tool", "short", "shortTool", "long", "longTool", "ordinary"},
             lengths |-> {1, 2, 3, 5}, maxReqPerMinute |-> 2, minute |-> 2, maxTime |-> 0,
             maxCounted |-> 4]
MCRates == [ips |-> {"ip1"}, families |-> {"sqli", "traversal"}, entropyScores |-> {0},
            charScores |-> {0}, userAgents |-> {"ordinary"}, lengths |-> {1},
            maxReqPerMinute |-> 2, minute |-> 2, maxTime |-> 6, maxCounted |-> 7]

(* Two paths that differ in a number and in the query, and one of another  *)
(* group; a ring of three records.                                         *)
noQuery == [has |-> FALSE, amps |-> 0, eqs |-> 0]
MCLearning ==
    [maxSize |-> 3, paths |-> {"u1", "u2q", "home"}, ips |-> {"ip1", "ip2"},
     segments |-> [u1 |-> <<"user", "1">>, u2q |-> <<"user", "2">>, home |-> <<"home">>],
     kind |-> "user" :> "word" @@ "home" :> "word" @@ "1" :> "{id}" @@ "2" :> "{id}",
     query |-> [u1 |-> noQuery, u2q |-> [noQuery EXCEPT !.has = TRUE], home |-> noQuery],
     minPath |-> 2, safePath |-> 3, minIP |-> 2, busyIP |-> 3]

plain == [method |-> "GET", path |-> "/a", host |-> "h", ip |-> "ip1", validIP |-> TRUE,
          country |-> "ES", bot |-> FALSE, ctype |-> "", body |-> {}, badURI |-> FALSE,
          badBody |-> FALSE, upload |-> FALSE, headers |-> [UA |-> {"x"}],
          params |-> <<>>,
          gql |-> [form |-> "none", depth |-> 0, count |-> 0, introspects |-> FALSE,
                   suspicious |-> FALSE]]

(* A plain request; one that the country and the bot list both refuse; a   *)
(* GraphQL query that is too deep.                                         *)
MCRequest ==
    [plain |-> plain,
     geo |-> [plain EXCEPT !.country = "RU", !.bot = TRUE, !.path = "/b",
              !.params = <<<<"k", "1">>, <<"k", "2">>>>],
     deep |-> [plain EXCEPT !.method = "POST", !.ctype = "application/json", !.body = {"query"},
               !.gql = [form |-> "single", depth |-> 21, count |-> 1, introspects |-> FALSE,
                        suspicious |-> FALSE]]]

anyRule == [enabled |-> TRUE, action |-> "block", methods |-> {}, exact |-> "", pattern |-> {},
            hosts |-> {}, ips |-> {}, cidrs |-> {}, header |-> "", value |-> "",
            contains |-> "", param |-> "", paramValue |-> "", phase |-> "request", match |-> "f"]

(* Rules that block, log and are disabled.                                 *)
MCTemplates ==
    {[anyRule EXCEPT !.methods = {"GET"}, !.pattern = {"/a", "/b"}, !.hosts = {"h"},
                     !.ips = {"ip1", "ip2"}, !.cidrs = {{"ip1"}, {}}],
     [anyRule EXCEPT !.action = "log", !.exact = "/a", !.header = "UA", !.value = "x"],
     [anyRule EXCEPT !.enabled = FALSE],
     [anyRule EXCEPT !.param = "k", !.paramValue = "2"]}

(* A database that is there, one that cannot be opened, and one that is    *)
(* missing, with a list of allowed countries.                              *)
strict == [types |-> {}, geoMode |-> "block", allowed |-> {}, blocked |-> {"RU"},
           geoDB |-> "ok", botMode |-> "block"]
MCConfigs == {strict, [strict EXCEPT !.geoDB = "broken", !.botMode = "log"],
              [strict EXCEPT !.geoDB = "none", !.geoMode = "allow", !.allowed = {"ES"}, !.botMode = "log"]}

(* Three requests and two rules.                                           *)
MCChain == [reqs |-> {"plain", "geo", "deep"}, request |-> MCRequest, templates |-> MCTemplates,
            configs |-> MCConfigs, maxRules |-> 2, maxClock |-> 2]

(* Three policies, of which one is added again.                            *)
MCPolicy == [policies |-> {1, 2, 3}, maxAdds |-> 4]

(* Five events through a ring of three; what is "blocked" is to a query    *)
(* and to the statistics what "success", the result of a ban, is.          *)
MCQuery == [kinds |-> {[actor |-> "admin", action |-> "GET /api/config", result |-> "allowed"],
                       [actor |-> "admin", action |-> "firewall_ban", result |-> "success"],
                       [actor |-> "anonymous", action |-> "GET /api/config", result |-> "success"]},
            maxSize |-> 3, maxLimit |-> 2, defaultLimit |-> 1, maxEvents |-> 5]

(* Two requests of one client, two targets, every strategy.                *)
MCPool == [requests |-> {n1, n2}, client |-> [r \in {n1, n2} |-> "c1"], hash |-> [c1 |-> 5],
           maxTargets |-> 2, lbTypes |-> {"round_robin", "least_conn", "ip_hash"}]

Sym == Permutations({n1, n2})
=============================================================================
