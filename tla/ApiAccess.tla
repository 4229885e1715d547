----------------------------- MODULE ApiAccess ------------------------------
(***************************************************************************)
(* Who may do what over the management API, and what the audit log says of *)
(* it: logins and the tokens they issue, the tokens of OIDC providers, the *)
(* middleware that checks them, roles and scopes, preflight requests, and  *)
(* the audit middleware around it all.  An update of the configuration or  *)
(* a reload replaces the users, the secret and the providers meanwhile.    *)
(*                                                                         *)
(* A token is a record: who signed it, for whom, with which role and       *)
(* scopes, and when it expires.  Signatures are taken to be unforgeable.   *)
(***************************************************************************)
EXTENDS Integers, Sequences, FiniteSets

CONSTANTS Users, Idps, Requests,
          TTL,         \* token_ttl
          MaxClock,    \* bound on the clock
          MaxTokens,   \* bound on the tokens that do not come from a login
          MaxSecrets   \* bound on the secrets that the file has in turn

ApiAccessConstants ==
    /\ TTL \in Nat \ {0}
    /\ MaxClock \in Nat /\ MaxTokens \in Nat /\ MaxSecrets \in Nat \ {0}

VARIABLES
    up, secret, providers,  \* the process; its Manager and OIDCManager
    users, configMu,        \* its configuration and the lock, held or not
    file,                   \* the configuration on disk: users and secret
    clock,
    tokens,                 \* the tokens there are
    pc, route, cred, code,  \* of each request: the stage, the route, the
                            \* token or user it comes with, the answer
    log,                    \* the audit log, by request
    \* history
    checked,                \* when the token of a request was checked
    found,                  \* found[r]: the login under way found its user
    seen,                   \* seen[r]: the secrets and providers there have been
                            \* from the arrival of r until its check
    entitled                \* entitled[u]: when u was last taken out, or a
                            \* login that had found u before was answered

server == <<up, secret, providers, users, configMu, file>>
requests == <<pc, route, cred, code, log, checked, found, seen>>
vars == <<server, clock, tokens, requests, entitled>>

Never == -1
NoToken == [by |-> "nobody"]

Init ==
    /\ up = FALSE /\ secret = 1 /\ providers = {}
    /\ users = {} /\ configMu = FALSE /\ file = [users |-> Users, secret |-> 1]
    /\ entitled = [u \in Users |-> Never]
    /\ clock = 0 /\ tokens = {}
    /\ pc = [r \in Requests |-> "new"]
    /\ route = [r \in Requests |-> "health"]
    /\ cred = [r \in Requests |-> NoToken]
    /\ code = [r \in Requests |-> 0]
    /\ log = [r \in Requests |-> <<>>]
    /\ checked = [r \in Requests |-> Never]
    /\ found = [r \in Requests |-> FALSE]
    /\ seen = [r \in Requests |-> {}]

(* What tokens are checked with, and what a token is signed by.            *)
Keys(k, idps) == {<<"secret", k>>} \cup {<<"provider", i>> : i \in idps}
SignedBy(t) == <<IF t.by = "idp" THEN "provider" ELSE "secret", t.key>>

(* The requests that wait to be checked see what comes into force.         *)
Sighted(keys) == seen' = [r \in Requests |-> IF pc[r] = "auth" THEN seen[r] \cup keys ELSE seen[r]]

(* Users that a change of the configuration takes out.                     *)
Entitle(new) == entitled' = [u \in Users |-> IF u \in users \ new THEN clock ELSE entitled[u]]

(* NewServer and OIDCManager.Configure: a provider that does not answer is *)
(* left out until the configuration is read again.                         *)
Start ==
    /\ ~up
    /\ up' = TRUE /\ secret' = file.secret /\ users' = file.users
    /\ providers' \in SUBSET Idps
    /\ Entitle(file.users)
    /\ UNCHANGED <<configMu, file, clock, tokens, requests>>

(* Requests under way are lost with the process.                           *)
Stop ==
    /\ up
    /\ up' = FALSE
    /\ LET kept(f, none) == [r \in Requests |-> IF pc[r] \in {"new", "done"} THEN f[r] ELSE none]
       IN  /\ pc' = kept(pc, "lost")
           /\ route' = kept(route, "health")
           /\ cred' = kept(cred, NoToken)
           /\ code' = kept(code, 0)
           /\ checked' = kept(checked, Never)
           /\ found' = kept(found, FALSE)
           /\ seen' = kept(seen, {})
    /\ configMu' = FALSE
    /\ UNCHANGED <<secret, providers, users, file, clock, tokens, log, entitled>>

-----------------------------------------------------------------------------
\* Mutant: the signature is not compared with that of the secret.
ValidateUnsigned(t) == t.by \in {"login", "operator"} /\ clock < t.exp

\* Mutant: a provider that is no longer configured is asked.
VerifyOld(t) == t.by = "idp" /\ clock <= t.exp

\* Mutant: a login may ingest events too.
LoginTokenAll(u) == [by |-> "login", key |-> secret, user |-> u, role |-> "admin",
                     scopes |-> {"read", "write", "events:write"}, exp |-> clock + TTL]

(* GenerateToken as handleLogin calls it.                                  *)
LoginToken(u) == [by |-> "login", key |-> secret, user |-> u, role |-> "admin",
                  scopes |-> {"read", "write"}, exp |-> clock + TTL]

(* A service's token is signed by the operator, and that of a person whom  *)
(* a provider knows by the provider.                                       *)
ServiceToken == [by |-> "operator", key |-> file.secret, user |-> "service", role |-> "service",
                 scopes |-> {"events:write"}, exp |-> clock + TTL]
IdpToken(i, u, groups) == [by |-> "idp", key |-> i, user |-> u, groups |-> groups, exp |-> clock + TTL]

Issue ==
    /\ Cardinality({t \in tokens : t.by # "login"}) < MaxTokens
    /\ \/ tokens' = tokens \cup {ServiceToken}
       \/ \E i \in Idps, u \in Users, g \in {{}, {"waffynx-admin"}} :
             tokens' = tokens \cup {IdpToken(i, u, g)}
    /\ UNCHANGED <<server, clock, requests, entitled>>

(* Manager.ValidateToken and the verifiers of OIDCManager.ValidateToken.   *)
Validate(t) == t.by \in {"login", "operator"} /\ t.key = secret /\ clock < t.exp

Verify(t) == t.by = "idp" /\ t.key \in providers /\ clock <= t.exp

(* The claims that authMiddleware puts into the context, or none.          *)
Claims(t) ==
    CASE Verify(t) ->
           [user |-> t.user, scopes |-> {"read", "write"},
            role |-> IF t.groups \cap {"admin", "waffynx-admin"} # {} THEN "admin" ELSE "viewer"]
      [] Validate(t) -> [user |-> t.user, scopes |-> t.scopes, role |-> t.role]
      [] OTHER -> NoToken

(* requireRole("admin") and requireScope("events:write").                  *)
Demands(rt, c) ==
    /\ rt = "admin" => c.role = "admin"
    /\ rt = "ingest" => "events:write" \in c.scopes

-----------------------------------------------------------------------------
(* corsMiddleware, which every route but health has, reads the             *)
(* configuration and waits for its lock.  A preflight it answers itself.   *)
Arrive(r, rt, c) ==
    /\ up /\ pc[r] = "new"
    /\ rt # "health" => ~configMu
    /\ pc' = [pc EXCEPT ![r] = IF rt \in {"health", "login", "preflight"} THEN "handle" ELSE "auth"]
    /\ route' = [route EXCEPT ![r] = rt]
    /\ cred' = [cred EXCEPT ![r] = c]
    /\ seen' = [seen EXCEPT ![r] = IF pc'[r] = "auth" THEN Keys(secret, providers) ELSE {}]
    /\ UNCHANGED <<server, clock, tokens, code, log, checked, found, entitled>>

(* authMiddleware, which reads the managers without the lock, and then the *)
(* demands of the route.                                                   *)
Authorise(r) ==
    /\ pc[r] = "auth"
    /\ LET c == Claims(cred[r])
           answer == CASE c = NoToken -> 401
                       [] c # NoToken /\ ~Demands(route[r], c) -> 403
                       [] OTHER -> 0
       IN  /\ code' = [code EXCEPT ![r] = answer]
           /\ pc' = [pc EXCEPT ![r] = IF answer = 0 THEN "handle" ELSE "audit"]
           /\ seen' = IF answer = 0 THEN seen ELSE [seen EXCEPT ![r] = {}]
    /\ checked' = [checked EXCEPT ![r] = clock]
    /\ UNCHANGED <<server, clock, tokens, route, cred, log, found, entitled>>

\* Mutant: any user with the right password is let in.
LoginCodeStale(u, given) == IF given = "right" THEN 0 ELSE 401

(* handleLogin, by what is given as the password, with the users of this   *)
(* moment; 0 is for going on.                                              *)
LoginCode(u, given) ==
    CASE given = "missing" -> 400
      [] given # "missing" /\ users = {} -> 501
      [] u \in users /\ given = "right" -> 0
      [] OTHER -> 401

HandleLogin(r) ==
    /\ pc[r] = "handle" /\ route[r] = "login" /\ ~configMu
    /\ \E given \in {"missing", "wrong", "right"} :
         LET c == LoginCode(cred[r].user, given)
         IN  /\ code' = [code EXCEPT ![r] = c]
             /\ pc' = [pc EXCEPT ![r] = IF c = 0 THEN "sign" ELSE "audit"]
             /\ found' = [found EXCEPT ![r] = c = 0 /\ cred[r].user \in users]
    /\ UNCHANGED <<server, clock, tokens, route, cred, log, checked, seen, entitled>>

(* It signs the token after the comparison of the password, with whatever  *)
(* manager there is then.                                                  *)
SignToken(r) ==
    /\ pc[r] = "sign"
    /\ tokens' = tokens \cup {LoginToken(cred[r].user)}
    /\ code' = [code EXCEPT ![r] = 200]
    /\ pc' = [pc EXCEPT ![r] = "audit"]
    /\ entitled' = IF found[r] THEN [entitled EXCEPT ![cred[r].user] = clock] ELSE entitled
    /\ found' = [found EXCEPT ![r] = FALSE]
    /\ UNCHANGED <<server, clock, route, cred, log, checked, seen>>

(* The other handlers: a preflight is answered by its origin; a handler    *)
(* with a body may find it wrong.                                          *)
Handle(r) ==
    /\ pc[r] = "handle" /\ route[r] # "login"
    /\ pc' = [pc EXCEPT ![r] = "audit"]
    /\ \E c \in CASE route[r] = "preflight" -> {204, 403}
                   [] route[r] \in {"admin", "ingest"} -> {200, 400}
                   [] OTHER -> {200} :
         code' = [code EXCEPT ![r] = c]
    /\ UNCHANGED <<server, clock, tokens, route, cred, log, checked, found, seen, entitled>>

(* The claims are in the context of the request that the handler got, not  *)
(* in that of the request which auditMiddleware has.                       *)
Recorded(r) == [actor |-> "anonymous", result |-> IF code[r] >= 400 THEN "blocked" ELSE "allowed"]

Audit(r) ==
    /\ pc[r] = "audit"
    /\ log' = [log EXCEPT ![r] = Append(@, Recorded(r))]
    /\ pc' = [pc EXCEPT ![r] = "done"]
    /\ UNCHANGED <<server, clock, tokens, route, cred, code, checked, found, seen, entitled>>

-----------------------------------------------------------------------------
(* handleUpdateConfig and the reload: under the lock, the manager of the   *)
(* tokens is replaced, the providers are asked, and then readers get the   *)
(* new users.                                                              *)
Reconfigure(c) ==
    /\ up /\ ~configMu /\ c # file
    /\ configMu' = TRUE
    /\ file' = c
    /\ secret' = c.secret
    /\ Sighted(Keys(c.secret, providers))
    /\ UNCHANGED <<up, providers, users, clock, tokens, pc, route, cred, code, log, checked, found, entitled>>

Reconfigured ==
    /\ configMu
    /\ configMu' = FALSE
    /\ users' = file.users
    /\ providers' \in SUBSET Idps
    /\ Entitle(file.users)
    /\ Sighted(Keys(secret, providers'))
    /\ UNCHANGED <<up, secret, file, clock, tokens, pc, route, cred, code, log, checked, found>>

Tick ==
    /\ clock < MaxClock
    /\ clock' = clock + 1
    /\ UNCHANGED <<server, tokens, requests, entitled>>

Next ==
    \/ Start \/ Stop \/ Issue \/ Reconfigured \/ Tick
    \/ \E s \in SUBSET Users, k \in {file.secret, file.secret + 1} :
         k <= MaxSecrets /\ Reconfigure([users |-> s, secret |-> k])
    \/ \E r \in Requests :
         \/ \E u \in Users : Arrive(r, "login", [by |-> "nobody", user |-> u])
         \/ \E rt \in {"health", "preflight"} : Arrive(r, rt, NoToken)
         \/ \E rt \in {"read", "admin", "ingest"}, t \in tokens \cup {NoToken} : Arrive(r, rt, t)
         \/ Authorise(r) \/ HandleLogin(r) \/ SignToken(r) \/ Handle(r) \/ Audit(r)

Spec == Init /\ [][Next]_vars

-----------------------------------------------------------------------------
TypeOK ==
    /\ pc \in [Requests -> {"new", "auth", "handle", "sign", "audit", "done", "lost"}]
    /\ code \in [Requests -> {0, 200, 204, 400, 401, 403, 501}]
    /\ users \subseteq Users /\ providers \subseteq Idps
    /\ secret \in 1 .. file.secret
    /\ \A r \in Requests : Len(log[r]) <= 1
    /\ \A r \in Requests : seen[r] \subseteq UNION {Keys(k, Idps) : k \in 1 .. file.secret}

Performed(r) == pc[r] \in {"audit", "done"} /\ code[r] \in {200, 400}

(* requireRole: what only an administrator may do is done for a person     *)
(* whom a provider counts among the administrators, or for a user who has  *)
(* logged in; and a user whom a configuration takes out is out when the    *)
(* life of a token has passed since then, or since the end of a login that *)
(* was under way, whatever restarts, reloads and requests there are.       *)
AdminJustified ==
    \A r \in Requests : Performed(r) /\ route[r] = "admin" =>
        \/ cred[r].by = "idp" /\ cred[r].groups # {} /\ checked[r] <= cred[r].exp
        \/ /\ cred[r].by = "login"
           /\ \/ cred[r].user \in users
              \/ checked[r] < entitled[cred[r].user] + TTL

(* requireScope: "Dedicated credential and scope, never browser token".    *)
(* Events are ingested only with a token that the operator signed.         *)
IngestByService ==
    \A r \in Requests : Performed(r) /\ route[r] = "ingest" => cred[r].by = "operator"

(* authMiddleware: a request with a token is only served if the secret or  *)
(* the provider that the token is signed by was there at some moment from  *)
(* its arrival on: one that was replaced or taken out before is no good,   *)
(* whatever came of the token and of the server before.                    *)
KeysCurrent ==
    \A r \in Requests : Performed(r) /\ route[r] \in {"read", "admin", "ingest"} => SignedBy(cred[r]) \in seen[r]

(* The API server: what was done was done for somebody who might, with a   *)
(* token that was still good.                                              *)
AccessJustified ==
    /\ AdminJustified
    /\ IngestByService
    /\ KeysCurrent
=============================================================================
