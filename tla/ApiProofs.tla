---------------------------- MODULE ApiProofs -------------------------------
(***************************************************************************)
(* The firewall bans and the access to the API server, for every number of *)
(* addresses, rules, users, providers, tokens, secrets and requests.       *)
(*                                                                         *)
(* Both parts of Control are there for two setups, which the parameter s   *)
(* of the invariants and lemmas stands for.                                *)
(***************************************************************************)
EXTENDS ControlProofs, SequenceTheorems, WellFoundedInduction

-----------------------------------------------------------------------------
(* Access.  What the variables hold, and what tokens and requests look     *)
(* like.                                                                   *)
ServerTyped(s) ==
    /\ users \in SUBSET s.users /\ file.users \in SUBSET s.users
    /\ providers \in SUBSET s.idps
    /\ file.secret \in Nat \ {0} /\ secret \in 1 .. file.secret
    /\ clock \in Nat

HistoryTyped(s) ==
    /\ entitled \in [s.users -> Nat \cup {Access(s)!Never}]
    /\ checked \in [s.requests -> Nat \cup {Access(s)!Never}]
    /\ \A u \in s.users : entitled[u] <= clock
    /\ \A r \in s.requests : checked[r] <= clock

RequestsTyped(s) ==
    /\ pc \in [s.requests -> {"new", "auth", "handle", "sign", "audit", "done", "lost"}]
    /\ code \in [s.requests -> {0, 200, 204, 400, 401, 403, 501}]
    /\ route \in [s.requests -> {"health", "login", "preflight", "read", "admin", "ingest"}]
    /\ DOMAIN cred = s.requests /\ DOMAIN found = s.requests /\ DOMAIN log = s.requests

(* A token lasts TTL from its issue, and only the operator signs one for   *)
(* ingestion.                                                              *)
TokensTyped(s) ==
    \A t \in tokens :
        /\ t.by \in {"login", "operator", "idp"}
        /\ t.exp \in Nat /\ t.exp <= clock + s.ttl
        /\ t.by = "login" => t.user \in s.users /\ t.scopes = {"read", "write"}
        /\ t.by = "operator" => t.role = "service"
        /\ t.by = "idp" => t.groups \in {{}, {"waffynx-admin"}}

(* The token of a user who is out ends a TTL after that at the latest.     *)
TokenInv(s) ==
    \A t \in tokens : t.by = "login" => t.user \in users \/ t.exp <= entitled[t.user] + s.ttl

(* A request comes with a token there is, or with none; a login for a user *)
(* there may be, whom it has found when it signs.                          *)
CredInv(s) ==
    \A r \in s.requests :
        /\ route[r] \notin {"admin", "ingest", "read"} \/ cred[r] \in tokens \cup {Access(s)!NoToken}
        /\ route[r] = "login" => cred[r].user \in s.users
        /\ pc[r] = "sign" => route[r] = "login" /\ found[r]

AdminMay(s, r) ==
    \/ cred[r].by = "idp" /\ cred[r].groups # {} /\ checked[r] <= cred[r].exp
    \/ /\ cred[r].by = "login"
       /\ \/ cred[r].user \in users
          \/ checked[r] < entitled[cred[r].user] + s.ttl

(* Whoever has passed the checks of the route was entitled to.             *)
PassedInv(s) ==
    \A r \in s.requests : pc[r] = "handle" \/ Access(s)!Performed(r) =>
        /\ route[r] = "admin" => AdminMay(s, r)
        /\ route[r] = "ingest" => cred[r].by = "operator"

LogInv(s) ==
    \A r \in s.requests :
        IF pc[r] # "done" THEN log[r] = <<>> ELSE Len(log[r]) = 1

AccessInv(s) ==
    /\ ServerTyped(s) /\ HistoryTyped(s) /\ RequestsTyped(s) /\ TokensTyped(s)
    /\ TokenInv(s) /\ CredInv(s) /\ PassedInv(s) /\ LogInv(s)

(* The invariant of the access holds when the server starts ...            *)
LEMMA AccessInit ==
    ASSUME NEW s, Access(s)!ApiAccessConstants, Access(s)!Init
    PROVE  AccessInv(s)
<1> USE DEF Access!ApiAccessConstants, Access!Init
<1>1. ServerTyped(s) /\ HistoryTyped(s)
  BY DEF ServerTyped, HistoryTyped, Access!Never
<1>2. RequestsTyped(s) /\ TokensTyped(s) /\ TokenInv(s)
  BY DEF RequestsTyped, TokensTyped, TokenInv
<1>3. CredInv(s) /\ PassedInv(s) /\ LogInv(s)
  BY DEF CredInv, PassedInv, LogInv, Access!Performed
<1> QED
  BY <1>1, <1>2, <1>3 DEF AccessInv

(* Whoever the configuration takes out is out from now on, and his tokens  *)
(* were issued before: what is said of tokens and of requests that have    *)
(* passed remains true when the users change.                              *)
LEMMA UsersChange ==
    ASSUME NEW s, Access(s)!ApiAccessConstants, AccessInv(s), NEW new \in SUBSET s.users,
           users' = new, Access(s)!Entitle(new), tokens' = tokens, clock' = clock,
           pc' = pc, route' = route, cred' = cred, code' = code, checked' = checked
    PROVE  HistoryTyped(s)' /\ TokenInv(s)' /\ PassedInv(s)'
<1>1. /\ s.ttl \in Nat \ {0} /\ clock \in Nat /\ users \in SUBSET s.users
      /\ entitled \in [s.users -> Nat \cup {-1}] /\ checked \in [s.requests -> Nat \cup {-1}]
      /\ \A r \in s.requests : checked[r] <= clock
      /\ \A u \in s.users : entitled[u] <= clock
  BY DEF Access!ApiAccessConstants, AccessInv, ServerTyped, HistoryTyped, Access!Never
<1>2. /\ entitled' \in [s.users -> Nat \cup {-1}]
      /\ \A u \in s.users : entitled'[u] = IF u \in users \ new THEN clock ELSE entitled[u]
  BY <1>1 DEF Access!Entitle
<1>3. HistoryTyped(s)'
  BY <1>1, <1>2 DEF HistoryTyped, Access!Never
<1>4. TokenInv(s)'
  BY <1>1, <1>2 DEF AccessInv, TokensTyped, TokenInv
<1>5. PassedInv(s)'
  <2> SUFFICES ASSUME NEW r \in s.requests, (pc[r] = "handle" \/ Access(s)!Performed(r))'
               PROVE  /\ route[r] = "admin" => AdminMay(s, r)'
                      /\ route[r] = "ingest" => cred[r].by = "operator"
    BY DEF PassedInv
  <2>1. pc[r] = "handle" \/ Access(s)!Performed(r)
    BY DEF Access!Performed
  <2>2. route[r] = "ingest" => cred[r].by = "operator"
    BY <2>1 DEF AccessInv, PassedInv
  <2>3. ASSUME route[r] = "admin" PROVE AdminMay(s, r)'
    <3>1. AdminMay(s, r)
      BY <2>1, <2>3 DEF AccessInv, PassedInv
    <3>2. cred[r].by = "login" => cred[r].user \in s.users
      <4>1. cred[r] \in tokens \cup {Access(s)!NoToken}
        BY <2>3 DEF AccessInv, CredInv
      <4> QED
        BY <4>1 DEF AccessInv, TokensTyped, Access!NoToken
    <3> QED
      BY <1>1, <1>2, <3>1, <3>2 DEF AdminMay
  <2> QED
    BY <2>2, <2>3
<1> QED
  BY <1>3, <1>4, <1>5

(* A process that starts, ends or reads its configuration.                 *)
LEMMA ServerStep ==
    ASSUME NEW s, Access(s)!ApiAccessConstants, AccessInv(s),
           \/ Access(s)!Start
           \/ Access(s)!Reconfigured
           \/ \E c \in [users: SUBSET s.users, secret: {file.secret, file.secret + 1}] :
                 Access(s)!Reconfigure(c)
    PROVE  AccessInv(s)'
<1> USE DEF Access!server, Access!requests
<1>1. CASE Access(s)!Start \/ Access(s)!Reconfigured
  <2>1. /\ users' = file.users /\ Access(s)!Entitle(file.users) /\ tokens' = tokens /\ clock' = clock
        /\ pc' = pc /\ route' = route /\ cred' = cred /\ code' = code /\ checked' = checked
        /\ log' = log /\ found' = found /\ file.users \in SUBSET s.users
    BY <1>1 DEF Access!Start, Access!Reconfigured, AccessInv, ServerTyped
  <2>2. HistoryTyped(s)' /\ TokenInv(s)' /\ PassedInv(s)'
    BY <2>1, UsersChange
  <2>3. ServerTyped(s)'
    BY <1>1 DEF AccessInv, ServerTyped, Access!Start, Access!Reconfigured
  <2>4. RequestsTyped(s)' /\ TokensTyped(s)' /\ CredInv(s)' /\ LogInv(s)'
    BY <2>1 DEF AccessInv, RequestsTyped, TokensTyped, CredInv, LogInv
  <2> QED
    BY <2>2, <2>3, <2>4 DEF AccessInv
<1>2. ASSUME NEW c \in [users: SUBSET s.users, secret: {file.secret, file.secret + 1}],
             Access(s)!Reconfigure(c)
      PROVE  AccessInv(s)'
  <2>1. ServerTyped(s)'
    BY <1>2 DEF AccessInv, ServerTyped, Access!Reconfigure
  <2>2. HistoryTyped(s)' /\ RequestsTyped(s)' /\ TokensTyped(s)'
    BY <1>2 DEF AccessInv, HistoryTyped, RequestsTyped, TokensTyped, Access!Reconfigure
  <2>3. TokenInv(s)' /\ CredInv(s)' /\ LogInv(s)'
    BY <1>2 DEF AccessInv, TokenInv, CredInv, LogInv, Access!Reconfigure
  <2>4. PassedInv(s)'
    BY <1>2 DEF AccessInv, PassedInv, AdminMay, Access!Performed, Access!Reconfigure
  <2> QED
    BY <2>1, <2>2, <2>3, <2>4 DEF AccessInv
<1> QED
  BY <1>1, <1>2

(* The end of the process: what was under way is lost.                     *)
LEMMA StopStep ==
    ASSUME NEW s, Access(s)!ApiAccessConstants, AccessInv(s), Access(s)!Stop
    PROVE  AccessInv(s)'
<1> USE DEF AccessInv
<1>1. /\ secret' = secret /\ providers' = providers /\ users' = users /\ file' = file
      /\ clock' = clock /\ tokens' = tokens /\ log' = log /\ entitled' = entitled
      /\ DOMAIN pc' = s.requests /\ DOMAIN route' = s.requests /\ DOMAIN cred' = s.requests
      /\ DOMAIN code' = s.requests /\ DOMAIN checked' = s.requests /\ DOMAIN found' = s.requests
  BY DEF Access!Stop
<1>2. /\ \A r \in s.requests : pc[r] \in {"new", "done"} =>
            /\ pc'[r] = pc[r] /\ route'[r] = route[r] /\ cred'[r] = cred[r]
            /\ code'[r] = code[r] /\ checked'[r] = checked[r] /\ found'[r] = found[r]
      /\ \A r \in s.requests : pc[r] \notin {"new", "done"} =>
            /\ pc'[r] = "lost" /\ route'[r] = "health" /\ cred'[r] = Access(s)!NoToken
            /\ checked'[r] = -1
  BY DEF Access!Stop, Access!Never
<1>3. ServerTyped(s)' /\ TokensTyped(s)' /\ TokenInv(s)'
  BY <1>1 DEF ServerTyped, TokensTyped, TokenInv
<1>4. RequestsTyped(s)'
  <2>1. /\ pc' \in [s.requests -> {"new", "auth", "handle", "sign", "audit", "done", "lost"}]
        /\ code' \in [s.requests -> {0, 200, 204, 400, 401, 403, 501}]
        /\ route' \in [s.requests -> {"health", "login", "preflight", "read", "admin", "ingest"}]
    BY DEF RequestsTyped, Access!Stop
  <2> QED
    BY <1>1, <2>1 DEF RequestsTyped
<1>5. HistoryTyped(s)'
  <2>1. checked' \in [s.requests -> Nat \cup {Access(s)!Never}]
    BY DEF HistoryTyped, Access!Stop
  <2>2. ASSUME NEW r \in s.requests PROVE checked'[r] <= clock
    <3>1. clock \in Nat /\ checked[r] <= clock
      BY DEF ServerTyped, HistoryTyped
    <3> QED
      BY <1>2, <3>1 DEF Access!Never
  <2> QED
    BY <1>1, <2>1, <2>2 DEF HistoryTyped
<1>6. CredInv(s)'
  BY <1>1, <1>2 DEF CredInv
<1>7. PassedInv(s)'
  <2> SUFFICES ASSUME NEW r \in s.requests, (pc[r] = "handle" \/ Access(s)!Performed(r))'
               PROVE  /\ route'[r] = "admin" => AdminMay(s, r)'
                      /\ route'[r] = "ingest" => cred'[r].by = "operator"
    BY DEF PassedInv
  <2>1. pc[r] = "done" /\ Access(s)!Performed(r) /\ route'[r] = route[r] /\ cred'[r] = cred[r]
        /\ checked'[r] = checked[r]
    BY <1>2 DEF Access!Performed
  <2> QED
    BY <1>1, <2>1 DEF PassedInv, AdminMay
<1>8. LogInv(s)'
  <2> SUFFICES ASSUME NEW r \in s.requests
               PROVE  IF pc'[r] # "done" THEN log[r] = <<>> ELSE Len(log[r]) = 1
    BY <1>1 DEF LogInv
  <2>1. CASE pc[r] = "done"
    <3>1. pc'[r] = "done"
      BY <1>2, <2>1
    <3> QED
      BY <2>1, <3>1 DEF LogInv
  <2>2. CASE pc[r] # "done"
    <3>1. pc'[r] # "done"
      BY <1>2, <2>2
    <3> QED
      BY <2>2, <3>1 DEF LogInv
  <2> QED
    BY <2>1, <2>2
<1> QED
  BY <1>3, <1>4, <1>5, <1>6, <1>7, <1>8

(* Tokens that others issue, and the clock.                                *)
LEMMA OutsideStep ==
    ASSUME NEW s, Access(s)!ApiAccessConstants, AccessInv(s), Access(s)!Issue \/ Access(s)!Tick
    PROVE  AccessInv(s)'
<1> USE DEF AccessInv, Access!server, Access!requests
<1>1. /\ secret' = secret /\ providers' = providers /\ users' = users /\ file' = file
      /\ log' = log /\ entitled' = entitled /\ Access(s)!requests' = Access(s)!requests
      /\ s.ttl \in Nat /\ clock \in Nat
  BY DEF Access!Issue, Access!Tick, Access!ApiAccessConstants, ServerTyped
<1>2. clock' \in Nat /\ clock <= clock'
  BY <1>1 DEF Access!Issue, Access!Tick
<1>3. ASSUME NEW t \in tokens', t \notin tokens
      PROVE  /\ t.by \in {"operator", "idp"}
             /\ t.exp = clock + s.ttl
             /\ t.by = "operator" => t.role = "service"
             /\ t.by = "idp" => t.groups \in {{}, {"waffynx-admin"}}
  <2>1. \/ t = Access(s)!ServiceToken
        \/ \E i \in s.idps, u \in s.users, g \in {{}, {"waffynx-admin"}} :
              t = Access(s)!IdpToken(i, u, g)
    BY <1>3 DEF Access!Issue, Access!Tick
  <2> QED
    BY <2>1 DEF Access!ServiceToken, Access!IdpToken
<1>4. tokens \subseteq tokens'
  BY DEF Access!Issue, Access!Tick
<1>5. ServerTyped(s)' /\ RequestsTyped(s)' /\ LogInv(s)'
  BY <1>1, <1>2 DEF ServerTyped, RequestsTyped, LogInv
<1>6. HistoryTyped(s)'
  BY <1>1, <1>2 DEF HistoryTyped, Access!Never
<1>7. TokensTyped(s)'
  <2> SUFFICES ASSUME NEW t \in tokens'
               PROVE  /\ t.by \in {"login", "operator", "idp"}
                      /\ t.exp \in Nat /\ t.exp <= clock' + s.ttl
                      /\ t.by = "login" => t.user \in s.users /\ t.scopes = {"read", "write"}
                      /\ t.by = "operator" => t.role = "service"
                      /\ t.by = "idp" => t.groups \in {{}, {"waffynx-admin"}}
    BY DEF TokensTyped
  <2>1. CASE t \in tokens
    BY <1>1, <1>2, <2>1 DEF TokensTyped
  <2>2. CASE t \notin tokens
    <3>1. clock' = clock
      BY <2>2 DEF Access!Issue, Access!Tick
    <3> QED
      BY <1>1, <1>2, <1>3, <2>2, <3>1
  <2> QED
    BY <2>1, <2>2
<1>8. TokenInv(s)' /\ CredInv(s)'
  BY <1>1, <1>3, <1>4 DEF TokenInv, CredInv
<1>9. PassedInv(s)'
  BY <1>1 DEF PassedInv, AdminMay, Access!Performed
<1> QED
  BY <1>5, <1>6, <1>7, <1>8, <1>9

(* A request arrives with a token that there is, or with none.             *)
LEMMA ArriveStep ==
    ASSUME NEW s, Access(s)!ApiAccessConstants, AccessInv(s), NEW r \in s.requests, NEW rt, NEW c,
           Access(s)!Arrive(r, rt, c),
           \/ rt = "login" /\ \E u \in s.users : c = [by |-> "nobody", user |-> u]
           \/ rt \in {"health", "preflight"}
           \/ rt \in {"read", "admin", "ingest"} /\ c \in tokens \cup {Access(s)!NoToken}
    PROVE  AccessInv(s)'
<1> USE DEF AccessInv, Access!server
<1>1. /\ Access(s)!server' = Access(s)!server /\ clock' = clock /\ tokens' = tokens
      /\ code' = code /\ log' = log /\ checked' = checked /\ found' = found /\ entitled' = entitled
      /\ pc[r] = "new"
      /\ rt = "login" => c.user \in s.users
  BY DEF Access!Arrive
<1>2. ASSUME NEW q \in s.requests
      PROVE  /\ q # r => pc'[q] = pc[q] /\ route'[q] = route[q] /\ cred'[q] = cred[q]
             /\ q = r => /\ route'[q] = rt /\ cred'[q] = c
                         /\ pc'[q] = IF rt \in {"health", "login", "preflight"} THEN "handle" ELSE "auth"
  BY DEF RequestsTyped, Access!Arrive
<1>3. ServerTyped(s)' /\ HistoryTyped(s)' /\ TokensTyped(s)' /\ TokenInv(s)'
  BY <1>1 DEF ServerTyped, HistoryTyped, TokensTyped, TokenInv
<1>4. RequestsTyped(s)'
  BY <1>1 DEF RequestsTyped, Access!Arrive
<1>5. CredInv(s)'
  BY <1>1, <1>2 DEF CredInv
<1>6. PassedInv(s)'
  BY <1>1, <1>2 DEF PassedInv, AdminMay, Access!Performed
<1>7. LogInv(s)'
  BY <1>1, <1>2 DEF LogInv
<1> QED
  BY <1>3, <1>4, <1>5, <1>6, <1>7

(* What the checks of a route let through.                                 *)
LEMMA ClaimsJustify ==
    ASSUME NEW s, Access(s)!ApiAccessConstants, AccessInv(s), NEW t \in tokens \cup {Access(s)!NoToken},
           Access(s)!Claims(t) # Access(s)!NoToken
    PROVE  /\ Access(s)!Claims(t).role = "admin" =>
                 \/ t.by = "idp" /\ t.groups # {} /\ clock <= t.exp
                 \/ t.by = "login" /\ t.user \in s.users /\ clock < t.exp
           /\ "events:write" \in Access(s)!Claims(t).scopes => t.by = "operator"
<1>1. CASE Access(s)!Verify(t)
  <2>1. /\ t.by = "idp" /\ clock <= t.exp
        /\ Access(s)!Claims(t) =
              [user |-> t.user, scopes |-> {"read", "write"},
               role |-> IF t.groups \cap {"admin", "waffynx-admin"} # {} THEN "admin" ELSE "viewer"]
    BY <1>1 DEF Access!Verify, Access!Claims, Access!Validate
  <2> QED
    BY <2>1
<1>2. CASE ~Access(s)!Verify(t) /\ Access(s)!Validate(t)
  <2>1. /\ t.by \in {"login", "operator"} /\ clock < t.exp
        /\ Access(s)!Claims(t) = [user |-> t.user, scopes |-> t.scopes, role |-> t.role]
    BY <1>2 DEF Access!Claims, Access!Validate
  <2>2. t \in tokens
    BY <2>1 DEF Access!NoToken
  <2>3. /\ t.by = "login" => t.user \in s.users /\ t.scopes = {"read", "write"}
        /\ t.by = "operator" => t.role = "service"
    BY <2>2 DEF AccessInv, TokensTyped
  <2> QED
    BY <2>1, <2>3
<1>3. CASE ~Access(s)!Verify(t) /\ ~Access(s)!Validate(t)
  BY <1>3 DEF Access!Claims
<1> QED
  BY <1>1, <1>2, <1>3

(* authMiddleware and the demands of the route.                            *)
LEMMA AuthoriseStep ==
    ASSUME NEW s, Access(s)!ApiAccessConstants, AccessInv(s), NEW r \in s.requests,
           Access(s)!Authorise(r)
    PROVE  AccessInv(s)'
<1> USE DEF AccessInv, Access!server
<1> DEFINE answer == code'[r]
<1>1. /\ Access(s)!server' = Access(s)!server /\ clock' = clock /\ tokens' = tokens
      /\ route' = route /\ cred' = cred /\ log' = log /\ found' = found /\ entitled' = entitled
      /\ pc[r] = "auth"
  BY DEF Access!Authorise
<1>2. /\ answer \in {0, 401, 403}
      /\ pc'[r] = IF answer = 0 THEN "handle" ELSE "audit"
      /\ checked'[r] = clock
      /\ answer = 0 => /\ Access(s)!Claims(cred[r]) # Access(s)!NoToken
                       /\ Access(s)!Demands(route[r], Access(s)!Claims(cred[r]))
  BY DEF RequestsTyped, HistoryTyped, Access!Authorise
<1>3. \A q \in s.requests : q # r => pc'[q] = pc[q] /\ code'[q] = code[q] /\ checked'[q] = checked[q]
  BY DEF RequestsTyped, HistoryTyped, Access!Authorise
<1>4. ServerTyped(s)' /\ TokensTyped(s)' /\ TokenInv(s)'
  BY <1>1 DEF ServerTyped, TokensTyped, TokenInv
<1>5. RequestsTyped(s)'
  BY <1>1, <1>2 DEF RequestsTyped, Access!Authorise
<1>6. HistoryTyped(s)'
  <2>1. checked' \in [s.requests -> Nat \cup {Access(s)!Never}]
    BY DEF ServerTyped, HistoryTyped, Access!Authorise
  <2> QED
    BY <1>1, <1>2, <1>3, <2>1 DEF HistoryTyped, ServerTyped
<1>7. CredInv(s)' /\ LogInv(s)'
  BY <1>1, <1>2, <1>3 DEF CredInv, LogInv
<1>8. PassedInv(s)'
  <2>1. ASSUME NEW q \in s.requests, q # r, (pc[q] = "handle" \/ Access(s)!Performed(q))'
        PROVE  (route[q] = "admin" => AdminMay(s, q)) /\ (route[q] = "ingest" => cred[q].by = "operator")
    BY <1>1, <1>3, <2>1 DEF PassedInv, Access!Performed
  <2>2. ASSUME (pc[r] = "handle" \/ Access(s)!Performed(r))', route[r] = "admin"
        PROVE  AdminMay(s, r)'
    <3>1. answer = 0
      BY <1>2, <2>2 DEF Access!Performed
    <3>2. cred[r] \in tokens \cup {Access(s)!NoToken}
      BY <2>2 DEF CredInv
    <3>3. Access(s)!Claims(cred[r]).role = "admin"
      BY <1>2, <2>2, <3>1 DEF Access!Demands
    <3>4. \/ cred[r].by = "idp" /\ cred[r].groups # {} /\ clock <= cred[r].exp
          \/ cred[r].by = "login" /\ cred[r].user \in s.users /\ clock < cred[r].exp
      BY <1>2, <3>1, <3>2, <3>3, ClaimsJustify
    <3>5. CASE cred[r].by = "login" /\ cred[r].user \in s.users /\ clock < cred[r].exp
      <4>1. cred[r] \in tokens
        BY <3>2, <3>5 DEF Access!NoToken
      <4>2. /\ cred[r].exp \in Nat
            /\ cred[r].user \in users \/ cred[r].exp <= entitled[cred[r].user] + s.ttl
        BY <3>5, <4>1 DEF TokensTyped, TokenInv
      <4>3. clock \in Nat /\ s.ttl \in Nat /\ entitled[cred[r].user] \in Nat \cup {-1}
        BY <3>5 DEF ServerTyped, HistoryTyped, Access!ApiAccessConstants, Access!Never
      <4> QED
        BY <1>1, <1>2, <3>5, <4>2, <4>3 DEF AdminMay
    <3> QED
      BY <1>1, <1>2, <3>4, <3>5 DEF AdminMay
  <2>3. ASSUME (pc[r] = "handle" \/ Access(s)!Performed(r))', route[r] = "ingest"
        PROVE  cred[r].by = "operator"
    <3>1. answer = 0
      BY <1>2, <2>3 DEF Access!Performed
    <3>2. cred[r] \in tokens \cup {Access(s)!NoToken}
      BY <2>3 DEF CredInv
    <3> QED
      BY <1>2, <2>3, <3>1, <3>2, ClaimsJustify DEF Access!Demands
  <2>4. \A q \in s.requests : q # r => (AdminMay(s, q)' <=> AdminMay(s, q))
    BY <1>1, <1>3 DEF AdminMay
  <2> QED
    BY <1>1, <2>1, <2>2, <2>3, <2>4 DEF PassedInv
<1> QED
  BY <1>4, <1>5, <1>6, <1>7, <1>8

(* handleLogin: the end of it dates when the user was one.                 *)
LEMMA LoginStep ==
    ASSUME NEW s, Access(s)!ApiAccessConstants, AccessInv(s), NEW r \in s.requests,
           Access(s)!HandleLogin(r) \/ Access(s)!SignToken(r)
    PROVE  AccessInv(s)'
<1> USE DEF AccessInv, Access!server
<1>0. s.ttl \in Nat \ {0} /\ clock \in Nat
  BY DEF Access!ApiAccessConstants, ServerTyped
<1>1. /\ Access(s)!server' = Access(s)!server /\ clock' = clock /\ tokens \subseteq tokens'
      /\ route' = route /\ cred' = cred /\ log' = log /\ checked' = checked
      /\ route[r] = "login" /\ cred[r].user \in s.users /\ pc[r] \notin {"done", "new"}
  BY DEF CredInv, Access!HandleLogin, Access!SignToken
<1>2. /\ pc'[r] = "sign" => found'[r] /\ Access(s)!HandleLogin(r)
      /\ pc'[r] \in {"sign", "audit"}
      /\ \A q \in s.requests : q # r => pc'[q] = pc[q] /\ code'[q] = code[q] /\ found'[q] = found[q]
  <2>1. CASE Access(s)!HandleLogin(r)
    <3>1. PICK given \in {"missing", "wrong", "right"} :
             /\ code' = [code EXCEPT ![r] = Access(s)!LoginCode(cred[r].user, given)]
             /\ pc' = [pc EXCEPT ![r] = IF Access(s)!LoginCode(cred[r].user, given) = 0
                                        THEN "sign" ELSE "audit"]
             /\ found' = [found EXCEPT ![r] = Access(s)!LoginCode(cred[r].user, given) = 0
                                                /\ cred[r].user \in users]
      BY <2>1 DEF Access!HandleLogin
    <3>2. Access(s)!LoginCode(cred[r].user, given) = 0 => cred[r].user \in users
      BY DEF Access!LoginCode
    <3> QED
      BY <2>1, <3>1, <3>2 DEF RequestsTyped
  <2>2. CASE Access(s)!SignToken(r)
    BY <2>2 DEF RequestsTyped, Access!SignToken
  <2> QED
    BY <2>1, <2>2
<1>3. RequestsTyped(s)'
  <2>1. pc' \in [s.requests -> {"new", "auth", "handle", "sign", "audit", "done", "lost"}]
    BY DEF RequestsTyped, Access!HandleLogin, Access!SignToken
  <2>2. code' \in [s.requests -> {0, 200, 204, 400, 401, 403, 501}]
    BY DEF RequestsTyped, Access!HandleLogin, Access!SignToken, Access!LoginCode
  <2>3. DOMAIN found' = s.requests
    BY DEF RequestsTyped, Access!HandleLogin, Access!SignToken
  <2> QED
    BY <1>1, <2>1, <2>2, <2>3 DEF RequestsTyped
<1>4. ServerTyped(s)'
  BY <1>1 DEF ServerTyped
<1>5. CredInv(s)' /\ LogInv(s)'
  BY <1>1, <1>2 DEF CredInv, LogInv
<1>6. CASE entitled' = entitled /\ tokens' = tokens
  <2>1. HistoryTyped(s)' /\ TokensTyped(s)' /\ TokenInv(s)'
    BY <1>1, <1>6 DEF HistoryTyped, TokensTyped, TokenInv
  <2>2. PassedInv(s)'
    BY <1>1, <1>2, <1>6 DEF PassedInv, AdminMay, Access!Performed
  <2> QED
    BY <1>3, <1>4, <1>5, <2>1, <2>2
<1>7. CASE Access(s)!SignToken(r)
  <2>0. entitled \in [s.users -> Nat \cup {-1}] /\ \A u \in s.users : entitled[u] <= clock
    BY DEF HistoryTyped, Access!Never
  <2>1. /\ entitled' = [entitled EXCEPT ![cred[r].user] = clock]
        /\ tokens' = tokens \cup {Access(s)!LoginToken(cred[r].user)}
    BY <1>7 DEF CredInv, Access!SignToken
  <2>2. \A u \in s.users : entitled'[u] = IF u = cred[r].user THEN clock ELSE entitled[u]
    BY <2>0, <2>1
  <2>3. HistoryTyped(s)'
    BY <1>0, <1>1, <2>0, <2>1 DEF HistoryTyped, Access!Never
  <2>4. ASSUME NEW t \in tokens', t \notin tokens
        PROVE  /\ t.by = "login" /\ t.user = cred[r].user /\ t.scopes = {"read", "write"}
               /\ t.exp = clock + s.ttl
    BY <2>1, <2>4 DEF Access!LoginToken
  <2>5. TokensTyped(s)'
    BY <1>0, <1>1, <2>4 DEF TokensTyped
  <2>6. TokenInv(s)'
    BY <1>0, <1>1, <2>0, <2>2, <2>4 DEF TokensTyped, TokenInv
  <2>7. PassedInv(s)'
    <3> SUFFICES ASSUME NEW q \in s.requests, (pc[q] = "handle" \/ Access(s)!Performed(q))'
                 PROVE  /\ route[q] = "admin" => AdminMay(s, q)'
                        /\ route[q] = "ingest" => cred[q].by = "operator"
      BY <1>1 DEF PassedInv
    <3>1. CASE q = r
      BY <1>1, <3>1
    <3>2. CASE q # r
      <4>1. pc[q] = "handle" \/ Access(s)!Performed(q)
        BY <1>2, <3>2 DEF Access!Performed
      <4>2. ASSUME route[q] = "admin", cred[q].by = "login" PROVE cred[q].user \in s.users
        BY <4>2 DEF CredInv, TokensTyped, Access!NoToken
      <4>3. checked[q] \in Nat \cup {-1}
        BY DEF HistoryTyped, Access!Never
      <4> QED
        BY <1>0, <1>1, <2>0, <2>2, <4>1, <4>2, <4>3 DEF PassedInv, AdminMay
    <3> QED
      BY <3>1, <3>2
  <2> QED
    BY <1>3, <1>4, <1>5, <2>3, <2>5, <2>6, <2>7
<1> QED
  BY <1>6, <1>7 DEF Access!HandleLogin

(* The other handlers, and the audit record.                               *)
LEMMA HandleStep ==
    ASSUME NEW s, Access(s)!ApiAccessConstants, AccessInv(s), NEW r \in s.requests,
           Access(s)!Handle(r) \/ Access(s)!Audit(r)
    PROVE  AccessInv(s)'
<1> USE DEF AccessInv, Access!server
<1>1. /\ Access(s)!server' = Access(s)!server /\ clock' = clock /\ tokens' = tokens
      /\ route' = route /\ cred' = cred /\ checked' = checked /\ found' = found /\ entitled' = entitled
  BY DEF Access!Handle, Access!Audit
<1>2. /\ \A q \in s.requests : q # r => pc'[q] = pc[q] /\ code'[q] = code[q] /\ log'[q] = log[q]
      /\ pc'[r] \in {"audit", "done"}
      /\ pc'[r] = "audit" => pc[r] = "handle" /\ log'[r] = log[r]
      /\ pc'[r] = "done" => /\ pc[r] = "audit" /\ code'[r] = code[r]
                            /\ log'[r] = Append(log[r], Access(s)!Recorded(r))
  BY DEF RequestsTyped, Access!Handle, Access!Audit
<1>3. ServerTyped(s)' /\ HistoryTyped(s)' /\ TokensTyped(s)' /\ TokenInv(s)'
  BY <1>1 DEF ServerTyped, HistoryTyped, TokensTyped, TokenInv
<1>4. RequestsTyped(s)'
  <2>1. pc' \in [s.requests -> {"new", "auth", "handle", "sign", "audit", "done", "lost"}]
    BY DEF RequestsTyped, Access!Handle, Access!Audit
  <2>2. code' \in [s.requests -> {0, 200, 204, 400, 401, 403, 501}]
    BY DEF RequestsTyped, Access!Handle, Access!Audit
  <2>3. DOMAIN log' = s.requests
    BY DEF RequestsTyped, Access!Handle, Access!Audit
  <2> QED
    BY <1>1, <2>1, <2>2, <2>3 DEF RequestsTyped
<1>5. CredInv(s)'
  BY <1>1, <1>2 DEF CredInv
<1>6. PassedInv(s)'
  BY <1>1, <1>2 DEF PassedInv, AdminMay, Access!Performed
<1>7. LogInv(s)'
  <2>1. ASSUME pc'[r] = "done" PROVE Len(log'[r]) = 1
    <3>1. log'[r] = <<Access(s)!Recorded(r)>>
      BY <1>2, <2>1 DEF LogInv
    <3> QED
      BY <3>1
  <2> QED
    BY <1>2, <2>1 DEF LogInv
<1> QED
  BY <1>3, <1>4, <1>5, <1>6, <1>7

(* ... and every step of its parts keeps it.                               *)
LEMMA AccessStep ==
    ASSUME NEW s, Access(s)!ApiAccessConstants
    PROVE  AccessInv(s) /\ [Access(s)!Next]_(Access(s)!vars) => AccessInv(s)'
<1> SUFFICES ASSUME AccessInv(s), [Access(s)!Next]_(Access(s)!vars) PROVE AccessInv(s)'
  OBVIOUS
<1>1. CASE UNCHANGED Access(s)!vars
  <2> USE <1>1 DEF Access!vars, Access!server, Access!requests, AccessInv
  <2>1. ServerTyped(s)' /\ HistoryTyped(s)' /\ RequestsTyped(s)' /\ TokensTyped(s)'
    BY DEF ServerTyped, HistoryTyped, RequestsTyped, TokensTyped
  <2>2. TokenInv(s)' /\ CredInv(s)' /\ LogInv(s)'
    BY DEF TokenInv, CredInv, LogInv
  <2>3. PassedInv(s)'
    BY DEF PassedInv, AdminMay, Access!Performed
  <2> QED
    BY <2>1, <2>2, <2>3
<1>2. ASSUME NEW users1 \in SUBSET s.users, NEW k \in {file.secret, file.secret + 1},
             Access(s)!Reconfigure([users |-> users1, secret |-> k])
      PROVE  AccessInv(s)'
  BY <1>2, ServerStep
<1>3. ASSUME NEW r \in s.requests, NEW u \in s.users,
             Access(s)!Arrive(r, "login", [by |-> "nobody", user |-> u])
      PROVE  AccessInv(s)'
  BY <1>3, ArriveStep
<1>4. ASSUME NEW r \in s.requests, NEW rt \in {"health", "preflight"},
             Access(s)!Arrive(r, rt, Access(s)!NoToken)
      PROVE  AccessInv(s)'
  BY <1>4, ArriveStep
<1>5. ASSUME NEW r \in s.requests, NEW rt \in {"read", "admin", "ingest"},
             NEW t \in tokens \cup {Access(s)!NoToken}, Access(s)!Arrive(r, rt, t)
      PROVE  AccessInv(s)'
  BY <1>5, ArriveStep
<1> QED
  BY <1>1, <1>2, <1>3, <1>4, <1>5, ServerStep, StopStep, OutsideStep, AuthoriseStep, LoginStep,
     HandleStep DEF Access!Next

(* The requests with a token, and what they have seen of what tokens are   *)
(* checked with: while they wait all that is in force, and once they have  *)
(* passed what their token is signed by.                                   *)
Tokened(s, r) == route[r] \in {"read", "admin", "ingest"}

SeenTyped(s) ==
    /\ DOMAIN seen = s.requests
    /\ \A r \in s.requests : seen[r] \subseteq UNION {Access(s)!Keys(k, s.idps) : k \in 1 .. file.secret}

SightInv(s) ==
    /\ \A r \in s.requests : pc[r] = "auth" => up /\ Access(s)!Keys(secret, providers) \subseteq seen[r]
    /\ \A r \in s.requests : (pc[r] = "handle" \/ Access(s)!Performed(r)) /\ Tokened(s, r) =>
           Access(s)!SignedBy(cred[r]) \in seen[r]

SeenInv(s) == SeenTyped(s) /\ SightInv(s)

(* Nothing has been seen when the server starts.                           *)
LEMMA SeenInit ==
    ASSUME NEW s, Access(s)!Init
    PROVE  SeenInv(s)
<1> QED
  BY DEF SeenInv, SeenTyped, SightInv, Tokened, Access!Init, Access!Performed

(* What is in force is of the secrets the file has had.                    *)
LEMMA KeysTyped ==
    ASSUME NEW s, NEW k, NEW n \in Nat, k \in 1 .. n, NEW idps \in SUBSET s.idps
    PROVE  Access(s)!Keys(k, idps) \subseteq UNION {Access(s)!Keys(i, s.idps) : i \in 1 .. n}
<1>1. Access(s)!Keys(k, idps) \subseteq Access(s)!Keys(k, s.idps)
  BY DEF Access!Keys
<1> QED
  BY <1>1

(* What comes into force is seen by the requests that wait.                *)
LEMMA SightedStep ==
    ASSUME NEW s, SeenInv(s), pc' = pc, route' = route, cred' = cred, code' = code, up' = up,
           file.secret \in Nat, (file.secret)' \in Nat, file.secret <= (file.secret)',
           providers' \in SUBSET s.idps, secret' \in 1 .. (file.secret)',
           Access(s)!Sighted(Access(s)!Keys(secret', providers'))
    PROVE  SeenInv(s)'
<1> DEFINE keys == Access(s)!Keys(secret', providers')
           all(n) == UNION {Access(s)!Keys(i, s.idps) : i \in 1 .. n}
<1>1. keys \subseteq all((file.secret)')
  BY KeysTyped
<1>2. all(file.secret) \subseteq all((file.secret)')
  <2>1. 1 .. file.secret \subseteq 1 .. (file.secret)'
    OBVIOUS
  <2> QED
    BY <2>1
<1> HIDE DEF keys, all
<1>3. seen' = [r \in s.requests |-> IF pc[r] = "auth" THEN seen[r] \cup keys ELSE seen[r]]
  BY DEF Access!Sighted, keys
<1>4. SeenTyped(s)'
  <2>1. \A r \in s.requests : seen[r] \subseteq all(file.secret)
    BY DEF SeenInv, SeenTyped, all
  <2>2. \A r \in s.requests : seen'[r] \subseteq all((file.secret)')
    BY <1>1, <1>2, <1>3, <2>1
  <2> QED
    BY <1>3, <2>2 DEF SeenTyped, all
<1>5. SightInv(s)'
  BY <1>3 DEF SeenInv, SightInv, Tokened, Access!Performed, keys
<1> QED
  BY <1>4, <1>5 DEF SeenInv

(* The server reads its configuration, starts or ends.                     *)
LEMMA SeenByServer ==
    ASSUME NEW s, Access(s)!ApiAccessConstants, AccessInv(s), SeenInv(s),
           \/ Access(s)!Start \/ Access(s)!Stop \/ Access(s)!Reconfigured
           \/ \E c \in [users: SUBSET s.users, secret: {file.secret, file.secret + 1}] :
                 Access(s)!Reconfigure(c)
    PROVE  SeenInv(s)'
<1>0. /\ providers \in SUBSET s.idps /\ file.secret \in Nat \ {0} /\ secret \in 1 .. file.secret
  BY DEF AccessInv, ServerTyped
<1>1. CASE Access(s)!Start
  <2>1. /\ ~up /\ file' = file /\ pc' = pc /\ route' = route /\ cred' = cred /\ code' = code /\ seen' = seen
    BY <1>1 DEF Access!Start, Access!requests
  <2> QED
    BY <2>1 DEF SeenInv, SeenTyped, SightInv, Tokened, Access!Performed
<1>2. CASE Access(s)!Stop
  <2>1. /\ file' = file /\ DOMAIN seen' = s.requests
        /\ \A r \in s.requests :
              IF pc[r] \in {"new", "done"}
              THEN /\ pc'[r] = pc[r] /\ route'[r] = route[r] /\ cred'[r] = cred[r] /\ code'[r] = code[r]
                   /\ seen'[r] = seen[r]
              ELSE pc'[r] = "lost" /\ seen'[r] = {}
    BY <1>2 DEF Access!Stop
  <2>2. SeenTyped(s)'
    BY <2>1 DEF SeenInv, SeenTyped
  <2>3. SightInv(s)'
    BY <2>1 DEF SeenInv, SightInv, Tokened, Access!Performed, Access!SignedBy
  <2> QED
    BY <2>2, <2>3 DEF SeenInv
<1>3. CASE Access(s)!Reconfigured
  <2>1. /\ pc' = pc /\ route' = route /\ cred' = cred /\ code' = code /\ up' = up /\ file' = file
        /\ secret' = secret /\ providers' \in SUBSET s.idps
        /\ Access(s)!Sighted(Access(s)!Keys(secret', providers'))
    BY <1>3 DEF Access!Reconfigured
  <2> QED
    BY <1>0, <2>1, SightedStep
<1>4. ASSUME NEW c \in [users: SUBSET s.users, secret: {file.secret, file.secret + 1}],
             Access(s)!Reconfigure(c)
      PROVE  SeenInv(s)'
  <2>1. /\ pc' = pc /\ route' = route /\ cred' = cred /\ code' = code /\ up' = up /\ file' = c
        /\ secret' = c.secret /\ providers' = providers
        /\ Access(s)!Sighted(Access(s)!Keys(secret', providers'))
    BY <1>4 DEF Access!Reconfigure
  <2> QED
    BY <1>0, <2>1, SightedStep
<1> QED
  BY <1>1, <1>2, <1>3, <1>4

(* A request arrives and is checked.                                       *)
LEMMA SeenByChecks ==
    ASSUME NEW s, AccessInv(s), SeenInv(s), NEW r \in s.requests,
           (\E rt, c : Access(s)!Arrive(r, rt, c)) \/ Access(s)!Authorise(r)
    PROVE  SeenInv(s)'
<1> USE DEF Access!server
<1>0. /\ providers \in SUBSET s.idps /\ file.secret \in Nat \ {0} /\ secret \in 1 .. file.secret
      /\ DOMAIN seen = s.requests
  BY DEF AccessInv, ServerTyped, SeenInv, SeenTyped
<1>1. /\ up' = up /\ file' = file /\ secret' = secret /\ providers' = providers
      /\ DOMAIN seen' = s.requests
      /\ \A q \in s.requests : q # r =>
            /\ pc'[q] = pc[q] /\ route'[q] = route[q] /\ cred'[q] = cred[q] /\ code'[q] = code[q]
            /\ seen'[q] = seen[q]
  BY <1>0 DEF AccessInv, RequestsTyped, Access!Arrive, Access!Authorise
<1> DEFINE Seen == /\ seen'[r] \in {{}, seen[r], Access(s)!Keys(secret, providers)}
                   /\ pc'[r] = "auth" => up /\ seen'[r] = Access(s)!Keys(secret, providers)
                   /\ (pc'[r] = "handle" \/ Access(s)!Performed(r)') /\ Tokened(s, r)' =>
                         Access(s)!SignedBy(cred[r])' \in seen'[r]
<1>2. ASSUME NEW rt, NEW c, Access(s)!Arrive(r, rt, c) PROVE Seen
  <2>1. /\ up /\ route'[r] = rt
        /\ pc'[r] = IF rt \in {"health", "login", "preflight"} THEN "handle" ELSE "auth"
        /\ seen'[r] = IF pc'[r] = "auth" THEN Access(s)!Keys(secret, providers) ELSE {}
    BY <1>0, <1>2 DEF AccessInv, RequestsTyped, Access!Arrive
  <2> QED
    BY <2>1 DEF Tokened, Access!Performed
<1>3. ASSUME Access(s)!Authorise(r) PROVE Seen
  <2>1. /\ code'[r] \in {0, 401, 403} /\ cred' = cred
        /\ pc'[r] = IF code'[r] = 0 THEN "handle" ELSE "audit"
        /\ seen'[r] = IF code'[r] = 0 THEN seen[r] ELSE {}
        /\ code'[r] = 0 => Access(s)!Claims(cred[r]) # Access(s)!NoToken
    BY <1>0, <1>3 DEF AccessInv, RequestsTyped, Access!Authorise
  <2>2. Access(s)!Claims(cred[r]) # Access(s)!NoToken =>
           Access(s)!SignedBy(cred[r]) \in Access(s)!Keys(secret, providers)
    BY DEF Access!Claims, Access!Verify, Access!Validate, Access!SignedBy, Access!Keys
  <2>3. Access(s)!Keys(secret, providers) \subseteq seen[r]
    BY <1>3 DEF SeenInv, SightInv, Access!Authorise
  <2> QED
    BY <2>1, <2>2, <2>3 DEF Access!Performed, Access!SignedBy
<1>4. Seen
  BY <1>2, <1>3
<1>5. SeenTyped(s)'
  <2> DEFINE all == UNION {Access(s)!Keys(i, s.idps) : i \in 1 .. file.secret}
  <2>1. Access(s)!Keys(secret, providers) \subseteq all
    BY <1>0, KeysTyped
  <2>2. \A q \in s.requests : seen[q] \subseteq all
    BY DEF SeenInv, SeenTyped
  <2>3. all' = all
    BY <1>1
  <2> HIDE DEF all
  <2>4. \A q \in s.requests : seen'[q] \subseteq all
    BY <1>1, <1>4, <2>1, <2>2
  <2> QED
    BY <1>1, <2>4 DEF SeenTyped, all
<1>6. SightInv(s)'
  BY <1>1, <1>4 DEF SeenInv, SightInv, Tokened, Access!Performed, Access!SignedBy
<1> QED
  BY <1>5, <1>6 DEF SeenInv

(* A request is handled and recorded.                                      *)
LEMMA SeenByHandlers ==
    ASSUME NEW s, AccessInv(s), SeenInv(s), NEW r \in s.requests,
           \/ Access(s)!HandleLogin(r) \/ Access(s)!SignToken(r)
           \/ Access(s)!Handle(r) \/ Access(s)!Audit(r)
    PROVE  SeenInv(s)'
<1> USE DEF Access!server
<1>1. /\ up' = up /\ file' = file /\ secret' = secret /\ providers' = providers /\ seen' = seen
      /\ route' = route /\ cred' = cred
      /\ \A q \in s.requests : q # r => pc'[q] = pc[q] /\ code'[q] = code[q]
  BY DEF AccessInv, RequestsTyped, Access!HandleLogin, Access!SignToken, Access!Handle, Access!Audit
<1>2. pc'[r] \in {"sign", "audit", "done"}
  BY DEF AccessInv, RequestsTyped, Access!HandleLogin, Access!SignToken, Access!Handle, Access!Audit
<1>3. Access(s)!Performed(r)' /\ Tokened(s, r) => pc[r] = "handle" \/ Access(s)!Performed(r)
  BY DEF AccessInv, RequestsTyped, CredInv, Tokened, Access!Performed,
     Access!HandleLogin, Access!SignToken, Access!Handle, Access!Audit
<1>4. SeenTyped(s)'
  BY <1>1 DEF SeenInv, SeenTyped
<1>5. SightInv(s)'
  BY <1>1, <1>2, <1>3 DEF SeenInv, SightInv, Tokened, Access!Performed, Access!SignedBy
<1> QED
  BY <1>4, <1>5 DEF SeenInv

(* Every step keeps what the requests have seen in order.                  *)
LEMMA SeenStep ==
    ASSUME NEW s, Access(s)!ApiAccessConstants
    PROVE  AccessInv(s) /\ SeenInv(s) /\ [Access(s)!Next]_(Access(s)!vars) => SeenInv(s)'
<1> SUFFICES ASSUME AccessInv(s), SeenInv(s), [Access(s)!Next]_(Access(s)!vars) PROVE SeenInv(s)'
  OBVIOUS
<1>1. CASE UNCHANGED Access(s)!vars \/ Access(s)!Issue \/ Access(s)!Tick
  <2>1. /\ up' = up /\ file' = file /\ secret' = secret /\ providers' = providers /\ seen' = seen
        /\ pc' = pc /\ route' = route /\ cred' = cred /\ code' = code
    BY <1>1 DEF Access!vars, Access!server, Access!requests, Access!Issue, Access!Tick
  <2> QED
    BY <2>1 DEF SeenInv, SeenTyped, SightInv, Tokened, Access!Performed, Access!SignedBy
<1>2. ASSUME NEW users1 \in SUBSET s.users, NEW k \in {file.secret, file.secret + 1},
             Access(s)!Reconfigure([users |-> users1, secret |-> k])
      PROVE  SeenInv(s)'
  BY <1>2, SeenByServer
<1> QED
  BY <1>1, <1>2, SeenByServer, SeenByChecks, SeenByHandlers DEF Access!Next

(* The invariant gives the property.                                       *)
LEMMA AccessFollows ==
    ASSUME NEW s, Access(s)!ApiAccessConstants, AccessInv(s), SeenInv(s)
    PROVE  Access(s)!AccessJustified /\ Access(s)!TypeOK
<1> USE DEF AccessInv
<1>1. Access(s)!AdminJustified
  BY DEF PassedInv, AdminMay, Access!AdminJustified
<1>2. Access(s)!IngestByService
  BY DEF PassedInv, Access!IngestByService
<1>3. Access(s)!KeysCurrent
  BY DEF SeenInv, SightInv, Tokened, Access!KeysCurrent
<1>4. ASSUME NEW r \in s.requests PROVE Len(log[r]) <= 1
  <2>1. log[r] = <<>> \/ Len(log[r]) = 1
    BY DEF LogInv
  <2>2. log[r] = <<>> => Len(log[r]) = 0
    OBVIOUS
  <2>3. \A i \in {0, 1} : i <= 1
    OBVIOUS
  <2>4. Len(log[r]) \in {0, 1}
    BY <2>1, <2>2, Zenon
  <2> QED
    BY <2>3, <2>4, Zenon
<1>5. Access(s)!TypeOK
  BY <1>4 DEF ServerTyped, RequestsTyped, SeenInv, SeenTyped, Access!TypeOK
<1> QED
  BY <1>1, <1>2, <1>3, <1>5 DEF Access!AccessJustified
-----------------------------------------------------------------------------
(* Bans.  Every variable has its type.                                     *)
BansTyped(s) ==
    /\ stage \in [Bans(s)!Managers ->
                     {"off", "policyIn", "policyOut", "ports", "blocks", "done", "failed"}]
    /\ todo \in [Bans(s)!Managers -> SUBSET (s.ips \cup s.managedPorts)]
    /\ policy \in {"accept", "drop"}
    /\ want \in SUBSET s.ips
    /\ reported \in [s.ips -> s.calls \cup Bans(s)!Others \cup {Bans(s)!Nobody}]
    /\ changed \in [s.ips -> s.calls \cup {Bans(s)!Nobody}]
    /\ now \in 0 .. s.maxTime /\ bannedIPs \in [s.ips -> Nat \cup {Bans(s)!None}]
    /\ audited \in SUBSET s.calls

ChainTyped(s) == chain \in Seq(Bans(s)!Rule)

CallRecord(s) == [ip: s.ips \cup {Bans(s)!Any}, ban: BOOLEAN, failed: BOOLEAN,
                  pc: {"new", "table", "firewall", "answered", "lost"}]

CallsTyped(s) == call \in [s.calls -> CallRecord(s)]

(* A call for an unban has begun.                                          *)
CallsInv(s) ==
    \A c \in s.calls :
        /\ call[c].pc = "new" => call[c].ban
        /\ call[c].pc \in {"table", "firewall", "answered"} => call[c].ip \in s.ips

(* What was blocked last is in the kernel.                                 *)
WantInv(s) == \A ip \in want : Bans(s)!BlockRule(ip) \in Bans(s)!RulesIn(chain)

(* ufw has no rule twice, and none that drops an address but the last      *)
(* command for it was a block.                                             *)
UfwInv(s) ==
    s.backend = "ufw" =>
        /\ \A i, j \in DOMAIN chain : chain[i] = chain[j] => i = j
        /\ Bans(s)!UnblockLifts

(* No rule accepts everything, but for the default of nftables.            *)
AcceptInv(s) ==
    \A r \in Bans(s)!RulesIn(chain) :
        r.port = Bans(s)!Any /\ r.action = "accept" => s.backend = "nftables" /\ s.defaultIn = "accept"

(* Whether the last command that succeeded for an address was a block, and *)
(* who was told so; there is one after a ban that succeeded.               *)
ReportedInv(s) ==
    /\ \A ip \in s.ips :
          /\ ip \in want <=> \/ reported[ip] = "blocked"
                             \/ reported[ip] \in s.calls /\ call[reported[ip]].ban
          /\ reported[ip] \in s.calls => call[reported[ip]].pc \in {"firewall", "answered", "lost"}
    /\ \A c \in s.calls :
          (call[c].pc \in {"firewall", "answered"} /\ call[c].ban /\ ~call[c].failed) =>
              reported[call[c].ip] # Bans(s)!Nobody

(* The table has what the last call to change it asked for.                *)
ChangedInv(s) ==
    \A ip \in s.ips : changed[ip] \in s.calls =>
        /\ call[changed[ip]].pc # "new"
        /\ bannedIPs[ip] # Bans(s)!None <=> call[changed[ip]].ban

BansInv(s) ==
    /\ BansTyped(s) /\ ChainTyped(s) /\ CallsTyped(s) /\ CallsInv(s)
    /\ WantInv(s) /\ UfwInv(s) /\ AcceptInv(s) /\ ReportedInv(s) /\ ChangedInv(s)

(* AddRule appends or leaves the chain as it is.                           *)
LEMMA RulesAdded ==
    ASSUME NEW s, NEW R, chain \in Seq(R), NEW r \in R, Bans(s)!AddRule(r)
    PROVE  /\ chain' \in Seq(R)
           /\ Bans(s)!RulesIn(chain') = Bans(s)!RulesIn(chain) \cup {r}
           /\ s.backend = "ufw" /\ (\A i, j \in DOMAIN chain : chain[i] = chain[j] => i = j)
                 => \A i, j \in DOMAIN chain' : chain'[i] = chain'[j] => i = j
<1>1. CASE chain' = chain /\ r \in Bans(s)!RulesIn(chain)
  BY <1>1
<1>2. CASE chain' = Append(chain, r) /\ (s.backend = "ufw" => r \notin Bans(s)!RulesIn(chain))
  <2>1. /\ chain' \in Seq(R) /\ Len(chain) \in Nat /\ Len(chain') = Len(chain) + 1
        /\ DOMAIN chain = 1 .. Len(chain) /\ DOMAIN chain' = 1 .. Len(chain) + 1
        /\ \A i \in 1 .. Len(chain) : chain'[i] = chain[i]
        /\ chain'[Len(chain) + 1] = r
    BY <1>2
  <2>2. Bans(s)!RulesIn(chain') = Bans(s)!RulesIn(chain) \cup {r}
    BY <2>1 DEF Bans!RulesIn
  <2>3. ASSUME s.backend = "ufw", \A i, j \in DOMAIN chain : chain[i] = chain[j] => i = j,
               NEW i \in DOMAIN chain', NEW j \in DOMAIN chain', chain'[i] = chain'[j]
        PROVE  i = j
    <3>1. \A k \in 1 .. Len(chain) : chain[k] # r
      BY <1>2, <2>1, <2>3 DEF Bans!RulesIn
    <3> QED
      BY <2>1, <2>3, <3>1
  <2> QED
    BY <2>1, <2>2, <2>3
<1> QED
  BY <1>1, <1>2 DEF Bans!AddRule, Bans!NFTAddRule, Bans!UFWAddRule

(* DeleteFirst takes out one occurrence of a rule and nothing else, hence  *)
(* the rule where it occurs once.                                          *)
LEMMA RulesDeleted ==
    ASSUME NEW s, NEW R, chain \in Seq(R), NEW r, Bans(s)!DeleteFirst(r)
    PROVE  /\ chain' \in Seq(R)
           /\ Bans(s)!RulesIn(chain') \subseteq Bans(s)!RulesIn(chain)
           /\ Bans(s)!RulesIn(chain) \ {r} \subseteq Bans(s)!RulesIn(chain')
           /\ (\A i, j \in DOMAIN chain : chain[i] = chain[j] => i = j) =>
                 /\ \A i, j \in DOMAIN chain' : chain'[i] = chain'[j] => i = j
                 /\ r \notin Bans(s)!RulesIn(chain')
<1>1. PICK m \in DOMAIN chain :
         chain[m] = r /\ chain' = SubSeq(chain, 1, m - 1) \o SubSeq(chain, m + 1, Len(chain))
  BY DEF Bans!DeleteFirst
<1>2. Len(chain) \in Nat /\ DOMAIN chain = 1 .. Len(chain) /\ m \in 1 .. Len(chain)
  BY <1>1
<1> DEFINE a == SubSeq(chain, 1, m - 1)
           b == SubSeq(chain, m + 1, Len(chain))
<1>3. a \in Seq(R) /\ Len(a) = m - 1 /\ \A i \in 1 .. m - 1 : a[i] = chain[i]
  BY <1>2
<1>4. b \in Seq(R) /\ Len(b) = Len(chain) - m /\ \A i \in 1 .. Len(chain) - m : b[i] = chain[m + i]
  BY <1>2
<1> HIDE DEF a, b
<1>5. /\ chain' \in Seq(R) /\ DOMAIN chain' = 1 .. Len(chain) - 1
      /\ \A i \in 1 .. Len(chain) - 1 : chain'[i] = IF i < m THEN chain[i] ELSE chain[i + 1]
  <2>1. /\ a \o b \in Seq(R) /\ Len(a \o b) = Len(a) + Len(b)
        /\ \A i \in 1 .. Len(a) : (a \o b)[i] = a[i]
        /\ \A i \in Len(a) + 1 .. Len(a) + Len(b) : (a \o b)[i] = b[i - Len(a)]
    <3>1. a \in Seq(R) /\ b \in Seq(R) /\ Len(a) \in Nat /\ Len(b) \in Nat
      BY <1>3, <1>4
    <3>2. /\ a \o b \in Seq(R) /\ Len(a \o b) = Len(a) + Len(b)
          /\ \A i \in 1 .. Len(a) + Len(b) :
                (a \o b)[i] = IF i <= Len(a) THEN a[i] ELSE b[i - Len(a)]
      BY <3>1, ConcatProperties
    <3> QED
      BY <3>1, <3>2
  <2>2. Len(a \o b) = Len(chain) - 1
    BY <1>2, <1>3, <1>4, <2>1
  <2>3. DOMAIN (a \o b) = 1 .. Len(chain) - 1
    BY <2>1, <2>2
  <2>4. ASSUME NEW i \in 1 .. Len(chain) - 1
        PROVE  (a \o b)[i] = IF i < m THEN chain[i] ELSE chain[i + 1]
    <3>1. CASE i < m
      <4>1. i \in 1 .. m - 1
        BY <1>2, <3>1
      <4> QED
        BY <1>3, <2>1, <3>1, <4>1
    <3>2. CASE ~(i < m)
      <4>1. /\ i \in m - 1 + 1 .. m - 1 + (Len(chain) - m) /\ i - (m - 1) \in 1 .. Len(chain) - m
            /\ m + (i - (m - 1)) = i + 1
        BY <1>2, <3>2
      <4>2. (a \o b)[i] = b[i - (m - 1)]
        BY <1>3, <1>4, <2>1, <4>1
      <4>3. b[i - (m - 1)] = chain[i + 1]
        BY <1>4, <4>1
      <4> QED
        BY <3>2, <4>2, <4>3
    <3> QED
      BY <3>1, <3>2
  <2> QED
    BY <1>1, <2>1, <2>3, <2>4 DEF a, b
<1>6. Bans(s)!RulesIn(chain') \subseteq Bans(s)!RulesIn(chain)
  BY <1>2, <1>5 DEF Bans!RulesIn
<1>7. ASSUME NEW i \in DOMAIN chain, chain[i] # r PROVE \E j \in DOMAIN chain' : chain'[j] = chain[i]
  <2>1. CASE i < m
    BY <1>2, <1>5, <2>1
  <2>2. CASE i > m
    <3>1. i - 1 \in DOMAIN chain' /\ chain'[i - 1] = chain[i]
      BY <1>2, <1>5, <2>2
    <3> QED
      BY <3>1
  <2>3. i # m
    BY <1>1, <1>7
  <2>4. i < m \/ i > m
    BY <1>2, <2>3
  <2> QED
    BY <2>1, <2>2, <2>4
<1>8. Bans(s)!RulesIn(chain) \ {r} \subseteq Bans(s)!RulesIn(chain')
  BY <1>7 DEF Bans!RulesIn
<1>9. ASSUME \A i, j \in DOMAIN chain : chain[i] = chain[j] => i = j
      PROVE  /\ \A i, j \in DOMAIN chain' : chain'[i] = chain'[j] => i = j
             /\ r \notin Bans(s)!RulesIn(chain')
  <2>1. ASSUME NEW i \in DOMAIN chain', NEW j \in DOMAIN chain', chain'[i] = chain'[j]
        PROVE  i = j
    BY <1>2, <1>5, <1>9, <2>1
  <2>2. ASSUME NEW i \in DOMAIN chain' PROVE chain'[i] # r
    <3>1. PICK k \in DOMAIN chain : k # m /\ chain'[i] = chain[k]
      <4>1. CASE i < m
        BY <1>2, <1>5, <4>1
      <4>2. CASE ~(i < m)
        <5>1. i + 1 \in DOMAIN chain /\ i + 1 # m /\ chain'[i] = chain[i + 1]
          BY <1>2, <1>5, <4>2
        <5> QED
          BY <5>1
      <4> QED
        BY <4>1, <4>2
    <3> QED
      BY <1>1, <1>9, <3>1
  <2> QED
    BY <2>1, <2>2 DEF Bans!RulesIn
<1> QED
  BY <1>5, <1>6, <1>8, <1>9

(* The line that a back end prints for a rule that drops an address is     *)
(* read back as one.                                                       *)
LEMMA ListedWhenInChain ==
    ASSUME NEW s, Bans(s)!FirewallConstants, NEW ip \in s.ips,
           Bans(s)!BlockRule(ip) \in Bans(s)!RulesIn(chain)
    PROVE  \E r \in Bans(s)!ListRules :
              r.src = ip /\ r.port = Bans(s)!Any /\ r.action \in {"drop", "deny"}
<1> DEFINE rule == Bans(s)!BlockRule(ip)
<1>1. ip \notin {"any", "accept", "drop", "saddr", "dport"}
  BY DEF Bans!FirewallConstants, Bans!Words, Bans!Any
<1>2. CASE s.backend = "nftables"
  <2> DEFINE l == <<"ip", "saddr", ip, "drop", "comment", "Waffynx">>
  <2>1. Bans(s)!NFTLine(rule) = l
    <3>1. rule.src = ip /\ rule.port = "any" /\ rule.action = "drop"
      BY DEF Bans!BlockRule, Bans!Any
    <3>2. Bans(s)!NFTLine(rule) = (<<>> \o <<"ip", "saddr", ip>>) \o <<"drop", "comment", "Waffynx">>
      BY <1>1, <3>1 DEF Bans!NFTLine, Bans!Any
    <3>3. <<>> \o <<"ip", "saddr", ip>> = <<"ip", "saddr", ip>>
      OBVIOUS
    <3>4. <<"ip", "saddr", ip>> \o <<"drop", "comment", "Waffynx">> = l
      <4> DEFINE t == <<"ip", "saddr", ip>>
                 u == <<"drop", "comment", "Waffynx">>
                 W == {"ip", "saddr", ip, "drop", "comment", "Waffynx"}
      <4>1. t \in Seq(W) /\ u \in Seq(W) /\ l \in Seq(W) /\ Len(t) = 3 /\ Len(u) = 3 /\ Len(l) = 6
        OBVIOUS
      <4>2. Len(t \o u) = 6 /\ t \o u \in Seq(W)
        BY <4>1
      <4>3. ASSUME NEW i \in 1 .. 6 PROVE (t \o u)[i] = l[i]
        <5>1. i \in {1, 2, 3, 4, 5, 6}
          OBVIOUS
        <5> QED
          BY <5>1
      <4> HIDE DEF t, u, l
      <4>4. t \o u = l
        BY <4>1, <4>2, <4>3, SeqEqual
      <4> QED
        BY <4>4 DEF t, u, l
    <3> QED
      BY <3>2, <3>3, <3>4
  <2>2. Bans(s)!ExtractAction(l) = "drop"
    BY <1>1 DEF Bans!ExtractAction
  <2>3. Bans(s)!ExtractAfter(l, "dport") = Bans(s)!Any
    BY <1>1 DEF Bans!ExtractAfter
  <2>4. Bans(s)!ExtractAfter(l, "saddr") = ip
    <3>1. {i \in 1 .. Len(l) - 1 : l[i] = "saddr"} = {2}
      BY <1>1
    <3>2. (CHOOSE i \in {2} : \A j \in {2} : i <= j) = 2
      OBVIOUS
    <3> QED
      BY <3>1, <3>2 DEF Bans!ExtractAfter
  <2>5. [src |-> ip, port |-> Bans(s)!Any, action |-> "drop"] \in Bans(s)!ListRules
    BY <1>2, <2>1, <2>2, <2>3, <2>4 DEF Bans!ListRules, Bans!ParseNFT
  <2> QED
    BY <2>5
<1>3. CASE s.backend # "nftables"
  <2> DEFINE l == <<Bans(s)!Any, "deny", "IN", ip>>
  <2>1. Bans(s)!UFWLine(rule) = l
    BY DEF Bans!UFWLine, Bans!BlockRule
  <2>2. [src |-> ip, port |-> Bans(s)!Any, action |-> "deny"] \in Bans(s)!ListRules
    BY <1>3, <2>1 DEF Bans!ListRules, Bans!ParseUFW
  <2> QED
    BY <2>2
<1> QED
  BY <1>2, <1>3

-----------------------------------------------------------------------------
(* Commands.  A block puts the rule there, ...                             *)
LEMMA BlockStep ==
    ASSUME NEW s, Bans(s)!FirewallConstants, ChainTyped(s), WantInv(s), UfwInv(s), AcceptInv(s),
           NEW ip \in s.ips, Bans(s)!AddRule(Bans(s)!BlockRule(ip)), want' = want \cup {ip}
    PROVE  ChainTyped(s)' /\ WantInv(s)' /\ UfwInv(s)' /\ AcceptInv(s)'
<1> DEFINE rule(i) == Bans(s)!BlockRule(i)
<1>1. rule(ip) \in Bans(s)!Rule /\ \A i \in s.ips : rule(i) = rule(ip) => i = ip
  BY DEF Bans!BlockRule, Bans!Rule
<1> HIDE DEF rule
<1>2. /\ ChainTyped(s)'
      /\ Bans(s)!RulesIn(chain') = Bans(s)!RulesIn(chain) \cup {rule(ip)}
      /\ s.backend = "ufw" /\ (\A i, j \in DOMAIN chain : chain[i] = chain[j] => i = j)
            => \A i, j \in DOMAIN chain' : chain'[i] = chain'[j] => i = j
  <2>1. chain \in Seq(Bans(s)!Rule) /\ Bans(s)!AddRule(rule(ip))
    BY DEF ChainTyped, rule
  <2> QED
    BY <1>1, <2>1, RulesAdded DEF ChainTyped
<1>3. WantInv(s)'
  BY <1>2 DEF WantInv, rule
<1>4. UfwInv(s)'
  BY <1>1, <1>2 DEF UfwInv, Bans!UnblockLifts, rule
<1>5. AcceptInv(s)'
  BY <1>2 DEF AcceptInv, rule, Bans!BlockRule
<1> QED
  BY <1>2, <1>3, <1>4, <1>5

(* ... an unblock removes it and no other, ...                             *)
LEMMA UnblockStep ==
    ASSUME NEW s, Bans(s)!FirewallConstants, ChainTyped(s), WantInv(s), UfwInv(s), AcceptInv(s),
           NEW ip \in s.ips, Bans(s)!RemoveRule(Bans(s)!BlockRule(ip)), want' = want \ {ip},
           want \subseteq s.ips
    PROVE  ChainTyped(s)' /\ WantInv(s)' /\ UfwInv(s)' /\ AcceptInv(s)'
<1> DEFINE rule(i) == Bans(s)!BlockRule(i)
<1>1. \A i \in s.ips : rule(i) = rule(ip) => i = ip
  BY DEF Bans!BlockRule
<1>2. [rule(ip) EXCEPT !.port = Bans(s)!Any] = rule(ip)
  BY DEF Bans!BlockRule
<1>3. Bans(s)!DeleteFirst(rule(ip))
  BY <1>2 DEF Bans!RemoveRule, Bans!NFTRemoveRule, Bans!UFWRemoveRule
<1> HIDE DEF rule
<1>4. /\ ChainTyped(s)'
      /\ Bans(s)!RulesIn(chain') \subseteq Bans(s)!RulesIn(chain)
      /\ Bans(s)!RulesIn(chain) \ {rule(ip)} \subseteq Bans(s)!RulesIn(chain')
      /\ (\A i, j \in DOMAIN chain : chain[i] = chain[j] => i = j) =>
            /\ \A i, j \in DOMAIN chain' : chain'[i] = chain'[j] => i = j
            /\ rule(ip) \notin Bans(s)!RulesIn(chain')
  BY <1>3, RulesDeleted DEF ChainTyped
<1>5. WantInv(s)'
  BY <1>1, <1>4 DEF WantInv, rule
<1>6. UfwInv(s)'
  BY <1>1, <1>4 DEF UfwInv, Bans!UnblockLifts, rule
<1>7. AcceptInv(s)'
  BY <1>4 DEF AcceptInv
<1> QED
  BY <1>4, <1>5, <1>6, <1>7

(* ... and the other rules of a start, which on ufw block nobody, do not   *)
(* change what is blocked.                                                 *)
LEMMA OtherRuleStep ==
    ASSUME NEW s, Bans(s)!FirewallConstants, ChainTyped(s), WantInv(s), UfwInv(s), AcceptInv(s),
           NEW r \in Bans(s)!Rule, Bans(s)!AddRule(r), want' = want,
           s.backend = "ufw" => r.action = "accept",
           r.port = Bans(s)!Any /\ r.action = "accept" =>
               s.backend = "nftables" /\ s.defaultIn = "accept"
    PROVE  ChainTyped(s)' /\ WantInv(s)' /\ UfwInv(s)' /\ AcceptInv(s)'
<1>1. s.backend = "ufw" => \A ip \in s.ips : Bans(s)!BlockRule(ip) # r
  BY DEF Bans!BlockRule
<1>2. /\ ChainTyped(s)'
      /\ Bans(s)!RulesIn(chain') = Bans(s)!RulesIn(chain) \cup {r}
      /\ s.backend = "ufw" /\ (\A i, j \in DOMAIN chain : chain[i] = chain[j] => i = j)
            => \A i, j \in DOMAIN chain' : chain'[i] = chain'[j] => i = j
  BY RulesAdded DEF ChainTyped
<1>3. WantInv(s)'
  BY <1>2 DEF WantInv
<1>4. UfwInv(s)'
  BY <1>1, <1>2 DEF UfwInv, Bans!UnblockLifts
<1>5. AcceptInv(s)'
  BY <1>2 DEF AcceptInv
<1> QED
  BY <1>2, <1>3, <1>4, <1>5

(* Where no command is run, the rules say what they said.                  *)
LEMMA NoCommandStep ==
    ASSUME NEW s, ChainTyped(s), WantInv(s), UfwInv(s), AcceptInv(s), chain' = chain, want' = want
    PROVE  ChainTyped(s)' /\ WantInv(s)' /\ UfwInv(s)' /\ AcceptInv(s)'
<1>1. Bans(s)!RulesIn(chain') = Bans(s)!RulesIn(chain)
  OBVIOUS
<1> QED
  BY <1>1 DEF ChainTyped, WantInv, UfwInv, AcceptInv, Bans!UnblockLifts

(* What the calls have done, when the commands of others, if any, are on   *)
(* record.                                                                 *)
LEMMA CallsKept ==
    ASSUME NEW s, Bans(s)!BanConstants,
           CallsTyped(s), CallsInv(s), ReportedInv(s), ChangedInv(s), BansTyped(s),
           call' = call, bannedIPs' = bannedIPs, changed' = changed,
           \A ip \in s.ips : \/ reported'[ip] = reported[ip] /\ (ip \in want' <=> ip \in want)
                             \/ reported'[ip] = "blocked" /\ ip \in want'
                             \/ reported'[ip] = "freed" /\ ip \notin want'
    PROVE  CallsTyped(s)' /\ CallsInv(s)' /\ ReportedInv(s)' /\ ChangedInv(s)'
<1>1. "blocked" \notin s.calls /\ "freed" \notin s.calls
  BY DEF Bans!BanConstants, Bans!Others
<1>2. CallsTyped(s)' /\ CallsInv(s)' /\ ChangedInv(s)'
  BY DEF CallsTyped, CallRecord, CallsInv, ChangedInv, Bans!None, Bans!Any
<1>3. ASSUME NEW ip \in s.ips
      PROVE  /\ ip \in want' <=> \/ reported'[ip] = "blocked"
                                 \/ reported'[ip] \in s.calls /\ call[reported'[ip]].ban
             /\ reported'[ip] \in s.calls => call[reported'[ip]].pc \in {"firewall", "answered", "lost"}
  BY <1>1 DEF ReportedInv
<1>4. ASSUME NEW c \in s.calls, call[c].pc \in {"firewall", "answered"}, call[c].ban, ~call[c].failed
      PROVE  reported'[call[c].ip] # Bans(s)!Nobody
  <2>1. call[c].ip \in s.ips /\ reported[call[c].ip] # Bans(s)!Nobody
    BY <1>4 DEF CallsInv, ReportedInv
  <2> QED
    BY <2>1 DEF Bans!Nobody
<1>5. ReportedInv(s)'
  BY <1>3, <1>4 DEF ReportedInv, Bans!Nobody
<1> QED
  BY <1>2, <1>5

-----------------------------------------------------------------------------
(* Manager.Start and the end of a process.                                 *)
LEMMA ManageStep ==
    ASSUME NEW s, Bans(s)!FirewallConstants, Bans(s)!BanConstants, BansInv(s), Bans(s)!Manage
    PROVE  BansInv(s)'
<1> USE DEF BansInv
<1>1. /\ now' = now /\ bannedIPs' = bannedIPs /\ call' = call /\ audited' = audited
      /\ changed' = changed
      /\ reported' = [ip \in s.ips |-> IF ip \in want' \ want THEN "blocked" ELSE reported[ip]]
  BY DEF Bans!Manage
<1> DEFINE Kept == /\ ChainTyped(s)' /\ WantInv(s)' /\ UfwInv(s)' /\ AcceptInv(s)'
                   /\ want \subseteq want'
                   /\ want' \in SUBSET s.ips /\ policy' \in {"accept", "drop"}
<1>2. Kept
  <2>0. want \in SUBSET s.ips /\ policy \in {"accept", "drop"}
    BY DEF BansTyped
  <2>1. CASE chain' = chain /\ want' = want /\ policy' \in {policy, s.defaultIn}
    BY <2>0, <2>1, NoCommandStep DEF Bans!FirewallConstants
  <2>2. ASSUME NEW ip \in s.ips, Bans(s)!AddRule(Bans(s)!BlockRule(ip)), want' = want \cup {ip},
               policy' = policy
        PROVE  Kept
    BY <2>0, <2>2, BlockStep
  <2>3. ASSUME NEW p \in s.managedPorts, Bans(s)!AddRule(Bans(s)!PortRule(p)), want' = want,
               policy' = policy
        PROVE  Kept
    <3>1. /\ Bans(s)!PortRule(p) \in Bans(s)!Rule /\ Bans(s)!PortRule(p).action = "accept"
          /\ Bans(s)!PortRule(p).port # Bans(s)!Any
      BY DEF Bans!PortRule, Bans!Rule, Bans!FirewallConstants
    <3> QED
      BY <2>0, <2>3, <3>1, OtherRuleStep
  <2> DEFINE default == [src |-> Bans(s)!Any, port |-> Bans(s)!Any, action |-> s.defaultIn]
  <2>4. CASE /\ s.backend = "nftables" /\ Bans(s)!AddRule(default) /\ want' = want
             /\ policy' = policy
    <3>1. default \in Bans(s)!Rule
      BY DEF Bans!Rule, Bans!FirewallConstants
    <3> QED
      BY <2>0, <2>4, <3>1, OtherRuleStep
  <2>5. ASSUME NEW m \in Bans(s)!Managers, Bans(s)!StartPolicyIn(m) PROVE Kept
    <3>1. CASE Bans(s)!SetDefaultPolicy
      BY <2>1, <2>4, <2>5, <3>1 DEF Bans!StartPolicyIn, Bans!SetDefaultPolicy,
         Bans!NFTSetDefaultPolicy, Bans!UFWSetDefaultPolicy
    <3>2. CASE ~Bans(s)!SetDefaultPolicy
      BY <2>1, <2>5, <3>2 DEF Bans!StartPolicyIn
    <3> QED
      BY <3>1, <3>2
  <2>6. ASSUME NEW m \in Bans(s)!Managers, NEW p \in s.managedPorts, Bans(s)!StartPort(m, p)
        PROVE  Kept
    BY <2>1, <2>3, <2>6 DEF Bans!StartPort
  <2>7. ASSUME NEW m \in Bans(s)!Managers, NEW ip \in s.ips, Bans(s)!StartBlock(m, ip) PROVE Kept
    BY <2>1, <2>2, <2>7 DEF Bans!StartBlock
  <2>8. ASSUME NEW m \in Bans(s)!Managers,
               \/ Bans(s)!Initialize(m) \/ Bans(s)!StartPolicyOut(m) \/ Bans(s)!StartBlocks(m)
               \/ Bans(s)!StartDone(m) \/ Bans(s)!Stop(m)
        PROVE  Kept
    BY <2>1, <2>8 DEF Bans!Initialize, Bans!StartPolicyOut, Bans!StartBlocks,
       Bans!StartDone, Bans!Stop
  <2> QED
    BY <2>5, <2>6, <2>7, <2>8 DEF Bans!Manage, Bans!Start, Bans!Managers
<1>3. /\ stage' \in [Bans(s)!Managers ->
                        {"off", "policyIn", "policyOut", "ports", "blocks", "done", "failed"}]
      /\ todo' \in [Bans(s)!Managers -> SUBSET (s.ips \cup s.managedPorts)]
  <2>1. PICK m \in Bans(s)!Managers :
           \E st \in {"off", "policyIn", "policyOut", "ports", "blocks", "done", "failed"} :
              \E rest \in SUBSET (s.ips \cup s.managedPorts) : Bans(s)!Enter(m, st, rest)
    <3> DEFINE Entered(m) ==
           \E st \in {"off", "policyIn", "policyOut", "ports", "blocks", "done", "failed"} :
              \E rest \in SUBSET (s.ips \cup s.managedPorts) : Bans(s)!Enter(m, st, rest)
    <3>0. /\ s.blockList \subseteq s.ips
          /\ \A m \in Bans(s)!Managers : todo[m] \in SUBSET (s.ips \cup s.managedPorts)
      BY DEF BansTyped, Bans!FirewallConstants
    <3>1. ASSUME NEW m \in Bans(s)!Managers,
                 \/ Bans(s)!Initialize(m) \/ Bans(s)!StartPolicyIn(m) \/ Bans(s)!StartDone(m)
                 \/ Bans(s)!Stop(m) \/ Bans(s)!StartPolicyOut(m) \/ Bans(s)!StartBlocks(m)
          PROVE  Entered(m)
      BY <3>0, <3>1 DEF Bans!Initialize, Bans!StartPolicyIn, Bans!StartDone, Bans!Stop,
         Bans!StartPolicyOut, Bans!StartBlocks
    <3>2. ASSUME NEW m \in Bans(s)!Managers, NEW p, Bans(s)!StartPort(m, p) \/ Bans(s)!StartBlock(m, p)
          PROVE  Entered(m)
      <4>1. todo[m] \ {p} \in SUBSET (s.ips \cup s.managedPorts)
        BY <3>0
      <4> QED
        BY <3>2, <4>1 DEF Bans!StartPort, Bans!StartBlock
    <3> QED
      BY <3>1, <3>2 DEF Bans!Manage, Bans!Start, Bans!Managers
  <2> QED
    BY <2>1 DEF BansTyped, Bans!Enter
<1>4. BansTyped(s)'
  BY <1>1, <1>2, <1>3 DEF BansTyped, Bans!Others, Bans!Nobody, Bans!None
<1>5. CallsTyped(s)' /\ CallsInv(s)' /\ ReportedInv(s)' /\ ChangedInv(s)'
  BY <1>1, <1>2, CallsKept
<1> QED
  BY <1>2, <1>4, <1>5

-----------------------------------------------------------------------------
(* The handlers.  A step of call c leaves the other calls alone.           *)
LEMMA TableStep ==
    ASSUME NEW s, Bans(s)!FirewallConstants, Bans(s)!BanConstants, BansInv(s),
           NEW c \in s.calls, NEW ip \in s.ips, Bans(s)!BeginBan(c, ip) \/ Bans(s)!BeginUnban(c, ip)
    PROVE  BansInv(s)'
<1> USE DEF BansInv
<1>1. /\ Bans(s)!fwVars' = Bans(s)!fwVars /\ now' = now /\ audited' = audited /\ reported' = reported
      /\ call[c].pc = "new" /\ changed' = [changed EXCEPT ![ip] = c]
  BY DEF Bans!BeginBan, Bans!BeginUnban
<1>2. /\ call'[c].pc = "table" /\ call'[c].ip = ip
      /\ call'[c] \in CallRecord(s) /\ CallsTyped(s)'
      /\ \A d \in s.calls : d # c => call'[d] = call[d]
  <2>1. call[c] \in CallRecord(s)
    BY DEF CallsTyped
  <2>2. CASE Bans(s)!BeginBan(c, ip)
    BY <2>1, <2>2 DEF CallsTyped, CallRecord, Bans!BeginBan
  <2>3. CASE Bans(s)!BeginUnban(c, ip)
    BY <2>1, <2>3 DEF CallsTyped, CallRecord, Bans!BeginUnban
  <2> QED
    BY <2>2, <2>3
<1>3. BansTyped(s)'
  <2>1. bannedIPs' \in [s.ips -> Nat \cup {Bans(s)!None}]
    <3>1. now + s.ttl \in Nat
      BY DEF BansTyped, Bans!BanConstants
    <3> QED
      BY <3>1 DEF BansTyped, Bans!BeginBan, Bans!BeginUnban
  <2> QED
    BY <1>1, <2>1 DEF BansTyped, Bans!fwVars, Bans!Others, Bans!Nobody, Bans!None
<1>4. CallsInv(s)'
  BY <1>1, <1>2 DEF CallsInv
<1>5. ChainTyped(s)' /\ WantInv(s)' /\ UfwInv(s)' /\ AcceptInv(s)'
  BY <1>1, NoCommandStep DEF Bans!fwVars
<1>6. ReportedInv(s)'
  <2>1. want' = want
    BY <1>1 DEF Bans!fwVars
  <2>2. ASSUME NEW i \in s.ips, reported[i] \in s.calls PROVE call'[reported[i]] = call[reported[i]]
    BY <1>1, <1>2, <2>2 DEF ReportedInv
  <2>3. ASSUME NEW d \in s.calls, call'[d].pc \in {"firewall", "answered"} PROVE call'[d] = call[d]
    BY <1>2, <2>3
  <2> QED
    BY <1>1, <2>1, <2>2, <2>3 DEF ReportedInv, Bans!Nobody
<1>7. ChangedInv(s)'
  <2>1. CASE Bans(s)!BeginBan(c, ip)
    <3>1. bannedIPs' = [bannedIPs EXCEPT ![ip] = now + s.ttl] /\ now + s.ttl \in Nat /\ call'[c].ban
      BY <1>1, <2>1 DEF Bans!BeginBan, BansTyped, Bans!BanConstants, CallsTyped, CallsInv, CallRecord
    <3> QED
      BY <1>1, <1>2, <3>1 DEF ChangedInv, BansTyped, Bans!None
  <2>2. CASE Bans(s)!BeginUnban(c, ip)
    <3>1. bannedIPs' = [bannedIPs EXCEPT ![ip] = Bans(s)!None] /\ ~call'[c].ban
      BY <1>1, <2>2 DEF Bans!BeginUnban, CallsTyped, CallRecord
    <3> QED
      BY <1>1, <1>2, <3>1 DEF ChangedInv, BansTyped, Bans!None
  <2> QED
    BY <2>1, <2>2
<1> QED
  BY <1>2, <1>3, <1>4, <1>5, <1>6, <1>7

(* The command of a call, or its failure.                                  *)
LEMMA CommandStep ==
    ASSUME NEW s, Bans(s)!FirewallConstants, Bans(s)!BanConstants, BansInv(s),
           NEW c \in s.calls, Bans(s)!BanCommand(c) \/ Bans(s)!UnbanCommand(c)
    PROVE  BansInv(s)'
<1> USE DEF BansInv
<1>0. /\ want \in SUBSET s.ips /\ call[c].ip \in s.ips /\ call[c].pc = "table"
      /\ call[c] \in CallRecord(s)
  BY DEF BansTyped, CallsTyped, CallsInv, Bans!BanCommand, Bans!UnbanCommand
<1>1. /\ now' = now /\ bannedIPs' = bannedIPs /\ audited' = audited /\ changed' = changed
      /\ stage' = stage /\ todo' = todo /\ policy' = policy
  BY DEF Bans!BanCommand, Bans!UnbanCommand, Bans!BlockIP, Bans!UnblockIP, Bans!CommandFails,
     Bans!fwVars
<1>2. /\ CallsTyped(s)'
      /\ call'[c].pc = "firewall" /\ call'[c].ip = call[c].ip /\ call'[c].ban = call[c].ban
      /\ call'[c] \in CallRecord(s)
      /\ \A d \in s.calls : d # c => call'[d] = call[d]
  BY <1>0 DEF CallsTyped, CallRecord, Bans!BanCommand, Bans!UnbanCommand, Bans!Executed
<1>3. \/ /\ chain' = chain /\ want' = want /\ reported' = reported /\ call'[c].failed
      \/ /\ reported' = [reported EXCEPT ![call[c].ip] = c]
         /\ \/ /\ call[c].ban /\ want' = want \cup {call[c].ip}
               /\ Bans(s)!AddRule(Bans(s)!BlockRule(call[c].ip))
            \/ /\ ~call[c].ban /\ want' = want \ {call[c].ip}
               /\ Bans(s)!RemoveRule(Bans(s)!BlockRule(call[c].ip))
  <2>1. CASE Bans(s)!BanCommand(c) /\ Bans(s)!BlockIP(call[c].ip) /\ Bans(s)!Executed(c, FALSE)
    BY <2>1 DEF Bans!BanCommand, Bans!BlockIP, Bans!Executed
  <2>2. CASE Bans(s)!CommandFails /\ Bans(s)!Executed(c, TRUE)
    <3>1. call'[c].failed
      BY <1>0, <2>2 DEF CallsTyped, CallRecord, Bans!Executed
    <3> QED
      BY <2>2, <3>1 DEF Bans!CommandFails, Bans!fwVars, Bans!Executed
  <2>3. CASE Bans(s)!UnbanCommand(c) /\ Bans(s)!UnblockIP(call[c].ip) /\ Bans(s)!Executed(c, FALSE)
    BY <2>3 DEF Bans!UnbanCommand, Bans!UnblockIP, Bans!Executed
  <2> QED
    BY <2>1, <2>2, <2>3 DEF Bans!BanCommand, Bans!UnbanCommand
<1>4. ChainTyped(s)' /\ WantInv(s)' /\ UfwInv(s)' /\ AcceptInv(s)' /\ want' \in SUBSET s.ips
  <2>1. CASE chain' = chain /\ want' = want
    BY <1>0, <2>1, NoCommandStep
  <2>2. CASE /\ call[c].ban /\ want' = want \cup {call[c].ip}
             /\ Bans(s)!AddRule(Bans(s)!BlockRule(call[c].ip))
    BY <1>0, <2>2, BlockStep
  <2>3. CASE /\ ~call[c].ban /\ want' = want \ {call[c].ip}
             /\ Bans(s)!RemoveRule(Bans(s)!BlockRule(call[c].ip))
    BY <1>0, <2>3, UnblockStep
  <2> QED
    BY <1>3, <2>1, <2>2, <2>3
<1>5. BansTyped(s)'
  <2>1. reported' \in [s.ips -> s.calls \cup Bans(s)!Others \cup {Bans(s)!Nobody}]
    BY <1>0, <1>3 DEF BansTyped
  <2> QED
    BY <1>1, <1>4, <2>1 DEF BansTyped, Bans!Others, Bans!Nobody, Bans!None
<1>6. CallsInv(s)'
  BY <1>0, <1>2 DEF CallsInv
<1>7. ReportedInv(s)'
  <2>0. c \notin {"blocked", "freed", "nobody"}
    BY DEF Bans!BanConstants, Bans!Others, Bans!Nobody
  <2>1. ASSUME NEW i \in s.ips, reported[i] \in s.calls
        PROVE  reported[i] # c /\ call'[reported[i]] = call[reported[i]]
    BY <1>0, <1>2, <2>1 DEF ReportedInv
  <2>2. \A i \in s.ips : \/ reported'[i] = reported[i] /\ (i \in want' <=> i \in want)
                         \/ reported'[i] = c /\ (i \in want' <=> call'[c].ban)
    BY <1>0, <1>2, <1>3 DEF BansTyped
  <2>3. ASSUME NEW i \in s.ips
        PROVE  /\ i \in want' <=> \/ reported'[i] = "blocked"
                                  \/ reported'[i] \in s.calls /\ call'[reported'[i]].ban
               /\ reported'[i] \in s.calls => call'[reported'[i]].pc \in {"firewall", "answered", "lost"}
    <3>1. CASE reported'[i] = reported[i] /\ (i \in want' <=> i \in want)
      BY <2>1, <3>1 DEF ReportedInv
    <3>2. CASE reported'[i] = c /\ (i \in want' <=> call'[c].ban)
      BY <1>2, <2>0, <3>2
    <3> QED
      BY <2>2, <3>1, <3>2
  <2>4. ASSUME NEW d \in s.calls, call'[d].pc \in {"firewall", "answered"}, call'[d].ban, ~call'[d].failed
        PROVE  reported'[call'[d].ip] # Bans(s)!Nobody
    <3>1. CASE d = c
      BY <1>0, <1>2, <1>3, <2>0, <2>4, <3>1 DEF BansTyped, Bans!Nobody
    <3>2. CASE d # c
      <4>1. call'[d] = call[d] /\ call[d].ip \in s.ips /\ reported[call[d].ip] # Bans(s)!Nobody
        BY <1>2, <2>4, <3>2 DEF CallsInv, ReportedInv
      <4> QED
        BY <2>0, <2>2, <4>1 DEF Bans!Nobody
    <3> QED
      BY <3>1, <3>2
  <2> QED
    BY <2>3, <2>4 DEF ReportedInv, Bans!Nobody
<1>8. ChangedInv(s)'
  <2>1. ASSUME NEW d \in s.calls, call[d].pc # "new"
        PROVE  call'[d].pc # "new" /\ call'[d].ban = call[d].ban
    BY <1>2, <2>1
  <2> QED
    BY <1>1, <2>1 DEF ChangedInv, Bans!None
<1> QED
  BY <1>2, <1>4, <1>5, <1>6, <1>7, <1>8

(* An answer, and the end of the process with the calls under way.         *)
LEMMA EndStep ==
    ASSUME NEW s, Bans(s)!FirewallConstants, Bans(s)!BanConstants, BansInv(s),
           Bans(s)!ApiStop \/ \E c \in s.calls : Bans(s)!Answer(c)
    PROVE  BansInv(s)'
<1> USE DEF BansInv
<1>1. /\ chain' = chain /\ policy' = policy /\ want' = want /\ now' = now /\ reported' = reported
      /\ \/ changed' = changed /\ bannedIPs' = bannedIPs
         \/ changed' = [ip \in s.ips |-> Bans(s)!Nobody]
  BY DEF Bans!ApiStop, Bans!Stop, Bans!Answer, Bans!fwVars
<1>2. CallsTyped(s)'
  <2>1. CASE Bans(s)!ApiStop
    BY <2>1 DEF CallsTyped, CallRecord, Bans!ApiStop
  <2>2. CASE \E c \in s.calls : Bans(s)!Answer(c)
    BY <2>2 DEF CallsTyped, CallRecord, Bans!Answer
  <2> QED
    BY <2>1, <2>2
<1> DEFINE Ended(c) ==
       /\ call'[c].ip = call[c].ip /\ call'[c].ban = call[c].ban /\ call'[c].failed = call[c].failed
       /\ \/ call'[c].pc = call[c].pc
          \/ call[c].pc = "firewall" /\ call'[c].pc = "answered"
          \/ call[c].pc \in {"table", "firewall"} /\ call'[c].pc = "lost"
<1>3. ASSUME NEW c \in s.calls PROVE Ended(c)
  <2>0. call[c] \in CallRecord(s)
    BY DEF CallsTyped
  <2>1. CASE Bans(s)!ApiStop
    <3>1. call'[c] = IF call[c].pc \in {"table", "firewall"}
                     THEN [call[c] EXCEPT !.pc = "lost"] ELSE call[c]
      BY <2>1 DEF Bans!ApiStop
    <3> QED
      BY <2>0, <3>1 DEF CallRecord
  <2>2. ASSUME NEW d \in s.calls, Bans(s)!Answer(d) PROVE Ended(c)
    <3>1. call'[c] = IF c = d THEN [call[c] EXCEPT !.pc = "answered"] ELSE call[c]
      BY <2>2 DEF CallsTyped, Bans!Answer
    <3> QED
      BY <2>0, <2>2, <3>1 DEF CallRecord, Bans!Answer
  <2> QED
    BY <2>1, <2>2
<1>4. BansTyped(s)'
  <2>1. CASE Bans(s)!ApiStop
    BY <1>1, <2>1 DEF BansTyped, Bans!ApiStop, Bans!Stop, Bans!Enter, Bans!Others, Bans!Nobody, Bans!None
  <2>2. CASE \E c \in s.calls : Bans(s)!Answer(c)
    BY <1>1, <2>2 DEF BansTyped, Bans!Answer, Bans!fwVars, Bans!Others, Bans!Nobody, Bans!None
  <2> QED
    BY <2>1, <2>2
<1>5. CallsInv(s)'
  BY <1>3 DEF CallsInv
<1>6. ChainTyped(s)' /\ WantInv(s)' /\ UfwInv(s)' /\ AcceptInv(s)'
  BY <1>1, NoCommandStep
<1>7. ReportedInv(s)'
  BY <1>1, <1>3 DEF ReportedInv, Bans!Nobody
<1>8. ChangedInv(s)'
  <2>1. Bans(s)!Nobody \notin s.calls
    BY DEF Bans!BanConstants
  <2>2. CASE changed' = [ip \in s.ips |-> Bans(s)!Nobody]
    BY <2>1, <2>2 DEF ChangedInv, Bans!Nobody
  <2>3. CASE changed' = changed /\ bannedIPs' = bannedIPs
    BY <1>3, <2>3 DEF ChangedInv, Bans!None
  <2> QED
    BY <1>1, <2>2, <2>3
<1> QED
  BY <1>2, <1>4, <1>5, <1>6, <1>7, <1>8

(* The agent's commands, and the clock.                                    *)
LEMMA AgentStep ==
    ASSUME NEW s, Bans(s)!FirewallConstants, Bans(s)!BanConstants, BansInv(s),
           Bans(s)!Tick \/ \E ip \in s.ips : Bans(s)!AgentCommand(ip)
    PROVE  BansInv(s)'
<1> USE DEF BansInv
<1>1. CASE Bans(s)!Tick
  <2>1. BansTyped(s)'
    BY <1>1 DEF BansTyped, Bans!Tick, Bans!fwVars, Bans!BanConstants, Bans!Others, Bans!Nobody, Bans!None
  <2>2. ChainTyped(s)' /\ WantInv(s)' /\ UfwInv(s)' /\ AcceptInv(s)'
    BY <1>1, NoCommandStep DEF Bans!Tick, Bans!fwVars
  <2>3. CallsTyped(s)' /\ CallsInv(s)' /\ ReportedInv(s)' /\ ChangedInv(s)'
    BY <1>1, CallsKept DEF Bans!Tick, Bans!fwVars
  <2> QED
    BY <2>1, <2>2, <2>3
<1>2. ASSUME NEW ip \in s.ips, Bans(s)!AgentCommand(ip) PROVE BansInv(s)'
  <2>1. /\ now' = now /\ bannedIPs' = bannedIPs /\ audited' = audited /\ call' = call
        /\ stage' = stage /\ todo' = todo /\ policy' = policy /\ want \in SUBSET s.ips
        /\ changed' = changed /\ \E w \in Bans(s)!Others : reported' = [reported EXCEPT ![ip] = w]
    BY <1>2 DEF BansTyped, Bans!AgentCommand, Bans!BlockIP, Bans!UnblockIP, Bans!Others
  <2>2. /\ ChainTyped(s)' /\ WantInv(s)' /\ UfwInv(s)' /\ AcceptInv(s)' /\ want' \in SUBSET s.ips
        /\ \A i \in s.ips : \/ reported'[i] = reported[i] /\ (i \in want' <=> i \in want)
                            \/ reported'[i] = "blocked" /\ i \in want'
                            \/ reported'[i] = "freed" /\ i \notin want'
    <3>1. CASE Bans(s)!BlockIP(ip) /\ reported' = [reported EXCEPT ![ip] = "blocked"]
      BY <2>1, <3>1, BlockStep DEF BansTyped, Bans!BlockIP
    <3>2. CASE Bans(s)!UnblockIP(ip) /\ reported' = [reported EXCEPT ![ip] = "freed"]
      BY <2>1, <3>2, UnblockStep DEF BansTyped, Bans!UnblockIP
    <3> QED
      BY <1>2, <3>1, <3>2 DEF Bans!AgentCommand
  <2>3. BansTyped(s)'
    BY <2>1, <2>2 DEF BansTyped, Bans!Others, Bans!Nobody, Bans!None
  <2>4. CallsTyped(s)' /\ CallsInv(s)' /\ ReportedInv(s)' /\ ChangedInv(s)'
    BY <2>1, <2>2, CallsKept
  <2> QED
    BY <2>2, <2>3, <2>4
<1> QED
  BY <1>1, <1>2

(* The invariant of the bans holds when the system starts ...              *)
LEMMA BansInit ==
    ASSUME NEW s, Bans(s)!FirewallConstants, Bans(s)!BanConstants, Bans(s)!Init
    PROVE  BansInv(s)
<1> USE DEF Bans!Init, Bans!FwInit, Bans!FirewallConstants, Bans!BanConstants
<1>1. BansTyped(s)
  BY DEF BansTyped, Bans!Others, Bans!Nobody
<1>2. ChainTyped(s) /\ chain = <<>>
  BY DEF ChainTyped
<1>3. CallsTyped(s) /\ CallsInv(s) /\ ReportedInv(s) /\ ChangedInv(s)
  BY DEF CallsTyped, CallRecord, CallsInv, ReportedInv, ChangedInv, Bans!Nobody, Bans!Others
<1>4. WantInv(s)
  BY DEF WantInv
<1>5. UfwInv(s)
  <2>1. Bans(s)!RulesIn(chain) = {} /\ DOMAIN chain = {}
    BY <1>2 DEF Bans!RulesIn
  <2> QED
    BY <2>1 DEF UfwInv, Bans!UnblockLifts
<1>6. AcceptInv(s)
  BY <1>2 DEF AcceptInv, Bans!RulesIn
<1> QED
  BY <1>1, <1>2, <1>3, <1>4, <1>5, <1>6 DEF BansInv

(* ... and every step of the managers and the handlers keeps it.           *)
LEMMA BansStep ==
    ASSUME NEW s, Bans(s)!FirewallConstants, Bans(s)!BanConstants
    PROVE  BansInv(s) /\ [Bans(s)!Next]_(Bans(s)!vars) => BansInv(s)'
<1> SUFFICES ASSUME BansInv(s), [Bans(s)!Next]_(Bans(s)!vars) PROVE BansInv(s)'
  OBVIOUS
<1>1. CASE UNCHANGED Bans(s)!vars
  <2> USE <1>1 DEF Bans!vars, Bans!fwVars, BansInv
  <2>1. BansTyped(s)'
    BY DEF BansTyped, Bans!Others, Bans!Nobody, Bans!None
  <2>2. ChainTyped(s)' /\ WantInv(s)' /\ UfwInv(s)' /\ AcceptInv(s)'
    BY NoCommandStep
  <2>3. CallsTyped(s)' /\ CallsInv(s)' /\ ReportedInv(s)' /\ ChangedInv(s)'
    BY CallsKept
  <2> QED
    BY <2>1, <2>2, <2>3
<1>2. ASSUME NEW c \in s.calls, Bans(s)!Handler(c) PROVE BansInv(s)'
  BY <1>2, TableStep, CommandStep, EndStep DEF Bans!Handler
<1> QED
  BY <1>1, <1>2, ManageStep, EndStep, AgentStep DEF Bans!Next

(* Of the places in the chain there is an earliest.                        *)
LEMMA Earliest ==
    ASSUME NEW S, S \subseteq Nat, S # {}
    PROVE  \E i \in S : \A j \in S : i <= j
<1> DEFINE R == OpToRel(<, Nat)
<1>1. \A i, j \in Nat : i < j => <<i, j>> \in R
  BY Zenon DEF OpToRel
<1>2. IsWellFoundedOn(R, Nat)
  BY Zenon, NatLessThanWellFounded DEF R
<1> HIDE DEF R
<1>3. PICK i \in S : \A j \in S : ~ (<<j, i>> \in R)
  BY <1>2, WFMin, Zenon
<1>4. ASSUME NEW j \in S PROVE i <= j
  <2>1. i \in Nat /\ j \in Nat
    OBVIOUS
  <2>2. ~ (j < i)
    BY <1>1, <1>3, <2>1, Zenon
  <2> QED
    BY <2>1, <2>2
<1> QED
  BY <1>4

(* A packet from an address that has a rule to drop it is dropped, on      *)
(* whatever port, if no rule before it accepts everything.                 *)
LEMMA BlockedIsDropped ==
    ASSUME NEW s, ChainTyped(s), AcceptInv(s), ~(s.backend = "nftables" /\ s.defaultIn = "accept"),
           NEW ip \in s.ips, Bans(s)!BlockRule(ip) \in Bans(s)!RulesIn(chain)
    PROVE  ip \in Bans(s)!Dropped
<1> DEFINE M == Bans(s)!Matching(ip, Bans(s)!Any)
           first == CHOOSE i \in M : \A j \in M : i <= j
<1>1. /\ DOMAIN chain = 1 .. Len(chain) /\ Len(chain) \in Nat
      /\ \A i \in DOMAIN chain : chain[i] \in Bans(s)!Rule /\ chain[i] \in Bans(s)!RulesIn(chain)
  BY DEF ChainTyped, Bans!RulesIn
<1>2. M \subseteq DOMAIN chain /\ M \subseteq Nat
  BY <1>1 DEF Bans!Matching
<1>3. M # {}
  <2>1. PICK i \in DOMAIN chain : chain[i] = Bans(s)!BlockRule(ip)
    BY DEF Bans!RulesIn
  <2>2. i \in M
    BY <2>1 DEF Bans!Matching, Bans!BlockRule
  <2> QED
    BY <2>2
<1>4. first \in M
  <2>1. \E i \in M : \A j \in M : i <= j
    BY <1>2, <1>3, Earliest
  <2> QED
    BY <2>1
<1>5. ASSUME NEW i \in M PROVE chain[i].action = "drop"
  <2>1. i \in DOMAIN chain /\ chain[i].port = Bans(s)!Any
    BY DEF Bans!Matching
  <2> QED
    BY <1>1, <2>1 DEF AcceptInv, Bans!Rule
<1> HIDE DEF first
<1>6. Bans(s)!Verdict(ip, Bans(s)!Any) = chain[first].action
  BY <1>3 DEF Bans!Verdict, first
<1> QED
  BY <1>4, <1>5, <1>6 DEF Bans!Dropped

(* The invariant gives the property.                                       *)
LEMMA BansFollow ==
    ASSUME NEW s, Bans(s)!FirewallConstants, Bans(s)!BanConstants, BansInv(s)
    PROVE  Bans(s)!BansHold /\ Bans(s)!TypeOK
<1> USE DEF BansInv
<1>1. Bans(s)!BlockedIsListed
  BY ListedWhenInChain DEF BansTyped, WantInv, Bans!BlockedIsListed
<1>2. ASSUME ~Bans(s)!AcceptedFirst PROVE Bans(s)!AnsweredBanHolds
  <2> SUFFICES ASSUME NEW c \in s.calls, call[c].pc = "answered", call[c].ban, ~call[c].failed,
                      call[c].ip \notin Bans(s)!Lifted
               PROVE  call[c].ip \in Bans(s)!Dropped
    BY DEF Bans!AnsweredBanHolds
  <2> DEFINE ip == call[c].ip
  <2>1. ip \in s.ips /\ reported[ip] # Bans(s)!Nobody
    BY DEF CallsInv, ReportedInv
  <2>2. reported[ip] = "blocked" \/ (reported[ip] \in s.calls /\ call[reported[ip]].ban)
    BY <2>1 DEF BansTyped, Bans!Others, Bans!Lifted
  <2>3. ip \in want
    BY <2>1, <2>2 DEF ReportedInv
  <2> QED
    BY <1>2, <2>1, <2>3, BlockedIsDropped DEF WantInv, Bans!AcceptedFirst
<1>5. Bans(s)!TableAgrees
  <2> SUFFICES ASSUME NEW ip \in s.ips, changed[ip] = reported[ip], changed[ip] # Bans(s)!Nobody
               PROVE  /\ bannedIPs[ip] # Bans(s)!None => Bans(s)!BlockRule(ip) \in Bans(s)!RulesIn(chain)
                      /\ s.backend = "ufw" /\ bannedIPs[ip] = Bans(s)!None =>
                            Bans(s)!BlockRule(ip) \notin Bans(s)!RulesIn(chain)
    BY DEF Bans!TableAgrees
  <2>1. changed[ip] \in s.calls /\ changed[ip] # "blocked"
    BY DEF BansTyped, Bans!BanConstants, Bans!Others
  <2>2. bannedIPs[ip] # Bans(s)!None <=> ip \in want
    BY <2>1 DEF ChangedInv, ReportedInv
  <2> QED
    BY <2>2 DEF WantInv, UfwInv, Bans!UnblockLifts
<1>3. s.backend = "ufw" => Bans(s)!UnblockLifts
  BY DEF UfwInv
<1>4. Bans(s)!TypeOK
  BY DEF BansTyped, ChainTyped, CallsTyped, CallRecord, Bans!TypeOK, Bans!FwTypeOK
<1> QED
  BY <1>1, <1>2, <1>3, <1>4, <1>5 DEF Bans!BansHold

-----------------------------------------------------------------------------
(* The API server and the agent, whatever they are told in whatever order  *)
(* and however often they end and fail.                                    *)
THEOREM BansInvariant ==
    Spec => []((part = "ufw" => BansInv(UfwSetup)) /\ (part = "nftables" => BansInv(NftSetup)))
<1> DEFINE Inv == (part = "ufw" => BansInv(UfwSetup)) /\ (part = "nftables" => BansInv(NftSetup))
<1> USE UfwAssumption, NftAssumption
<1>1. Init => Inv
  BY BansInit DEF Init
<1>2. Inv /\ [Next]_vars => Inv'
  <2> SUFFICES ASSUME Inv, [Next]_vars PROVE Inv'
    OBVIOUS
  <2>1. /\ part' = part
        /\ part = "ufw" => [Bans(UfwSetup)!Next]_(Bans(UfwSetup)!vars)
        /\ part = "nftables" => [Bans(NftSetup)!Next]_(Bans(NftSetup)!vars)
    BY DEF Next, vars, banVars, Bans!vars, Bans!fwVars
  <2>2. part = "ufw" => BansInv(UfwSetup)'
    BY <2>1, BansStep
  <2>3. part = "nftables" => BansInv(NftSetup)'
    BY <2>1, BansStep
  <2> QED
    BY <2>1, <2>2, <2>3
<1> QED
  BY <1>1, <1>2, PTL DEF Spec

(* BlockIP, UnblockIP and handleFirewallBlock: what was blocked last is    *)
(* read back as blocked; the first rule that matches a packet from an      *)
(* address whose ban was answered drops it, until the last to succeed      *)
(* lifted it; table and kernel say the same where the same call came last  *)
(* to both; and one unblock on ufw frees an address.                       *)
THEOREM BansHoldHolds == Spec => []BansHold
<1>1. /\ BansInv(UfwSetup) => Bans(UfwSetup)!BansHold
      /\ BansInv(NftSetup) => Bans(NftSetup)!BansHold
  BY BansFollow, UfwAssumption, NftAssumption
<1> QED
  BY BansInvariant, <1>1, PTL DEF BansHold

(* The middleware and the handlers around a configuration that changes.    *)
THEOREM AccessInvariant ==
    Spec => [](/\ part = "providers" => AccessInv(ProviderSetup) /\ SeenInv(ProviderSetup)
               /\ part = "secrets" => AccessInv(SecretSetup) /\ SeenInv(SecretSetup))
<1> DEFINE Inv == /\ part = "providers" => AccessInv(ProviderSetup) /\ SeenInv(ProviderSetup)
                  /\ part = "secrets" => AccessInv(SecretSetup) /\ SeenInv(SecretSetup)
<1> USE AccessAssumption
<1>1. Init => Inv
  BY AccessInit, SeenInit DEF Init
<1>2. Inv /\ [Next]_vars => Inv'
  <2> SUFFICES ASSUME Inv, [Next]_vars PROVE Inv'
    OBVIOUS
  <2>1. /\ part' = part
        /\ part = "providers" => [Access(ProviderSetup)!Next]_(Access(ProviderSetup)!vars)
        /\ part = "secrets" => [Access(SecretSetup)!Next]_(Access(SecretSetup)!vars)
    BY DEF Next, vars, accessVars, Access!vars, Access!server, Access!requests
  <2>2. part = "providers" => AccessInv(ProviderSetup)' /\ SeenInv(ProviderSetup)'
    BY <2>1, AccessStep, SeenStep
  <2>3. part = "secrets" => AccessInv(SecretSetup)' /\ SeenInv(SecretSetup)'
    BY <2>1, AccessStep, SeenStep
  <2> QED
    BY <2>1, <2>2, <2>3
<1> QED
  BY <1>1, <1>2, PTL DEF Spec

(* authMiddleware, requireRole and requireScope: an administrator's work   *)
(* is done for one, events come from the operator's service, and whoever   *)
(* is served has a token that is signed with a secret or by a provider     *)
(* that was in force at some moment since the request arrived.             *)
THEOREM AccessJustifiedHolds == Spec => []AccessJustified
<1>1. /\ AccessInv(ProviderSetup) /\ SeenInv(ProviderSetup) => Access(ProviderSetup)!AccessJustified
      /\ AccessInv(SecretSetup) /\ SeenInv(SecretSetup) => Access(SecretSetup)!AccessJustified
  BY AccessFollows, AccessAssumption
<1> QED
  BY AccessInvariant, <1>1, PTL DEF AccessJustified

-----------------------------------------------------------------------------
(* Every part keeps its type: the configuration ...                        *)
LEMMA LeavesTyped ==
    /\ CS!NotLoaded \in CS!Partial /\ CS!Config \subseteq CS!Partial
    /\ \A c \in CS!Config, f \in CS!Fields : \A v \in CS!Values[f] : [c EXCEPT ![f] = v] \in CS!Config
    /\ \A c \in CS!Partial, d \in CS!Config, f \in CS!Fields : [c EXCEPT ![f] = d[f]] \in CS!Partial
    /\ \A c \in CS!Partial, f \in CS!Fields : [c EXCEPT ![f] = CS!Missing] \in CS!Partial
    /\ \A c \in CS!Partial : CS!Parse(c) \subseteq CS!Config
    /\ \A c \in CS!Config : \A n \in 0 .. 3 : CS!Prefix(c, n) \in CS!Partial
<1> USE DEF CS!Config, CS!Partial, CS!Fields, CS!Values
<1>1. CS!NotLoaded \in CS!Partial /\ CS!Config \subseteq CS!Partial
  BY DEF CS!NotLoaded
<1>2. ASSUME NEW c \in CS!Config, NEW f \in CS!Fields, NEW v \in CS!Values[f]
      PROVE  [c EXCEPT ![f] = v] \in CS!Config
  OBVIOUS
<1>3. ASSUME NEW c \in CS!Partial, NEW d \in CS!Config, NEW f \in CS!Fields
      PROVE  [c EXCEPT ![f] = d[f]] \in CS!Partial
  OBVIOUS
<1>4. ASSUME NEW c \in CS!Partial PROVE CS!Parse(c) \subseteq CS!Config
  BY DEF CS!Parse, CS!defaultConfig
<1>5. ASSUME NEW c \in CS!Config, NEW n \in 0 .. 3 PROVE CS!Prefix(c, n) \in CS!Partial
  BY DEF CS!Prefix
<1>6. ASSUME NEW c \in CS!Partial, NEW f \in CS!Fields PROVE [c EXCEPT ![f] = CS!Missing] \in CS!Partial
  OBVIOUS
<1> QED
  BY <1>1, <1>2, <1>3, <1>4, <1>5, <1>6

(* Every step of the configuration server keeps the types.                 *)
LEMMA ConfigTypedStep ==
    ASSUME CS!ConfigConstants, CS!TypeOK, ConfigInv, CS!Next
    PROVE  CS!TypeOK'
<1> USE DEF CS!TypeOK
<1>1. ASSUME NEW u \in ConfigSetup.updaters, CS!Update(u) PROVE CS!TypeOK'
  <2>1. ASSUME NEW f \in CS!Fields, NEW v \in CS!Values[f], CS!UpdateRefuse(u, f, v)
        PROVE  CS!TypeOK'
    BY <2>1 DEF CS!ConfigConstants, CS!UpdateRefuse, CS!Nobody
  <2>2. ASSUME NEW f \in CS!Fields, NEW v \in CS!Values[f], CS!UpdateOpen(u, f, v)
        PROVE  CS!TypeOK'
    <3>1. CS!deepMerge(cfg, f, v) \in CS!Config
      BY LeavesTyped DEF CS!deepMerge
    <3> QED
      BY <2>2, <3>1, LeavesTyped DEF CS!ConfigConstants, CS!UpdateOpen, CS!Nobody
  <2>3. CASE CS!UpdateFails(u)
    <3>1. PICK n \in 0 .. 2 : serverFile' = CS!Prefix(merged[u], n)
      BY <2>3 DEF CS!UpdateFails
    <3>2. serverFile' \in CS!Partial
      BY <3>1, LeavesTyped
    <3> QED
      BY <2>3, <3>2 DEF CS!ConfigConstants, CS!UpdateFails, CS!Nobody
  <2>4. CASE CS!UpdateDone(u)
    <3>1. acked' \in CS!Partial /\ merged[u] \in CS!Config
      BY <2>4, LeavesTyped DEF CS!UpdateDone
    <3> QED
      BY <2>4, <3>1, LeavesTyped DEF CS!ConfigConstants, CS!UpdateDone, CS!Nobody
  <2> QED
    BY <1>1, <2>1, <2>2, <2>3, <2>4 DEF CS!Update
<1>2. CASE CS!ReloadRead \/ CS!ReloadApply
  BY <1>2, LeavesTyped DEF CS!ReloadRead, CS!ReloadApply, CS!Confirmed
<1>3. CASE CS!Edit
  <2>1. edits' \in 0 .. ConfigSetup.maxEdits
    BY <1>3 DEF CS!ConfigConstants, CS!Edit
  <2>2. /\ serverFile' \in CS!Partial /\ acked' \in CS!Partial /\ spoiled' \subseteq CS!Fields
        /\ current' \in BOOLEAN
        /\ UNCHANGED <<serverUp, cfg, lock, updatePc, merged, named, reload>>
    BY <1>3, LeavesTyped DEF CS!Edit
  <2> QED
    BY <2>1, <2>2
<1>4. CASE CS!Crash
  <2>1. /\ serverUp' = FALSE /\ lock' = CS!Nobody /\ reload' = CS!NotLoaded
        /\ current' = FALSE /\ UNCHANGED <<cfg, merged, named, edits>>
    BY <1>4 DEF CS!Crash
  <2>2. CASE lock = CS!Nobody
    <3>1. UNCHANGED <<serverFile, acked, spoiled, updatePc>>
      BY <1>4, <2>2 DEF CS!Crash
    <3> QED
      BY <2>1, <2>2, <3>1
  <2>3. CASE lock # CS!Nobody
    <3>1. lock \in ConfigSetup.updaters /\ merged[lock] \in CS!Config
      BY <2>3
    <3>2. /\ \E k \in 0 .. 3 : serverFile' = CS!Prefix(merged[lock], k)
          /\ acked' = [acked EXCEPT ![named[lock]] = CS!Missing]
          /\ spoiled' = spoiled \ {named[lock]}
          /\ updatePc' = [updatePc EXCEPT ![lock] = "failed"]
      BY <1>4, <2>3 DEF CS!Crash
    <3>3. serverFile' \in CS!Partial /\ acked' \in CS!Partial
      BY <3>1, <3>2, LeavesTyped
    <3>4. updatePc' \in [ConfigSetup.updaters -> {"new", "writing", "ok", "refused", "failed"}]
      BY <3>1, <3>2
    <3>5. \A u \in ConfigSetup.updaters : updatePc'[u] # "writing" /\ lock' # u
      BY <2>1, <3>1, <3>2 DEF CS!ConfigConstants, CS!Nobody
    <3>6. spoiled' \subseteq CS!Fields /\ current' \in BOOLEAN
      BY <2>1, <3>2
    <3> QED
      BY <2>1, <3>3, <3>4, <3>5, <3>6
  <2> QED
    BY <2>2, <2>3
<1>5. CASE CS!Restart
  BY <1>5, LeavesTyped DEF CS!Restart, CS!Confirmed
<1> QED
  BY <1>1, <1>2, <1>3, <1>4, <1>5 DEF CS!Next

(* The values of the configuration server stay of their types.             *)
THEOREM ConfigTypedInvariant == Spec => [](part = "config" => CS!TypeOK)
<1> USE ConfigAssumption
<1>1. Init => (part = "config" => CS!TypeOK)
  <2>1. CS!First \in CS!Config /\ CS!Config \subseteq CS!Partial /\ CS!NotLoaded \in CS!Partial
    BY LeavesTyped DEF CS!Config, CS!Fields, CS!Values, CS!First, CS!defaultConfig
  <2>2. SUFFICES ASSUME CS!Init PROVE CS!TypeOK
    BY DEF Init
  <2>3. "name" \in CS!Fields /\ CS!Nobody \notin ConfigSetup.updaters /\ 0 \in 0 .. ConfigSetup.maxEdits
    BY DEF CS!ConfigConstants, CS!Fields, CS!Nobody
  <2> QED
    BY <2>1, <2>2, <2>3 DEF CS!Init, CS!TypeOK
<1>2. /\ part = "config" => CS!TypeOK /\ ConfigInv
      /\ [Next]_vars
      => (part = "config" => CS!TypeOK)'
  <2> SUFFICES ASSUME part = "config" => CS!TypeOK /\ ConfigInv, [Next]_vars, part' = "config"
               PROVE  CS!TypeOK'
    OBVIOUS
  <2>1. part = "config" /\ [CS!Next]_(CS!vars)
    BY DEF Next, vars, configVars, CS!vars
  <2>2. CASE UNCHANGED CS!vars
    BY <2>1, <2>2 DEF CS!TypeOK, CS!vars
  <2> QED
    BY <2>1, <2>2, ConfigTypedStep
<1> QED
  BY ConfigInvariant, <1>1, <1>2, PTL DEF Spec

(* ... the bridge's daemon ...                                             *)
DaemonTyped == daemon \in {"down", "starting", "up"} /\ sock \in {"none", "stale", "live"}

(* The daemon and its socket have states of their own.                     *)
THEOREM DaemonTypedInvariant == Spec => [](part = "bridge" => DaemonTyped)
<1>1. Init => (part = "bridge" => DaemonTyped)
  BY DEF Init, BR!Init, DaemonTyped
<1>2. DaemonTyped /\ [BR!Next]_(BR!vars) => DaemonTyped'
  <2> SUFFICES ASSUME DaemonTyped, [BR!Next]_(BR!vars) PROVE DaemonTyped'
    OBVIOUS
  <2> USE DEF DaemonTyped, BR!process
  <2>1. CASE UNCHANGED BR!vars
    BY <2>1 DEF BR!vars
  <2>2. CASE BR!Remove \/ BR!Listen \/ BR!End \/ BR!Tick
    BY <2>2 DEF BR!Remove, BR!Listen, BR!End, BR!Tick
  <2>3. CASE \E k \in BridgeSetup.conns : BR!Score(k) \/ BR!Notice(k)
    BY <2>3 DEF BR!Score, BR!Notice
  <2>4. ASSUME NEW c \in BridgeSetup.calls,
               \/ BR!Begin(c) \/ BR!DialFails(c) \/ BR!Send(c) \/ BR!SendFails(c) \/ BR!Broken(c)
               \/ BR!Receive(c) \/ BR!TimeoutEvaluate(c) \/ BR!GiveUp(c)
               \/ \E k \in BridgeSetup.conns : BR!Take(c, k) \/ BR!Dial(c, k)
        PROVE  DaemonTyped'
    BY <2>4 DEF BR!Begin, BR!DialFails, BR!Send, BR!SendFails, BR!Broken, BR!Receive,
       BR!TimeoutEvaluate, BR!GiveUp, BR!Take, BR!Dial
  <2> QED
    BY <2>1, <2>2, <2>3, <2>4 DEF BR!Next
<1>3. (part = "bridge" => DaemonTyped) /\ [Next]_vars => (part = "bridge" => DaemonTyped)'
  <2>1. [Next]_vars => part' = part /\ (part = "bridge" => [BR!Next]_(BR!vars))
    BY DEF Next, vars, bridgeVars, BR!vars, BR!process, BR!pool, BR!calls
  <2> QED
    BY <1>2, <2>1
<1> QED
  BY <1>1, <1>3, PTL DEF Spec

(* ... and so all of Control: among others the lock of an update is        *)
(* released by whoever holds it, a connection of the bridge has one user,  *)
(* and no request is recorded twice.                                       *)
THEOREM TypeCorrect == Spec => []TypeOK
<1>1. LifeInv => LC!TypeOK
  <2> SUFFICES ASSUME LifeInv PROVE LC!TypeOK
    OBVIOUS
  <2>1. Len(sigCh) \in {0, 1}
    BY DEF LifeInv, SignalsTyped
  <2>2. Len(sigCh) <= 1
    BY <2>1
  <2> QED
    BY <2>2 DEF LifeInv, NumbersTyped, StageTyped, NginxTyped, LC!TypeOK
<1>2. BridgeInv /\ DaemonTyped => BR!TypeOK
  BY DEF BridgeInv, BridgeTyped, LinkInv, DaemonTyped, BR!TypeOK
<1>3. /\ BansInv(UfwSetup) => Bans(UfwSetup)!TypeOK
      /\ BansInv(NftSetup) => Bans(NftSetup)!TypeOK
  BY BansFollow, UfwAssumption, NftAssumption
<1>4. /\ AccessInv(ProviderSetup) /\ SeenInv(ProviderSetup) => Access(ProviderSetup)!TypeOK
      /\ AccessInv(SecretSetup) /\ SeenInv(SecretSetup) => Access(SecretSetup)!TypeOK
  BY AccessFollows, AccessAssumption
<1> QED
  BY LifeInvariant, BridgeInvariant, DaemonTypedInvariant, BansInvariant, AccessInvariant,
     ConfigTypedInvariant, <1>1, <1>2, <1>3, <1>4, PTL DEF TypeOK
=============================================================================
