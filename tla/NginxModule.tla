---------------------------- MODULE NginxModule ----------------------------
(***************************************************************************)
(* modules/ngx_waffynx/ngx_http_waffynx_module.c: the ACCESS-phase handler *)
(* that nginx runs for every request.  A worker process is one thread, and *)
(* the exchange with the sidecar uses blocking system calls: from connect  *)
(* to the verdict the worker serves nobody else.                           *)
(*                                                                         *)
(* External: nginx's event loop, reading of request bodies and the phases  *)
(* after ACCESS.  "passed" means the handler let the request continue to   *)
(* the upstream, "denied" that the client got an error status.             *)
(***************************************************************************)
EXTENDS Exchange

CONSTANTS Workers,  \* nginx worker processes
          Inputs    \* the requests (with their location's directives) enumerated

BodyKinds == {"none", "memory", "file", "chunked"}

(* What the handler reads of a request: the directives of its location     *)
(* (waffynx, waffynx_fail_open), how nginx holds its body ("memory" and    *)
(* "file" have a Content-Length, "chunked" has none), whether the message  *)
(* to the sidecar exceeds what the socket buffers hold, and its worker.    *)
InputType == [enabled: BOOLEAN, failOpen: BOOLEAN, body: BodyKinds,
              big: BOOLEAN, worker: Workers]

ASSUME InputsAssumption == Inputs \subseteq InputType

VARIABLES
    req,    \* req[r]: the input that request r is; never changes
    phase,  \* phase[r]: where the handler is with r
    why,    \* why[r]: on what ground r was decided (history)
    sentBody \* requests whose body nginx copied into the message (history)

nginxVars == <<req, phase, why, sentBody>>

Phases  == {"new", "body", "connect", "send", "recv", "passed", "denied"}
Decided == {"passed", "denied"}
Reasons == {"none", "exempt", "status", "failure", "client"}

NginxTypeOK ==
    /\ req \in [Requests -> Inputs]
    /\ phase \in [Requests -> Phases]
    /\ why \in [Requests -> Reasons]
    /\ sentBody \in SUBSET Requests

NginxInit ==
    /\ req \in [Requests -> Inputs]
    /\ phase = [r \in Requests |-> "new"]
    /\ why = [r \in Requests |-> "none"]
    /\ sentBody = {}

(* content_length_n > 0                                                     *)
Declared(r) == req[r].body \in {"memory", "file"}

(* The worker sits in connect(), send() or recv() for another request.     *)
Blocked(w) ==
    \E r \in Requests : req[r].worker = w /\ phase[r] \in {"connect", "send", "recv"}

Decide(r, outcome, reason) ==
    /\ phase' = [phase EXCEPT ![r] = outcome]
    /\ why' = [why EXCEPT ![r] = reason]

\* Mutant: the directive is ignored.
FailVerdictAlwaysOpen(r) == Decide(r, "passed", "failure")

\* Mutant: NGX_ERROR is returned instead of a status.
FailVerdictError(r) ==
    Decide(r, IF req[r].failOpen THEN "passed" ELSE "error", "failure")

(* wlcf->fail_open ? NGX_OK : NGX_HTTP_FORBIDDEN                            *)
FailVerdict(r) ==
    Decide(r, IF req[r].failOpen THEN "passed" ELSE "denied", "failure")

Goto(r, p) ==
    /\ phase' = [phase EXCEPT ![r] = p]
    /\ UNCHANGED why

(* build_headers overflows its buffer, or an allocation or the start of    *)
(* reading the body fails.                                                 *)
SetupFails(r) == req[r].enabled /\ FailVerdict(r)

(* parse_status finds a status code: at least 12 bytes, three digits.      *)
StatusParsed(r) == reply[r] \in {"allow", "deny"}

-----------------------------------------------------------------------------
(* ngx_http_waffynx_access_handler.  The body handler advances the phase   *)
(* itself, so a request whose ctx->evaluated is set does not come back.    *)
AccessHandler(r) ==
    /\ phase[r] = "new"
    /\ ~Blocked(req[r].worker)
    /\ \/ ~req[r].enabled /\ Decide(r, "passed", "exempt")
       \/ SetupFails(r)
       \/ req[r].enabled /\ Declared(r) /\ Goto(r, "body")
       \/ req[r].enabled /\ ~Declared(r) /\ Goto(r, "connect")
    /\ UNCHANGED <<req, sentBody, exchangeVars>>

(* ngx_http_waffynx_body_handler: only buffers in memory are copied.       *)
BodyHandler(r) ==
    /\ phase[r] = "body"
    /\ ~Blocked(req[r].worker)
    /\ sentBody' = IF req[r].body = "memory" THEN sentBody \cup {r} ELSE sentBody
    /\ Goto(r, "connect")
    /\ UNCHANGED <<req, exchangeVars>>

(* The client goes away or is too slow while nginx reads the body: nginx   *)
(* finalizes the request and the body handler is not called.               *)
ClientAbort(r) ==
    /\ phase[r] = "body"
    /\ ~Blocked(req[r].worker)
    /\ Decide(r, "denied", "client")
    /\ UNCHANGED <<req, sentBody, exchangeVars>>

(* ngx_http_waffynx_connect.  It can fail at any time (no descriptor, a    *)
(* full backlog) and does fail when the sidecar does not listen.           *)
Connect(r) ==
    /\ phase[r] = "connect"
    /\ \/ /\ listening
          /\ conn' = [conn EXCEPT ![r] = "open"]
          /\ Goto(r, "send")
       \/ FailVerdict(r) /\ UNCHANGED conn
    /\ UNCHANGED <<req, sentBody, accepted, reply, listening>>

(* The send loop and shutdown(SHUT_WR).  The part of a big message that    *)
(* exceeds the socket buffers is sent only while the sidecar reads; until  *)
(* then send() times out with EAGAIN and the loop tries again, which is no *)
(* step here.  EPIPE from a sidecar that went away ends the exchange.      *)
Send(r) ==
    /\ phase[r] = "send"
    /\ \/ /\ req[r].big /\ conn[r] = "open" /\ reply[r] # "eof"
          /\ conn' = [conn EXCEPT ![r] = "flowing"]
          /\ UNCHANGED <<phase, why>>
       \/ /\ req[r].big => conn[r] = "flowing" /\ r \in accepted
          /\ reply[r] # "eof"
          /\ conn' = [conn EXCEPT ![r] = "sent"]
          /\ Goto(r, "recv")
       \/ /\ reply[r] = "eof"
          /\ conn' = [conn EXCEPT ![r] = "aborted"]
          /\ FailVerdict(r)
    /\ UNCHANGED <<req, sentBody, accepted, reply, listening>>

\* Mutant: the error path of send() returns NGX_OK.
SendErrorPasses(r) ==
    /\ phase[r] = "send"
    /\ conn' = [conn EXCEPT ![r] = "aborted"]
    /\ Decide(r, "passed", "failure")
    /\ UNCHANGED <<req, sentBody, accepted, reply, listening>>

(* Any other error of send(), such as the reset that follows when net/http *)
(* closes the connection on a body it does not want to the end.            *)
SendError(r) ==
    /\ phase[r] = "send"
    /\ conn' = [conn EXCEPT ![r] = "aborted"]
    /\ FailVerdict(r)
    /\ UNCHANGED <<req, sentBody, accepted, reply, listening>>

\* Mutant: resp_len <= 0 is not checked and the zeroed status counts as 204.
RecvUnchecked(r) ==
    /\ phase[r] = "recv"
    /\ conn' = [conn EXCEPT ![r] = "closed"]
    /\ \/ reply[r] # "deny" /\ Decide(r, "passed", "status")
       \/ reply[r] = "deny" /\ Decide(r, "denied", "status")
    /\ UNCHANGED <<req, sentBody, accepted, reply, listening>>

\* Mutant: SO_RCVTIMEO is not set, recv() waits for an answer or an EOF.
RecvNoTimeout(r) ==
    /\ phase[r] = "recv"
    /\ reply[r] # "none"
    /\ conn' = [conn EXCEPT ![r] = "closed"]
    /\ \/ reply[r] = "allow" /\ Decide(r, "passed", "status")
       \/ reply[r] = "deny" /\ Decide(r, "denied", "status")
       \/ reply[r] = "eof" /\ FailVerdict(r)
    /\ UNCHANGED <<req, sentBody, accepted, reply, listening>>

(* The recv loop, parse_status and the enforcement.  With nothing to read  *)
(* recv() ends after waffynx_timeout, which is a failure like an EOF.      *)
Recv(r) ==
    /\ phase[r] = "recv"
    /\ conn' = [conn EXCEPT ![r] = "closed"]
    /\ \/ StatusParsed(r) /\ reply[r] = "allow" /\ Decide(r, "passed", "status")
       \/ StatusParsed(r) /\ reply[r] # "allow" /\ Decide(r, "denied", "status")
       \/ ~StatusParsed(r) /\ FailVerdict(r)
    /\ UNCHANGED <<req, sentBody, accepted, reply, listening>>

NginxStep(r) ==
    \/ AccessHandler(r) \/ BodyHandler(r) \/ ClientAbort(r)
    \/ Connect(r) \/ Send(r) \/ SendError(r) \/ Recv(r)
=============================================================================
