----------------------------- MODULE DataPlane -----------------------------
(***************************************************************************)
(* nginx with ngx_http_waffynx_module and the sidecar, joined by the       *)
(* connections of module Exchange.  The two processes interleave freely;   *)
(* the sidecar may be arbitrarily slow, crash and come back.               *)
(***************************************************************************)
EXTENDS NginxModule, Sidecar

vars == <<exchangeVars, nginxVars, sidecarVars>>

Init == ExchangeInit /\ NginxInit /\ SidecarInit

Nginx(r) == NginxStep(r) /\ UNCHANGED sidecarVars

Evaluate(r) == SidecarStep(r) /\ UNCHANGED nginxVars

Outage == (Stop \/ Crash \/ Restart) /\ UNCHANGED nginxVars

Next ==
    \/ \E r \in Requests : Nginx(r) \/ Evaluate(r)
    \/ Outage

(* Every system call of the module returns within waffynx_timeout, and     *)
(* client_body_timeout ends the reading of a body, so nginx moves on; an   *)
(* error of send() is not something to count on.  The sidecar promises     *)
(* nothing: it may stall for as long as it likes.                          *)
NginxProgress(r) ==
    /\ \/ AccessHandler(r) \/ BodyHandler(r) \/ ClientAbort(r)
       \/ Connect(r) \/ Send(r) \/ Recv(r)
    /\ UNCHANGED sidecarVars

Fairness == \A r \in Requests : WF_vars(NginxProgress(r))

Spec == Init /\ [][Next]_vars

FairSpec == Spec /\ Fairness

TypeOK == ExchangeTypeOK /\ NginxTypeOK /\ SidecarTypeOK

-----------------------------------------------------------------------------
(* With waffynx_fail_open off, whatever fails, stalls, crashes or comes    *)
(* too late, an inspected location passes only requests that the sidecar   *)
(* allowed (send_and_enforce and every early return of access_handler).    *)
FailClosed ==
    \A r \in Requests :
        (phase[r] = "passed" /\ req[r].enabled /\ ~req[r].failOpen)
            => verdict[r] = "allow"

(* A client is turned away because of a block verdict only after the audit *)
(* store has the event: in its file, where it stays when the sidecar       *)
(* crashes, unless the write failed unnoticed, and in its ring as long as  *)
(* the process that decided lives (recordLearning and Store.Record run     *)
(* before the response is flushed).                                        *)
DenialOnRecord ==
    \A r \in Requests :
        (HasAudit /\ why[r] = "status" /\ phase[r] = "denied" /\ verdict[r] = "block")
            => /\ "file" \in recorded[r] \/ r \in unwritten
               /\ "ring" \in recorded[r] \/ r \in gone

(* What nginx does on the strength of a status line is what the sidecar    *)
(* decided about this very request, never a default or a stale answer.     *)
StatusHonoured ==
    \A r \in Requests :
        why[r] = "status" => (phase[r] = "passed") = (verdict[r] = "allow")

(* Where failing open is off, the audit log tells the truth: a request     *)
(* logged as blocked did not and will not reach the upstream, even when    *)
(* nginx gave up waiting before the verdict was there.                     *)
AuditTruthful ==
    \A r \in Requests :
        (recorded[r] \cap {"ring", "file"} # {} /\ ~req[r].failOpen) => phase[r] # "passed"

(* Every request is decided, although the sidecar may stall or be down and *)
(* a worker blocked on one request serves no other (SO_RCVTIMEO).          *)
EveryRequestDecided ==
    \A r \in Requests : phase[r] = "new" ~> phase[r] \in Decided

-----------------------------------------------------------------------------
(* What comments and documents say and the code does not do.               *)

(* "1 = allow request if sidecar is down" (the C module, on fail_open):    *)
(* while the sidecar is up and has decided to block a request, nginx does  *)
(* not pass it.                                                            *)
FailOpenOnlyWhenDown ==
    [][\A r \in Requests :
          (listening /\ verdict[r] = "block" /\ phase[r] = "recv")
              => phase'[r] # "passed"]_vars

(* "max ms to wait for sidecar response" (timeout_ms): sending a request   *)
(* to the sidecar comes to an end, however long the sidecar stalls.        *)
SendEnds == \A r \in Requests : phase[r] = "send" ~> phase[r] # "send"

(* "If an internal component, ML scorer, or plugin fails ... never         *)
(* silently bypass": where failing open is off, a request whose evaluation *)
(* lost a component is not passed.                                         *)
FaultFailsSafe ==
    \A r \in Requests :
        (r \in faulted /\ ~req[r].failOpen) => phase[r] # "passed"

(* "traverse all buffers in chain": a body-carrying request that passes on *)
(* the sidecar's word had its body shown to the sidecar.                   *)
BodyInspected ==
    \A r \in Requests :
        (why[r] = "status" /\ phase[r] = "passed" /\ req[r].body # "none")
            => r \in sentBody

-----------------------------------------------------------------------------
OutcomeOf(r) == IF phase[r] \in Decided THEN phase[r] ELSE "pending"

G == INSTANCE Gate WITH
        lenient <- {r \in Requests : ~req[r].enabled \/ req[r].failOpen},
        judged  <- verdict,
        outcome <- [r \in Requests |-> OutcomeOf(r)]

(* nginx and the sidecar together implement the gate.                      *)
ImplementsGate == G!Spec
=============================================================================
