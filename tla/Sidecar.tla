------------------------------ MODULE Sidecar ------------------------------
(***************************************************************************)
(* internal/engine/sidecar.go: the Go process that judges requests.  Each  *)
(* connection is served by its own goroutine running handleEvaluate; the   *)
(* actions are the steps of that handler between which other goroutines,   *)
(* nginx or a crash can come.                                              *)
(*                                                                         *)
(* net/http holds the small response back until the handler returns, so    *)
(* nginx sees the verdict only after recordLearning, the audit file write  *)
(* and the POST to the API server are over.                                *)
(*                                                                         *)
(* Which requests a plugin, a rule, a policy or the scorer objects to is   *)
(* data: every outcome the code has is a choice.                           *)
(***************************************************************************)
EXTENDS Exchange

CONSTANTS HasScorer,     \* appsec.enabled: a scorer is configured
          HasAudit,      \* the audit file could be opened: else there is no store at
                         \* all, for engine.New drops the error
          HasPublisher   \* event_api_url and event_auth_token are configured

ASSUME SidecarAssumption ==
    /\ HasScorer \in BOOLEAN
    /\ HasAudit \in BOOLEAN
    /\ HasPublisher \in BOOLEAN

VARIABLES
    stage,     \* stage[r]: where handleEvaluate is with r
    verdict,   \* verdict[r]: what the handler decided about r
    recorded,  \* recorded[r]: where the decision about r is on record
    unwritten, \* requests whose line the audit file did not take (history)
    gone,      \* requests that a process which has ended had on record (history)
    faulted    \* requests during whose evaluation a component failed (history)

recordVars == <<recorded, unwritten, gone>>

sidecarVars == <<stage, verdict, recordVars, faulted>>

EvalStages   == {"reading", "chain", "rules", "policy", "scorer"}
RecordStages == {"learning", "audit", "broker", "publisher"}
Stages   == {"idle", "respond", "done", "lost"} \cup EvalStages \cup RecordStages
Verdicts == {"none", "allow", "block", "reject"}

(* The audit file and the API server outlive the sidecar process; the      *)
(* learning engine, the ring of the audit store and the broker do not.     *)
(* How long the ring keeps an event is the matter of AuditStore.           *)
Sinks   == {"learning", "ring", "file", "broker", "api"}
Durable == {"file", "api"}

SidecarTypeOK ==
    /\ stage \in [Requests -> Stages]
    /\ verdict \in [Requests -> Verdicts]
    /\ recorded \in [Requests -> SUBSET Sinks]
    /\ unwritten \in SUBSET Requests
    /\ gone \in SUBSET Requests
    /\ faulted \in SUBSET Requests

SidecarInit ==
    /\ stage = [r \in Requests |-> "idle"]
    /\ verdict = [r \in Requests |-> "none"]
    /\ recorded = [r \in Requests |-> {}]
    /\ unwritten = {}
    /\ gone = {}
    /\ faulted = {}

-----------------------------------------------------------------------------
MoveTo(r, st) == stage' = [stage EXCEPT ![r] = st]

(* The two ends of an evaluation; both continue in recordLearning.         *)
Block(r) ==
    /\ verdict' = [verdict EXCEPT ![r] = "block"]
    /\ MoveTo(r, "learning")

Allow(r) ==
    /\ verdict' = [verdict EXCEPT ![r] = "allow"]
    /\ MoveTo(r, "learning")

Pass(r, st) ==
    /\ MoveTo(r, st)
    /\ UNCHANGED verdict

Fail(r) == faulted' = faulted \cup {r}

(* What is written to a connection that either side has closed is lost.    *)
Answer(r, status) ==
    reply' = IF Waiting(r) /\ reply[r] = "none" THEN [reply EXCEPT ![r] = status]
                                                ELSE reply

Record(r, sinks) == recorded' = [recorded EXCEPT ![r] = @ \cup sinks]

-----------------------------------------------------------------------------
(* net/http accepts the connection and starts a goroutine for it.          *)
Accept(r) ==
    /\ listening
    /\ stage[r] = "idle"
    /\ conn[r] # "none"
    /\ accepted' = accepted \cup {r}
    /\ MoveTo(r, "reading")
    /\ UNCHANGED <<verdict, recordVars, faulted, conn, reply, listening>>

(* The request is read: headers by net/http, then up to 64 KiB of body.    *)
(* When nginx gave up in the middle, either the headers are incomplete and *)
(* the connection is dropped, or the body's read error is ignored and the  *)
(* evaluation goes on without a body.                                      *)
ReadRequest(r) ==
    /\ stage[r] = "reading"
    /\ \/ conn[r] \in {"flowing", "sent", "closed", "aborted"} /\ MoveTo(r, "chain")
       \/ conn[r] = "aborted" /\ MoveTo(r, "lost")
    /\ UNCHANGED <<verdict, recordVars, faulted, exchangeVars>>

(* net/http answers 400 to headers it cannot parse; no handler runs.       *)
RejectMalformed(r) ==
    /\ stage[r] = "reading"
    /\ conn[r] \in {"flowing", "sent", "closed"}
    /\ verdict' = [verdict EXCEPT ![r] = "reject"]
    /\ MoveTo(r, "done")
    /\ Answer(r, "deny")
    /\ UNCHANGED <<recordVars, faulted, conn, accepted, listening>>

(* chain.Execute: the first plugin that returns an error blocks.  A        *)
(* limiter that cannot answer lets the request through.                    *)
EvalChain(r) ==
    /\ stage[r] = "chain"
    /\ \/ Pass(r, "rules") /\ UNCHANGED faulted
       \/ Pass(r, "rules") /\ Fail(r)
       \/ Block(r) /\ UNCHANGED faulted
    /\ UNCHANGED <<recordVars, exchangeVars>>

EvalRules(r) ==
    /\ stage[r] = "rules"
    /\ Pass(r, "policy") \/ Block(r)
    /\ UNCHANGED <<recordVars, faulted, exchangeVars>>

EvalPolicy(r) ==
    /\ stage[r] = "policy"
    /\ \/ HasScorer /\ Pass(r, "scorer")
       \/ ~HasScorer /\ Allow(r)
       \/ Block(r)
    /\ UNCHANGED <<recordVars, faulted, exchangeVars>>

(* An error of the scorer is logged and the request allowed.               *)
EvalScorer(r) ==
    /\ stage[r] = "scorer"
    /\ \/ Allow(r) /\ UNCHANGED faulted
       \/ Allow(r) /\ Fail(r)
       \/ Block(r) /\ UNCHANGED faulted
    /\ UNCHANGED <<recordVars, exchangeVars>>

-----------------------------------------------------------------------------
\* Mutant: every decision goes to the audit log as blocked.
RecordLearningAll(r) ==
    /\ stage[r] = "learning"
    /\ Record(r, {"learning"})
    /\ Pass(r, "audit")
    /\ UNCHANGED <<unwritten, gone, faulted, exchangeVars>>

(* recordLearning, one action per component it calls.                      *)
RecordLearning(r) ==
    /\ stage[r] = "learning"
    /\ Record(r, {"learning"})
    /\ Pass(r, IF verdict[r] = "block" THEN "audit" ELSE "respond")
    /\ UNCHANGED <<unwritten, gone, faulted, exchangeVars>>

\* Mutant: the audit record is left to be written later.
RecordAuditLater(r) ==
    /\ stage[r] = "audit"
    /\ Pass(r, "broker")
    /\ UNCHANGED <<recordVars, faulted, exchangeVars>>

(* Store.Record puts the event in the ring and writes its line to the      *)
(* file.  Nobody looks at the errors of the writes: when the file does not *)
(* take the line, the event is in memory only.                             *)
RecordAudit(r) ==
    /\ stage[r] = "audit"
    /\ \/ ~HasAudit /\ UNCHANGED <<recorded, unwritten>>
       \/ HasAudit /\ Record(r, {"ring", "file"}) /\ UNCHANGED unwritten
       \/ HasAudit /\ Record(r, {"ring"}) /\ unwritten' = unwritten \cup {r}
    /\ Pass(r, "broker")
    /\ UNCHANGED <<gone, faulted, exchangeVars>>

PublishBroker(r) ==
    /\ stage[r] = "broker"
    /\ Record(r, {"broker"})
    /\ Pass(r, "publisher")
    /\ UNCHANGED <<unwritten, gone, faulted, exchangeVars>>

(* The POST is synchronous; its error is logged only.                      *)
PublishAPI(r) ==
    /\ stage[r] = "publisher"
    /\ \/ HasPublisher /\ Record(r, {"api"})
       \/ UNCHANGED recorded
    /\ Pass(r, "respond")
    /\ UNCHANGED <<unwritten, gone, faulted, exchangeVars>>

(* The handler returns and net/http flushes the response.                  *)
Respond(r) ==
    /\ stage[r] = "respond"
    /\ MoveTo(r, "done")
    /\ Answer(r, IF verdict[r] = "allow" THEN "allow" ELSE "deny")
    /\ UNCHANGED <<verdict, recordVars, faulted, conn, accepted, listening>>

-----------------------------------------------------------------------------
HangUp == reply' = [r \in Requests |->
                       IF Waiting(r) /\ reply[r] = "none" THEN "eof" ELSE reply[r]]

(* Stop: server.Close closes the socket and every connection at once.      *)
(* Handlers that run already go on, but their answers reach nobody.        *)
Stop ==
    /\ listening
    /\ listening' = FALSE
    /\ HangUp
    /\ stage' = [r \in Requests |->
                    IF conn[r] # "none" /\ stage[r] \in {"idle", "reading"}
                    THEN "lost" ELSE stage[r]]
    /\ UNCHANGED <<verdict, recordVars, faulted, conn, accepted>>

(* The process ends, killed or after Stop: its connections are reset (what *)
(* was already written to one can still be read) and what was only in      *)
(* memory is gone.                                                         *)
Crash ==
    /\ listening' = FALSE
    /\ HangUp
    /\ stage' = [r \in Requests |->
                    IF conn[r] = "none" \/ stage[r] = "done" THEN stage[r] ELSE "lost"]
    /\ recorded' = [r \in Requests |-> recorded[r] \cap Durable]
    /\ gone' = gone \cup {r \in Requests : recorded[r] # {}}
    /\ UNCHANGED <<verdict, unwritten, faulted, conn, accepted>>

(* Start: the old socket is removed and a new one listened on.             *)
Restart ==
    /\ ~listening
    /\ listening' = TRUE
    /\ UNCHANGED <<sidecarVars, conn, accepted, reply>>

SidecarStep(r) ==
    \/ Accept(r) \/ ReadRequest(r) \/ RejectMalformed(r)
    \/ EvalChain(r) \/ EvalRules(r) \/ EvalPolicy(r) \/ EvalScorer(r)
    \/ RecordLearning(r) \/ RecordAudit(r) \/ PublishBroker(r) \/ PublishAPI(r)
    \/ Respond(r)
=============================================================================
