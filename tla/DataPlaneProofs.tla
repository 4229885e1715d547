-------------------------- MODULE DataPlaneProofs --------------------------
(***************************************************************************)
(* Proofs about DataPlane for any set of requests, any number of workers   *)
(* and any configuration.  The safety properties follow from an invariant  *)
(* that speaks about one request at a time: a step of one request leaves   *)
(* everything the invariant says about the others alone.                   *)
(***************************************************************************)
EXTENDS DataPlane, TLAPS

Undecided == {"idle"} \cup EvalStages

(* How far the handler is, what it decided and what is on record.          *)
HandlerInv(r) ==
    /\ conn[r] = "none" => stage[r] = "idle"
    /\ stage[r] \in Undecided => verdict[r] = "none" /\ recorded[r] = {}
    /\ stage[r] \in {"learning", "respond"} => verdict[r] \in {"allow", "block"}
    /\ stage[r] \in {"audit", "broker", "publisher"} => verdict[r] = "block"
    /\ stage[r] = "done" => verdict[r] # "none"
    /\ (HasAudit /\ verdict[r] = "block" /\ stage[r] \in {"broker", "publisher", "respond", "done"})
          => /\ "file" \in recorded[r] \/ r \in unwritten
             /\ "ring" \in recorded[r] \/ r \in gone
    /\ recorded[r] \cap {"ring", "file"} # {} => verdict[r] = "block"

(* An answer on the connection is the handler's, which has returned.       *)
ReplyInv(r) ==
    /\ reply[r] \in {"allow", "deny"} => stage[r] = "done"
    /\ reply[r] = "allow" => verdict[r] = "allow"
    /\ reply[r] = "deny" => verdict[r] \in {"block", "reject"}

(* How far nginx is, and on what ground it decided.                        *)
EnforceInv(r) ==
    /\ phase[r] \in {"new", "body", "connect"} => conn[r] = "none"
    /\ phase[r] = "send" => conn[r] \in {"open", "flowing"}
    /\ phase[r] = "recv" => conn[r] = "sent"
    /\ ~req[r].enabled => phase[r] \in {"new", "passed"} /\ conn[r] = "none"
    /\ why[r] = "status" => stage[r] = "done" /\ phase[r] \in Decided
    /\ why[r] = "status" => (phase[r] = "passed") = (verdict[r] = "allow")
    /\ phase[r] = "passed" =>
          \/ ~req[r].enabled
          \/ req[r].failOpen
          \/ verdict[r] = "allow"

RequestInv(r) == HandlerInv(r) /\ ReplyInv(r) /\ EnforceInv(r)

IInv == TypeOK /\ \A r \in Requests : RequestInv(r)

-----------------------------------------------------------------------------
(* Every variable of the two processes keeps its type.                     *)
LEMMA NginxTyped ==
    ASSUME NEW r \in Requests, TypeOK, Nginx(r)
    PROVE  TypeOK'
<1> USE DEF TypeOK, ExchangeTypeOK, NginxTypeOK, SidecarTypeOK, Nginx,
            exchangeVars, sidecarVars, recordVars, ConnStates, Phases, Reasons, Decide,
            Goto, FailVerdict, SetupFails, StatusParsed
<1>1. CASE AccessHandler(r)  BY <1>1 DEF AccessHandler
<1>2. CASE BodyHandler(r)    BY <1>2 DEF BodyHandler
<1>3. CASE ClientAbort(r)    BY <1>3 DEF ClientAbort
<1>4. CASE Connect(r)        BY <1>4 DEF Connect
<1>5. CASE Send(r)           BY <1>5 DEF Send
<1>6. CASE SendError(r)      BY <1>6 DEF SendError
<1>7. CASE Recv(r)           BY <1>7 DEF Recv
<1> QED  BY <1>1, <1>2, <1>3, <1>4, <1>5, <1>6, <1>7 DEF NginxStep

(* The same for the steps of the sidecar's handlers ...                    *)
LEMMA SidecarTyped ==
    ASSUME NEW r \in Requests, TypeOK, Evaluate(r)
    PROVE  TypeOK'
<1> USE DEF TypeOK, ExchangeTypeOK, NginxTypeOK, SidecarTypeOK, Evaluate,
            exchangeVars, nginxVars, recordVars, Stages, EvalStages, RecordStages, Verdicts,
            Sinks, Replies, MoveTo, Block, Allow, Pass, Fail, Record, Answer
<1>1. CASE Accept(r)           BY <1>1 DEF Accept
<1>2. CASE ReadRequest(r)      BY <1>2 DEF ReadRequest
<1>3. CASE RejectMalformed(r)  BY <1>3 DEF RejectMalformed
<1>4. CASE EvalChain(r)        BY <1>4 DEF EvalChain
<1>5. CASE EvalRules(r)        BY <1>5 DEF EvalRules
<1>6. CASE EvalPolicy(r)       BY <1>6 DEF EvalPolicy
<1>7. CASE EvalScorer(r)       BY <1>7 DEF EvalScorer
<1>8. CASE RecordLearning(r)   BY <1>8 DEF RecordLearning
<1>9. CASE RecordAudit(r)      BY <1>9 DEF RecordAudit
<1>10. CASE PublishBroker(r)   BY <1>10 DEF PublishBroker
<1>11. CASE PublishAPI(r)      BY <1>11 DEF PublishAPI
<1>12. CASE Respond(r)         BY <1>12 DEF Respond
<1> QED  BY <1>1, <1>2, <1>3, <1>4, <1>5, <1>6, <1>7, <1>8, <1>9, <1>10,
            <1>11, <1>12 DEF SidecarStep

(* ... for its stops and deaths ...                                        *)
LEMMA OutageTyped == TypeOK /\ Outage => TypeOK'
<1> SUFFICES ASSUME TypeOK, Outage PROVE TypeOK'
  OBVIOUS
<1> USE DEF TypeOK, ExchangeTypeOK, NginxTypeOK, SidecarTypeOK, Outage,
            nginxVars, sidecarVars, recordVars
<1>1. CASE Crash    BY <1>1 DEF Crash, HangUp, Stages, Replies
<1>2. CASE Restart  BY <1>2 DEF Restart
<1>3. CASE Stop     BY <1>3 DEF Stop, HangUp, Stages, Replies
<1> QED  BY <1>1, <1>2, <1>3

(* ... and so for every step,                                              *)
LEMMA TypeStep == TypeOK /\ [Next]_vars => TypeOK'
<1> SUFFICES ASSUME TypeOK, [Next]_vars PROVE TypeOK'
  OBVIOUS
<1>1. CASE \E r \in Requests : Nginx(r)     BY <1>1, NginxTyped
<1>2. CASE \E r \in Requests : Evaluate(r)  BY <1>2, SidecarTyped
<1>3. CASE Outage                            BY <1>3, OutageTyped
<1>4. CASE UNCHANGED vars
  BY <1>4 DEF vars, exchangeVars, nginxVars, sidecarVars, recordVars, TypeOK,
              ExchangeTypeOK, NginxTypeOK, SidecarTypeOK
<1> QED  BY <1>1, <1>2, <1>3, <1>4 DEF Next

(* from the start.                                                         *)
LEMMA TypeInit == Init => TypeOK
BY DEF Init, ExchangeInit, NginxInit, SidecarInit, TypeOK, ExchangeTypeOK,
       NginxTypeOK, SidecarTypeOK, ConnStates, Replies, Phases, Reasons, Stages,
       Verdicts, EvalStages, RecordStages

(* The type invariant of nginx, the sidecar and their connections holds    *)
(* whatever the number of requests and workers and however it is set up.   *)
THEOREM TypeCorrect == Spec => []TypeOK
BY TypeInit, TypeStep, PTL DEF Spec

-----------------------------------------------------------------------------
(* What RequestInv(q) speaks about does not change.                        *)
Untouched(q) ==
    /\ conn'[q] = conn[q] /\ reply'[q] = reply[q]
    /\ req'[q] = req[q] /\ phase'[q] = phase[q] /\ why'[q] = why[q]
    /\ stage'[q] = stage[q] /\ verdict'[q] = verdict[q]
    /\ recorded'[q] = recorded[q]
    /\ (q \in unwritten') = (q \in unwritten)
    /\ (q \in gone') = (q \in gone)

(* The facts about a request stay when nothing of it changes.              *)
LEMMA UntouchedKeeps ==
    ASSUME NEW q \in Requests, RequestInv(q), Untouched(q)
    PROVE  RequestInv(q)'
BY DEF Untouched, RequestInv, HandlerInv, ReplyInv, EnforceInv, Undecided

(* A step that nginx or a handler takes for r touches no other request.    *)
LEMMA StepIsLocal ==
    ASSUME NEW r \in Requests, NEW q \in Requests, q # r, TypeOK,
           Nginx(r) \/ Evaluate(r)
    PROVE  Untouched(q)
<1> USE DEF Untouched, TypeOK, ExchangeTypeOK, NginxTypeOK, SidecarTypeOK,
            exchangeVars, nginxVars, sidecarVars, recordVars
<1>1. CASE Nginx(r)
  <2> USE DEF Nginx, Decide, Goto, FailVerdict, SetupFails, StatusParsed
  <2>1. CASE AccessHandler(r)  BY <1>1, <2>1 DEF AccessHandler
  <2>2. CASE BodyHandler(r)    BY <1>1, <2>2 DEF BodyHandler
  <2>3. CASE ClientAbort(r)    BY <1>1, <2>3 DEF ClientAbort
  <2>4. CASE Connect(r)        BY <1>1, <2>4 DEF Connect
  <2>5. CASE Send(r)           BY <1>1, <2>5 DEF Send
  <2>6. CASE SendError(r)      BY <1>1, <2>6 DEF SendError
  <2>7. CASE Recv(r)           BY <1>1, <2>7 DEF Recv
  <2> QED  BY <1>1, <2>1, <2>2, <2>3, <2>4, <2>5, <2>6, <2>7 DEF NginxStep
<1>2. CASE Evaluate(r)
  <2> USE DEF Evaluate, MoveTo, Block, Allow, Pass, Record, Answer
  <2>1. CASE Accept(r)           BY <1>2, <2>1 DEF Accept
  <2>2. CASE ReadRequest(r)      BY <1>2, <2>2 DEF ReadRequest
  <2>3. CASE RejectMalformed(r)  BY <1>2, <2>3 DEF RejectMalformed
  <2>4. CASE EvalChain(r)        BY <1>2, <2>4 DEF EvalChain
  <2>5. CASE EvalRules(r)        BY <1>2, <2>5 DEF EvalRules
  <2>6. CASE EvalPolicy(r)       BY <1>2, <2>6 DEF EvalPolicy
  <2>7. CASE EvalScorer(r)       BY <1>2, <2>7 DEF EvalScorer
  <2>8. CASE RecordLearning(r)   BY <1>2, <2>8 DEF RecordLearning
  <2>9. CASE RecordAudit(r)      BY <1>2, <2>9 DEF RecordAudit
  <2>10. CASE PublishBroker(r)   BY <1>2, <2>10 DEF PublishBroker
  <2>11. CASE PublishAPI(r)      BY <1>2, <2>11 DEF PublishAPI
  <2>12. CASE Respond(r)         BY <1>2, <2>12 DEF Respond
  <2> QED  BY <1>2, <2>1, <2>2, <2>3, <2>4, <2>5, <2>6, <2>7, <2>8, <2>9,
              <2>10, <2>11, <2>12 DEF SidecarStep
<1> QED  BY <1>1, <1>2

-----------------------------------------------------------------------------
(* The request that nginx advances keeps its invariant.                    *)
LEMMA NginxKeeps ==
    ASSUME NEW r \in Requests, TypeOK, RequestInv(r), Nginx(r)
    PROVE  RequestInv(r)'
<1> USE DEF TypeOK, ExchangeTypeOK, NginxTypeOK, SidecarTypeOK, exchangeVars,
            sidecarVars, recordVars, Nginx, RequestInv, HandlerInv, ReplyInv, EnforceInv,
            Undecided, Decided, Decide, Goto, FailVerdict, SetupFails,
            StatusParsed
<1>1. CASE AccessHandler(r)  BY <1>1 DEF AccessHandler
<1>2. CASE BodyHandler(r)    BY <1>2 DEF BodyHandler
<1>3. CASE ClientAbort(r)    BY <1>3 DEF ClientAbort
<1>4. CASE Connect(r)        BY <1>4 DEF Connect
<1>5. CASE Send(r)           BY <1>5 DEF Send
<1>6. CASE SendError(r)      BY <1>6 DEF SendError
<1>7. CASE Recv(r)           BY <1>7 DEF Recv
<1> QED  BY <1>1, <1>2, <1>3, <1>4, <1>5, <1>6, <1>7 DEF NginxStep

(* So does the request whose handler advances.                             *)
LEMMA SidecarKeeps ==
    ASSUME NEW r \in Requests, TypeOK, RequestInv(r), Evaluate(r)
    PROVE  RequestInv(r)'
<1> USE DEF TypeOK, ExchangeTypeOK, NginxTypeOK, SidecarTypeOK, exchangeVars,
            nginxVars, recordVars, Evaluate, RequestInv, HandlerInv, ReplyInv, EnforceInv,
            Undecided, EvalStages, MoveTo, Block, Allow, Pass, Record, Answer,
            Waiting
<1>1. CASE Accept(r)           BY <1>1 DEF Accept
<1>2. CASE ReadRequest(r)      BY <1>2 DEF ReadRequest
<1>3. CASE RejectMalformed(r)  BY <1>3 DEF RejectMalformed
<1>4. CASE EvalChain(r)        BY <1>4 DEF EvalChain
<1>5. CASE EvalRules(r)        BY <1>5 DEF EvalRules
<1>6. CASE EvalPolicy(r)       BY <1>6 DEF EvalPolicy
<1>7. CASE EvalScorer(r)       BY <1>7 DEF EvalScorer
<1>8. CASE RecordLearning(r)   BY <1>8 DEF RecordLearning
<1>9. CASE RecordAudit(r)      BY <1>9 DEF RecordAudit
<1>10. CASE PublishBroker(r)   BY <1>10 DEF PublishBroker
<1>11. CASE PublishAPI(r)      BY <1>11 DEF PublishAPI
<1>12. CASE Respond(r)         BY <1>12 DEF Respond, Verdicts
<1> QED  BY <1>1, <1>2, <1>3, <1>4, <1>5, <1>6, <1>7, <1>8, <1>9, <1>10,
            <1>11, <1>12 DEF SidecarStep

(* A crash touches every request, but what is durable stays on record, the *)
(* rest is known to be gone, and an answer that is on the connection stays *)
(* readable.                                                               *)
LEMMA OutageKeeps ==
    ASSUME NEW q \in Requests, TypeOK, RequestInv(q), Outage
    PROVE  RequestInv(q)'
<1> USE DEF TypeOK, ExchangeTypeOK, NginxTypeOK, SidecarTypeOK, nginxVars,
            Outage, RequestInv, HandlerInv, ReplyInv, EnforceInv, Undecided,
            EvalStages
<1>1. CASE Crash    BY <1>1 DEF Crash, HangUp, Durable, Waiting
<1>2. CASE Restart  BY <1>2 DEF Restart, sidecarVars, recordVars
<1>3. CASE Stop     BY <1>3 DEF Stop, HangUp, Waiting, recordVars
<1> QED  BY <1>1, <1>2, <1>3

(* The invariant is inductive: the request that acts is looked at, the     *)
(* others are untouched.                                                   *)
LEMMA InductiveStep == IInv /\ [Next]_vars => IInv'
<1> SUFFICES ASSUME IInv, [Next]_vars, NEW q \in Requests PROVE RequestInv(q)'
  BY TypeStep DEF IInv
<1>0. TypeOK /\ RequestInv(q)
  BY DEF IInv
<1>1. ASSUME NEW r \in Requests, Nginx(r) \/ Evaluate(r) PROVE RequestInv(q)'
  <2>1. CASE q # r  BY <1>0, <1>1, <2>1, StepIsLocal, UntouchedKeeps
  <2>2. CASE q = r  BY <1>0, <1>1, <2>2, NginxKeeps, SidecarKeeps
  <2> QED  BY <2>1, <2>2
<1>2. CASE Outage  BY <1>0, <1>2, OutageKeeps
<1>3. CASE UNCHANGED vars
  <2>1. Untouched(q)
    BY <1>3 DEF vars, exchangeVars, nginxVars, sidecarVars, recordVars, Untouched
  <2> QED  BY <1>0, <2>1, UntouchedKeeps
<1> QED  BY <1>1, <1>2, <1>3 DEF Next

(* It holds while no request has come,                                     *)
LEMMA InductiveInit == Init => IInv
BY TypeInit DEF Init, ExchangeInit, NginxInit, SidecarInit, IInv, RequestInv,
       HandlerInv, ReplyInv, EnforceInv, Undecided

(* and so in every behaviour.                                              *)
LEMMA Inductive == Spec => []IInv
BY InductiveInit, InductiveStep, PTL DEF Spec

-----------------------------------------------------------------------------
(* Fail-closed enforcement: with waffynx_fail_open off, no failure, delay  *)
(* or crash lets a request through that the sidecar did not allow.         *)
THEOREM FailClosedHolds == Spec => []FailClosed
<1>1. IInv => FailClosed
  BY DEF IInv, RequestInv, EnforceInv, FailClosed
<1> QED  BY <1>1, Inductive, PTL

(* A denial on a block verdict is in the audit store: in the file unless   *)
(* the write failed, in the ring until the process ends.                   *)
THEOREM DenialOnRecordHolds == Spec => []DenialOnRecord
<1>1. IInv => DenialOnRecord
  BY DEF IInv, RequestInv, HandlerInv, EnforceInv, DenialOnRecord
<1> QED  BY <1>1, Inductive, PTL

(* A status line that nginx acts on is the verdict about that request.     *)
THEOREM StatusHonouredHolds == Spec => []StatusHonoured
<1>1. IInv => StatusHonoured
  BY DEF IInv, RequestInv, EnforceInv, StatusHonoured
<1> QED  BY <1>1, Inductive, PTL

(* What the audit log calls blocked does not reach an upstream where       *)
(* failing open is off.                                                    *)
THEOREM AuditTruthfulHolds == Spec => []AuditTruthful
<1>1. IInv => AuditTruthful
  BY DEF IInv, RequestInv, HandlerInv, EnforceInv, AuditTruthful, Undecided
<1> QED  BY <1>1, Inductive, PTL

-----------------------------------------------------------------------------
(* The variables of the gate as they appear in the data plane.             *)
LEMMA GateInit == Init => G!Init
BY DEF Init, NginxInit, SidecarInit, G!Init, OutcomeOf, Decided

(* nginx passes or denies a request at most once, and passes a request of  *)
(* a strict location only on an allow verdict.                             *)
LEMMA NginxGate ==
    ASSUME NEW r \in Requests, IInv, Nginx(r)
    PROVE  G!Next \/ UNCHANGED G!vars
<1> DEFINE out == [q \in Requests |-> OutcomeOf(q)]
<1> USE DEF IInv, TypeOK, ExchangeTypeOK, NginxTypeOK, SidecarTypeOK, Nginx,
            sidecarVars, recordVars, exchangeVars
<1>1. req' = req /\ verdict' = verdict
  BY DEF NginxStep, AccessHandler, BodyHandler, ClientAbort, Connect, Send,
         SendError, Recv
<1>2. phase[r] \notin Decided
  BY DEF NginxStep, AccessHandler, BodyHandler, ClientAbort, Connect, Send,
         SendError, Recv, Decided
<1>3. \A q \in Requests : q # r => phase'[q] = phase[q]
  BY StepIsLocal DEF Untouched
<1>4. CASE phase'[r] \notin Decided
  BY <1>1, <1>2, <1>3, <1>4 DEF G!vars, OutcomeOf
<1>5. CASE phase'[r] \in Decided
  <2>1. phase'[r] \in {"passed", "denied"}
    BY <1>5 DEF Decided
  <2>2. out[r] = "pending"
    BY <1>2 DEF OutcomeOf
  <2>3. out' = [out EXCEPT ![r] = phase'[r]]
    BY <1>2, <1>3, <1>5 DEF OutcomeOf
  <2>4. CASE phase'[r] = "denied"
    <3>1. G!Deny(r)
      BY <1>1, <2>2, <2>3, <2>4 DEF G!Deny
    <3> QED  BY <3>1 DEF G!Next
  <2>5. CASE phase'[r] = "passed"
    <3>1. RequestInv(r)'
      BY NginxKeeps
    <3>2. ~req[r].enabled \/ req[r].failOpen \/ verdict[r] = "allow"
      BY <1>1, <2>5, <3>1 DEF RequestInv, EnforceInv
    <3>3. G!Pass(r)
      BY <1>1, <2>2, <2>3, <2>5, <3>2 DEF G!Pass
    <3> QED  BY <3>3 DEF G!Next
  <2> QED  BY <2>1, <2>4, <2>5
<1> QED  BY <1>4, <1>5

(* A handler judges its request at most once.                              *)
LEMMA SidecarGate ==
    ASSUME NEW r \in Requests, IInv, Evaluate(r)
    PROVE  G!Next \/ UNCHANGED G!vars
<1> USE DEF IInv, TypeOK, ExchangeTypeOK, NginxTypeOK, SidecarTypeOK
<1>1. UNCHANGED <<req, phase>>
  BY DEF Evaluate, nginxVars
<1>2. \/ verdict' = verdict
      \/ /\ stage[r] \in Undecided
         /\ \E v \in {"allow", "block", "reject"} : verdict' = [verdict EXCEPT ![r] = v]
  BY DEF Evaluate, SidecarStep, Accept, ReadRequest, RejectMalformed, EvalChain,
         EvalRules, EvalPolicy, EvalScorer, RecordLearning, RecordAudit,
         PublishBroker, PublishAPI, Respond, Pass, Block, Allow, Undecided,
         EvalStages
<1>3. stage[r] \in Undecided => verdict[r] = "none"
  BY DEF RequestInv, HandlerInv
<1>4. CASE verdict' = verdict
  BY <1>1, <1>4 DEF G!vars, OutcomeOf
<1>5. CASE verdict' # verdict
  <2>1. G!Judge(r)
    BY <1>1, <1>2, <1>3, <1>5 DEF G!Judge, OutcomeOf
  <2> QED  BY <2>1 DEF G!Next
<1> QED  BY <1>4, <1>5

(* Every step is one of Gate or leaves it alone.                           *)
LEMMA GateStep == IInv /\ [Next]_vars => [G!Next]_G!vars
<1> SUFFICES ASSUME IInv, [Next]_vars PROVE G!Next \/ UNCHANGED G!vars
  OBVIOUS
<1>1. CASE \E r \in Requests : Nginx(r)     BY <1>1, NginxGate
<1>2. CASE \E r \in Requests : Evaluate(r)  BY <1>2, SidecarGate
<1>3. CASE Outage
  BY <1>3 DEF Outage, Stop, Crash, Restart, nginxVars, sidecarVars, recordVars, G!vars, OutcomeOf
<1>4. CASE UNCHANGED vars
  BY <1>4 DEF vars, nginxVars, sidecarVars, recordVars, G!vars, OutcomeOf
<1> QED  BY <1>1, <1>2, <1>3, <1>4 DEF Next

(* nginx and the sidecar, with all their failures, implement the gate.     *)
THEOREM Refinement == Spec => ImplementsGate
BY GateInit, GateStep, Inductive, PTL DEF Spec, G!Spec, ImplementsGate
=============================================================================
