----------------------------- MODULE EventPath -----------------------------
(***************************************************************************)
(* The way of a blocked-request event from the sidecar to the host agent:  *)
(* Publisher.Publish posts it to the API server, handleIngestEvent hands   *)
(* it to the broker, handleSSE writes it to the stream of every client,    *)
(* and the agent reads the stream and counts it.  Nothing on the way is    *)
(* acknowledged to the end or repeated: the POST has a timeout, channels   *)
(* overflow, streams break (WriteTimeout alone ends each after 10 s), and  *)
(* the API server and the agent can be restarted at any time.              *)
(*                                                                         *)
(* External: HTTP and TCP.  Of the SSE clients only the agent is modelled; *)
(* each of its connections is a session of its own.                        *)
(***************************************************************************)
EXTENDS Broker

CONSTANT Nobody   \* the agent's session while it has none

ASSUME NobodyAssumption == Nobody \notin Sessions

VARIABLES
    apiUp,    \* the API server is running
    post,     \* post[e]: what the sidecar knows of the POST of e
    ingest,   \* ingest[e]: where handleIngestEvent is with e
    handler,  \* handler[s]: where handleSSE is with s
    link,     \* link[s]: the TCP connection of s
    wire,     \* wire[s]: events written to the connection and not yet read
    agent,    \* the session the agent reads from
    counted   \* the events the agent handed to tracker.record, in order

vars == <<brokerVars, apiUp, post, ingest, handler, link, wire, agent, counted>>

TypeOK ==
    /\ BrokerTypeOK
    /\ apiUp \in BOOLEAN
    /\ post \in [Events -> {"new", "sent", "ok", "error"}]
    /\ ingest \in [Events -> {"none", "reading", "publishing", "answered"}]
    /\ handler \in [Sessions -> {"none", "greeting", "serving", "gone"}]
    /\ link \in [Sessions -> {"none", "up", "cut"}]
    /\ wire \in [Sessions -> Seq(Events)]
    /\ agent \in Sessions \cup {Nobody}
    /\ counted \in Seq(Events)

Init ==
    /\ BrokerInit
    /\ apiUp = TRUE
    /\ post = [e \in Events |-> "new"]
    /\ ingest = [e \in Events |-> "none"]
    /\ handler = [s \in Sessions |-> "none"]
    /\ link = [s \in Sessions |-> "none"]
    /\ wire = [s \in Sessions |-> <<>>]
    /\ agent = Nobody
    /\ counted = <<>>

-----------------------------------------------------------------------------
(* Publisher.Publish.  An event that does not validate, or that meets no   *)
(* API server, is an error at once.                                        *)
Post(e) ==
    /\ post[e] = "new"
    /\ \/ /\ apiUp
          /\ post' = [post EXCEPT ![e] = "sent"]
          /\ ingest' = [ingest EXCEPT ![e] = "reading"]
       \/ post' = [post EXCEPT ![e] = "error"] /\ UNCHANGED ingest
    /\ UNCHANGED <<brokerVars, apiUp, handler, link, wire, agent, counted>>

\* Mutant: an event whose answer did not come in time is posted again.
PostTimeoutRetry(e) ==
    /\ post[e] = "sent"
    /\ ingest[e] = "publishing"
    /\ ingest' = [ingest EXCEPT ![e] = "reading"]
    /\ UNCHANGED <<brokerVars, apiUp, post, handler, link, wire, agent, counted>>

(* The client's timeout (200 ms).  The API server need not notice: what it *)
(* has read it goes on to publish.                                         *)
PostTimeout(e) ==
    /\ post[e] = "sent"
    /\ post' = [post EXCEPT ![e] = "error"]
    /\ UNCHANGED <<brokerVars, apiUp, ingest, handler, link, wire, agent, counted>>

-----------------------------------------------------------------------------
(* handleIngestEvent: the body is decoded and validated and then published *)
(* ...                                                                     *)
Ingest(e) ==
    /\ ingest[e] = "reading"
    /\ ingest' = [ingest EXCEPT ![e] = "publishing"]
    /\ PublishStart(e)
    /\ UNCHANGED <<apiUp, post, handler, link, wire, agent, counted>>

(* ... or refused: a missing scope, a body cut short or over 64 KiB.       *)
IngestReject(e) ==
    /\ ingest[e] = "reading"
    /\ ingest' = [ingest EXCEPT ![e] = "answered"]
    /\ post' = [post EXCEPT ![e] = IF @ = "sent" THEN "error" ELSE @]
    /\ UNCHANGED <<brokerVars, apiUp, handler, link, wire, agent, counted>>

BrokerStep ==
    /\ \E e \in Events : PublishEnd(e) \/ \E s \in Sessions : PublishSend(e, s)
    /\ UNCHANGED <<apiUp, post, ingest, handler, link, wire, agent, counted>>

(* 202 Accepted                                                            *)
IngestAnswer(e) ==
    /\ ingest[e] = "publishing"
    /\ e \in done
    /\ ingest' = [ingest EXCEPT ![e] = "answered"]
    /\ post' = [post EXCEPT ![e] = IF @ = "sent" THEN "ok" ELSE @]
    /\ UNCHANGED <<brokerVars, apiUp, handler, link, wire, agent, counted>>

-----------------------------------------------------------------------------
(* connectEventBroker: the agent opens a stream when it has none.          *)
Dial(s) ==
    /\ apiUp
    /\ agent = Nobody
    /\ link[s] = "none"
    /\ link' = [link EXCEPT ![s] = "up"]
    /\ handler' = [handler EXCEPT ![s] = "greeting"]
    /\ agent' = s
    /\ UNCHANGED <<brokerVars, apiUp, post, ingest, wire, counted>>

(* handleSSE answers ": connected" first and subscribes afterwards.        *)
ServeSubscribe(s) ==
    /\ handler[s] = "greeting"
    /\ Subscribe(s)
    /\ handler' = [handler EXCEPT ![s] = "serving"]
    /\ UNCHANGED <<apiUp, post, ingest, link, wire, agent, counted>>

\* Mutant: an event is skipped while the client has not read the one before.
ServeEventSkips(s) ==
    /\ handler[s] = "serving"
    /\ Receive(s)
    /\ wire' = IF wire[s] = <<>> THEN [wire EXCEPT ![s] = Append(@, Head(chan[s]))] ELSE wire
    /\ UNCHANGED <<apiUp, post, ingest, handler, link, agent, counted>>

(* An event from the channel is written to the connection, which may be    *)
(* broken already.                                                         *)
ServeEvent(s) ==
    /\ handler[s] = "serving"
    /\ Receive(s)
    /\ wire' = IF link[s] = "up" THEN [wire EXCEPT ![s] = Append(@, Head(chan[s]))] ELSE wire
    /\ UNCHANGED <<apiUp, post, ingest, handler, link, agent, counted>>

(* The context is done: the deferred Unsubscribe, and the handler returns. *)
ServeEnd(s) ==
    /\ handler[s] = "serving"
    /\ link[s] = "cut"
    /\ Unsubscribe(s)
    /\ handler' = [handler EXCEPT ![s] = "gone"]
    /\ UNCHANGED <<apiUp, post, ingest, link, wire, agent, counted>>

(* The connection ends: a write after WriteTimeout, or the network.        *)
Cut(s) ==
    /\ link[s] = "up"
    /\ link' = [link EXCEPT ![s] = "cut"]
    /\ UNCHANGED <<brokerVars, apiUp, post, ingest, handler, wire, agent, counted>>

-----------------------------------------------------------------------------
(* readSSEStream: a line with an event is counted.                         *)
AgentRead(s) ==
    /\ agent = s
    /\ wire[s] # <<>>
    /\ counted' = Append(counted, Head(wire[s]))
    /\ wire' = [wire EXCEPT ![s] = Tail(@)]
    /\ UNCHANGED <<brokerVars, apiUp, post, ingest, handler, link, agent>>

(* The stream ends, in order or with an error that takes unread data with  *)
(* it; after 5 s the agent dials again.                                    *)
AgentEOF(s) ==
    /\ agent = s
    /\ link[s] = "cut"
    /\ agent' = Nobody
    /\ wire' = [wire EXCEPT ![s] = <<>>]
    /\ UNCHANGED <<brokerVars, apiUp, post, ingest, handler, link, counted>>

(* The agent is restarted; what it counted is in its memory only.          *)
AgentRestart(s) ==
    /\ agent = s
    /\ agent' = Nobody
    /\ link' = [link EXCEPT ![s] = "cut"]
    /\ wire' = [wire EXCEPT ![s] = <<>>]
    /\ counted' = <<>>
    /\ UNCHANGED <<brokerVars, apiUp, post, ingest, handler>>

ApiCrash ==
    /\ apiUp
    /\ apiUp' = FALSE
    /\ BrokerLost
    /\ post' = [e \in Events |-> IF post[e] = "sent" THEN "error" ELSE post[e]]
    /\ ingest' = [e \in Events |-> IF ingest[e] = "none" THEN "none" ELSE "answered"]
    /\ handler' = [s \in Sessions |-> IF handler[s] = "none" THEN "none" ELSE "gone"]
    /\ link' = [s \in Sessions |-> IF link[s] = "none" THEN "none" ELSE "cut"]
    /\ UNCHANGED <<wire, agent, counted>>

ApiRestart ==
    /\ ~apiUp
    /\ apiUp' = TRUE
    /\ UNCHANGED <<brokerVars, post, ingest, handler, link, wire, agent, counted>>

-----------------------------------------------------------------------------
Publisher(e) == Post(e) \/ PostTimeout(e)
Ingestion(e) == Ingest(e) \/ IngestReject(e) \/ IngestAnswer(e)
Serving(s)   == ServeSubscribe(s) \/ ServeEvent(s) \/ ServeEnd(s)
Agent(s)     == Dial(s) \/ AgentRead(s) \/ AgentEOF(s)

Next ==
    \/ \E e \in Events : Publisher(e) \/ Ingestion(e)
    \/ BrokerStep
    \/ \E s \in Sessions : Serving(s) \/ Agent(s) \/ Cut(s) \/ AgentRestart(s)
    \/ ApiCrash
    \/ ApiRestart

Spec == Init /\ [][Next]_vars

(* The timeout of http.Client is the runtime's; the goroutines of the API  *)
(* server that can run do run; the agent reads what has arrived.           *)
Fairness ==
    /\ \A e \in Events : WF_vars(PostTimeout(e))
    /\ WF_vars(BrokerStep)
    /\ \A s \in Sessions : WF_vars(ServeEvent(s)) /\ WF_vars(AgentRead(s))

FairSpec == Spec /\ Fairness

-----------------------------------------------------------------------------
(* Everything session s has been sent and has not lost, in order.          *)
Stream(s) == wire[s] \o chan[s]

SeqElements(q) == {q[i] : i \in 1 .. Len(q)}

(* The agent counts no event twice, however often it reconnects and        *)
(* whatever times out: an attack is not taken for two.                     *)
CountedOnce ==
    LET all == IF agent = Nobody THEN counted ELSE counted \o Stream(agent)
    IN  \A i, j \in 1 .. Len(all) : i # j => all[i] # all[j]

(* Events reach a stream in the order in which they were published: when   *)
(* one Publish was over before another began, no stream has the second one *)
(* first (which the broker's goroutines might otherwise do).               *)
InOrder ==
    \A s \in Sessions : \A i, j \in 1 .. Len(Stream(s)) :
        i < j => Stream(s)[j] \notin earlier[Stream(s)[i]]

(* While its stream holds, the agent gets every event published since it   *)
(* was subscribed, unless its channel was full at that moment: a slow or   *)
(* vanished subscriber costs no other one an event.                        *)
NoSilentLoss ==
    \A s \in Sessions :
        (agent = s /\ link[s] = "up" /\ handler[s] = "serving") =>
            owed[s] \cap done \subseteq
                overflow[s] \cup SeqElements(counted) \cup SeqElements(Stream(s))

(* An event that was put on its way to a subscribed agent is counted, or   *)
(* the channel was full, or the stream broke.                              *)
EventuallyCounted ==
    \A e \in Events, s \in Sessions :
        e \in owed[s] ~> \/ e \in SeqElements(counted)
                         \/ e \in overflow[s]
                         \/ link[s] = "cut"
=============================================================================
