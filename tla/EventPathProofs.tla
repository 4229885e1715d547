-------------------------- MODULE EventPathProofs --------------------------
(***************************************************************************)
(* The event path for any number of events and connections and channels of *)
(* any capacity.  All properties rest on one invariant: an event is        *)
(* published once (PostInv), a subscriber is visited only while its        *)
(* channel is open (BrokerInv), and what is on the way to the agent, in    *)
(* the channel, on the wire and counted, are three sequences without       *)
(* repetitions that have nothing in common (AgentInv).                     *)
(***************************************************************************)
EXTENDS EventPath, TLAPS

Distinct(q) == \A i, j \in 1 .. Len(q) : i # j => q[i] # q[j]

(* No event of q comes after one that was published later.                 *)
Ordered(q, before) == \A i, j \in 1 .. Len(q) : i < j => q[j] \notin before[q[i]]

(* Events that handleIngestEvent has handed on, or given up.               *)
Started == {e \in Events : ingest[e] \in {"publishing", "answered"}}

BrokerInv ==
    /\ subscribers \cap closed = {}
    /\ busy \cap done = {}
    /\ \A e \in Events : /\ visiting[e] \subseteq subscribers
                         /\ visiting[e] # {} => e \in busy
                         /\ earlier[e] \subseteq done

PostInv ==
    /\ \A e \in Events : post[e] = "new" => ingest[e] = "none"
    /\ busy \cup done \subseteq Started

SessionInv ==
    \A s \in Sessions :
        /\ s \in subscribers <=> handler[s] = "serving"
        /\ s \in closed => handler[s] = "gone"
        /\ link[s] = "none" => handler[s] = "none"
        /\ handler[s] \in {"none", "greeting"} =>
              owed[s] = {} /\ chan[s] = <<>> /\ wire[s] = <<>>
        /\ owed[s] \subseteq Started

OrderInv ==
    \A s \in Sessions :
        /\ SeqElements(chan[s]) \subseteq Started
        /\ SeqElements(wire[s]) \subseteq Started
        /\ Ordered(chan[s], earlier)
        /\ Ordered(wire[s], earlier)
        /\ \A x \in SeqElements(wire[s]), y \in SeqElements(chan[s]) : y \notin earlier[x]

(* What the agent that reads from s has counted or may still count.        *)
Reached(s) == SeqElements(counted) \cup SeqElements(wire[s]) \cup SeqElements(chan[s])

AgentInv ==
    /\ Distinct(counted)
    /\ SeqElements(counted) \subseteq Started
    /\ \A s \in Sessions : agent = s =>
        /\ Distinct(wire[s])
        /\ Distinct(chan[s])
        /\ SeqElements(counted) \cap SeqElements(wire[s]) = {}
        /\ SeqElements(counted) \cap SeqElements(chan[s]) = {}
        /\ SeqElements(wire[s]) \cap SeqElements(chan[s]) = {}
        /\ \A e \in Events : s \in visiting[e] => e \notin Reached(s)
        /\ (link[s] = "up" /\ handler[s] = "serving") =>
              \A e \in owed[s] : s \in visiting[e] \/ e \in overflow[s] \/ e \in Reached(s)

IInv == TypeOK /\ BrokerInv /\ PostInv /\ SessionInv /\ OrderInv /\ AgentInv

-----------------------------------------------------------------------------
(* Sequences: what Append and Tail do to elements, repetitions and order.  *)
LEMMA EmptyFacts ==
    ASSUME NEW f
    PROVE  SeqElements(<<>>) = {} /\ Distinct(<<>>) /\ Ordered(<<>>, f)
  BY DEF SeqElements, Distinct, Ordered

(* What is appended becomes the last element ...                           *)
LEMMA AppendFacts ==
    ASSUME NEW q \in Seq(Events), NEW e \in Events
    PROVE  /\ Append(q, e) \in Seq(Events)
           /\ Len(Append(q, e)) = Len(q) + 1
           /\ \A i \in 1 .. Len(q) : Append(q, e)[i] = q[i]
           /\ Append(q, e)[Len(q) + 1] = e
           /\ SeqElements(Append(q, e)) = SeqElements(q) \cup {e}
<1>1. Len(q) \in Nat
  OBVIOUS
<1>2. /\ Append(q, e) \in Seq(Events)
      /\ Len(Append(q, e)) = Len(q) + 1
      /\ \A i \in 1 .. Len(q) : Append(q, e)[i] = q[i]
      /\ Append(q, e)[Len(q) + 1] = e
  OBVIOUS
<1>3. \A i \in 1 .. Len(q) + 1 : i \in 1 .. Len(q) \/ i = Len(q) + 1
  BY <1>1
<1>4. \A i \in 1 .. Len(q) : i \in 1 .. Len(q) + 1
  BY <1>1
<1>5. Len(q) + 1 \in 1 .. Len(q) + 1
  BY <1>1
<1>6. SeqElements(Append(q, e)) \subseteq SeqElements(q) \cup {e}
  BY <1>2, <1>3 DEF SeqElements
<1>7. SeqElements(q) \cup {e} \subseteq SeqElements(Append(q, e))
  BY <1>2, <1>4, <1>5 DEF SeqElements
<1> QED
  BY <1>2, <1>6, <1>7

(* ... it keeps the elements distinct if it is not there yet ...           *)
LEMMA AppendDistinct ==
    ASSUME NEW q \in Seq(Events), NEW e \in Events, Distinct(q), e \notin SeqElements(q)
    PROVE  Distinct(Append(q, e))
<1>1. Len(q) \in Nat
  OBVIOUS
<1>2. \A i \in 1 .. Len(q) : q[i] # e
  BY DEF SeqElements
<1> QED
  BY <1>1, <1>2, AppendFacts DEF Distinct

(* ... and in order if it precedes none of them.                           *)
LEMMA AppendOrdered ==
    ASSUME NEW q \in Seq(Events), NEW e \in Events, NEW f,
           Ordered(q, f), \A x \in SeqElements(q) : e \notin f[x]
    PROVE  Ordered(Append(q, e), f)
<1>1. Len(q) \in Nat
  OBVIOUS
<1>2. \A i \in 1 .. Len(q) : e \notin f[q[i]]
  BY DEF SeqElements
<1> SUFFICES ASSUME NEW i \in 1 .. Len(q) + 1, NEW j \in 1 .. Len(q) + 1, i < j
             PROVE  Append(q, e)[j] \notin f[Append(q, e)[i]]
  BY AppendFacts DEF Ordered
<1>3. i \in 1 .. Len(q) /\ Append(q, e)[i] = q[i]
  BY <1>1, AppendFacts
<1>4. CASE j \in 1 .. Len(q)
  BY <1>3, <1>4, AppendFacts DEF Ordered
<1>5. CASE j = Len(q) + 1
  BY <1>2, <1>3, <1>5, AppendFacts
<1> QED
  BY <1>1, <1>4, <1>5

(* Taking the head leaves the others, one place further on ...             *)
LEMMA TailFacts ==
    ASSUME NEW q \in Seq(Events), q # <<>>
    PROVE  /\ Head(q) \in Events
           /\ Head(q) = q[1]
           /\ Tail(q) \in Seq(Events)
           /\ Len(q) \in Nat \ {0}
           /\ Len(Tail(q)) = Len(q) - 1
           /\ \A i \in 1 .. Len(q) - 1 : Tail(q)[i] = q[i + 1]
           /\ SeqElements(q) = SeqElements(Tail(q)) \cup {Head(q)}
<1>1. /\ Head(q) \in Events /\ Head(q) = q[1] /\ Tail(q) \in Seq(Events)
      /\ Len(q) \in Nat \ {0} /\ Len(Tail(q)) = Len(q) - 1
      /\ \A i \in 1 .. Len(q) - 1 : Tail(q)[i] = q[i + 1]
  OBVIOUS
<1>2. ASSUME NEW i \in 1 .. Len(q)
      PROVE  q[i] \in SeqElements(Tail(q)) \cup {Head(q)}
  <2>1. CASE i = 1
    BY <2>1, <1>1
  <2>2. CASE i # 1
    <3>1. i - 1 \in 1 .. Len(q) - 1 /\ (i - 1) + 1 = i
      BY <2>2, <1>1
    <3>2. Tail(q)[i - 1] = q[i]
      BY <3>1, <1>1
    <3> QED
      BY <3>1, <3>2, <1>1 DEF SeqElements
  <2> QED
    BY <2>1, <2>2
<1>3. ASSUME NEW i \in 1 .. Len(q) - 1
      PROVE  Tail(q)[i] \in SeqElements(q)
  <2>1. i + 1 \in 1 .. Len(q)
    BY <1>1
  <2> QED
    BY <2>1, <1>1 DEF SeqElements
<1>4. Head(q) \in SeqElements(q)
  <2>1. 1 \in 1 .. Len(q)
    BY <1>1
  <2> QED
    BY <2>1, <1>1 DEF SeqElements
<1>5. SeqElements(q) \subseteq SeqElements(Tail(q)) \cup {Head(q)}
  BY <1>2 DEF SeqElements
<1>6. SeqElements(Tail(q)) \subseteq SeqElements(q)
  BY <1>1, <1>3 DEF SeqElements
<1> QED
  BY <1>1, <1>4, <1>5, <1>6

(* ... all different from the head ...                                     *)
LEMMA TailDistinct ==
    ASSUME NEW q \in Seq(Events), q # <<>>, Distinct(q)
    PROVE  Distinct(Tail(q)) /\ Head(q) \notin SeqElements(Tail(q))
<1>1. \A i \in 1 .. Len(q) - 1 : i + 1 \in 1 .. Len(q) /\ i + 1 # 1 /\ 1 \in 1 .. Len(q)
  BY TailFacts
<1>2. Distinct(Tail(q))
  <2> SUFFICES ASSUME NEW i \in 1 .. Len(q) - 1, NEW j \in 1 .. Len(q) - 1, i # j
               PROVE  Tail(q)[i] # Tail(q)[j]
    BY TailFacts DEF Distinct
  <2>1. i + 1 # j + 1
    BY TailFacts
  <2> QED
    BY <1>1, <2>1, TailFacts DEF Distinct
<1>3. \A i \in 1 .. Len(q) - 1 : q[i + 1] # q[1]
  BY <1>1 DEF Distinct
<1>4. Head(q) \notin SeqElements(Tail(q))
  BY <1>3, TailFacts DEF SeqElements
<1> QED
  BY <1>2, <1>4

(* ... in order, and none before the head.                                 *)
LEMMA TailOrdered ==
    ASSUME NEW q \in Seq(Events), q # <<>>, NEW f, Ordered(q, f)
    PROVE  Ordered(Tail(q), f) /\ \A y \in SeqElements(Tail(q)) : y \notin f[Head(q)]
<1>1. \A i \in 1 .. Len(q) - 1 : i + 1 \in 1 .. Len(q) /\ 1 < i + 1 /\ 1 \in 1 .. Len(q)
  BY TailFacts
<1>2. Ordered(Tail(q), f)
  <2> SUFFICES ASSUME NEW i \in 1 .. Len(q) - 1, NEW j \in 1 .. Len(q) - 1, i < j
               PROVE  Tail(q)[j] \notin f[Tail(q)[i]]
    BY TailFacts DEF Ordered
  <2>1. i + 1 < j + 1
    BY TailFacts
  <2> QED
    BY <1>1, <2>1, TailFacts DEF Ordered
<1>3. \A i \in 1 .. Len(q) - 1 : q[i + 1] \notin f[q[1]]
  BY <1>1 DEF Ordered
<1>4. \A y \in SeqElements(Tail(q)) : y \notin f[Head(q)]
  BY <1>3, TailFacts DEF SeqElements
<1> QED
  BY <1>2, <1>4

-----------------------------------------------------------------------------
(* Type correctness, action by action.                                     *)
LEMMA TypeInit == Init => TypeOK
  BY CapAssumption DEF Init, BrokerInit, TypeOK, BrokerTypeOK

(* What the broker does to its subscriptions keeps the types ...           *)
LEMMA BrokerStepTyped == TypeOK /\ BrokerStep => TypeOK'
<1> SUFFICES ASSUME TypeOK, BrokerStep PROVE TypeOK'
  OBVIOUS
<1>1. ASSUME NEW e \in Events, PublishEnd(e) PROVE TypeOK'
  BY <1>1 DEF PublishEnd, BrokerStep, TypeOK, BrokerTypeOK
<1>2. ASSUME NEW e \in Events, NEW s \in Sessions, PublishSend(e, s) PROVE TypeOK'
  <2>1. chan[s] \in Seq(Events) /\ Append(chan[s], e) \in Seq(Events)
    BY AppendFacts DEF TypeOK, BrokerTypeOK
  <2>2. chan' \in [Sessions -> Seq(Events)]
    BY <1>2, <2>1 DEF PublishSend, TypeOK, BrokerTypeOK
  <2>3. \A t \in Sessions : Len(chan'[t]) <= Cap
    <3>1. Len(chan[s]) < Cap => Len(Append(chan[s], e)) <= Cap
      BY <2>1, AppendFacts, CapAssumption
    <3> QED
      BY <1>2, <3>1 DEF PublishSend, TypeOK, BrokerTypeOK
  <2>4. overflow' \in [Sessions -> SUBSET Events]
    <3>1. CASE Len(chan[s]) < Cap
      BY <1>2, <3>1 DEF PublishSend, TypeOK, BrokerTypeOK
    <3>2. CASE ~(Len(chan[s]) < Cap)
      <4>1. overflow' = [overflow EXCEPT ![s] = @ \cup {e}]
        BY <1>2, <3>2 DEF PublishSend
      <4> QED
        BY <4>1 DEF TypeOK, BrokerTypeOK
    <3> QED
      BY <3>1, <3>2
  <2>5. visiting' \in [Events -> SUBSET Sessions]
    BY <1>2 DEF PublishSend, TypeOK, BrokerTypeOK
  <2>6. UNCHANGED <<subscribers, closed, busy, done, earlier, owed>>
    BY <1>2 DEF PublishSend
  <2>7. BrokerTypeOK'
    BY <2>2, <2>3, <2>4, <2>5, <2>6 DEF TypeOK, BrokerTypeOK
  <2> QED
    BY <2>7 DEF BrokerStep, TypeOK
<1> QED
  BY <1>1, <1>2 DEF BrokerStep

(* ... as does receiving from a channel ...                                *)
LEMMA ReceiveTyped ==
    ASSUME BrokerTypeOK, NEW s \in Sessions, Receive(s)
    PROVE  BrokerTypeOK' /\ Head(chan[s]) \in Events
<1>1. /\ chan[s] \in Seq(Events) /\ chan[s] # <<>>
      /\ Len(chan[s]) <= Cap
  BY DEF BrokerTypeOK, Receive
<1>2. /\ Tail(chan[s]) \in Seq(Events) /\ Head(chan[s]) \in Events
      /\ Len(Tail(chan[s])) <= Cap
  BY <1>1, TailFacts, CapAssumption
<1> QED
  BY <1>2 DEF BrokerTypeOK, Receive

(* ... what the publisher and the ingesting handler do ...                 *)
LEMMA EventTyped ==
    ASSUME TypeOK, NEW e \in Events, Publisher(e) \/ Ingestion(e)
    PROVE  TypeOK'
<1>1. CASE Post(e)
  <2>1. BrokerTypeOK'
    BY <1>1 DEF Post, TypeOK, BrokerTypeOK, brokerVars
  <2>2. /\ post' \in [Events -> {"new", "sent", "ok", "error"}]
        /\ ingest' \in [Events -> {"none", "reading", "publishing", "answered"}]
    BY <1>1 DEF Post, TypeOK
  <2> QED
    BY <1>1, <2>1, <2>2 DEF Post, TypeOK
<1>2. CASE PostTimeout(e)   BY <1>2 DEF PostTimeout, TypeOK, BrokerTypeOK, brokerVars
<1>3. CASE Ingest(e)        BY <1>3 DEF Ingest, PublishStart, TypeOK, BrokerTypeOK
<1>4. CASE IngestReject(e)  BY <1>4 DEF IngestReject, TypeOK, BrokerTypeOK, brokerVars
<1>5. CASE IngestAnswer(e)  BY <1>5 DEF IngestAnswer, TypeOK, BrokerTypeOK, brokerVars
<1> QED
  BY <1>1, <1>2, <1>3, <1>4, <1>5 DEF Publisher, Ingestion

(* ... what a stream and the agent do ...                                  *)
LEMMA SessionTyped ==
    ASSUME TypeOK, NEW s \in Sessions,
           Serving(s) \/ Agent(s) \/ Cut(s) \/ AgentRestart(s)
    PROVE  TypeOK'
<1>0. <<>> \in Seq(Events)
  OBVIOUS
<1>1. CASE ServeSubscribe(s)
  BY <1>1 DEF ServeSubscribe, Subscribe, TypeOK, BrokerTypeOK
<1>2. CASE ServeEvent(s)
  <2>1. BrokerTypeOK' /\ Head(chan[s]) \in Events
    BY <1>2, ReceiveTyped DEF ServeEvent, TypeOK
  <2>2. Append(wire[s], Head(chan[s])) \in Seq(Events)
    BY <2>1, AppendFacts DEF TypeOK
  <2> QED
    BY <1>2, <2>1, <2>2 DEF ServeEvent, TypeOK
<1>3. CASE ServeEnd(s)
  BY <1>3 DEF ServeEnd, Unsubscribe, TypeOK, BrokerTypeOK
<1>4. CASE Dial(s)
  BY <1>4 DEF Dial, TypeOK, BrokerTypeOK, brokerVars
<1>5. CASE AgentRead(s)
  <2>1. wire[s] \in Seq(Events) /\ wire[s] # <<>>
    BY <1>5 DEF AgentRead, TypeOK
  <2>2. /\ Tail(wire[s]) \in Seq(Events)
        /\ Append(counted, Head(wire[s])) \in Seq(Events)
    BY <2>1, TailFacts, AppendFacts DEF TypeOK
  <2> QED
    BY <1>5, <2>2 DEF AgentRead, TypeOK, BrokerTypeOK, brokerVars
<1>6. CASE AgentEOF(s)
  BY <1>0, <1>6 DEF AgentEOF, TypeOK, BrokerTypeOK, brokerVars
<1>7. CASE Cut(s)
  BY <1>7 DEF Cut, TypeOK, BrokerTypeOK, brokerVars
<1>8. CASE AgentRestart(s)
  BY <1>0, <1>8 DEF AgentRestart, TypeOK, BrokerTypeOK, brokerVars
<1> QED
  BY <1>1, <1>2, <1>3, <1>4, <1>5, <1>6, <1>7, <1>8 DEF Serving, Agent

(* ... and the death of the API server;                                    *)
LEMMA ApiCrashTyped == TypeOK /\ ApiCrash => TypeOK'
<1> SUFFICES ASSUME TypeOK, ApiCrash PROVE TypeOK'
  OBVIOUS
<1>1. <<>> \in Seq(Events) /\ Len(<<>>) <= Cap
  BY CapAssumption
<1>2. /\ chan' \in [Sessions -> Seq(Events)]
      /\ \A s \in Sessions : Len(chan'[s]) <= Cap
  BY <1>1 DEF ApiCrash, BrokerLost
<1>3. BrokerTypeOK'
  BY <1>2 DEF ApiCrash, BrokerLost, TypeOK, BrokerTypeOK
<1> QED
  BY <1>3 DEF ApiCrash, TypeOK

(* so does every step.                                                     *)
LEMMA TypeStep == TypeOK /\ [Next]_vars => TypeOK'
<1> SUFFICES ASSUME TypeOK, [Next]_vars PROVE TypeOK'
  OBVIOUS
<1>1. CASE \E e \in Events : Publisher(e) \/ Ingestion(e)
  BY <1>1, EventTyped
<1>2. CASE BrokerStep
  BY <1>2, BrokerStepTyped
<1>3. CASE \E s \in Sessions : Serving(s) \/ Agent(s) \/ Cut(s) \/ AgentRestart(s)
  BY <1>3, SessionTyped
<1>4. CASE ApiCrash
  BY <1>4, ApiCrashTyped
<1>5. CASE ApiRestart
  BY <1>5 DEF ApiRestart, TypeOK, BrokerTypeOK, brokerVars
<1>6. CASE UNCHANGED vars
  BY <1>6 DEF vars, TypeOK, BrokerTypeOK, brokerVars
<1> QED
  BY <1>1, <1>2, <1>3, <1>4, <1>5, <1>6 DEF Next

(* Type correctness of the whole path, the capacity of the channels        *)
(* included.                                                               *)
THEOREM EventTypeCorrect == Spec => []TypeOK
  BY TypeInit, TypeStep, PTL DEF Spec

-----------------------------------------------------------------------------
(* The invariant holds at the start ...                                    *)
LEMMA InitIInv == Init => IInv
<1> SUFFICES ASSUME Init PROVE IInv
  OBVIOUS
<1>1. TypeOK
  BY TypeInit
<1>2. BrokerInv
  BY DEF Init, BrokerInit, BrokerInv
<1>3. PostInv
  BY DEF Init, BrokerInit, PostInv, Started
<1>4. SessionInv
  BY DEF Init, BrokerInit, SessionInv
<1>5. OrderInv
  BY EmptyFacts DEF Init, BrokerInit, OrderInv
<1>6. AgentInv
  BY EmptyFacts, NobodyAssumption DEF Init, BrokerInit, AgentInv
<1> QED
  BY <1>1, <1>2, <1>3, <1>4, <1>5, <1>6 DEF IInv

(* Steps that touch neither the broker nor what is on the way.  A          *)
(* connection may break in them, and more events be started or given up.   *)
LEMMA QuietStep ==
    ASSUME IInv,
           UNCHANGED <<brokerVars, handler, wire, agent, counted>>,
           Started \subseteq Started',
           \A s \in Sessions : link'[s] = link[s] \/ (link[s] = "up" /\ link'[s] = "cut")
    PROVE  BrokerInv' /\ SessionInv' /\ OrderInv' /\ AgentInv'
<1> USE DEF brokerVars
<1>1. BrokerInv'
  BY DEF IInv, BrokerInv
<1>2. SessionInv'
  BY DEF IInv, SessionInv
<1>3. OrderInv'
  BY DEF IInv, OrderInv
<1>4. AgentInv'
  BY DEF IInv, AgentInv, Reached
<1> QED
  BY <1>1, <1>2, <1>3, <1>4

(* ... when an event is posted, given up, refused or answered ...          *)
LEMMA PublisherIInv ==
    ASSUME IInv, NEW e \in Events, Publisher(e) \/ IngestReject(e) \/ IngestAnswer(e)
    PROVE  IInv'
<1>1. TypeOK'
  BY EventTyped DEF IInv, Ingestion
<1>2. Started \subseteq Started' /\ UNCHANGED <<brokerVars, handler, wire, agent, counted, link>>
  <2>1. CASE Post(e)          BY <2>1 DEF Post, Started, IInv, TypeOK, PostInv
  <2>2. CASE PostTimeout(e)   BY <2>2 DEF PostTimeout, Started
  <2>3. CASE IngestReject(e)  BY <2>3 DEF IngestReject, Started, IInv, TypeOK
  <2>4. CASE IngestAnswer(e)  BY <2>4 DEF IngestAnswer, Started, IInv, TypeOK
  <2> QED
    BY <2>1, <2>2, <2>3, <2>4 DEF Publisher
<1>3. BrokerInv' /\ SessionInv' /\ OrderInv' /\ AgentInv'
  BY <1>2, QuietStep
<1>4. busy' \cup done' \subseteq Started' /\ done' = done
  BY <1>2 DEF IInv, PostInv, brokerVars
<1>5. PostInv'
  <2>1. CASE Post(e)          BY <1>4, <2>1 DEF Post, IInv, TypeOK, PostInv
  <2>2. CASE PostTimeout(e)   BY <1>4, <2>2 DEF PostTimeout, IInv, TypeOK, PostInv
  <2>3. CASE IngestReject(e)  BY <1>4, <2>3 DEF IngestReject, IInv, TypeOK, PostInv
  <2>4. CASE IngestAnswer(e)  BY <1>4, <2>4 DEF IngestAnswer, IInv, TypeOK, PostInv
  <2> QED
    BY <2>1, <2>2, <2>3, <2>4 DEF Publisher
<1> QED
  BY <1>1, <1>3, <1>5 DEF IInv

(* A new Publish: its event is nowhere yet, and everyone subscribed will   *)
(* be visited.                                                             *)
LEMMA IngestIInv ==
    ASSUME IInv, NEW e \in Events, Ingest(e)
    PROVE  IInv'
<1>1. TypeOK'
  BY EventTyped DEF IInv, Ingestion
<1>2. /\ e \notin Started /\ Started' = Started \cup {e}
      /\ e \notin busy /\ e \notin done
  BY DEF Ingest, IInv, TypeOK, PostInv, Started
<1>3. /\ busy' = busy \cup {e}
      /\ \A x \in Events : visiting'[x] = IF x = e THEN subscribers ELSE visiting[x]
      /\ \A x \in Events : earlier'[x] = IF x = e THEN done ELSE earlier[x]
      /\ \A s \in Sessions : owed'[s] = IF s \in subscribers THEN owed[s] \cup {e} ELSE owed[s]
      /\ UNCHANGED <<subscribers, chan, closed, done, overflow, post, handler,
                     link, wire, agent, counted>>
  BY DEF Ingest, PublishStart, IInv, TypeOK, BrokerTypeOK
<1>4. BrokerInv'
  BY <1>2, <1>3 DEF IInv, BrokerInv
<1>5. PostInv'
  BY <1>2, <1>3 DEF Ingest, IInv, TypeOK, PostInv
<1>6. SessionInv'
  BY <1>2, <1>3 DEF IInv, SessionInv
<1>7. OrderInv'
  <2> SUFFICES ASSUME NEW s \in Sessions
               PROVE  /\ SeqElements(chan[s]) \subseteq Started'
                      /\ SeqElements(wire[s]) \subseteq Started'
                      /\ Ordered(chan[s], earlier')
                      /\ Ordered(wire[s], earlier')
                      /\ \A x \in SeqElements(wire[s]), y \in SeqElements(chan[s]) :
                            y \notin earlier'[x]
    BY <1>3 DEF OrderInv
  <2>1. /\ SeqElements(chan[s]) \subseteq Started
        /\ SeqElements(wire[s]) \subseteq Started
    BY DEF IInv, OrderInv
  <2>2. \A x \in Started : x \in Events /\ earlier'[x] = earlier[x]
    BY <1>2, <1>3 DEF Started
  <2>3. Ordered(chan[s], earlier')
    <3>1. \A i \in 1 .. Len(chan[s]) : earlier'[chan[s][i]] = earlier[chan[s][i]]
      BY <2>1, <2>2 DEF SeqElements
    <3> QED
      BY <3>1 DEF IInv, OrderInv, Ordered
  <2>4. Ordered(wire[s], earlier')
    <3>1. \A i \in 1 .. Len(wire[s]) : earlier'[wire[s][i]] = earlier[wire[s][i]]
      BY <2>1, <2>2 DEF SeqElements
    <3> QED
      BY <3>1 DEF IInv, OrderInv, Ordered
  <2>5. \A x \in SeqElements(wire[s]), y \in SeqElements(chan[s]) : y \notin earlier'[x]
    BY <2>1, <2>2 DEF IInv, OrderInv
  <2> QED
    BY <1>2, <2>1, <2>3, <2>4, <2>5
<1>8. AgentInv'
  <2>1. /\ Distinct(counted') /\ SeqElements(counted') \subseteq Started'
    BY <1>2, <1>3 DEF IInv, AgentInv
  <2> SUFFICES ASSUME NEW s \in Sessions, agent = s
               PROVE  /\ \A x \in Events : s \in visiting'[x] => x \notin Reached(s)
                      /\ (link[s] = "up" /\ handler[s] = "serving") =>
                            \A x \in owed'[s] : \/ s \in visiting'[x]
                                                \/ x \in overflow[s]
                                                \/ x \in Reached(s)
    BY <1>3, <2>1 DEF IInv, AgentInv, Reached
  <2>2. Reached(s) \subseteq Started
    BY DEF IInv, AgentInv, OrderInv, Reached
  <2>3. \A x \in Events : s \in visiting'[x] => x \notin Reached(s)
    BY <1>2, <1>3, <2>2 DEF IInv, AgentInv
  <2>4. handler[s] = "serving" => s \in subscribers
    BY DEF IInv, SessionInv
  <2>5. \A x \in owed[s] : x \in Events
    BY DEF IInv, TypeOK, BrokerTypeOK
  <2>6. ASSUME link[s] = "up", handler[s] = "serving", NEW x \in owed'[s]
        PROVE  s \in visiting'[x] \/ x \in overflow[s] \/ x \in Reached(s)
    <3>1. CASE x = e
      BY <1>3, <2>4, <2>6, <3>1
    <3>2. CASE x # e
      <4>1. x \in owed[s] /\ x \in Events
        BY <1>3, <2>5, <3>2
      <4>2. s \in visiting[x] \/ x \in overflow[s] \/ x \in Reached(s)
        BY <2>6, <4>1 DEF IInv, AgentInv
      <4> QED
        BY <1>3, <3>2, <4>1, <4>2
    <3> QED
      BY <3>1, <3>2
  <2> QED
    BY <2>3, <2>6
<1> QED
  BY <1>1, <1>4, <1>5, <1>6, <1>7, <1>8 DEF IInv

(* One send: the event is in the channel, or the channel was full.         *)
LEMMA PublishSendIInv ==
    ASSUME IInv, NEW e \in Events, NEW s \in Sessions, PublishSend(e, s), BrokerStep
    PROVE  IInv'
<1>1. TypeOK'
  BY BrokerStepTyped DEF IInv
<1>2. /\ s \in visiting[e]
      /\ \A x \in Events : visiting'[x] = IF x = e THEN visiting[e] \ {s} ELSE visiting[x]
      /\ UNCHANGED <<subscribers, closed, busy, done, earlier, owed, post, ingest,
                     handler, link, wire, agent, counted>>
  BY DEF PublishSend, BrokerStep, IInv, TypeOK, BrokerTypeOK
<1>3. e \in Started /\ e \notin done /\ s \in subscribers /\ Started' = Started
  BY <1>2 DEF IInv, BrokerInv, PostInv, Started
<1>4. BrokerInv'
  BY <1>2 DEF IInv, BrokerInv
<1>5. PostInv'
  BY <1>2, <1>3 DEF IInv, PostInv
<1>6. chan[s] \in Seq(Events) /\ \A x \in Events : e \notin earlier[x]
  BY <1>3 DEF IInv, TypeOK, BrokerTypeOK, BrokerInv
<1>7. CASE Len(chan[s]) < Cap
  <2>1. /\ \A t \in Sessions : chan'[t] = IF t = s THEN Append(chan[s], e) ELSE chan[t]
        /\ overflow' = overflow
    BY <1>7 DEF PublishSend, IInv, TypeOK, BrokerTypeOK
  <2>2. SeqElements(chan'[s]) = SeqElements(chan[s]) \cup {e}
    BY <1>6, <2>1, AppendFacts
  <2>3. SessionInv'
    BY <1>2, <1>3, <2>1 DEF IInv, SessionInv
  <2>4. OrderInv'
    <3>1. \A x \in Started : x \in Events
      BY DEF Started
    <3>2. SeqElements(chan[s]) \subseteq Started /\ SeqElements(wire[s]) \subseteq Started
      BY DEF IInv, OrderInv
    <3>3. Ordered(chan'[s], earlier)
      BY <1>6, <2>1, <3>1, <3>2, AppendOrdered DEF IInv, OrderInv
    <3> QED
      BY <1>2, <1>3, <1>6, <2>1, <2>2, <3>1, <3>2, <3>3 DEF IInv, OrderInv
  <2>5. AgentInv'
    <3>1. Distinct(counted') /\ SeqElements(counted') \subseteq Started'
      BY <1>2, <1>3 DEF IInv, AgentInv
    <3>2. ASSUME NEW t \in Sessions, agent = t, t # s
          PROVE  /\ chan'[t] = chan[t] /\ Reached(t)' = Reached(t)
                 /\ \A x \in Events : t \in visiting'[x] <=> t \in visiting[x]
      BY <1>2, <2>1, <3>2 DEF Reached
    <3>3. ASSUME agent = s
          PROVE  /\ e \notin Reached(s) /\ Reached(s)' = Reached(s) \cup {e}
                 /\ \A x \in Events : s \in visiting'[x] <=> s \in visiting[x] /\ x # e
      BY <1>2, <2>1, <2>2, <3>3 DEF Reached, IInv, AgentInv
    <3>4. agent = s => Distinct(chan'[s])
      BY <1>6, <2>1, <3>3, AppendDistinct DEF IInv, AgentInv, Reached
    <3>5. \A t \in Sessions : owed[t] \subseteq Events
      BY DEF IInv, TypeOK, BrokerTypeOK
    <3>6. ASSUME NEW t \in Sessions, agent = t, t # s
          PROVE  AgentInv'
      BY <1>2, <2>1, <3>1, <3>2, <3>5, <3>6 DEF IInv, AgentInv
    <3>7. ASSUME agent = s
          PROVE  AgentInv'
      <4>1. /\ Distinct(wire[s])
            /\ SeqElements(counted) \cap SeqElements(wire[s]) = {}
            /\ SeqElements(counted) \cap SeqElements(chan'[s]) = {}
            /\ SeqElements(wire[s]) \cap SeqElements(chan'[s]) = {}
        BY <2>2, <3>3, <3>7 DEF IInv, AgentInv, Reached
      <4>2. \A x \in Events : s \in visiting'[x] => x \notin Reached(s)'
        BY <3>3, <3>7 DEF IInv, AgentInv
      <4>3. (link[s] = "up" /\ handler[s] = "serving") =>
              \A x \in owed[s] : s \in visiting'[x] \/ x \in overflow[s] \/ x \in Reached(s)'
        BY <3>3, <3>5, <3>7 DEF IInv, AgentInv
      <4> QED
        BY <1>2, <2>1, <3>1, <3>4, <3>7, <4>1, <4>2, <4>3 DEF AgentInv
    <3>8. CASE agent \notin Sessions
      BY <1>2, <3>1, <3>8 DEF AgentInv
    <3> QED
      BY <3>6, <3>7, <3>8
  <2> QED
    BY <1>1, <1>4, <1>5, <2>3, <2>4, <2>5 DEF IInv
<1>8. CASE ~(Len(chan[s]) < Cap)
  <2>1. /\ \A t \in Sessions : overflow'[t] = IF t = s THEN overflow[s] \cup {e} ELSE overflow[t]
        /\ chan' = chan
    BY <1>8 DEF PublishSend, IInv, TypeOK, BrokerTypeOK
  <2>2. SessionInv' /\ OrderInv'
    BY <1>2, <1>3, <2>1 DEF IInv, SessionInv, OrderInv
  <2>3. AgentInv'
    <3>1. \A t \in Sessions : Reached(t)' = Reached(t) /\ owed[t] \subseteq Events
      BY <1>2, <2>1 DEF Reached, IInv, TypeOK, BrokerTypeOK
    <3>2. ASSUME NEW t \in Sessions, agent = t, link[t] = "up", handler[t] = "serving",
                 NEW x \in owed[t]
          PROVE  t \in visiting'[x] \/ x \in overflow'[t] \/ x \in Reached(t)'
      BY <1>2, <2>1, <3>1, <3>2 DEF IInv, AgentInv
    <3>3. ASSUME NEW t \in Sessions, agent = t, NEW x \in Events, t \in visiting'[x]
          PROVE  x \notin Reached(t)'
      BY <1>2, <3>1, <3>3 DEF IInv, AgentInv
    <3> QED
      BY <1>2, <1>3, <2>1, <3>2, <3>3 DEF IInv, AgentInv
  <2> QED
    BY <1>1, <1>4, <1>5, <2>2, <2>3 DEF IInv
<1> QED
  BY <1>7, <1>8

(* ... when its publication ends ...                                       *)
LEMMA PublishEndIInv ==
    ASSUME IInv, NEW e \in Events, PublishEnd(e), BrokerStep
    PROVE  IInv'
<1>1. TypeOK'
  BY BrokerStepTyped DEF IInv
<1>2. /\ e \in busy /\ visiting[e] = {} /\ busy' = busy \ {e} /\ done' = done \cup {e}
      /\ UNCHANGED <<subscribers, chan, closed, visiting, earlier, owed, overflow, post,
                     ingest, handler, link, wire, agent, counted>>
  BY DEF PublishEnd, BrokerStep
<1>3. Started' = Started
  BY <1>2 DEF Started
<1>4. BrokerInv' /\ PostInv'
  BY <1>2, <1>3 DEF IInv, BrokerInv, PostInv
<1>5. SessionInv' /\ OrderInv'
  BY <1>2, <1>3 DEF IInv, SessionInv, OrderInv
<1>6. AgentInv'
  BY <1>2, <1>3 DEF IInv, AgentInv, Reached
<1> QED
  BY <1>1, <1>4, <1>5, <1>6 DEF IInv

(* While nobody publishes, the set of subscribers may change.              *)
LEMMA SubscriptionIInv ==
    ASSUME IInv, NEW s \in Sessions, ServeSubscribe(s) \/ ServeEnd(s)
    PROVE  IInv'
<1>1. TypeOK'
  BY SessionTyped DEF IInv, Serving
<1>2. /\ busy = {} /\ \A e \in Events : visiting[e] = {}
      /\ UNCHANGED <<chan, busy, visiting, done, earlier, owed, overflow, post,
                     ingest, link, wire, agent, counted>>
  BY DEF ServeSubscribe, Subscribe, ServeEnd, Unsubscribe, IInv, BrokerInv
<1>3. Started' = Started
  BY <1>2 DEF Started
<1>4. PostInv' /\ OrderInv'
  BY <1>2, <1>3 DEF IInv, PostInv, OrderInv
<1>5. CASE ServeSubscribe(s)
  <2>1. /\ handler[s] = "greeting" /\ subscribers' = subscribers \cup {s} /\ closed' = closed
        /\ \A t \in Sessions : handler'[t] = IF t = s THEN "serving" ELSE handler[t]
    BY <1>5 DEF ServeSubscribe, Subscribe, IInv, TypeOK
  <2>2. s \notin closed /\ owed[s] = {}
    BY <2>1 DEF IInv, SessionInv
  <2>3. BrokerInv'
    BY <1>2, <2>1, <2>2 DEF IInv, BrokerInv
  <2>4. SessionInv'
    BY <1>2, <1>3, <2>1, <2>2 DEF IInv, SessionInv
  <2>5. AgentInv'
    <3>1. \A t \in Sessions : t # s => handler'[t] = handler[t]
      BY <2>1
    <3> QED
      BY <1>2, <1>3, <2>2, <3>1 DEF IInv, AgentInv, Reached
  <2> QED
    BY <1>1, <1>4, <2>3, <2>4, <2>5 DEF IInv
<1>6. CASE ServeEnd(s)
  <2>1. /\ handler[s] = "serving" /\ subscribers' = subscribers \ {s}
        /\ closed' = closed \cup {s} /\ link[s] = "cut"
        /\ \A t \in Sessions : handler'[t] = IF t = s THEN "gone" ELSE handler[t]
    BY <1>6 DEF ServeEnd, Unsubscribe, IInv, TypeOK
  <2>2. BrokerInv'
    BY <1>2, <2>1 DEF IInv, BrokerInv
  <2>3. SessionInv'
    BY <1>2, <1>3, <2>1 DEF IInv, SessionInv
  <2>4. AgentInv'
    <3>1. \A t \in Sessions : link[t] = "up" => handler'[t] = handler[t]
      BY <2>1
    <3> QED
      BY <1>2, <1>3, <3>1 DEF IInv, AgentInv, Reached
  <2> QED
    BY <1>1, <1>4, <2>2, <2>3, <2>4 DEF IInv
<1> QED
  BY <1>5, <1>6

(* The oldest event of the channel goes on the wire, or is lost with it.   *)
LEMMA ServeEventIInv ==
    ASSUME IInv, NEW s \in Sessions, ServeEvent(s)
    PROVE  IInv'
<1> DEFINE h == Head(chan[s])
<1>1. TypeOK'
  BY SessionTyped DEF IInv, Serving
<1>2. /\ chan[s] # <<>> /\ handler[s] = "serving"
      /\ \A t \in Sessions : chan'[t] = IF t = s THEN Tail(chan[s]) ELSE chan[t]
      /\ \A t \in Sessions : wire'[t] = IF t = s /\ link[s] = "up"
                                        THEN Append(wire[s], h) ELSE wire[t]
      /\ UNCHANGED <<subscribers, closed, busy, visiting, done, earlier, owed, overflow,
                     post, ingest, handler, link, agent, counted>>
  BY DEF ServeEvent, Receive, IInv, TypeOK, BrokerTypeOK
<1>3. chan[s] \in Seq(Events) /\ wire[s] \in Seq(Events) /\ h \in Events
  BY <1>2, TailFacts DEF IInv, TypeOK, BrokerTypeOK
<1>4. /\ SeqElements(chan[s]) = SeqElements(Tail(chan[s])) \cup {h}
      /\ SeqElements(Append(wire[s], h)) = SeqElements(wire[s]) \cup {h}
  BY <1>2, <1>3, TailFacts, AppendFacts
<1> HIDE DEF h
<1>5. Started' = Started
  BY <1>2 DEF Started
<1>6. BrokerInv' /\ PostInv'
  BY <1>2, <1>5 DEF IInv, BrokerInv, PostInv
<1>7. SessionInv'
  BY <1>2, <1>5 DEF IInv, SessionInv
<1>8. OrderInv'
  <2>1. /\ Ordered(chan[s], earlier) /\ Ordered(wire[s], earlier)
        /\ \A x \in SeqElements(wire[s]), y \in SeqElements(chan[s]) : y \notin earlier[x]
    BY DEF IInv, OrderInv
  <2>2. /\ Ordered(Tail(chan[s]), earlier)
        /\ \A y \in SeqElements(Tail(chan[s])) : y \notin earlier[h]
    BY <1>2, <1>3, <2>1, TailOrdered DEF h
  <2>3. Ordered(Append(wire[s], h), earlier)
    BY <1>3, <1>4, <2>1, AppendOrdered
  <2> QED
    BY <1>2, <1>4, <1>5, <2>1, <2>2, <2>3 DEF IInv, OrderInv
<1>9. AgentInv'
  <2>1. Distinct(counted') /\ SeqElements(counted') \subseteq Started'
    BY <1>2, <1>5 DEF IInv, AgentInv
  <2>2. CASE agent # s
    <3>1. \A t \in Sessions : agent = t =>
             chan'[t] = chan[t] /\ wire'[t] = wire[t] /\ Reached(t)' = Reached(t)
      BY <1>2, <2>2 DEF Reached
    <3> QED
      BY <1>2, <2>1, <3>1 DEF IInv, AgentInv
  <2>3. CASE agent = s
    <3>1. /\ Distinct(wire[s]) /\ Distinct(chan[s])
          /\ SeqElements(counted) \cap SeqElements(wire[s]) = {}
          /\ SeqElements(counted) \cap SeqElements(chan[s]) = {}
          /\ SeqElements(wire[s]) \cap SeqElements(chan[s]) = {}
      BY <2>3 DEF IInv, AgentInv
    <3>2. Distinct(Tail(chan[s])) /\ h \notin SeqElements(Tail(chan[s]))
      BY <1>2, <1>3, <3>1, TailDistinct DEF h
    <3>3. Distinct(Append(wire[s], h))
      BY <1>3, <1>4, <3>1, AppendDistinct
    <3>4. Reached(s)' \subseteq Reached(s) /\ (link[s] = "up" => Reached(s)' = Reached(s))
      BY <1>2, <1>4 DEF Reached
    <3>5. Distinct(wire'[s]) /\ Distinct(chan'[s])
      BY <1>2, <3>1, <3>2, <3>3
    <3>6. /\ SeqElements(counted) \cap SeqElements(wire'[s]) = {}
          /\ SeqElements(counted) \cap SeqElements(chan'[s]) = {}
          /\ SeqElements(wire'[s]) \cap SeqElements(chan'[s]) = {}
      BY <1>2, <1>4, <3>1, <3>2
    <3>7. \A e \in Events : s \in visiting[e] => e \notin Reached(s)'
      BY <2>3, <3>4 DEF IInv, AgentInv
    <3>8. (link[s] = "up" /\ handler[s] = "serving") =>
            \A e \in owed[s] : s \in visiting[e] \/ e \in overflow[s] \/ e \in Reached(s)'
      BY <2>3, <3>4 DEF IInv, AgentInv
    <3> QED
      BY <1>2, <2>1, <2>3, <3>5, <3>6, <3>7, <3>8 DEF AgentInv
  <2> QED
    BY <2>2, <2>3
<1> QED
  BY <1>1, <1>6, <1>7, <1>8, <1>9 DEF IInv

(* A new connection starts with nothing owed to it.                        *)
LEMMA DialIInv ==
    ASSUME IInv, NEW s \in Sessions, Dial(s)
    PROVE  IInv'
<1>1. TypeOK'
  BY SessionTyped DEF IInv, Agent
<1>2. /\ link[s] = "none" /\ agent' = s
      /\ \A t \in Sessions : link'[t] = IF t = s THEN "up" ELSE link[t]
      /\ \A t \in Sessions : handler'[t] = IF t = s THEN "greeting" ELSE handler[t]
      /\ UNCHANGED <<subscribers, chan, closed, busy, visiting, done, earlier, owed,
                     overflow, post, ingest, wire, counted>>
  BY DEF Dial, IInv, TypeOK, brokerVars
<1>3. /\ handler[s] = "none" /\ s \notin subscribers /\ s \notin closed
      /\ owed[s] = {} /\ chan[s] = <<>> /\ wire[s] = <<>>
  BY <1>2 DEF IInv, SessionInv
<1>4. Started' = Started
  BY <1>2 DEF Started
<1>5. BrokerInv' /\ PostInv' /\ OrderInv'
  BY <1>2, <1>4 DEF IInv, BrokerInv, PostInv, OrderInv
<1>6. SessionInv'
  BY <1>2, <1>3, <1>4 DEF IInv, SessionInv
<1>7. AgentInv'
  <2>1. \A e \in Events : s \notin visiting[e]
    BY <1>3 DEF IInv, BrokerInv
  <2>2. SeqElements(chan[s]) = {} /\ SeqElements(wire[s]) = {}
    BY <1>3, EmptyFacts
  <2>3. Distinct(chan[s]) /\ Distinct(wire[s])
    BY <1>3, EmptyFacts
  <2> QED
    BY <1>2, <1>3, <1>4, <2>1, <2>2, <2>3 DEF IInv, AgentInv
<1> QED
  BY <1>1, <1>5, <1>6, <1>7 DEF IInv

(* What the agent counts leaves the wire.                                  *)
LEMMA AgentReadIInv ==
    ASSUME IInv, NEW s \in Sessions, AgentRead(s)
    PROVE  IInv'
<1> DEFINE h == Head(wire[s])
<1>1. TypeOK'
  BY SessionTyped DEF IInv, Agent
<1>2. /\ agent = s /\ wire[s] # <<>> /\ counted' = Append(counted, h)
      /\ \A t \in Sessions : wire'[t] = IF t = s THEN Tail(wire[s]) ELSE wire[t]
      /\ UNCHANGED <<subscribers, chan, closed, busy, visiting, done, earlier, owed,
                     overflow, post, ingest, handler, link, agent>>
  BY DEF AgentRead, IInv, TypeOK, brokerVars
<1>3. wire[s] \in Seq(Events) /\ counted \in Seq(Events) /\ h \in Events
  BY <1>2, TailFacts DEF IInv, TypeOK
<1>4. /\ SeqElements(wire[s]) = SeqElements(Tail(wire[s])) \cup {h}
      /\ SeqElements(counted') = SeqElements(counted) \cup {h}
  BY <1>2, <1>3, TailFacts, AppendFacts
<1>5. /\ Distinct(wire[s]) /\ Distinct(counted)
      /\ SeqElements(counted) \cap SeqElements(wire[s]) = {}
      /\ SeqElements(counted) \cap SeqElements(chan[s]) = {}
      /\ SeqElements(wire[s]) \cap SeqElements(chan[s]) = {}
  BY <1>2 DEF IInv, AgentInv
<1>6. Distinct(Tail(wire[s])) /\ h \notin SeqElements(Tail(wire[s]))
  BY <1>2, <1>3, <1>5, TailDistinct
<1>7. Ordered(Tail(wire[s]), earlier)
  BY <1>2, <1>3, TailOrdered DEF IInv, OrderInv
<1>8. Distinct(counted')
  BY <1>2, <1>3, <1>4, <1>5, AppendDistinct
<1> HIDE DEF h
<1>9. Started' = Started
  BY <1>2 DEF Started
<1>10. BrokerInv' /\ PostInv'
  BY <1>2, <1>9 DEF IInv, BrokerInv, PostInv
<1>11. SessionInv'
  BY <1>2, <1>9 DEF IInv, SessionInv
<1>12. OrderInv'
  BY <1>2, <1>4, <1>7, <1>9 DEF IInv, OrderInv
<1>13. AgentInv'
  <2>1. Reached(s)' = Reached(s)
    BY <1>2, <1>4 DEF Reached
  <2>2. SeqElements(counted') \subseteq Started'
    BY <1>4, <1>9 DEF IInv, AgentInv, OrderInv
  <2>3. /\ SeqElements(counted') \cap SeqElements(wire'[s]) = {}
        /\ SeqElements(counted') \cap SeqElements(chan[s]) = {}
        /\ SeqElements(wire'[s]) \cap SeqElements(chan[s]) = {}
    BY <1>2, <1>4, <1>5, <1>6
  <2> QED
    BY <1>2, <1>6, <1>8, <2>1, <2>2, <2>3 DEF IInv, AgentInv
<1> QED
  BY <1>1, <1>10, <1>11, <1>12, <1>13 DEF IInv

(* The agent leaves its connection, with or without its memory.            *)
LEMMA AgentLeavesIInv ==
    ASSUME IInv, NEW s \in Sessions, AgentEOF(s) \/ AgentRestart(s)
    PROVE  IInv'
<1>1. TypeOK'
  BY SessionTyped DEF IInv, Agent
<1>2. /\ agent' = Nobody /\ counted' \in {counted, <<>>} /\ agent = s
      /\ \A t \in Sessions : wire'[t] = IF t = s THEN <<>> ELSE wire[t]
      /\ \A t \in Sessions : link'[t] = IF t = s THEN "cut" ELSE link[t]
      /\ UNCHANGED <<subscribers, chan, closed, busy, visiting, done, earlier, owed,
                     overflow, post, ingest, handler>>
  BY DEF AgentEOF, AgentRestart, IInv, TypeOK, brokerVars
<1>3. Started' = Started
  BY <1>2 DEF Started
<1>4. BrokerInv' /\ PostInv'
  BY <1>2, <1>3 DEF IInv, BrokerInv, PostInv
<1>5. SessionInv'
  BY <1>2, <1>3 DEF IInv, SessionInv
<1>6. OrderInv'
  <2>1. SeqElements(<<>>) = {} /\ Ordered(<<>>, earlier)
    BY EmptyFacts
  <2> QED
    BY <1>2, <1>3, <2>1 DEF IInv, OrderInv
<1>7. AgentInv'
  <2>1. SeqElements(<<>>) = {} /\ Distinct(<<>>)
    BY EmptyFacts
  <2> QED
    BY <1>2, <1>3, <2>1, NobodyAssumption DEF IInv, AgentInv
<1> QED
  BY <1>1, <1>4, <1>5, <1>6, <1>7 DEF IInv

(* Everything the API server held is gone, its connections are cut.        *)
LEMMA ApiCrashIInv ==
    ASSUME IInv, ApiCrash
    PROVE  IInv'
<1>1. TypeOK'
  BY ApiCrashTyped DEF IInv
<1>2. /\ subscribers' = {} /\ busy' = {} /\ closed' = closed \cup subscribers
      /\ \A e \in Events : visiting'[e] = {}
      /\ \A t \in Sessions : chan'[t] = <<>>
      /\ \A t \in Sessions : handler'[t] = IF handler[t] = "none" THEN "none" ELSE "gone"
      /\ \A t \in Sessions : link'[t] = IF link[t] = "none" THEN "none" ELSE "cut"
      /\ UNCHANGED <<done, earlier, owed, overflow, wire, agent, counted>>
  BY DEF ApiCrash, BrokerLost
<1>3. /\ \A e \in Events : post'[e] = IF post[e] = "sent" THEN "error" ELSE post[e]
      /\ \A e \in Events : ingest'[e] = IF ingest[e] = "none" THEN "none" ELSE "answered"
  BY DEF ApiCrash
<1>4. Started \subseteq Started'
  BY <1>3 DEF Started
<1>5. BrokerInv'
  BY <1>2 DEF IInv, BrokerInv
<1>6. PostInv'
  BY <1>2, <1>3, <1>4 DEF IInv, PostInv
<1>7. SessionInv'
  BY <1>2, <1>4 DEF IInv, SessionInv
<1>8. OrderInv'
  <2>1. SeqElements(<<>>) = {} /\ Ordered(<<>>, earlier)
    BY EmptyFacts
  <2> QED
    BY <1>2, <1>4, <2>1 DEF IInv, OrderInv
<1>9. AgentInv'
  <2>1. SeqElements(<<>>) = {} /\ Distinct(<<>>)
    BY EmptyFacts
  <2>2. \A t \in Sessions : link'[t] # "up"
    BY <1>2
  <2> QED
    BY <1>2, <1>4, <2>1, <2>2 DEF IInv, AgentInv
<1> QED
  BY <1>1, <1>5, <1>6, <1>7, <1>8, <1>9 DEF IInv

(* ... when the API server comes back or a connection breaks ...           *)
LEMMA OtherIInv ==
    ASSUME IInv, ApiRestart \/ (\E s \in Sessions : Cut(s)) \/ UNCHANGED vars
    PROVE  IInv'
<1>1. TypeOK'
  BY TypeStep DEF IInv, Next
<1>2. /\ UNCHANGED <<brokerVars, handler, wire, agent, counted, post, ingest>>
      /\ \A s \in Sessions : link'[s] = link[s] \/ (link[s] = "up" /\ link'[s] = "cut")
  BY DEF ApiRestart, Cut, vars, IInv, TypeOK
<1>3. Started' = Started
  BY <1>2 DEF Started
<1>4. PostInv'
  BY <1>2, <1>3 DEF IInv, PostInv, brokerVars
<1> QED
  BY <1>1, <1>2, <1>3, <1>4, QuietStep DEF IInv

(* ... and so in every step.                                               *)
LEMMA StepIInv == IInv /\ [Next]_vars => IInv'
<1> SUFFICES ASSUME IInv, [Next]_vars PROVE IInv'
  OBVIOUS
<1>1. CASE \E e \in Events : Publisher(e) \/ Ingestion(e)
  BY <1>1, PublisherIInv, IngestIInv DEF Ingestion
<1>2. CASE BrokerStep
  BY <1>2, PublishSendIInv, PublishEndIInv DEF BrokerStep
<1>3. CASE \E s \in Sessions : Serving(s) \/ Agent(s) \/ Cut(s) \/ AgentRestart(s)
  BY <1>3, SubscriptionIInv, ServeEventIInv, DialIInv, AgentReadIInv,
     AgentLeavesIInv, OtherIInv DEF Serving, Agent
<1>4. CASE ApiCrash
  BY <1>4, ApiCrashIInv
<1>5. CASE ApiRestart \/ UNCHANGED vars
  BY <1>5, OtherIInv
<1> QED
  BY <1>1, <1>2, <1>3, <1>4, <1>5 DEF Next

(* The inductive invariant of the event path.                              *)
THEOREM EventInvariant == Spec => []IInv
  BY InitIInv, StepIInv, PTL DEF Spec

-----------------------------------------------------------------------------
(* Sequences: a stream is the wire followed by the channel.                *)
LEMMA ConcatFacts ==
    ASSUME NEW p \in Seq(Events), NEW q \in Seq(Events)
    PROVE  /\ p \o q \in Seq(Events)
           /\ \A i \in 1 .. Len(p \o q) :
                 \/ i \in 1 .. Len(p) /\ (p \o q)[i] = p[i]
                 \/ /\ i > Len(p)
                    /\ i - Len(p) \in 1 .. Len(q)
                    /\ (p \o q)[i] = q[i - Len(p)]
           /\ SeqElements(p \o q) = SeqElements(p) \cup SeqElements(q)
<1>1. Len(p) \in Nat /\ Len(q) \in Nat
  OBVIOUS
<1>2. p \o q \in Seq(Events) /\ Len(p \o q) = Len(p) + Len(q)
  OBVIOUS
<1>3. \A i \in 1 .. Len(p) : i \in 1 .. Len(p \o q) /\ (p \o q)[i] = p[i]
  BY <1>1, <1>2
<1>4. ASSUME NEW i \in 1 .. Len(p \o q), i \notin 1 .. Len(p)
      PROVE  i > Len(p) /\ i - Len(p) \in 1 .. Len(q) /\ (p \o q)[i] = q[i - Len(p)]
  BY <1>1, <1>2, <1>4
<1>5. ASSUME NEW i \in 1 .. Len(q)
      PROVE  i + Len(p) \in 1 .. Len(p \o q) /\ (p \o q)[i + Len(p)] = q[i]
  <2>1. /\ i + Len(p) \in 1 .. Len(p \o q)
        /\ i + Len(p) \notin 1 .. Len(p)
        /\ (i + Len(p)) - Len(p) = i
    BY <1>1, <1>2
  <2> QED
    BY <2>1, <1>4
<1>6. SeqElements(p \o q) \subseteq SeqElements(p) \cup SeqElements(q)
  BY <1>3, <1>4 DEF SeqElements
<1>7. SeqElements(p) \cup SeqElements(q) \subseteq SeqElements(p \o q)
  BY <1>3, <1>5 DEF SeqElements
<1> QED
  BY <1>2, <1>3, <1>4, <1>6, <1>7

(* Two sequences with no element in common are distinct together,          *)
LEMMA ConcatDistinct ==
    ASSUME NEW p \in Seq(Events), NEW q \in Seq(Events), Distinct(p), Distinct(q),
           SeqElements(p) \cap SeqElements(q) = {}
    PROVE  Distinct(p \o q)
<1>1. \A i \in 1 .. Len(p), j \in 1 .. Len(q) : p[i] # q[j]
  BY DEF SeqElements
<1> SUFFICES ASSUME NEW i \in 1 .. Len(p \o q), NEW j \in 1 .. Len(p \o q), i # j
             PROVE  (p \o q)[i] # (p \o q)[j]
  BY DEF Distinct
<1>2. CASE i \in 1 .. Len(p) /\ (p \o q)[i] = p[i]
  BY <1>1, <1>2, ConcatFacts DEF Distinct
<1>3. CASE /\ i > Len(p) /\ i - Len(p) \in 1 .. Len(q)
           /\ (p \o q)[i] = q[i - Len(p)]
  <2>1. CASE j \in 1 .. Len(p) /\ (p \o q)[j] = p[j]
    BY <1>1, <1>3, <2>1
  <2>2. CASE /\ j > Len(p) /\ j - Len(p) \in 1 .. Len(q)
             /\ (p \o q)[j] = q[j - Len(p)]
    <3>1. Len(p) \in Nat /\ i \in Nat /\ j \in Nat
      OBVIOUS
    <3>2. i - Len(p) # j - Len(p)
      BY <3>1
    <3> QED
      BY <1>3, <2>2, <3>2 DEF Distinct
  <2> QED
    BY <2>1, <2>2, ConcatFacts
<1> QED
  BY <1>2, <1>3, ConcatFacts

(* and in order if nothing of the second precedes anything of the first.   *)
LEMMA ConcatOrdered ==
    ASSUME NEW p \in Seq(Events), NEW q \in Seq(Events), NEW f, Ordered(p, f), Ordered(q, f),
           \A x \in SeqElements(p), y \in SeqElements(q) : y \notin f[x]
    PROVE  Ordered(p \o q, f)
<1>1. \A i \in 1 .. Len(p), j \in 1 .. Len(q) : q[j] \notin f[p[i]]
  BY DEF SeqElements
<1> SUFFICES ASSUME NEW i \in 1 .. Len(p \o q), NEW j \in 1 .. Len(p \o q), i < j
             PROVE  (p \o q)[j] \notin f[(p \o q)[i]]
  BY DEF Ordered
<1>2. CASE i \in 1 .. Len(p) /\ (p \o q)[i] = p[i]
  BY <1>1, <1>2, ConcatFacts DEF Ordered
<1>3. CASE /\ i > Len(p) /\ i - Len(p) \in 1 .. Len(q)
           /\ (p \o q)[i] = q[i - Len(p)]
  <2>1. Len(p) \in Nat /\ i \in Nat /\ j \in Nat
    OBVIOUS
  <2>2. j \notin 1 .. Len(p) /\ i - Len(p) < j - Len(p)
    BY <1>3, <2>1
  <2> QED
    BY <1>3, <2>2, ConcatFacts DEF Ordered
<1> QED
  BY <1>2, <1>3, ConcatFacts

-----------------------------------------------------------------------------
(* However subscribers come and go, a Publish under way holds none whose   *)
(* channel Unsubscribe has closed.                                         *)
THEOREM NoSendOnClosedHolds == Spec => []NoSendOnClosed
<1>1. IInv => NoSendOnClosed
  BY DEF IInv, BrokerInv, NoSendOnClosed
<1> QED
  BY <1>1, EventInvariant, PTL

(* The agent counts no event twice, over any number of reconnections.      *)
THEOREM CountedOnceHolds == Spec => []CountedOnce
<1>1. IInv => CountedOnce
  <2> SUFFICES ASSUME IInv PROVE CountedOnce
    OBVIOUS
  <2>1. CASE agent = Nobody
    BY <2>1 DEF IInv, AgentInv, CountedOnce, Distinct
  <2>2. CASE agent # Nobody
    <3>1. agent \in Sessions /\ counted \in Seq(Events)
      BY <2>2 DEF IInv, TypeOK
    <3>2. wire[agent] \in Seq(Events) /\ chan[agent] \in Seq(Events)
      BY <3>1 DEF IInv, TypeOK, BrokerTypeOK
    <3>3. /\ Distinct(counted) /\ Distinct(wire[agent]) /\ Distinct(chan[agent])
          /\ SeqElements(counted) \cap SeqElements(wire[agent]) = {}
          /\ SeqElements(counted) \cap SeqElements(chan[agent]) = {}
          /\ SeqElements(wire[agent]) \cap SeqElements(chan[agent]) = {}
      BY <3>1 DEF IInv, AgentInv
    <3>4. /\ Stream(agent) \in Seq(Events) /\ Distinct(Stream(agent))
          /\ SeqElements(Stream(agent)) = SeqElements(wire[agent]) \cup SeqElements(chan[agent])
      BY <3>2, <3>3, ConcatFacts, ConcatDistinct DEF Stream
    <3>5. SeqElements(counted) \cap SeqElements(Stream(agent)) = {}
      BY <3>3, <3>4
    <3>6. Distinct(counted \o Stream(agent))
      BY <3>1, <3>3, <3>4, <3>5, ConcatDistinct
    <3> QED
      BY <2>2, <3>6 DEF CountedOnce, Distinct
  <2> QED
    BY <2>1, <2>2
<1> QED
  BY <1>1, EventInvariant, PTL

(* No stream has an event behind one that was published after it.          *)
THEOREM InOrderHolds == Spec => []InOrder
<1>1. IInv => InOrder
  <2> SUFFICES ASSUME IInv, NEW s \in Sessions PROVE Ordered(Stream(s), earlier)
    BY DEF InOrder, Ordered
  <2>1. wire[s] \in Seq(Events) /\ chan[s] \in Seq(Events)
    BY DEF IInv, TypeOK, BrokerTypeOK
  <2>2. /\ Ordered(wire[s], earlier) /\ Ordered(chan[s], earlier)
        /\ \A x \in SeqElements(wire[s]), y \in SeqElements(chan[s]) : y \notin earlier[x]
    BY DEF IInv, OrderInv
  <2> QED
    BY <2>1, <2>2, ConcatOrdered DEF Stream
<1> QED
  BY <1>1, EventInvariant, PTL

(* While its stream holds, the agent misses only what found its channel    *)
(* full, whatever the other subscribers do.                                *)
THEOREM NoSilentLossHolds == Spec => []NoSilentLoss
<1>1. IInv => NoSilentLoss
  <2> SUFFICES ASSUME IInv, NEW s \in Sessions,
                      agent = s, link[s] = "up", handler[s] = "serving",
                      NEW e \in owed[s] \cap done
               PROVE  e \in overflow[s] \cup SeqElements(counted) \cup SeqElements(Stream(s))
    BY DEF NoSilentLoss
  <2>1. wire[s] \in Seq(Events) /\ chan[s] \in Seq(Events) /\ e \in Events
    BY DEF IInv, TypeOK, BrokerTypeOK
  <2>2. SeqElements(Stream(s)) = SeqElements(wire[s]) \cup SeqElements(chan[s])
    BY <2>1, ConcatFacts DEF Stream
  <2>3. s \notin visiting[e]
    BY <2>1 DEF IInv, BrokerInv
  <2>4. e \in overflow[s] \/ e \in Reached(s)
    BY <2>3 DEF IInv, AgentInv
  <2> QED
    BY <2>2, <2>4 DEF Reached
<1> QED
  BY <1>1, EventInvariant, PTL
=============================================================================
