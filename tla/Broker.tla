------------------------------- MODULE Broker -------------------------------
(***************************************************************************)
(* internal/events/broker.go: the in-process fan-out of blocked-request    *)
(* events.  Every subscriber has a buffered channel of its own.  Publish   *)
(* holds the read lock while it goes through the subscribers, in the       *)
(* order of a Go map; several goroutines may be in it at once, and         *)
(* subscribers drain their channels meanwhile.  Subscribe and Unsubscribe  *)
(* need the write lock, so they wait until no Publish is under way.        *)
(***************************************************************************)
EXTENDS Naturals, Sequences

CONSTANTS Events,    \* events, each published by a goroutine of its own
          Sessions,  \* subscribers: SSE handlers with their channels
          Cap        \* the capacity of a channel (64)

ASSUME CapAssumption == Cap \in Nat \ {0}

VARIABLES
    subscribers,  \* the map of Broker
    chan,         \* chan[s]: what is buffered in the channel of s
    closed,       \* sessions whose channel is closed
    busy,         \* events whose Publish holds the read lock
    visiting,     \* visiting[e]: the subscribers Publish(e) still has to visit
    done,         \* events whose Publish has returned (history)
    earlier,      \* earlier[e]: what was done when Publish(e) began (history)
    owed,         \* owed[s]: events whose Publish found s subscribed (history)
    overflow      \* overflow[s]: events that found the channel of s full (history)

brokerVars == <<subscribers, chan, closed, busy, visiting, done, earlier, owed, overflow>>

BrokerTypeOK ==
    /\ subscribers \in SUBSET Sessions
    /\ chan \in [Sessions -> Seq(Events)]
    /\ closed \in SUBSET Sessions
    /\ busy \in SUBSET Events
    /\ visiting \in [Events -> SUBSET Sessions]
    /\ done \in SUBSET Events
    /\ earlier \in [Events -> SUBSET Events]
    /\ owed \in [Sessions -> SUBSET Events]
    /\ overflow \in [Sessions -> SUBSET Events]
    /\ \A s \in Sessions : Len(chan[s]) <= Cap

(* NewBroker                                                               *)
BrokerInit ==
    /\ subscribers = {}
    /\ chan = [s \in Sessions |-> <<>>]
    /\ closed = {}
    /\ busy = {}
    /\ visiting = [e \in Events |-> {}]
    /\ done = {}
    /\ earlier = [e \in Events |-> {}]
    /\ owed = [s \in Sessions |-> {}]
    /\ overflow = [s \in Sessions |-> {}]

-----------------------------------------------------------------------------
Subscribe(s) ==
    /\ busy = {}
    /\ subscribers' = subscribers \cup {s}
    /\ UNCHANGED <<chan, closed, busy, visiting, done, earlier, owed, overflow>>

\* Mutant: the channel is closed without the lock.
UnsubscribeUnlocked(s) ==
    /\ s \in subscribers
    /\ subscribers' = subscribers \ {s}
    /\ closed' = closed \cup {s}
    /\ UNCHANGED <<chan, busy, visiting, done, earlier, owed, overflow>>

Unsubscribe(s) ==
    /\ busy = {}
    /\ s \in subscribers
    /\ subscribers' = subscribers \ {s}
    /\ closed' = closed \cup {s}
    /\ UNCHANGED <<chan, busy, visiting, done, earlier, owed, overflow>>

(* Publish takes the read lock ...                                         *)
PublishStart(e) ==
    /\ e \notin busy
    /\ busy' = busy \cup {e}
    /\ visiting' = [visiting EXCEPT ![e] = subscribers]
    /\ earlier' = [earlier EXCEPT ![e] = done]
    /\ owed' = [s \in Sessions |-> IF s \in subscribers THEN owed[s] \cup {e} ELSE owed[s]]
    /\ UNCHANGED <<subscribers, chan, closed, done, overflow>>

\* Mutant: the first full channel ends the loop.
PublishSendStops(e, s) ==
    /\ s \in visiting[e]
    /\ IF Len(chan[s]) < Cap
       THEN /\ chan' = [chan EXCEPT ![s] = Append(@, e)]
            /\ visiting' = [visiting EXCEPT ![e] = @ \ {s}]
            /\ UNCHANGED overflow
       ELSE /\ overflow' = [overflow EXCEPT ![s] = @ \cup {e}]
            /\ visiting' = [visiting EXCEPT ![e] = {}]
            /\ UNCHANGED chan
    /\ UNCHANGED <<subscribers, closed, busy, done, earlier, owed>>

\* Mutant: a full channel is sent to all the same.
PublishSendUnbounded(e, s) ==
    /\ s \in visiting[e]
    /\ visiting' = [visiting EXCEPT ![e] = @ \ {s}]
    /\ chan' = [chan EXCEPT ![s] = Append(@, e)]
    /\ UNCHANGED <<subscribers, closed, busy, done, earlier, owed, overflow>>

(* ... sends to each subscriber, unless its channel is full ...            *)
PublishSend(e, s) ==
    /\ s \in visiting[e]
    /\ visiting' = [visiting EXCEPT ![e] = @ \ {s}]
    /\ IF Len(chan[s]) < Cap
       THEN chan' = [chan EXCEPT ![s] = Append(@, e)] /\ UNCHANGED overflow
       ELSE overflow' = [overflow EXCEPT ![s] = @ \cup {e}] /\ UNCHANGED chan
    /\ UNCHANGED <<subscribers, closed, busy, done, earlier, owed>>

\* Mutant: the sends are left to goroutines that Publish does not wait for.
PublishEndEarly(e) ==
    /\ e \in busy
    /\ busy' = busy \ {e}
    /\ done' = done \cup {e}
    /\ UNCHANGED <<subscribers, chan, closed, visiting, earlier, owed, overflow>>

(* ... and releases the lock.                                              *)
PublishEnd(e) ==
    /\ e \in busy
    /\ visiting[e] = {}
    /\ busy' = busy \ {e}
    /\ done' = done \cup {e}
    /\ UNCHANGED <<subscribers, chan, closed, visiting, earlier, owed, overflow>>

(* The subscriber takes the oldest event out of its channel.               *)
Receive(s) ==
    /\ chan[s] # <<>>
    /\ chan' = [chan EXCEPT ![s] = Tail(@)]
    /\ UNCHANGED <<subscribers, closed, busy, visiting, done, earlier, owed, overflow>>

(* The process ends with everything the broker holds.                      *)
BrokerLost ==
    /\ subscribers' = {}
    /\ chan' = [s \in Sessions |-> <<>>]
    /\ closed' = closed \cup subscribers
    /\ busy' = {}
    /\ visiting' = [e \in Events |-> {}]
    /\ UNCHANGED <<done, earlier, owed, overflow>>

-----------------------------------------------------------------------------
(* Publish never sends on a channel that Unsubscribe has closed, which     *)
(* would bring the process down.                                           *)
NoSendOnClosed == \A e \in Events : visiting[e] \cap closed = {}
=============================================================================
