------------------------------- MODULE Bridge -------------------------------
(***************************************************************************)
(* The scorer that runs as a daemon: BridgeScorer.Evaluate, the HTTP       *)
(* client with its pool of connections over a Unix socket, the daemon of   *)
(* cmd/appsec-bridge that crashes, stops and starts again, and nginx,      *)
(* which waits for the sidecar's answer only so long.                      *)
(***************************************************************************)
EXTENDS Integers, FiniteSets

CONSTANTS Calls,       \* calls of Evaluate
          Conns,       \* connections that can be opened
          Timeout,     \* appsec.timeout_ms, in ticks
          Patience,    \* waffynx_timeout of nginx, in ticks
          MaxStops     \* bound on the ends of the daemon

BridgeConstants ==
    /\ "none" \notin Calls \cup Conns
    /\ Timeout \in Nat \ {0} /\ Patience \in Nat \ {0} /\ MaxStops \in Nat

VARIABLES
    daemon, sock, stops,  \* the daemon, the socket file, how often it ended
    link, alive,          \* of each connection: its place in the pool, and
                          \* whether the daemon still has its end
    work, reply,          \* the call the daemon works on for it, the answer
    pc, on, age,          \* of each call: stage, connection, time it took
    result, heard,        \* what Evaluate returns; what nginx learns of it
    \* history
    said,                 \* said[c]: the daemon's verdicts on c
    fault                 \* fault[c]: something went wrong during c

process == <<daemon, sock, stops>>
pool == <<link, alive, work, reply>>
calls == <<pc, on, age, result, heard>>
vars == <<process, pool, calls, said, fault>>

None == "none"
Busy == {c \in Calls : pc[c] \in {"dial", "send", "wait"}}

Init ==
    /\ daemon = "down" /\ sock = "none" /\ stops = 0
    /\ link = [k \in Conns |-> "unused"] /\ alive = [k \in Conns |-> FALSE]
    /\ work = [k \in Conns |-> None] /\ reply = [k \in Conns |-> None]
    /\ pc = [c \in Calls |-> "new"] /\ on = [c \in Calls |-> None]
    /\ age = [c \in Calls |-> 0]
    /\ result = [c \in Calls |-> None] /\ heard = [c \in Calls |-> None]
    /\ said = [c \in Calls |-> {}] /\ fault = [c \in Calls |-> FALSE]

\* Mutant: the dial and the exchange have a timeout each.
LimitTwice == 2 * Timeout

(* NewBridgeScorer: one timeout for the whole of a call.                   *)
Limit == Timeout

-----------------------------------------------------------------------------
(* run of cmd/appsec-bridge: a socket file left behind is removed first.   *)
Remove ==
    /\ daemon = "down"
    /\ daemon' = "starting" /\ sock' = "none"
    /\ UNCHANGED <<stops, pool, calls, said, fault>>

\* Mutant: the file is removed when the socket is there already.
ListenRemoved ==
    /\ daemon = "starting"
    /\ daemon' = "up" /\ sock' = "none"
    /\ UNCHANGED <<stops, pool, calls, said, fault>>

Listen ==
    /\ daemon = "starting"
    /\ daemon' = "up" /\ sock' = "live"
    /\ UNCHANGED <<stops, pool, calls, said, fault>>

(* A signal closes the server and removes the socket, a crash leaves it.   *)
(* An answer on its way may arrive, or only a part of it.                  *)
End ==
    /\ daemon = "up" /\ stops < MaxStops
    /\ daemon' = "down" /\ sock' \in {"none", "stale"} /\ stops' = stops + 1
    /\ alive' = [k \in Conns |-> FALSE]
    /\ work' = [k \in Conns |-> None]
    /\ \E cut \in BOOLEAN :
         reply' = [k \in Conns |-> IF cut /\ reply[k] # None THEN "cut" ELSE reply[k]]
    /\ fault' = [c \in Calls |-> c \in Busy \/ fault[c]]
    /\ UNCHANGED <<link, calls, said>>

(* handleEvaluate of the daemon.  An error is JSON without a verdict.      *)
Score(k) ==
    /\ daemon = "up" /\ work[k] # None
    /\ \E v \in {"allow", "suspicious", "block", "error"} :
         /\ reply' = [reply EXCEPT ![k] = v]
         /\ said' = [said EXCEPT ![work[k]] = @ \cup {<<k, v>>}]
    /\ work' = [work EXCEPT ![k] = None]
    /\ UNCHANGED <<process, link, alive, calls, fault>>

-----------------------------------------------------------------------------
(* The connections                                                         *)
Close(k) == link' = [link EXCEPT ![k] = "closed"]

(* Evaluate returns v, and the sidecar answers nginx if it still waits.    *)
Return(c, v) ==
    /\ pc' = [pc EXCEPT ![c] = "done"]
    /\ on' = [on EXCEPT ![c] = None]
    /\ result' = [result EXCEPT ![c] = v]
    /\ heard' = IF heard[c] # None THEN heard
                ELSE [heard EXCEPT ![c] = IF v = "block" THEN "deny" ELSE "allow"]

Open(k) == link[k] \in {"busy", "idle"}

Begin(c) ==
    /\ pc[c] = "new"
    /\ pc' = [pc EXCEPT ![c] = "dial"]
    /\ fault' = [fault EXCEPT ![c] = daemon # "up" \/ \E k \in Conns : Open(k) /\ ~alive[k]]
    /\ UNCHANGED <<process, pool, on, age, result, heard, said>>

(* An idle connection is taken before a new one is dialled.                *)
Take(c, k) ==
    /\ pc[c] = "dial" /\ link[k] = "idle"
    /\ link' = [link EXCEPT ![k] = "busy"]
    /\ on' = [on EXCEPT ![c] = k]
    /\ pc' = [pc EXCEPT ![c] = "send"]
    /\ UNCHANGED <<process, alive, work, reply, age, result, heard, said, fault>>

Dial(c, k) ==
    /\ pc[c] = "dial" /\ sock = "live" /\ link[k] = "unused"
    /\ link' = [link EXCEPT ![k] = "busy"]
    /\ alive' = [alive EXCEPT ![k] = TRUE]
    /\ on' = [on EXCEPT ![c] = k]
    /\ pc' = [pc EXCEPT ![c] = "send"]
    /\ UNCHANGED <<process, work, reply, age, result, heard, said, fault>>

(* Bridge unavailable: fail open.                                          *)
DialFails(c) ==
    /\ pc[c] = "dial" /\ sock # "live"
    /\ Return(c, "unavailable")
    /\ UNCHANGED <<process, pool, age, said, fault>>

Send(c) ==
    /\ pc[c] = "send" /\ alive[on[c]]
    /\ work' = [work EXCEPT ![on[c]] = c]
    /\ pc' = [pc EXCEPT ![c] = "wait"]
    /\ UNCHANGED <<process, link, alive, reply, on, age, result, heard, said, fault>>

(* The daemon has closed the connection: a request of which nothing was    *)
(* written is tried on another one, any other is given up.                 *)
SendFails(c) ==
    /\ pc[c] = "send" /\ ~alive[on[c]]
    /\ Close(on[c])
    /\ \/ Return(c, "unavailable")
       \/ /\ pc' = [pc EXCEPT ![c] = "dial"]
          /\ on' = [on EXCEPT ![c] = None]
          /\ UNCHANGED <<result, heard>>
    /\ UNCHANGED <<process, alive, work, reply, age, said, fault>>

\* Mutant: a request that was cut off is sent again.
BrokenReplay(c) ==
    /\ pc[c] = "wait" /\ ~alive[on[c]] /\ reply[on[c]] \in {None, "cut"}
    /\ Close(on[c])
    /\ pc' = [pc EXCEPT ![c] = "dial"]
    /\ on' = [on EXCEPT ![c] = None]
    /\ UNCHANGED <<process, alive, work, reply, age, result, heard, said, fault>>

(* A POST is not repeated once it has been sent.  Part of an answer is an  *)
(* error of the decoder, upon which the sidecar allows the request.        *)
Broken(c) ==
    /\ pc[c] = "wait" /\ ~alive[on[c]] /\ reply[on[c]] \in {None, "cut"}
    /\ Close(on[c])
    /\ Return(c, IF reply[on[c]] = None THEN "unavailable" ELSE "undecodable")
    /\ UNCHANGED <<process, alive, work, reply, age, said, fault>>

(* The status of the answer is not looked at.  A connection whose answer   *)
(* was read to its end goes back into the pool.                            *)
Receive(c) ==
    /\ pc[c] = "wait" /\ reply[on[c]] \notin {None, "cut"}
    /\ Return(c, reply[on[c]])
    /\ link' = [link EXCEPT ![on[c]] = "idle"] \/ Close(on[c])
    /\ reply' = [reply EXCEPT ![on[c]] = None]
    /\ UNCHANGED <<process, alive, work, age, said, fault>>

(* The reader of an idle connection finds that it was closed.              *)
Notice(k) ==
    /\ link[k] = "idle" /\ ~alive[k]
    /\ Close(k)
    /\ UNCHANGED <<process, alive, work, reply, calls, said, fault>>

\* Mutant: the connection goes back into the pool.
TimeoutReuse(c) ==
    /\ c \in Busy /\ age[c] = Limit
    /\ IF on[c] = None THEN UNCHANGED link ELSE link' = [link EXCEPT ![on[c]] = "idle"]
    /\ Return(c, "unavailable")
    /\ UNCHANGED <<process, alive, work, reply, age, said, fault>>

(* The client's timeout closes the connection; the daemon goes on.         *)
TimeoutEvaluate(c) ==
    /\ c \in Busy /\ age[c] = Limit
    /\ IF on[c] = None THEN UNCHANGED link ELSE Close(on[c])
    /\ Return(c, "unavailable")
    /\ UNCHANGED <<process, alive, work, reply, age, said, fault>>

-----------------------------------------------------------------------------
(* nginx gives up and denies the request (waffynx_fail_open off).          *)
GiveUp(c) ==
    /\ c \in Busy /\ age[c] = Patience /\ heard[c] = None
    /\ heard' = [heard EXCEPT ![c] = "gone"]
    /\ UNCHANGED <<process, pool, pc, on, age, result, said, fault>>

Tick ==
    /\ Busy # {}
    /\ \A c \in Busy : age[c] < Limit /\ (heard[c] = None => age[c] < Patience)
    /\ age' = [c \in Calls |-> IF c \in Busy THEN age[c] + 1 ELSE age[c]]
    /\ fault' = [c \in Calls |-> fault[c] \/ (c \in Busy /\ age'[c] = Timeout)]
    /\ UNCHANGED <<process, pool, pc, on, result, heard, said>>

Next ==
    \/ Remove \/ Listen \/ End \/ Tick
    \/ \E k \in Conns : Score(k) \/ Notice(k)
    \/ \E c \in Calls :
         \/ Begin(c) \/ DialFails(c) \/ Send(c) \/ SendFails(c) \/ Broken(c)
         \/ Receive(c) \/ TimeoutEvaluate(c) \/ GiveUp(c)
         \/ \E k \in Conns : Take(c, k) \/ Dial(c, k)

Spec == Init /\ [][Next]_vars

-----------------------------------------------------------------------------
Verdicts == {"allow", "suspicious", "block", "error"}

TypeOK ==
    /\ daemon \in {"down", "starting", "up"} /\ sock \in {"none", "stale", "live"}
    /\ link \in [Conns -> {"unused", "busy", "idle", "closed"}]
    /\ pc \in [Calls -> {"new", "dial", "send", "wait", "done"}]
    /\ result \in [Calls -> Verdicts \cup {None, "unavailable", "undecodable"}]
    /\ heard \in [Calls -> {None, "allow", "deny", "gone"}]
    /\ \A c, d \in Calls : c # d /\ on[c] # None => on[c] # on[d]
    /\ \A c \in Calls : on[c] # None => link[on[c]] = "busy"

(* Evaluate: a verdict that is returned for a request is the daemon's on   *)
(* that request, whatever timed out on the same pool before.               *)
OwnVerdict ==
    \A c \in Calls : result[c] \in Verdicts => \E k \in Conns : <<k, result[c]>> \in said[c]

(* Evaluate: no request goes by without a verdict unless the daemon was    *)
(* not there all the time, or had ended while the pool had connections to  *)
(* it, or took all the time there is.                                      *)
FailOpenJustified ==
    \A c \in Calls : result[c] \in {"unavailable", "undecodable"} => fault[c]

(* Evaluate: no request is scored twice, for the daemon counts requests    *)
(* by address and would find the rate of one that is repeated too high.    *)
ScoredOnce == \A c \in Calls : Cardinality(said[c]) <= 1

(* "Bridge unavailable -> fail open (don't block traffic)": when Evaluate  *)
(* fails open, nginx still waits for the answer.                           *)
FailOpenHeard ==
    \A c \in Calls : result[c] \in {"unavailable", "undecodable"} => heard[c] = "allow"

(* BridgeScorer: a request is judged by the daemon's verdict on it or      *)
(* fails open for a reason, once, and in time for nginx where the bridge   *)
(* is the one to give up first.                                            *)
VerdictsSound ==
    /\ OwnVerdict
    /\ FailOpenJustified
    /\ ScoredOnce
    /\ Timeout < Patience => FailOpenHeard
=============================================================================
