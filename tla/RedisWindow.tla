---------------------------- MODULE RedisWindow ----------------------------
(***************************************************************************)
(* ratelimit.RedisLimiter: the sidecars of a fleet share one counter per   *)
(* client and window in Redis.  Allow reads the clock, increments the      *)
(* counter named after the window, and gives a new counter its time to     *)
(* live; a sidecar can be interrupted after each of these, and the answer  *)
(* of Redis is the only thing it waits for.                                *)
(*                                                                         *)
(* One client; counters of different clients have nothing in common.       *)
(* External: Redis and the network; the clocks of the fleet agree.  No     *)
(* bound is assumed on how long a command takes: Allow is called with      *)
(* context.Background(), and the client waits seconds for an answer and    *)
(* tries again without asking whether its command has been executed.       *)
(***************************************************************************)
EXTENDS Integers

CONSTANTS Nodes,     \* goroutines of the sidecars
          Limit,
          Window,    \* ticks in a window
          Grace,     \* the second that Allow adds to the time to live
          MaxTime,   \* bound on the clock
          MaxCount   \* bound on the counter, and on it and the requests without
                     \* an answer, at which commands still come

RedisConstants ==
    /\ Limit \in Nat /\ Window \in Nat \ {0} /\ Grace \in Nat
    /\ MaxTime \in Nat /\ MaxCount \in Nat

VARIABLES
    now,
    backend,  \* backend[n]: what Init chose
    pc,       \* pc[n]: where Allow is
    read,     \* read[n]: the time it has read; 0 when it is not in Allow
    count,    \* count[b]: the counter of window b; 0 when there is no key
    expires,  \* expires[b]: when Redis drops it; Never
    passed,   \* passed[b]: requests let through on a clock reading in window b
    unanswered, \* unanswered[b]: those of them for which Redis gave no answer
    lost,     \* lost[b]: increments whose answer was lost
    late      \* late[b]: increments that came when b and the grace were over
              \* (the last four are history)

historyVars == <<passed, unanswered, lost, late>>
vars == <<now, backend, pc, read, count, expires, historyVars>>

Times == 0 .. MaxTime
Windows == 0 .. MaxTime \div Window
Never == -1

TypeOK ==
    /\ now \in Times
    /\ backend \in [Nodes -> {"none", "redis", "memory"}]
    /\ pc \in [Nodes -> {"idle", "incr", "expire"}]
    /\ read \in [Nodes -> Times]
    /\ count \in [Windows -> Nat]
    /\ expires \in [Windows -> Nat \cup {Never}]
    /\ passed \in [Windows -> Nat] /\ unanswered \in [Windows -> Nat]
    /\ lost \in [Windows -> Nat] /\ late \in [Windows -> Nat]
    /\ \A n \in Nodes : pc[n] # "idle" => backend[n] = "redis"

Init ==
    /\ now = 0
    /\ backend = [n \in Nodes |-> "none"]
    /\ pc = [n \in Nodes |-> "idle"]
    /\ read = [n \in Nodes |-> 0]
    /\ count = [b \in Windows |-> 0]
    /\ expires = [b \in Windows |-> Never]
    /\ passed = [b \in Windows |-> 0]
    /\ unanswered = [b \in Windows |-> 0]
    /\ lost = [b \in Windows |-> 0]
    /\ late = [b \in Windows |-> 0]

-----------------------------------------------------------------------------
(* RateLimitPlugin.Init, parseRedisConfig and NewRedisLimiter: without     *)
(* Redis, or if the ping fails, the node limits on its own (TokenBucket).  *)
Start(n) ==
    /\ backend[n] = "none"
    /\ \E b \in {"redis", "memory"} : backend' = [backend EXCEPT ![n] = b]
    /\ UNCHANGED <<now, pc, read, count, expires, historyVars>>

WindowOf(t) == t \div Window

(* Allow reads the clock.                                                  *)
ReadClock(n) ==
    /\ backend[n] = "redis"
    /\ pc[n] = "idle"
    /\ count[WindowOf(now)] + unanswered[WindowOf(now)] < MaxCount
    /\ pc' = [pc EXCEPT ![n] = "incr"]
    /\ read' = [read EXCEPT ![n] = now]
    /\ UNCHANGED <<now, backend, count, expires, historyVars>>

Over(b) == (b + 1) * Window + Grace

(* Allow returns.                                                          *)
Return(n) ==
    /\ pc' = [pc EXCEPT ![n] = "idle"]
    /\ read' = [read EXCEPT ![n] = 0]

(* Redis executes an INCR.                                                 *)
Count(b) ==
    /\ count' = [count EXCEPT ![b] = @ + 1]
    /\ late' = IF now >= Over(b) THEN [late EXCEPT ![b] = @ + 1] ELSE late

\* Mutant: the last request of the limit is refused.
VerdictStrict(b, c) == passed' = IF c < Limit THEN [passed EXCEPT ![b] = @ + 1] ELSE passed

(* int(count) <= limit                                                     *)
Verdict(b, c) == passed' = IF c <= Limit THEN [passed EXCEPT ![b] = @ + 1] ELSE passed

(* INCR.  The verdict is settled by the counter it returns; a first        *)
(* request has yet to set the time to live.                                *)
Incr(n) ==
    /\ pc[n] = "incr"
    /\ LET b == WindowOf(read[n])
       IN  /\ Count(b)
           /\ Verdict(b, count[b] + 1)
           /\ IF count[b] = 0
              THEN pc' = [pc EXCEPT ![n] = "expire"] /\ UNCHANGED read
              ELSE Return(n)
    /\ UNCHANGED <<now, backend, expires, unanswered, lost>>

(* INCR is executed, but its answer does not come, and go-redis sends the  *)
(* command again.                                                          *)
IncrLost(n) ==
    /\ pc[n] = "incr"
    /\ LET b == WindowOf(read[n])
       IN  /\ count[b] < MaxCount
           /\ Count(b)
           /\ lost' = [lost EXCEPT ![b] = @ + 1]
    /\ UNCHANGED <<now, backend, pc, read, expires, passed, unanswered>>

(* INCR fails for good: RateLimitPlugin.Execute logs the error and lets    *)
(* the request through.                                                    *)
IncrFails(n) ==
    /\ pc[n] = "incr"
    /\ Return(n)
    /\ LET b == WindowOf(read[n])
       IN  /\ unanswered' = [unanswered EXCEPT ![b] = @ + 1]
           /\ passed' = [passed EXCEPT ![b] = @ + 1]
    /\ UNCHANGED <<now, backend, count, expires, lost, late>>

(* EXPIRE does nothing for a key that is not there.                        *)
TimeToLive(b, ttl) ==
    expires' = IF count[b] > 0 THEN [expires EXCEPT ![b] = now + ttl] ELSE expires

\* Mutant: the counter lives exactly as long as a window.
ExpireTight(n) ==
    /\ pc[n] = "expire"
    /\ Return(n)
    /\ TimeToLive(WindowOf(read[n]), Window)
    /\ UNCHANGED <<now, backend, count, historyVars>>

(* EXPIRE, whose failure goes unnoticed; it is sent again, too, when its   *)
(* answer is lost.                                                         *)
Expire(n) ==
    /\ pc[n] = "expire"
    /\ \/ /\ TimeToLive(WindowOf(read[n]), Window + Grace)
          /\ Return(n) \/ UNCHANGED <<pc, read>>
       \/ Return(n) /\ UNCHANGED expires
    /\ UNCHANGED <<now, backend, count, historyVars>>

(* A sidecar dies, between INCR and EXPIRE at worst, and is started again. *)
Crash(n) ==
    /\ backend[n] # "none"
    /\ backend' = [backend EXCEPT ![n] = "none"]
    /\ Return(n)
    /\ UNCHANGED <<now, count, expires, historyVars>>

(* Redis drops a key whose time has come.                                  *)
Drop(b) ==
    /\ expires[b] # Never
    /\ now >= expires[b]
    /\ count' = [count EXCEPT ![b] = 0]
    /\ expires' = [expires EXCEPT ![b] = Never]
    /\ UNCHANGED <<now, backend, pc, read, historyVars>>

Tick ==
    /\ now < MaxTime
    /\ now' = now + 1
    /\ UNCHANGED <<backend, pc, read, count, expires, historyVars>>

Allow(n) == ReadClock(n) \/ Incr(n) \/ IncrLost(n) \/ IncrFails(n) \/ Expire(n)

Next ==
    \/ \E n \in Nodes : Start(n) \/ Allow(n) \/ Crash(n)
    \/ \E b \in Windows : Drop(b)
    \/ Tick

Spec == Init /\ [][Next]_vars

-----------------------------------------------------------------------------
(* In one window of the fleet no more than the limit pass, those apart     *)
(* that went through without an answer of Redis and those whose increment  *)
(* came when the counter may have expired: the second that Expire adds     *)
(* keeps it until then, wherever a sidecar dies.  And a request is refused *)
(* only when the limit is used up: by requests that passed on an answer,   *)
(* or by increments of which nobody heard.                                 *)
WindowBounded ==
    \A b \in Windows :
        /\ passed[b] <= Limit + unanswered[b] + late[b]
        /\ count[b] >= Limit => passed[b] - unanswered[b] + lost[b] >= Limit
=============================================================================
