------------------------------- MODULE Tracker -------------------------------
(***************************************************************************)
(* cmd/waf-agent: eventTracker, which counts the events per address in a   *)
(* sliding window, and what the agent does with it: the goroutine that     *)
(* reads the event stream records and blocks, a ticker cleans up, and the  *)
(* agent's own API blocks and unblocks.  Events are dated by when the      *)
(* agent reads them.                                                       *)
(*                                                                         *)
(* A slice of timestamps is the set of the receipts they stand for: their  *)
(* order does not matter, but two at the same time count twice.            *)
(***************************************************************************)
EXTENDS Integers, FiniteSets

CONSTANTS IPs,
          Nobody,     \* no address
          Threshold,  \* event_broker.block_threshold
          Half,       \* half of event_broker.window_seconds: cleanup period
          MaxTime,    \* bound on the clock
          MaxEvents   \* bound on the number of events

ASSUME TrackerAssumption ==
    /\ Nobody \notin IPs
    /\ Threshold \in Int
    /\ Half \in Nat \ {0}
    /\ MaxTime \in Nat
    /\ MaxEvents \in Nat

Window == 2 * Half

VARIABLES
    now,      \* the clock
    due,      \* when the cleanup ticker fires next
    counts,   \* counts[ip]: the receipts kept for ip; {} when ip is no key
    heard,    \* every receipt since the agent was started (history)
    ids,      \* how many receipts there have been, ever
    pending,  \* the address record() just found over the threshold
    blocked   \* the addresses the host firewall drops

vars == <<now, due, counts, heard, ids, pending, blocked>>

Receipts == [ip: IPs, at: Nat, id: Nat]

TypeOK ==
    /\ now \in Nat
    /\ due \in Nat
    /\ counts \in [IPs -> SUBSET Receipts]
    /\ heard \in SUBSET Receipts
    /\ ids \in Nat
    /\ pending \in IPs \cup {Nobody}
    /\ blocked \in SUBSET IPs

(* newEventTracker and the ticker of runAgent.                             *)
Init ==
    /\ now = 0
    /\ due = Half
    /\ counts = [ip \in IPs |-> {}]
    /\ heard = {}
    /\ ids = 0
    /\ pending = Nobody
    /\ blocked = {}

(* ts.After(cutoff)                                                        *)
Live(receipts) == {r \in receipts : r.at > now - Window}

-----------------------------------------------------------------------------
\* Mutant: what is out of the window is still counted.
RecordStale(ip) ==
    /\ pending = Nobody
    /\ ids < MaxEvents
    /\ LET r     == [ip |-> ip, at |-> now, id |-> ids]
           valid == counts[ip] \cup {r}
       IN  /\ counts' = [counts EXCEPT ![ip] = valid]
           /\ heard' = heard \cup {r}
           /\ pending' = IF Cardinality(valid) >= Threshold THEN ip ELSE Nobody
    /\ ids' = ids + 1
    /\ UNCHANGED <<now, due, blocked>>

(* readSSEStream, for an event with an address: record(), under mu.        *)
Record(ip) ==
    /\ pending = Nobody
    /\ ids < MaxEvents
    /\ LET r     == [ip |-> ip, at |-> now, id |-> ids]
           valid == Live(counts[ip]) \cup {r}
       IN  /\ counts' = [counts EXCEPT ![ip] = valid]
           /\ heard' = heard \cup {r}
           /\ pending' = IF Cardinality(valid) >= Threshold THEN ip ELSE Nobody
    /\ ids' = ids + 1
    /\ UNCHANGED <<now, due, blocked>>

\* Mutant: the answer of record() is not consulted.
AutoBlockAlways ==
    /\ blocked' = blocked \cup {pending}
    /\ pending' = Nobody
    /\ UNCHANGED <<now, due, counts, heard, ids>>

(* ... and BlockIP, outside of it; an error is logged only.                *)
AutoBlock ==
    /\ pending # Nobody
    /\ blocked' = blocked \cup {pending} \/ UNCHANGED blocked
    /\ pending' = Nobody
    /\ UNCHANGED <<now, due, counts, heard, ids>>

\* Mutant: an address is forgotten as soon as one of its events is too old.
CleanupEager ==
    /\ now = due
    /\ due' = due + Half
    /\ counts' = [ip \in IPs |-> IF Live(counts[ip]) = counts[ip] THEN counts[ip] ELSE {}]
    /\ UNCHANGED <<now, heard, ids, pending, blocked>>

\* Mutant: only addresses without any event are removed.
CleanupNothing ==
    /\ now = due
    /\ due' = due + Half
    /\ UNCHANGED <<now, counts, heard, ids, pending, blocked>>

(* The ticker's goroutine calls cleanup().                                 *)
Cleanup ==
    /\ now = due
    /\ due' = due + Half
    /\ counts' = [ip \in IPs |-> Live(counts[ip])]
    /\ UNCHANGED <<now, heard, ids, pending, blocked>>

(* handleBlockIP and handleUnblockIP, when the firewall command succeeds.  *)
Block(ip) ==
    /\ blocked' = blocked \cup {ip}
    /\ UNCHANGED <<now, due, counts, heard, ids, pending>>

Unblock(ip) ==
    /\ blocked' = blocked \ {ip}
    /\ UNCHANGED <<now, due, counts, heard, ids, pending>>

(* The agent is restarted: the counts are gone, the kernel's rules are not. *)
Restart ==
    /\ due' = now + Half
    /\ counts' = [ip \in IPs |-> {}]
    /\ heard' = {}
    /\ pending' = Nobody
    /\ UNCHANGED <<now, ids, blocked>>

(* Time passes; the ticker is not late by a whole unit.                    *)
Tick ==
    /\ now < due
    /\ now < MaxTime
    /\ now' = now + 1
    /\ UNCHANGED <<due, counts, heard, ids, pending, blocked>>

Next ==
    \/ \E ip \in IPs : Record(ip) \/ Block(ip) \/ Unblock(ip)
    \/ AutoBlock
    \/ Cleanup
    \/ Restart
    \/ Tick

Spec == Init /\ [][Next]_vars

-----------------------------------------------------------------------------
Recent(receipts, ip, t) == {r \in receipts : r.ip = ip /\ r.at > t - Window}

(* Filtering in record() and in cleanup(), at whatever times they happen,  *)
(* never costs an event that still counts, and no address gets another's:  *)
(* what the tracker holds of the window is what was received in it.        *)
TrackerExact == \A ip \in IPs : Live(counts[ip]) = Recent(heard, ip, now)

(* An address is up for blocking exactly when the events received about it *)
(* in the last window_seconds, this one included, reach the threshold.     *)
WindowExact ==
    [][\A r \in heard' \ heard :
          (pending' = r.ip) <=> Cardinality(Recent(heard', r.ip, now)) >= Threshold]_vars

(* Addresses that went quiet are forgotten: nothing older than one and a   *)
(* half windows is kept, so the map does not grow with every address that  *)
(* ever was seen.                                                          *)
ForgetsQuiet ==
    \A ip \in IPs : \A r \in counts[ip] : r.at > now - (Window + Half)
=============================================================================
