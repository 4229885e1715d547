------------------------------ MODULE BanTable ------------------------------
(***************************************************************************)
(* handleFirewallBlock, handleFirewallUnblock and handleFirewallRules of   *)
(* the API server: a table of bans in memory, changed under firewallMu,    *)
(* and the rules in the kernel, changed after the lock is released and     *)
(* whether or not that succeeds.  The agent blocks and unblocks on its own *)
(* account.                                                                *)
(*                                                                         *)
(* Requests that do not validate change nothing and are left out.          *)
(***************************************************************************)
EXTENDS HostFirewall

CONSTANTS Calls,    \* requests to the API server
          TTL,      \* lifetime of a ban
          MaxTime   \* bound on the clock

(* Besides the calls: nobody, and the agent or a start, by what they did.  *)
Nobody == "nobody"
Others == {"blocked", "freed"}

BanConstants ==
    /\ TTL \in Nat \ {0} /\ MaxTime \in Nat
    /\ Calls \cap (Others \cup {Nobody}) = {}

VARIABLES
    now,
    bannedIPs,  \* bannedIPs[ip]: when the ban expires; None
    call,       \* call[c]: what c asks for and how far its handler is
    audited,    \* calls on the audit log
    reported,   \* reported[ip]: who was told last that a command for ip succeeded (history)
    changed     \* changed[ip]: who changed the table for ip last (history)

vars == <<fwVars, now, bannedIPs, call, audited, reported, changed>>

None == -1

TypeOK ==
    /\ FwTypeOK
    /\ now \in 0 .. MaxTime
    /\ bannedIPs \in [IPs -> Nat \cup {None}]
    /\ call \in [Calls -> [ip: IPs \cup {Any}, ban: BOOLEAN, failed: BOOLEAN,
                           pc: {"new", "table", "firewall", "answered", "lost"}]]
    /\ audited \in SUBSET Calls
    /\ reported \in [IPs -> Calls \cup Others \cup {Nobody}]
    /\ changed \in [IPs -> Calls \cup {Nobody}]

Init ==
    /\ FwInit
    /\ now = 0
    /\ bannedIPs = [ip \in IPs |-> None]
    /\ call = [c \in Calls |-> [ip |-> Any, ban |-> TRUE, failed |-> FALSE, pc |-> "new"]]
    /\ audited = {}
    /\ reported = [ip \in IPs |-> Nobody]
    /\ changed = [ip \in IPs |-> Nobody]

-----------------------------------------------------------------------------
(* The table is changed under the lock: bannedIPs[ip] = ban ...            *)
BeginBan(c, ip) ==
    /\ Running("api")
    /\ call[c].pc = "new"
    /\ bannedIPs' = [bannedIPs EXCEPT ![ip] = now + TTL]
    /\ call' = [call EXCEPT ![c] = [@ EXCEPT !.ip = ip, !.pc = "table"]]
    /\ changed' = [changed EXCEPT ![ip] = c]
    /\ UNCHANGED <<fwVars, now, audited, reported>>

(* ... or delete(bannedIPs, ip).                                           *)
BeginUnban(c, ip) ==
    /\ Running("api")
    /\ call[c].pc = "new"
    /\ bannedIPs' = [bannedIPs EXCEPT ![ip] = None]
    /\ call' = [call EXCEPT ![c] = [@ EXCEPT !.ip = ip, !.ban = FALSE, !.pc = "table"]]
    /\ changed' = [changed EXCEPT ![ip] = c]
    /\ UNCHANGED <<fwVars, now, audited, reported>>

Executed(c, failed) ==
    /\ call' = [call EXCEPT ![c].pc = "firewall", ![c].failed = failed]
    /\ reported' = IF failed THEN reported ELSE [reported EXCEPT ![call[c].ip] = c]

\* Mutant: an address that another request has put in the table is skipped.
BanCommandOnce(c) ==
    /\ call[c].pc = "table" /\ call[c].ban
    /\ IF \E d \in Calls \ {c} : call[d].ip = call[c].ip /\ call[d].ban
       THEN CommandFails ELSE BlockIP(call[c].ip)
    /\ Executed(c, FALSE)
    /\ UNCHANGED <<now, bannedIPs, audited, changed>>

(* The command to the kernel; its error is dropped.                        *)
BanCommand(c) ==
    /\ call[c].pc = "table" /\ call[c].ban
    /\ \/ BlockIP(call[c].ip) /\ Executed(c, FALSE)
       \/ CommandFails /\ Executed(c, TRUE)
    /\ UNCHANGED <<now, bannedIPs, audited, changed>>

UnbanCommand(c) ==
    /\ call[c].pc = "table" /\ ~call[c].ban
    /\ \/ UnblockIP(call[c].ip) /\ Executed(c, FALSE)
       \/ CommandFails /\ Executed(c, TRUE)
    /\ UNCHANGED <<now, bannedIPs, audited, changed>>

(* The audit record, the event and the answer.                             *)
Answer(c) ==
    /\ call[c].pc = "firewall"
    /\ call' = [call EXCEPT ![c].pc = "answered"]
    /\ audited' = audited \cup {c}
    /\ UNCHANGED <<fwVars, now, bannedIPs, reported, changed>>

(* The API server ends, and the table with it.                             *)
ApiStop ==
    /\ Stop("api")
    /\ bannedIPs' = [ip \in IPs |-> None]
    /\ call' = [c \in Calls |-> IF call[c].pc \in {"table", "firewall"}
                                THEN [call[c] EXCEPT !.pc = "lost"] ELSE call[c]]
    /\ changed' = [ip \in IPs |-> Nobody]
    /\ UNCHANGED <<now, audited, reported>>

(* The agent's handleBlockIP and handleUnblockIP and its automatic block.  *)
AgentCommand(ip) ==
    /\ Running("agent")
    /\ \/ BlockIP(ip) /\ reported' = [reported EXCEPT ![ip] = "blocked"]
       \/ UnblockIP(ip) /\ reported' = [reported EXCEPT ![ip] = "freed"]
    /\ UNCHANGED <<now, bannedIPs, call, audited, changed>>

(* A start or the end of the agent: addresses of the list get blocked.     *)
Manage ==
    /\ Stop("agent") \/ \E m \in Managers : Start(m)
    /\ reported' = [ip \in IPs |-> IF ip \in want' \ want THEN "blocked" ELSE reported[ip]]
    /\ UNCHANGED <<now, bannedIPs, call, audited, changed>>

Tick ==
    /\ now < MaxTime
    /\ now' = now + 1
    /\ UNCHANGED <<fwVars, bannedIPs, call, audited, reported, changed>>

Handler(c) ==
    \/ \E ip \in IPs : BeginBan(c, ip) \/ BeginUnban(c, ip)
    \/ BanCommand(c) \/ UnbanCommand(c)
    \/ Answer(c)

Next ==
    \/ \E c \in Calls : Handler(c)
    \/ \E ip \in IPs : AgentCommand(ip)
    \/ Manage
    \/ ApiStop
    \/ Tick

Spec == Init /\ [][Next]_vars

-----------------------------------------------------------------------------
(* handleFirewallRules: the bans that have not expired.                    *)
Listed == {ip \in IPs : bannedIPs[ip] # None /\ now <= bannedIPs[ip]}

(* What becomes of a packet from ip to a port: the first rule that matches *)
(* it decides, else the policy.                                            *)
Matching(ip, p) == {i \in DOMAIN chain : chain[i].src \in {ip, Any} /\ chain[i].port \in {p, Any}}

Verdict(ip, p) ==
    IF Matching(ip, p) = {} THEN policy
    ELSE chain[CHOOSE i \in Matching(ip, p) : \A j \in Matching(ip, p) : i <= j].action

(* The addresses that reach no port but, on ufw, a managed one, for which  *)
(* an earlier rule accepts them.                                           *)
Dropped == {ip \in IPs : Verdict(ip, Any) = "drop"}

UnderWay == {c \in Calls : call[c].pc \in {"table", "firewall"}}

(* The addresses of which the last to succeed was told that it is free.    *)
Lifted == {ip \in IPs : reported[ip] = "freed" \/ (reported[ip] \in Calls /\ ~call[reported[ip]].ban)}

(* An address whose ban was answered is dropped, unless the command failed *)
(* or the last to succeed since then, the agent included, lifted it: no    *)
(* rule before it, no request for another address, no repetition and no    *)
(* restart undoes it.                                                      *)
AnsweredBanHolds ==
    \A c \in Calls :
        (call[c].pc = "answered" /\ call[c].ban /\ ~call[c].failed) =>
            call[c].ip \in Dropped \cup Lifted

(* Where the last call to change the table for an address was the last to  *)
(* reach the kernel too, both say the same (on nftables, where a rule may  *)
(* be there twice, only of a ban).  Two calls can pass each other between  *)
(* the table and the kernel: then the last is not the last of both.        *)
TableAgrees ==
    \A ip \in IPs : (changed[ip] = reported[ip] /\ changed[ip] # Nobody) =>
        /\ bannedIPs[ip] # None => BlockRule(ip) \in RulesIn(chain)
        /\ Backend = "ufw" /\ bannedIPs[ip] = None => BlockRule(ip) \notin RulesIn(chain)

(* specs/002-enterprise-dashboard: a ban is for a TTL in seconds.  When no *)
(* request is under way, an address whose ban ran out is not dropped.      *)
ExpiredIsLifted ==
    UnderWay = {} =>
        \A ip \in IPs : (bannedIPs[ip] # None /\ ip \notin Listed) => ip \notin Dropped

(* On nftables the default of the input is a rule, which is added first:   *)
(* one that accepts leaves nothing for the bans to drop.                   *)
AcceptedFirst == Backend = "nftables" /\ DefaultIn = "accept"

(* The bans: what is blocked is listed and stays blocked, table and kernel *)
(* say the same where the same call came last to both, and on ufw one      *)
(* unblock lifts a ban (on nftables it takes as many as there were).       *)
BansHold ==
    /\ BlockedIsListed
    /\ AcceptedFirst \/ AnsweredBanHolds
    /\ TableAgrees
    /\ Backend = "ufw" => UnblockLifts
=============================================================================
