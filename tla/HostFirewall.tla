---------------------------- MODULE HostFirewall ----------------------------
(***************************************************************************)
(* internal/firewall: the managers of the API server and of the agent,     *)
(* which set up and change one rule set in the kernel by running nft or    *)
(* ufw.  Each command is a process of its own and may fail; commands of    *)
(* the two managers interleave.                                            *)
(*                                                                         *)
(* External: the commands.  nft appends a rule to the chain and deletes    *)
(* one rule that matches; ufw has a default policy beside the rules and    *)
(* ignores a rule that it already has.  A packet meets the first rule that *)
(* matches it.                                                             *)
(***************************************************************************)
EXTENDS Sequences, Integers, FiniteSets

CONSTANTS Backend,       \* "nftables" or "ufw"
          IPs,
          ManagedPorts,
          BlockList,     \* addresses blocked from the start
          DefaultIn,     \* "accept" or "drop"
          MaxRules       \* bound on the rules in the chain

Any == "any"

(* Words of the tools' output that are looked for, which no address is.    *)
Words == {Any, "accept", "drop", "saddr", "dport"}

FirewallConstants ==
    /\ Backend \in {"nftables", "ufw"}
    /\ IPs \cap Words = {} /\ Any \notin ManagedPorts
    /\ BlockList \subseteq IPs
    /\ DefaultIn \in {"accept", "drop"}
    /\ MaxRules \in Nat

Managers == {"api", "agent"}

VARIABLES
    stage,   \* stage[m]: how far Manager.Start is
    todo,    \* todo[m]: what the loop that Start is in has still to add
    chain,   \* the rules in the kernel, in the order in which they are tried
    policy,  \* what happens to a packet that no rule matches
    want     \* addresses whose latest successful command was a block (history)

fwVars == <<stage, todo, chain, policy, want>>

Rule == [src: IPs \cup {Any}, port: ManagedPorts \cup {Any}, action: {"accept", "drop"}]

FwTypeOK ==
    /\ stage \in [Managers -> {"off", "policyIn", "policyOut", "ports", "blocks", "done", "failed"}]
    /\ todo \in [Managers -> SUBSET (IPs \cup ManagedPorts)]
    /\ chain \in Seq(Rule)
    /\ policy \in {"accept", "drop"}
    /\ want \in SUBSET IPs

FwInit ==
    /\ stage = [m \in Managers |-> "off"]
    /\ todo = [m \in Managers |-> {}]
    /\ chain = <<>>
    /\ policy = "accept"
    /\ want = {}

-----------------------------------------------------------------------------
(* The rule that BlockIP and UnblockIP hand to the backend.                *)
BlockRule(ip) == [src |-> ip, port |-> Any, action |-> "drop"]

PortRule(p) == [src |-> Any, port |-> p, action |-> "accept"]

RulesIn(c) == {c[i] : i \in DOMAIN c}

(* AddRule: nft appends, ufw skips a rule that it has.                     *)
NFTAddRule(r) == chain' = Append(chain, r)

UFWAddRule(r) == chain' = IF r \in RulesIn(chain) THEN chain ELSE Append(chain, r)

AddRule(r) ==
    /\ Len(chain) < MaxRules
    /\ IF Backend = "nftables" THEN NFTAddRule(r) ELSE UFWAddRule(r)

(* The first rule that is the given one is deleted; if there is none, the  *)
(* command fails.                                                          *)
DeleteFirst(r) ==
    \E i \in DOMAIN chain :
        /\ chain[i] = r
        /\ \A j \in 1 .. i - 1 : chain[j] # r
        /\ chain' = SubSeq(chain, 1, i - 1) \o SubSeq(chain, i + 1, Len(chain))

(* RemoveRule: nft is told the address and the action only.                *)
NFTRemoveRule(r) == DeleteFirst([r EXCEPT !.port = Any])

\* Mutant: a deletion that failed is reported as done.
UFWRemoveRuleAllow(r) == DeleteFirst(r) \/ UNCHANGED chain

(* RemoveRule: ufw is told the rule itself.                                *)
UFWRemoveRule(r) == DeleteFirst(r)

RemoveRule(r) == IF Backend = "nftables" THEN NFTRemoveRule(r) ELSE UFWRemoveRule(r)

(* SetDefaultPolicy("input", DefaultIn): nft has it as a rule.             *)
NFTSetDefaultPolicy ==
    AddRule([src |-> Any, port |-> Any, action |-> DefaultIn]) /\ UNCHANGED policy

UFWSetDefaultPolicy == policy' = DefaultIn /\ UNCHANGED chain

SetDefaultPolicy ==
    IF Backend = "nftables" THEN NFTSetDefaultPolicy ELSE UFWSetDefaultPolicy

-----------------------------------------------------------------------------
Enter(m, s, rest) == stage' = [stage EXCEPT ![m] = s] /\ todo' = [todo EXCEPT ![m] = rest]

(* Manager.Start: what the first three commands set up is required ...     *)
Initialize(m) ==
    /\ stage[m] = "off"
    /\ \E s \in {"policyIn", "failed"} : Enter(m, s, {})
    /\ UNCHANGED <<chain, policy, want>>

StartPolicyIn(m) ==
    /\ stage[m] = "policyIn"
    /\ \/ SetDefaultPolicy /\ Enter(m, "policyOut", {})
       \/ UNCHANGED <<chain, policy>> /\ Enter(m, "failed", {})
    /\ UNCHANGED want

StartPolicyOut(m) ==
    /\ stage[m] = "policyOut"
    /\ \/ Enter(m, "ports", ManagedPorts)
       \/ Enter(m, "failed", {})
    /\ UNCHANGED <<chain, policy, want>>

(* ... while a managed port or an address that cannot be added is skipped. *)
StartPort(m, p) ==
    /\ stage[m] = "ports"
    /\ p \in todo[m]
    /\ Enter(m, "ports", todo[m] \ {p})
    /\ AddRule(PortRule(p)) \/ UNCHANGED chain
    /\ UNCHANGED <<policy, want>>

StartBlocks(m) ==
    /\ stage[m] = "ports"
    /\ todo[m] = {}
    /\ Enter(m, "blocks", BlockList)
    /\ UNCHANGED <<chain, policy, want>>

StartBlock(m, ip) ==
    /\ stage[m] = "blocks"
    /\ ip \in todo[m]
    /\ Enter(m, "blocks", todo[m] \ {ip})
    /\ \/ AddRule(BlockRule(ip)) /\ want' = want \cup {ip}
       \/ UNCHANGED <<chain, want>>
    /\ UNCHANGED policy

StartDone(m) ==
    /\ stage[m] = "blocks"
    /\ todo[m] = {}
    /\ Enter(m, "done", {})
    /\ UNCHANGED <<chain, policy, want>>

Start(m) ==
    \/ Initialize(m) \/ StartPolicyIn(m) \/ StartPolicyOut(m) \/ StartBlocks(m) \/ StartDone(m)
    \/ \E p \in ManagedPorts : StartPort(m, p)
    \/ \E ip \in IPs : StartBlock(m, ip)

(* The API server goes on without a firewall that did not start; the agent *)
(* does not.                                                               *)
Running(m) == stage[m] = "done" \/ (m = "api" /\ stage[m] = "failed")

(* BlockIP and UnblockIP, which return an error or change the chain.       *)
BlockIP(ip) ==
    /\ AddRule(BlockRule(ip))
    /\ want' = want \cup {ip}
    /\ UNCHANGED <<stage, todo, policy>>

UnblockIP(ip) ==
    /\ RemoveRule(BlockRule(ip))
    /\ want' = want \ {ip}
    /\ UNCHANGED <<stage, todo, policy>>

CommandFails == UNCHANGED fwVars

(* The process ends.  Its rules stay: nothing calls Flush.                 *)
Stop(m) ==
    /\ stage[m] # "off"
    /\ Enter(m, "off", {})
    /\ UNCHANGED <<chain, policy, want>>

-----------------------------------------------------------------------------
(* What "nft -a list ruleset" and "ufw status numbered" print, as words:   *)
(* the former begins with the chain and its policy.                        *)
NFTHeader == <<"type", "filter", "hook", "input", "priority", "0", "policy", "accept">>

NFTLine(r) ==
    (IF r.port = Any THEN <<>> ELSE <<"tcp", "dport", r.port>>)
      \o (IF r.src = Any THEN <<>> ELSE <<"ip", "saddr", r.src>>)
      \o <<r.action, "comment", "Waffynx">>

UFWLine(r) == <<r.port, IF r.action = "accept" THEN "allow" ELSE "deny", "IN", r.src>>

(* extractSource and extractPort: the word after the first such key.       *)
ExtractAfter(line, key) ==
    LET at == {i \in 1 .. Len(line) - 1 : line[i] = key}
    IN  IF at = {} THEN Any ELSE line[1 + CHOOSE i \in at : \A j \in at : i <= j]

(* extractAction: the first of the known actions that occurs.              *)
ExtractAction(line) ==
    LET words == {line[i] : i \in DOMAIN line}
    IN  IF "accept" \in words THEN "accept" ELSE IF "drop" \in words THEN "drop" ELSE ""

(* parseNFTRules, without protocol, table and comment: every line with an  *)
(* action is taken for a rule, the header too.                             *)
ParseNFT(lines) ==
    {[src |-> ExtractAfter(l, "saddr"), port |-> ExtractAfter(l, "dport"),
      action |-> ExtractAction(l)] : l \in {l \in lines : ExtractAction(l) # ""}}

\* Mutant: the direction is taken for the source.
ParseUFWShifted(lines) ==
    {[src |-> l[3], port |-> l[1], action |-> IF l[2] = "allow" THEN "accept" ELSE l[2]] : l \in lines}

(* parseUFWRules: by the position of the words.                            *)
ParseUFW(lines) ==
    {[src |-> l[4], port |-> l[1], action |-> IF l[2] = "allow" THEN "accept" ELSE l[2]] : l \in lines}

ListRules ==
    IF Backend = "nftables"
    THEN ParseNFT({NFTHeader} \cup {NFTLine(r) : r \in RulesIn(chain)})
    ELSE ParseUFW({UFWLine(r) : r \in RulesIn(chain)})

-----------------------------------------------------------------------------
(* What was blocked last is in the kernel and on the list that is read     *)
(* back from it, through restarts of either process.                       *)
BlockedIsListed ==
    \A ip \in want : \E r \in ListRules :
        r.src = ip /\ r.port = Any /\ r.action \in {"drop", "deny"}

(* With ufw an address is free again after one unblock, however often it   *)
(* was blocked: by the list at start, by the agent and by an operator.     *)
UnblockLifts == \A ip \in IPs : BlockRule(ip) \in RulesIn(chain) => ip \in want
=============================================================================
