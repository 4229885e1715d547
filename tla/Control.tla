------------------------------ MODULE Control ------------------------------
(***************************************************************************)
(* The parts around the evaluation of a request, side by side: the ban     *)
(* table on both firewalls, the configuration and the access to the API    *)
(* server, the life of the waffynx process and the bridge to the AppSec    *)
(* daemon.  They share no state, and only the one that part names runs:    *)
(* the behaviours of this module are those of each part on its own, and    *)
(* its states are their sum, not their product.                            *)
(*                                                                         *)
(* A part's parameters are the fields of its Setup.  The ban table and the *)
(* access to the API are each there for two setups, one for each back end  *)
(* of the firewall, and one for each kind of token.                        *)
(***************************************************************************)
EXTENDS Integers, Sequences, FiniteSets

CONSTANTS UfwSetup, NftSetup, ConfigSetup, ProviderSetup, SecretSetup, LifeSetup, BridgeSetup

VARIABLES
    part,
    stage, todo, chain, policy, want, now, bannedIPs, call, audited, reported, changed,
    serverUp, serverFile, cfg, lock, updatePc, merged, named, reload, current, acked, spoiled, edits,
    up, secret, providers, users, configMu, file, clock, tokens, pc, route, cred, code, log,
    checked, found, seen, entitled,
    start, mainPc, listening, path, running, nginx, port, sigCh, sent, unchmod,
    daemon, sock, stops, link, alive, work, reply, callPc, on, age, result, heard, said, fault

banVars == <<stage, todo, chain, policy, want, now, bannedIPs, call, audited, reported, changed>>
configVars == <<serverUp, serverFile, cfg, lock, updatePc, merged, named, reload, current,
                acked, spoiled, edits>>
accessVars == <<up, secret, providers, users, configMu, file, clock, tokens, pc, route, cred,
                code, log, checked, found, seen, entitled>>
lifeVars == <<start, mainPc, listening, path, running, nginx, port, sigCh, sent, unchmod>>
bridgeVars == <<daemon, sock, stops, link, alive, work, reply, callPc, on, age, result, heard,
                said, fault>>
vars == <<part, banVars, configVars, accessVars, lifeVars, bridgeVars>>

Bans(s) == INSTANCE BanTable
          WITH Backend <- s.backend, IPs <- s.ips, ManagedPorts <- s.managedPorts,
               BlockList <- s.blockList, DefaultIn <- s.defaultIn, MaxRules <- s.maxRules,
               Calls <- s.calls, TTL <- s.ttl, MaxTime <- s.maxTime

CS == INSTANCE ConfigServer
          WITH Updaters <- ConfigSetup.updaters, Names <- ConfigSetup.names,
               MaxEdits <- ConfigSetup.maxEdits,
               up <- serverUp, file <- serverFile, pc <- updatePc

Access(s) == INSTANCE ApiAccess
          WITH Users <- s.users, Idps <- s.idps, Requests <- s.requests, TTL <- s.ttl,
               MaxClock <- s.maxClock, MaxTokens <- s.maxTokens, MaxSecrets <- s.maxSecrets

LC == INSTANCE Lifecycle
          WITH MaxStarts <- LifeSetup.maxStarts, MaxSignals <- LifeSetup.maxSignals, pc <- mainPc

BR == INSTANCE Bridge
          WITH Calls <- BridgeSetup.calls, Conns <- BridgeSetup.conns,
               Timeout <- BridgeSetup.timeout, Patience <- BridgeSetup.patience,
               MaxStops <- BridgeSetup.maxStops, pc <- callPc

ASSUME UfwAssumption == Bans(UfwSetup)!BanConstants /\ Bans(UfwSetup)!FirewallConstants
ASSUME NftAssumption == Bans(NftSetup)!BanConstants /\ Bans(NftSetup)!FirewallConstants
ASSUME ConfigAssumption == CS!ConfigConstants
ASSUME AccessAssumption ==
    Access(ProviderSetup)!ApiAccessConstants /\ Access(SecretSetup)!ApiAccessConstants
ASSUME LifeAssumption == LC!LifecycleConstants
ASSUME BridgeAssumption == BR!BridgeConstants

-----------------------------------------------------------------------------
Parts == {"ufw", "nftables", "config", "providers", "secrets", "lifecycle", "bridge"}

Init ==
    /\ part \in Parts
    /\ IF part = "nftables" THEN Bans(NftSetup)!Init ELSE Bans(UfwSetup)!Init
    /\ IF part = "secrets" THEN Access(SecretSetup)!Init ELSE Access(ProviderSetup)!Init
    /\ CS!Init /\ LC!Init /\ BR!Init

Next ==
    \/ /\ part = "ufw" /\ Bans(UfwSetup)!Next
       /\ UNCHANGED <<part, configVars, accessVars, lifeVars, bridgeVars>>
    \/ /\ part = "nftables" /\ Bans(NftSetup)!Next
       /\ UNCHANGED <<part, configVars, accessVars, lifeVars, bridgeVars>>
    \/ /\ part = "config" /\ CS!Next
       /\ UNCHANGED <<part, banVars, accessVars, lifeVars, bridgeVars>>
    \/ /\ part = "providers" /\ Access(ProviderSetup)!Next
       /\ UNCHANGED <<part, banVars, configVars, lifeVars, bridgeVars>>
    \/ /\ part = "secrets" /\ Access(SecretSetup)!Next
       /\ UNCHANGED <<part, banVars, configVars, lifeVars, bridgeVars>>
    \/ /\ part = "lifecycle" /\ LC!Next
       /\ UNCHANGED <<part, banVars, configVars, accessVars, bridgeVars>>
    \/ /\ part = "bridge" /\ BR!Next
       /\ UNCHANGED <<part, banVars, configVars, accessVars, lifeVars>>

Spec == Init /\ [][Next]_vars

-----------------------------------------------------------------------------
(* The state of each part is of the expected kind; among others the lock   *)
(* of an update is released, a connection has at most one user, a stopped  *)
(* engine is not running by its flag, and nothing is recorded twice.       *)
TypeOK ==
    /\ part = "ufw" => Bans(UfwSetup)!TypeOK
    /\ part = "nftables" => Bans(NftSetup)!TypeOK
    /\ part = "config" => CS!TypeOK
    /\ part = "providers" => Access(ProviderSetup)!TypeOK
    /\ part = "secrets" => Access(SecretSetup)!TypeOK
    /\ part = "lifecycle" => LC!TypeOK
    /\ part = "bridge" => BR!TypeOK

(* Manager.BlockIP, ListRules and handleFirewallBlock: what was blocked    *)
(* last is on the list that is read back from ufw or nftables, through     *)
(* restarts; after an answered ban whose command succeeded, the first rule *)
(* that matches a packet drops it, until somebody lifts the ban (but where *)
(* nftables accepts by default, with a rule before them all); table and    *)
(* kernel agree where the same call came last to both; and on ufw one      *)
(* unblock frees an address, however often it was blocked.                 *)
BansHold ==
    /\ part = "ufw" => Bans(UfwSetup)!BansHold
    /\ part = "nftables" => Bans(NftSetup)!BansHold

(* handleUpdateConfig and config.Parse: until an operator edits the file,  *)
(* a confirmed update is in force, through failed writes and crashes,      *)
(* unless a file that had lost it, or one that was read too early, was     *)
(* loaded; it is on disk unless the last write was cut short; and whatever *)
(* the file has become, what is in force is valid.                         *)
ConfigKept == part = "config" => CS!ConfigKept

(* authMiddleware, requireRole and requireScope: what an administrator may *)
(* do is done for one, or for a user who was taken out no longer ago than  *)
(* the life of a token; events are ingested only with a token of the       *)
(* operator; and no request is served with a token whose secret had been   *)
(* replaced, or whose provider had been taken out, before it arrived.      *)
AccessJustified ==
    /\ part = "providers" => Access(ProviderSetup)!AccessJustified
    /\ part = "secrets" => Access(SecretSetup)!AccessJustified

(* runEngine and Engine.Stop: while nginx serves, the socket leads to a    *)
(* living sidecar, and a process that ends by itself leaves neither nginx  *)
(* nor its socket behind.                                                  *)
EngineOrdered == part = "lifecycle" => LC!EngineOrdered

(* BridgeScorer.Evaluate: a verdict is the daemon's on this very request,  *)
(* no request is scored twice, it fails open only for a fault of the       *)
(* daemon, and where the bridge gives up before nginx does, nginx is there *)
(* to hear of it.                                                          *)
VerdictsSound == part = "bridge" => BR!VerdictsSound
=============================================================================
