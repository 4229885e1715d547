----------------------------- MODULE MCControl -----------------------------
(***************************************************************************)
(* Small instances of the parts of Control for TLC.                        *)
(***************************************************************************)
EXTENDS Control, TLC

CONSTANTS a1, a2, k1, k2

(* ufw with two addresses, one of them on the block list; nftables with    *)
(* one address that is blocked several times.                              *)
MCUfw == [backend |-> "ufw", ips |-> {"10.0.0.1", "10.0.0.2"}, managedPorts |-> {},
          blockList |-> {"10.0.0.1"}, defaultIn |-> "accept", maxRules |-> 2,
          calls |-> {a1, a2}, ttl |-> 1, maxTime |-> 0]
MCNft == [backend |-> "nftables", ips |-> {"10.0.0.1"}, managedPorts |-> {"80"},
          blockList |-> {"10.0.0.1"}, defaultIn |-> "drop", maxRules |-> 3,
          calls |-> {a1, a2}, ttl |-> 1, maxTime |-> 1]

(* Two updates, one edit of the file, reloads and crashes.                 *)
MCConfig == [updaters |-> {a1, a2}, names |-> {"n1"}, maxEdits |-> 1]

(* One user, two requests; a provider, and a secret that is replaced.      *)
MCProviders == [users |-> {"u1"}, idps |-> {"i1"}, requests |-> {a1, a2}, ttl |-> 1,
                maxClock |-> 1, maxTokens |-> 1, maxSecrets |-> 1]
MCSecrets == [MCProviders EXCEPT !.idps = {}, !.maxSecrets = 2]

(* Three starts of the process, three signals.                             *)
MCLife == [maxStarts |-> 3, maxSignals |-> 3]

(* Two calls, two connections; nginx waits longer than the bridge, as in   *)
(* deploy/docker.                                                          *)
MCBridge == [calls |-> {a1, a2}, conns |-> {k1, k2}, timeout |-> 2, patience |-> 3, maxStops |-> 1]

Sym == Permutations({a1, a2}) \cup Permutations({k1, k2})
=============================================================================
