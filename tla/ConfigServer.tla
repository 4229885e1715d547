---------------------------- MODULE ConfigServer ----------------------------
(***************************************************************************)
(* The configuration of the API server: one file, the configuration in     *)
(* force (with the authentication manager made from it), updates over the  *)
(* API under configMu, and reloads on SIGHUP, which read the file before   *)
(* they take the lock.  Update writes the file in place: it is empty from  *)
(* the moment os.WriteFile opens it until the data has been written, and   *)
(* a crash or a full disk leaves a part of it.                             *)
(*                                                                         *)
(* A configuration is a function on a few of its leaves: deepMerge and     *)
(* normalizeKeys replace the leaves that an update names and keep the      *)
(* others.  The file has the leaves in the order in which the YAML encoder *)
(* writes them.                                                            *)
(***************************************************************************)
EXTENDS Integers, FiniteSets

CONSTANTS Updaters,   \* requests that update the configuration
          Names,      \* values of the leaf name, the default among them
          MaxEdits    \* bound on edits by an operator

ConfigConstants ==
    /\ "nobody" \notin Updaters /\ "missing" \notin Names /\ MaxEdits \in Nat

VARIABLES
    up,         \* the API server is running
    file,       \* the leaves in the file; Missing
    cfg,        \* the configuration in force
    lock,       \* who holds configMu; Nobody
    pc,         \* pc[u]: where handleUpdateConfig is
    merged,     \* merged[u]: the configuration that u is about to write
    named,      \* named[u]: the leaf that u's request names
    reload,     \* the configuration that a reload has read; NotLoaded
    current,    \* the file is still as the reload has read it (history)
    acked,      \* acked[f]: the value of the last confirmed update of f; Missing
    spoiled,    \* leaves that came into force from a cut file or a late reload (history)
    edits

vars == <<up, file, cfg, lock, pc, merged, named, reload, current, acked, spoiled, edits>>

Fields == {"secret", "backend", "name"}
Order == <<"secret", "backend", "name">>
Missing == "missing"
Nobody == "nobody"

(* A secret of 32 characters, a shorter one, none; backends known or not.  *)
Values == [secret |-> {"strong", "short", "none"}, backend |-> {"nftables", "ufw", "other"},
           name |-> Names \cup {"waffynx"}]

Config == [secret: Values.secret, backend: Values.backend, name: Values.name]
Partial == [secret: Values.secret \cup {Missing}, backend: Values.backend \cup {Missing},
            name: Values.name \cup {Missing}]
NotLoaded == [f \in Fields |-> Missing]

defaultConfig == [secret |-> "none", backend |-> "nftables", name |-> "waffynx"]
First == [defaultConfig EXCEPT !.secret = "strong"]

TypeOK ==
    /\ up \in BOOLEAN
    /\ file \in Partial
    /\ cfg \in Config
    /\ lock \in Updaters \cup {Nobody}
    /\ pc \in [Updaters -> {"new", "writing", "ok", "refused", "failed"}]
    /\ merged \in [Updaters -> Config]
    /\ named \in [Updaters -> Fields]
    /\ reload \in Config \cup {NotLoaded}
    /\ current \in BOOLEAN
    /\ acked \in Partial
    /\ spoiled \subseteq Fields
    /\ edits \in 0 .. MaxEdits
    /\ \A u \in Updaters : pc[u] = "writing" <=> lock = u

-----------------------------------------------------------------------------
Validate(c) == c.backend \in {"nftables", "ufw"}

\* Mutant: the file is not validated when it is read.
ParseLax(data) == {[f \in Fields |-> IF data[f] = Missing THEN defaultConfig[f] ELSE data[f]]}

(* Parse: what is not in the file has its default.  A file that was cut    *)
(* off may also be no YAML.                                                *)
Parse(data) ==
    LET c == [f \in Fields |-> IF data[f] = Missing THEN defaultConfig[f] ELSE data[f]]
    IN  IF Validate(c) THEN {c} ELSE {}

(* The first n leaves of c.                                                *)
Prefix(c, n) == [f \in Fields |-> IF \E i \in 1 .. n : Order[i] = f THEN c[f] ELSE Missing]

(* The file was cut off: the leaves it has lost, and those whose value is  *)
(* of an update that failed.                                               *)
Cut == file \notin Config
Lost ==
    IF Cut THEN {f \in Fields : file[f] = Missing} \cup {named[u] : u \in {v \in Updaters : pc[v] = "failed"}}
    ELSE {}

(* NewServer's check of the secret.                                        *)
Secure(c) == c.secret = "strong"

Init ==
    /\ up = TRUE
    /\ file = First
    /\ cfg = First
    /\ lock = Nobody
    /\ pc = [u \in Updaters |-> "new"]
    /\ merged = [u \in Updaters |-> First]
    /\ named = [u \in Updaters |-> "name"]
    /\ reload = NotLoaded
    /\ current = FALSE
    /\ acked = NotLoaded
    /\ spoiled = {}
    /\ edits = 0

-----------------------------------------------------------------------------
(* deepMerge and normalizeKeys                                             *)
deepMerge(c, f, v) == [c EXCEPT ![f] = v]

(* handleUpdateConfig refuses a merged configuration that is not valid ... *)
UpdateRefuse(u, f, v) ==
    /\ up /\ lock = Nobody /\ pc[u] = "new"
    /\ ~Validate(deepMerge(cfg, f, v))
    /\ pc' = [pc EXCEPT ![u] = "refused"]
    /\ UNCHANGED <<up, file, cfg, lock, merged, named, reload, current, acked, spoiled, edits>>

\* Mutant: the current configuration is read from the file without the lock.
UpdateOpenUnlocked(u, f, v) ==
    /\ up /\ pc[u] = "new" /\ lock = Nobody
    /\ Validate(deepMerge(First, f, v))
    /\ lock' = u
    /\ pc' = [pc EXCEPT ![u] = "writing"]
    /\ merged' = [merged EXCEPT ![u] = deepMerge(First, f, v)]
    /\ named' = [named EXCEPT ![u] = f]
    /\ file' = NotLoaded /\ current' = FALSE
    /\ UNCHANGED <<up, cfg, reload, acked, spoiled, edits>>

(* ... and otherwise, still under the lock, truncates the file ...         *)
UpdateOpen(u, f, v) ==
    /\ up /\ lock = Nobody /\ pc[u] = "new"
    /\ Validate(deepMerge(cfg, f, v))
    /\ lock' = u
    /\ pc' = [pc EXCEPT ![u] = "writing"]
    /\ merged' = [merged EXCEPT ![u] = deepMerge(cfg, f, v)]
    /\ named' = [named EXCEPT ![u] = f]
    /\ file' = NotLoaded /\ current' = FALSE
    /\ UNCHANGED <<up, cfg, reload, acked, spoiled, edits>>

\* Mutant: a failed write returns without the unlock.
UpdateFailsLocked(u) ==
    /\ lock = u
    /\ pc' = [pc EXCEPT ![u] = "failed"]
    /\ file' = NotLoaded /\ current' = FALSE
    /\ UNCHANGED <<up, cfg, lock, merged, named, reload, acked, spoiled, edits>>

(* ... fails to write it ...                                               *)
UpdateFails(u) ==
    /\ lock = u
    /\ lock' = Nobody
    /\ pc' = [pc EXCEPT ![u] = "failed"]
    /\ \E n \in 0 .. 2 : file' = Prefix(merged[u], n)
    /\ current' = FALSE
    /\ UNCHANGED <<up, cfg, merged, named, reload, acked, spoiled, edits>>

\* Mutant: what is written is not put in force.
UpdateDoneDiskOnly(u) ==
    /\ lock = u
    /\ lock' = Nobody
    /\ pc' = [pc EXCEPT ![u] = "ok"]
    /\ file' = merged[u] /\ current' = FALSE
    /\ acked' = [acked EXCEPT ![named[u]] = merged[u][named[u]]]
    /\ spoiled' = spoiled \ {named[u]}
    /\ UNCHANGED <<up, cfg, merged, named, reload, edits>>

(* ... or writes it and puts it in force.                                  *)
UpdateDone(u) ==
    /\ lock = u
    /\ lock' = Nobody
    /\ pc' = [pc EXCEPT ![u] = "ok"]
    /\ file' = merged[u] /\ current' = FALSE
    /\ cfg' = merged[u]
    /\ acked' = [acked EXCEPT ![named[u]] = merged[u][named[u]]]
    /\ spoiled' = spoiled \ {named[u]}
    /\ UNCHANGED <<up, merged, named, reload, edits>>

-----------------------------------------------------------------------------
(* SIGHUP: config.Load, without the lock; a file that does not parse       *)
(* leaves everything as it is.                                             *)
ReloadRead ==
    /\ up /\ reload = NotLoaded
    /\ \E c \in Parse(file) : reload' = c
    /\ current' = TRUE
    /\ UNCHANGED <<up, file, cfg, lock, pc, merged, named, acked, spoiled, edits>>

Confirmed == {f \in Fields : acked[f] # Missing}

(* What was read comes into force.                                         *)
ReloadApply ==
    /\ up /\ reload # NotLoaded
    /\ lock = Nobody
    /\ cfg' = reload
    /\ reload' = NotLoaded /\ current' = FALSE
    /\ spoiled' = Confirmed \cap (spoiled \cup (IF current THEN Lost ELSE Fields))
    /\ UNCHANGED <<up, file, lock, pc, merged, named, acked, edits>>

(* An operator replaces the file, which overrides earlier updates.         *)
Edit ==
    /\ edits < MaxEdits
    /\ lock = Nobody
    /\ edits' = edits + 1
    /\ file' \in Config /\ current' = FALSE
    /\ acked' = NotLoaded /\ spoiled' = {}
    /\ UNCHANGED <<up, cfg, lock, pc, merged, named, reload>>

(* The process ends.  What was being written may be there in part, and of  *)
(* the leaf that the unanswered update names nothing can be said.          *)
Crash ==
    /\ up
    /\ up' = FALSE
    /\ lock' = Nobody
    /\ reload' = NotLoaded /\ current' = FALSE
    /\ IF lock = Nobody THEN UNCHANGED <<file, acked, spoiled, pc>>
       ELSE /\ \E n \in 0 .. 3 : file' = Prefix(merged[lock], n)
            /\ acked' = [acked EXCEPT ![named[lock]] = Missing]
            /\ spoiled' = spoiled \ {named[lock]}
            /\ pc' = [pc EXCEPT ![lock] = "failed"]
    /\ UNCHANGED <<cfg, merged, named, edits>>

(* runAPI and NewServer: an insecure secret stops the start.               *)
Restart ==
    /\ ~up
    /\ \E c \in Parse(file) : Secure(c) /\ cfg' = c
    /\ up' = TRUE
    /\ spoiled' = Confirmed \cap (spoiled \cup Lost)
    /\ UNCHANGED <<file, lock, pc, merged, named, reload, current, acked, edits>>

Update(u) ==
    \/ \E f \in Fields : \E v \in Values[f] : UpdateRefuse(u, f, v) \/ UpdateOpen(u, f, v)
    \/ UpdateFails(u)
    \/ UpdateDone(u)

Next ==
    \/ \E u \in Updaters : Update(u)
    \/ ReloadRead \/ ReloadApply
    \/ Edit
    \/ Crash
    \/ Restart

Spec == Init /\ [][Next]_vars

-----------------------------------------------------------------------------
(* A confirmed update is in force, whatever failed or crashed after it,    *)
(* unless a file that had lost it to a write cut short was loaded, or a    *)
(* reload that had read the file before a change was applied after it.     *)
AckedInForce == up => \A f \in Confirmed \ spoiled : cfg[f] = acked[f]

(* It is on disk too, but for what the file has lost by the last write.    *)
AckedOnDisk == lock = Nobody => \A f \in Confirmed \ (spoiled \cup Lost) : file[f] = acked[f]

(* Whatever is read from a file that is cut short or was edited, the       *)
(* configuration in force has passed validation.                           *)
ValidInForce == Validate(cfg)

(* The configuration: what was confirmed is kept, on disk and in force,    *)
(* and nothing that is not valid ever is in force.                         *)
ConfigKept ==
    /\ AckedOnDisk
    /\ AckedInForce
    /\ ValidInForce
=============================================================================
