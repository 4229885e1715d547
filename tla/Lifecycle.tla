----------------------------- MODULE Lifecycle ------------------------------
(***************************************************************************)
(* The life of the waffynx process: runEngine starts the sidecar and then  *)
(* nginx, hands signals on, and stops both, nginx first.  The process may  *)
(* be killed at any step and started again: the socket file and nginx,     *)
(* which has a process group of its own, survive it.                       *)
(*                                                                         *)
(* Starts are numbered.  path is the start whose listener the socket path  *)
(* leads to, 0 where there is no file.                                     *)
(***************************************************************************)
EXTENDS Integers, Sequences, FiniteSets

CONSTANTS MaxStarts,   \* bound on the starts of the process
          MaxSignals   \* bound on the signals sent

LifecycleConstants == MaxStarts \in Nat /\ MaxSignals \in Nat

VARIABLES
    start,     \* the number of the current start
    pc,        \* where runEngine is
    listening, \* the sidecar of the current start accepts connections
    path,      \* what the socket path leads to
    running,   \* Engine.running
    nginx,     \* nginx[i]: the master process of start i
    port,      \* the start whose nginx listens to clients, or 0
    sigCh,     \* the channel of signals: it has room for one
    sent,      \* how many signals were sent
    \* history
    unchmod    \* the start failed at os.Chmod

proc == <<start, pc, listening, path, running, unchmod>>
signals == <<sigCh, sent>>
vars == <<proc, nginx, port, signals>>

Starts == 1 .. MaxStarts
Alive == pc \notin {"off", "exited", "killed"}
Live == {i \in Starts : nginx[i] \in {"starting", "serving", "quitting"}}

Init ==
    /\ start = 0 /\ pc = "off"
    /\ listening = FALSE /\ path = 0 /\ running = FALSE
    /\ nginx = [i \in Starts |-> "none"] /\ port = 0
    /\ sigCh = <<>> /\ sent = 0
    /\ unchmod = FALSE

(* A process starts: systemd after a failure, or an operator.              *)
Boot ==
    /\ ~Alive /\ start < MaxStarts
    /\ start' = start + 1 /\ pc' = "remove"
    /\ listening' = FALSE /\ running' = FALSE /\ unchmod' = FALSE
    /\ sigCh' = <<>>
    /\ UNCHANGED <<path, nginx, port, sent>>

-----------------------------------------------------------------------------
(* Sidecar.Start: each of its three steps may fail, and runEngine returns. *)
RemoveSocket ==
    /\ pc = "remove"
    /\ \/ path' = 0 /\ pc' = "listen"
       \/ path' = path /\ pc' = "exited"
    /\ UNCHANGED <<start, listening, running, unchmod, nginx, port, signals>>

Listen ==
    /\ pc = "listen"
    /\ \/ path = 0 /\ path' = start /\ listening' = TRUE /\ pc' = "chmod"
       \/ pc' = "exited" /\ UNCHANGED <<path, listening>>
    /\ UNCHANGED <<start, running, unchmod, nginx, port, signals>>

Chmod ==
    /\ pc = "chmod"
    /\ \/ pc' = "nginx" /\ UNCHANGED <<listening, unchmod>>
       \/ pc' = "exited" /\ listening' = FALSE /\ unchmod' = TRUE
    /\ UNCHANGED <<start, path, running, nginx, port, signals>>

\* Mutant: the socket file stays.
SidecarStopNot ==
    /\ pc' = "exited"
    /\ listening' = FALSE
    /\ UNCHANGED path

(* Sidecar.Stop: Close ends the listener and removes its file.             *)
SidecarStop ==
    /\ pc' = "exited"
    /\ listening' = FALSE
    /\ path' = 0

(* The rest of Engine.Start.                                               *)
StartNginx ==
    /\ pc = "nginx"
    /\ \/ /\ nginx' = [nginx EXCEPT ![start] = "starting"]
          /\ running' = TRUE /\ pc' = "run"
          /\ UNCHANGED <<listening, path>>
       \/ SidecarStop /\ UNCHANGED <<nginx, running>>
    /\ UNCHANGED <<start, unchmod, port, signals>>

-----------------------------------------------------------------------------
(* A signal that finds the channel full is dropped.                        *)
Signal(s) ==
    /\ Alive /\ sent < MaxSignals
    /\ sent' = sent + 1
    /\ sigCh' = IF sigCh = <<>> THEN <<s>> ELSE sigCh
    /\ UNCHANGED <<proc, nginx, port>>

(* Reload sends SIGHUP to the nginx of this start.  That succeeds also if  *)
(* nginx has ended: nobody has waited for it.                              *)
HandleHUP ==
    /\ pc = "run" /\ sigCh = <<"HUP">>
    /\ sigCh' = <<>>
    /\ UNCHANGED <<proc, nginx, port, sent>>

\* Mutant: Stop waits for nginx without a signal.
SignalNginxNot == UNCHANGED nginx

SignalNginx == nginx' = [nginx EXCEPT ![start] = IF @ = "dead" THEN @ ELSE "quitting"]

\* Mutant: Stop closes the sidecar and then tells nginx.
HandleTERMSidecarFirst ==
    /\ pc = "run" /\ sigCh = <<"TERM">>
    /\ sigCh' = <<>>
    /\ SignalNginx
    /\ pc' = "wait" /\ listening' = FALSE /\ path' = 0
    /\ UNCHANGED <<start, running, unchmod, port, sent>>

(* Engine.Stop, one step per thing it does.                                *)
HandleTERM ==
    /\ pc = "run" /\ sigCh = <<"TERM">>
    /\ sigCh' = <<>>
    /\ SignalNginx
    /\ pc' = "wait"
    /\ UNCHANGED <<start, listening, path, running, unchmod, port, sent>>

WaitNginx ==
    /\ pc = "wait" /\ nginx[start] = "dead"
    /\ pc' = "stop"
    /\ UNCHANGED <<start, listening, path, running, unchmod, nginx, port, signals>>

StopSidecar ==
    /\ pc = "stop"
    /\ SidecarStop
    /\ running' = FALSE
    /\ UNCHANGED <<start, unchmod, nginx, port, signals>>

-----------------------------------------------------------------------------
(* The environment: nginx binds the port or ends because an older one has  *)
(* it, ends when told to, or crashes; waffynx is killed.                   *)
NginxBinds(i) ==
    /\ nginx[i] = "starting"
    /\ IF port = 0
       THEN nginx' = [nginx EXCEPT ![i] = "serving"] /\ port' = i
       ELSE nginx' = [nginx EXCEPT ![i] = "dead"] /\ port' = port
    /\ UNCHANGED <<proc, signals>>

NginxEnds(i) ==
    /\ nginx[i] = "quitting"
    /\ nginx' = [nginx EXCEPT ![i] = "dead"]
    /\ port' = IF port = i THEN 0 ELSE port
    /\ UNCHANGED <<proc, signals>>

NginxCrashes(i) ==
    /\ i \in Live
    /\ nginx' = [nginx EXCEPT ![i] = "dead"]
    /\ port' = IF port = i THEN 0 ELSE port
    /\ UNCHANGED <<proc, signals>>

Kill ==
    /\ Alive
    /\ pc' = "killed"
    /\ listening' = FALSE
    /\ UNCHANGED <<start, path, running, unchmod, nginx, port, signals>>

Main == RemoveSocket \/ Listen \/ Chmod \/ StartNginx \/ HandleHUP \/ HandleTERM
          \/ WaitNginx \/ StopSidecar

Next ==
    \/ Main \/ Boot \/ Kill
    \/ \E s \in {"HUP", "TERM"} : Signal(s)
    \/ \E i \in Starts : NginxBinds(i) \/ NginxEnds(i) \/ NginxCrashes(i)

Spec == Init /\ [][Next]_vars

(* The process takes its next step, and nginx ends when it is told to.     *)
FairSpec == Spec /\ WF_vars(Main) /\ \A i \in Starts : WF_vars(NginxEnds(i))

-----------------------------------------------------------------------------
TypeOK ==
    /\ start \in 0 .. MaxStarts
    /\ pc \in {"off", "remove", "listen", "chmod", "nginx", "run", "wait", "stop", "exited", "killed"}
    /\ path \in 0 .. start
    /\ nginx \in [Starts -> {"none", "starting", "serving", "quitting", "dead"}]
    /\ port \in 0 .. MaxStarts
    /\ Len(sigCh) <= 1
    /\ running => pc \in {"run", "wait", "stop", "killed"}

(* "The sidecar must be running before nginx": while waffynx lives and its *)
(* nginx does, or an older one that outlived a crash has the port of the   *)
(* running engine, the socket path leads to the listener of this very      *)
(* start, also while both are stopping.                                    *)
NginxHasSidecar ==
    Alive /\ (start \in Live \/ (running /\ port # 0)) => path = start /\ listening

(* A process that ends by itself leaves no nginx of its own behind, and no *)
(* socket file that leads to it, unless it was the mode of that file that  *)
(* could not be set.                                                       *)
ExitIsClean ==
    pc = "exited" => start \notin Live /\ (path = start => unchmod)

(* A SIGTERM that is in the channel stops the process, however nginx and   *)
(* the sidecar are doing.                                                  *)
TermStops == (sigCh = <<"TERM">>) ~> ~Alive

(* runEngine: nginx and the sidecar come and go in the order that lets no  *)
(* request of nginx find nobody.                                           *)
EngineOrdered ==
    /\ NginxHasSidecar
    /\ ExitIsClean
=============================================================================
