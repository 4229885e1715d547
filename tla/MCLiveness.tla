----------------------------- MODULE MCLiveness -----------------------------
(***************************************************************************)
(* What must eventually happen in the data plane, in the upstream pool and *)
(* in the life of the waffynx process.  They share no state, and only the  *)
(* one that part names runs, under the fairness that its own module        *)
(* states.                                                                 *)
(***************************************************************************)
EXTENDS Integers

CONSTANTS r1, r2, w1, w2

VARIABLES
    part,
    conn, accepted, reply, listening, req, phase, why, sentBody, stage, verdict, recorded,
    unwritten, gone, faulted,
    lbType, n, index, healthy, failures, activeConns, choicePc, pos, seen, best, least, cursor, probed,
    answers, streak, wasSick, wasWell, most, steady,
    start, mainPc, sidecarUp, path, running, nginx, port, sigCh, sent, unchmod

planeVars == <<conn, accepted, reply, listening, req, phase, why, sentBody, stage, verdict,
               recorded, unwritten, gone, faulted>>
poolVars == <<lbType, n, index, healthy, failures, activeConns, choicePc, pos, seen, best, least,
              cursor, probed, answers, streak, wasSick, wasWell, most, steady>>
lifeVars == <<start, mainPc, sidecarUp, path, running, nginx, port, sigCh, sent, unchmod>>
vars == <<part, planeVars, poolVars, lifeVars>>

Input(failOpen, body) ==
    [enabled |-> TRUE, failOpen |-> failOpen, body |-> body, big |-> FALSE, worker |-> w1]
SmallInputs == {Input(FALSE, "memory"), Input(TRUE, "chunked")}

(* Two requests, whose messages fit the socket buffers, on one worker.     *)
DP == INSTANCE DataPlane
          WITH Requests <- {r1, r2}, Workers <- {w1, w2}, Inputs <- SmallInputs,
               HasScorer <- FALSE, HasAudit <- FALSE, HasPublisher <- FALSE

(* One request, two targets.                                               *)
UP == INSTANCE UpstreamPool
          WITH Requests <- {r1}, Client <- [r \in {r1} |-> "c1"], Hash <- [c1 |-> 5],
               MaxTargets <- 2, LBTypes <- {"round_robin", "least_conn", "ip_hash"},
               pc <- choicePc

(* Two starts, three signals.                                              *)
LC == INSTANCE Lifecycle WITH MaxStarts <- 2, MaxSignals <- 3, pc <- mainPc, listening <- sidecarUp

-----------------------------------------------------------------------------
Parts == {"data plane", "pool", "lifecycle"}

Init ==
    /\ part \in Parts
    /\ DP!Init /\ UP!Init /\ LC!Init
    /\ part # "data plane" => req = [r \in {r1, r2} |-> Input(TRUE, "chunked")]
    /\ part # "pool" => lbType = "round_robin"

Next ==
    \/ /\ part = "data plane" /\ DP!Next
       /\ UNCHANGED <<part, poolVars, lifeVars>>
    \/ /\ part = "pool" /\ UP!Next
       /\ UNCHANGED <<part, planeVars, lifeVars>>
    \/ /\ part = "lifecycle" /\ LC!Next
       /\ UNCHANGED <<part, planeVars, poolVars>>

(* The fairness of the three modules, each of which runs or does not.      *)
Fairness ==
    /\ \A r \in {r1, r2} : WF_planeVars(part = "data plane" /\ DP!NginxProgress(r))
    /\ WF_poolVars(part = "pool" /\ UP!CheckAll) /\ WF_poolVars(part = "pool" /\ UP!Probe)
    /\ WF_poolVars(part = "pool" /\ UP!Choose(r1))
    /\ WF_lifeVars(part = "lifecycle" /\ LC!Main)
    /\ \A i \in 1 .. 2 : WF_lifeVars(part = "lifecycle" /\ LC!NginxEnds(i))

FairSpec == Init /\ [][Next]_vars /\ Fairness

-----------------------------------------------------------------------------
(* The access handler: every request whose message fits the socket buffers *)
(* is decided, although nothing is assumed of the sidecar and both share   *)
(* a worker that blocks in recv().                                         *)
EveryRequestDecided == part = "data plane" => DP!EveryRequestDecided

(* checkAll: a target that answers for good is in for good, and one that   *)
(* does not is out: a round of probes always ends and another begins.      *)
HealthFollows == part = "pool" => UP!HealthFollows

(* runEngine: a SIGTERM that is in the channel ends the process.           *)
TermStops == LC!TermStops
=============================================================================
