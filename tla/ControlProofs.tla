---------------------------- MODULE ControlProofs ----------------------------
(***************************************************************************)
(* The parts of Control for every number of starts, updates, calls and     *)
(* connections.                                                            *)
(***************************************************************************)
EXTENDS Control, FiniteSetTheorems, TLAPS

-----------------------------------------------------------------------------
(* The life of the process.  Where runEngine is says how the socket file,  *)
(* the listener and the nginx of this start are.                           *)
NumbersTyped ==
    /\ start \in 0 .. LifeSetup.maxStarts
    /\ path \in 0 .. start
    /\ port \in 0 .. LifeSetup.maxStarts

StageTyped ==
    /\ mainPc \in {"off", "remove", "listen", "chmod", "nginx", "run", "wait", "stop", "exited",
                   "killed"}
    /\ running => mainPc \in {"run", "wait", "stop", "killed"}

NginxTyped == nginx \in [LC!Starts -> {"none", "starting", "serving", "quitting", "dead"}]

(* The channel holds one signal at most.                                   *)
SignalsTyped == sigCh \in {<<>>, <<"HUP">>, <<"TERM">>}

(* Before it listens, the socket path does not lead to this start.         *)
SocketInv ==
    /\ mainPc = "off" <=> start = 0
    /\ mainPc = "remove" => path # start
    /\ mainPc = "listen" => path = 0
    /\ mainPc \in {"chmod", "nginx", "run", "wait", "stop"} => path = start /\ listening
    /\ mainPc = "exited" /\ path = start => unchmod

(* The nginx of this start is not there before it is started and is gone   *)
(* when the sidecar is stopped.                                            *)
NginxInv ==
    /\ \A i \in LC!Starts : i > start => nginx[i] = "none"
    /\ mainPc \in {"remove", "listen", "chmod", "nginx"} => nginx[start] = "none"
    /\ mainPc = "stop" => nginx[start] = "dead"
    /\ mainPc = "exited" => nginx[start] \in {"none", "dead"}

LifeInv == NumbersTyped /\ StageTyped /\ NginxTyped /\ SignalsTyped /\ SocketInv /\ NginxInv

(* The invariant of the process holds before the first start.              *)
LEMMA LifeInit ==
    ASSUME LC!LifecycleConstants
    PROVE  LC!Init => LifeInv
<1> SUFFICES ASSUME LC!Init PROVE LifeInv
  OBVIOUS
<1> USE DEF LC!LifecycleConstants, LC!Init
<1>1. NumbersTyped /\ StageTyped /\ NginxTyped /\ SignalsTyped
  BY DEF NumbersTyped, StageTyped, NginxTyped, SignalsTyped
<1>2. SocketInv
  BY DEF SocketInv
<1>3. NginxInv
  BY DEF NginxInv, LC!Starts
<1> QED
  BY <1>1, <1>2, <1>3 DEF LifeInv

(* The steps of the process itself.                                        *)
LEMMA LifeMain ==
    ASSUME LC!LifecycleConstants, LifeInv, LC!Main \/ LC!Boot \/ LC!Kill
    PROVE  LifeInv'
<1> USE DEF LifeInv, LC!proc, LC!signals, LC!Alive
<1>1. LifeSetup.maxStarts \in Nat /\ start \in 0 .. LifeSetup.maxStarts
  BY DEF LC!LifecycleConstants, NumbersTyped
<1>2. start # 0 => start \in LC!Starts
  BY <1>1 DEF LC!Starts
<1>3. NumbersTyped' /\ StageTyped' /\ NginxTyped' /\ SignalsTyped'
  <2> USE DEF NumbersTyped, StageTyped, NginxTyped, SignalsTyped
  <2>1. CASE LC!RemoveSocket \/ LC!Listen \/ LC!Chmod
    <3>0. NumbersTyped'
      BY <1>1, <2>1 DEF LC!RemoveSocket, LC!Listen, LC!Chmod
    <3>1. StageTyped'
      BY <1>1, <2>1 DEF LC!RemoveSocket, LC!Listen, LC!Chmod
    <3> QED
      BY <2>1, <3>0, <3>1 DEF LC!RemoveSocket, LC!Listen, LC!Chmod, LC!Starts
  <2>2. CASE LC!StartNginx \/ LC!StopSidecar
    <3>0. NumbersTyped'
      BY <1>1, <2>2 DEF LC!StartNginx, LC!StopSidecar, LC!SidecarStop
    <3>1. StageTyped'
      BY <1>1, <2>2 DEF LC!StartNginx, LC!StopSidecar, LC!SidecarStop
    <3>2. NginxTyped'
      BY <1>1, <2>2 DEF LC!StartNginx, LC!StopSidecar, LC!Starts
    <3> QED
      BY <2>2, <3>0, <3>1, <3>2 DEF LC!StartNginx, LC!StopSidecar
  <2>3. CASE LC!HandleHUP \/ LC!HandleTERM \/ LC!WaitNginx
    <3>0. NumbersTyped'
      BY <1>1, <2>3 DEF LC!HandleHUP, LC!HandleTERM, LC!WaitNginx
    <3>1. StageTyped'
      BY <1>1, <2>3 DEF LC!HandleHUP, LC!HandleTERM, LC!WaitNginx
    <3>2. NginxTyped'
      BY <1>1, <2>3 DEF LC!HandleHUP, LC!HandleTERM, LC!SignalNginx, LC!WaitNginx, LC!Starts
    <3> QED
      BY <2>3, <3>0, <3>1, <3>2 DEF LC!HandleHUP, LC!HandleTERM, LC!WaitNginx
  <2>4. CASE LC!Boot \/ LC!Kill
    <3>0. NumbersTyped'
      BY <1>1, <2>4 DEF LC!Boot, LC!Kill
    <3>1. StageTyped'
      BY <1>1, <2>4 DEF LC!Boot, LC!Kill
    <3> QED
      BY <2>4, <3>0, <3>1 DEF LC!Boot, LC!Kill, LC!Starts
  <2> QED
    BY <2>1, <2>2, <2>3, <2>4 DEF LC!Main
<1>4. SocketInv'
  <2> USE DEF NumbersTyped, StageTyped, NginxTyped, SocketInv
  <2>1. CASE LC!RemoveSocket \/ LC!Listen \/ LC!Chmod
    BY <1>1, <2>1 DEF LC!RemoveSocket, LC!Listen, LC!Chmod
  <2>2. CASE LC!StartNginx \/ LC!StopSidecar
    BY <1>1, <2>2 DEF LC!StartNginx, LC!StopSidecar, LC!SidecarStop
  <2>3. CASE LC!HandleHUP \/ LC!HandleTERM \/ LC!WaitNginx
    BY <1>1, <2>3 DEF LC!HandleHUP, LC!HandleTERM, LC!WaitNginx
  <2>4. CASE LC!Boot \/ LC!Kill
    BY <1>1, <2>4 DEF LC!Boot, LC!Kill
  <2> QED
    BY <2>1, <2>2, <2>3, <2>4 DEF LC!Main
<1>5. NginxInv'
  <2> USE DEF NumbersTyped, StageTyped, NginxTyped, SocketInv, NginxInv
  <2>1. CASE LC!RemoveSocket \/ LC!Listen \/ LC!Chmod
    BY <1>1, <2>1 DEF LC!RemoveSocket, LC!Listen, LC!Chmod
  <2>2. CASE LC!StartNginx
    <3>1. mainPc = "nginx" /\ start' = start
      BY <2>2 DEF LC!StartNginx
    <3>2. CASE mainPc' = "run" /\ nginx' = [nginx EXCEPT ![start] = "starting"]
      BY <1>1, <3>1, <3>2 DEF LC!Starts
    <3>3. CASE mainPc' = "exited" /\ nginx' = nginx
      BY <3>1, <3>3
    <3> QED
      BY <2>2, <3>2, <3>3 DEF LC!StartNginx, LC!SidecarStop
  <2>3. CASE LC!StopSidecar
    BY <1>1, <2>3 DEF LC!StopSidecar, LC!SidecarStop
  <2>4. CASE LC!HandleHUP \/ LC!WaitNginx
    BY <1>1, <2>4 DEF LC!HandleHUP, LC!WaitNginx
  <2>5. CASE LC!HandleTERM
    BY <1>1, <1>2, <2>5 DEF LC!HandleTERM, LC!SignalNginx, LC!Starts
  <2>6. CASE LC!Boot
    BY <1>1, <2>6 DEF LC!Boot, LC!Starts
  <2>7. CASE LC!Kill
    BY <1>1, <2>7 DEF LC!Kill
  <2> QED
    BY <2>1, <2>2, <2>3, <2>4, <2>5, <2>6, <2>7 DEF LC!Main
<1> QED
  BY <1>3, <1>4, <1>5

(* Signals, and what becomes of the nginx of any start.                    *)
LEMMA LifeEnvironment ==
    ASSUME LC!LifecycleConstants, LifeInv,
           \/ \E s \in {"HUP", "TERM"} : LC!Signal(s)
           \/ \E i \in LC!Starts : LC!NginxBinds(i) \/ LC!NginxEnds(i) \/ LC!NginxCrashes(i)
    PROVE  LifeInv'
<1> USE DEF LifeInv, NumbersTyped, StageTyped, NginxTyped, SignalsTyped, SocketInv, NginxInv,
        LC!proc, LC!signals
<1>1. LifeSetup.maxStarts \in Nat
  BY DEF LC!LifecycleConstants
<1>2. ASSUME NEW s \in {"HUP", "TERM"}, LC!Signal(s) PROVE LifeInv'
  BY <1>1, <1>2 DEF LC!Signal, LC!Starts
<1>3. ASSUME NEW i \in LC!Starts, LC!NginxBinds(i) PROVE LifeInv'
  BY <1>1, <1>3 DEF LC!NginxBinds, LC!Starts
<1>4. ASSUME NEW i \in LC!Starts, LC!NginxEnds(i) PROVE LifeInv'
  BY <1>1, <1>4 DEF LC!NginxEnds, LC!Starts
<1>5. ASSUME NEW i \in LC!Starts, LC!NginxCrashes(i) PROVE LifeInv'
  BY <1>1, <1>5 DEF LC!NginxCrashes, LC!Live, LC!Starts
<1> QED
  BY <1>2, <1>3, <1>4, <1>5

(* The invariant holds in every life of the process.                       *)
THEOREM LifeInvariant == Spec => [](part = "lifecycle" => LifeInv)
<1> USE LifeAssumption
<1>1. Init => (part = "lifecycle" => LifeInv)
  BY LifeInit DEF Init
<1>2. LifeInv /\ [LC!Next]_(LC!vars) => LifeInv'
  <2>1. LifeInv /\ UNCHANGED LC!vars => LifeInv'
    BY DEF LC!vars, LC!proc, LC!signals, LifeInv, NumbersTyped, StageTyped, NginxTyped,
       SignalsTyped, SocketInv, NginxInv, LC!Starts
  <2> QED
    BY <2>1, LifeMain, LifeEnvironment DEF LC!Next
<1>3. [Next]_vars => part' = part /\ (part = "lifecycle" => [LC!Next]_(LC!vars))
  BY DEF Next, vars, lifeVars, LC!vars, LC!proc, LC!signals
<1>4. (part = "lifecycle" => LifeInv) /\ [Next]_vars => (part = "lifecycle" => LifeInv)'
  BY <1>2, <1>3
<1> QED
  BY <1>1, <1>4, PTL DEF Spec

(* runEngine: however often the process is started, killed and told to     *)
(* stop, the nginx of a living engine has its sidecar, and a process that  *)
(* ends by itself leaves neither nginx nor its socket behind.              *)
THEOREM EngineOrderedHolds == Spec => []EngineOrdered
<1>1. LifeInv => LC!EngineOrdered
  <2> SUFFICES ASSUME LifeInv PROVE LC!EngineOrdered
    OBVIOUS
  <2> USE DEF LifeInv, NumbersTyped, StageTyped, NginxTyped, SignalsTyped, SocketInv, NginxInv, LC!Live
  <2>1. LC!NginxHasSidecar
    BY DEF LC!NginxHasSidecar, LC!Alive
  <2>2. LC!ExitIsClean
    BY DEF LC!ExitIsClean
  <2> QED
    BY <2>1, <2>2 DEF LC!EngineOrdered
<1> QED
  BY LifeInvariant, <1>1, PTL DEF EngineOrdered

-----------------------------------------------------------------------------
(* The configuration.  Configurations have all the leaves, and only the    *)
(* one who holds the lock writes.                                          *)
LeavesInv ==
    /\ DOMAIN cfg = CS!Fields /\ DOMAIN acked = CS!Fields
    /\ DOMAIN merged = ConfigSetup.updaters /\ DOMAIN named = ConfigSetup.updaters
    /\ DOMAIN updatePc = ConfigSetup.updaters
    /\ \A u \in ConfigSetup.updaters : DOMAIN merged[u] = CS!Fields
    /\ lock \in ConfigSetup.updaters \cup {CS!Nobody}
    /\ ~serverUp => lock = CS!Nobody
    /\ reload # CS!NotLoaded => DOMAIN reload = CS!Fields

(* Whatever may come into force has passed validation.                     *)
ValidInv ==
    /\ CS!Validate(cfg)
    /\ reload # CS!NotLoaded => CS!Validate(reload)
    /\ lock # CS!Nobody => CS!Validate(merged[lock])

(* What was confirmed is in force and, but for what was lost, on disk;     *)
(* what is being written differs from what is in force in the leaf that    *)
(* the update names, and a reload to come may still have what the file has.*)
AckedInv ==
    /\ CS!AckedInForce
    /\ CS!AckedOnDisk
    /\ lock # CS!Nobody => \A f \in CS!Fields : f # named[lock] => merged[lock][f] = cfg[f]
    /\ reload # CS!NotLoaded /\ current => reload \in CS!Parse(serverFile)

ConfigInv == LeavesInv /\ ValidInv /\ AckedInv

(* Parse: what it returns is valid and has the leaves that are there.      *)
LEMMA ParseFacts ==
    ASSUME NEW data, NEW c \in CS!Parse(data)
    PROVE  /\ CS!Validate(c) /\ DOMAIN c = CS!Fields
           /\ \A f \in CS!Fields : data[f] # CS!Missing => c[f] = data[f]
  BY DEF CS!Parse

(* What is left of a file that was cut off are leaves of what was written. *)
LEMMA PrefixFacts ==
    ASSUME CS!ConfigConstants, NEW c, NEW k
    PROVE  /\ \A f \in CS!Fields : CS!Prefix(c, k)[f] \in {c[f], CS!Missing}
           /\ k \in 0 .. 2 => CS!Prefix(c, k) \notin CS!Config
           /\ \A d \in CS!Config, f \in CS!Fields : d[f] # CS!Missing
<1>1. \A f \in CS!Fields : CS!Prefix(c, k)[f] \in {c[f], CS!Missing}
  BY DEF CS!Prefix
<1>2. \A d \in CS!Config, f \in CS!Fields : d[f] # CS!Missing
  BY DEF CS!ConfigConstants, CS!Config, CS!Values, CS!Fields, CS!Missing
<1>3. ASSUME k \in 0 .. 2 PROVE CS!Prefix(c, k)["name"] = CS!Missing
  <2>1. ~\E i \in 1 .. k : CS!Order[i] = "name"
    BY <1>3 DEF CS!Order
  <2> QED
    BY <2>1 DEF CS!Prefix, CS!Fields
<1> QED
  BY <1>1, <1>2, <1>3 DEF CS!Fields

(* The invariant of the configuration holds at the start of the server.    *)
LEMMA ConfigInit == CS!Init => ConfigInv
<1> SUFFICES ASSUME CS!Init PROVE ConfigInv
  OBVIOUS
<1> USE DEF CS!Init, CS!First, CS!defaultConfig, CS!Fields
<1>1. DOMAIN CS!First = CS!Fields /\ CS!First.backend = "nftables"
  OBVIOUS
<1>2. LeavesInv
  BY <1>1 DEF LeavesInv, CS!NotLoaded
<1>3. ValidInv
  BY <1>1 DEF ValidInv, CS!Validate, CS!NotLoaded
<1>4. AckedInv
  BY DEF AckedInv, CS!NotLoaded, CS!AckedInForce, CS!AckedOnDisk, CS!Confirmed
<1> QED
  BY <1>2, <1>3, <1>4 DEF ConfigInv

(* handleUpdateConfig: a write that fails leaves what was in force, or     *)
(* nothing, of every leaf but the one that the update names.               *)
LEMMA FailsStep ==
    ASSUME CS!ConfigConstants, ConfigInv, NEW u \in ConfigSetup.updaters, CS!UpdateFails(u)
    PROVE  ConfigInv'
<1> USE DEF ConfigInv
<1>1. /\ lock = u /\ lock' = CS!Nobody /\ u # CS!Nobody /\ serverUp
      /\ updatePc' = [updatePc EXCEPT ![u] = "failed"] /\ current' = FALSE
      /\ UNCHANGED <<serverUp, cfg, merged, named, reload, acked, spoiled, edits>>
  BY DEF CS!UpdateFails, CS!ConfigConstants, CS!Nobody, LeavesInv
<1>2. PICK k \in 0 .. 2 : serverFile' = CS!Prefix(merged[u], k)
  BY DEF CS!UpdateFails
<1>3. LeavesInv' /\ ValidInv'
  BY <1>1 DEF LeavesInv, ValidInv, CS!NotLoaded
<1>4. updatePc'[u] = "failed" /\ CS!Cut'
  BY <1>1, <1>2, PrefixFacts DEF LeavesInv, CS!Cut, CS!Config
<1>5. ASSUME NEW f \in CS!Fields, f \notin CS!Lost'
      PROVE  f # named[u] /\ serverFile'[f] # CS!Missing
  BY <1>1, <1>4, <1>5 DEF CS!Lost, CS!Fields, CS!Missing
<1>6. ASSUME NEW f \in CS!Confirmed' \ (spoiled' \cup CS!Lost') PROVE serverFile'[f] = acked'[f]
  <2>1. f \in CS!Confirmed \ spoiled /\ f \in CS!Fields /\ f # named[u] /\ serverFile'[f] # CS!Missing
    BY <1>1, <1>5, <1>6 DEF CS!Confirmed, CS!Fields, CS!Missing
  <2>2. serverFile'[f] = merged[u][f]
    BY <1>2, <2>1, PrefixFacts
  <2>3. merged[u][f] = cfg[f] /\ cfg[f] = acked[f]
    BY <1>1, <2>1 DEF AckedInv, CS!AckedInForce
  <2> QED
    BY <1>1, <2>2, <2>3
<1>7. AckedInv'
  BY <1>1, <1>6 DEF AckedInv, CS!AckedInForce, CS!AckedOnDisk, CS!Confirmed, CS!Fields, CS!Missing
<1> QED
  BY <1>3, <1>7

(* The other steps of handleUpdateConfig.                                  *)
LEMMA UpdateStep ==
    ASSUME CS!ConfigConstants, ConfigInv, NEW u \in ConfigSetup.updaters, CS!Update(u)
    PROVE  ConfigInv'
<1> USE DEF ConfigInv
<1>1. u # CS!Nobody
  BY DEF CS!ConfigConstants, CS!Nobody
<1>2. ASSUME NEW f \in CS!Fields, NEW v, CS!UpdateRefuse(u, f, v) PROVE ConfigInv'
  <2>1. /\ updatePc[u] = "new" /\ updatePc' = [updatePc EXCEPT ![u] = "refused"]
        /\ UNCHANGED <<serverUp, serverFile, cfg, lock, merged, named, reload, current, acked, spoiled>>
    BY <1>2 DEF CS!UpdateRefuse
  <2>2. LeavesInv' /\ ValidInv'
    BY <2>1 DEF LeavesInv, ValidInv
  <2>3. \A w \in ConfigSetup.updaters : updatePc'[w] = "failed" <=> updatePc[w] = "failed"
    BY <2>1 DEF LeavesInv
  <2>4. CS!Lost' = CS!Lost
    BY <2>1, <2>3 DEF CS!Lost, CS!Cut, CS!Fields, CS!Missing, CS!Config, CS!Values
  <2>5. AckedInv'
    BY <2>1, <2>4 DEF AckedInv, CS!AckedInForce, CS!AckedOnDisk, CS!Confirmed, CS!Parse, CS!Validate,
       CS!Fields, CS!Missing, CS!Nobody, CS!NotLoaded, CS!defaultConfig
  <2> QED
    BY <2>2, <2>5
<1>3. ASSUME NEW f \in CS!Fields, NEW v, CS!UpdateOpen(u, f, v) PROVE ConfigInv'
  <2>1. /\ lock = CS!Nobody /\ lock' = u /\ serverUp /\ serverUp' = serverUp
        /\ cfg' = cfg /\ reload' = reload /\ current' = FALSE /\ acked' = acked /\ spoiled' = spoiled
        /\ merged'[u] = CS!deepMerge(cfg, f, v) /\ named'[u] = f
        /\ CS!Validate(CS!deepMerge(cfg, f, v))
    BY <1>3 DEF CS!UpdateOpen, LeavesInv
  <2>2. LeavesInv'
    BY <1>3, <2>1 DEF CS!UpdateOpen, LeavesInv, CS!deepMerge
  <2>3. ValidInv'
    BY <2>1 DEF ValidInv
  <2>4. \A g \in CS!Fields : g # f => merged'[u][g] = cfg[g]
    BY <2>1 DEF LeavesInv, CS!deepMerge
  <2>5. AckedInv'
    BY <1>1, <2>1, <2>4 DEF AckedInv, CS!AckedInForce, CS!AckedOnDisk, CS!Confirmed, CS!Nobody, CS!Fields,
       CS!Missing
  <2> QED
    BY <2>2, <2>3, <2>5
<1>4. CASE CS!UpdateFails(u)
  BY <1>4, FailsStep
<1>5. CASE CS!UpdateDone(u)
  <2>1. /\ lock = u /\ lock' = CS!Nobody /\ cfg' = merged[u] /\ serverFile' = merged[u]
        /\ merged' = merged /\ named' = named /\ reload' = reload /\ current' = FALSE
        /\ acked' = [acked EXCEPT ![named[u]] = merged[u][named[u]]]
        /\ spoiled' = spoiled \ {named[u]} /\ serverUp
    BY <1>1, <1>5 DEF CS!UpdateDone, LeavesInv
  <2>2. LeavesInv'
    BY <1>5, <2>1 DEF CS!UpdateDone, LeavesInv
  <2>3. ValidInv'
    BY <1>1, <2>1 DEF ValidInv
  <2>4. ASSUME NEW f \in CS!Confirmed' \ spoiled' PROVE merged[u][f] = acked'[f]
    <3>1. f \in CS!Fields /\ acked'[f] # CS!Missing
      BY <2>4 DEF CS!Confirmed, CS!Fields, CS!Missing
    <3>2. CASE f = named[u]
      BY <2>1, <3>1, <3>2 DEF LeavesInv
    <3>3. CASE f # named[u]
      <4>1. acked'[f] = acked[f] /\ f \in CS!Confirmed \ spoiled
        BY <2>1, <2>4, <3>1, <3>3 DEF LeavesInv, CS!Confirmed
      <4> QED
        BY <1>1, <2>1, <3>1, <3>3, <4>1 DEF AckedInv, CS!AckedInForce
    <3> QED
      BY <3>2, <3>3
  <2>5. AckedInv'
    BY <2>1, <2>4 DEF AckedInv, CS!AckedInForce, CS!AckedOnDisk, CS!Nobody
  <2> QED
    BY <2>2, <2>3, <2>5
<1> QED
  BY <1>2, <1>3, <1>4, <1>5 DEF CS!Update

(* What is read from the file and comes into force has what is confirmed   *)
(* and was neither spoiled before nor lost by the file.                    *)
LEMMA LoadedIsAcked ==
    ASSUME ConfigInv, lock = CS!Nobody, NEW c \in CS!Parse(serverFile),
           NEW f \in CS!Confirmed \ (spoiled \cup CS!Lost)
    PROVE  c[f] = acked[f]
<1>1. f \in CS!Fields /\ acked[f] # CS!Missing /\ serverFile[f] = acked[f]
  BY DEF ConfigInv, AckedInv, CS!AckedOnDisk, CS!Confirmed
<1> QED
  BY <1>1, ParseFacts

(* Crash: what the file has lost of what was confirmed is on record.       *)
LEMMA CrashStep ==
    ASSUME CS!ConfigConstants, ConfigInv, CS!Crash
    PROVE  ConfigInv'
<1> USE DEF ConfigInv
<1>1. /\ serverUp' = FALSE /\ lock' = CS!Nobody /\ reload' = CS!NotLoaded
      /\ UNCHANGED <<cfg, merged, named>>
  BY DEF CS!Crash
<1>2. LeavesInv' /\ ValidInv'
  BY <1>1 DEF CS!Crash, LeavesInv, ValidInv, CS!NotLoaded, CS!Nobody, CS!Validate
<1>3. CS!AckedOnDisk'
  <2>1. CASE lock = CS!Nobody
    <3>1. UNCHANGED <<serverFile, acked, spoiled, updatePc, named, lock>>
      BY <1>1, <2>1 DEF CS!Crash
    <3>2. CS!Lost' = CS!Lost /\ CS!Confirmed' = CS!Confirmed
      BY <3>1 DEF CS!Lost, CS!Cut, CS!Confirmed, CS!Fields, CS!Missing, CS!Config, CS!Values
    <3> QED
      BY <2>1, <3>1, <3>2 DEF AckedInv, CS!AckedOnDisk, CS!Nobody
  <2>2. CASE lock # CS!Nobody
    <3>1. /\ acked' = [acked EXCEPT ![named[lock]] = CS!Missing] /\ spoiled' = spoiled \ {named[lock]}
          /\ serverUp
      BY <2>2 DEF CS!Crash, LeavesInv
    <3>2. PICK k \in 0 .. 3 : serverFile' = CS!Prefix(merged[lock], k)
      BY <2>2 DEF CS!Crash
    <3>3. ASSUME NEW f \in CS!Confirmed' \ (spoiled' \cup CS!Lost') PROVE serverFile'[f] = acked'[f]
      <4>1. f \in CS!Fields /\ acked'[f] # CS!Missing
        BY <3>3 DEF CS!Confirmed, CS!Fields, CS!Missing
      <4>2. f # named[lock] /\ acked'[f] = acked[f] /\ f \in CS!Confirmed \ spoiled
        BY <3>1, <3>3, <4>1 DEF LeavesInv, CS!Confirmed
      <4>3. serverFile'[f] # CS!Missing
        <5>1. CASE CS!Cut'
          BY <3>3, <4>1, <5>1 DEF CS!Lost, CS!Fields, CS!Missing
        <5>2. CASE ~CS!Cut'
          BY <4>1, <5>2, PrefixFacts DEF CS!Cut, CS!Config, CS!Values
        <5> QED
          BY <5>1, <5>2
      <4>4. serverFile'[f] = merged[lock][f]
        BY <3>2, <4>1, <4>3, PrefixFacts
      <4>5. merged[lock][f] = cfg[f] /\ cfg[f] = acked[f]
        BY <2>2, <3>1, <4>1, <4>2 DEF AckedInv, CS!AckedInForce
      <4> QED
        BY <4>2, <4>4, <4>5
    <3> QED
      BY <3>3 DEF CS!AckedOnDisk
  <2> QED
    BY <2>1, <2>2
<1>4. AckedInv'
  BY <1>1, <1>3 DEF AckedInv, CS!AckedInForce, CS!Nobody, CS!NotLoaded, CS!Fields, CS!Missing
<1> QED
  BY <1>2, <1>4

(* Reloads, edits of the file, and the process that starts again.          *)
LEMMA ReloadStep ==
    ASSUME CS!ConfigConstants, ConfigInv,
           CS!ReloadRead \/ CS!ReloadApply \/ CS!Edit \/ CS!Crash \/ CS!Restart
    PROVE  ConfigInv'
<1> USE DEF ConfigInv
<1>1. CASE CS!ReloadRead
  <2>1. UNCHANGED <<serverUp, serverFile, cfg, lock, updatePc, merged, named, acked, spoiled>>
    BY <1>1 DEF CS!ReloadRead
  <2>2. LeavesInv' /\ ValidInv'
    BY <1>1, ParseFacts DEF CS!ReloadRead, LeavesInv, ValidInv
  <2>3. CS!Lost' = CS!Lost /\ CS!Confirmed' = CS!Confirmed
    BY <2>1 DEF CS!Lost, CS!Cut, CS!Confirmed, CS!Fields, CS!Missing, CS!Config, CS!Values
  <2>4. CS!Parse(serverFile)' = CS!Parse(serverFile)
    BY <2>1 DEF CS!Parse, CS!Validate, CS!Fields, CS!Missing, CS!defaultConfig
  <2>5. AckedInv'
    BY <1>1, <2>1, <2>3, <2>4 DEF CS!ReloadRead, AckedInv, CS!AckedInForce, CS!AckedOnDisk, CS!Nobody
  <2> QED
    BY <2>2, <2>5
<1>2. CASE CS!ReloadApply
  <2>1. LeavesInv' /\ ValidInv'
    BY <1>2 DEF CS!ReloadApply, LeavesInv, ValidInv
  <2>2. /\ lock = CS!Nobody /\ lock' = lock /\ cfg' = reload /\ reload # CS!NotLoaded
        /\ reload' = CS!NotLoaded
        /\ UNCHANGED <<serverUp, serverFile, updatePc, merged, named, acked>>
        /\ spoiled' = CS!Confirmed \cap (spoiled \cup (IF current THEN CS!Lost ELSE CS!Fields))
    BY <1>2 DEF CS!ReloadApply
  <2>3. CS!Lost' = CS!Lost /\ CS!Confirmed' = CS!Confirmed /\ CS!Confirmed \subseteq CS!Fields
    BY <2>2 DEF CS!Lost, CS!Cut, CS!Confirmed, CS!Fields, CS!Missing, CS!Config, CS!Values
  <2>4. ASSUME NEW f \in CS!Confirmed \ spoiled' PROVE cfg'[f] = acked'[f]
    <3>1. current /\ f \in CS!Confirmed \ (spoiled \cup CS!Lost)
      BY <2>2, <2>3, <2>4
    <3>2. reload \in CS!Parse(serverFile)
      BY <2>2, <3>1 DEF AckedInv
    <3> QED
      BY <2>2, <3>1, <3>2, LoadedIsAcked
  <2>5. CS!AckedOnDisk'
    BY <2>2, <2>3 DEF AckedInv, CS!AckedOnDisk
  <2>6. AckedInv'
    BY <2>2, <2>3, <2>4, <2>5 DEF AckedInv, CS!AckedInForce, CS!Nobody, CS!NotLoaded, CS!Fields, CS!Missing
  <2> QED
    BY <2>1, <2>6
<1>3. CASE CS!Edit
  <2>1. CS!Confirmed' = {} /\ lock' = CS!Nobody /\ current' = FALSE
    BY <1>3 DEF CS!Edit, CS!Confirmed, CS!NotLoaded
  <2>2. LeavesInv' /\ ValidInv'
    BY <1>3 DEF CS!Edit, LeavesInv, ValidInv, CS!NotLoaded
  <2>3. AckedInv'
    BY <2>1 DEF AckedInv, CS!AckedInForce, CS!AckedOnDisk, CS!Nobody
  <2> QED
    BY <2>2, <2>3
<1>4. CASE CS!Crash
  BY <1>4, CrashStep
<1>5. CASE CS!Restart
  <2>1. LeavesInv' /\ ValidInv'
    BY <1>5, ParseFacts DEF CS!Restart, LeavesInv, ValidInv
  <2>2. /\ ~serverUp /\ lock = CS!Nobody /\ lock' = lock
        /\ UNCHANGED <<serverFile, updatePc, merged, named, reload, current, acked>>
        /\ spoiled' = CS!Confirmed \cap (spoiled \cup CS!Lost)
        /\ cfg' \in CS!Parse(serverFile)
    BY <1>5 DEF CS!Restart, LeavesInv
  <2>3. CS!Lost' = CS!Lost /\ CS!Confirmed' = CS!Confirmed
    BY <2>2 DEF CS!Lost, CS!Cut, CS!Confirmed, CS!Fields, CS!Missing, CS!Config, CS!Values
  <2>4. ASSUME NEW f \in CS!Confirmed \ spoiled' PROVE cfg'[f] = acked'[f]
    <3>1. f \in CS!Confirmed \ (spoiled \cup CS!Lost)
      BY <2>2, <2>4
    <3> QED
      BY <2>2, <3>1, LoadedIsAcked
  <2>5. CS!AckedOnDisk'
    BY <2>2, <2>3 DEF AckedInv, CS!AckedOnDisk
  <2>6. CS!Parse(serverFile)' = CS!Parse(serverFile)
    BY <2>2 DEF CS!Parse, CS!Validate, CS!Fields, CS!Missing, CS!defaultConfig
  <2>7. AckedInv'
    BY <2>2, <2>3, <2>4, <2>5, <2>6 DEF AckedInv, CS!AckedInForce, CS!Nobody, CS!NotLoaded, CS!Fields,
       CS!Missing
  <2> QED
    BY <2>1, <2>7
<1> QED
  BY <1>1, <1>2, <1>3, <1>4, <1>5

(* The invariant holds through updates, reloads, edits and restarts.       *)
THEOREM ConfigInvariant == Spec => [](part = "config" => ConfigInv)
<1> USE ConfigAssumption
<1>1. Init => (part = "config" => ConfigInv)
  BY ConfigInit DEF Init
<1>2. ConfigInv /\ [CS!Next]_(CS!vars) => ConfigInv'
  <2>1. ConfigInv /\ UNCHANGED CS!vars => ConfigInv'
    BY DEF CS!vars, ConfigInv, LeavesInv, ValidInv, AckedInv, CS!AckedInForce, CS!AckedOnDisk,
       CS!Confirmed, CS!Lost, CS!Cut, CS!Parse, CS!Validate, CS!Fields, CS!Missing, CS!Nobody,
       CS!NotLoaded, CS!defaultConfig, CS!Config, CS!Values
  <2> QED
    BY <2>1, UpdateStep, ReloadStep DEF CS!Next
<1>3. [Next]_vars => part' = part /\ (part = "config" => [CS!Next]_(CS!vars))
  BY DEF Next, vars, configVars, CS!vars
<1>4. (part = "config" => ConfigInv) /\ [Next]_vars => (part = "config" => ConfigInv)'
  BY <1>2, <1>3
<1> QED
  BY <1>1, <1>4, PTL DEF Spec

(* handleUpdateConfig and config.Parse: however many updates, reloads,     *)
(* edits, failed writes and crashes there are, a confirmed update is on    *)
(* disk until a later write that is cut short loses its leaf, and in force *)
(* until a file that lost it is loaded or a reload comes too late; and     *)
(* what is in force is valid.                                              *)
THEOREM ConfigKeptHolds == Spec => []ConfigKept
<1>1. ConfigInv => CS!ConfigKept
  BY DEF ConfigInv, ValidInv, AckedInv, CS!ConfigKept, CS!ValidInForce
<1> QED
  BY ConfigInvariant, <1>1, PTL DEF ConfigKept

-----------------------------------------------------------------------------
(* The bridge.  A call has a connection while it sends and waits.          *)
BridgeTyped ==
    /\ link \in [BridgeSetup.conns -> {"unused", "busy", "idle", "closed"}]
    /\ DOMAIN alive = BridgeSetup.conns
    /\ work \in [BridgeSetup.conns -> BridgeSetup.calls \cup {BR!None}]
    /\ reply \in [BridgeSetup.conns -> BR!Verdicts \cup {BR!None, "cut"}]
    /\ callPc \in [BridgeSetup.calls -> {"new", "dial", "send", "wait", "done"}]
    /\ on \in [BridgeSetup.calls -> BridgeSetup.conns \cup {BR!None}]
    /\ age \in [BridgeSetup.calls -> 0 .. BridgeSetup.timeout]
    /\ result \in [BridgeSetup.calls -> BR!Verdicts \cup {BR!None, "unavailable", "undecodable"}]
    /\ heard \in [BridgeSetup.calls -> {BR!None, "allow", "deny", "gone"}]
    /\ DOMAIN said = BridgeSetup.calls /\ DOMAIN fault = BridgeSetup.calls

(* Nobody shares a connection, and what is in the pool has neither work    *)
(* nor an answer of an earlier call left.                                  *)
LinkInv ==
    /\ \A c \in BridgeSetup.calls :
          /\ callPc[c] \in {"send", "wait"} <=> on[c] # BR!None
          /\ on[c] # BR!None => link[on[c]] = "busy"
    /\ \A c, d \in BridgeSetup.calls : c # d /\ on[c] # BR!None => on[c] # on[d]
    /\ \A k \in BridgeSetup.conns :
          /\ link[k] \in {"unused", "idle"} => work[k] = BR!None /\ reply[k] = BR!None
          /\ work[k] # BR!None => reply[k] = BR!None

(* The daemon works on a call at most once, on the connection on which the *)
(* call waits, if it still does.                                           *)
WorkInv ==
    /\ \A k, j \in BridgeSetup.conns : work[k] # BR!None /\ work[k] = work[j] => k = j
    /\ \A k \in BridgeSetup.conns, c \in BridgeSetup.calls :
          work[k] = c => /\ callPc[c] \in {"wait", "done"} /\ said[c] = {}
                         /\ callPc[c] = "wait" => on[c] = k
    /\ \A c \in BridgeSetup.calls :
          /\ callPc[c] \in {"new", "dial", "send"} => said[c] = {}
          /\ callPc[c] = "send" => work[on[c]] = BR!None /\ reply[on[c]] = BR!None
          /\ callPc[c] = "wait" => work[on[c]] \in {c, BR!None}

(* An answer is what the daemon said of the call that waits for it.        *)
SaidInv ==
    \A c \in BridgeSetup.calls :
        /\ said[c] = {} \/ \E w \in said[c] : said[c] = {w}
        /\ callPc[c] = "wait" /\ reply[on[c]] \in BR!Verdicts => <<on[c], reply[on[c]]>> \in said[c]
        /\ result[c] \in BR!Verdicts => \E k \in BridgeSetup.conns : <<k, result[c]>> \in said[c]

(* As long as nothing went wrong the daemon and the connections are there. *)
FaultInv ==
    /\ daemon = "up" => sock = "live"
    /\ \A c \in BridgeSetup.calls :
          /\ c \in BR!Busy /\ ~fault[c] =>
                daemon = "up" /\ \A k \in BridgeSetup.conns : BR!Open(k) => alive[k]
          /\ age[c] = BridgeSetup.timeout => fault[c]
          /\ result[c] \in {"unavailable", "undecodable"} => fault[c]

(* While a bridge that is the first to give up has not, nginx waits.       *)
HeardInv ==
    \A c \in BridgeSetup.calls :
        /\ callPc[c] = "new" => age[c] = 0
        /\ callPc[c] # "done" => result[c] = BR!None
        /\ BridgeSetup.timeout < BridgeSetup.patience =>
              /\ callPc[c] # "done" => heard[c] = BR!None
              /\ result[c] \in {"unavailable", "undecodable"} => heard[c] = "allow"

BridgeInv == BridgeTyped /\ LinkInv /\ WorkInv /\ SaidInv /\ FaultInv /\ HeardInv

(* What the daemon does.                                                   *)
LEMMA DaemonStep ==
    ASSUME BR!BridgeConstants, BridgeInv,
           \/ BR!Remove \/ BR!Listen
           \/ \E k \in BridgeSetup.conns : BR!Score(k)
           \/ BR!End
    PROVE  BridgeInv'
<1> USE DEF BR!process, BR!pool, BR!calls
<1>0. /\ BridgeTyped /\ LinkInv /\ WorkInv /\ SaidInv /\ FaultInv /\ HeardInv
      /\ \A c \in BridgeSetup.calls : on[c] \in BridgeSetup.conns \cup {BR!None}
      /\ BR!None \notin BridgeSetup.calls \cup BridgeSetup.conns
      /\ {BR!None, "cut", "unavailable", "undecodable"} \cap BR!Verdicts = {}
  BY DEF BR!BridgeConstants, BridgeInv, BridgeTyped, BR!None, BR!Verdicts
<1>1. CASE BR!Remove \/ BR!Listen
  <2>1. /\ link' = link /\ work' = work /\ reply' = reply /\ callPc' = callPc /\ on' = on
        /\ said' = said /\ result' = result
    BY <1>0, <1>1 DEF BridgeTyped, BR!Remove, BR!Listen
  <2>2. BridgeTyped'
    BY <1>0, <1>1 DEF BridgeTyped, BR!BridgeConstants, BR!Remove, BR!Listen
  <2>3. LinkInv'
    BY <1>0, <2>1 DEF LinkInv
  <2>4. WorkInv'
    BY <1>0, <2>1 DEF LinkInv, WorkInv
  <2>5. SaidInv'
    BY <1>0, <2>1 DEF LinkInv, WorkInv, SaidInv, HeardInv
  <2>6. FaultInv'
    BY <1>0, <1>1 DEF BridgeTyped, LinkInv, FaultInv, HeardInv, BR!Busy, BR!Open,
       BR!BridgeConstants, BR!Remove, BR!Listen
  <2>7. HeardInv'
    BY <1>0, <1>1 DEF BridgeTyped, HeardInv, BR!BridgeConstants, BR!Remove, BR!Listen
  <2> QED
    BY <2>2, <2>3, <2>4, <2>5, <2>6, <2>7 DEF BridgeInv
<1>2. ASSUME NEW k \in BridgeSetup.conns, BR!Score(k) PROVE BridgeInv'
  <2>0. PICK v \in BR!Verdicts : /\ reply' = [reply EXCEPT ![k] = v]
                                /\ said' = [said EXCEPT ![work[k]] = @ \cup {<<k, v>>}]
    BY <1>2 DEF BR!Score, BR!Verdicts
  <2>1. /\ work[k] \in BridgeSetup.calls
        /\ link' = link /\ callPc' = callPc /\ on' = on /\ result' = result
        /\ \A j \in BridgeSetup.conns : work'[j] = IF j = k THEN BR!None ELSE work[j]
        /\ \A j \in BridgeSetup.conns : reply'[j] = IF j = k THEN v ELSE reply[j]
        /\ \A c \in BridgeSetup.calls :
              said'[c] = IF c = work[k] THEN said[c] \cup {<<k, v>>} ELSE said[c]
    <3>1. work[k] \in BridgeSetup.calls /\ work' = [work EXCEPT ![k] = BR!None]
      BY <1>0, <1>2 DEF BridgeTyped, BR!Score
    <3>2. \A c \in BridgeSetup.calls :
             said'[c] = IF c = work[k] THEN said[c] \cup {<<k, v>>} ELSE said[c]
      BY <1>0, <2>0 DEF BridgeTyped
    <3> QED
      BY <1>0, <1>2, <2>0, <3>1, <3>2 DEF BridgeTyped, BR!Score
  <2>2. BridgeTyped'
    BY <1>0, <1>2, <2>0, <2>1 DEF BridgeTyped, BR!Score
  <2>3. LinkInv'
    BY <1>0, <2>1 DEF LinkInv
  <2>4. WorkInv'
    <3>1. \A j, l \in BridgeSetup.conns : work'[j] # BR!None /\ work'[j] = work'[l] => j = l
      BY <1>0, <2>1 DEF WorkInv
    <3>2. \A j \in BridgeSetup.conns, c \in BridgeSetup.calls :
             work'[j] = c => c # work[k] /\ work[j] = c
      BY <1>0, <2>1 DEF WorkInv
    <3>3. \A j \in BridgeSetup.conns, c \in BridgeSetup.calls :
             work'[j] = c => /\ callPc'[c] \in {"wait", "done"} /\ said'[c] = {}
                             /\ callPc'[c] = "wait" => on'[c] = j
      <4> SUFFICES ASSUME NEW j \in BridgeSetup.conns, NEW c \in BridgeSetup.calls, work'[j] = c
                   PROVE  /\ callPc[c] \in {"wait", "done"} /\ said'[c] = {}
                          /\ callPc[c] = "wait" => on[c] = j
        BY <2>1
      <4>1. c # work[k] /\ work[j] = c
        BY <3>2
      <4>2. said'[c] = said[c]
        BY <2>1, <4>1
      <4> QED
        BY <1>0, <4>1, <4>2 DEF WorkInv
    <3>4. ASSUME NEW c \in BridgeSetup.calls
          PROVE  /\ callPc'[c] \in {"new", "dial", "send"} => said'[c] = {}
                 /\ callPc'[c] = "send" => work'[on'[c]] = BR!None /\ reply'[on'[c]] = BR!None
                 /\ callPc'[c] = "wait" => work'[on'[c]] \in {c, BR!None}
      <4>1. callPc[c] \in {"send", "wait"} => on[c] \in BridgeSetup.conns
        BY <1>0 DEF LinkInv
      <4>2. callPc[c] \in {"new", "dial", "send"} => c # work[k] /\ said[c] = {}
        BY <1>0, <2>1 DEF WorkInv
      <4>3. callPc[c] = "send" => on[c] # k
        BY <1>0, <2>1 DEF WorkInv
      <4>4. callPc[c] = "wait" => work[on[c]] \in {c, BR!None}
        BY <1>0 DEF WorkInv
      <4>5. callPc[c] = "send" => work[on[c]] = BR!None /\ reply[on[c]] = BR!None
        BY <1>0 DEF WorkInv
      <4> QED
        BY <2>1, <4>1, <4>2, <4>3, <4>4, <4>5
    <3> QED
      BY <3>1, <3>3, <3>4 DEF WorkInv
  <2>5. SaidInv'
    <3> SUFFICES ASSUME NEW c \in BridgeSetup.calls
                 PROVE  /\ said'[c] = {} \/ \E w \in said'[c] : said'[c] = {w}
                        /\ callPc[c] = "wait" /\ reply'[on[c]] \in BR!Verdicts =>
                              <<on[c], reply'[on[c]]>> \in said'[c]
                        /\ result[c] \in BR!Verdicts =>
                              \E j \in BridgeSetup.conns : <<j, result[c]>> \in said'[c]
      BY <2>1 DEF SaidInv, BR!Verdicts
    <3>1. CASE c = work[k]
      <4>1. said[c] = {} /\ said'[c] = {<<k, v>>} /\ callPc[c] \in {"wait", "done"}
        BY <1>0, <2>1, <3>1 DEF WorkInv
      <4>2. callPc[c] = "wait" => on[c] = k /\ reply'[k] = v
        BY <1>0, <2>1, <3>1 DEF WorkInv
      <4>3. result[c] \notin BR!Verdicts
        BY <1>0, <4>1 DEF SaidInv
      <4> QED
        BY <4>1, <4>2, <4>3
    <3>2. CASE c # work[k]
      <4>1. said'[c] = said[c]
        BY <2>1, <3>2
      <4>2. callPc[c] = "wait" => on[c] # k \/ work[k] = c \/ work[k] = BR!None
        BY <1>0 DEF WorkInv
      <4>3. callPc[c] = "wait" => on[c] \in BridgeSetup.conns /\ reply'[on[c]] = reply[on[c]]
        BY <1>0, <2>1, <3>2, <4>2 DEF LinkInv
      <4> QED
        BY <1>0, <4>1, <4>3 DEF SaidInv
    <3> QED
      BY <3>1, <3>2
  <2>6. FaultInv'
    BY <1>0, <1>2 DEF BridgeTyped, LinkInv, FaultInv, HeardInv, BR!Busy, BR!Open,
       BR!BridgeConstants, BR!Score
  <2>7. HeardInv'
    BY <1>0, <1>2 DEF BridgeTyped, HeardInv, BR!BridgeConstants, BR!Score
  <2> QED
    BY <2>2, <2>3, <2>4, <2>5, <2>6, <2>7 DEF BridgeInv
<1>3. CASE BR!End
  <2>1. /\ link' = link /\ callPc' = callPc /\ on' = on /\ said' = said /\ result' = result
        /\ \A k \in BridgeSetup.conns : work'[k] = BR!None /\ reply'[k] \in {reply[k], "cut"}
        /\ \A k \in BridgeSetup.conns : reply[k] = BR!None => reply'[k] = BR!None
    BY <1>0, <1>3 DEF BridgeTyped, BR!End
  <2>2. BridgeTyped'
    BY <1>0, <1>3 DEF BridgeTyped, BR!BridgeConstants, BR!End
  <2>3. LinkInv'
    BY <1>0, <2>1 DEF LinkInv
  <2>4. WorkInv'
    BY <1>0, <2>1 DEF LinkInv, WorkInv
  <2>5. SaidInv'
    BY <1>0, <2>1 DEF LinkInv, WorkInv, SaidInv, HeardInv
  <2>6. FaultInv'
    BY <1>0, <1>3 DEF BridgeTyped, LinkInv, FaultInv, HeardInv, BR!Busy, BR!Open,
       BR!BridgeConstants, BR!End
  <2>7. HeardInv'
    BY <1>0, <1>3 DEF BridgeTyped, HeardInv, BR!BridgeConstants, BR!End
  <2> QED
    BY <2>2, <2>3, <2>4, <2>5, <2>6, <2>7 DEF BridgeInv
<1> QED
  BY <1>1, <1>2, <1>3

(* What was said of a call remains true where nothing is said or returned, *)
(* and no call finds an answer that it did not have.                       *)
LEMMA SaidKept ==
    ASSUME SaidInv, said' = said, result' = result,
           \A d \in BridgeSetup.calls : callPc'[d] = "wait" /\ reply'[on'[d]] \in BR!Verdicts =>
              callPc[d] = "wait" /\ on'[d] = on[d] /\ reply'[on[d]] = reply[on[d]]
    PROVE  SaidInv'
<1> SUFFICES ASSUME NEW d \in BridgeSetup.calls
             PROVE  /\ said[d] = {} \/ \E w \in said[d] : said[d] = {w}
                    /\ callPc'[d] = "wait" /\ reply'[on'[d]] \in BR!Verdicts =>
                          <<on'[d], reply'[on'[d]]>> \in said[d]
                    /\ result[d] \in BR!Verdicts =>
                          \E k \in BridgeSetup.conns : <<k, result[d]>> \in said[d]
  BY DEF SaidInv, BR!Verdicts
<1>1. said[d] = {} \/ \E w \in said[d] : said[d] = {w}
  BY DEF SaidInv
<1>2. callPc'[d] = "wait" /\ reply'[on'[d]] \in BR!Verdicts => <<on'[d], reply'[on'[d]]>> \in said[d]
  BY DEF SaidInv
<1>3. result[d] \in BR!Verdicts => \E k \in BridgeSetup.conns : <<k, result[d]>> \in said[d]
  BY DEF SaidInv
<1> QED
  BY <1>1, <1>2, <1>3

(* What a call does until it has sent its request, and the pool itself.    *)
LEMMA SendStep ==
    ASSUME BR!BridgeConstants, BridgeInv,
           \/ \E c \in BridgeSetup.calls : BR!Begin(c)
           \/ \E c \in BridgeSetup.calls : \E k \in BridgeSetup.conns : BR!Take(c, k)
           \/ \E c \in BridgeSetup.calls : \E k \in BridgeSetup.conns : BR!Dial(c, k)
           \/ \E c \in BridgeSetup.calls : BR!Send(c)
           \/ \E k \in BridgeSetup.conns : BR!Notice(k)
    PROVE  BridgeInv'
<1> USE DEF BR!process, BR!pool, BR!calls
<1>0. /\ BridgeTyped /\ LinkInv /\ WorkInv /\ SaidInv /\ FaultInv /\ HeardInv
      /\ \A c \in BridgeSetup.calls : on[c] \in BridgeSetup.conns \cup {BR!None}
      /\ BR!None \notin BridgeSetup.calls \cup BridgeSetup.conns
      /\ {BR!None, "cut", "unavailable", "undecodable"} \cap BR!Verdicts = {}
  BY DEF BR!BridgeConstants, BridgeInv, BridgeTyped, BR!None, BR!Verdicts
<1>1. ASSUME NEW c \in BridgeSetup.calls, BR!Begin(c) PROVE BridgeInv'
  <2>1. /\ callPc[c] = "new"
        /\ link' = link /\ work' = work /\ reply' = reply /\ on' = on /\ said' = said /\ result' = result
        /\ \A d \in BridgeSetup.calls : callPc'[d] = IF d = c THEN "dial" ELSE callPc[d]
    BY <1>0, <1>1 DEF BridgeTyped, BR!Begin
  <2>2. BridgeTyped'
    BY <1>0, <1>1 DEF BridgeTyped, BR!BridgeConstants, BR!Begin
  <2>3. LinkInv'
    BY <1>0, <2>1 DEF LinkInv
  <2>4. WorkInv'
    BY <1>0, <2>1 DEF LinkInv, WorkInv
  <2>5. SaidInv'
    <3>1. \A d \in BridgeSetup.calls : callPc'[d] = "wait" /\ reply'[on'[d]] \in BR!Verdicts =>
             callPc[d] = "wait" /\ on'[d] = on[d] /\ reply'[on[d]] = reply[on[d]]
      BY <1>0, <2>1 DEF LinkInv, WorkInv
    <3> QED
      BY <1>0, <2>1, <3>1, SaidKept
  <2>6. FaultInv'
    <3>1. /\ daemon' = daemon /\ sock' = sock /\ link' = link /\ alive' = alive /\ age' = age
          /\ result' = result /\ callPc[c] = "new"
          /\ \A d \in BridgeSetup.calls : d # c => fault'[d] = fault[d] /\ callPc'[d] = callPc[d]
      BY <1>0, <1>1 DEF BridgeTyped, BR!Begin
    <3>2. ~fault'[c] => daemon = "up" /\ \A k \in BridgeSetup.conns : BR!Open(k) => alive[k]
      BY <1>0, <1>1 DEF BridgeTyped, BR!Begin
    <3>3. age[c] # BridgeSetup.timeout /\ result[c] = BR!None
      BY <1>0, <3>1 DEF HeardInv, BR!BridgeConstants
    <3> QED
      BY <1>0, <3>1, <3>2, <3>3 DEF FaultInv, BR!Busy, BR!Open, BR!None
  <2>7. HeardInv'
    BY <1>0, <1>1 DEF BridgeTyped, HeardInv, BR!BridgeConstants, BR!Begin
  <2> QED
    BY <2>2, <2>3, <2>4, <2>5, <2>6, <2>7 DEF BridgeInv
<1>2. ASSUME NEW c \in BridgeSetup.calls, NEW k \in BridgeSetup.conns, BR!Take(c, k) PROVE BridgeInv'
  <2>1. /\ callPc[c] = "dial" /\ link[k] = "idle"
        /\ work' = work /\ reply' = reply /\ said' = said /\ result' = result
        /\ \A j \in BridgeSetup.conns : link'[j] = IF j = k THEN "busy" ELSE link[j]
        /\ \A d \in BridgeSetup.calls : on'[d] = IF d = c THEN k ELSE on[d]
        /\ \A d \in BridgeSetup.calls : callPc'[d] = IF d = c THEN "send" ELSE callPc[d]
    BY <1>0, <1>2 DEF BridgeTyped, BR!Take
  <2>2. BridgeTyped'
    BY <1>0, <1>2 DEF BridgeTyped, BR!BridgeConstants, BR!Take
  <2>3. LinkInv'
    BY <1>0, <2>1 DEF LinkInv
  <2>4. WorkInv'
    BY <1>0, <2>1 DEF LinkInv, WorkInv
  <2>5. SaidInv'
    <3>1. \A d \in BridgeSetup.calls : callPc'[d] = "wait" /\ reply'[on'[d]] \in BR!Verdicts =>
             callPc[d] = "wait" /\ on'[d] = on[d] /\ reply'[on[d]] = reply[on[d]]
      BY <1>0, <2>1 DEF LinkInv, WorkInv
    <3> QED
      BY <1>0, <2>1, <3>1, SaidKept
  <2>6. FaultInv'
    BY <1>0, <1>2 DEF BridgeTyped, LinkInv, FaultInv, HeardInv, BR!Busy, BR!Open,
       BR!BridgeConstants, BR!Take
  <2>7. HeardInv'
    BY <1>0, <1>2 DEF BridgeTyped, HeardInv, BR!BridgeConstants, BR!Take
  <2> QED
    BY <2>2, <2>3, <2>4, <2>5, <2>6, <2>7 DEF BridgeInv
<1>3. ASSUME NEW c \in BridgeSetup.calls, NEW k \in BridgeSetup.conns, BR!Dial(c, k) PROVE BridgeInv'
  <2>1. /\ callPc[c] = "dial" /\ link[k] = "unused"
        /\ work' = work /\ reply' = reply /\ said' = said /\ result' = result
        /\ \A j \in BridgeSetup.conns : link'[j] = IF j = k THEN "busy" ELSE link[j]
        /\ \A d \in BridgeSetup.calls : on'[d] = IF d = c THEN k ELSE on[d]
        /\ \A d \in BridgeSetup.calls : callPc'[d] = IF d = c THEN "send" ELSE callPc[d]
    BY <1>0, <1>3 DEF BridgeTyped, BR!Dial
  <2>2. BridgeTyped'
    BY <1>0, <1>3 DEF BridgeTyped, BR!BridgeConstants, BR!Dial
  <2>3. LinkInv'
    BY <1>0, <2>1 DEF LinkInv
  <2>4. WorkInv'
    BY <1>0, <2>1 DEF LinkInv, WorkInv
  <2>5. SaidInv'
    <3>1. \A d \in BridgeSetup.calls : callPc'[d] = "wait" /\ reply'[on'[d]] \in BR!Verdicts =>
             callPc[d] = "wait" /\ on'[d] = on[d] /\ reply'[on[d]] = reply[on[d]]
      BY <1>0, <2>1 DEF LinkInv, WorkInv
    <3> QED
      BY <1>0, <2>1, <3>1, SaidKept
  <2>6. FaultInv'
    BY <1>0, <1>3 DEF BridgeTyped, LinkInv, FaultInv, HeardInv, BR!Busy, BR!Open,
       BR!BridgeConstants, BR!Dial
  <2>7. HeardInv'
    BY <1>0, <1>3 DEF BridgeTyped, HeardInv, BR!BridgeConstants, BR!Dial
  <2> QED
    BY <2>2, <2>3, <2>4, <2>5, <2>6, <2>7 DEF BridgeInv
<1>4. ASSUME NEW c \in BridgeSetup.calls, BR!Send(c) PROVE BridgeInv'
  <2>1. /\ callPc[c] = "send"
        /\ link' = link /\ reply' = reply /\ on' = on /\ said' = said /\ result' = result
        /\ \A j \in BridgeSetup.conns : work'[j] = IF j = on[c] THEN c ELSE work[j]
        /\ \A d \in BridgeSetup.calls : callPc'[d] = IF d = c THEN "wait" ELSE callPc[d]
    BY <1>0, <1>4 DEF BridgeTyped, BR!Send
  <2>2. BridgeTyped'
    BY <1>0, <1>4 DEF BridgeTyped, BR!BridgeConstants, BR!Send
  <2>3. LinkInv'
    BY <1>0, <2>1 DEF LinkInv, WorkInv
  <2>4. WorkInv'
    BY <1>0, <2>1 DEF LinkInv, WorkInv
  <2>5. SaidInv'
    BY <1>0, <2>1 DEF LinkInv, WorkInv, SaidInv, HeardInv
  <2>6. FaultInv'
    BY <1>0, <1>4 DEF BridgeTyped, LinkInv, FaultInv, HeardInv, BR!Busy, BR!Open,
       BR!BridgeConstants, BR!Send
  <2>7. HeardInv'
    BY <1>0, <1>4 DEF BridgeTyped, HeardInv, BR!BridgeConstants, BR!Send
  <2> QED
    BY <2>2, <2>3, <2>4, <2>5, <2>6, <2>7 DEF BridgeInv
<1>5. ASSUME NEW k \in BridgeSetup.conns, BR!Notice(k) PROVE BridgeInv'
  <2>1. /\ link[k] = "idle"
        /\ work' = work /\ reply' = reply /\ callPc' = callPc /\ on' = on
        /\ said' = said /\ result' = result
        /\ \A j \in BridgeSetup.conns : link'[j] = IF j = k THEN "closed" ELSE link[j]
    BY <1>0, <1>5 DEF BridgeTyped, BR!Notice, BR!Close
  <2>2. BridgeTyped'
    BY <1>0, <1>5 DEF BridgeTyped, BR!BridgeConstants, BR!Notice, BR!Close
  <2>3. LinkInv'
    BY <1>0, <2>1 DEF LinkInv
  <2>4. WorkInv'
    BY <1>0, <2>1 DEF LinkInv, WorkInv
  <2>5. SaidInv'
    BY <1>0, <2>1 DEF LinkInv, WorkInv, SaidInv, HeardInv
  <2>6. FaultInv'
    BY <1>0, <1>5 DEF BridgeTyped, LinkInv, FaultInv, HeardInv, BR!Busy, BR!Open,
       BR!BridgeConstants, BR!Notice, BR!Close
  <2>7. HeardInv'
    BY <1>0, <1>5 DEF BridgeTyped, HeardInv, BR!BridgeConstants, BR!Notice, BR!Close
  <2> QED
    BY <2>2, <2>3, <2>4, <2>5, <2>6, <2>7 DEF BridgeInv
<1> QED
  BY <1>1, <1>2, <1>3, <1>4, <1>5

(* How a call ends.                                                        *)
LEMMA ReturnStep ==
    ASSUME BR!BridgeConstants, BridgeInv,
           \/ \E c \in BridgeSetup.calls : BR!DialFails(c)
           \/ \E c \in BridgeSetup.calls : BR!SendFails(c)
           \/ \E c \in BridgeSetup.calls : BR!Broken(c)
           \/ \E c \in BridgeSetup.calls : BR!Receive(c)
           \/ \E c \in BridgeSetup.calls : BR!TimeoutEvaluate(c)
    PROVE  BridgeInv'
<1> USE DEF BR!process, BR!pool, BR!calls
<1>0. /\ BridgeTyped /\ LinkInv /\ WorkInv /\ SaidInv /\ FaultInv /\ HeardInv
      /\ \A c \in BridgeSetup.calls : on[c] \in BridgeSetup.conns \cup {BR!None}
      /\ BR!None \notin BridgeSetup.calls \cup BridgeSetup.conns
      /\ {BR!None, "cut", "unavailable", "undecodable"} \cap BR!Verdicts = {}
  BY DEF BR!BridgeConstants, BridgeInv, BridgeTyped, BR!None, BR!Verdicts
<1>1. ASSUME NEW c \in BridgeSetup.calls, BR!DialFails(c) PROVE BridgeInv'
  <2>1. /\ callPc[c] = "dial"
        /\ link' = link /\ work' = work /\ reply' = reply /\ said' = said
        /\ \A d \in BridgeSetup.calls : callPc'[d] = IF d = c THEN "done" ELSE callPc[d]
        /\ \A d \in BridgeSetup.calls : on'[d] = IF d = c THEN BR!None ELSE on[d]
        /\ \A d \in BridgeSetup.calls : result'[d] = IF d = c THEN "unavailable" ELSE result[d]
    BY <1>0, <1>1 DEF BridgeTyped, BR!DialFails, BR!Return
  <2>2. BridgeTyped'
    BY <1>0, <1>1 DEF BridgeTyped, BR!BridgeConstants, BR!DialFails, BR!Return
  <2>3. LinkInv'
    BY <1>0, <2>1 DEF LinkInv
  <2>4. WorkInv'
    BY <1>0, <2>1 DEF LinkInv, WorkInv
  <2>5. SaidInv'
    BY <1>0, <2>1 DEF LinkInv, WorkInv, SaidInv, HeardInv
  <2>6. FaultInv'
    BY <1>0, <1>1 DEF BridgeTyped, LinkInv, FaultInv, HeardInv, BR!Busy, BR!Open,
       BR!BridgeConstants, BR!DialFails, BR!Return
  <2>7. HeardInv'
    BY <1>0, <1>1 DEF BridgeTyped, HeardInv, BR!BridgeConstants, BR!DialFails, BR!Return
  <2> QED
    BY <2>2, <2>3, <2>4, <2>5, <2>6, <2>7 DEF BridgeInv
<1>2. ASSUME NEW c \in BridgeSetup.calls, BR!SendFails(c) PROVE BridgeInv'
  <2>1. /\ callPc[c] = "send"
        /\ work' = work /\ reply' = reply /\ said' = said
        /\ \A k \in BridgeSetup.conns : link'[k] = IF k = on[c] THEN "closed" ELSE link[k]
        /\ \A d \in BridgeSetup.calls : on'[d] = IF d = c THEN BR!None ELSE on[d]
        /\ \A d \in BridgeSetup.calls : d # c => callPc'[d] = callPc[d] /\ result'[d] = result[d]
        /\ \/ callPc'[c] = "done" /\ result'[c] = "unavailable"
           \/ callPc'[c] = "dial" /\ result'[c] = result[c]
    BY <1>0, <1>2 DEF BridgeTyped, BR!SendFails, BR!Return, BR!Close
  <2>2. BridgeTyped'
    BY <1>0, <1>2, <2>1 DEF BridgeTyped, LinkInv, BR!SendFails, BR!Return, BR!Close
  <2>3. LinkInv'
    BY <1>0, <2>1 DEF LinkInv
  <2>4. WorkInv'
    BY <1>0, <2>1 DEF LinkInv, WorkInv
  <2>5. SaidInv'
    <3> SUFFICES ASSUME NEW d \in BridgeSetup.calls
                 PROVE  /\ said[d] = {} \/ \E w \in said[d] : said[d] = {w}
                        /\ callPc'[d] = "wait" /\ reply'[on'[d]] \in BR!Verdicts =>
                              <<on'[d], reply'[on'[d]]>> \in said[d]
                        /\ result'[d] \in BR!Verdicts =>
                              \E k \in BridgeSetup.conns : <<k, result'[d]>> \in said[d]
      BY <2>1 DEF SaidInv, BR!Verdicts
    <3>1. said[d] = {} \/ \E w \in said[d] : said[d] = {w}
      BY <1>0 DEF SaidInv
    <3>2. ASSUME callPc'[d] = "wait", reply'[on'[d]] \in BR!Verdicts
          PROVE  <<on'[d], reply'[on'[d]]>> \in said[d]
      <4>1. callPc[d] = "wait" /\ on'[d] = on[d] /\ reply'[on[d]] = reply[on[d]]
        BY <1>0, <2>1, <3>2 DEF LinkInv, WorkInv
      <4> QED
        BY <1>0, <3>2, <4>1 DEF SaidInv
    <3>3. result'[d] \in BR!Verdicts => \E k \in BridgeSetup.conns : <<k, result'[d]>> \in said[d]
      BY <1>0, <2>1 DEF LinkInv, SaidInv
    <3> QED
      BY <3>1, <3>2, <3>3
  <2>6. FaultInv'
    BY <1>0, <1>2 DEF BridgeTyped, LinkInv, FaultInv, HeardInv, BR!Busy, BR!Open,
       BR!BridgeConstants, BR!SendFails, BR!Return, BR!Close
  <2>7. HeardInv'
    BY <1>0, <1>2 DEF BridgeTyped, HeardInv, BR!BridgeConstants, BR!SendFails, BR!Return,
       BR!Close
  <2> QED
    BY <2>2, <2>3, <2>4, <2>5, <2>6, <2>7 DEF BridgeInv
<1>3. ASSUME NEW c \in BridgeSetup.calls, BR!Broken(c) PROVE BridgeInv'
  <2>1. /\ callPc[c] = "wait"
        /\ work' = work /\ reply' = reply /\ said' = said
        /\ \A k \in BridgeSetup.conns : link'[k] = IF k = on[c] THEN "closed" ELSE link[k]
        /\ \A d \in BridgeSetup.calls : callPc'[d] = IF d = c THEN "done" ELSE callPc[d]
        /\ \A d \in BridgeSetup.calls : on'[d] = IF d = c THEN BR!None ELSE on[d]
        /\ \A d \in BridgeSetup.calls :
              result'[d] = IF d # c THEN result[d]
                           ELSE IF reply[on[c]] = BR!None THEN "unavailable" ELSE "undecodable"
    BY <1>0, <1>3 DEF BridgeTyped, BR!Broken, BR!Return, BR!Close
  <2>2. BridgeTyped'
    BY <1>0, <1>3 DEF BridgeTyped, BR!BridgeConstants, BR!Broken, BR!Return, BR!Close
  <2>3. LinkInv'
    BY <1>0, <2>1 DEF LinkInv
  <2>4. WorkInv'
    BY <1>0, <2>1 DEF LinkInv, WorkInv
  <2>5. SaidInv'
    <3> SUFFICES ASSUME NEW d \in BridgeSetup.calls
                 PROVE  /\ said[d] = {} \/ \E w \in said[d] : said[d] = {w}
                        /\ callPc'[d] = "wait" /\ reply'[on'[d]] \in BR!Verdicts =>
                              <<on'[d], reply'[on'[d]]>> \in said[d]
                        /\ result'[d] \in BR!Verdicts =>
                              \E k \in BridgeSetup.conns : <<k, result'[d]>> \in said[d]
      BY <2>1 DEF SaidInv, BR!Verdicts
    <3>1. said[d] = {} \/ \E w \in said[d] : said[d] = {w}
      BY <1>0 DEF SaidInv
    <3>2. ASSUME callPc'[d] = "wait", reply'[on'[d]] \in BR!Verdicts
          PROVE  <<on'[d], reply'[on'[d]]>> \in said[d]
      <4>1. callPc[d] = "wait" /\ on'[d] = on[d] /\ reply'[on[d]] = reply[on[d]]
        BY <1>0, <2>1, <3>2 DEF LinkInv, WorkInv
      <4> QED
        BY <1>0, <3>2, <4>1 DEF SaidInv
    <3>3. result'[d] \in BR!Verdicts => \E k \in BridgeSetup.conns : <<k, result'[d]>> \in said[d]
      BY <1>0, <2>1 DEF LinkInv, SaidInv
    <3> QED
      BY <3>1, <3>2, <3>3
  <2>6. FaultInv'
    BY <1>0, <1>3 DEF BridgeTyped, LinkInv, FaultInv, HeardInv, BR!Busy, BR!Open,
       BR!BridgeConstants, BR!Broken, BR!Return, BR!Close
  <2>7. HeardInv'
    BY <1>0, <1>3 DEF BridgeTyped, HeardInv, BR!BridgeConstants, BR!Broken, BR!Return, BR!Close
  <2> QED
    BY <2>2, <2>3, <2>4, <2>5, <2>6, <2>7 DEF BridgeInv
<1>4. ASSUME NEW c \in BridgeSetup.calls, BR!Receive(c) PROVE BridgeInv'
  <2>1. /\ callPc[c] = "wait" /\ reply[on[c]] \in BR!Verdicts
        /\ work' = work /\ said' = said
        /\ \A k \in BridgeSetup.conns :
              link'[k] = link[k] \/ (k = on[c] /\ link'[k] \in {"idle", "closed"})
        /\ \A k \in BridgeSetup.conns : reply'[k] = IF k = on[c] THEN BR!None ELSE reply[k]
        /\ \A d \in BridgeSetup.calls : callPc'[d] = IF d = c THEN "done" ELSE callPc[d]
        /\ \A d \in BridgeSetup.calls : on'[d] = IF d = c THEN BR!None ELSE on[d]
        /\ \A d \in BridgeSetup.calls : result'[d] = IF d = c THEN reply[on[c]] ELSE result[d]
    BY <1>0, <1>4 DEF BridgeTyped, LinkInv, BR!Receive, BR!Return, BR!Close
  <2>2. BridgeTyped'
    BY <1>0, <1>4, <2>1 DEF BridgeTyped, LinkInv, BR!Receive, BR!Return, BR!Close
  <2>3. LinkInv'
    BY <1>0, <2>1 DEF LinkInv
  <2>4. WorkInv'
    BY <1>0, <2>1 DEF LinkInv, WorkInv
  <2>5. SaidInv'
    <3> SUFFICES ASSUME NEW d \in BridgeSetup.calls
                 PROVE  /\ said[d] = {} \/ \E w \in said[d] : said[d] = {w}
                        /\ callPc'[d] = "wait" /\ reply'[on'[d]] \in BR!Verdicts =>
                              <<on'[d], reply'[on'[d]]>> \in said[d]
                        /\ result'[d] \in BR!Verdicts =>
                              \E k \in BridgeSetup.conns : <<k, result'[d]>> \in said[d]
      BY <2>1 DEF SaidInv, BR!Verdicts
    <3>1. said[d] = {} \/ \E w \in said[d] : said[d] = {w}
      BY <1>0 DEF SaidInv
    <3>2. ASSUME callPc'[d] = "wait", reply'[on'[d]] \in BR!Verdicts
          PROVE  <<on'[d], reply'[on'[d]]>> \in said[d]
      <4>1. callPc[d] = "wait" /\ on'[d] = on[d] /\ reply'[on[d]] = reply[on[d]]
        BY <1>0, <2>1, <3>2 DEF LinkInv, WorkInv
      <4> QED
        BY <1>0, <3>2, <4>1 DEF SaidInv
    <3>3. result'[d] \in BR!Verdicts => \E k \in BridgeSetup.conns : <<k, result'[d]>> \in said[d]
      BY <1>0, <2>1 DEF LinkInv, SaidInv
    <3> QED
      BY <3>1, <3>2, <3>3
  <2>6. FaultInv'
    BY <1>0, <1>4 DEF BridgeTyped, LinkInv, FaultInv, HeardInv, BR!Busy, BR!Open,
       BR!BridgeConstants, BR!Receive, BR!Return, BR!Close
  <2>7. HeardInv'
    BY <1>0, <1>4 DEF BridgeTyped, HeardInv, BR!BridgeConstants, BR!Receive, BR!Return, BR!Close
  <2> QED
    BY <2>2, <2>3, <2>4, <2>5, <2>6, <2>7 DEF BridgeInv
<1>5. ASSUME NEW c \in BridgeSetup.calls, BR!TimeoutEvaluate(c) PROVE BridgeInv'
  <2>1. /\ callPc[c] \in {"dial", "send", "wait"}
        /\ work' = work /\ reply' = reply /\ said' = said
        /\ \A k \in BridgeSetup.conns : link'[k] = IF k = on[c] THEN "closed" ELSE link[k]
        /\ \A d \in BridgeSetup.calls : callPc'[d] = IF d = c THEN "done" ELSE callPc[d]
        /\ \A d \in BridgeSetup.calls : on'[d] = IF d = c THEN BR!None ELSE on[d]
        /\ \A d \in BridgeSetup.calls : result'[d] = IF d = c THEN "unavailable" ELSE result[d]
    BY <1>0, <1>5 DEF BridgeTyped, BR!TimeoutEvaluate, BR!Limit, BR!Busy, BR!Return, BR!Close
  <2>2. BridgeTyped'
    BY <1>0, <1>5 DEF BridgeTyped, BR!BridgeConstants, BR!TimeoutEvaluate, BR!Limit,
       BR!Busy, BR!Return, BR!Close
  <2>3. LinkInv'
    BY <1>0, <2>1 DEF LinkInv
  <2>4. WorkInv'
    BY <1>0, <2>1 DEF LinkInv, WorkInv
  <2>5. SaidInv'
    <3> SUFFICES ASSUME NEW d \in BridgeSetup.calls
                 PROVE  /\ said[d] = {} \/ \E w \in said[d] : said[d] = {w}
                        /\ callPc'[d] = "wait" /\ reply'[on'[d]] \in BR!Verdicts =>
                              <<on'[d], reply'[on'[d]]>> \in said[d]
                        /\ result'[d] \in BR!Verdicts =>
                              \E k \in BridgeSetup.conns : <<k, result'[d]>> \in said[d]
      BY <2>1 DEF SaidInv, BR!Verdicts
    <3>1. said[d] = {} \/ \E w \in said[d] : said[d] = {w}
      BY <1>0 DEF SaidInv
    <3>2. ASSUME callPc'[d] = "wait", reply'[on'[d]] \in BR!Verdicts
          PROVE  <<on'[d], reply'[on'[d]]>> \in said[d]
      <4>1. callPc[d] = "wait" /\ on'[d] = on[d] /\ reply'[on[d]] = reply[on[d]]
        BY <1>0, <2>1, <3>2 DEF LinkInv, WorkInv
      <4> QED
        BY <1>0, <3>2, <4>1 DEF SaidInv
    <3>3. result'[d] \in BR!Verdicts => \E k \in BridgeSetup.conns : <<k, result'[d]>> \in said[d]
      BY <1>0, <2>1 DEF LinkInv, SaidInv
    <3> QED
      BY <3>1, <3>2, <3>3
  <2>6. FaultInv'
    BY <1>0, <1>5 DEF BridgeTyped, LinkInv, FaultInv, HeardInv, BR!Busy, BR!Open,
       BR!BridgeConstants, BR!TimeoutEvaluate, BR!Limit, BR!Return, BR!Close
  <2>7. HeardInv'
    BY <1>0, <1>5 DEF BridgeTyped, HeardInv, BR!BridgeConstants, BR!TimeoutEvaluate,
       BR!Limit, BR!Busy, BR!Return, BR!Close
  <2> QED
    BY <2>2, <2>3, <2>4, <2>5, <2>6, <2>7 DEF BridgeInv
<1> QED
  BY <1>1, <1>2, <1>3, <1>4, <1>5

(* nginx gives up, and time passes.                                        *)
LEMMA WaitStep ==
    ASSUME BR!BridgeConstants, BridgeInv,
           \/ \E c \in BridgeSetup.calls : BR!GiveUp(c)
           \/ BR!Tick
    PROVE  BridgeInv'
<1> USE DEF BR!process, BR!pool, BR!calls
<1>0. /\ BridgeTyped /\ LinkInv /\ WorkInv /\ SaidInv /\ FaultInv /\ HeardInv
      /\ \A c \in BridgeSetup.calls : on[c] \in BridgeSetup.conns \cup {BR!None}
      /\ BR!None \notin BridgeSetup.calls \cup BridgeSetup.conns
      /\ {BR!None, "cut", "unavailable", "undecodable"} \cap BR!Verdicts = {}
  BY DEF BR!BridgeConstants, BridgeInv, BridgeTyped, BR!None, BR!Verdicts
<1>1. ASSUME NEW c \in BridgeSetup.calls, BR!GiveUp(c) PROVE BridgeInv'
  <2>1. /\ link' = link /\ work' = work /\ reply' = reply /\ callPc' = callPc /\ on' = on
        /\ said' = said /\ result' = result
    BY <1>0, <1>1 DEF BridgeTyped, BR!GiveUp, BR!Busy
  <2>2. BridgeTyped'
    BY <1>0, <1>1 DEF BridgeTyped, BR!BridgeConstants, BR!GiveUp, BR!Busy
  <2>3. LinkInv'
    BY <1>0, <2>1 DEF LinkInv
  <2>4. WorkInv'
    BY <1>0, <2>1 DEF LinkInv, WorkInv
  <2>5. SaidInv'
    BY <1>0, <2>1 DEF LinkInv, WorkInv, SaidInv, HeardInv
  <2>6. FaultInv'
    BY <1>0, <1>1 DEF BridgeTyped, LinkInv, FaultInv, HeardInv, BR!Busy, BR!Open,
       BR!BridgeConstants, BR!GiveUp
  <2>7. HeardInv'
    BY <1>0, <1>1 DEF BridgeTyped, HeardInv, BR!BridgeConstants, BR!GiveUp, BR!Busy
  <2> QED
    BY <2>2, <2>3, <2>4, <2>5, <2>6, <2>7 DEF BridgeInv
<1>2. CASE BR!Tick
  <2>1. /\ link' = link /\ work' = work /\ reply' = reply /\ callPc' = callPc /\ on' = on
        /\ said' = said /\ result' = result
    BY <1>0, <1>2 DEF BridgeTyped, BR!Tick, BR!Limit, BR!Busy
  <2>2. BridgeTyped'
    BY <1>0, <1>2 DEF BridgeTyped, BR!BridgeConstants, BR!Tick, BR!Limit, BR!Busy
  <2>3. LinkInv'
    BY <1>0, <2>1 DEF LinkInv
  <2>4. WorkInv'
    BY <1>0, <2>1 DEF LinkInv, WorkInv
  <2>5. SaidInv'
    BY <1>0, <2>1 DEF LinkInv, WorkInv, SaidInv, HeardInv
  <2>6. FaultInv'
    BY <1>0, <1>2 DEF BridgeTyped, LinkInv, FaultInv, HeardInv, BR!Busy, BR!Open,
       BR!BridgeConstants, BR!Tick, BR!Limit
  <2>7. HeardInv'
    BY <1>0, <1>2 DEF BridgeTyped, HeardInv, BR!BridgeConstants, BR!Tick, BR!Limit, BR!Busy
  <2> QED
    BY <2>2, <2>3, <2>4, <2>5, <2>6, <2>7 DEF BridgeInv
<1> QED
  BY <1>1, <1>2

(* The invariant of the bridge holds while there is no daemon yet.         *)
LEMMA BridgeInit ==
    ASSUME BR!BridgeConstants
    PROVE  BR!Init => BridgeInv
<1> SUFFICES ASSUME BR!Init PROVE BridgeInv
  OBVIOUS
<1> USE DEF BR!Init, BR!BridgeConstants, BR!Verdicts, BR!None
<1>1. BridgeTyped
  BY DEF BridgeTyped
<1>2. LinkInv
  BY DEF LinkInv
<1>3. WorkInv
  BY DEF WorkInv
<1>4. SaidInv
  BY DEF SaidInv
<1>5. FaultInv
  BY DEF FaultInv, BR!Busy
<1>6. HeardInv
  BY DEF HeardInv
<1> QED
  BY <1>1, <1>2, <1>3, <1>4, <1>5, <1>6 DEF BridgeInv

(* The invariant holds for every number of calls and connections.          *)
THEOREM BridgeInvariant == Spec => [](part = "bridge" => BridgeInv)
<1> USE BridgeAssumption
<1>1. Init => (part = "bridge" => BridgeInv)
  BY BridgeInit DEF Init
<1>2. BridgeInv /\ [BR!Next]_(BR!vars) => BridgeInv'
  <2>1. BridgeInv /\ UNCHANGED BR!vars => BridgeInv'
    <3> SUFFICES ASSUME BridgeInv, UNCHANGED BR!vars PROVE BridgeInv'
      OBVIOUS
    <3> USE DEF BR!vars, BR!process, BR!pool, BR!calls, BridgeInv
    <3>1. BridgeTyped' /\ LinkInv' /\ HeardInv'
      BY DEF BridgeTyped, LinkInv, HeardInv, BR!None, BR!Verdicts
    <3>2. WorkInv'
      BY DEF WorkInv, BR!None
    <3>3. SaidInv'
      BY DEF SaidInv, BR!Verdicts
    <3>4. FaultInv'
      BY DEF FaultInv, BR!Busy, BR!Open
    <3> QED
      BY <3>1, <3>2, <3>3, <3>4
  <2>2. BridgeInv /\ BR!Next => BridgeInv'
    BY DaemonStep, SendStep, ReturnStep, WaitStep DEF BR!Next
  <2> QED
    BY <2>1, <2>2
<1>3. [Next]_vars => part' = part /\ (part = "bridge" => [BR!Next]_(BR!vars))
  BY DEF Next, vars, bridgeVars, BR!vars, BR!process, BR!pool, BR!calls
<1>4. (part = "bridge" => BridgeInv) /\ [Next]_vars => (part = "bridge" => BridgeInv)'
  BY <1>2, <1>3
<1> QED
  BY <1>1, <1>4, PTL DEF Spec

(* BridgeScorer.Evaluate: whatever the daemon does and whoever gives up, a *)
(* verdict is the daemon's on this very request, given once, and to fail   *)
(* open takes a fault and is heard by nginx if the bridge gives up first.  *)
THEOREM VerdictsSoundHolds == Spec => []VerdictsSound
<1>1. BridgeInv => BR!VerdictsSound
  <2> SUFFICES ASSUME BridgeInv PROVE BR!VerdictsSound
    OBVIOUS
  <2>1. BR!OwnVerdict
    BY DEF BridgeInv, SaidInv, BR!OwnVerdict
  <2>2. BR!FailOpenJustified
    BY DEF BridgeInv, FaultInv, BR!FailOpenJustified
  <2>3. BR!ScoredOnce
    <3> SUFFICES ASSUME NEW c \in BridgeSetup.calls PROVE Cardinality(said[c]) <= 1
      BY DEF BR!ScoredOnce, BR!Cardinality, Cardinality
    <3>1. CASE said[c] = {}
      BY <3>1, FS_EmptySet
    <3>2. ASSUME NEW w, said[c] = {w} PROVE Cardinality(said[c]) <= 1
      BY <3>2, FS_Singleton
    <3> QED
      BY <3>1, <3>2 DEF BridgeInv, SaidInv
  <2>4. BridgeSetup.timeout < BridgeSetup.patience => BR!FailOpenHeard
    BY DEF BridgeInv, HeardInv, BR!FailOpenHeard
  <2> QED
    BY <2>1, <2>2, <2>3, <2>4 DEF BR!VerdictsSound
<1> QED
  BY BridgeInvariant, <1>1, PTL DEF VerdictsSound
=============================================================================
