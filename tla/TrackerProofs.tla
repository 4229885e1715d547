--------------------------- MODULE TrackerProofs ---------------------------
(***************************************************************************)
(* The event tracker for any addresses, threshold and window.  The proof   *)
(* ties the receipts that are kept to the last cleanup, which was at       *)
(* due - Half: it is at most half a window ago.                            *)
(***************************************************************************)
EXTENDS Tracker, TLAPS

CleanupInv ==
    /\ due - Half <= now /\ now <= due
    /\ \A ip \in IPs : \A r \in counts[ip] : r.at > due - Half - Window

IInv == TypeOK /\ TrackerExact /\ CleanupInv

(* The invariant holds when nothing has been heard yet ...                 *)
LEMMA InitIInv == Init => IInv
  BY TrackerAssumption DEF Init, IInv, TypeOK, TrackerExact, Live, Recent, CleanupInv

(* What record() keeps for an address is what was heard of it in time.     *)
LEMMA RecordKeeps ==
    ASSUME IInv, NEW ip \in IPs, NEW r, r = [ip |-> ip, at |-> now, id |-> ids]
    PROVE  Live(counts[ip]) \cup {r} = Recent(heard \cup {r}, ip, now)
<1>1. Live(counts[ip]) = Recent(heard, ip, now)
  BY DEF IInv, TrackerExact
<1>2. r.ip = ip /\ r.at > now - Window
  BY TrackerAssumption DEF IInv, TypeOK, Window
<1> QED
  BY <1>1, <1>2 DEF Recent

(* ... when an event is counted ...                                        *)
LEMMA RecordIInv ==
    ASSUME IInv, NEW ip \in IPs, Record(ip)
    PROVE  IInv'
<1> DEFINE r == [ip |-> ip, at |-> now, id |-> ids]
           valid == Live(counts[ip]) \cup {r}
<1>1. /\ counts' = [counts EXCEPT ![ip] = valid] /\ heard' = heard \cup {r}
      /\ ids' = ids + 1 /\ now' = now /\ due' = due /\ blocked' = blocked
      /\ pending' \in {ip, Nobody}
  BY DEF Record
<1>2. r \in Receipts /\ r.ip = ip /\ r.at = now
  BY DEF IInv, TypeOK, Receipts
<1>3. valid = Recent(heard', ip, now)
  BY <1>1, RecordKeeps
<1> HIDE DEF r
<1>4. valid \subseteq Receipts /\ \A q \in valid : q \in counts[ip] \/ q = r
  BY <1>2 DEF IInv, TypeOK, Live
<1>5. \A q \in valid : q.at > now - Window
  BY <1>3 DEF Recent
<1> HIDE DEF valid
<1>6. TypeOK'
  BY <1>1, <1>2, <1>4 DEF IInv, TypeOK
<1>7. \A i \in IPs : counts'[i] = IF i = ip THEN valid ELSE counts[i]
  BY <1>1 DEF IInv, TypeOK
<1>8. TrackerExact'
  <2> SUFFICES ASSUME NEW i \in IPs
               PROVE  Live(counts[i])' = Recent(heard', i, now')
    BY DEF TrackerExact
  <2>1. CASE i = ip
    <3>1. {q \in valid : q.at > now - Window} = valid
      BY <1>5
    <3> QED
      BY <2>1, <3>1, <1>1, <1>3, <1>7 DEF Live
  <2>2. CASE i # ip
    <3>1. Recent(heard', i, now) = Recent(heard, i, now)
      BY <1>1, <1>2, <2>2 DEF Recent
    <3>2. Live(counts[i])' = Live(counts[i])
      BY <1>1, <1>7, <2>2 DEF Live
    <3> QED
      BY <3>1, <3>2, <1>1 DEF IInv, TrackerExact
  <2> QED
    BY <2>1, <2>2
<1>9. CleanupInv'
  BY <1>1, <1>2, <1>4, <1>7, TrackerAssumption DEF IInv, TypeOK, CleanupInv, Window
<1> QED
  BY <1>6, <1>8, <1>9 DEF IInv

(* ... when the receipts outside the window are dropped ...                *)
LEMMA CleanupIInv ==
    ASSUME IInv, Cleanup
    PROVE  IInv'
<1>1. /\ now = due /\ due' = due + Half /\ now' = now /\ heard' = heard /\ ids' = ids
      /\ pending' = pending /\ blocked' = blocked
      /\ \A ip \in IPs : counts'[ip] = Live(counts[ip])
  BY DEF Cleanup
<1>2. TypeOK'
  BY TrackerAssumption DEF IInv, TypeOK, Cleanup, Live
<1>3. \A ip \in IPs : Live(counts[ip])' = Live(counts[ip])
  BY <1>1 DEF Live
<1>4. TrackerExact'
  BY <1>1, <1>3 DEF IInv, TrackerExact
<1>5. CleanupInv'
  BY <1>1, TrackerAssumption DEF IInv, TypeOK, CleanupInv, Live, Window
<1> QED
  BY <1>2, <1>4, <1>5 DEF IInv

(* ... when time goes on ...                                               *)
LEMMA TickIInv ==
    ASSUME IInv, Tick
    PROVE  IInv'
<1>1. /\ now < due /\ now' = now + 1 /\ due' = due /\ counts' = counts /\ heard' = heard
      /\ ids' = ids /\ pending' = pending /\ blocked' = blocked
  BY DEF Tick
<1>2. TypeOK'
  BY <1>1 DEF IInv, TypeOK
<1>3. TrackerExact'
  <2> SUFFICES ASSUME NEW ip \in IPs
               PROVE  Live(counts[ip])' = Recent(heard', ip, now')
    BY DEF TrackerExact
  <2>1. Live(counts[ip]) = Recent(heard, ip, now)
    BY DEF IInv, TrackerExact
  <2>2. now \in Nat /\ Window \in Nat /\ heard \subseteq Receipts /\ counts[ip] \subseteq Receipts
    BY TrackerAssumption DEF IInv, TypeOK, Window
  <2>3. \A q \in Receipts : q.at > now + 1 - Window => q.at > now - Window
    BY <2>2 DEF Receipts
  <2>4. \A q \in Receipts : (q \in counts[ip] /\ q.at > now - Window)
                              <=> (q \in heard /\ q.ip = ip /\ q.at > now - Window)
    BY <2>1 DEF Live, Recent
  <2> QED
    BY <1>1, <2>2, <2>3, <2>4 DEF Live, Recent
<1>4. CleanupInv'
  BY <1>1, TrackerAssumption DEF IInv, TypeOK, CleanupInv
<1> QED
  BY <1>2, <1>3, <1>4 DEF IInv

(* ... and so in every step.                                               *)
LEMMA NextIInv == IInv /\ [Next]_vars => IInv'
<1> SUFFICES ASSUME IInv, [Next]_vars PROVE IInv'
  OBVIOUS
<1>1. ASSUME UNCHANGED <<now, due, counts, heard, ids>>,
             pending' \in IPs \cup {Nobody}, blocked' \in SUBSET IPs
      PROVE  IInv'
  <2>1. TypeOK'
    BY <1>1 DEF IInv, TypeOK
  <2>2. TrackerExact'
    BY <1>1 DEF IInv, TrackerExact, Live
  <2>3. CleanupInv'
    BY <1>1 DEF IInv, CleanupInv
  <2> QED
    BY <2>1, <2>2, <2>3 DEF IInv
<1>2. CASE UNCHANGED vars
  BY <1>1, <1>2 DEF vars, IInv, TypeOK
<1>3. ASSUME NEW ip \in IPs, Record(ip) PROVE IInv'
  BY <1>3, RecordIInv
<1>4. ASSUME NEW ip \in IPs, Block(ip) \/ Unblock(ip) PROVE IInv'
  BY <1>1, <1>4 DEF Block, Unblock, IInv, TypeOK
<1>5. CASE AutoBlock
  BY <1>1, <1>5 DEF AutoBlock, IInv, TypeOK
<1>6. CASE Cleanup
  BY <1>6, CleanupIInv
<1>7. CASE Restart
  BY <1>7, TrackerAssumption
  DEF Restart, IInv, TypeOK, TrackerExact, Live, Recent, CleanupInv
<1>8. CASE Tick
  BY <1>8, TickIInv
<1> QED
  BY <1>2, <1>3, <1>4, <1>5, <1>6, <1>7, <1>8 DEF Next

-----------------------------------------------------------------------------
(* The inductive invariant holds in every behaviour of the tracker.        *)
THEOREM TrackerInvariant == Spec => []IInv
  BY InitIInv, NextIInv, PTL DEF Spec

(* The tracker's state keeps its type.                                     *)
THEOREM TrackerTypeCorrect == Spec => []TypeOK
<1>1. IInv => TypeOK
  BY DEF IInv
<1> QED
  BY TrackerInvariant, <1>1, PTL

(* record() and cleanup() lose no event that is still in the window, for   *)
(* every window, whenever they are called.                                 *)
THEOREM TrackerExactHolds == Spec => []TrackerExact
<1>1. IInv => TrackerExact
  BY DEF IInv
<1> QED
  BY TrackerInvariant, <1>1, PTL

(* Nothing older than one and a half windows is kept, for every window.    *)
THEOREM ForgetsQuietHolds == Spec => []ForgetsQuiet
<1>1. IInv => ForgetsQuiet
  BY TrackerAssumption DEF IInv, TypeOK, Receipts, CleanupInv, ForgetsQuiet, Window
<1> QED
  BY TrackerInvariant, <1>1, PTL

(* An address is up for blocking exactly when its events of the last       *)
(* window reach the threshold, for every threshold and window.             *)
THEOREM WindowExactHolds == Spec => WindowExact
<1> DEFINE Exact == \A r \in heard' \ heard :
              (pending' = r.ip) <=> Cardinality(Recent(heard', r.ip, now)) >= Threshold
<1>1. IInv /\ [Next]_vars => [Exact]_vars
  <2> SUFFICES ASSUME IInv, Next PROVE Exact
    OBVIOUS
  <2>1. ASSUME NEW ip \in IPs, Record(ip) PROVE Exact
    <3> DEFINE q == [ip |-> ip, at |-> now, id |-> ids]
               valid == Live(counts[ip]) \cup {q}
    <3>1. /\ heard' = heard \cup {q}
          /\ pending' = IF Cardinality(valid) >= Threshold THEN ip ELSE Nobody
      BY <2>1 DEF Record
    <3>2. valid = Recent(heard', ip, now)
      BY <3>1, RecordKeeps
    <3>3. q.ip = ip /\ ip # Nobody
      BY TrackerAssumption
    <3> HIDE DEF q, valid
    <3> QED
      BY <3>1, <3>2, <3>3
  <2>2. CASE ~\E ip \in IPs : Record(ip)
    <3>1. heard' \subseteq heard
      BY <2>2 DEF Next, Block, Unblock, AutoBlock, Cleanup, Restart, Tick
    <3> QED
      BY <3>1
  <2> QED
    BY <2>1, <2>2
<1>2. Spec => [][Exact]_vars
  BY TrackerInvariant, <1>1, PTL DEF Spec
<1> QED
  BY <1>2 DEF WindowExact
=============================================================================
