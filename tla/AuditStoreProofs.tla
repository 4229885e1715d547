-------------------------- MODULE AuditStoreProofs --------------------------
(***************************************************************************)
(* The audit log for any size of the ring and any number of writers and    *)
(* events.  What the ring holds says too little about where it holds it,   *)
(* and what is in the file too little about who may write to it: RingInv   *)
(* and FileInv supply both.                                                *)
(***************************************************************************)
EXTENDS AuditStore, TLAPS

RingType == [slot: [Slots -> Nat], len: 0 .. MaxSize, pos: Slots]

(* The event in slot i of a full ring with cursor p whose newest event is  *)
(* n: the newest one is before the cursor, the oldest one at it.           *)
EventAt(i, p, n) == IF i < p THEN n - p + 1 + i ELSE n - MaxSize + 1 + (i - p)

(* Where every event is, in slots s of which l are in use and with cursor  *)
(* p, after the events f .. n: a growing ring is in order.                 *)
Placed(s, l, p, f, n) ==
    /\ f <= n + 1
    /\ l < MaxSize =>
          /\ p = 0
          /\ l = n - f + 1
          /\ \A i \in 0 .. l - 1 : s[i] = f + i
    /\ l = MaxSize =>
          /\ n - f + 1 >= MaxSize
          /\ \A i \in Slots : s[i] = EventAt(i, p, n)

RingInv == Placed(ring.slot, ring.len, ring.pos, first, count)

(* Every pending event has one writer, who has not written it unless it    *)
(* holds fileMu; a free mutex means that the last line is finished.        *)
WriterInv ==
    /\ \A w \in Writers : pending[w] <= count
    /\ \A v, w \in Writers : pending[v] = pending[w] /\ pending[v] # None => v = w
    /\ fileMu # Nobody => pending[fileMu] # None
    /\ \A w \in Writers : pending[w] # None /\ fileMu # w => pending[w] \notin lost
    /\ ~HasFile => /\ \A w \in Writers : pending[w] = None
                   /\ Events(file) = {}
    /\ \A e \in lost : e <= count

LineInv ==
    /\ LinesIntact
    /\ fileMu = Nobody => Unfinished \subseteq torn

IInv == TypeOK /\ RingInv /\ WriterInv /\ FileComplete /\ LineInv

-----------------------------------------------------------------------------
(* What Push does to a ring.                                               *)
LEMMA PushShape ==
    ASSUME NEW r \in RingType, NEW e \in Nat
    PROVE  /\ Push(r, e) \in RingType
           /\ r.len < MaxSize =>
                 Push(r, e) = [slot |-> [r.slot EXCEPT ![r.len] = e],
                               len |-> r.len + 1, pos |-> r.pos]
           /\ r.len = MaxSize =>
                 Push(r, e) = [slot |-> [r.slot EXCEPT ![r.pos] = e],
                               len |-> MaxSize, pos |-> (r.pos + 1) % MaxSize]
<1>1. r = [slot |-> r.slot, len |-> r.len, pos |-> r.pos]
  BY DEF RingType
<1>2. r.slot \in [Slots -> Nat] /\ r.len \in 0 .. MaxSize /\ r.pos \in Slots
  BY DEF RingType
<1>3. CASE r.len < MaxSize
  <2>1. Push(r, e) = [r EXCEPT !.slot[r.len] = e, !.len = r.len + 1]
    BY <1>3 DEF Push
  <2>2. Push(r, e) = [slot |-> [r.slot EXCEPT ![r.len] = e],
                      len |-> r.len + 1, pos |-> r.pos]
    BY <1>1, <2>1
  <2>3. [r.slot EXCEPT ![r.len] = e] \in [Slots -> Nat] /\ r.len + 1 \in 0 .. MaxSize
    BY <1>2, <1>3, MaxSizeAssumption DEF Slots
  <2> QED
    BY <1>2, <1>3, <2>2, <2>3, MaxSizeAssumption DEF RingType
<1>4. CASE r.len = MaxSize
  <2>1. Push(r, e) = [r EXCEPT !.slot[r.pos] = e, !.pos = (r.pos + 1) % MaxSize]
    BY <1>4, MaxSizeAssumption DEF Push
  <2>2. Push(r, e) = [slot |-> [r.slot EXCEPT ![r.pos] = e],
                      len |-> MaxSize, pos |-> (r.pos + 1) % MaxSize]
    BY <1>1, <1>4, <2>1
  <2>3. [r.slot EXCEPT ![r.pos] = e] \in [Slots -> Nat] /\ (r.pos + 1) % MaxSize \in Slots
    BY <1>2, MaxSizeAssumption DEF Slots
  <2> QED
    BY <1>4, <2>2, <2>3, MaxSizeAssumption DEF RingType
<1> QED
  BY <1>2, <1>3, <1>4, MaxSizeAssumption

(* The cursor moves on to the next slot, or from the last to the first.    *)
LEMMA NextCursor ==
    ASSUME NEW p \in Slots
    PROVE  (p + 1) % MaxSize = IF p + 1 = MaxSize THEN 0 ELSE p + 1
  BY MaxSizeAssumption DEF Slots

(* One more event in a full ring takes the place of the oldest.            *)
LEMMA NextEventAt ==
    ASSUME NEW i \in Slots, NEW p \in Slots, NEW n \in Nat
    PROVE  EventAt(i, (p + 1) % MaxSize, n + 1) = IF i = p THEN n + 1 ELSE EventAt(i, p, n)
<1> DEFINE q == (p + 1) % MaxSize
<1>1. q = IF p + 1 = MaxSize THEN 0 ELSE p + 1
  BY NextCursor
<1> HIDE DEF q
<1>2. EventAt(i, q, n + 1) = IF i = p THEN n + 1 ELSE EventAt(i, p, n)
  BY <1>1, MaxSizeAssumption DEF EventAt, Slots
<1> QED
  BY <1>2 DEF q

(* A full ring holds the newest MaxSize events, each once.                 *)
SlotOf(e, p, n) == IF e > n - p THEN e - (n - p + 1) ELSE e - (n - MaxSize + 1) + p

(* In a full ring the two functions are inverse to each other, and the     *)
(* events are the MaxSize newest.                                          *)
LEMMA EventAtNewest ==
    ASSUME NEW p \in Slots, NEW n \in Nat
    PROVE  /\ \A i \in Slots : /\ EventAt(i, p, n) \in n - MaxSize + 1 .. n
                              /\ SlotOf(EventAt(i, p, n), p, n) = i
           /\ \A e \in n - MaxSize + 1 .. n : /\ SlotOf(e, p, n) \in Slots
                                            /\ EventAt(SlotOf(e, p, n), p, n) = e
  BY MaxSizeAssumption DEF EventAt, SlotOf, Slots

(* Push puts the next event where it belongs, in a growing ring ...        *)
LEMMA GrowKeepsPlaces ==
    ASSUME NEW s \in [Slots -> Nat], NEW l \in 0 .. MaxSize, NEW p \in Slots,
           NEW f \in Nat, NEW n \in Nat, Placed(s, l, p, f, n), l < MaxSize
    PROVE  Placed([s EXCEPT ![l] = n + 1], l + 1, p, f, n + 1)
<1> DEFINE t == [s EXCEPT ![l] = n + 1]
<1>1. l = n - f + 1 /\ p = 0 /\ f <= n + 1 /\ \A i \in 0 .. l - 1 : s[i] = f + i
  BY DEF Placed
<1>2. \A i \in 0 .. l : t[i] = f + i
  BY <1>1, MaxSizeAssumption DEF Slots
<1> HIDE DEF t
<1>3. l + 1 = MaxSize => \A i \in Slots : t[i] = EventAt(i, p, n + 1)
  BY <1>1, <1>2, MaxSizeAssumption DEF Slots, EventAt
<1>4. Placed(t, l + 1, p, f, n + 1)
  BY <1>1, <1>2, <1>3, MaxSizeAssumption DEF Placed
<1> QED
  BY <1>4 DEF t

(* ... and in a full one.                                                  *)
LEMMA WrapKeepsPlaces ==
    ASSUME NEW s \in [Slots -> Nat], NEW p \in Slots,
           NEW f \in Nat, NEW n \in Nat, Placed(s, MaxSize, p, f, n)
    PROVE  Placed([s EXCEPT ![p] = n + 1], MaxSize, (p + 1) % MaxSize, f, n + 1)
<1> DEFINE t == [s EXCEPT ![p] = n + 1]
<1>1. \A i \in Slots : t[i] = IF i = p THEN n + 1 ELSE s[i]
  OBVIOUS
<1>2. /\ f <= n + 1 /\ n - f + 1 >= MaxSize
      /\ \A i \in Slots : s[i] = EventAt(i, p, n)
  BY MaxSizeAssumption DEF Placed
<1> HIDE DEF t
<1>3. \A i \in Slots : t[i] = EventAt(i, (p + 1) % MaxSize, n + 1)
  BY <1>1, <1>2, NextEventAt
<1>4. Placed(t, MaxSize, (p + 1) % MaxSize, f, n + 1)
  BY <1>2, <1>3, MaxSizeAssumption DEF Placed
<1> QED
  BY <1>4 DEF t

(* Push: the events are where the functions say, whether the ring was full *)
(* or not.                                                                 *)
LEMMA PushKeepsPlaces ==
    ASSUME NEW r \in RingType, NEW f \in Nat, NEW n \in Nat,
           Placed(r.slot, r.len, r.pos, f, n), NEW q, q = Push(r, n + 1)
    PROVE  Placed(q.slot, q.len, q.pos, f, n + 1)
<1>1. r.slot \in [Slots -> Nat] /\ r.len \in 0 .. MaxSize /\ r.pos \in Slots
  BY DEF RingType
<1>2. CASE r.len < MaxSize
  <2>1. q = [slot |-> [r.slot EXCEPT ![r.len] = n + 1], len |-> r.len + 1, pos |-> r.pos]
    BY <1>2, PushShape
  <2>2. q.len = r.len + 1 /\ q.pos = r.pos /\ q.slot = [r.slot EXCEPT ![r.len] = n + 1]
    BY <2>1
  <2> QED
    BY <1>1, <1>2, <2>2, GrowKeepsPlaces
<1>3. CASE r.len = MaxSize
  <2>0. n + 1 \in Nat
    OBVIOUS
  <2>1. q = [slot |-> [r.slot EXCEPT ![r.pos] = n + 1], len |-> MaxSize,
             pos |-> (r.pos + 1) % MaxSize]
    BY <1>3, <2>0, PushShape, Zenon
  <2>2. /\ q.len = MaxSize
        /\ q.pos = (r.pos + 1) % MaxSize
        /\ q.slot = [r.slot EXCEPT ![r.pos] = n + 1]
    BY <2>1
  <2> QED
    BY <1>1, <1>3, <2>2, WrapKeepsPlaces
<1> QED
  BY <1>1, <1>2, <1>3, MaxSizeAssumption

(* A ring whose events are in their places holds the newest ones.          *)
LEMMA PlacesRetain ==
    ASSUME NEW s \in [Slots -> Nat], NEW l \in 0 .. MaxSize, NEW p \in Slots,
           first \in Nat, count \in Nat, Placed(s, l, p, first, count)
    PROVE  /\ {s[i] : i \in 0 .. l - 1} = Retained
           /\ \A i, j \in 0 .. l - 1 : i # j => s[i] # s[j]
<1>1. CASE l < MaxSize
  <2>1. /\ first <= count + 1 /\ l = count - first + 1
        /\ \A i \in 0 .. l - 1 : s[i] = first + i
    BY <1>1 DEF Placed
  <2>2. \A e \in Retained : e - first \in 0 .. l - 1 /\ s[e - first] = e
    BY <2>1 DEF Retained
  <2>3. \A i \in 0 .. l - 1 : s[i] \in Retained
    BY <1>1, <2>1, MaxSizeAssumption DEF Retained
  <2>4. \A i, j \in 0 .. l - 1 : i # j => s[i] # s[j]
    BY <2>1
  <2> QED
    BY <2>2, <2>3, <2>4
<1>2. CASE l = MaxSize
  <2>1. count - first + 1 >= MaxSize /\ \A i \in Slots : s[i] = EventAt(i, p, count)
    BY <1>2 DEF Placed
  <2>2. Retained = count - MaxSize + 1 .. count
    BY <2>1, MaxSizeAssumption DEF Retained
  <2>3. 0 .. l - 1 = Slots
    BY <1>2 DEF Slots
  <2>4. {s[i] : i \in Slots} = Retained
    BY <2>1, <2>2, EventAtNewest
  <2>5. \A i, j \in Slots : i # j => s[i] # s[j]
    BY <2>1, EventAtNewest
  <2> QED
    BY <2>3, <2>4, <2>5
<1> QED
  BY <1>1, <1>2, MaxSizeAssumption

(* Appending an event or a newline to the file.                            *)
LEMMA AppendEvents ==
    ASSUME NEW s \in Seq(Nat), NEW x \in Nat
    PROVE  /\ Append(s, x) \in Seq(Nat)
           /\ Len(Append(s, x)) = Len(s) + 1
           /\ \A i \in 1 .. Len(s) : Append(s, x)[i] = s[i]
           /\ Append(s, x)[Len(s) + 1] = x
           /\ Events(s) \subseteq 1 .. Len(s)
           /\ x # Newline => Events(Append(s, x)) = Events(s) \cup {Len(s) + 1}
           /\ x = Newline => Events(Append(s, x)) = Events(s)
  BY DEF Events

(* An unfinished event is a number.                                        *)
LEMMA UnfinishedType == TypeOK => Unfinished \subseteq Nat
  BY DEF TypeOK, Unfinished

(* A new ring is a ring.                                                   *)
LEMMA NewRingType == NewRing(None) \in RingType
  BY MaxSizeAssumption DEF NewRing, RingType, Slots, None

-----------------------------------------------------------------------------
(* The invariant holds at the start ...                                    *)
LEMMA InitIInv == Init => IInv
<1> SUFFICES ASSUME Init PROVE IInv
  OBVIOUS
<1> USE MaxSizeAssumption, AuditAssumption DEF Init, None, Newline
<1>1. TypeOK
  BY DEF TypeOK, NewRing, Slots
<1>2. RingInv
  BY DEF RingInv, Placed, NewRing, Slots
<1>3. Events(file) = {}
  BY DEF Events
<1>4. WriterInv
  BY <1>3 DEF WriterInv
<1>5. FileComplete
  BY <1>3 DEF FileComplete
<1>6. LineInv
  BY <1>3 DEF LineInv, LinesIntact, Unfinished
<1> QED
  BY <1>1, <1>2, <1>4, <1>5, <1>6 DEF IInv

(* ... when the event enters the ring ...                                  *)
LEMMA RecordRingIInv ==
    ASSUME IInv, NEW w \in Writers, RecordRing(w)
    PROVE  IInv'
<1> USE AuditAssumption DEF IInv, RecordRing, None
<1>0. /\ ring \in RingType /\ count \in Nat /\ first \in Nat
      /\ ring' = Push(ring, count + 1) /\ count' = count + 1 /\ first' = first
  BY DEF TypeOK, RingType
<1>1. RingInv' /\ ring' \in RingType
  BY <1>0, PushKeepsPlaces, PushShape DEF RingInv
<1>2. TypeOK'
  BY <1>1 DEF TypeOK, RingType
<1>3. pending' \in [Writers -> Nat] /\ \A v \in Writers \ {w} : pending'[v] = pending[v]
  BY DEF TypeOK
<1>4. HasFile => pending'[w] = count + 1
  BY DEF TypeOK
<1>5. WriterInv'
  BY <1>3, <1>4 DEF WriterInv, TypeOK
<1>6. fileMu # w
  BY DEF WriterInv
<1>7. FileComplete'
  <2>1. CASE HasFile
    <3>1. \A e \in 1 .. count :
            (\A v \in Writers : pending[v] = e => fileMu = v)
              <=> (\A v \in Writers : pending'[v] = e => fileMu = v)
      BY <1>3, <1>4, <2>1 DEF TypeOK
    <3>2. count + 1 \notin lost
      BY DEF WriterInv, TypeOK
    <3>3. {e \in 1 .. count' : e \notin lost'
                /\ \A v \in Writers : pending'[v] = e => fileMu' = v}
          = {e \in 1 .. count : e \notin lost
                /\ \A v \in Writers : pending[v] = e => fileMu = v}
      BY <1>4, <1>6, <2>1, <3>1, <3>2 DEF TypeOK
    <3> QED
      BY <3>3 DEF FileComplete
  <2>2. CASE ~HasFile
    BY <2>2 DEF FileComplete
  <2> QED
    BY <2>1, <2>2
<1>8. LineInv'
  BY DEF LineInv, LinesIntact, Unfinished
<1> QED
  BY <1>1, <1>2, <1>5, <1>7, <1>8

(* ... when it is written or the write fails ...                           *)
LEMMA WriteEventIInv ==
    ASSUME IInv, NEW w \in Writers, WriteEvent(w)
    PROVE  IInv'
<1> USE AuditAssumption DEF IInv, WriteEvent, None, Newline
<1> DEFINE e0 == pending[w]
<1>1. e0 \in Nat /\ e0 # 0 /\ HasFile /\ e0 <= count /\ e0 \notin lost
  BY DEF TypeOK, WriterInv
<1>2. RingInv'
  BY DEF RingInv
<1>3. fileMu = Nobody /\ fileMu' = w /\ pending' = pending /\ count' = count
  OBVIOUS
<1>4. e0 \notin {file[i] : i \in Events(file)}
  BY <1>1, <1>3 DEF FileComplete
<1>5. \A e \in 1 .. count : e # e0 =>
        ((\A v \in Writers : pending[v] = e => fileMu = v)
          <=> (\A v \in Writers : pending'[v] = e => fileMu' = v))
  BY <1>1, <1>3 DEF TypeOK
<1>6. \A v \in Writers : pending'[v] = e0 => fileMu' = v
  BY <1>1, <1>3 DEF WriterInv
<1>7. ~(\A v \in Writers : pending[v] = e0 => fileMu = v)
  BY <1>1, <1>3
<1>8. CASE file' = Append(file, pending[w]) /\ lost' = lost
  <2>1. /\ file' \in Seq(Nat) /\ Len(file') = Len(file) + 1
        /\ \A i \in 1 .. Len(file) : file'[i] = file[i]
        /\ file'[Len(file) + 1] = e0
        /\ Events(file) \subseteq 1 .. Len(file)
        /\ Events(file') = Events(file) \cup {Len(file) + 1}
    BY <1>1, <1>8, AppendEvents DEF TypeOK
  <2>2. TypeOK'
    BY <2>1, <1>8 DEF TypeOK
  <2>3. WriterInv'
    BY <1>1, <1>3, <1>8 DEF WriterInv
  <2>4. {file'[i] : i \in Events(file')} = {file[i] : i \in Events(file)} \cup {e0}
    BY <2>1
  <2>5. \A i, j \in Events(file') : i # j => file'[i] # file'[j]
    BY <1>4, <2>1 DEF FileComplete
  <2>6. {e \in 1 .. count' : e \notin lost'
              /\ \A v \in Writers : pending'[v] = e => fileMu' = v}
        = {e \in 1 .. count : e \notin lost
              /\ \A v \in Writers : pending[v] = e => fileMu = v} \cup {e0}
    <3>1. e0 \in 1 .. count
      BY <1>1 DEF TypeOK
    <3> HIDE DEF e0
    <3> QED
      BY <3>1, <1>1, <1>3, <1>5, <1>6, <1>7, <1>8
  <2>7. FileComplete'
    BY <2>4, <2>5, <2>6, <1>1 DEF FileComplete
  <2>8. LineInv'
    <3>1. Len(file) \in Nat
      BY DEF TypeOK
    <3>2. ASSUME NEW i \in Events(file'), i + 1 \in Events(file')
          PROVE  i \in torn
      <4>1. i \in Events(file)
        BY <3>1, <3>2, <2>1
      <4>2. CASE i + 1 \in Events(file)
        BY <4>1, <4>2 DEF LineInv, LinesIntact
      <4>3. CASE i = Len(file)
        BY <4>1, <4>3, <1>3 DEF LineInv, Unfinished, Events
      <4> QED
        BY <3>1, <3>2, <4>1, <4>2, <4>3, <2>1
    <3> QED
      BY <3>2, <1>3 DEF LineInv, LinesIntact
  <2> QED
    BY <1>2, <2>2, <2>3, <2>7, <2>8
<1>9. CASE lost' = lost \cup {pending[w]} /\ file' = file
  <2>1. TypeOK'
    BY <1>1, <1>9 DEF TypeOK
  <2>2. WriterInv'
    BY <1>1, <1>3, <1>9 DEF WriterInv
  <2>3. {e \in 1 .. count' : e \notin lost'
              /\ \A v \in Writers : pending'[v] = e => fileMu' = v}
        = {e \in 1 .. count : e \notin lost
              /\ \A v \in Writers : pending[v] = e => fileMu = v}
    <3> HIDE DEF e0
    <3>1. lost' = lost \cup {e0}
      BY <1>9 DEF e0
    <3> QED
      BY <3>1, <1>1, <1>3, <1>5, <1>7
  <2>4. FileComplete'
    BY <2>3, <1>9 DEF FileComplete
  <2>5. LineInv'
    BY <1>3, <1>9 DEF LineInv, LinesIntact
  <2> QED
    BY <1>2, <2>1, <2>2, <2>4, <2>5
<1> QED
  BY <1>8, <1>9

(* The events that have no claimant any more, when a writer is done.       *)
LEMMA WriteNewlineIInv ==
    ASSUME IInv, NEW w \in Writers, WriteNewline(w)
    PROVE  IInv'
<1> USE AuditAssumption DEF IInv, WriteNewline, None, Newline
<1>1. fileMu = w /\ fileMu' = Nobody /\ count' = count /\ lost' = lost
  OBVIOUS
<1>2. pending' \in [Writers -> Nat] /\ pending'[w] = 0
      /\ \A v \in Writers \ {w} : pending'[v] = pending[v]
  BY DEF TypeOK
<1>3. RingInv'
  BY DEF RingInv
<1>4. \A e \in 1 .. count :
        (\A v \in Writers : pending[v] = e => fileMu = v)
          <=> (\A v \in Writers : pending'[v] = e => fileMu' = v)
  <2>1. \A v \in Writers : pending[v] # 0 /\ pending[v] = pending[w] => v = w
    BY DEF WriterInv
  <2> QED
    BY <2>1, <1>1, <1>2 DEF TypeOK
<1>5. {e \in 1 .. count' : e \notin lost'
            /\ \A v \in Writers : pending'[v] = e => fileMu' = v}
      = {e \in 1 .. count : e \notin lost
            /\ \A v \in Writers : pending[v] = e => fileMu = v}
  BY <1>1, <1>4
<1>6. CASE file' = Append(file, Newline) /\ torn' = torn
  <2>1. /\ file' \in Seq(Nat) /\ Len(file') = Len(file) + 1
        /\ \A i \in 1 .. Len(file) : file'[i] = file[i]
        /\ file'[Len(file) + 1] = 0
        /\ Events(file) \subseteq 1 .. Len(file)
        /\ Events(file') = Events(file)
    BY <1>6, AppendEvents DEF TypeOK
  <2>2. TypeOK'
    BY <2>1, <1>2, <1>6 DEF TypeOK
  <2>3. WriterInv'
    BY <1>1, <1>2, <2>1 DEF WriterInv, TypeOK
  <2>4. \A i \in Events(file) : file'[i] = file[i]
    BY <2>1
  <2>5. FileComplete'
    <3>1. {file'[i] : i \in Events(file')} = {file[i] : i \in Events(file)}
      BY <2>1, <2>4, Zenon
    <3>2. \A i, j \in Events(file') : i # j => file'[i] # file'[j]
      BY <2>1, <2>4, Zenon DEF FileComplete
    <3> QED
      BY <1>5, <3>1, <3>2, Zenon DEF FileComplete
  <2>6. LineInv'
    BY <1>6, <2>1 DEF LineInv, LinesIntact, Unfinished
  <2> QED
    BY <1>3, <2>2, <2>3, <2>5, <2>6
<1>7. CASE torn' = torn \cup Unfinished /\ file' = file
  <2>1. TypeOK'
    BY <1>2, <1>7, UnfinishedType DEF TypeOK
  <2>2. WriterInv'
    BY <1>1, <1>2, <1>7 DEF WriterInv, TypeOK
  <2>3. FileComplete'
    BY <1>5, <1>7 DEF FileComplete
  <2>4. LineInv'
    BY <1>7 DEF LineInv, LinesIntact, Unfinished
  <2> QED
    BY <1>3, <2>1, <2>2, <2>3, <2>4
<1> QED
  BY <1>6, <1>7

(* ... when the process dies and starts again ...                          *)
LEMMA CrashRestartIInv ==
    ASSUME IInv, CrashRestart
    PROVE  IInv'
<1> USE MaxSizeAssumption, AuditAssumption DEF IInv, CrashRestart, None, Newline
<1> DEFINE unwritten == {pending[w] : w \in {v \in Writers : pending[v] # None /\ fileMu # v}}
<1>1. unwritten \subseteq 1 .. count
  BY DEF TypeOK, WriterInv
<1>2. lost' = lost \cup unwritten /\ count' = count /\ file' = file /\ fileMu' = Nobody
      /\ \A w \in Writers : pending'[w] = 0
  OBVIOUS
<1>3. TypeOK'
  <2>1. ring' \in RingType
    BY NewRingType
  <2>2. torn' \subseteq Nat /\ lost' \subseteq Nat
    BY <1>1, UnfinishedType DEF TypeOK
  <2>3. pending' \in [Writers -> Nat] /\ first' \in Nat \ {0}
    BY DEF TypeOK
  <2> QED
    BY <1>2, <2>1, <2>2, <2>3 DEF TypeOK, RingType
<1>4. RingInv'
  BY DEF RingInv, Placed, NewRing, Slots, TypeOK
<1>5. WriterInv'
  BY <1>1, <1>2 DEF WriterInv, TypeOK
<1>6. \A e \in 1 .. count : e \in unwritten
        <=> ~(\A v \in Writers : pending[v] = e => fileMu = v)
  OBVIOUS
<1>7. {e \in 1 .. count' : e \notin lost'
            /\ \A v \in Writers : pending'[v] = e => fileMu' = v}
      = {e \in 1 .. count : e \notin lost
            /\ \A v \in Writers : pending[v] = e => fileMu = v}
  <2> HIDE DEF unwritten
  <2> QED
    BY <1>2, <1>6
<1>8. FileComplete'
  BY <1>2, <1>7 DEF FileComplete
<1>9. LineInv'
  BY <1>2 DEF LineInv, LinesIntact, Unfinished
<1> QED
  BY <1>3, <1>4, <1>5, <1>8, <1>9

(* ... and so in every step.                                               *)
LEMMA NextIInv == IInv /\ [Next]_vars => IInv'
<1> SUFFICES ASSUME IInv, [Next]_vars PROVE IInv'
  OBVIOUS
<1>1. CASE UNCHANGED vars
  BY <1>1 DEF IInv, TypeOK, RingInv, WriterInv, FileComplete, LineInv, LinesIntact,
              Unfinished, vars
<1>2. ASSUME NEW w \in Writers, RecordRing(w) PROVE IInv'
  BY <1>2, RecordRingIInv
<1>3. ASSUME NEW w \in Writers, WriteEvent(w) PROVE IInv'
  BY <1>3, WriteEventIInv
<1>4. ASSUME NEW w \in Writers, WriteNewline(w) PROVE IInv'
  BY <1>4, WriteNewlineIInv
<1>5. CASE CrashRestart
  BY <1>5, CrashRestartIInv
<1> QED
  BY <1>1, <1>2, <1>3, <1>4, <1>5 DEF Next

(* The inductive invariant holds in every behaviour of the audit store.    *)
THEOREM AuditInvariant == Spec => []IInv
  BY InitIInv, NextIInv, PTL DEF Spec

(* The state of the audit store keeps its type: the cursor never leaves    *)
(* the ring, whatever its size.                                            *)
THEOREM AuditTypeCorrect == Spec => []TypeOK
<1>1. IInv => TypeOK
  BY DEF IInv
<1> QED
  BY AuditInvariant, <1>1, PTL

(* The ring always holds exactly the newest events since the start of the  *)
(* program, each once, for every maxSize and any number of laps.           *)
THEOREM RetainsNewestHolds == Spec => []RetainsNewest
<1>1. IInv => RetainsNewest
  BY PlacesRetain DEF IInv, TypeOK, RingInv, RetainsNewest, Used
<1> QED
  BY AuditInvariant, <1>1, PTL

(* Every event is in the audit file exactly once unless a crash or an      *)
(* error kept it out, for any number of goroutines in Record.              *)
THEOREM FileCompleteHolds == Spec => []FileComplete
<1>1. IInv => FileComplete
  BY DEF IInv
<1> QED
  BY AuditInvariant, <1>1, PTL

(* Two events share a line of the audit file only where a crash or an      *)
(* error swallowed a newline, for any number of goroutines in Record.      *)
THEOREM LinesIntactHolds == Spec => []LinesIntact
<1>1. IInv => LinesIntact
  BY DEF IInv, LineInv
<1> QED
  BY AuditInvariant, <1>1, PTL
=============================================================================
