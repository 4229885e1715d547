----------------------------- MODULE AuditStore -----------------------------
(***************************************************************************)
(* internal/audit/store.go: the audit log, a ring in memory that queries   *)
(* read and a file that only grows.  Record is called by many goroutines;  *)
(* it takes one lock for the ring and, after releasing it, another one for *)
(* the file, and writes an event and its newline with two calls of which   *)
(* each can fail unnoticed.  So the ring and the file need not agree on    *)
(* the order of events, and a crash can come at any place in between.      *)
(*                                                                         *)
(* An event is its number: the order in which it entered the ring.         *)
(***************************************************************************)
EXTENDS Ring, Sequences

CONSTANTS Writers,    \* goroutines that call Record
          Nobody,     \* the holder of a free mutex
          HasFile,    \* a file path was given and could be opened
          MaxEvents   \* bound on the number of events

ASSUME AuditAssumption ==
    /\ Nobody \notin Writers
    /\ HasFile \in BOOLEAN
    /\ MaxEvents \in Nat

Newline == 0
None    == 0

VARIABLES
    ring,     \* events, pos
    count,    \* events that entered the ring, ever (history)
    first,    \* the number of the first event since the last start (history)
    pending,  \* pending[w]: the event whose Record call w has not finished
    fileMu,   \* who holds fileMu
    file,     \* the events and newlines in the file
    torn,     \* positions after which a newline is missing (history)
    lost      \* events that a crash or an error kept out of the file (history)

vars == <<ring, count, first, pending, fileMu, file, torn, lost>>

TypeOK ==
    /\ ring \in [slot: [Slots -> Nat], len: 0 .. MaxSize, pos: Slots]
    /\ count \in Nat
    /\ first \in Nat \ {0}
    /\ pending \in [Writers -> Nat]
    /\ fileMu \in Writers \cup {Nobody}
    /\ file \in Seq(Nat)
    /\ torn \in SUBSET Nat
    /\ lost \in SUBSET Nat

(* NewStore                                                                *)
Init ==
    /\ ring = NewRing(None)
    /\ count = 0
    /\ first = 1
    /\ pending = [w \in Writers |-> None]
    /\ fileMu = Nobody
    /\ file = <<>>
    /\ torn = {}
    /\ lost = {}

-----------------------------------------------------------------------------
(* The first half of Record, under mu.                                     *)
RecordRing(w) ==
    /\ pending[w] = None
    /\ count < MaxEvents
    /\ count' = count + 1
    /\ ring' = Push(ring, count + 1)
    /\ pending' = IF HasFile THEN [pending EXCEPT ![w] = count + 1] ELSE pending
    /\ UNCHANGED <<first, fileMu, file, torn, lost>>

\* Mutant: a writer that finds fileMu taken writes its event all the same.
WriteEventUnlocked(w) ==
    /\ pending[w] # None
    /\ fileMu # w
    /\ file' = Append(file, pending[w])
    /\ IF fileMu = Nobody
       THEN fileMu' = w /\ UNCHANGED pending
       ELSE pending' = [pending EXCEPT ![w] = None] /\ UNCHANGED fileMu
    /\ UNCHANGED <<ring, count, first, torn, lost>>

(* The second half takes fileMu and writes the event.  An error of Write   *)
(* is dropped; what of the event got into the file then is no record.      *)
WriteEvent(w) ==
    /\ pending[w] # None
    /\ fileMu = Nobody
    /\ fileMu' = w
    /\ \/ file' = Append(file, pending[w]) /\ UNCHANGED lost
       \/ lost' = lost \cup {pending[w]} /\ UNCHANGED file
    /\ UNCHANGED <<ring, count, first, pending, torn>>

(* A newline is missing at the end of the file.                            *)
Unfinished == {i \in {Len(file)} : i > 0 /\ file[i] # Newline}

\* Mutant: the event is written again, as if the write had to be repeated.
WriteNewlineRetry(w) ==
    /\ fileMu = w
    /\ fileMu' = Nobody
    /\ file' = Append(file, Newline)
    /\ UNCHANGED <<ring, count, first, pending, torn, lost>>

\* Mutant: fileMu is not released.
WriteNewlineKeepsLock(w) ==
    /\ fileMu = w
    /\ pending[w] # None
    /\ pending' = [pending EXCEPT ![w] = None]
    /\ file' = Append(file, Newline)
    /\ UNCHANGED <<ring, count, first, fileMu, torn, lost>>

(* ... and its newline, with the same disregard of errors.                 *)
WriteNewline(w) ==
    /\ fileMu = w
    /\ fileMu' = Nobody
    /\ pending' = [pending EXCEPT ![w] = None]
    /\ \/ file' = Append(file, Newline) /\ UNCHANGED torn
       \/ torn' = torn \cup Unfinished /\ UNCHANGED file
    /\ UNCHANGED <<ring, count, first, lost>>

(* The program ends and is started again: the ring is empty and the file   *)
(* is opened for appending.                                                *)
CrashRestart ==
    /\ lost' = lost \cup {pending[w] : w \in {v \in Writers : pending[v] # None /\ fileMu # v}}
    /\ torn' = torn \cup Unfinished
    /\ pending' = [w \in Writers |-> None]
    /\ fileMu' = Nobody
    /\ ring' = NewRing(None)
    /\ first' = count + 1
    /\ UNCHANGED <<count, file>>

Next ==
    \/ \E w \in Writers : RecordRing(w) \/ WriteEvent(w) \/ WriteNewline(w)
    \/ CrashRestart

Spec == Init /\ [][Next]_vars

(* A goroutine that holds fileMu goes on, and Go's mutexes hand over to a  *)
(* waiter that has starved.                                                *)
FairSpec ==
    /\ Spec
    /\ \A w \in Writers : SF_vars(WriteEvent(w)) /\ WF_vars(WriteNewline(w))

-----------------------------------------------------------------------------
(* The newest events of this run of the program, as many as fit.           *)
Retained == {e \in first .. count : e > count - MaxSize}

(* However often Record has gone round the ring, the ring holds exactly    *)
(* the newest events since the start, each once.                           *)
RetainsNewest ==
    /\ {ring.slot[i] : i \in Used(ring)} = Retained
    /\ \A i, j \in Used(ring) : i # j => ring.slot[i] # ring.slot[j]

Events(s) == {i \in 1 .. Len(s) : s[i] # Newline}

(* Whatever the order of the writers, an event gets into the file exactly  *)
(* once, unless an error or a crash came before it was written; one that   *)
(* is lost does not turn up later.                                         *)
FileComplete ==
    /\ \A i, j \in Events(file) : i # j => file[i] # file[j]
    /\ HasFile => {file[i] : i \in Events(file)} =
           {e \in 1 .. count : e \notin lost
                               /\ \A w \in Writers : pending[w] = e => fileMu = w}

(* The two Write calls of one event are not separated by another event:    *)
(* two events share a line only where a crash or an error swallowed the    *)
(* newline.                                                                *)
LinesIntact ==
    \A i \in Events(file) : i + 1 \in Events(file) => i \in torn

(* Every call of Record comes to an end (the verdict on a blocked request  *)
(* waits for it), or the program does.                                     *)
RecordReturns == \A w \in Writers : pending[w] # None ~> pending[w] = None
=============================================================================
