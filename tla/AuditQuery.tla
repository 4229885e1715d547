----------------------------- MODULE AuditQuery -----------------------------
(***************************************************************************)
(* What the audit log answers: Store.Query and Store.Stats on the ring     *)
(* that AuditStore fills.  Each runs under the lock of the ring, so that a *)
(* query sees the ring between two calls of Record.                        *)
(***************************************************************************)
EXTENDS Ring, Sequences, FiniteSets

CONSTANTS Kinds,                   \* what is recorded: actor, action and result
          MaxLimit, DefaultLimit,  \* 1000 and 100
          MaxEvents                \* bound on the events recorded

AuditQueryConstants ==
    /\ MaxSize \in Nat \ {0} /\ MaxEvents \in Nat
    /\ MaxLimit \in Nat /\ DefaultLimit \in 1 .. MaxLimit

VARIABLES ring,
          log,     \* all events in the order of Record (history)
          filter,  \* the filter of the query since the last event,
          answer,  \* what it returned
          stats    \* what the last call of Stats returned, since then

vars == <<ring, log, filter, answer, stats>>

Any == "any"
Blank == [actor |-> Any, action |-> Any, result |-> Any, n |-> 0]
NoStats == [total |-> -1, allowed |-> 0, blocked |-> 0]
NoFilter == [limit |-> 0, actor |-> Any, action |-> Any, result |-> Any]
Filters == [limit: 0 .. MaxLimit + 1, actor: {k.actor : k \in Kinds} \cup {Any},
            action: {k.action : k \in Kinds} \cup {Any},
            result: {k.result : k \in Kinds} \cup {Any}]

Init ==
    /\ ring = NewRing(Blank) /\ log = <<>>
    /\ filter = NoFilter /\ answer = <<>>
    /\ stats = NoStats

Record(k) ==
    /\ Len(log) < MaxEvents
    /\ LET e == [actor |-> k.actor, action |-> k.action, result |-> k.result, n |-> Len(log) + 1]
       IN  ring' = Push(ring, e) /\ log' = Append(log, e)
    /\ filter' = NoFilter /\ answer' = <<>> /\ stats' = NoStats

Limit(f) == IF f.limit \in 1 .. MaxLimit THEN f.limit ELSE DefaultLimit

\* Mutant: the action that is asked for is not looked at.
MatchesAction(f, e) == f.actor \in {Any, e.actor} /\ f.result \in {Any, e.result}

(* Whatever of the filter is empty matches everything.                     *)
Matches(f, e) == /\ f.actor \in {Any, e.actor}
                 /\ f.action \in {Any, e.action}
                 /\ f.result \in {Any, e.result}

(* The slots that the loop of Query comes upon, in its order: from the     *)
(* last to the first, whatever the cursor is.                              *)
Descending(S) ==
    [k \in 1 .. Cardinality(S) |->
        ring.slot[CHOOSE i \in S : Cardinality({j \in S : j > i}) = k - 1]]

Hits(f) == {i \in Used(ring) : Matches(f, ring.slot[i])}

\* Mutant: the limit is on the events looked at.
FoundSeen(f) == Descending({i \in Hits(f) : i >= ring.len - Limit(f)})

\* Mutant: the loop goes from the first slot to the last.
FoundForward(f) ==
    LET first == {i \in Hits(f) : Cardinality({j \in Hits(f) : j < i}) < Limit(f)}
    IN  [k \in 1 .. Cardinality(first) |->
            ring.slot[CHOOSE i \in first : Cardinality({j \in first : j < i}) = k - 1]]

(* It takes what matches until there are enough.                           *)
Taken(f) == {i \in Hits(f) : Cardinality({j \in Hits(f) : j > i}) < Limit(f)}

Found(f) == Descending(Taken(f))

(* A query changes nothing: one between two events stands for any number.  *)
Query(f) ==
    /\ filter = NoFilter
    /\ filter' = f
    /\ answer' = Found(f)
    /\ UNCHANGED <<ring, log, stats>>

With(res) == Cardinality({i \in Used(ring) : ring.slot[i].result = res})

\* Mutant: the slots up to the cursor are counted.
CountNew == [total |-> ring.len,
             allowed |-> Cardinality({i \in 0 .. ring.pos - 1 : ring.slot[i].result = "allowed"}),
             blocked |-> Cardinality({i \in 0 .. ring.pos - 1 : ring.slot[i].result # "allowed"})]

Count == [total |-> ring.len, allowed |-> With("allowed"), blocked |-> ring.len - With("allowed")]

Stats == stats' = Count /\ UNCHANGED <<ring, log, filter, answer>>

Next ==
    \/ \E k \in Kinds : Record(k)
    \/ \E f \in Filters \ {NoFilter} : Query(f)
    \/ Stats

Spec == Init /\ [][Next]_vars

-----------------------------------------------------------------------------
Retained == {log[i] : i \in {j \in DOMAIN log : j > Len(log) - MaxSize}}
Wanted == {e \in Retained : \A k \in {"actor", "action", "result"} : filter[k] \in {Any, e[k]}}
Range(s) == {s[i] : i \in DOMAIN s}

TypeOK ==
    /\ ring.len \in 0 .. MaxSize /\ ring.pos \in Slots
    /\ Range(answer) \subseteq Range(log) /\ Len(answer) <= MaxLimit

(* Query: every event returned is kept and asked for, none comes twice,    *)
(* and events are left out only when the limit is reached.                 *)
QueryComplete ==
    filter # NoFilter =>
        /\ Range(answer) \subseteq Wanted
        /\ Len(answer) = Cardinality(Range(answer))
        /\ Len(answer) < Limit(filter) => Range(answer) = Wanted

(* The place of the n-th event in the ring, counted without it.            *)
Place(e) == (e.n - 1) % MaxSize

(* Query: events come in descending order of their places, and what the    *)
(* limit leaves out has lower places than all that is returned.  So it is  *)
(* the newest, the newest first, while the ring has not come round, and    *)
(* not afterwards: of two events on either side of the cursor the older    *)
(* one has the higher place, and a limit keeps the older.                  *)
QueryOrder ==
    filter # NoFilter =>
        /\ \A i, j \in DOMAIN answer : i < j => Place(answer[i]) > Place(answer[j])
        /\ \A e \in Wanted \ Range(answer), i \in DOMAIN answer : Place(e) < Place(answer[i])

(* Stats: what is counted are the events that Query can return; blocked    *)
(* are all that are not allowed, a ban that was a success among them.      *)
StatsAgree ==
    stats # NoStats =>
        /\ stats.total = Cardinality(Retained)
        /\ stats.allowed = Cardinality({e \in Retained : e.result = "allowed"})
        /\ stats.blocked = Cardinality({e \in Retained : e.result # "allowed"})

(* The audit log as it is read: complete up to the limit, in the order of  *)
(* the places and no other, and counted as it is returned.                 *)
QueryFaithful ==
    /\ QueryComplete
    /\ QueryOrder
    /\ StatsAgree
=============================================================================
