---------------------------- MODULE NamingSeries ----------------------------
(***************************************************************************)
(* The numbers of one naming series: getseries() and revert_series_if_last *)
(* of frappe/model/naming.py, called by insert() and delete_doc() of       *)
(* concurrent requests.                                                    *)
(*                                                                         *)
(* The counter is one row of `tabSeries`.  Both functions read it with     *)
(* SELECT ... FOR UPDATE, so InnoDB gives it to one transaction until its  *)
(* end; while there is no such row the SELECT only locks the gap, which    *)
(* several transactions may do, and an INSERT waits for the others.  A     *)
(* document is named by its number; the documents of the same DocType      *)
(* whose name is not a number under the prefix of today (amended, renamed, *)
(* of last year's prefix) are Others.                                      *)
(***************************************************************************)
EXTENDS Integers

CONSTANTS
    Requests,   \* the requests and jobs that insert and delete documents
    Others,     \* documents whose name revert_series_if_last() reads as 0
    None,       \* no request, no row
    MaxNumber   \* bound: the highest number given

ASSUME NamingSeriesAssumption ==
    /\ None \notin Requests \cup Int
    /\ Others \cap Int = {} /\ None \notin Others
    /\ MaxNumber \in Nat

VARIABLES
    current,    \* the committed counter, None while there is no row
    docs,       \* the committed documents
    used,       \* history: numbers that committed transactions gave
    lock,       \* the transaction that has locked the row of the counter
    gaps,       \* the transactions that have locked the gap
    pc,         \* each request: its place
    seen,       \* each request: the documents in its snapshot
    mine,       \* each request: the counter, when it has the lock
    number,     \* each request: the number it inserts a document with
    target,     \* each request: the document it deletes
    added,      \* each request: documents inserted, not committed
    removed,    \* each request: documents deleted, not committed
    given       \* each request: numbers given, not committed

db == <<current, docs, used>>
locks == <<lock, gaps>>
pending == <<added, removed, given>>
vars == <<db, locks, pc, seen, mine, number, target, pending>>

Init ==
    /\ current = None
    /\ docs = Others
    /\ used = {}
    /\ lock = None /\ gaps = {}
    /\ pc = [p \in Requests |-> "idle"]
    /\ seen = [p \in Requests |-> {}]
    /\ mine = [p \in Requests |-> 0]
    /\ number = [p \in Requests |-> 0]
    /\ target = [p \in Requests |-> 0]
    /\ added = [p \in Requests |-> {}]
    /\ removed = [p \in Requests |-> {}]
    /\ given = [p \in Requests |-> {}]

Goto(p, s) == pc' = [pc EXCEPT ![p] = s]

\* What the transaction of p finds in the table when it writes ...
Table(p) == (docs \ removed[p]) \cup added[p]

\* ... and when it only reads.
Visible(p) == (seen[p] \ removed[p]) \cup added[p]

\* The counter as SELECT ... FOR UPDATE returns it.
Counter(p) == IF lock = p THEN mine[p] ELSE current

Free(p) == lock \in {None, p}

-----------------------------------------------------------------------------
\* The first read of a request takes its snapshot.
Begin(p) ==
    /\ pc[p] = "idle"
    /\ seen' = [seen EXCEPT ![p] = docs]
    /\ Goto(p, "open")
    /\ UNCHANGED <<db, locks, mine, number, target, pending>>

\* insert(): set_new_name() comes to make_autoname() ...
StartInsert(p) ==
    /\ pc[p] = "open"
    /\ Goto(p, "series")
    /\ UNCHANGED <<db, locks, seen, mine, number, target, pending>>

\* Mutated: the counter is read without FOR UPDATE.
NextUnlocked(p) ==
    /\ pc[p] = "series" /\ Counter(p) # None /\ Counter(p) < MaxNumber
    /\ lock' = p
    /\ mine' = [mine EXCEPT ![p] = Counter(p) + 1]
    /\ number' = [number EXCEPT ![p] = Counter(p) + 1]
    /\ Goto(p, "insert")
    /\ UNCHANGED <<db, gaps, seen, target, pending>>

\* ... and getseries() locks the counter and increments it, ...
NextNumber(p) ==
    /\ pc[p] = "series" /\ Free(p)
    /\ Counter(p) # None /\ Counter(p) < MaxNumber
    /\ lock' = p
    /\ mine' = [mine EXCEPT ![p] = Counter(p) + 1]
    /\ number' = [number EXCEPT ![p] = Counter(p) + 1]
    /\ Goto(p, "insert")
    /\ UNCHANGED <<db, gaps, seen, target, pending>>

\* ... or finds no counter ...
FindNoSeries(p) ==
    /\ pc[p] = "series" /\ lock = None /\ current = None
    /\ gaps' = gaps \cup {p}
    /\ Goto(p, "create")
    /\ UNCHANGED <<db, lock, seen, mine, number, target, pending>>

\* ... and creates it.
CreateSeries(p) ==
    /\ pc[p] = "create" /\ gaps = {p}
    /\ lock' = p
    /\ mine' = [mine EXCEPT ![p] = 1]
    /\ number' = [number EXCEPT ![p] = 1]
    /\ Goto(p, "insert")
    /\ UNCHANGED <<db, gaps, seen, target, pending>>

\* db_insert(): a name that is taken raises DuplicateEntryError (Fail).
InsertRow(p) ==
    /\ pc[p] = "insert" /\ number[p] \notin Table(p)
    /\ added' = [added EXCEPT ![p] = @ \cup {number[p]}]
    /\ given' = [given EXCEPT ![p] = @ \cup {number[p]}]
    /\ Goto(p, "open")
    /\ UNCHANGED <<db, locks, seen, mine, number, target, removed>>

\* delete_doc(): the document is loaded ...
StartDelete(p) ==
    /\ pc[p] = "open"
    /\ \E d \in Visible(p) : target' = [target EXCEPT ![p] = d]
    /\ Goto(p, "revert")
    /\ UNCHANGED <<db, locks, seen, mine, number, pending>>

\* cint(name.replace(prefix, "")).
Count(d) == IF d \in Others THEN 0 ELSE d

\* Mutated: any document of the series counts as the last one.
RevertAny(p) ==
    /\ pc[p] = "revert" /\ Free(p) /\ Counter(p) # None
    /\ lock' = p
    /\ mine' = [mine EXCEPT ![p] = Counter(p) - 1]
    /\ added' = [added EXCEPT ![p] = @ \ {target[p]}]
    /\ removed' = [removed EXCEPT ![p] = @ \cup {target[p]}]
    /\ Goto(p, "open")
    /\ UNCHANGED <<db, gaps, seen, number, target, given>>

\* ... update_naming_series() locks the counter and takes the number back if
\* it is the last one, and the document is deleted by its name.
Revert(p) ==
    /\ pc[p] = "revert" /\ Free(p)
    /\ IF Counter(p) = None
         THEN /\ gaps' = gaps \cup {p}
              /\ UNCHANGED <<lock, mine>>
         ELSE /\ lock' = p
              /\ mine' = [mine EXCEPT ![p] =
                            IF Counter(p) = Count(target[p]) THEN Counter(p) - 1
                                                             ELSE Counter(p)]
              /\ UNCHANGED gaps
    /\ added' = [added EXCEPT ![p] = @ \ {target[p]}]
    /\ removed' = [removed EXCEPT ![p] = @ \cup {target[p]}]
    /\ Goto(p, "open")
    /\ UNCHANGED <<db, seen, number, target, given>>

-----------------------------------------------------------------------------
\* The end of a transaction: its locks and what it has not committed go.
Release(p) ==
    /\ lock' = IF lock = p THEN None ELSE lock
    /\ gaps' = gaps \ {p}
    /\ seen' = [seen EXCEPT ![p] = {}]
    /\ mine' = [mine EXCEPT ![p] = 0]
    /\ number' = [number EXCEPT ![p] = 0]
    /\ target' = [target EXCEPT ![p] = 0]
    /\ added' = [added EXCEPT ![p] = {}]
    /\ removed' = [removed EXCEPT ![p] = {}]
    /\ given' = [given EXCEPT ![p] = {}]
    /\ Goto(p, "idle")

Commit(p) ==
    /\ pc[p] = "open"
    /\ current' = Counter(p)
    /\ docs' = Table(p)
    /\ used' = used \cup given[p]
    /\ Release(p)

\* Mutated: the counter is committed on its own.
KeepCounter(p) ==
    /\ current' = Counter(p)
    /\ UNCHANGED <<docs, used>>
    /\ Release(p)

\* ROLLBACK.
Rollback(p) == Release(p) /\ UNCHANGED db

\* An exception ends the request at any point.
Fail(p) == pc[p] # "idle" /\ Rollback(p)

\* Two transactions that have locked the gap and wait for each other to
\* create the row: InnoDB rolls one of them back.
Deadlock(p) ==
    /\ pc[p] = "create"
    /\ \E q \in gaps \ {p} : pc[q] = "create"
    /\ Rollback(p)

Request(p) ==
    \/ Begin(p) \/ StartInsert(p) \/ NextNumber(p) \/ FindNoSeries(p)
    \/ CreateSeries(p) \/ InsertRow(p) \/ StartDelete(p) \/ Revert(p)
    \/ Commit(p) \/ Fail(p) \/ Deadlock(p)

Next == \E p \in Requests : Request(p)

Spec == Init /\ [][Next]_vars

-----------------------------------------------------------------------------
(***************************************************************************)
(* Properties.                                                             *)
(***************************************************************************)
Names == Int \cup Others

TypeOK ==
    /\ current \in Int \cup {None}
    /\ docs \subseteq Names /\ used \subseteq Int
    /\ lock \in Requests \cup {None} /\ gaps \subseteq Requests
    /\ pc \in [Requests -> {"idle", "open", "series", "create", "insert", "revert"}]
    /\ seen \in [Requests -> SUBSET Names]
    /\ mine \in [Requests -> Int]
    /\ number \in [Requests -> Int]
    /\ target \in [Requests -> Names]
    /\ added \in [Requests -> SUBSET Int]
    /\ removed \in [Requests -> SUBSET Names]
    /\ given \in [Requests -> SUBSET Int]

\* "ABC.#### creates a series ABC0001, ABC0002 etc": a number that getseries()
\* gives is not the name of a document that is already there, whoever
\* inserted it, and after any deletions and rollbacks.
FreshNumber == \A p \in Requests : pc[p] = "insert" => number[p] \notin Table(p)

\* A new document's number is above those of all the documents that were there
\* before and stay: a number is taken back only from the end of the series.
NewNumbersAreHighest ==
    \A p \in Requests : \A n \in added[p] : \A d \in docs \ removed[p] : n > d

\* No number is skipped: each number up to the counter was given by a
\* transaction that was committed, although many are rolled back.
NoGaps == current # None => \A n \in 1..current : n \in used

-----------------------------------------------------------------------------
(***************************************************************************)
(* What keeps these so while every document of the series has a number     *)
(* (Others = {}): the lock of the counter covers everything a transaction  *)
(* has inserted, deleted and counted.                                      *)
(***************************************************************************)

\* The committed counter is not below any document, and counts what was given.
CounterCovers ==
    IF current = None
      THEN docs = {} /\ \A p \in Requests : seen[p] = {}
      ELSE /\ \A d \in docs : d <= current
           /\ \A n \in 1..current : n \in used

\* Who has not locked the counter has changed nothing ...
UnlockedUnchanged(p) ==
    lock # p => /\ pc[p] # "insert"
                /\ added[p] = {} /\ removed[p] = {} /\ given[p] = {}

\* ... and who has locked it knows all the numbers.
LockedCovers(p) ==
    lock = p =>
        /\ \A d \in Table(p) : d <= mine[p]
        /\ pc[p] = "insert" => number[p] = mine[p] /\ \A d \in Table(p) : d < mine[p]
        /\ \A n \in 1..mine[p] :
                n \in used \/ n \in given[p] \/ (pc[p] = "insert" /\ n = number[p])
        /\ \A n \in added[p] : \A d \in docs \ removed[p] : n > d

\* The row is created by nobody else while a transaction waits to do it, and
\* is there when a document is deleted.
GapHeld(p) ==
    /\ pc[p] = "create" => p \in gaps /\ lock = None /\ current = None
    /\ pc[p] = "revert" => Counter(p) # None

CounterIsLocked ==
    /\ CounterCovers
    /\ \A p \in Requests : UnlockedUnchanged(p) /\ LockedCovers(p) /\ GapHeld(p)

=============================================================================
