--------------------------- MODULE Document_proofs --------------------------
(***************************************************************************)
(* What holds of Document for every set of requests and every bound on the *)
(* clock.  LInv is about the row lock and needs nothing of the callers;    *)
(* VInv says that equal timestamps mean equal contents, and needs that no  *)
(* request goes on with its copy after db_set() or after a failed save     *)
(* (Reuse = {}): TLC shows that it is false otherwise.                     *)
(***************************************************************************)
EXTENDS Document, TLAPS

-----------------------------------------------------------------------------
(***************************************************************************)
(* The lock invariant.                                                     *)
(***************************************************************************)

\* The row lock is held from check_if_latest() or the first write on.
LockHeld == \A p \in Requests : pc[p] \in {"locked", "written"} <=> lock = p

\* Which operations are at which place.
KindAtStep ==
    \A p \in Requests :
        /\ pc[p] \in {"idle", "open"} => kind[p] \in {"new", "read"}
        /\ pc[p] = "check" => kind[p] \in {"insert", "save"}
        /\ pc[p] = "locked" => kind[p] = "save"
        /\ pc[p] = "checked" => kind[p] = "insert"
        /\ pc[p] = "dbset" => kind[p] \in {"db_set", "db_set_only"}
        /\ pc[p] = "trash" => kind[p] = "delete"
        /\ pc[p] = "written" =>
             kind[p] \in {"insert", "save", "db_set", "db_set_only", "delete"}

\* A save that holds the lock has been checked against the row as it is.
Checked(p) ==
    /\ db # NoRow
    /\ base[p].modified = db.modified
    /\ <<db.docstatus, copy[p].docstatus>> \in Transitions

SavesAreChecked ==
    \A p \in Requests :
        /\ pc[p] \in {"locked", "written"} /\ kind[p] = "save" => Checked(p)
        /\ pc[p] \in {"checked", "written"} /\ kind[p] = "insert"
             => copy[p].docstatus \in {0, 1}

\* What a transaction has written, by the kind of its operation.
WrittenBy(p) ==
    /\ kind[p] = "insert" => db = NoRow /\ pending[p] = copy[p]
    /\ kind[p] = "save" =>
         /\ pending[p] = copy[p]
         /\ db.docstatus = 1 /\ copy[p].docstatus = 1 => copy[p].a = db.a
    /\ kind[p] \in {"db_set", "db_set_only"} /\ db = NoRow => pending[p] = NoRow
    /\ kind[p] = "db_set" /\ db # NoRow =>
         pending[p] = [db EXCEPT !.b = copy[p].b, !.modified = copy[p].modified]
    /\ kind[p] = "db_set_only" /\ db # NoRow =>
         pending[p] = [db EXCEPT !.c = copy[p].c]
    /\ kind[p] = "delete" => pending[p] = NoRow

PendingIsWritten == \A p \in Requests : pc[p] = "written" => WrittenBy(p)

LInv == TypeOK /\ LockHeld /\ KindAtStep /\ SavesAreChecked /\ PendingIsWritten

-----------------------------------------------------------------------------
\* Every step keeps the type of every variable.
LEMMA TypeStep == TypeOK /\ [Next]_vars => TypeOK'
<1> SUFFICES ASSUME TypeOK, [Next]_vars PROVE TypeOK'
  OBVIOUS
<1> USE DocumentAssumption, RowAssumption
<1>0. BlankRow \in Row
  BY DEF BlankRow, Row
<1>1. ASSUME NEW p \in Requests, Load(p) PROVE TypeOK'
  BY <1>1 DEF TypeOK, Load, Hold, Goto, Steps, Kinds
<1>2. ASSUME NEW p \in Requests, NewDoc(p) PROVE TypeOK'
  BY <1>0, <1>2 DEF TypeOK, NewDoc, Hold, Goto, Steps, Kinds
<1>3. ASSUME NEW p \in Requests, Close(p) PROVE TypeOK'
  BY <1>0, <1>3 DEF TypeOK, Close, Hold, Goto, Steps, Kinds
<1>4. ASSUME NEW p \in Requests, NEW edited \in SUBSET {"a", "b"},
             NEW docstatus \in 0..2, StartSave(p, edited, docstatus)
      PROVE  TypeOK'
  <2> DEFINE field(f) == IF f \in edited THEN Now ELSE copy[p][f]
             row == [modified |-> Now, docstatus |-> docstatus,
                     a |-> field("a"), b |-> field("b"), c |-> copy[p].c]
  <2>1. Now \in Nat /\ field("a") \in Nat /\ field("b") \in Nat /\ copy[p].c \in Nat
    BY DEF TypeOK, Now, Row
  <2>2. row \in Row
    BY <2>1 DEF Row
  <2>3. copy' = [copy EXCEPT ![p] = row]
    BY <1>4 DEF StartSave
  <2>4. copy' \in [Requests -> Row]
    BY <2>2, <2>3 DEF TypeOK
  <2>5. QED
    BY <1>4, <2>1, <2>4 DEF TypeOK, StartSave, Stamp, Goto, Steps, Kinds
<1>5. ASSUME NEW p \in Requests, CheckIfLatest(p) PROVE TypeOK'
  BY <1>5 DEF TypeOK, CheckIfLatest, Goto, Steps
<1>6. ASSUME NEW p \in Requests, CheckNew(p) PROVE TypeOK'
  BY <1>6 DEF TypeOK, CheckNew, Goto, Steps
<1>7. ASSUME NEW p \in Requests, UpdateRow(p) PROVE TypeOK'
  BY <1>7 DEF TypeOK, UpdateRow, Goto, Steps
<1>8. ASSUME NEW p \in Requests, InsertRow(p) PROVE TypeOK'
  BY <1>8 DEF TypeOK, InsertRow, Goto, Steps
<1>9. ASSUME NEW p \in Requests, StartDbSet(p) PROVE TypeOK'
  <2> DEFINE t == IF leaked[p] THEN copy[p].modified ELSE Now
             row == [[copy[p] EXCEPT !.b = Now] EXCEPT !.modified = t]
  <2>1. copy[p] \in Row /\ Now \in Nat
    BY DEF TypeOK, Now
  <2>2. t \in Nat
    BY <2>1 DEF Row
  <2> HIDE DEF t
  <2>3. row \in Row
    BY <2>1, <2>2 DEF Row
  <2>4. copy' = [copy EXCEPT ![p] = row]
    BY <1>9 DEF StartDbSet, TypeOK, t
  <2>5. copy' \in [Requests -> Row]
    BY <2>3, <2>4 DEF TypeOK
  <2>6. QED
    BY <1>9, <2>5 DEF TypeOK, StartDbSet, Stamp, Now, Goto, Steps, Kinds
<1>10. ASSUME NEW p \in Requests, StartDbSetOnly(p) PROVE TypeOK'
  <2>1. [copy[p] EXCEPT !.c = Now] \in Row
    BY DEF TypeOK, Row, Now
  <2>2. copy' \in [Requests -> Row]
    BY <1>10, <2>1 DEF TypeOK, StartDbSetOnly
  <2>3. QED
    BY <1>10, <2>2 DEF TypeOK, StartDbSetOnly, Stamp, Now, Goto, Steps, Kinds
<1>11. ASSUME NEW p \in Requests, WriteDbSet(p) PROVE TypeOK'
  <2> DEFINE row == CASE db = NoRow -> NoRow
             [] db # NoRow /\ kind[p] = "db_set" ->
                    [db EXCEPT !.b = copy[p].b, !.modified = copy[p].modified]
             [] db # NoRow /\ kind[p] # "db_set" -> [db EXCEPT !.c = copy[p].c]
  <2>1. row \in Row \cup {NoRow}
    BY DEF TypeOK, Row
  <2>2. pending' = [pending EXCEPT ![p] = row]
    BY <1>11 DEF WriteDbSet
  <2>3. QED
    BY <1>11, <2>1, <2>2 DEF TypeOK, WriteDbSet, Goto, Steps
<1>12. ASSUME NEW p \in Requests, StartDelete(p) PROVE TypeOK'
  BY <1>12 DEF TypeOK, StartDelete, Goto, Steps, Kinds
<1>13. ASSUME NEW p \in Requests, DeleteRow(p) PROVE TypeOK'
  BY <1>13 DEF TypeOK, DeleteRow, Goto, Steps
<1>14. ASSUME NEW p \in Requests, Commit(p) PROVE TypeOK'
  <2>1. db' \in Row \cup {NoRow} /\ lock' \in Requests \cup {None}
        /\ pending' \in [Requests -> Row \cup {NoRow}] /\ clock' \in Nat
    BY <1>14 DEF TypeOK, Commit
  <2>2. CASE Finish(p)
    BY <1>0, <2>1, <2>2 DEF TypeOK, Finish, Hold, Goto, Steps, Kinds
  <2>3. CASE GoOn(p, copy[p]) /\ UNCHANGED leaked
    BY <2>1, <2>3 DEF TypeOK, GoOn, Hold, Goto, Steps, Kinds
  <2>4. QED
    BY <1>14, <2>2, <2>3 DEF Commit
<1>15. ASSUME NEW p \in Requests, Fail(p) PROVE TypeOK'
  <2>1. db' = db /\ clock' = clock /\ lock' \in Requests \cup {None}
        /\ pending' \in [Requests -> Row \cup {NoRow}]
    BY <1>15 DEF TypeOK, Fail
  <2>2. CASE Finish(p)
    BY <1>0, <2>1, <2>2 DEF TypeOK, Finish, Hold, Goto, Steps, Kinds
  <2>3. CASE /\ db # NoRow /\ GoOn(p, db)
             /\ leaked' = [leaked EXCEPT ![p] = TRUE]
    BY <2>1, <2>3 DEF TypeOK, GoOn, Hold, Goto, Steps, Kinds
  <2>4. QED
    BY <1>15, <2>2, <2>3 DEF Fail
<1>16. CASE UNCHANGED vars
  BY <1>16 DEF vars, TypeOK
<1>17. QED
  BY <1>1, <1>2, <1>3, <1>4, <1>5, <1>6, <1>7, <1>8, <1>9, <1>10, <1>11, <1>12,
     <1>13, <1>14, <1>15, <1>16 DEF Next, Request, Save

LEMMA TypeInit == Init => TypeOK
BY DocumentAssumption, RowAssumption DEF Init, TypeOK, BlankRow, Row, Steps, Kinds

\* Every variable keeps its type in every behaviour.
THEOREM TypeCorrect == Spec => []TypeOK
BY TypeInit, TypeStep, PTL DEF Spec

-----------------------------------------------------------------------------
LEMMA LockInit == Init => LInv
<1> SUFFICES ASSUME Init PROVE LInv
  OBVIOUS
<1>1. TypeOK
  BY TypeInit
<1>2. LockHeld /\ KindAtStep /\ SavesAreChecked /\ PendingIsWritten
  BY DocumentAssumption
     DEF Init, LockHeld, KindAtStep, SavesAreChecked, PendingIsWritten
<1>3. QED
  BY <1>1, <1>2 DEF LInv

LEMMA LockStep == LInv /\ [Next]_vars => LInv'
<1> SUFFICES ASSUME LInv, [Next]_vars PROVE LInv'
  OBVIOUS
<1> USE DocumentAssumption
<1>0. TypeOK'
  BY TypeStep DEF LInv
<1> DEFINE Rest == LockHeld /\ KindAtStep /\ SavesAreChecked /\ PendingIsWritten
<1> USE DEF LInv, TypeOK, LockHeld, KindAtStep, SavesAreChecked, Checked,
            PendingIsWritten, WrittenBy
<1>1. ASSUME NEW p \in Requests, Load(p) PROVE Rest'
  BY <1>0, <1>1 DEF Load, Hold, Goto
<1>2. ASSUME NEW p \in Requests, NewDoc(p) PROVE Rest'
  BY <1>0, <1>2 DEF NewDoc, Hold, Goto
<1>3. ASSUME NEW p \in Requests, Close(p) PROVE Rest'
  BY <1>0, <1>3 DEF Close, Hold, Goto
<1>4. ASSUME NEW p \in Requests, NEW edited \in SUBSET {"a", "b"},
             NEW docstatus \in 0..2, StartSave(p, edited, docstatus) PROVE Rest'
  BY <1>0, <1>4 DEF StartSave, Stamp, Goto
<1>5. ASSUME NEW p \in Requests, CheckIfLatest(p) PROVE Rest'
  BY <1>0, <1>5 DEF CheckIfLatest, Goto
<1>6. ASSUME NEW p \in Requests, CheckNew(p) PROVE Rest'
  BY <1>0, <1>6 DEF CheckNew, Goto, Transitions
<1>7. ASSUME NEW p \in Requests, UpdateRow(p) PROVE Rest'
  BY <1>0, <1>7 DEF UpdateRow, UpdatesAfterSubmit, Goto
<1>8. ASSUME NEW p \in Requests, InsertRow(p) PROVE Rest'
  BY <1>0, <1>8 DEF InsertRow, Goto
<1>9. ASSUME NEW p \in Requests, StartDbSet(p) PROVE Rest'
  BY <1>0, <1>9 DEF StartDbSet, Stamp, Goto
<1>10. ASSUME NEW p \in Requests, StartDbSetOnly(p) PROVE Rest'
  BY <1>0, <1>10 DEF StartDbSetOnly, Stamp, Goto
<1>11. ASSUME NEW p \in Requests, WriteDbSet(p) PROVE Rest'
  BY <1>0, <1>11 DEF WriteDbSet, Goto
<1>12. ASSUME NEW p \in Requests, StartDelete(p) PROVE Rest'
  BY <1>0, <1>12 DEF StartDelete, Goto
<1>13. ASSUME NEW p \in Requests, DeleteRow(p) PROVE Rest'
  BY <1>0, <1>13 DEF DeleteRow, Goto
<1>14. ASSUME NEW p \in Requests, Commit(p) PROVE Rest'
  <2>a. /\ pc[p] = "written" /\ lock = p /\ lock' = None
        /\ \A q \in Requests \ {p} : pc[q] \notin {"locked", "written"}
    BY <1>14 DEF Commit
  <2>b. \A q \in Requests \ {p} :
            /\ pc'[q] = pc[q] /\ kind'[q] = kind[q]
            /\ copy'[q] = copy[q] /\ base'[q] = base[q]
    BY <1>14 DEF Commit, Finish, GoOn, Hold, Goto
  <2>1. /\ pc[p] = "written" /\ lock = p /\ lock' = None
        /\ \A q \in Requests \ {p} :
              /\ pc[q] \notin {"locked", "written"}
              /\ pc'[q] = pc[q] /\ kind'[q] = kind[q] /\ copy'[q] = copy[q]
              /\ base'[q] = base[q]
    BY <2>a, <2>b
  <2>2. pc'[p] \in {"idle", "open"} /\ kind'[p] = "read"
    BY <1>14 DEF Commit, Finish, GoOn, Hold, Goto
  <2>3. LockHeld' /\ KindAtStep'
    <3> HIDE DEF LInv, TypeOK, SavesAreChecked, Checked, PendingIsWritten, WrittenBy
    <3>1. LockHeld /\ KindAtStep
      BY DEF LInv
    <3>2. LockHeld'
      BY <2>1, <2>2, <3>1
    <3>3. KindAtStep'
      BY <2>1, <2>2, <3>1
    <3>4. QED
      BY <3>2, <3>3
  <2>4. SavesAreChecked' /\ PendingIsWritten'
    BY <2>1, <2>2
  <2>5. QED
    BY <2>3, <2>4
<1>15. ASSUME NEW p \in Requests, Fail(p) PROVE Rest'
  <2>1. /\ lock' = IF lock = p THEN None ELSE lock
        /\ db' = db
        /\ \A q \in Requests \ {p} :
              /\ pc'[q] = pc[q] /\ kind'[q] = kind[q] /\ copy'[q] = copy[q]
              /\ base'[q] = base[q] /\ pending'[q] = pending[q]
    BY <1>15 DEF Fail, Finish, GoOn, Hold, Goto
  <2>2. pc'[p] \in {"idle", "open"} /\ kind'[p] = "read"
    BY <1>15 DEF Fail, Finish, GoOn, Hold, Goto
  <2>3. LockHeld' /\ KindAtStep'
    <3> HIDE DEF LInv, TypeOK, SavesAreChecked, Checked, PendingIsWritten, WrittenBy
    <3>1. LockHeld /\ KindAtStep
      BY DEF LInv
    <3>2. LockHeld'
      BY <2>1, <2>2, <3>1
    <3>3. KindAtStep'
      BY <2>1, <2>2, <3>1
    <3>4. QED
      BY <3>2, <3>3
  <2>4. SavesAreChecked'
    <3> SUFFICES ASSUME NEW q \in Requests PROVE
          /\ pc'[q] \in {"locked", "written"} /\ kind'[q] = "save" => Checked(q)'
          /\ pc'[q] \in {"checked", "written"} /\ kind'[q] = "insert"
               => copy'[q].docstatus \in {0, 1}
      OBVIOUS
    <3>1. CASE q = p
      BY <2>2, <3>1
    <3>2. CASE q # p
      <4>1. /\ pc'[q] = pc[q] /\ kind'[q] = kind[q] /\ copy'[q] = copy[q]
            /\ base'[q] = base[q] /\ db' = db
        BY <2>1, <3>2
      <4>2. Checked(q) => Checked(q)'
        BY <4>1
      <4>3. /\ pc[q] \in {"locked", "written"} /\ kind[q] = "save" => Checked(q)
            /\ pc[q] \in {"checked", "written"} /\ kind[q] = "insert"
                 => copy[q].docstatus \in {0, 1}
        OBVIOUS
      <4> HIDE DEF Checked, LInv
      <4>4. QED
        BY <4>1, <4>2, <4>3
    <3>3. QED
      BY <3>1, <3>2
  <2>5. PendingIsWritten'
    <3>1. ASSUME NEW q \in Requests \ {p}, pc'[q] = "written" PROVE WrittenBy(q)'
      <4>1. pc[q] = "written" /\ WrittenBy(q)
        BY <2>1, <3>1
      <4>2. QED
        BY <2>1, <4>1
    <3>2. QED
      BY <2>2, <3>1
  <2>6. QED
    BY <2>3, <2>4, <2>5
<1>16. CASE UNCHANGED vars
  BY <1>16 DEF vars
<1>17. QED
  BY <1>0, <1>1, <1>2, <1>3, <1>4, <1>5, <1>6, <1>7, <1>8, <1>9, <1>10, <1>11,
     <1>12, <1>13, <1>14, <1>15, <1>16 DEF Next, Request, Save

-----------------------------------------------------------------------------
(***************************************************************************)
(* What the row lock and the checks under it give: the life cycle.         *)
(***************************************************************************)

\* Only a commit changes the row, and it installs what was written.
LEMMA OnlyCommits ==
    ASSUME [Next]_vars, db' # db
    PROVE  \E p \in Requests : pc[p] = "written" /\ db' = pending[p]
<1>1. ~ UNCHANGED vars /\ Next
  BY DEF vars
<1>2. PICK p \in Requests : Request(p)
  BY <1>1 DEF Next
<1>3. Commit(p)
  BY <1>2 DEF Request, Save, Load, NewDoc, Close, StartSave, CheckIfLatest, CheckNew,
       UpdateRow, InsertRow, StartDbSet, StartDbSetOnly, WriteDbSet, StartDelete,
       DeleteRow, Fail
<1>4. QED
  BY <1>3 DEF Commit

\* A committed row follows the one before it: the transition is legal, and
\* a document that stays submitted or cancelled keeps its frozen field.
LEMMA RowsFollow ==
    ASSUME LInv, [Next]_vars, db' # db, db # NoRow, db' # NoRow
    PROVE  /\ <<db.docstatus, db'.docstatus>> \in Transitions \cup {<<2, 2>>}
           /\ db.docstatus >= 1 /\ db'.docstatus = db.docstatus => db'.a = db.a
<1>1. PICK p \in Requests : pc[p] = "written" /\ db' = pending[p]
  BY OnlyCommits
<1>2. WrittenBy(p) /\ db \in Row /\ copy[p] \in Row /\ db.docstatus \in 0..2
  BY <1>1 DEF LInv, TypeOK, PendingIsWritten, Row
<1>3. kind[p] \in {"save", "db_set", "db_set_only"}
  BY <1>1, <1>2 DEF LInv, KindAtStep, WrittenBy
<1>4. CASE kind[p] = "save"
  <2>1. Checked(p) /\ db' = copy[p]
    BY <1>1, <1>2, <1>4 DEF LInv, SavesAreChecked, WrittenBy
  <2>2. <<db.docstatus, db'.docstatus>> \in Transitions
    BY <2>1 DEF Checked
  <2>3. db.docstatus >= 1 /\ db'.docstatus = db.docstatus => db.docstatus = 1
    BY <1>2, <2>2 DEF Transitions
  <2>4. QED
    BY <1>2, <1>4, <2>1, <2>2, <2>3 DEF WrittenBy
<1>5. CASE kind[p] \in {"db_set", "db_set_only"}
  <2>1. db'.docstatus = db.docstatus /\ db'.a = db.a
    BY <1>1, <1>2, <1>5 DEF WrittenBy, Row
  <2>2. QED
    BY <1>2, <2>1 DEF Transitions
<1>6. QED
  BY <1>3, <1>4, <1>5

\* The row lock covers every save from its check to its commit.
THEOREM LockDiscipline == Spec => []LInv
BY LockInit, LockStep, PTL DEF Spec

\* Whatever any number of requests do, in whatever order they load, save,
\* delete and fail, the committed docstatus moves along the four transitions.
THEOREM Lifecycle == Spec => DocstatusMovesForward
<1>1. LInv /\ [Next]_vars =>
        [db # NoRow /\ db' # NoRow =>
           <<db.docstatus, db'.docstatus>> \in Transitions \cup {<<2, 2>>}]_db
  BY RowsFollow
<1>2. QED
  BY <1>1, LockInit, LockStep, PTL DEF Spec, DocstatusMovesForward

\* A field without allow_on_submit keeps its value while the document stays
\* submitted, and once it is cancelled.
THEOREM Frozen == Spec => FrozenWhileSubmitted
<1>1. LInv /\ [Next]_vars =>
        [db # NoRow /\ db' # NoRow /\ db.docstatus >= 1
            /\ db'.docstatus = db.docstatus => db'.a = db.a]_db
  BY RowsFollow
<1>2. QED
  BY <1>1, LockInit, LockStep, PTL DEF Spec, FrozenWhileSubmitted

-----------------------------------------------------------------------------
(***************************************************************************)
(* The version invariant: equal timestamps, equal contents.                *)
(***************************************************************************)

\* Requests whose copy carries a timestamp no row and no other copy has.
InFlight(p) ==
    /\ pc[p] \in {"check", "locked", "checked", "written", "dbset"}
    /\ kind[p] \in {"insert", "save", "db_set"}

Bounded ==
    /\ db # NoRow => db.modified \in 1..clock
    /\ \A p \in Requests : base[p].modified <= clock /\ copy[p].modified <= clock

Fresh ==
    \A p \in Requests : InFlight(p) =>
        /\ copy[p].modified >= 1
        /\ db # NoRow => copy[p].modified # db.modified
        /\ \A q \in Requests : base[q].modified # copy[p].modified
        /\ \A q \in Requests \ {p} :
              InFlight(q) => copy[q].modified # copy[p].modified

SameVersion ==
    \A p \in Requests : db # NoRow /\ base[p].modified = db.modified =>
        /\ base[p].a = db.a /\ base[p].b = db.b
        /\ base[p].docstatus = db.docstatus

\* What a copy may hold: the values it was loaded with, or new ones.
Edits ==
    \A p \in Requests :
        /\ pc[p] = "open" => copy[p] = base[p]
        /\ InFlight(p) /\ kind[p] # "db_set" =>
              /\ copy[p].a \in {base[p].a, copy[p].modified}
              /\ copy[p].b \in {base[p].b, copy[p].modified}
        /\ InFlight(p) /\ kind[p] = "db_set" => copy[p].b = copy[p].modified

NotLeaked == \A p \in Requests : ~leaked[p]

VInv == Bounded /\ Fresh /\ SameVersion /\ Edits /\ NotLeaked

-----------------------------------------------------------------------------
\* Steps that only move a request along.
LEMMA VQuiet ==
    ASSUME VInv, UNCHANGED <<db, clock, copy, base, leaked>>,
           \A q \in Requests : InFlight(q)' => InFlight(q) /\ kind'[q] = kind[q],
           \A q \in Requests : pc'[q] = "open" => pc[q] = "open"
    PROVE  VInv'
<1>1. Bounded' /\ NotLeaked'
  BY DEF VInv, Bounded, NotLeaked
<1>2. Fresh'
  BY DEF VInv, Fresh
<1>3. SameVersion'
  BY DEF VInv, SameVersion
<1>4. Edits'
  BY DEF VInv, Edits
<1>5. QED
  BY <1>1, <1>2, <1>3, <1>4 DEF VInv

\* A request gets a copy of a row r, the committed one or the blank one, and
\* is not in flight.
LEMMA VHold ==
    ASSUME TypeOK, VInv, NEW p \in Requests, NEW r \in Row, Hold(p, r),
           r = BlankRow \/ (r = db /\ db # NoRow),
           UNCHANGED <<db, clock>>,
           leaked' = leaked \/ leaked' = [leaked EXCEPT ![p] = FALSE],
           \A q \in Requests \ {p} : pc'[q] = pc[q] /\ kind'[q] = kind[q],
           pc'[p] \in {"idle", "open"}
    PROVE  VInv'
<1> USE RowAssumption
<1>1. /\ copy'[p] = r /\ base'[p] = r
      /\ \A q \in Requests \ {p} : copy'[q] = copy[q] /\ base'[q] = base[q]
  BY DEF Hold, TypeOK
<1>2. r.modified = 0 \/ (r = db /\ db # NoRow /\ r.modified \in 1..clock)
  BY DEF BlankRow, VInv, Bounded
<1>3. clock \in Nat /\ \A q \in Requests : copy[q] \in Row /\ base[q] \in Row
  BY DEF TypeOK
<1>4. ~ InFlight(p)' /\ \A q \in Requests \ {p} : InFlight(q)' = InFlight(q)
  BY DEF InFlight
<1>5. Bounded'
  BY <1>1, <1>2, <1>3 DEF VInv, Bounded
<1>6. Fresh'
  BY <1>1, <1>2, <1>3, <1>4 DEF VInv, Fresh
<1>7. SameVersion'
  <2> SUFFICES ASSUME NEW q \in Requests, db # NoRow, base'[q].modified = db.modified
      PROVE  base'[q].a = db.a /\ base'[q].b = db.b /\ base'[q].docstatus = db.docstatus
    BY DEF SameVersion
  <2>1. CASE q = p
    BY <1>1, <1>2, <2>1 DEF VInv, Bounded
  <2>2. CASE q # p
    BY <1>1, <2>2 DEF VInv, SameVersion
  <2>3. QED
    BY <2>1, <2>2
<1>8. Edits'
  <2> SUFFICES ASSUME NEW q \in Requests
      PROVE  /\ pc'[q] = "open" => copy'[q] = base'[q]
             /\ InFlight(q)' /\ kind'[q] # "db_set" =>
                  /\ copy'[q].a \in {base'[q].a, copy'[q].modified}
                  /\ copy'[q].b \in {base'[q].b, copy'[q].modified}
             /\ InFlight(q)' /\ kind'[q] = "db_set" => copy'[q].b = copy'[q].modified
    BY DEF Edits
  <2>1. CASE q = p
    BY <1>1, <1>4, <2>1
  <2>2. CASE q # p
    BY <1>1, <1>4, <2>2 DEF VInv, Edits
  <2>3. QED
    BY <2>1, <2>2
<1>9. NotLeaked'
  BY DEF VInv, NotLeaked, TypeOK
<1>10. QED
  BY <1>5, <1>6, <1>7, <1>8, <1>9 DEF VInv

\* A request stamps its copy with a new time.
LEMMA VStamp ==
    ASSUME TypeOK, VInv, NEW p \in Requests, clock' = clock + 1,
           UNCHANGED <<db, base, leaked>>,
           NEW r \in Row, copy' = [copy EXCEPT ![p] = r], pc[p] = "open",
           pc'[p] # "open",
           \A q \in Requests \ {p} : pc'[q] = pc[q] /\ kind'[q] = kind[q],
           \/ /\ r.modified = clock + 1
              /\ kind'[p] # "db_set" =>
                   /\ r.a \in {copy[p].a, clock + 1} /\ r.b \in {copy[p].b, clock + 1}
              /\ kind'[p] = "db_set" => r.b = clock + 1
           \/ /\ r.modified = copy[p].modified
              /\ ~ InFlight(p)'
    PROVE  VInv'
<1> USE RowAssumption
<1>1. /\ copy'[p] = r /\ copy[p] = base[p]
      /\ \A q \in Requests \ {p} : copy'[q] = copy[q]
      /\ \A q \in Requests \ {p} : InFlight(q)' = InFlight(q)
  BY DEF TypeOK, VInv, Edits, InFlight
<1>2. /\ clock \in Nat /\ r.modified \in Nat
      /\ \A q \in Requests : copy[q].modified \in Nat /\ base[q].modified \in Nat
      /\ \A q \in Requests : copy[q].modified <= clock /\ base[q].modified <= clock
  BY DEF TypeOK, Row, VInv, Bounded
<1>3. db # NoRow => db.modified \in 1..clock
  BY DEF VInv, Bounded
<1>4. Bounded'
  BY <1>1, <1>2, <1>3 DEF Bounded
<1>5. Fresh'
  <2> SUFFICES ASSUME NEW q \in Requests, InFlight(q)'
      PROVE  /\ copy'[q].modified >= 1
             /\ db # NoRow => copy'[q].modified # db.modified
             /\ \A o \in Requests : base[o].modified # copy'[q].modified
             /\ \A o \in Requests \ {q} :
                   InFlight(o)' => copy'[o].modified # copy'[q].modified
    BY DEF Fresh
  <2>1. CASE q = p
    BY <1>1, <1>2, <1>3, <2>1
  <2>2. CASE q # p
    <3>1. /\ copy'[q] = copy[q] /\ InFlight(q) /\ copy[q].modified <= clock
          /\ copy[q].modified \in Nat
      BY <1>1, <1>2, <2>2
    <3>2. InFlight(p)' => copy'[p].modified # copy'[q].modified
      BY <1>1, <1>2, <3>1
    <3>3. \A o \in Requests \ {p, q} :
              InFlight(o)' => copy'[o].modified # copy'[q].modified
      BY <1>1, <2>2, <3>1 DEF VInv, Fresh
    <3>4. QED
      BY <3>1, <3>2, <3>3 DEF VInv, Fresh
  <2>3. QED
    BY <2>1, <2>2
<1>6. SameVersion' /\ NotLeaked'
  BY DEF VInv, SameVersion, NotLeaked
<1>7. Edits'
  BY <1>1 DEF VInv, Edits
<1>8. QED
  BY <1>4, <1>5, <1>6, <1>7 DEF VInv

\* A commit installs the timestamp of a copy in flight, or keeps the one of
\* the row with all that it stands for.
LEMMA VCommit ==
    ASSUME LInv, LInv', VInv, Reuse = {}, NEW p \in Requests, Commit(p)
    PROVE  VInv'
<1> USE RowAssumption
<1>1. /\ pc[p] = "written" /\ db' = pending[p] /\ WrittenBy(p) /\ clock' = clock
      /\ kind[p] \in {"insert", "save", "db_set", "db_set_only", "delete"}
  BY DEF Commit, LInv, PendingIsWritten, KindAtStep
<1>2. /\ clock \in Nat /\ copy[p] \in Row /\ db \in Row \cup {NoRow}
      /\ db' \in Row \cup {NoRow}
      /\ \A q \in Requests : copy[q] \in Row /\ base[q] \in Row
  BY DEF LInv, TypeOK
<1>3. \/ InFlight(p) /\ db' # NoRow /\ db'.modified = copy[p].modified
      \/ /\ db # NoRow /\ db' # NoRow /\ db'.modified = db.modified
         /\ db'.a = db.a /\ db'.b = db.b /\ db'.docstatus = db.docstatus
      \/ db' = NoRow
  BY <1>1, <1>2 DEF WrittenBy, InFlight, Row
<1>4. \/ copy'[p] = BlankRow /\ base'[p] = BlankRow
      \/ InFlight(p) /\ db' = copy[p] /\ copy'[p] = db' /\ base'[p] = db'
  BY <1>1, <1>2 DEF Commit, Finish, GoOn, Hold, LInv, TypeOK, WrittenBy, InFlight
<1>5. \A q \in Requests \ {p} :
          /\ pc'[q] = pc[q] /\ kind'[q] = kind[q]
          /\ copy'[q] = copy[q] /\ base'[q] = base[q]
  BY DEF Commit, Finish, GoOn, Hold, Goto, LInv, TypeOK
<1>6. ~ InFlight(p)' /\ \A q \in Requests \ {p} : InFlight(q)' = InFlight(q)
  <2>1. pc'[p] \in {"idle", "open"}
    BY DEF Commit, Finish, GoOn, Goto, LInv, TypeOK
  <2>2. QED
    BY <1>5, <2>1 DEF InFlight
<1>7. BlankRow.modified = 0
  BY DEF BlankRow
<1>8. InFlight(p) => copy[p].modified \in 1..clock
  BY <1>2 DEF VInv, Fresh, Bounded, Row
<1>9. Bounded'
  <2>1. db' # NoRow => db'.modified \in 1..clock'
    BY <1>1, <1>3, <1>8 DEF VInv, Bounded
  <2>2. \A q \in Requests : base'[q].modified <= clock' /\ copy'[q].modified <= clock'
    BY <1>1, <1>2, <1>4, <1>5, <1>7, <1>8 DEF VInv, Bounded
  <2>3. QED
    BY <2>1, <2>2 DEF Bounded
<1>10. Fresh'
  <2> SUFFICES ASSUME NEW q \in Requests \ {p}, InFlight(q)
      PROVE  /\ copy'[q].modified >= 1
             /\ db' # NoRow => copy'[q].modified # db'.modified
             /\ \A o \in Requests : base'[o].modified # copy'[q].modified
             /\ \A o \in Requests \ {q} :
                   InFlight(o)' => copy'[o].modified # copy'[q].modified
    BY <1>6 DEF Fresh
  <2>1. /\ copy'[q] = copy[q] /\ copy[q].modified >= 1 /\ copy[q].modified # 0
        /\ db # NoRow => copy[q].modified # db.modified
        /\ InFlight(p) => copy[p].modified # copy[q].modified
    BY <1>2, <1>5 DEF VInv, Fresh, Row
  <2>2. db' # NoRow => copy'[q].modified # db'.modified
    BY <1>3, <2>1
  <2>3. base'[p].modified # copy'[q].modified
    BY <1>4, <1>7, <2>1
  <2>4. \A o \in Requests : base'[o].modified # copy'[q].modified
    BY <1>5, <2>1, <2>3 DEF VInv, Fresh
  <2>5. \A o \in Requests \ {q} :
            InFlight(o)' => copy'[o].modified # copy'[q].modified
    BY <1>5, <1>6 DEF VInv, Fresh
  <2>6. QED
    BY <2>1, <2>2, <2>4, <2>5
<1>11. SameVersion'
  <2> SUFFICES ASSUME NEW q \in Requests, db' # NoRow, base'[q].modified = db'.modified
      PROVE  base'[q].a = db'.a /\ base'[q].b = db'.b /\ base'[q].docstatus = db'.docstatus
    BY DEF SameVersion
  <2>1. CASE q = p
    BY <1>4, <1>7, <1>9, <2>1 DEF Bounded
  <2>2. CASE q # p
    <3>1. InFlight(p) => base[q].modified # copy[p].modified
      BY DEF VInv, Fresh
    <3>2. base'[q] = base[q]
      BY <1>5, <2>2
    <3>3. QED
      BY <1>3, <3>1, <3>2 DEF VInv, SameVersion
  <2>3. QED
    BY <2>1, <2>2
<1>12. Edits'
  <2> SUFFICES ASSUME NEW q \in Requests
      PROVE  /\ pc'[q] = "open" => copy'[q] = base'[q]
             /\ InFlight(q)' /\ kind'[q] # "db_set" =>
                  /\ copy'[q].a \in {base'[q].a, copy'[q].modified}
                  /\ copy'[q].b \in {base'[q].b, copy'[q].modified}
             /\ InFlight(q)' /\ kind'[q] = "db_set" => copy'[q].b = copy'[q].modified
    BY DEF Edits
  <2>1. CASE q = p
    BY <1>4, <1>6, <2>1
  <2>2. CASE q # p
    BY <1>5, <1>6, <2>2 DEF VInv, Edits
  <2>3. QED
    BY <2>1, <2>2
<1>13. NotLeaked'
  BY DEF VInv, NotLeaked, LInv, TypeOK, Commit, Finish
<1>14. QED
  BY <1>9, <1>10, <1>11, <1>12, <1>13 DEF VInv

LEMMA VInit == Init => VInv
BY DEF Init, VInv, Bounded, Fresh, SameVersion, Edits, NotLeaked, InFlight, BlankRow

LEMMA VStep == ASSUME LInv, LInv', VInv, Reuse = {}, [Next]_vars PROVE VInv'
<1>0. TypeOK /\ BlankRow \in Row /\ KindAtStep
  BY DEF LInv, BlankRow, Row
<1> USE RowAssumption
<1>1. ASSUME NEW p \in Requests, Load(p) PROVE VInv'
  <2>1. db \in Row /\ db # NoRow /\ Hold(p, db) /\ pc'[p] = "open"
        /\ UNCHANGED <<db, clock, leaked>>
        /\ \A q \in Requests \ {p} : pc'[q] = pc[q] /\ kind'[q] = kind[q]
    BY <1>0, <1>1 DEF Load, Goto, TypeOK
  <2>2. QED
    BY <1>0, <2>1, VHold
<1>2. ASSUME NEW p \in Requests, NewDoc(p) PROVE VInv'
  <2>1. Hold(p, BlankRow) /\ pc'[p] = "open" /\ UNCHANGED <<db, clock, leaked>>
        /\ \A q \in Requests \ {p} : pc'[q] = pc[q] /\ kind'[q] = kind[q]
    BY <1>0, <1>2 DEF NewDoc, Goto, TypeOK
  <2>2. QED
    BY <1>0, <2>1, VHold
<1>3. ASSUME NEW p \in Requests, Close(p) PROVE VInv'
  <2>1. Hold(p, BlankRow) /\ pc'[p] = "idle" /\ UNCHANGED <<db, clock>>
        /\ leaked' = [leaked EXCEPT ![p] = FALSE]
        /\ \A q \in Requests \ {p} : pc'[q] = pc[q] /\ kind'[q] = kind[q]
    BY <1>0, <1>3 DEF Close, Goto, TypeOK
  <2>2. QED
    BY <1>0, <2>1, VHold
<1>4. ASSUME NEW p \in Requests, NEW edited \in SUBSET {"a", "b"},
             NEW docstatus \in 0..2, StartSave(p, edited, docstatus) PROVE VInv'
  <2> DEFINE field(f) == IF f \in edited THEN Now ELSE copy[p][f]
             row == [modified |-> Now, docstatus |-> docstatus,
                     a |-> field("a"), b |-> field("b"), c |-> copy[p].c]
  <2>1. /\ Now = clock + 1 /\ Now \in Nat /\ copy[p].c \in Nat
        /\ field("a") \in Nat /\ field("a") \in {copy[p].a, Now}
        /\ field("b") \in Nat /\ field("b") \in {copy[p].b, Now}
    BY <1>0 DEF TypeOK, Now, Row
  <2> HIDE DEF field
  <2>2. /\ row \in Row /\ row.modified = Now
        /\ row.a \in {copy[p].a, Now} /\ row.b \in {copy[p].b, Now}
    BY <2>1 DEF Row
  <2>3. copy' = [copy EXCEPT ![p] = row]
    BY <1>4 DEF StartSave, field
  <2> HIDE DEF row
  <2>4. /\ pc[p] = "open" /\ pc'[p] = "check" /\ clock' = Now /\ kind'[p] # "db_set"
        /\ \A q \in Requests \ {p} : pc'[q] = pc[q] /\ kind'[q] = kind[q]
        /\ UNCHANGED <<db, base, leaked>>
    BY <1>0, <1>4 DEF StartSave, Stamp, Goto, TypeOK
  <2>5. QED
    BY <1>0, <2>1, <2>2, <2>3, <2>4, VStamp
<1>5. ASSUME NEW p \in Requests,
             CheckIfLatest(p) \/ CheckNew(p) \/ UpdateRow(p) \/ InsertRow(p)
               \/ WriteDbSet(p) \/ StartDelete(p) \/ DeleteRow(p)
      PROVE  VInv'
  <2>1. UNCHANGED <<db, clock, copy, base, leaked>>
    BY <1>5 DEF CheckIfLatest, CheckNew, UpdateRow, InsertRow, WriteDbSet,
                StartDelete, DeleteRow
  <2>2. /\ pc'[p] # "open"
        /\ \A q \in Requests \ {p} : pc'[q] = pc[q] /\ kind'[q] = kind[q]
    BY <1>0, <1>5 DEF CheckIfLatest, CheckNew, UpdateRow, InsertRow, WriteDbSet,
                StartDelete, DeleteRow, Goto, TypeOK
  <2>3. InFlight(p)' => InFlight(p) /\ kind'[p] = kind[p]
    <3>1. CASE CheckIfLatest(p) \/ CheckNew(p) \/ UpdateRow(p) \/ InsertRow(p)
      BY <1>0, <3>1 DEF CheckIfLatest, CheckNew, UpdateRow, InsertRow, InFlight
    <3>2. CASE WriteDbSet(p)
      BY <1>0, <3>2 DEF WriteDbSet, InFlight
    <3>3. CASE StartDelete(p)
      BY <1>0, <3>3 DEF StartDelete, TypeOK, InFlight
    <3>4. CASE DeleteRow(p)
      BY <1>0, <3>4 DEF DeleteRow, KindAtStep, InFlight
    <3>5. QED
      BY <1>5, <3>1, <3>2, <3>3, <3>4
  <2>4. QED
    BY <2>1, <2>2, <2>3, VQuiet DEF InFlight
<1>6. ASSUME NEW p \in Requests, StartDbSet(p) PROVE VInv'
  <2> DEFINE row == [[copy[p] EXCEPT !.b = Now] EXCEPT !.modified = Now]
  <2>1. Now = clock + 1 /\ Now \in Nat /\ copy[p] \in Row /\ ~ leaked[p]
    BY <1>0 DEF TypeOK, Now, VInv, NotLeaked
  <2>2. row \in Row /\ row.modified = Now /\ row.b = Now
    BY <2>1 DEF Row
  <2>3. copy' = [copy EXCEPT ![p] = row]
    BY <1>0, <1>6, <2>1 DEF StartDbSet, TypeOK
  <2> HIDE DEF row
  <2>4. /\ pc[p] = "open" /\ pc'[p] = "dbset" /\ clock' = Now /\ kind'[p] = "db_set"
        /\ \A q \in Requests \ {p} : pc'[q] = pc[q] /\ kind'[q] = kind[q]
        /\ UNCHANGED <<db, base, leaked>>
    BY <1>0, <1>6 DEF StartDbSet, Stamp, Goto, TypeOK
  <2>5. QED
    BY <1>0, <2>1, <2>2, <2>3, <2>4, VStamp
<1>7. ASSUME NEW p \in Requests, StartDbSetOnly(p) PROVE VInv'
  <2> DEFINE row == [copy[p] EXCEPT !.c = Now]
  <2>1. Now = clock + 1 /\ Now \in Nat /\ copy[p] \in Row
    BY <1>0 DEF TypeOK, Now
  <2>2. row \in Row /\ row.modified = copy[p].modified
    BY <2>1 DEF Row
  <2>3. copy' = [copy EXCEPT ![p] = row]
    BY <1>0, <1>7, <2>1 DEF StartDbSetOnly, TypeOK
  <2> HIDE DEF row
  <2>4. /\ pc[p] = "open" /\ pc'[p] = "dbset" /\ clock' = Now
        /\ ~ InFlight(p)'
        /\ \A q \in Requests \ {p} : pc'[q] = pc[q] /\ kind'[q] = kind[q]
        /\ UNCHANGED <<db, base, leaked>>
    BY <1>0, <1>7 DEF StartDbSetOnly, Stamp, Goto, TypeOK, InFlight
  <2>5. QED
    BY <1>0, <2>1, <2>2, <2>3, <2>4, VStamp
<1>8. ASSUME NEW p \in Requests, Commit(p) PROVE VInv'
  BY <1>8, VCommit
<1>9. ASSUME NEW p \in Requests, Fail(p) PROVE VInv'
  <2>1. Hold(p, BlankRow) /\ pc'[p] = "idle" /\ UNCHANGED <<db, clock>>
        /\ leaked' = [leaked EXCEPT ![p] = FALSE]
        /\ \A q \in Requests \ {p} : pc'[q] = pc[q] /\ kind'[q] = kind[q]
    BY <1>0, <1>9 DEF Fail, Finish, Goto, TypeOK
  <2>2. QED
    BY <1>0, <2>1, VHold
<1>10. CASE UNCHANGED vars
  <2>1. UNCHANGED <<db, clock, copy, base, leaked, pc, kind>>
    BY <1>10 DEF vars
  <2>2. QED
    BY <2>1, VQuiet DEF InFlight
<1>11. QED
  BY <1>1, <1>2, <1>3, <1>4, <1>5, <1>6, <1>7, <1>8, <1>9, <1>10
     DEF Next, Request, Save

-----------------------------------------------------------------------------
(***************************************************************************)
(* The optimistic lock works, and the requests implement DocumentStore.    *)
(***************************************************************************)
LEMMA NoLostUpdateHolds == ASSUME LInv, VInv PROVE NoLostUpdate
BY DEF LInv, VInv, SavesAreChecked, Checked, SameVersion, NoLostUpdate

\* When no request goes on with a document after db_set() or after a failed
\* save, a save overwrites exactly the values it was loaded with.
THEOREM OptimisticLock ==
    ASSUME Reuse = {}
    PROVE  Spec => []NoLostUpdate
<1>1. LInv /\ VInv /\ [Next]_vars => (LInv /\ VInv)'
  BY LockStep, VStep
<1>2. Init => LInv /\ VInv
  BY LockInit, VInit
<1>3. LInv /\ VInv => NoLostUpdate
  BY NoLostUpdateHolds
<1>4. QED
  BY <1>1, <1>2, <1>3, PTL DEF Spec

LEMMA StepsImplement ==
    ASSUME LInv, LInv', VInv, [Next]_vars
    PROVE  [Store!Next]_db
<1> SUFFICES ASSUME db' # db PROVE Store!Next
  OBVIOUS
<1> USE RowAssumption
<1>1. PICK p \in Requests : pc[p] = "written" /\ db' = pending[p]
  BY OnlyCommits
<1>2. /\ WrittenBy(p) /\ copy[p] \in Row /\ base[p] \in Row /\ db \in Row \cup {NoRow}
      /\ db' \in Row \cup {NoRow}
      /\ kind[p] \in {"insert", "save", "db_set", "db_set_only", "delete"}
  BY <1>1 DEF LInv, TypeOK, PendingIsWritten, KindAtStep
<1>3. CASE kind[p] = "insert"
  <2>1. db = NoRow /\ db' = copy[p] /\ copy[p].docstatus \in {0, 1}
    BY <1>1, <1>2, <1>3 DEF WrittenBy, LInv, SavesAreChecked
  <2>2. Store!Create
    BY <1>2, <2>1 DEF Store!Create, Store!Row, Row
  <2>3. QED
    BY <2>2 DEF Store!Next
<1>4. CASE kind[p] = "save"
  <2>1. Checked(p) /\ db' = copy[p] /\ InFlight(p)
        /\ (db.docstatus = 1 /\ copy[p].docstatus = 1 => copy[p].a = db.a)
    BY <1>1, <1>2, <1>4 DEF WrittenBy, LInv, SavesAreChecked, InFlight
  <2>2. base[p].a = db.a /\ base[p].b = db.b
    BY <2>1 DEF Checked, VInv, SameVersion
  <2>3. copy[p].a \in {db.a, copy[p].modified} /\ copy[p].b \in {db.b, copy[p].modified}
    BY <1>4, <2>1, <2>2 DEF VInv, Edits
  <2>4. db # NoRow /\ copy[p].modified # db.modified
        /\ <<db.docstatus, copy[p].docstatus>> \in Transitions
    BY <2>1 DEF Checked, VInv, Fresh
  <2>5. Store!Revise
    BY <1>2, <2>1, <2>3, <2>4
       DEF Store!Revise, Store!Row, Row, Store!Transitions, Transitions
  <2>6. QED
    BY <2>5 DEF Store!Next
<1>5. CASE kind[p] = "db_set"
  <2>1. /\ db # NoRow
        /\ db' = [db EXCEPT !.b = copy[p].b, !.modified = copy[p].modified]
    BY <1>1, <1>2, <1>5 DEF WrittenBy
  <2>2. copy[p].b = copy[p].modified /\ copy[p].modified # db.modified
    BY <1>1, <1>5, <2>1 DEF InFlight, VInv, Fresh, Edits
  <2>3. db'.modified = copy[p].modified /\ db' \in Row
    BY <1>2, <2>1 DEF Row
  <2>4. Store!SetField
    BY <2>1, <2>2, <2>3 DEF Store!SetField, Store!Row, Row
  <2>5. QED
    BY <2>4 DEF Store!Next
<1>6. CASE kind[p] = "db_set_only"
  <2>1. db # NoRow /\ db' = [db EXCEPT !.c = copy[p].c]
    BY <1>1, <1>2, <1>6 DEF WrittenBy
  <2>2. db'.c = copy[p].c /\ db' \in Row
    BY <1>2, <2>1 DEF Row
  <2>3. Store!SetUnstamped
    BY <2>1, <2>2 DEF Store!SetUnstamped, Store!Row, Row
  <2>4. QED
    BY <2>3 DEF Store!Next
<1>7. CASE kind[p] = "delete"
  BY <1>1, <1>2, <1>7 DEF WrittenBy, Store!Remove, Store!Next
<1>8. QED
  BY <1>2, <1>3, <1>4, <1>5, <1>6, <1>7

\* The committed row of any number of interleaved requests changes only in
\* the single steps of DocumentStore.
THEOREM Implementation ==
    ASSUME Reuse = {}
    PROVE  Spec => ImplementsStore
<1>1. Init => Store!Init
  BY DEF Init, Store!Init
<1>2. LInv /\ VInv /\ [Next]_vars => (LInv /\ VInv)'
  BY LockStep, VStep
<1>3. Init => LInv /\ VInv
  BY LockInit, VInit
<1>4. LInv /\ VInv /\ [Next]_vars => [Store!Next]_db
  BY LockStep, StepsImplement
<1>5. QED
  BY <1>1, <1>2, <1>3, <1>4, PTL DEF Spec, ImplementsStore, Store!Spec

=============================================================================
