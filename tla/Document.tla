------------------------------ MODULE Document ------------------------------
(***************************************************************************)
(* Saving a document, frappe/model/document.py: requests that load a       *)
(* document, insert(), save(), submit(), cancel(), db_set() and delete it, *)
(* each in a MariaDB transaction that ends with COMMIT or ROLLBACK.  One   *)
(* document is modelled; DocumentStore says what its columns stand for.    *)
(*                                                                         *)
(* `modified` is the optimistic lock: save() takes the row lock with       *)
(* SELECT ... FOR UPDATE, compares the timestamp with the one its copy was *)
(* loaded with, and writes all columns of the copy.  db_set() writes one   *)
(* column and compares nothing.                                            *)
(*                                                                         *)
(* now() has a resolution of a microsecond; the model takes two calls      *)
(* never to return the same value.  The clock also stands for the values   *)
(* the users enter: an edited field holds the time it was edited at.       *)
(***************************************************************************)
EXTENDS Naturals, FiniteSets

CONSTANTS
    Requests,   \* concurrent requests or background jobs
    NoRow,      \* the document does not exist
    None,       \* no value
    Reuse,      \* after what a request goes on with its document object
    MaxClock    \* bound: calls of now() in a behaviour

ASSUME DocumentAssumption ==
    /\ Reuse \subseteq {"db_set", "failed"}
    /\ MaxClock \in Nat
    /\ None \notin Requests

VARIABLES
    db,         \* the committed row, or NoRow
    lock,       \* the request whose transaction holds the row lock
    clock,      \* the last value returned by now()
    pc,         \* each request: its place
    copy,       \* each request: its document object
    base,       \* each request: the values copy was loaded with
    kind,       \* each request: the operation under way
    leaked,     \* each request: is the document still in currently_saving?
    pending     \* each request: the row its transaction has written

vars == <<db, lock, clock, pc, copy, base, kind, leaked, pending>>

-----------------------------------------------------------------------------
Row == [modified : Nat, docstatus : 0..2, a : Nat, b : Nat, c : Nat]
Kinds == {"new", "read", "insert", "save", "db_set", "db_set_only", "delete"}
Steps == {"idle", "open", "check", "locked", "checked", "dbset", "trash", "written"}

ASSUME RowAssumption == NoRow \notin Row

\* check_docstatus_transition(): the transitions that raise nothing.
Transitions == {<<0, 0>>, <<0, 1>>, <<1, 1>>, <<1, 2>>}

\* frappe.new_doc(); set_docstatus() makes a missing docstatus 0.
BlankRow == [modified |-> 0, docstatus |-> 0, a |-> 0, b |-> 0, c |-> 0]

Init ==
    /\ db = NoRow
    /\ lock = None
    /\ clock = 0
    /\ pc = [p \in Requests |-> "idle"]
    /\ copy = [p \in Requests |-> BlankRow]
    /\ base = [p \in Requests |-> BlankRow]
    /\ kind = [p \in Requests |-> "read"]
    /\ leaked = [p \in Requests |-> FALSE]
    /\ pending = [p \in Requests |-> NoRow]

Goto(p, s) == pc' = [pc EXCEPT ![p] = s]

\* The request's document object holds the values of row r.
Hold(p, r) ==
    /\ copy' = [copy EXCEPT ![p] = r]
    /\ base' = [base EXCEPT ![p] = r]

\* now() is called once more.
Now == clock + 1
Stamp == clock < MaxClock /\ clock' = Now

-----------------------------------------------------------------------------
(***************************************************************************)
(* Getting a document object.                                              *)
(***************************************************************************)

\* get_doc(), or a form opened earlier and sent back by the browser.
Load(p) ==
    /\ pc[p] = "idle" /\ db # NoRow
    /\ Hold(p, db)
    /\ kind' = [kind EXCEPT ![p] = "read"]
    /\ Goto(p, "open")
    /\ UNCHANGED <<db, lock, clock, leaked, pending>>

\* A document that is not in the database (__islocal).
NewDoc(p) ==
    /\ pc[p] = "idle"
    /\ Hold(p, BlankRow)
    /\ kind' = [kind EXCEPT ![p] = "new"]
    /\ Goto(p, "open")
    /\ UNCHANGED <<db, lock, clock, leaked, pending>>

\* The request ends without changing anything.
Close(p) ==
    /\ pc[p] = "open"
    /\ Hold(p, BlankRow)
    /\ kind' = [kind EXCEPT ![p] = "read"]
    /\ leaked' = [leaked EXCEPT ![p] = FALSE]
    /\ Goto(p, "idle")
    /\ UNCHANGED <<db, lock, clock, pending>>

-----------------------------------------------------------------------------
(***************************************************************************)
(* insert() and save().                                                    *)
(***************************************************************************)

\* The user has edited some fields and set docstatus; set_user_and_timestamp.
StartSave(p, edited, docstatus) ==
    LET field(f) == IF f \in edited THEN Now ELSE copy[p][f] IN
    /\ pc[p] = "open" /\ Stamp
    /\ copy' = [copy EXCEPT ![p] =
                  [modified |-> Now, docstatus |-> docstatus,
                   a |-> field("a"), b |-> field("b"), c |-> @.c]]
    /\ kind' = [kind EXCEPT ![p] = IF @ = "new" THEN "insert" ELSE "save"]
    /\ Goto(p, "check")
    /\ UNCHANGED <<db, lock, base, leaked, pending>>

\* Mutated: the timestamps are not compared.
LockOnly(p) ==
    /\ pc[p] = "check" /\ kind[p] = "save" /\ lock = None
    /\ db # NoRow
    /\ <<db.docstatus, copy[p].docstatus>> \in Transitions
    /\ lock' = p
    /\ Goto(p, "locked")
    /\ UNCHANGED <<db, clock, copy, base, kind, leaked, pending>>

\* Mutated: the transition is checked against the copy, not against the row.
TrustTheCopy(p) ==
    /\ pc[p] = "check" /\ kind[p] = "save" /\ lock = None
    /\ db # NoRow /\ copy[p].docstatus >= db.docstatus
    /\ base[p].modified = db.modified
    /\ lock' = p
    /\ Goto(p, "locked")
    /\ UNCHANGED <<db, clock, copy, base, kind, leaked, pending>>

\* check_if_latest(): lock the row, compare the timestamps, then the
\* transition; anything else raises (see Fail).
CheckIfLatest(p) ==
    /\ pc[p] = "check" /\ kind[p] = "save" /\ lock = None
    /\ db # NoRow
    /\ base[p].modified = db.modified
    /\ <<db.docstatus, copy[p].docstatus>> \in Transitions
    /\ lock' = p
    /\ Goto(p, "locked")
    /\ UNCHANGED <<db, clock, copy, base, kind, leaked, pending>>

\* check_if_latest() of a new document: from docstatus 0, nothing to lock.
CheckNew(p) ==
    /\ pc[p] = "check" /\ kind[p] = "insert"
    /\ <<0, copy[p].docstatus>> \in Transitions
    /\ Goto(p, "checked")
    /\ UNCHANGED <<db, lock, clock, copy, base, kind, leaked, pending>>

\* _action == "update_after_submit": was submitted and stays so.
UpdatesAfterSubmit(p) == db.docstatus = 1 /\ copy[p].docstatus = 1

\* Mutated: validate_update_after_submit() is not called.
UpdateAnyField(p) ==
    /\ pc[p] = "locked"
    /\ pending' = [pending EXCEPT ![p] = copy[p]]
    /\ Goto(p, "written")
    /\ UNCHANGED <<db, lock, clock, copy, base, kind, leaked>>

\* The before_save and validate hooks, validate_update_after_submit() (not
\* on cancel), db_update(): all columns are written from the copy.
UpdateRow(p) ==
    /\ pc[p] = "locked"
    /\ UpdatesAfterSubmit(p) => copy[p].a = db.a
    /\ pending' = [pending EXCEPT ![p] = copy[p]]
    /\ Goto(p, "written")
    /\ UNCHANGED <<db, lock, clock, copy, base, kind, leaked>>

\* db_insert(): waits for another insert of the name, then needs it free.
InsertRow(p) ==
    /\ pc[p] = "checked" /\ lock = None /\ db = NoRow
    /\ lock' = p
    /\ pending' = [pending EXCEPT ![p] = copy[p]]
    /\ Goto(p, "written")
    /\ UNCHANGED <<db, clock, copy, base, kind, leaked>>

-----------------------------------------------------------------------------
(***************************************************************************)
(* db_set() and delete_doc().                                              *)
(***************************************************************************)

\* db_set(): a new `modified` unless the document is in currently_saving,
\* which a save that failed earlier in the request leaves behind.
StartDbSet(p) ==
    /\ pc[p] = "open" /\ kind[p] # "new" /\ Stamp
    /\ copy' = [copy EXCEPT ![p].b = Now,
                            ![p].modified = IF leaked[p] THEN @ ELSE Now]
    /\ kind' = [kind EXCEPT ![p] = "db_set"]
    /\ Goto(p, "dbset")
    /\ UNCHANGED <<db, lock, base, leaked, pending>>

\* db_set(..., update_modified=False).
StartDbSetOnly(p) ==
    /\ pc[p] = "open" /\ kind[p] # "new" /\ Stamp
    /\ copy' = [copy EXCEPT ![p].c = Now]
    /\ kind' = [kind EXCEPT ![p] = "db_set_only"]
    /\ Goto(p, "dbset")
    /\ UNCHANGED <<db, lock, base, leaked, pending>>

\* Mutated: the whole copy is written, as db_update() does.
WriteWholeCopy(p) ==
    /\ pc[p] = "dbset" /\ lock = None
    /\ lock' = p
    /\ pending' = [pending EXCEPT ![p] = IF db = NoRow THEN NoRow ELSE copy[p]]
    /\ Goto(p, "written")
    /\ UNCHANGED <<db, clock, copy, base, kind, leaked>>

\* frappe.db.set_value(): UPDATE of the named columns, of no row if the
\* document is gone; it waits for the row lock.
WriteDbSet(p) ==
    /\ pc[p] = "dbset" /\ lock = None
    /\ lock' = p
    /\ pending' = [pending EXCEPT ![p] =
           CASE db = NoRow -> NoRow
             [] db # NoRow /\ kind[p] = "db_set" ->
                    [db EXCEPT !.b = copy[p].b, !.modified = copy[p].modified]
             [] db # NoRow /\ kind[p] # "db_set" -> [db EXCEPT !.c = copy[p].c]]
    /\ Goto(p, "written")
    /\ UNCHANGED <<db, clock, copy, base, kind, leaked>>

\* delete_doc(): the document is loaded without a lock, and must not be
\* submitted (check_permission_and_not_submitted) ...
StartDelete(p) ==
    /\ pc[p] = "idle" /\ db # NoRow /\ db.docstatus # 1
    /\ kind' = [kind EXCEPT ![p] = "delete"]
    /\ Goto(p, "trash")
    /\ UNCHANGED <<db, lock, clock, copy, base, leaked, pending>>

\* ... on_trash hooks and link checks, then delete_from_table() by name.
DeleteRow(p) ==
    /\ pc[p] = "trash" /\ lock = None
    /\ lock' = p
    /\ pending' = [pending EXCEPT ![p] = NoRow]
    /\ Goto(p, "written")
    /\ UNCHANGED <<db, clock, copy, base, kind, leaked>>

-----------------------------------------------------------------------------
(***************************************************************************)
(* The end of the transaction.                                             *)
(***************************************************************************)
Finish(p) ==
    /\ Hold(p, BlankRow)
    /\ kind' = [kind EXCEPT ![p] = "read"]
    /\ leaked' = [leaked EXCEPT ![p] = FALSE]
    /\ Goto(p, "idle")

GoOn(p, r) ==
    /\ Hold(p, r)
    /\ kind' = [kind EXCEPT ![p] = "read"]
    /\ Goto(p, "open")

\* The request commits and ends, or goes on with the document it has saved.
Commit(p) ==
    /\ pc[p] = "written"
    /\ db' = pending[p]
    /\ lock' = None
    /\ pending' = [pending EXCEPT ![p] = NoRow]
    /\ \/ Finish(p)
       \/ kind[p] \in {"insert", "save"} /\ GoOn(p, copy[p]) /\ UNCHANGED leaked
       \/ /\ "db_set" \in Reuse /\ kind[p] \in {"db_set", "db_set_only"}
          /\ GoOn(p, copy[p]) /\ UNCHANGED leaked
    /\ UNCHANGED clock

\* An exception, at any point: TimestampMismatchError, a forbidden docstatus,
\* UpdateAfterSubmitError, DuplicateEntryError, a hook that throws, a lock
\* wait timeout.  The transaction is rolled back and the request ends, or
\* catches it and loads the document again.
Fail(p) ==
    /\ pc[p] \notin {"idle", "open"}
    /\ lock' = IF lock = p THEN None ELSE lock
    /\ pending' = [pending EXCEPT ![p] = NoRow]
    /\ \/ Finish(p)
       \/ /\ "failed" \in Reuse /\ kind[p] = "save" /\ db # NoRow
          /\ GoOn(p, db)
          /\ leaked' = [leaked EXCEPT ![p] = TRUE]
    /\ UNCHANGED <<db, clock>>

-----------------------------------------------------------------------------
Save(p) ==
    \/ \E edited \in SUBSET {"a", "b"}, docstatus \in 0..2 :
            StartSave(p, edited, docstatus)
    \/ CheckIfLatest(p) \/ CheckNew(p) \/ UpdateRow(p) \/ InsertRow(p)

Request(p) ==
    \/ Load(p) \/ NewDoc(p) \/ Close(p)
    \/ Save(p)
    \/ StartDbSet(p) \/ StartDbSetOnly(p) \/ WriteDbSet(p)
    \/ StartDelete(p) \/ DeleteRow(p)
    \/ Commit(p) \/ Fail(p)

Next == \E p \in Requests : Request(p)

Spec == Init /\ [][Next]_vars

-----------------------------------------------------------------------------
(***************************************************************************)
(* Properties.                                                             *)
(***************************************************************************)
TypeOK ==
    /\ db \in Row \cup {NoRow}
    /\ lock \in Requests \cup {None}
    /\ clock \in Nat
    /\ pc \in [Requests -> Steps]
    /\ copy \in [Requests -> Row]
    /\ base \in [Requests -> Row]
    /\ kind \in [Requests -> Kinds]
    /\ leaked \in [Requests -> BOOLEAN]
    /\ pending \in [Requests -> Row \cup {NoRow}]

\* A save that is about to commit overwrites exactly the values its copy was
\* loaded with: whatever was committed in between, by a save or by a db_set
\* that stamps `modified`, has made it fail.
NoLostUpdate ==
    \A p \in Requests : pc[p] = "written" /\ kind[p] = "save" =>
        /\ db # NoRow
        /\ base[p].a = db.a /\ base[p].b = db.b
        /\ base[p].docstatus = db.docstatus

\* Whatever the requests do, the committed docstatus moves along the four
\* transitions (and a cancelled document stays cancelled).
DocstatusMovesForward ==
    [][db # NoRow /\ db' # NoRow =>
        <<db.docstatus, db'.docstatus>> \in Transitions \cup {<<2, 2>>}]_db

\* A field that is not allow_on_submit does not change while the document
\* stays submitted, nor once it is cancelled.
FrozenWhileSubmitted ==
    [][db # NoRow /\ db' # NoRow /\ db.docstatus >= 1
            /\ db'.docstatus = db.docstatus => db'.a = db.a]_db

\* Seen through the committed row, the requests are the single steps of
\* DocumentStore.
Store == INSTANCE DocumentStore WITH doc <- db
ImplementsStore == Store!Spec

=============================================================================
