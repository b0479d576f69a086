----------------------------- MODULE EmailQueue -----------------------------
(***************************************************************************)
(* The outgoing mail queue of frappe/email/queue.py: the workers that run  *)
(* flush() or send_one(), the two tables they share (`tabEmail Queue` and  *)
(* `tabEmail Queue Recipient`), the delivery status of the linked          *)
(* Communication, retry_sending() and clear_outbox().                      *)
(*                                                                         *)
(* Every statement of a worker is sent with auto_commit=True, so a step of *)
(* a worker below is one committed statement, and what a worker holds over *)
(* several steps is its row lock and its Python variables.  The database   *)
(* is InnoDB at REPEATABLE READ: a plain SELECT answers from the snapshot  *)
(* the transaction took at its first read, SELECT ... FOR UPDATE and       *)
(* UPDATE work on the latest committed row and wait for its lock.          *)
(*                                                                         *)
(* Left out: a muted site and hold_queue stop a job before it changes      *)
(* anything; a mail whose send_after lies ahead behaves as one not yet     *)
(* added; the order and the limit (500) of get_queue are a free choice.    *)
(***************************************************************************)
EXTENDS Naturals, FiniteSets

CONSTANTS
    Workers,        \* the background jobs and requests that send mail
    Mails,          \* rows of `tabEmail Queue`
    Recipients,     \* the recipients each mail is addressed to
    Linked,         \* the mails that belong to the one Communication modelled
    LowPriority,    \* the mails whose priority is 0
    None,           \* no value
    MaxRetry,       \* generic errors retried before giving up (3 in the code)
    FaultKinds,     \* which environment faults may occur
    MaxFaults,      \* bound: environment faults in a behaviour
    MaxResends,     \* bound: calls of retry_sending in a behaviour
    MaxAge          \* bound: 0 fresh, 1 untouched for a week, 2 for a month

AllFaults == {"abort", "badconn", "unrecorded"}

ASSUME EmailQueueAssumption ==
    /\ Linked \subseteq Mails /\ LowPriority \subseteq Mails
    /\ FaultKinds \subseteq AllFaults
    /\ {MaxRetry, MaxFaults, MaxResends} \subseteq Nat
    /\ MaxAge \in 0..2
    /\ None \notin Workers \cup Mails \cup Recipients
    /\ Recipients # {}

VARIABLES
    status, retry, age,     \* columns of `tabEmail Queue` (age: since modified)
    rstatus,                \* status column of `tabEmail Queue Recipient`
    delivery,               \* delivery_status of the Communication
    lock,                   \* the holder of each mail's row lock
    pc, mail, todo,         \* each worker: its place, its mail, flush's list
    view,                   \* each worker: snapshot of the recipient table
    rl, left, tries,        \* send_one: recipients_list, those to do, email.retry
    current,                \* send_one: the recipient whose turn it is
    phase, counted,         \* set_delivery_status: which call, what it computed
    resend, fresh,          \* retry_sending: the loaded document, still current?
    doomed,                 \* clear_outbox: the names it selected
    delivered,              \* SMTP deliveries accepted, per mail and recipient
    windows,                \* history: the ways a mail may have been duplicated
    faults, resends         \* history: the bounded counters

tables == <<status, retry, age, rstatus, delivery, lock>>
local  == <<mail, todo, view, rl, left, tries, current, phase, counted>>
admin  == <<resend, fresh, doomed, resends>>
vars   == <<tables, pc, local, admin, delivered, windows, faults>>

-----------------------------------------------------------------------------
Sendable == {"Not Sent", "Partially Sent"}
Gone     == {"None", "Deleted"}                    \* no such row
Statuses == Sendable \cup Gone \cup
    {"Sending", "Sent", "Partially Errored", "Error", "Expired"}
RecipientStatuses  == {"Not Sent", "Sent"}
DeliveryStatuses   == {None, "Sending", "Error", "Expired", "Sent"}

Steps == {"idle", "next", "lock", "locked", "mark", "count", "deliver",
          "setup", "loop", "record", "leave", "badconn", "error"}

\* Which of its status changes a worker has made last: the claim, the one that
\* ends the try block, or the one of an except clause.
Phases == {"start", "tried", "end"}

\* The steps from the update to 'Sending' to the end of the try block.
SendingSteps == {"setup", "loop", "record"}

Init ==
    /\ status = [m \in Mails |-> "None"]
    /\ retry = [m \in Mails |-> 0]
    /\ age = [m \in Mails |-> 0]
    /\ rstatus = [m \in Mails |-> [r \in Recipients |-> "Not Sent"]]
    /\ delivery = None
    /\ lock = [m \in Mails |-> None]
    /\ pc = [w \in Workers |-> "idle"]
    /\ mail = [w \in Workers |-> None]
    /\ todo = [w \in Workers |-> {}]
    /\ view = [w \in Workers |-> None]
    /\ rl = [w \in Workers |-> [r \in Recipients |-> "Not Sent"]]
    /\ left = [w \in Workers |-> {}]
    /\ tries = [w \in Workers |-> 0]
    /\ current = [w \in Workers |-> None]
    /\ phase = [w \in Workers |-> "start"]
    /\ counted = [w \in Workers |-> None]
    /\ resend = None
    /\ fresh = {}
    /\ doomed = {}
    /\ delivered = [m \in Mails |-> [r \in Recipients |-> 0]]
    /\ windows = [m \in Mails |-> {}]
    /\ faults = 0
    /\ resends = 0

Goto(w, s) == pc' = [pc EXCEPT ![w] = s]

\* An UPDATE waits for the row lock of another transaction.
RowFree(w, m) == lock[m] \in {None, w}

\* UPDATE `tabEmail Queue` SET status=s WHERE name=m: nothing if m is deleted.
SetStatus(m, s) ==
    status' = IF status[m] \in Gone THEN status ELSE [status EXCEPT ![m] = s]

\* ... modified=now(): the row is young again, a copy loaded before is stale.
Touch(m) ==
    /\ age' = [age EXCEPT ![m] = 0]
    /\ fresh' = fresh \ {m}

Untouched == UNCHANGED <<age, fresh>>

\* A fault of the environment, if this kind is enabled and the budget allows.
Fault(kind) ==
    /\ kind \in FaultKinds /\ faults < MaxFaults
    /\ faults' = faults + 1

-----------------------------------------------------------------------------
(***************************************************************************)
(* A mail is queued, and a job picks it up.                                *)
(***************************************************************************)

\* add(): the mail and its recipients are inserted and committed.
AddMail(m) ==
    /\ status[m] = "None"
    /\ status' = [status EXCEPT ![m] = "Not Sent"]
    /\ UNCHANGED <<retry, age, rstatus, delivery, lock, pc, local, admin,
                   delivered, windows, faults>>

\* flush(): get_queue() fixes the list, and with it the job's snapshot.
StartFlush(w) ==
    LET queue == {m \in Mails : status[m] \in Sendable} IN
    /\ pc[w] = "idle" /\ queue # {}
    /\ todo' = [todo EXCEPT ![w] = queue]
    /\ view' = [view EXCEPT ![w] = rstatus]
    /\ Goto(w, "next")
    /\ UNCHANGED <<tables, mail, rl, left, tries, current, phase, counted, admin,
                   delivered, windows, faults>>

\* send_now() or add(now=True): one mail, whatever its status; the request
\* may have read from the database before.
SendNow(w, m) ==
    /\ pc[w] = "idle" /\ status[m] \notin Gone
    /\ mail' = [mail EXCEPT ![w] = m]
    /\ \E v \in {None, rstatus} : view' = [view EXCEPT ![w] = v]
    /\ Goto(w, "lock")
    /\ UNCHANGED <<tables, todo, rl, left, tries, current, phase, counted, admin,
                   delivered, windows, faults>>

\* flush(): the next mail of the list ...
NextMail(w) ==
    /\ pc[w] = "next"
    /\ \E m \in todo[w] :
        /\ mail' = [mail EXCEPT ![w] = m]
        /\ todo' = [todo EXCEPT ![w] = @ \ {m}]
    /\ Goto(w, "lock")
    /\ UNCHANGED <<tables, view, rl, left, tries, current, phase, counted, admin,
                   delivered, windows, faults>>

\* The worker's Python state goes with its job.
ForgetJob(w) ==
    /\ mail' = [mail EXCEPT ![w] = None]
    /\ todo' = [todo EXCEPT ![w] = {}]
    /\ view' = [view EXCEPT ![w] = None]
    /\ rl' = [rl EXCEPT ![w] = [r \in Recipients |-> "Not Sent"]]
    /\ left' = [left EXCEPT ![w] = {}]
    /\ tries' = [tries EXCEPT ![w] = 0]
    /\ current' = [current EXCEPT ![w] = None]
    /\ phase' = [phase EXCEPT ![w] = "start"]
    /\ counted' = [counted EXCEPT ![w] = None]

\* ... and its end: the job commits.
EndJob(w) ==
    /\ pc[w] = "next" /\ todo[w] = {}
    /\ Goto(w, "idle")
    /\ ForgetJob(w)
    /\ UNCHANGED <<tables, admin, delivered, windows, faults>>

-----------------------------------------------------------------------------
(***************************************************************************)
(* send_one(): claiming the mail.                                          *)
(***************************************************************************)

\* What `select ... from tabEmail Queue Recipient` returns to w.
RecipientsSeen(w) ==
    IF view[w] = None THEN rstatus[mail[w]] ELSE view[w][mail[w]]

\* SELECT ... FOR UPDATE, then the recipients, of a mail that can be sent.
LockMail(w) ==
    LET m == mail[w]
        rows == RecipientsSeen(w)
    IN
    /\ pc[w] = "lock" /\ lock[m] = None /\ status[m] \in Sendable
    /\ lock' = [lock EXCEPT ![m] = w]
    /\ view' = [view EXCEPT ![w] = IF @ = None THEN rstatus ELSE @]
    /\ rl' = [rl EXCEPT ![w] = rows]
    /\ left' = [left EXCEPT ![w] = {r \in Recipients : rows[r] = "Not Sent"}]
    /\ tries' = [tries EXCEPT ![w] = retry[m]]
    /\ windows' = [windows EXCEPT ![m] =
                      @ \cup IF rows # rstatus[m] THEN {"snapshot"} ELSE {}]
    /\ Goto(w, "locked")
    /\ UNCHANGED <<status, retry, age, rstatus, delivery, mail, todo, current,
                   phase, counted, admin, delivered, faults>>

\* "rollback to release lock and return": someone else has the mail.
SkipMail(w) ==
    /\ pc[w] = "lock" /\ lock[mail[w]] = None
    /\ status[mail[w]] \notin Sendable \cup Gone
    /\ view' = [view EXCEPT ![w] = None]
    /\ Goto(w, "next")
    /\ UNCHANGED <<tables, mail, todo, rl, left, tries, current, phase, counted, admin,
                   delivered, windows, faults>>

\* The row was deleted since the list was made: [0] raises, the job dies.
MailGone(w) ==
    /\ pc[w] = "lock" /\ status[mail[w]] \in Gone
    /\ Goto(w, "idle")
    /\ ForgetJob(w)
    /\ UNCHANGED <<tables, admin, delivered, windows, faults>>

\* sql(auto_commit=True) commits before it executes: the row lock is gone.
CommitBeforeMark(w) ==
    /\ pc[w] = "locked"
    /\ lock' = [lock EXCEPT ![mail[w]] = None]
    /\ view' = [view EXCEPT ![w] = None]
    /\ Goto(w, "mark")
    /\ UNCHANGED <<status, retry, age, rstatus, delivery, mail, todo, rl, left,
                   tries, current, phase, counted, admin, delivered, windows, faults>>

\* Where send_one() goes on after a status change and its refresh.
Resume(p) ==
    CASE p = "start" -> "setup"
      [] p = "tried" -> "leave"
      [] p = "end"   -> "next"

\* Mutated: only the first status change reaches the Communication.
RefreshOnce(w, p) ==
    /\ phase' = [phase EXCEPT ![w] = p]
    /\ Goto(w, IF mail[w] \in Linked /\ p = "start" THEN "count" ELSE Resume(p))

\* After a status change the Communication, if there is one, is refreshed.
ThenRefresh(w, p) ==
    /\ phase' = [phase EXCEPT ![w] = p]
    /\ Goto(w, IF mail[w] \in Linked THEN "count" ELSE Resume(p))

\* The row is no longer what the worker based its decision on.
ClaimIsStale(w) ==
    status[mail[w]] \notin Sendable \/ rl[w] # rstatus[mail[w]]

\* UPDATE `tabEmail Queue` SET status='Sending', and commit.
MarkSending(w) ==
    /\ pc[w] = "mark" /\ RowFree(w, mail[w])
    /\ SetStatus(mail[w], "Sending") /\ Touch(mail[w])
    /\ windows' = [windows EXCEPT ![mail[w]] =
                      @ \cup IF ClaimIsStale(w) THEN {"claim"} ELSE {}]
    /\ ThenRefresh(w, "start")
    /\ UNCHANGED <<retry, rstatus, delivery, lock, mail, todo, view, rl, left,
                   tries, current, counted, resend, doomed, resends, delivered, faults>>

-----------------------------------------------------------------------------
(***************************************************************************)
(* Communication.set_delivery_status(commit=True): one transaction that    *)
(* reads the statuses of the linked mails and then writes the summary.     *)
(***************************************************************************)
\* Mutated: the first status found is passed on as it is.
AnyStatus(found) == IF found = {} THEN None ELSE CHOOSE s \in found : TRUE

DeliveryFrom(found) ==
    CASE found \cap {"Not Sent", "Sending"} # {} -> "Sending"
      [] "Error" \in found /\ found \cap {"Not Sent", "Sending"} = {} -> "Error"
      [] "Expired" \in found
            /\ found \cap {"Not Sent", "Sending", "Error"} = {} -> "Expired"
      [] "Sent" \in found
            /\ found \cap {"Not Sent", "Sending", "Error", "Expired"} = {} -> "Sent"
      [] OTHER -> None

LinkedStatuses == {status[m] : m \in Linked}

\* With nothing to write there is no commit either: behind the last statement
\* of a mail the snapshot of this read serves the next mail of the list.
CountStatuses(w) ==
    LET summary == DeliveryFrom(LinkedStatuses) IN
    /\ pc[w] = "count"
    /\ counted' = [counted EXCEPT ![w] = summary]
    /\ view' = IF phase[w] # "start" /\ summary = None
                 THEN [view EXCEPT ![w] = rstatus] ELSE view
    /\ Goto(w, "deliver")
    /\ UNCHANGED <<tables, mail, todo, rl, left, tries, current, phase, admin,
                   delivered, windows, faults>>

SetDelivery(w) ==
    /\ pc[w] = "deliver"
    /\ delivery' = IF counted[w] = None THEN delivery ELSE counted[w]
    /\ Goto(w, Resume(phase[w]))
    /\ UNCHANGED <<status, retry, age, rstatus, lock, local, admin, delivered,
                   windows, faults>>

-----------------------------------------------------------------------------
(***************************************************************************)
(* send_one(): the try block.                                              *)
(***************************************************************************)
AnySent(w) == \E r \in Recipients : rl[w][r] = "Sent"

\* setup_email_account() found a server.
SetupServer(w) ==
    /\ pc[w] = "setup"
    /\ Goto(w, "loop")
    /\ UNCHANGED <<tables, local, admin, delivered, windows, faults>>

\* sess.sendmail() returned: the server has taken the message.
Deliver(w) ==
    /\ pc[w] = "loop"
    /\ \E r \in left[w] :
        /\ delivered' = [delivered EXCEPT ![mail[w]][r] = @ + 1]
        /\ left' = [left EXCEPT ![w] = @ \ {r}]
        /\ current' = [current EXCEPT ![w] = r]
    /\ Goto(w, "record")
    /\ UNCHANGED <<tables, mail, todo, view, rl, tries, phase, counted, admin,
                   windows, faults>>

\* Mutated: the row in the table is forgotten.
RecordInPythonOnly(w) ==
    /\ pc[w] = "record"
    /\ rl' = [rl EXCEPT ![w][current[w]] = "Sent"]
    /\ current' = [current EXCEPT ![w] = None]
    /\ Goto(w, "loop")
    /\ UNCHANGED <<tables, mail, todo, view, left, tries, phase, counted, admin,
                   delivered, windows, faults>>

\* recipient.status = "Sent", in Python and then in the table.
RecordSent(w) ==
    LET m == mail[w]
        r == current[w]
    IN
    /\ pc[w] = "record"
    /\ rl' = [rl EXCEPT ![w][r] = "Sent"]
    /\ rstatus' = IF status[m] \in Gone THEN rstatus
                  ELSE [rstatus EXCEPT ![m][r] = "Sent"]
    /\ current' = [current EXCEPT ![w] = None]
    /\ Goto(w, "loop")
    /\ UNCHANGED <<status, retry, age, delivery, lock, mail, todo, view, left,
                   tries, phase, counted, admin, delivered, windows, faults>>

\* Mutated: the loop is left as soon as any recipient is sent.
FinishOnAny(w) ==
    LET m == mail[w] IN
    /\ pc[w] = "loop" /\ (left[w] = {} \/ AnySent(w)) /\ RowFree(w, m)
    /\ IF AnySent(w) THEN SetStatus(m, "Sent") /\ Touch(m)
                     ELSE SetStatus(m, "Error") /\ Untouched
    /\ ThenRefresh(w, "tried")
    /\ UNCHANGED <<retry, rstatus, delivery, lock, mail, todo, view, rl, left,
                   tries, current, counted, resend, doomed, resends, delivered,
                   windows, faults>>

\* No recipient is left: "if all are sent set status", still in the try block.
FinishMail(w) ==
    LET m == mail[w] IN
    /\ pc[w] = "loop" /\ left[w] = {} /\ RowFree(w, m)
    /\ IF AnySent(w) THEN SetStatus(m, "Sent") /\ Touch(m)
                     ELSE SetStatus(m, "Error") /\ Untouched
    /\ ThenRefresh(w, "tried")
    /\ UNCHANGED <<retry, rstatus, delivery, lock, mail, todo, view, rl, left,
                   tries, current, counted, resend, doomed, resends, delivered, windows,
                   faults>>

\* The summary is written too: the try block is over.
LeaveTry(w) ==
    /\ pc[w] = "leave"
    /\ Goto(w, "next")
    /\ UNCHANGED <<tables, local, admin, delivered, windows, faults>>

-----------------------------------------------------------------------------
(***************************************************************************)
(* send_one(): what can go wrong, and the two except clauses.              *)
(***************************************************************************)

\* Mutated: a disconnection is swallowed and the recipient counted as served.
SwallowDisconnection(w) ==
    /\ pc[w] = "loop" /\ Fault("badconn")
    /\ \E r \in left[w] : /\ current' = [current EXCEPT ![w] = r]
                         /\ left' = [left EXCEPT ![w] = @ \ {r}]
    /\ Goto(w, "record")
    /\ UNCHANGED <<tables, mail, todo, view, rl, tries, phase, counted, admin,
                   delivered, windows>>

\* The try block, but for the moment between an acceptance and its record: it goes
\* on behind the last status change and while the summary is written.
InTry(w) ==
    \/ pc[w] \in {"setup", "loop"}
    \/ phase[w] = "tried" /\ pc[w] \in {"count", "deliver", "leave"}

\* SMTPServerDisconnected, SMTPConnectError, ..., JobTimeoutException, with
\* nothing accepted by the server that is not recorded.
LoseConnection(w) ==
    /\ InTry(w) /\ Fault("badconn")
    /\ Goto(w, "badconn")
    /\ UNCHANGED <<tables, local, admin, delivered, windows>>

\* Any other exception: a refused recipient, a message that does not render, a
\* statement the database refuses.
RaiseError(w) ==
    /\ InTry(w)
    /\ Goto(w, "error")
    /\ UNCHANGED <<tables, local, admin, delivered, windows, faults>>

\* The server took the message and then the connection, the job's time or
\* the database failed: the recipient's row still says 'Not Sent'.
FailToRecord(w) ==
    /\ pc[w] = "record" /\ Fault("unrecorded")
    /\ \E inPython \in RecipientStatuses :
        rl' = [rl EXCEPT ![w][current[w]] = inPython]
    /\ windows' = [windows EXCEPT ![mail[w]] = @ \cup {"unrecorded"}]
    /\ current' = [current EXCEPT ![w] = None]
    /\ \E handler \in {"badconn", "error"} : Goto(w, handler)
    /\ UNCHANGED <<tables, mail, todo, view, left, tries, phase, counted, admin,
                   delivered>>

\* except SMTPServerDisconnected, ...: "bad connection/timeout, retry later".
HandleBadConnection(w) ==
    LET m == mail[w] IN
    /\ pc[w] = "badconn" /\ RowFree(w, m)
    /\ SetStatus(m, IF AnySent(w) THEN "Partially Sent" ELSE "Not Sent")
    /\ Touch(m)
    /\ view' = [view EXCEPT ![w] = None]
    /\ ThenRefresh(w, "end")
    /\ UNCHANGED <<retry, rstatus, delivery, lock, mail, todo, rl, left,
                   tries, current, counted, resend, doomed, resends, delivered, windows,
                   faults>>

\* Mutated: the retry column is not incremented.
RetryForever(w) ==
    /\ pc[w] = "error" /\ RowFree(w, mail[w])
    /\ IF tries[w] < MaxRetry
         THEN SetStatus(mail[w], "Not Sent") /\ Touch(mail[w])
         ELSE SetStatus(mail[w], "Error") /\ Untouched
    /\ view' = [view EXCEPT ![w] = None]
    /\ ThenRefresh(w, "end")
    /\ UNCHANGED <<retry, rstatus, delivery, lock, mail, todo, rl, left,
                   tries, current, counted, resend, doomed, resends, delivered,
                   windows, faults>>

\* Mutated: the last error is logged, the status is left as it is.
GiveUpSilently(w) ==
    /\ pc[w] = "error" /\ RowFree(w, mail[w])
    /\ IF tries[w] < MaxRetry
         THEN /\ SetStatus(mail[w], "Not Sent") /\ Touch(mail[w])
              /\ retry' = [retry EXCEPT ![mail[w]] = @ + 1]
         ELSE Untouched /\ UNCHANGED <<status, retry>>
    /\ view' = [view EXCEPT ![w] = None]
    /\ ThenRefresh(w, "end")
    /\ UNCHANGED <<rstatus, delivery, lock, mail, todo, rl, left, tries, current,
                   counted, resend, doomed, resends, delivered, windows, faults>>

\* except Exception: retry a few times, then give up.
HandleError(w) ==
    LET m == mail[w]
        again == tries[w] < MaxRetry
    IN
    /\ pc[w] = "error" /\ RowFree(w, m)
    /\ IF again
         THEN /\ SetStatus(m, "Not Sent") /\ Touch(m)
              /\ retry' = IF status[m] \in Gone THEN retry
                          ELSE [retry EXCEPT ![m] = @ + 1]
         ELSE /\ SetStatus(m, IF AnySent(w) THEN "Partially Errored" ELSE "Error")
              /\ Untouched /\ UNCHANGED retry
    /\ view' = [view EXCEPT ![w] = None]
    /\ ThenRefresh(w, "end")
    /\ UNCHANGED <<rstatus, delivery, lock, mail, todo, rl, left, tries, current,
                   counted, resend, doomed, resends, delivered, windows, faults>>

\* The process is killed, or an exception leaves send_one: the open
\* transaction is rolled back, what was committed stays.
Abort(w) ==
    /\ pc[w] # "idle" /\ Fault("abort")
    /\ lock' = [m \in Mails |-> IF lock[m] = w THEN None ELSE lock[m]]
    /\ windows' = IF pc[w] = "record"
                  THEN [windows EXCEPT ![mail[w]] = @ \cup {"unrecorded"}]
                  ELSE windows
    /\ Goto(w, "idle")
    /\ ForgetJob(w)
    /\ UNCHANGED <<status, retry, age, rstatus, delivery, admin, delivered>>

-----------------------------------------------------------------------------
(***************************************************************************)
(* retry_sending(): get_doc, change the statuses, doc.save().              *)
(***************************************************************************)
LoadForResend(m) ==
    /\ resend = None /\ resends < MaxResends
    /\ status[m] \in {"Error", "Partially Errored"}
    /\ resend' = [mail |-> m, rows |-> rstatus[m]]
    /\ fresh' = {m}
    /\ resends' = resends + 1
    /\ UNCHANGED <<tables, pc, local, doomed, delivered, windows, faults>>

\* save() locks the row and compares `modified`; then it writes the document
\* and all its child rows as they were loaded.
SaveResend ==
    LET m == resend.mail IN
    /\ resend # None /\ lock[resend.mail] = None
    /\ m \in fresh /\ status[m] \notin Gone
    /\ SetStatus(m, "Not Sent") /\ Touch(m)
    /\ rstatus' = [rstatus EXCEPT ![m] = resend.rows]
    /\ windows' = [windows EXCEPT ![m] =
                      @ \cup IF resend.rows # rstatus[m] THEN {"resend"} ELSE {}]
    /\ resend' = None
    /\ UNCHANGED <<retry, delivery, lock, pc, local, doomed, resends, delivered,
                   faults>>

\* TimestampMismatchError, or the record does not exist any more.
RejectResend ==
    /\ resend # None /\ lock[resend.mail] = None
    /\ resend.mail \notin fresh \/ status[resend.mail] \in Gone
    /\ resend' = None /\ fresh' = {}
    /\ UNCHANGED <<tables, pc, local, doomed, resends, delivered, windows, faults>>

-----------------------------------------------------------------------------
(***************************************************************************)
(* clear_outbox(), daily: select the names, then delete them, then expire. *)
(***************************************************************************)
SelectDoomed ==
    /\ doomed = {}
    /\ doomed' = {m \in LowPriority : status[m] \notin Gone /\ age[m] = 2}
    /\ doomed' # {}
    /\ UNCHANGED <<tables, pc, local, resend, fresh, resends, delivered, windows,
                   faults>>

\* "... set status='Expired' where ... > 7 and status='Not Sent'".
Expiring == {m \in Mails \ doomed : status[m] = "Not Sent" /\ age[m] >= 1}

ClearOutbox ==
    /\ doomed \cup Expiring # {}
    /\ doomed = {} =>
        \A m \in LowPriority : status[m] \in Gone \/ age[m] < 2
    /\ \A m \in doomed \cup Expiring : lock[m] = None
    /\ status' = [m \in Mails |-> IF m \in doomed THEN "Deleted"
                                  ELSE IF m \in Expiring THEN "Expired"
                                  ELSE status[m]]
    /\ doomed' = {}
    /\ UNCHANGED <<retry, age, rstatus, delivery, lock, pc, local, resend, fresh,
                   resends, delivered, windows, faults>>

\* Time passes: a week since `modified`, then a month, which matters to mails of
\* low priority.
Tick(m) ==
    /\ status[m] \notin Gone /\ age[m] < MaxAge
    /\ age[m] = 1 => m \in LowPriority
    /\ age' = [age EXCEPT ![m] = @ + 1]
    /\ UNCHANGED <<status, retry, rstatus, delivery, lock, pc, local, admin,
                   delivered, windows, faults>>

-----------------------------------------------------------------------------
SendOne(w) ==
    \/ LockMail(w) \/ SkipMail(w) \/ MailGone(w)
    \/ CommitBeforeMark(w) \/ MarkSending(w)
    \/ CountStatuses(w) \/ SetDelivery(w)
    \/ SetupServer(w) \/ Deliver(w) \/ RecordSent(w) \/ FinishMail(w) \/ LeaveTry(w)
    \/ LoseConnection(w) \/ RaiseError(w) \/ FailToRecord(w)
    \/ HandleBadConnection(w) \/ HandleError(w)

Job(w) == StartFlush(w) \/ NextMail(w) \/ EndJob(w) \/ SendOne(w)

Next ==
    \/ \E m \in Mails : AddMail(m) \/ LoadForResend(m) \/ Tick(m)
    \/ \E w \in Workers : Job(w) \/ Abort(w)
    \/ \E w \in Workers, m \in Mails : SendNow(w, m)
    \/ SaveResend \/ RejectResend \/ SelectDoomed \/ ClearOutbox

Spec == Init /\ [][Next]_vars

\* The scheduler's "all" event keeps queueing flush, whatever else the
\* workers are asked to do, and a running job goes on.
FairSpec ==
    Spec /\ \A w \in Workers : WF_vars(Job(w)) /\ SF_vars(StartFlush(w))

-----------------------------------------------------------------------------
(***************************************************************************)
(* Properties.                                                             *)
(***************************************************************************)
TypeOK ==
    /\ status \in [Mails -> Statuses]
    /\ retry \in [Mails -> Nat]
    /\ age \in [Mails -> 0..2]
    /\ rstatus \in [Mails -> [Recipients -> RecipientStatuses]]
    /\ delivery \in DeliveryStatuses
    /\ lock \in [Mails -> Workers \cup {None}]
    /\ pc \in [Workers -> Steps]
    /\ mail \in [Workers -> Mails \cup {None}]
    /\ todo \in [Workers -> SUBSET Mails]
    /\ view \in [Workers -> [Mails -> [Recipients -> RecipientStatuses]] \cup {None}]
    /\ rl \in [Workers -> [Recipients -> RecipientStatuses]]
    /\ left \in [Workers -> SUBSET Recipients]
    /\ tries \in [Workers -> Nat]
    /\ current \in [Workers -> Recipients \cup {None}]
    /\ phase \in [Workers -> Phases]
    /\ counted \in [Workers -> DeliveryStatuses]
    /\ resend \in [mail : Mails, rows : [Recipients -> RecipientStatuses]] \cup {None}
    /\ fresh \in SUBSET Mails
    /\ doomed \in SUBSET Mails
    /\ delivered \in [Mails -> [Recipients -> Nat]]
    /\ windows \in [Mails -> SUBSET {"snapshot", "claim", "unrecorded", "resend"}]
    /\ faults \in 0..MaxFaults
    /\ resends \in 0..MaxResends

\* A recipient gets the message twice only by one of the four windows of
\* this design: two workers past the same claim, a recipient list read from
\* an old snapshot, an acceptance that was not recorded, a resend that wrote
\* back rows loaded earlier.  Retries, flushes, resends, deletions and
\* expiry in any order never cause it otherwise.
DuplicatesOnlyFromKnownWindows ==
    \A m \in Mails, r \in Recipients : delivered[m][r] > 1 => windows[m] # {}

\* A recipient's row says 'Sent' only if the server accepted the message,
\* under every race, crash and retry.
SentRowsWereDelivered ==
    \A m \in Mails, r \in Recipients :
        rstatus[m][r] = "Sent" => delivered[m][r] >= 1

\* "if all are sent set status": a mail marked 'Sent' has no recipient who
\* never got it, although the code tests any() and the rows it tests are its
\* own copy.
SentMailsAreComplete ==
    \A m \in Mails : status[m] = "Sent" =>
        \A r \in Recipients : delivered[m][r] >= 1

\* The commit that precedes an auto_commit statement is the only thing that
\* is taken to end a claim: a mail is in the try block of one worker only.
OneSenderAtATime ==
    \A v, w \in Workers :
        v # w /\ pc[v] \in SendingSteps /\ pc[w] \in SendingSteps
            => mail[v] # mail[w]

\* With nobody to race and every acceptance recorded, nobody gets a mail twice.
AtMostOnce == \A m \in Mails, r \in Recipients : delivered[m][r] <= 1

Settled == {"Sent", "Error", "Partially Errored", "Expired", "Deleted"}

\* A queued mail is sent or given up, however often the connection is lost.
EveryMailSettles ==
    \A m \in Mails : status[m] \in Sendable ~> status[m] \in Settled

\* The Communication ends up with the summary of its mails, unless clear_outbox()
\* has expired or deleted one: its UPDATEs do not refresh the summary.
DeliverySettles ==
    <>[](\/ DeliveryFrom(LinkedStatuses) \in {None, delivery}
         \/ \E m \in Linked : status[m] \in {"Expired", "Deleted"})

\* The worker is past its claim of the mail and has not given the mail its next
\* status yet.
Trying(w) ==
    \/ pc[w] \in {"setup", "loop", "record", "badconn", "error"}
    \/ pc[w] \in {"count", "deliver"} /\ phase[w] = "start"

\* No mail is left 'Sending', where get_queue() does not see it any more: a worker
\* is at it, as long as none is killed and no exception leaves send_one().
SendingHasASender ==
    \A m \in Mails : status[m] = "Sending" => \E w \in Workers : Trying(w) /\ mail[w] = m

\* The mails of the Communication are all done with, and no worker is about to
\* write the summary or to take its mail back.
AllDone ==
    /\ LinkedStatuses \subseteq {"None", "Sent", "Error", "Partially Errored"}
    /\ \A w \in Workers : pc[w] \notin {"count", "deliver", "badconn", "error"}

\* The summary of the Communication is then that of its mails: what a worker has
\* counted is not out of date when it is written, if there is no other worker.
SummaryIsRight == AllDone => DeliveryFrom(LinkedStatuses) \in {None, delivery}

-----------------------------------------------------------------------------
(***************************************************************************)
(* The abstract specification: the life of a mail.                         *)
(***************************************************************************)
Stage(s) ==
    CASE s = "None" -> "none"
      [] s \in Sendable -> "queued"
      [] s = "Sending" -> "sending"
      [] s = "Sent" -> "sent"
      [] s \in {"Error", "Partially Errored"} -> "failed"
      [] s = "Expired" -> "expired"
      [] s = "Deleted" -> "deleted"

Life == INSTANCE Mailing WITH
    stage  <- [m \in Mails |-> Stage(status[m])],
    got    <- delivered,
    astray <- {m \in Mails : windows[m] # {}}

\* Statement by statement, beside other workers, resends and clear_outbox(), a
\* mail lives as Mailing says; it goes astray by the four windows only.
ImplementsMailing == Life!Spec

=============================================================================
