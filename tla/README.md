# Formal models of the capkpi framework

TLA+ modules that model the parts of this repository (`frappe/`) whose
correctness depends on the order in which concurrent requests, background jobs
and failures happen; TLC configurations that check them on small instances; and
theorems that TLAPS checks for every value of the constants.

The program is a web framework in Python with a browser application, the Desk, in
JavaScript. Three kinds of processes work on the same documents:

- requests (gunicorn workers) and background jobs (RQ workers), which share a MariaDB
  database, a Redis cache, a Redis queue and the files of the site;
- the tabs of browsers, each with copies of documents of its own, single-threaded, with
  requests in flight whose answers come late, in another order, or not at all;
- one node server (`socketio.js`), which relays what is published on Redis to the tabs that
  are in a room, asks the web server for permissions, and takes uploads.

Nothing but the shared stores and these messages synchronises them, so that is where the
models look. Source paths below are relative to `src/frappe/` (`socketio.js` is in `src/`).

Sections: 1 inventory; 2 to 8 the seven modelled parts; 9 how they fit together; 10 the runs;
11 the proofs; 12 what the models leave out; 13 what is not modelled; 14 the plan.

## 1. Inventory

| Part | State | Operations | Interacts with | What is hard | What makes it correct |
|---|---|---|---|---|---|
| Document life cycle (`model/document.py`, `model/base_document.py`, `model/delete_doc.py`) | rows of a DocType, the object in memory, `flags.currently_saving` | insert, save, submit, cancel, db_set, delete | transactions of `database.py`; hooks | an optimistic lock on `modified`, a row lock taken late, values checked on one copy and written from another | no lost update; docstatus only moves forward; submitted fields frozen; a submitted document is not deleted |
| Outgoing email (`email/queue.py`, Email Queue, Communication) | `tabEmail Queue`, its recipients, the delivery status of the Communication | add, flush, send_one, send_now, retry_sending, clear_outbox | SMTP server, scheduler, Communication | two workers, commits in the middle of a transaction, crashes between the answer of the server and its record | a recipient gets a mail at most once; 'Sent' means accepted; every mail settles |
| Transactions and what follows a commit (`database.py`, `app.py`, `realtime.py`, `utils/background_jobs.py`, `utils/scheduler.py`) | the open transaction, `local.realtime_log`, `flags.enqueue_after_commit` | sql, commit, rollback, the ends of requests and jobs | the queue, pub/sub | the lists outlive the transaction they belong to; commit() may fail half-way | events and jobs stand for committed data, once |
| Naming series (`model/naming.py`, `model/delete_doc.py`) | `tabSeries.current`, the names of the documents | getseries, revert_series_if_last | insert and delete of documents | row and gap locks, stale deletions, numbers given back | numbers are fresh, ascending, without gaps |
| Desk forms (`public/js/legacy/form.js`, `public/js/frappe/form/save.js`, `model/model.js`, `model/sync.js`, `request.js`, `desk/form/save.py`, `load.py`) | `locals`, the form's document, the requests in flight, `is_saving`, the rooms of the tab | open, type, choose a link, save, submit, cancel, reload, answers, doc_update | Document (as versioned rows), Realtime | answers replace copies the user goes on changing; the form moves on while a request or a confirmation is open; events overtake answers | no save takes back another; one save at a time; what is typed is kept; stale copies are marked; a new document is inserted once |
| Realtime server (`socketio.js`, `public/js/frappe/socketio_client.js`, `form_viewers.js`, `realtime.py`) | rooms of events and of viewers, permission requests, the channel, viewer lists | doc_subscribe, doc_open, doc_close, relay, connect, disconnect, restart | Desk forms, Redis, the web server | joining waits for HTTP, leaving does not; connections break silently; forms of a DocType share a page | events come once and in order; who views a document is known to the others; open forms get their events |
| Uploads (`public/js/frappe/upload.js`, `socketio_client.js`, `socketio.js`, `utils/file_manager.py`, `handler.py`) | batches and their arguments, the uploader and its timer, the slices on node, File rows | attach, read, slices, write, post, fall back, disconnect | Realtime's socket, Files | one uploader for all batches, answers that name no upload, a timeout that races a late answer, a trigger that every batch hears | a row has the content of its file; a file is attached once; none is skipped; the uploader is freed |
| Document cache (`__init__.py`, `utils/redis_wrapper.py`) | a local and a Redis copy of each document | get_doc, get_cached_doc, clear_document_cache | Document | filled from snapshots and cleared before the commit | no stale copy outlives the next load |
| Document locks (`model/document.py`, `utils/file_lock.py`) | lock files | queue_action, lock, unlock, execute_action | the queue | check, then create; outside the transaction | one queued action at a time |
| Jobs and scheduler (`utils/background_jobs.py`, `utils/scheduler.py`) | RQ queues, `scheduler_last_event` | enqueue, execute_job, enqueue_events | AfterCommit | retries, crashes between bookkeeping and enqueuing | no event is skipped or run beside itself |
| Sessions and login (`sessions.py`, `auth.py`) | Redis session, `tabSessions`, login counters | start, resume, update, delete | Redis, database | update against delete, the two copies age apart | a deleted session stays deleted |
| Nested sets (`utils/nestedset.py`) | lft and rgt of a tree | add, move, remove a node | Document | no lock, numbers from snapshots and from memory | lft and rgt describe the tree of parents |
| Files (`core/doctype/file/file.py`, `utils/file_manager.py`) | rows of `tabFile`, files on the disk | upload, delete, change privacy | Document, nested sets | rows share files; the disk is not in the transaction | a row has its file, a file has a row |

The other components are listed in `PROJECT.json` with the reason they are not modelled
(section 13); `hazards` there lists what is hard to test in the modelled parts, at its line, with the
properties that are about it. Two of them no property covers: that cancelling writes every column of the copy
(`FrozenWhileSubmitted` is about documents that stay submitted), and that a write whose text starts
with white space is rolled back at the end of its request (the models' promises are about writes that were committed). The hazards of the parts that are not modelled yet are in section 13.

## 2. Document, DocumentStore

`Document` models one document and any number of requests. A request is a place
(`pc`), a document object (`copy`), the values the object was loaded with (`base`),
the operation under way (`kind`) and what its transaction has written (`pending`);
`db` is the committed row, `lock` the InnoDB row lock, `leaked` the entry in
`flags.currently_saving` that a failed save leaves behind. Each action is the code
between two points at which another request can see or change something:

| Action | Code |
|---|---|
| `Load`, `NewDoc`, `Close` | `get_doc`, a form the browser sends back, `new_doc`, the end of the request |
| `StartSave` | `set_user_and_timestamp`, `set_docstatus`, for any edited fields and docstatus |
| `CheckIfLatest`, `CheckNew` | `check_if_latest`: SELECT ... FOR UPDATE, the comparison of `modified`, `check_docstatus_transition` |
| `UpdateRow`, `InsertRow` | the hooks, `validate_update_after_submit`, `db_update`, `db_insert` |
| `StartDbSet`, `StartDbSetOnly`, `WriteDbSet` | `db_set` with and without `update_modified` |
| `StartDelete`, `DeleteRow` | `check_permission_and_not_submitted`; `delete_from_table` |
| `Commit`, `Fail` | the ends of the transaction; `Fail` at any point, for any exception |

A hook can only fail. Columns are of three kinds: `a` is not allow_on_submit, `b`
is written by forms and by db_set, `c` is written without a new `modified`
(`_assign`, `_comments`). An edited field holds the time of its edit, so "an older
value came back" is visible. `Reuse` says after what a request goes on with its
document object: after `"db_set"`, or after a `"failed"` save.

`DocumentStore` is the abstract specification: a row that changes in single steps,
each built on the row as it is. `ImplementsStore` is the refinement (`doc <- db`).

## 3. EmailQueue, Mailing

Workers run `flush` and `send_now`; an administrator runs `retry_sending`
(`LoadForResend`, `SaveResend`, `RejectResend`), the scheduler `clear_outbox`
(`SelectDoomed`, `ClearOutbox`). Nearly every statement is sent with
`auto_commit=True`, so an action is one committed statement; the row lock and the
Python variables of `send_one` are what a worker keeps over several actions
(`rl`, `left`, `tries`, `current`). `view` is the REPEATABLE READ snapshot that
`flush` takes at `get_queue`, from which the plain SELECT of the recipients is
answered, while the status is read FOR UPDATE.

The `try` block of `send_one` goes on behind the mail's last change of status: the update to 'Sent' and the
last `set_delivery_status` are in it. So a lost connection or an error there (`LoseConnection`, `RaiseError`, up to
the step "leave") takes the except clauses too, and a mail that says 'Sent' goes back to 'Not Sent' or 'Partially
Sent', to be worked through again for the recipients that are left, or to 'Error'.

`CommitBeforeMark` is a step of its own because `sql()` commits *before* an
auto_commit statement: the lock of the check is gone when the status is set.
The environment's faults are constants: a worker that is killed (`"abort"`), a
connection that is lost (`"badconn"`), an acceptance of the server that is never
recorded (`"unrecorded"`). `windows` records, for each mail, which of the four
known ways of sending twice has been open: a second worker past the same claim, recipients
read from an old snapshot, an acceptance that is not recorded, a resend that writes back
rows loaded earlier.

`Tick` lets time pass since a mail was modified: a week, then a month, which `clear_outbox` tells apart
for mails of low priority only. `DeliverySettles` excuses a Communication one of whose mails `clear_outbox` has
expired or deleted: that is done by SQL alone and tells the Communication nothing.

Two invariants say why these two liveness properties hold. `SendingHasASender`: a mail in the status 'Sending', which
`get_queue` does not select any more, has a worker in the try block or its except clauses (`Trying`), unless a
worker was killed or an exception left `send_one`. `SummaryIsRight`: once the mails of a
Communication are done with and nobody is about to write its summary, the summary is right. Two
workers can break the second, since `set_delivery_status` counts and writes in two steps and the older
count may be written last; it is said of one worker.

`Mailing` is the abstract specification: a mail is queued, claimed, handed once to each recipient, and then
sent, put back or given up; both may also follow once it is sent, by an error behind the last update; it may be
queued again after it was given up, expire while it waits, and be deleted. `ImplementsMailing` is the refinement (`stage <- Stage(status)`, `got <- delivered`). A mail with a
window is `astray`; what is left of the promise then is that it does not come back once it is deleted, takes
nothing back that was delivered, and is not called sent before everyone has it.

## 4. AfterCommit, Outbox

Processes run requests, batches (`submit_cancel_or_update_docs` and its like: a request
that catches the error of one document, rolls back and goes on) and background
jobs. A write has a number; its event and its job have the number of their write.
`own` are the writes of the open transaction, `events` is `local.realtime_log`,
`jobs` is `flags.enqueue_after_commit`, `counted` is `transaction_writes > 0`.

commit() is the COMMIT (`CommitWrites`), then `Publish`, then one `EnqueueJob` for
each job, then `Resume` or `End`. The code may raise while it runs (`Fail`) and commit() after its COMMIT, while it
publishes or enqueues (`CommitFails`); a crash (`Crash`) may come at every point. `Raise` says what an
exception leads to: a request ends, a batch rolls back and goes on, and a job is rolled back and logged:
`execute_job` and `scheduler_task` write an Error Log and *commit* again (`LogError`). Neither rollback() nor a
commit() that raises empties the lists, so the next commit() of a batch, or that of the log, starts again from
the first job. Only what the very last commit of a request or job raises is caught by nobody.
`requested`, `announced`, `excused`, `broken` (the writes with a job in the list of a commit that raised) and
`repeated` are history.

`Outbox` is the abstract specification: the jobs that a transaction asks for wait from the very step
that makes its writes durable, each leaves once, for the queue or with a fault, and nobody hears of a write
that is not durable. `ImplementsOutbox` is the refinement for the writes of *requests* (`waiting <- Waiting`,
what commit() still has to enqueue; `lost <-` the committed ones of `excused`). Batches, which go on after an
exception, and background jobs, whose error is logged, may enqueue a job twice; they are steps beside it that
change nothing there. `OnlyRaisedCommitsRepeat` says that nothing else makes a job repeat: the commit that listed it
has raised, and it is not that of a request which catches no exception.
`JobsAreInOnePlace` is the invariant of the outbox read in the code: the job of a durable write waits, is
enqueued or met a fault, and only one of these. `RequestsPublishCommitted` and `RequestsQueueCommitted` are
parts of it.

## 5. NamingSeries

One series. `current` is the row of `tabSeries`, `docs` the names of the documents,
`lock` the row lock of SELECT ... FOR UPDATE, `gaps` the holders of the gap lock
while there is no row. A transaction keeps its own view: `mine` (the counter),
`added`, `removed`, `given`, and `seen`, the snapshot its plain reads answer from.

`NextNumber`, `FindNoSeries` and `CreateSeries` are `getseries`, `InsertRow` is
`db_insert`, `StartDelete` loads the document to be deleted from the snapshot, and
`Revert` is `revert_series_if_last` with the DELETE that follows it. `Fail` rolls
back at any point, `Deadlock` is InnoDB's answer to two transactions that both
hold the gap and both INSERT. `Others` are documents whose name is no number under
the prefix of today; `cint()` makes them 0.

## 6. DeskForm

One tab with the form of one DocType, the server it calls, and everybody else as
`Elsewhere`. JavaScript runs one handler at a time, so a click, an answer or an event is one
action; what may happen between a request and its answer is what the module is about.
`locals` are the copies of the tab by name, `shown` is `frm.docname`, `detached` is `frm.doc`
when it is no longer the copy in `locals` (`reload_doc()` removes it there before it asks again).
The content of a document is the set of the changes in it.

| Action | Code |
|---|---|
| `OpenDoc`, `NewDoc`, `OpenList` | `FormFactory.show_doc`, `get_new_doc`, `change_to` |
| `Type`, `Choose`, `LinkIsValid`, `LinkIsLost` | `set_model_value`; `validate_link_and_fetch` and its callback |
| `Click`, `ConfirmSubmit`, `GiveUp`, `Save`, `Cancel` | the toolbar, `savesubmit`, `savecancel`, `frappe.ui.form.save` after its pause |
| `UserReload` | `reload_doc` |
| `ServeGetDoc`, `ServeSave`, `ServeInsert`, `ServeCancel`, `ServeLink`, `Elsewhere` | `getdoc`, `savedocs`, `cancel`, `validate_link`: one transaction each |
| `GotDoc`, `Saved`, `Inserted` | `sync`, `rename_notify`, `after_save`, `refresh` |
| `GotNoDoc`, `NotSaved`, `SavedOrNot` | refusals, failed answers, and the lost answer that `after_save` takes for a success |
| `DocUpdate` | the handler of doc_update in `model.js`, one disjunct for each of its branches |
| `Subscribe`, `Join`, `Disconnect` | the room of the document, in short; in full in `Realtime` |

`opendocs` is `frm.opendocs`. A reload, and an event that drops a copy, remove the document from it; when the
document is refreshed next, form-load fires and `doc_subscribe` asks for its room again. The test "already open" of
`doc_subscribe` compares `d.name` with entries that have a `docname`, and never holds; what is left is the
throttle of one second.

Three variables are history. `gone` collects the changes lost in one of the ways the code has:
given up by Reload, typed into a form whose copy has left `locals`, made while a save was
in flight whose answer then replaces the copy, or a link validated too late or never.
`ChangesAreKept` says there is no other way. `missed` are documents of whose last version the tab
took no note: not in the room, saving just then (an event during a save is taken for the
form's own), or an older answer that overtook the event. `unanswered` says that the answer of a save
was lost, after which a click inserts the new document again.

## 7. Realtime, DocFeed

Tabs, the node server and the channel between it and Python. A tab is in the room of a document
to get its events (`watch`) and in its "open doc" room to be listed as a viewer (`view`). Both
are joined when the web server has answered `can_subscribe_doc` (`checks`, `Permit`,
`Refuse`); the second is left at once (`Serve`), the first only with the connection.

`OpenForm`, `ReloadForm`, `RefreshForm` and `LeaveForm` are what the user does with forms, with the messages of form-load,
form-refresh and form-unload. `opendocs` (`frm.opendocs`) are the documents with a loaded copy: `ReloadForm`, and
`TakeUpdate` when the document is neither shown nor changed, remove the copy and the document from it;
`RefreshForm` is the answer to the reload, or to a save. form-load fires, and `DocSubscribe` asks for the
room, whenever there is no loaded copy, unless the throttle drops it: the search for the document among `open_docs`
compares `d.name` with entries that have a `docname`, and finds nothing. `DocOpen` and `DocClose` depend on `last_doc` and
on the pages that the forms of a DocType share. `Disconnect` and `Restart` break connections, `Connect` sends what the socket has buffered,
`Reconnect` is what runs five seconds later: it joins no room of a document, so the tab gets no events of those it has
open until their forms are loaded again, which is what `realtime_reconnect` shows. `Publish`, `Relay` and `TakeUpdate` carry events,
`ShowViewers` is the list in the sidebar.

History: `silent`, documents whose room was left by a lost connection, of which nobody is told;
`ghosts`, tabs kept as viewers because the form went on to another document of the DocType, or
because they left before the permission came; `deaf`, tabs that are not in the room of a document
because of the throttle of one second, a refusal or a lost connection, until they ask for it again. The
properties say that there is no other way.

`DocFeed` is the abstract specification: a tab joins, events are appended to the inboxes of
those who have joined, and a lost connection loses everything at once. `ImplementsFeed` is the
refinement (`joined <- watch`, `inbox <- updates`, `last <-` the events that left the channel).

## 8. Upload

Batches of files (a click on "Attach") go through `upload.js`; small files are posted with
the request, big ones ask for a name, go through the one `SocketIOUploader` in slices, and are then
posted by their url. `next` is the index of `upload_next()`, `listening` the handler of
`upload_complete`, `args` the arguments that all files of a batch share. `reader`,
`callback`, `started`, `timer` are the uploader; `partial` and `writes` the slices on node.

`Named` is the answer of `validate_filename` with `start()` (busy, fallback without a socket, or
the first slice). `Send`, `RequestSlice`, `UploadEnd` and `KeepAlive` are the handlers of the uploader,
`Written` and `WrittenTooLate` the callback of `fs.writeFile` with and without its socket. `Posted` is
`uploadfile()` and the trigger that *every* listening batch hears. `Failed` is a request that the server answers with an
error, which the user sees. `Unanswered` is one that gets no answer: `validate_filename` has no error callback there
and that of `uploadfile()` only hides the dialog, so nobody is told, and the row may be there all the same.

`Save` is `save_file` and `save_url`. `uploadfile()` takes filedata before the url, so a big file that carries the filedata
of an earlier one of its batch is sent with content that the document has already (`Duplicate`,
`validate_duplicate_entry`): no row is made, the one there is is the answer, and the batch goes on as after any other.

History: `doubtful`, an upload has timed out or was dropped while it sent, so that an answer may be
for another one; `moved`, batches moved on by another, or that such an answer was taken for; `instead`, requests
answered with the row of another file; `given`, names given; `twice`, files attached twice; `told`, batches whose user
has been told of an error; `unanswered`, batches with a request without an answer. A row made of an answer
that was doubtful is not `sure`. `NoneIsSkipped` says of the batches that are not `moved` that each file they have
done with, the last one included, has its row or was `Replaced` by the row of an earlier one.
`BatchGoesOn` is what `Settles` and `UploaderIsFreed` rest on: a batch that listens has a file under way, or one in the
uploader together with what ends an upload that node never answers (`Timed`), or its user has been told; the batches of
`unanswered` are the exception, and the only one. `DistinctAssumption`: a file that is selected twice counts as two
files of one name.

## 9. How the parts fit together

`Document` is the row that `DeskForm` sees as a version and a set of changes: what `check_if_latest`
and the docstatus transitions guarantee there (`DocumentStore`) is the guard `Accepts` here.
`AfterCommit` says when the events of a document are published, `Realtime` what becomes of them
on the way to a tab, and `DeskForm` what the tab does with them, in any order and with any of them
missed, which covers what `Realtime` allows. `EmailQueue`, `NamingSeries` and `Upload` stand
beside these: they share the database, no variables.

## 10. The runs

All runs set `CHECK_DEADLOCK FALSE`: requests, jobs and users may stop at any time, and the bounds
on clocks, versions, faults and numbers stop the rest. Symmetry is used only where all properties
are safety properties (neither `email_live` nor `upload` has any).

| Run | Instance | Shows |
|---|---|---|
| `document` | 3 requests, 3 calls of now(), `Reuse = {}` | no lost update, legal transitions, frozen fields, the refinement of `DocumentStore` |
| `document_reuse` | 2 requests, `Reuse = {"db_set"}`, 4 calls of now() | `NoLostUpdate` is violated: db_set() on a stale object makes it look fresh |
| `email_race` | 2 workers, 1 mail of low priority, 2 recipients, 1 fault of any kind, errors at any point of the try block, 1 resend, no retries, expiry and deletion | deliveries and tables agree; duplicates only by the four windows; the refinement of `Mailing` |
| `email_live` | 1 worker, 2 mails, 2 recipients, 1 lost connection, 1 retry, expiry, `FairSpec` | nobody gets a mail twice when there is nobody to race; every mail settles; none is left 'Sending'; the Communication catches up |
| `email_claim` | 2 workers, 1 mail, no faults | `OneSenderAtATime` is violated: sql(auto_commit=True) commits first |
| `after_commit` | 2 processes, all kinds and faults, 2 writes | no job is forgotten; only a commit that raised makes a job repeat, and never that of a request; the refinement of `Outbox` for requests, whose jobs are in one place and whose events and jobs are of durable writes |
| `naming` | 3 transactions, numbers up to 3, `Others = {}` | fresh, ascending numbers without gaps |
| `desk_form` | 1 row and New, 1 change that can be a link, 2 requests in flight, 2 versions | saves take nothing back and are serial; changes are lost only in the known ways; quiet copies are fresh, marked or missed their event; one insert |
| `desk_confirm` | 2 documents, no changes, 1 request in flight | `ConfirmedIsSent` is violated: Yes submits the document the form has moved on to |
| `realtime` | 2 tabs, 2 documents of one DocType and 1 of another, 3 moves (opened, reloaded, saved, left), 1 new connection, 1 event, unanswered permissions for one document | viewers, rooms and ghosts; the refinement of `DocFeed` |
| `realtime_reconnect` | 1 tab, 2 documents, 2 moves, 1 new connection | `OpenDocsAreReconnected` is violated: the loop over open_docs gets indices |
| `upload` | 2 batches, each of a small and a big file, in both orders, the files two by two of one name, requests that fail or get no answer, 1 lost connection, `FairSpec` | rows have the content of their files, nothing is attached twice or skipped but in known ways; the uploader is freed; batches settle, and have something to wait for, unless a request got no answer |

The types of `Document` and `NamingSeries` are proved (`TypeCorrect`, section 11) and not checked again by their
runs.

The four violations are the findings of `PROJECT.json`, with the line that says otherwise.

Bounds and why they are enough:

- `MaxClock = 3` with three requests: a lost update or a revived docstatus needs two
  writers and one row written before, three stamps. `Reuse` needs one more, 4.
- `MaxRetry` where the code has 3: 1 in `email_live`, one retry and one giving up, and 0 in `email_race`, where the
  first error gives a mail up and the resend queues it again.
  `MaxFaults = 1`: the fault, and whatever is met while it is handled; errors are not counted, and may come at each
  point of the try block.
  `MaxAge` counts what the outbox tells apart, a week and a month: 2 in `email_race`, expiry and deletion; 1 in
  `email_live`, expiry, the only one of the two that changes what the Communication counts.
- `MaxWrites = 2`: one write that is rolled back or lost and one that is committed after it,
  or two jobs of which the first is enqueued and the second is not, so that the next commit repeats the first.
- `MaxNumber = 3`: a number given, taken back, given again while a third transaction
  still sees the first; three transactions are two rivals for the gap and a deletion.
- `Slots = {s1, s2}`: a save beside a load, a load beside a link, a save beside one's own reload; the
  third request in flight is of a kind that two already are. `MaxVersion = 2`: the tab's save and
  one of somebody else, in both orders. One change is enough for a property that is said of
  each change by itself; a link also covers an ordinary field, since it may be made by `Type`.
- `MaxMoves = 3`: open, move on within the DocType or to another one, come back; or open, lose the room, reload. `MaxEvents = 1`: events
  come in order for any number of them by the proof of `Implementation`; the run shows the
  rest of the refinement.
- `Upload`: a batch with a small file before a big one, so that filedata is carried on to a later file (and the server
  answers with the row of the first), and one with the big file first, so that it is carried back if the batch is
  moved on meanwhile; each batch may start in the middle of the other, and both have files of the same names. Without
  `Replaced`, or without `unanswered`, the run finds `NoneIsSkipped` and `BatchGoesOn` violated: both ways happen within
  these bounds. Two slices are a first one and one that is asked for.

Fairness. `FairSpec` of `EmailQueue` has weak fairness of the steps of a running job
(a worker goes on) and strong fairness of `StartFlush` (the scheduler's "all" event
queues `flush` every few minutes for ever, whatever else the worker does between); an error may come at each point, but
a mail is given up after `MaxRetry` of them. It is used only
with `"abort"` and `"unrecorded"` disabled, and with finitely many lost connections. A worker that is
killed after the update to 'Sending' leaves a mail that neither `get_queue` nor `clear_outbox` selects;
the code promises nothing for it, and `email_live` does not claim it. `FairSpec` of `Upload` has weak
fairness of `Progress`: something the browser or the servers do on their own (a callback of a
FileReader, an HTTP answer, its failure or its loss, a timer, a write to the disk) happens as long as something
can. The user's clicks, and the loss and the return of connections, are not fair, and answers may lag
behind the timer. The safety runs need no fairness.

## 11. The proofs

Each proof module extends its component and TLAPS. TLC checked every invariant below
on small instances before it was proved; the theorems hold for every value of the constants that
meets the `ASSUME` of the component.

`Document_proofs` (any `Requests`, `MaxClock`):

- `TypeCorrect` for any `Reuse`.
- `LockDiscipline`: `LInv`, the inductive invariant for any `Reuse`. The lock is held exactly
  between check and commit (`LockHeld`), a save that holds it was checked against the row as
  it is (`SavesAreChecked`), and the written row is the checked copy (`PendingIsWritten`).
  `Lifecycle` (`DocstatusMovesForward`) and `Frozen` (`FrozenWhileSubmitted`) follow, since only a
  commit changes the row: nothing a caller does with its object breaks them.
- `OptimisticLock` (`NoLostUpdate`) and `Implementation` (`ImplementsStore`) assume `Reuse = {}`.
  They need in addition that equal timestamps mean equal rows, `VInv`: every copy that has the
  timestamp of the row was loaded from it. `document_reuse` shows what breaks it.

`EmailQueue_proofs` (any workers, mails, recipients, faults, resends and ages): `TypeCorrect` and

- `SentIsTrue` (`SentRowsWereDelivered`) and `SentIsComplete` (`SentMailsAreComplete`), from `Truth`:
  wherever 'Sent' is written — in rows, in a worker's snapshot, in the list it works through, in the
  document an administrator has loaded to resend — the message was accepted, and a recipient
  who is no longer to be done has it. The tables alone would not be inductive: a stale snapshot is
  written back into them.
- `NoOtherDuplicates` (`DuplicatesOnlyFromKnownWindows`), from `Once`: for a mail none of whose windows has been
  open, one worker at most is trying (`OneTries`), the row of a recipient says what was delivered but for
  the one just accepted (`RowSaysSo`), and those still to be done have got nothing (`ToDoGotNothing`).
- `OneWorkerSendsOnce` (`AtMostOnce`), from `Single`, under `Calm`: at most one worker, no abort, nothing
  unrecorded, no resend. There the snapshot is current while it is used, and everything delivered is recorded.
- `NothingIsLeftSending` (`SendingHasASender`), without aborts but for any number of workers: only the claim writes
  'Sending', and each way out of the except clauses writes another status; a step of one
  worker leaves the others at their mails (`SenderAlone`).
- `TheSummaryIsRight` (`SummaryIsRight`), for one worker without aborts, from `SummaryFollows`: while the
  linked mails are done with, the summary is right or the worker is on its way to write it, and then what it has
  counted is current (`CountedIsCurrent`). Without this last part the write would prove nothing.
- `Implementation` (`ImplementsMailing`), from `Known`, `Once` and `DoomedExist`: a step of a worker, of the
  administrator or of `clear_outbox` is one step of `Mailing`, a stutter, or a step of a mail with a window
  (`LifeStrays`). The except clauses put back or give up a mail that may be called 'Sent' by then, and `Mailing` has
  both steps from there. A mail without a window is claimed from 'queued' and handed to nobody twice by `Once`;
  `Truth` is why even an astray mail is not called sent too early.

`AfterCommit_proofs` (any `Processes`, `Kinds`, `Faults`, `MaxWrites`): `TypeCorrect` and

- `NoneForgotten` (`NoJobIsForgotten`), from `JobsInv`: a process has open writes only while it runs,
  and all their jobs are still in its list. The next-to-enqueue index makes the induction
  work: outside of the loop it is 1, so a commit starts with the whole list.
- `PublishedCommitted` and `QueuedCommitted`, from `CommittedInv`: what a process still has to announce
  for requests is its own open writes or committed ones, a process that runs something else has
  nothing to announce for requests, and an idle one has nothing at all. This is what forbids a
  later batch or job on the same worker to announce what a request had rolled back.
- `EnqueuedOnce` (`OnlyRaisedCommitsRepeat`), from `OnceInv`: no list has a job twice, no two lists share one, and a
  job that is both queued and still to be enqueued was in the list of a commit that raised (`broken`) and is not
  that of a request, since a request ends with the exception and forgets its list (`Raise`).
- `Implementation` (`ImplementsOutbox`), from all of these and `BoxInv`: a write is in one process only, in its
  open transaction or its list, and the list of a running request is that of its open transaction, because a
  request ends with its first exception and no `rollback()` leaves anything behind. So a COMMIT adds the
  jobs of just its own writes to those that wait.
- `OneOutcome` (`JobsAreInOnePlace`) is proved of `Outbox` in a few lines (`BoxKeeps`) and carried over by the
  refinement.

`NamingSeries_proofs` (any `Requests`, `MaxNumber`): `TypeCorrect` for any `Others`. With
`Others = {}`, `LockedCounter`: `CounterIsLocked` is inductive. The committed counter is not
below any document (`CounterCovers`), who has not locked the counter has changed nothing
(`UnlockedUnchanged`), who has locked it knows all the numbers (`LockedCovers`), and nobody else
creates the row while a transaction waits to (`GapHeld`). `Fresh`, `Highest` and `Gapless`
follow. The state without the lock would not be inductive: a rollback has to give back number
and counter together, which only `UnlockedUnchanged` says.

`DeskForm_proofs` (any documents, changes, links, and requests in flight): `TypeCorrect` and

- `NothingIsTakenBack` (`NoLostUpdate`), from `CoreInv`: every copy of the tab, in `locals`, in the form, in a
  request or in an answer, *follows* the row: it is not newer, and if it has the version of the row it
  contains all that the row contains. `Accepts` compares versions, so a save that is accepted
  contains the row. This is the client's half of what `OptimisticLock` proves of the server.
- `SavesAreSerial` (`OneSaveAtATime`), from `SerialInv`: `is_saving` is true exactly while a save is in flight.
- `NewIsInsertedOnce` (`InsertedOnce`), from `InsertInv`: once the document is inserted, the
  answer is on its way, or the tab has taken it and has nothing left to insert, or it was lost.

`DeskFormCopies_proofs` goes on from `CoreInv`:

- `NothingElseIsLost` (`ChangesAreKept`), from `KeptInv`. A copy may go only if what it has is in its row too. That is
  so of a copy that is not marked unsaved (`Clean`), and, but for links, of one whose document is being loaded,
  because the page is frozen then (`ReadIsClean`). The answer of a save contains what was sent, and the row
  contains the answer (`AnswerIsSaved`), and while the form holds a document of its own there is no copy beside
  it. `Fit` states when other copies may take the place of `locals`; each answer and each event makes such ones.
- `QuietIsFresh` (`QuietCopiesAreFresh`), from `CopiesAreTold`: an older copy is marked, the event of the
  version *of the row* is on its way, or it is in `missed`. An event of an older version decides nothing.

`Realtime_proofs` (any tabs, documents, moves, connections and events): `TypeCorrect`, and
`NoOtherGhosts`, `NoOtherDeafForms`, `ViewersAgree` from `RInv`: a tab that is not connected is in no room
and on no list (`Offline`), a tab with a loaded copy is in the room of its document, about to be, or `deaf`
(`FormsAreWatched`; a copy that is dropped ends the promise, and a form that is loaded again asks again), the *last*
list on its way to a viewer is the right one (`LatestIsCurrent`, of which `ViewersAreCurrent` is the case of an
empty way), and
events in the channel are numbered without gaps (`ChannelIsNumbered`). `Implementation` (`ImplementsFeed`) maps
every step to a step of `DocFeed` or a stutter; `Relay` is the one that publishes there.

`Upload_proofs` (any batches, files and plans): `TypeCorrect`, where `TypeOK` also says that an index never
passes the end of its batch, whichever batch moves it on, and that a timer always finds the upload to fall
back on. It needs `CallbackInv`: before the first upload nothing is read, written, answered or timed. The
three safety properties are from `FileInv`, whose parts are proved in this order:

- `PlannedInv`: whatever has to do with a file (task, slice, callback, argument, row, name) is of a batch that
  has got as far; with `DistinctAssumption` a file has one batch, and the next file of a batch is new to all.
- `NamingInv`: a file that waits for its name is unknown to the uploader, so `start()` never finds slices of it.
- `ProtoInv`: as long as nothing is `doubtful`, the upload in progress is in one of the stages of `Stage`, which say what
  is read, put together, written and answered, and nothing else is there. Hence an answer that ends
  an upload ends the one it is for, with the whole file on the disk (`EndsItself`).
- `OnceInv`: a file is one task, in the uploader, or in a row, late answers aside; `FilesAreAttachedOnce`.
- `OrderInv`: what a batch that nothing has `moved` has under way is its file number `next`, so the request that
  moves it on, or ends it, is the one of that file. Its row is made, or the server has answered with another; with
  `DataInv` the content it was sent with is then its own, which no row can have had before, or that of an earlier file of
  the batch (`SavedIsNotSkipped`); `NoFileIsSkipped`.
- `NamesInv`, `StoredInv`: all slices and writes have names that were given; a write that has lost its socket is
  not of the file in progress. So nothing overwrites a file on the disk whose name no other file was given.
- `DataInv`: filedata of another file got into the arguments before it, or the batch was moved.
  With `StoredInv` this is `RowsHaveTheirContent`.

`NoBatchIsForgotten` (`BatchGoesOn`) needs only the types and two facts that are inductive beside each
other: `UploadIsTimed` (`UploaderHasItsTimer`: an uploader in use has the timer, or the first slice is being read and
`keep_alive()` follows), and `BatchWaits`. A task that goes away leaves another of its batch, or its user is told, or
it got no answer (`StillWaits`); the lost connection tells the batch whose upload it drops.

Only model-checked: the liveness properties `EveryMailSettles`, `DeliverySettles`,
`UploaderIsFreed` and `Settles`, which are out of TLAPS's reach (fairness, ENABLED). Their safety cores are proved: nothing is ever stuck with
nobody to take the next step (`NothingIsLeftSending`, `NoBatchIsForgotten`), and what is reached in the end is
right (`TheSummaryIsRight`); that the step is taken is fairness. No module that is proved
about uses a RECURSIVE operator; nothing proved rests on induction over data.

## 12. Abstractions

- One document, one mail table, one series, one DocType's form at a time; components do not share variables.
- Database: InnoDB at REPEATABLE READ. Row locks are modelled where the code takes
  them; the deadlock of two row locks, which ends one transaction by an exception, is `Fail`.
- now() never returns the same microsecond twice.
- Document, EmailQueue, NamingSeries: child tables, single DocTypes, permissions, mandatory fields, links, versions;
  the texts of mails, unsubscribing and sending limits; events published without `after_commit`; naming rules
  other than a series. Hooks of applications can fail and nothing else. The models also have
  documents beside the series (`Others`) and objects used again after a failed save (`Reuse = {"failed"}`);
  no run enables these two, and the theorems say where they are excluded.
- DeskForm: a submittable DocType without workflow, a user with all permissions. Left out are the reload of an unchanged copy
  after 120 s (`form.js:420`; `sync` keeps `__last_sync_on` only in the copy it makes first), offline calls, amend,
  delete, child tables, attachments. Refusals and failed answers are one step each. Versions stand for
  `modified`, and the changes made elsewhere are the numbers of their versions. An event may arrive in any
  order; it is published together with its commit.
- Realtime: what a connected tab sends reaches node at once; what it sends while it is not connected is buffered
  and sent as a set. The throttle of one second is a free choice after the first subscription. Lists of viewers
  are FIFO for each document. Each tab is of a user of its own. The rooms of chat, tasks, users and the site, and
  events of documents nobody has opened, are left out.
- Upload: big files are two slices; all files are private, as the dialog has them, so a row made by `save_url` has no
  `content_hash` and is no duplicate of another; they go to one document, and no two have the same content; a name is free while no row has it; a retry by the
  user is another file of the same name. Left out are the prompt for privacy, image checks, web links,
  `upload-error` of the server's own exceptions, and small files that meet a file of their name on the disk.

## 13. Not modelled

- Planned, and what is hard there (paths are under `src/frappe/`):
  - Document cache: get_doc() puts a row it has read from an old snapshot, or that is not committed, into
    Redis after another request has cleared it (`__init__.py:740`); it is cleared when the row is written,
    not when it is committed (`__init__.py:703`).
  - Document locks: lock_exists() and create_lock() are two steps (`model/document.py:1246`); execute_action()
    unlocks before it runs the action (`model/document.py:1255`); neither the lock file nor the job is taken
    back by a rollback (`model/document.py:1227`).
  - Jobs and scheduler: a job that is retried after a deadlock runs without its user (`utils/background_jobs.py:117`);
    the time of the last event is committed before the events are enqueued (`utils/scheduler.py:118`).
  - Sessions and login: a request that ends puts back a session that another has deleted (`sessions.py:369`);
    the counter of failed logins is read and written in two steps (`auth.py:383`).
  - Nested sets: lft and rgt are read and moved without a lock (`utils/nestedset.py:62`), and a subtree is moved
    with the numbers the document has in memory (`utils/nestedset.py:98`).
  - Files: rows share a file by its hash, and the last row takes it away, in requests beside each other
    (`core/doctype/file/file.py:258`, `:259`, `utils/file_manager.py:137`); the file is moved before the row is
    committed (`:85`), and on_rollback() deletes by the same count (`:264`).
  - Deletion: the jobs that delete dynamic links are enqueued before the commit (`model/delete_doc.py:82`).
  - The mail queue's expiry passes over mails left in 'Sending' by a dead worker (`email/queue.py:595`).
  - Workflow, and Desk lists (section 14).
- No state over time that several actors change: permissions, queries and schema, web requests, translations and utilities.
- Rendering and layout: web site, Desk reports, Desk chat, Desk controls and pages. Most of the repository's
  JavaScript is of this kind or vendored (`public/js/lib`).
- What decides is outside of the repository: incoming email, integrations.
- One long sequence of steps that are modelled elsewhere: renaming, import and migration, notifications, search,
  installation.

## 14. Plan

In this order, each with the runs it needs taking the place of narrower ones:

1. `DocumentCache`: row, snapshots, the Redis copy; that a stale copy is gone once the last
   transaction that overlapped the write has ended. Composes with `DocumentStore` as the row.
2. `ListView`: a list that refreshes itself on list_update and on route changes, with answers in any order.
3. `FileStore`: rows, files on the disk, deletions and rollbacks; every row has its file.
4. `NestedSet`: the updates as operators over a small tree, checked against the tree of parents; then
   two requests.
5. `Sessions`: cache and table, update against delete and expiry.
6. `Jobs` and `DocumentLock`: retries of execute_job, the bookkeeping of the scheduler, lock files.
