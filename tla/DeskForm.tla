------------------------------ MODULE DeskForm ------------------------------
(***************************************************************************)
(* One browser tab of the Desk with the form of one DocType, the server    *)
(* it calls and the other people who change the same documents:            *)
(* frappe.ui.form.Controller (legacy/form.js), frappe.ui.form.save,        *)
(* frappe.model.sync, with_doc and the doc_update handler (model.js),      *)
(* frappe.request and the link control, with savedocs(), cancel() and      *)
(* getdoc() of frappe/desk/form.                                           *)
(*                                                                         *)
(* JavaScript runs one handler at a time, so each user action, answer and  *)
(* event is one step; what happens between a request and its answer is     *)
(* what this module is about.  The content of a document is the set of     *)
(* the changes in it: those made in this tab are members of Changes, those *)
(* made elsewhere are the numbers of their versions.                       *)
(***************************************************************************)
EXTENDS Integers

CONSTANTS
    Docs,       \* names of documents in the database
    New,        \* the local name of a new document, "New ToDo 1"
    Changes,    \* the changes the user makes in this tab
    Links,      \* those that can be made in a link field
    Slots,      \* bound: requests in flight at once
    MaxVersion, \* bound: the highest version of any document
    None        \* no document, no copy, no request, no click

ASSUME DeskFormAssumption ==
    /\ New \notin Docs /\ None \notin Docs \cup {New}
    /\ Changes \cap Int = {} /\ Links \subseteq Changes
    /\ MaxVersion \in Nat

Keys == Docs \cup {New}

VARIABLES
    rows,       \* the rows of the table: their changes, version and docstatus
    version,    \* the last version given to a row, its `modified`
    locals,     \* locals[doctype]: the copies of the tab by name
    shown,      \* frm.docname
    detached,   \* frm.doc, if it is no longer the copy in locals
    route,      \* frappe.get_route()[0]
    page,       \* the page that is on the screen
    clicked,    \* the button the user has clicked: a confirmation or the
                \* pause of 100 ms before _save() is pending
    is_saving,  \* frappe.ui.form.is_saving
    validating, \* inside_change_event of the link control
    requests,   \* the requests in flight
    new_names,  \* the name the new document has got, frappe.model.new_names
    opendocs,   \* frm.opendocs: the documents whose copy the form has loaded
    asking,     \* the documents whose room the tab has asked to join
    joined,     \* the documents whose room it has joined
    events,     \* the doc_update events on their way to the tab
    missed,     \* history: the documents of whose last version the tab has
                \* taken no note
    typed,      \* history: the changes the user has made
    gone,       \* history: the changes lost in a known way
    inserts,    \* history: how often the new document was inserted
    unanswered  \* history: an answer of the server was lost

server == <<rows, version, inserts>>
form == <<shown, detached, route, page>>
rooms == <<opendocs, asking, joined>>
flags == <<clicked, is_saving, validating>>
ghosts == <<typed, gone>>
vars == <<server, locals, form, flags, requests, new_names, rooms, events,
          missed, ghosts, unanswered>>

\* A row as getdoc() and savedocs() answer with it.
Loaded(row) == [val |-> row.val, modified |-> row.version, docstatus |-> row.docstatus,
                unsaved |-> FALSE, needs_refresh |-> FALSE]

\* Mutated: a new document has no docstatus.
BlankUnset == [val |-> {}, modified |-> 0, docstatus |-> None,
               unsaved |-> TRUE, needs_refresh |-> FALSE]

\* A document that get_new_doc() makes.
Blank == [val |-> {}, modified |-> 0, docstatus |-> 0,
          unsaved |-> TRUE, needs_refresh |-> FALSE]

Init ==
    /\ rows \in [Docs -> {None} \cup [val : {{}}, version : {0}, docstatus : 0..1]]
    /\ version = 0 /\ inserts = 0
    /\ locals = [k \in Keys |-> None]
    /\ shown = None /\ detached = None /\ route = "List" /\ page = "List"
    /\ clicked = None /\ is_saving = FALSE /\ validating = FALSE
    /\ requests = [s \in Slots |-> None]
    /\ new_names = None
    /\ opendocs = {} /\ asking = {} /\ joined = {}
    /\ events = {}
    /\ missed = {}
    /\ typed = {} /\ gone = {}
    /\ unanswered = FALSE

-----------------------------------------------------------------------------
(***************************************************************************)
(* The tab's parts that the handlers share.                                *)
(***************************************************************************)

\* frm.doc.
FormDoc ==
    IF detached # None THEN detached ELSE IF shown = None THEN None ELSE locals[shown]

Idle(s) == requests[s] = None

\* frappe.dom.freeze_count: the requests that freeze the page.
Frozen == \E s \in Slots : ~Idle(s) /\ requests[s].kind # "link"

Ask(kind, key, copy, action) ==
    [kind |-> kind, key |-> key, copy |-> copy, action |-> action,
     reply |-> "none", answer |-> None, name |-> None]

\* with_doc() after reload_doc() or by the route.
GetDoc(k, why) == Ask("getdoc", k, None, why)

\* doc.__needs_refresh of a form without changes makes it reload.
MustReload(doc) == doc # None /\ doc.needs_refresh /\ ~doc.unsaved

\* frm.refresh() of document k, in the tab whose copies are `copies` by then:
\* frm.doc is taken from locals and is loaded by then, or reload_doc() removes it
\* from there again, with remove_from_locals(), and asks for it in the free slot
\* s, which has been given up by then.
Refresh(k, copies, s) ==
    /\ shown' = k
    /\ IF k # None /\ k # New /\ MustReload(copies[k])
         THEN /\ locals' = [copies EXCEPT ![k] = None]
              /\ opendocs' = opendocs \ {k}
              /\ detached' = copies[k]
              /\ requests' = [requests EXCEPT ![s] = GetDoc(k, "reload")]
         ELSE /\ locals' = copies
              /\ opendocs' = opendocs \cup {d \in Docs : d = k /\ copies[d] # None}
              /\ detached' = None
              /\ requests' = [requests EXCEPT ![s] = None]

\* form-load and form-rename of a document that is not loaded: the tab asks to
\* join its room, unless it has asked for one in the same second.
Subscribe(k, copies) ==
    IF k \in Docs \ opendocs /\ copies[k] # None
      THEN asking' \in {asking, asking \cup {k}} ELSE UNCHANGED asking

\* set_value() on a document, and dirty() on the one the form shows.
SetValue(k, c, copies) ==
    IF copies[k] = None THEN copies
    ELSE [copies EXCEPT ![k].val = @ \cup {c},
                        ![k].unsaved = @ \/ (k = shown /\ detached = None)]

\* Mutated: the values in the copy stay.
SyncStamp(d, copy) ==
    [locals EXCEPT ![d] = IF locals[d] = None THEN copy
                                              ELSE [copy EXCEPT !.val = locals[d].val]]

\* sync(): add_to_locals(), or update_in_locals(), which replaces everything
\* in the copy and clears its flags.
Sync(d, copy) == [locals EXCEPT ![d] = copy]

\* Changes that are in the copy of d, and not in what replaces it.
Overwritten(d, copy) ==
    IF locals[d] = None THEN {} ELSE (locals[d].val \ copy.val) \cap Changes

\* The event of a version passes the tab by.
Miss(d, v) == missed' = IF v = rows[d].version THEN missed \cup {d} ELSE missed

-----------------------------------------------------------------------------
(***************************************************************************)
(* The user.                                                               *)
(***************************************************************************)

\* A link, the back button or a search result: FormFactory.show_doc().  It is
\* possible while the page is frozen or a confirmation is open.
OpenDoc(k, s) ==
    /\ Idle(s)
    /\ IF k = New THEN locals[New] # None /\ new_names = None ELSE rows[k] # None
    /\ route' = "Form"
    /\ IF locals[k] # None
         THEN /\ Refresh(k, locals, s)
              /\ Subscribe(k, locals)
              /\ page' = "Form"
         ELSE /\ requests' = [requests EXCEPT ![s] = GetDoc(k, "open")]
              /\ UNCHANGED <<shown, detached, page, locals, opendocs, asking>>
    /\ UNCHANGED <<server, joined, flags, new_names, events, missed, ghosts, unanswered>>

\* get_new_doc(), and the route to it.
NewDoc(s) ==
    /\ Idle(s) /\ ~Frozen /\ clicked = None
    /\ locals[New] = None /\ new_names = None /\ \E d \in Docs : rows[d] = None
    /\ LET copies == [locals EXCEPT ![New] = Blank] IN Refresh(New, copies, s)
    /\ route' = "Form" /\ page' = "Form"
    /\ UNCHANGED <<server, asking, joined, flags, new_names, events, missed, ghosts, unanswered>>

\* Back to the list, also while the page is frozen: change_to() closes the
\* confirmation.
OpenList ==
    /\ route = "Form" \/ page = "Form"
    /\ route' = "List" /\ page' = "List"
    /\ clicked' = IF clicked # None /\ clicked.stage = "confirm" THEN None ELSE clicked
    /\ UNCHANGED <<server, locals, shown, detached, rooms, is_saving, validating,
                   requests, new_names, events, missed, ghosts, unanswered>>

\* The user can type in the form.
Editable ==
    /\ page = "Form" /\ ~Frozen
    /\ clicked # None => clicked.stage = "pause"
    /\ FormDoc # None /\ FormDoc.docstatus # 2

\* A change of an ordinary field: set_model_value().  Without a copy in locals
\* it is not kept anywhere.
Type(c) ==
    /\ Editable /\ c \in Changes \ typed
    /\ typed' = typed \cup {c}
    /\ locals' = SetValue(shown, c, locals)
    /\ gone' = IF locals[shown] = None THEN gone \cup {c} ELSE gone
    /\ UNCHANGED <<server, form, rooms, flags, requests, new_names, events, missed,
                   unanswered>>

\* A choice in a link field: validate_link_and_fetch() asks the server first.
\* While an answer is outstanding the control drops every other change.
Choose(c, s) ==
    /\ Editable /\ c \in Links \ typed
    /\ typed' = typed \cup {c}
    /\ IF validating
         THEN gone' = gone \cup {c} /\ UNCHANGED <<validating, requests>>
         ELSE /\ Idle(s)
              /\ validating' = TRUE
              /\ requests' = [requests EXCEPT ![s] = Ask("link", shown, None, c)]
              /\ UNCHANGED gone
    /\ UNCHANGED <<server, locals, form, rooms, clicked, is_saving, new_names, events,
                   missed, unanswered>>

\* Toolbar.get_action_status().
ActionStatus(doc) ==
    CASE doc.docstatus = 0 /\ (shown = New \/ doc.unsaved) -> {"Save"}
      [] doc.docstatus = 0 /\ shown # New /\ ~doc.unsaved -> {"Submit"}
      [] doc.docstatus = 1 /\ doc.unsaved -> {"Update"}
      [] doc.docstatus = 1 /\ ~doc.unsaved -> {"Cancel"}
      [] doc.docstatus = 2 -> {}

Click(a) ==
    /\ page = "Form" /\ clicked = None /\ FormDoc # None
    /\ a \in ActionStatus(FormDoc)
    /\ a = "Cancel" => ~Frozen
    /\ clicked' = [action |-> a, doc |-> shown,
                   stage |-> IF a \in {"Submit", "Cancel"} THEN "confirm" ELSE "pause"]
    /\ UNCHANGED <<server, locals, form, rooms, is_saving, validating, requests, new_names,
                   events, missed, ghosts, unanswered>>

\* "Permanently Submit {0}?": yes, ...
ConfirmSubmit ==
    /\ clicked # None /\ clicked.stage = "confirm" /\ clicked.action = "Submit"
    /\ clicked' = [clicked EXCEPT !.stage = "pause"]
    /\ UNCHANGED <<server, locals, form, rooms, is_saving, validating, requests, new_names,
                   events, missed, ghosts, unanswered>>

\* ... or no.  A validation in the form also ends the action here.
GiveUp ==
    /\ clicked # None
    /\ clicked' = None
    /\ UNCHANGED <<server, locals, form, rooms, is_saving, validating, requests, new_names,
                   events, missed, ghosts, unanswered>>

\* cancel() is called with the name alone.
Args(kind) == IF kind = "cancel" THEN None ELSE FormDoc

\* Mutated: a save in flight does not stop the next one.
SendAgain(kind, s) ==
    /\ FormDoc # None /\ Idle(s)
    /\ is_saving' = TRUE
    /\ requests' = [requests EXCEPT ![s] = Ask(kind, shown, Args(kind), clicked.action)]
    /\ clicked' = None
    /\ UNCHANGED <<server, locals, form, rooms, validating, new_names, events, missed,
                   typed, gone, unanswered>>

\* frappe.ui.form.save() sends the form's document as it is by then, unless
\* another save is in flight.
Send(kind, s) ==
    /\ FormDoc # None
    /\ IF is_saving THEN UNCHANGED <<requests, is_saving>>
       ELSE /\ Idle(s)
            /\ is_saving' = TRUE
            /\ requests' = [requests EXCEPT ![s] = Ask(kind, shown, Args(kind), clicked.action)]
    /\ clicked' = None
    /\ UNCHANGED <<server, locals, form, rooms, validating, new_names, events, missed,
                   typed, gone, unanswered>>

\* After the pause of 100 ms.
Save(s) ==
    /\ clicked # None /\ clicked.stage = "pause"
    /\ Send("savedocs", s)

\* "Permanently Cancel {0}?": yes.
Cancel(s) ==
    /\ clicked # None /\ clicked.stage = "confirm" /\ clicked.action = "Cancel"
    /\ Send("cancel", s)

\* Reload in the menu, or "Refresh" in the headline of a form that
\* show_if_needs_refresh() has found changed: the user gives up the changes.
UserReload(s) ==
    /\ Idle(s) /\ page = "Form" /\ ~Frozen /\ clicked = None
    /\ FormDoc # None /\ shown # New
    /\ gone' = gone \cup ((FormDoc.val \cap Changes) \ rows[shown].val)
    /\ detached' = FormDoc
    /\ locals' = [locals EXCEPT ![shown] = None] /\ opendocs' = opendocs \ {shown}
    /\ requests' = [requests EXCEPT ![s] = GetDoc(shown, "reload")]
    /\ UNCHANGED <<server, shown, route, page, asking, joined, flags, new_names, events,
                   missed, typed, unanswered>>

-----------------------------------------------------------------------------
(***************************************************************************)
(* The server.  Each request is one transaction.                           *)
(***************************************************************************)

\* notify_update(): the event reaches the tab if it is in the room.
Publish(d, v) ==
    IF d \in joined
      THEN events' = events \cup {[doc |-> d, modified |-> v]} /\ missed' = missed \ {d}
      ELSE UNCHANGED events /\ missed' = missed \cup {d}

Reply(s, reply, answer, name) ==
    requests' = [requests EXCEPT ![s].reply = reply, ![s].answer = answer, ![s].name = name]

Write(d, val, docstatus) ==
    /\ version < MaxVersion
    /\ version' = version + 1
    /\ rows' = [rows EXCEPT ![d] = [val |-> val, version |-> version + 1,
                                    docstatus |-> docstatus]]

\* getdoc().
ServeGetDoc(s) ==
    LET d == requests[s].key IN
    /\ ~Idle(s) /\ requests[s].kind = "getdoc" /\ requests[s].reply = "none"
    /\ Reply(s, "ok", Loaded(rows[d]), d)
    /\ UNCHANGED <<server, locals, form, rooms, flags, new_names, events, missed, ghosts,
                   unanswered>>

\* The docstatus that an action gives to a row, if it may.
Docstatus(action) == IF action = "Save" THEN 0 ELSE 1

\* check_if_latest() and check_docstatus_transition().
Accepts(row, copy, docstatus) ==
    /\ row.version = copy.modified
    /\ row.docstatus < 2 /\ row.docstatus <= docstatus

\* savedocs() of a document that is in the database ...
ServeSave(s) ==
    LET r == requests[s] IN
    /\ ~Idle(s) /\ r.kind = "savedocs" /\ r.reply = "none" /\ r.key # New
    /\ Accepts(rows[r.key], r.copy, Docstatus(r.action))
    /\ Write(r.key, r.copy.val, Docstatus(r.action))
    /\ Publish(r.key, version + 1)
    /\ Reply(s, "ok", Loaded(rows'[r.key]), r.key)
    /\ UNCHANGED <<inserts, locals, form, rooms, flags, new_names, ghosts, unanswered>>

\* ... and of a new one: set_local_name(), and the name the server gives.
ServeInsert(s, d) ==
    LET r == requests[s] IN
    /\ ~Idle(s) /\ r.kind = "savedocs" /\ r.reply = "none" /\ r.key = New
    /\ rows[d] = None
    /\ Write(d, r.copy.val, Docstatus(r.action))
    /\ Publish(d, version + 1)
    /\ inserts' = inserts + 1
    /\ Reply(s, "ok", Loaded(rows'[d]), d)
    /\ UNCHANGED <<locals, form, rooms, flags, new_names, ghosts, unanswered>>

\* cancel() has the document only by its name.
ServeCancel(s) ==
    LET r == requests[s] IN
    /\ ~Idle(s) /\ r.kind = "cancel" /\ r.reply = "none" /\ r.key # New
    /\ rows[r.key].docstatus = 1
    /\ Write(r.key, rows[r.key].val, 2)
    /\ Publish(r.key, version + 1)
    /\ Reply(s, "ok", Loaded(rows'[r.key]), r.key)
    /\ UNCHANGED <<inserts, locals, form, rooms, flags, new_names, ghosts, unanswered>>

\* validate_link().
ServeLink(s) ==
    /\ ~Idle(s) /\ requests[s].kind = "link" /\ requests[s].reply = "none"
    /\ Reply(s, "ok", None, None)
    /\ UNCHANGED <<server, locals, form, rooms, flags, new_names, events, missed, ghosts,
                   unanswered>>

\* Another user, or a job, saves, submits or cancels a document.
Elsewhere(d) ==
    /\ rows[d] # None /\ rows[d].docstatus < 2
    /\ \E docstatus \in {rows[d].docstatus, rows[d].docstatus + 1} :
            Write(d, IF docstatus = 2 THEN rows[d].val ELSE rows[d].val \cup {version + 1},
                  docstatus)
    /\ Publish(d, version + 1)
    /\ UNCHANGED <<inserts, locals, form, rooms, flags, requests, new_names, ghosts,
                   unanswered>>

-----------------------------------------------------------------------------
(***************************************************************************)
(* What comes back.                                                        *)
(***************************************************************************)
Answered(s, kind, reply) ==
    ~Idle(s) /\ requests[s].kind = kind /\ requests[s].reply = reply

\* An answer that comes after the event of a later version.
Late(d, copy) ==
    IF copy.modified < rows[d].version /\ [doc |-> d, modified |-> rows[d].version] \notin events
      THEN Miss(d, rows[d].version)
      ELSE UNCHANGED missed

\* getdoc(): sync(), and refresh() of the document that was asked for, or of
\* the one that is shown by now if reload_doc() asked.
GotDoc(s) ==
    LET r == requests[s]
        copies == Sync(r.key, r.answer)
        k == IF r.action = "open" THEN r.key ELSE shown
    IN
    /\ Answered(s, "getdoc", "ok")
    /\ Refresh(k, copies, s)
    /\ Subscribe(k, copies)
    /\ page' = IF r.action = "open" THEN "Form" ELSE page
    /\ gone' = gone \cup (Overwritten(r.key, r.answer) \cap Links)
    /\ Late(r.key, r.answer)
    /\ UNCHANGED <<server, route, joined, flags, new_names, events, typed, unanswered>>

\* It fails: there is no callback.
GotNoDoc(s) ==
    /\ ~Idle(s) /\ requests[s].kind = "getdoc"
    /\ requests' = [requests EXCEPT ![s] = None]
    /\ UNCHANGED <<server, locals, form, rooms, flags, new_names, events, missed, ghosts,
                   unanswered>>

\* savedocs() or cancel() of a document with a name: sync(), after_save() and
\* always().  Every change that was not sent with it is overwritten.
Saved(s) ==
    LET r == requests[s]
        copies == Sync(r.name, r.answer)
        sent == IF r.copy = None THEN {} ELSE r.copy.val
    IN
    /\ Answered(s, "savedocs", "ok") \/ Answered(s, "cancel", "ok")
    /\ r.key # New
    /\ Refresh(shown, copies, s)
    /\ Subscribe(shown, copies)
    /\ is_saving' = FALSE
    /\ gone' = gone \cup (Overwritten(r.name, r.answer) \ sent)
    /\ Late(r.name, r.answer)
    /\ UNCHANGED <<server, route, page, joined, clicked, validating, new_names, events,
                   typed, unanswered>>

\* Mutated: the local copy stays.
InsertedKeeps(s) ==
    LET r == requests[s]
        copies == Sync(r.name, r.answer)
        k == IF shown = New THEN r.name ELSE shown
    IN
    /\ Answered(s, "savedocs", "ok") /\ r.key = New
    /\ Refresh(k, copies, s)
    /\ Subscribe(k, copies)
    /\ new_names' = r.name
    /\ is_saving' = FALSE
    /\ IF shown = New THEN route' = "Form" /\ page' = "Form" ELSE UNCHANGED <<route, page>>
    /\ gone' = gone \cup ((Overwritten(New, r.answer) \cup Overwritten(r.name, r.answer))
                            \ r.copy.val)
    /\ Late(r.name, r.answer)
    /\ UNCHANGED <<server, joined, clicked, validating, events, typed, unanswered>>

\* ... of a new document: rename_notify() takes the form, if it still shows
\* the document, to the new name, and the local copy goes.
Inserted(s) ==
    LET r == requests[s]
        copies == [Sync(r.name, r.answer) EXCEPT ![New] = None]
        k == IF shown = New THEN r.name ELSE shown
    IN
    /\ Answered(s, "savedocs", "ok") /\ r.key = New
    /\ Refresh(k, copies, s)
    /\ Subscribe(k, copies)
    /\ new_names' = r.name
    /\ is_saving' = FALSE
    /\ IF shown = New THEN route' = "Form" /\ page' = "Form" ELSE UNCHANGED <<route, page>>
    /\ gone' = gone \cup ((Overwritten(New, r.answer) \cup Overwritten(r.name, r.answer))
                            \ r.copy.val)
    /\ Late(r.name, r.answer)
    /\ UNCHANGED <<server, joined, clicked, validating, events, typed, unanswered>>

\* The server refuses, or the answer of a cancel() is lost: always() alone,
\* or after_save() with an exception.
NotSaved(s) ==
    /\ ~Idle(s) /\ requests[s].kind \in {"savedocs", "cancel"}
    /\ requests[s].reply = "none" \/ requests[s].kind = "cancel"
    /\ requests' = [requests EXCEPT ![s] = None]
    /\ is_saving' = FALSE
    /\ UNCHANGED <<server, locals, form, rooms, clicked, validating, new_names, events,
                   missed, ghosts, unanswered>>

\* The connection breaks, before or after savedocs() has done its work: there
\* is no exception, and after_save() takes it for a success.
SavedOrNot(s) ==
    /\ ~Idle(s) /\ requests[s].kind = "savedocs"
    /\ Refresh(shown, locals, s)
    /\ Subscribe(shown, locals)
    /\ is_saving' = FALSE
    /\ unanswered' = TRUE
    /\ UNCHANGED <<server, route, page, joined, clicked, validating, new_names, events,
                   missed, ghosts>>

\* validate_link(): set_fetch_values() in the document of the request, and
\* set_model_value() in the one the control has by now.
LinkIsValid(s) ==
    LET r == requests[s]
        fetched == SetValue(r.key, r.action, locals)
    IN
    /\ Answered(s, "link", "ok")
    /\ locals' = IF shown = None THEN fetched ELSE SetValue(shown, r.action, fetched)
    /\ gone' = IF shown # r.key \/ locals[shown] = None THEN gone \cup {r.action} ELSE gone
    /\ validating' = FALSE
    /\ requests' = [requests EXCEPT ![s] = None]
    /\ UNCHANGED <<server, form, rooms, clicked, is_saving, new_names, events, missed, typed,
                   unanswered>>

\* It fails: the promise is never resolved and the control stays as it is.
LinkIsLost(s) ==
    /\ ~Idle(s) /\ requests[s].kind = "link"
    /\ gone' = gone \cup {requests[s].action}
    /\ requests' = [requests EXCEPT ![s] = None]
    /\ UNCHANGED <<server, locals, form, rooms, flags, new_names, events, missed, typed,
                   unanswered>>

\* can_subscribe_doc() allows it and the socket joins the room.  What was
\* published since the document was read has passed by.
Join(d) ==
    /\ d \in asking
    /\ asking' = asking \ {d} /\ joined' = joined \cup {d}
    /\ UNCHANGED <<server, locals, form, opendocs, flags, requests, new_names, events,
                   missed, ghosts, unanswered>>

\* The socket is disconnected and comes back: it is in none of the rooms.
Disconnect ==
    /\ joined # {} \/ asking # {}
    /\ joined' = {} /\ asking' = {} /\ events' = {}
    /\ missed' = missed \cup {e.doc : e \in events}
    /\ UNCHANGED <<server, locals, form, opendocs, flags, requests, new_names, ghosts,
                   unanswered>>

\* The handler of doc_update takes the event of version v of d.  Requests that
\* commit one after the other publish in any order.
Event(d, v) == [doc |-> d, modified |-> v] \in events

\* cur_frm shows the copy of d.
OnScreen(d) == route = "Form" /\ shown = d

\* There is no copy, or the form has this version already.
IgnoreEvent(d, v) ==
    /\ Event(d, v)
    /\ \/ locals[d] = None
       \/ locals[d] # None /\ OnScreen(d) /\ ~is_saving /\ FormDoc.modified = v
    /\ UNCHANGED <<locals, opendocs, shown, detached, requests, missed>>

\* While the form saves, an event of its document is taken for its own.
MissEvent(d, v) ==
    /\ Event(d, v) /\ locals[d] # None /\ OnScreen(d) /\ is_saving
    /\ Miss(d, v)
    /\ UNCHANGED <<locals, opendocs, shown, detached, requests>>

\* Mutated: a form with changes is not told.
ShowIfClean(d, v, s) ==
    /\ Event(d, v) /\ locals[d] # None /\ OnScreen(d) /\ ~is_saving /\ FormDoc.modified # v
    /\ Idle(s)
    /\ IF locals[d].unsaved THEN UNCHANGED <<locals, opendocs, shown, detached, requests>>
       ELSE LET marked == [locals EXCEPT ![d].needs_refresh = TRUE] IN Refresh(d, marked, s)
    /\ UNCHANGED missed

\* show_if_needs_refresh(): the form is loaded again, or its user is told.
ShowEvent(d, v, s) ==
    /\ Event(d, v) /\ locals[d] # None /\ OnScreen(d) /\ ~is_saving /\ FormDoc.modified # v
    /\ Idle(s)
    /\ LET marked == [locals EXCEPT ![d].needs_refresh = TRUE] IN Refresh(d, marked, s)
    /\ UNCHANGED missed

\* A copy with changes that is not on the screen is marked.
MarkCopy(d, v) ==
    /\ Event(d, v) /\ locals[d] # None /\ ~OnScreen(d) /\ locals[d].unsaved
    /\ locals' = [locals EXCEPT ![d].needs_refresh = TRUE]
    /\ UNCHANGED <<opendocs, shown, detached, requests, missed>>

\* Mutated: it is dropped with its changes.
DropAnyCopy(d, v) ==
    /\ Event(d, v) /\ locals[d] # None /\ ~OnScreen(d)
    /\ locals' = [locals EXCEPT ![d] = None] /\ opendocs' = opendocs \ {d}
    /\ detached' = IF shown = d THEN FormDoc ELSE detached
    /\ UNCHANGED <<shown, requests, missed>>

\* Another one is dropped, remove_from_locals(), even if the form still holds it.
DropCopy(d, v) ==
    /\ Event(d, v) /\ locals[d] # None /\ ~OnScreen(d) /\ ~locals[d].unsaved
    /\ locals' = [locals EXCEPT ![d] = None] /\ opendocs' = opendocs \ {d}
    /\ detached' = IF shown = d THEN FormDoc ELSE detached
    /\ UNCHANGED <<shown, requests, missed>>

DocUpdate(d, v) ==
    /\ \/ IgnoreEvent(d, v) \/ MissEvent(d, v) \/ MarkCopy(d, v) \/ DropCopy(d, v)
       \/ \E s \in Slots : ShowEvent(d, v, s)
    /\ events' = events \ {[doc |-> d, modified |-> v]}
    /\ UNCHANGED <<server, route, page, asking, joined, flags, new_names, typed, gone,
                   unanswered>>

-----------------------------------------------------------------------------
User ==
    \/ \E s \in Slots : \E k \in Keys : OpenDoc(k, s)
    \/ \E s \in Slots : NewDoc(s) \/ Save(s) \/ Cancel(s) \/ UserReload(s)
    \/ \E c \in Changes : Type(c) \/ \E s \in Slots : Choose(c, s)
    \/ \E a \in {"Save", "Submit", "Update", "Cancel"} : Click(a)
    \/ OpenList \/ ConfirmSubmit \/ GiveUp

Server ==
    \/ \E s \in Slots : \/ ServeGetDoc(s) \/ ServeSave(s) \/ ServeCancel(s) \/ ServeLink(s)
                        \/ \E d \in Docs : ServeInsert(s, d)
    \/ \E d \in Docs : Elsewhere(d)

Answer(s) ==
    \/ GotDoc(s) \/ GotNoDoc(s) \/ Saved(s) \/ Inserted(s) \/ NotSaved(s) \/ SavedOrNot(s)
    \/ LinkIsValid(s) \/ LinkIsLost(s)

Realtime ==
    \/ \E d \in Docs, v \in 1..version : DocUpdate(d, v)
    \/ \E d \in Docs : Join(d)
    \/ Disconnect

Next == User \/ Server \/ (\E s \in Slots : Answer(s)) \/ Realtime

Spec == Init /\ [][Next]_vars

-----------------------------------------------------------------------------
(***************************************************************************)
(* Properties.                                                             *)
(***************************************************************************)
Values == SUBSET (Changes \cup Nat)

Row == [val : Values, version : Nat, docstatus : 0..2]

Copy == [val : Values, modified : Nat, docstatus : 0..2, unsaved : BOOLEAN,
         needs_refresh : BOOLEAN]

Actions == {"Save", "Submit", "Update", "Cancel"}

Requests == [kind : {"getdoc", "savedocs", "cancel", "link"}, key : Keys,
             copy : Copy \cup {None}, action : Actions \cup {"open", "reload"} \cup Changes,
             reply : {"none", "ok"}, answer : Copy \cup {None},
             name : Docs \cup {None}]

ASSUME NoneAssumption == None \notin Row /\ None \notin Copy /\ None \notin Requests

TypeOK ==
    /\ rows \in [Docs -> Row \cup {None}]
    /\ version \in Nat /\ inserts \in Nat
    /\ locals \in [Keys -> Copy \cup {None}]
    /\ shown \in Keys \cup {None} /\ detached \in Copy \cup {None}
    /\ route \in {"Form", "List"} /\ page \in {"Form", "List"}
    /\ clicked \in [action : Actions, doc : Keys, stage : {"confirm", "pause"}] \cup {None}
    /\ is_saving \in BOOLEAN /\ validating \in BOOLEAN
    /\ requests \in [Slots -> Requests \cup {None}]
    /\ new_names \in Docs \cup {None}
    /\ opendocs \subseteq Docs /\ asking \subseteq Docs /\ joined \subseteq Docs
    /\ events \subseteq [doc : Docs, modified : Nat]
    /\ missed \subseteq Docs
    /\ typed \subseteq Changes /\ gone \subseteq Changes
    /\ unanswered \in BOOLEAN

\* What anybody has saved stays saved: no save of the tab, however old the copy
\* of the form is and whatever has been synced into it, takes it back.
NoLostUpdate ==
    [][\A d \in Docs : rows[d] # None =>
            rows'[d] # None /\ rows[d].val \subseteq rows'[d].val]_vars

\* At most one save is in flight, and is_saving tells so: saves are neither
\* sent twice nor blocked for ever.
OneSaveAtATime ==
    LET saves == {s \in Slots : ~Idle(s) /\ requests[s].kind \in {"savedocs", "cancel"}}
    IN /\ is_saving <=> saves # {}
       /\ \A s, t \in saves : s = t

\* A change that the user has made is in a copy of the tab, on its way or in
\* the database, unless it is lost in one of the ways that `gone` lists: given
\* up by Reload, typed into a form whose copy has left locals, not yet made when
\* the save was sent whose answer overwrites it, or a link that is validated too
\* late or never.
ChangesAreKept ==
    \A c \in typed \ gone :
        \/ \E k \in Keys : locals[k] # None /\ c \in locals[k].val
        \/ \E d \in Docs : rows[d] # None /\ c \in rows[d].val
        \/ \E s \in Slots : Answered(s, "link", "none") /\ requests[s].action = c
        \/ \E s \in Slots : Answered(s, "link", "ok") /\ requests[s].action = c

\* Once the answers and events are in, a copy is as new as its row or marked,
\* unless the tab has missed the event of that version: it was not in the room,
\* which it asks to join each time it loads the document, it was saving, or an
\* older answer was still on its way.
QuietCopiesAreFresh ==
    (events = {} /\ \A s \in Slots : Idle(s)) =>
        \A d \in Docs : locals[d] # None =>
            \/ locals[d].modified = rows[d].version
            \/ locals[d].needs_refresh
            \/ d \in missed

\* A new document is inserted once, however often the user clicks, as long as
\* no answer is lost: once the row is there, no other insert is on its way, and
\* once the tab knows the name, nothing is left to be inserted.
InsertedOnce ==
    /\ (inserts > 0 /\ ~unanswered) =>
            \A s \in Slots : Answered(s, "savedocs", "none") => requests[s].key # New
    /\ new_names # None => locals[New] = None /\ shown # New

\* "Permanently Submit {0}?": the document that is submitted is the one that the
\* user has been asked about, whatever the form shows when the save is sent.
ConfirmedIsSent ==
    [][\A s \in Slots :
            (Idle(s) /\ requests'[s] # None /\ requests'[s].kind = "savedocs"
                /\ requests'[s].action = "Submit")
                => requests'[s].key = clicked.doc]_vars

=============================================================================
