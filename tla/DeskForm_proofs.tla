--------------------------- MODULE DeskForm_proofs --------------------------
(***************************************************************************)
(* What holds of DeskForm for every set of documents, changes and requests *)
(* and every number of versions: no save of the tab takes back what        *)
(* somebody has saved, one save is in flight at a time, and a new document *)
(* is inserted once.                                                       *)
(***************************************************************************)
EXTENDS DeskForm, TLAPS

-----------------------------------------------------------------------------
(***************************************************************************)
(* The inductive invariant.                                                *)
(***************************************************************************)

\* A copy of a row is as it was at some time, with changes of the tab's: if the
\* row has the same version still, everything in it is in the copy.
Follows(copy, row) ==
    copy # None =>
        /\ row # None
        /\ copy.modified <= row.version
        /\ copy.modified = row.version => row.val \subseteq copy.val

\* The copies of the tab, when the rows are those of the table.
CopiesOK(copies, table) ==
    /\ copies \in [Keys -> Copy \cup {None}]
    /\ \A d \in Docs : Follows(copies[d], table[d])

\* The document that the form holds when it is no longer in locals.
FormOK(k, doc, table) ==
    /\ k \in Keys \cup {None} /\ doc \in Copy \cup {None}
    /\ doc # None => k \in Docs /\ Follows(doc, table[k])

\* A request: what it asks for is there, and what it carries are copies.
RequestOK(r, table) ==
    r # None =>
        /\ r \in Requests
        /\ r.kind \in {"getdoc", "savedocs", "cancel"} =>
             /\ r.key \in Docs => table[r.key] # None
             /\ r.reply = "ok" => /\ r.answer # None /\ r.name \in Docs
                                  /\ Follows(r.answer, table[r.name])
        /\ r.kind = "getdoc" => r.key \in Docs /\ (r.reply = "ok" => r.name = r.key)
        /\ r.kind = "savedocs" => /\ r.copy # None /\ r.action \in Actions
                                  /\ r.key \in Docs => Follows(r.copy, table[r.key])
        /\ r.kind = "link" => r.action \in Changes

CoreInv ==
    /\ rows \in [Docs -> Row \cup {None}] /\ version \in Nat
    /\ \A d \in Docs : rows[d] # None => rows[d].version <= version
    /\ CopiesOK(locals, rows)
    /\ FormOK(shown, detached, rows)
    /\ requests \in [Slots -> Requests \cup {None}]
    /\ \A s \in Slots : RequestOK(requests[s], rows)

-----------------------------------------------------------------------------
(***************************************************************************)
(* What the shared parts of the handlers keep.                             *)
(***************************************************************************)
LEMMA SomeKeys == Docs \subseteq Keys /\ New \in Keys /\ New \notin Docs
                  /\ None \notin Keys
  BY DeskFormAssumption DEF Keys

LEMMA GetDocOK ==
    ASSUME NEW k \in Docs, NEW table, table[k] # None, NEW why \in {"open", "reload"}
    PROVE  GetDoc(k, why) \in Requests /\ RequestOK(GetDoc(k, why), table)
  BY SomeKeys DEF GetDoc, Ask, Requests, RequestOK

\* What the form holds is a copy of the document it shows.
LEMMA FormDocOK ==
    ASSUME CoreInv, FormDoc # None
    PROVE  /\ FormDoc \in Copy /\ shown \in Keys
           /\ shown \in Docs => Follows(FormDoc, rows[shown]) /\ rows[shown] # None
<1>1. shown \in Keys \cup {None} /\ detached \in Copy \cup {None}
      /\ (detached # None => shown \in Docs /\ Follows(detached, rows[shown]))
  BY DEF CoreInv, FormOK
<1>2. locals \in [Keys -> Copy \cup {None}] /\ \A d \in Docs : Follows(locals[d], rows[d])
  BY DEF CoreInv, CopiesOK
<1>3. CASE detached # None
  BY <1>1, <1>3, SomeKeys DEF FormDoc, Follows
<1>4. CASE detached = None
  BY <1>1, <1>2, <1>4, SomeKeys DEF FormDoc, Follows
<1>5. QED
  BY <1>3, <1>4

\* set_value() only adds to a copy.
LEMMA SetValueOK ==
    ASSUME NEW copies, NEW table, CopiesOK(copies, table), NEW k \in Keys,
           NEW c \in Changes, shown \in Keys \cup {None}, detached \in Copy \cup {None}
    PROVE  CopiesOK(SetValue(k, c, copies), table)
<1>1. CASE copies[k] = None
  BY <1>1 DEF SetValue
<1>2. CASE copies[k] # None
  <2> DEFINE more == [copies[k] EXCEPT !.val = @ \cup {c},
                                       !.unsaved = @ \/ (k = shown /\ detached = None)]
  <2>1. copies \in [Keys -> Copy \cup {None}] /\ copies[k] \in Copy
    BY <1>2 DEF CopiesOK
  <2>2. SetValue(k, c, copies) = [copies EXCEPT ![k] = more]
    BY <1>2, <2>1 DEF SetValue, Copy
  <2>3. more \in Copy /\ more.modified = copies[k].modified /\ copies[k].val \subseteq more.val
    BY <2>1 DEF Copy, Values
  <2>4. k \in Docs => Follows(more, table[k])
    BY <1>2, <2>3 DEF CopiesOK, Follows
  <2>5. QED
    BY <2>1, <2>2, <2>3, <2>4, SomeKeys DEF CopiesOK
<1>3. QED
  BY <1>1, <1>2

\* sync() of a copy that is one.
LEMMA SyncOK ==
    ASSUME CoreInv, NEW d \in Docs, NEW copy \in Copy, Follows(copy, rows[d])
    PROVE  CopiesOK(Sync(d, copy), rows)
  BY SomeKeys DEF CoreInv, CopiesOK, Sync

\* refresh() leaves a copy in locals or takes it out and asks for it again.
LEMMA RefreshCore ==
    ASSUME CoreInv, NEW k \in Keys \cup {None}, NEW copies, CopiesOK(copies, rows),
           NEW s \in Slots, Refresh(k, copies, s), UNCHANGED <<rows, version>>
    PROVE  CoreInv'
<1>1. copies \in [Keys -> Copy \cup {None}] /\ \A d \in Docs : Follows(copies[d], rows[d])
  BY DEF CopiesOK
<1>2. requests \in [Slots -> Requests \cup {None}]
      /\ \A u \in Slots : RequestOK(requests[u], rows)
  BY DEF CoreInv
<1>3. rows' \in [Docs -> Row \cup {None}] /\ version' \in Nat
      /\ \A d \in Docs : rows'[d] # None => rows'[d].version <= version'
  BY DEF CoreInv
<1>4. CASE k # None /\ k # New /\ MustReload(copies[k])
  <2>1. /\ locals' = [copies EXCEPT ![k] = None] /\ detached' = copies[k] /\ shown' = k
        /\ requests' = [requests EXCEPT ![s] = GetDoc(k, "reload")]
    BY <1>4 DEF Refresh
  <2>2. k \in Docs /\ copies[k] \in Copy
    BY <1>1, <1>4 DEF Keys, MustReload
  <2>3. rows[k] # None
    BY <1>1, <1>4, <2>2 DEF Follows, MustReload
  <2>4. CopiesOK(locals', rows')
    BY <1>1, <2>1, <2>2, SomeKeys DEF CopiesOK, Follows
  <2>5. FormOK(shown', detached', rows')
    BY <1>1, <2>1, <2>2, SomeKeys DEF FormOK
  <2>6. /\ requests' \in [Slots -> Requests \cup {None}]
        /\ \A u \in Slots : RequestOK(requests'[u], rows')
    BY <1>2, <2>1, <2>2, <2>3, GetDocOK
  <2>7. QED
    BY <1>3, <2>4, <2>5, <2>6 DEF CoreInv
<1>5. CASE ~(k # None /\ k # New /\ MustReload(copies[k]))
  <2>1. /\ locals' = copies /\ detached' = None /\ shown' = k
        /\ requests' = [requests EXCEPT ![s] = None]
    BY <1>5 DEF Refresh
  <2>2. CopiesOK(locals', rows') /\ FormOK(shown', detached', rows')
    BY <2>1 DEF FormOK
  <2>3. /\ requests' \in [Slots -> Requests \cup {None}]
        /\ \A u \in Slots : RequestOK(requests'[u], rows')
    BY <1>2, <2>1 DEF RequestOK
  <2>4. QED
    BY <1>3, <2>2, <2>3 DEF CoreInv
<1>6. QED
  BY <1>4, <1>5

\* A request is made or given up.
LEMMA AskCore ==
    ASSUME CoreInv, NEW s \in Slots, NEW r \in Requests \cup {None}, RequestOK(r, rows),
           requests' = [requests EXCEPT ![s] = r],
           UNCHANGED <<rows, version, locals, shown, detached>>
    PROVE  CoreInv'
<1>1. /\ requests' \in [Slots -> Requests \cup {None}]
      /\ \A u \in Slots : RequestOK(requests'[u], rows)
  BY DEF CoreInv
<1>2. QED
  BY <1>1 DEF CoreInv

\* A row that is written has a version of its own, so no copy is of that version.
LEMMA WriteCore ==
    ASSUME CoreInv, NEW d \in Docs, NEW val \in Values, NEW docstatus \in 0..2,
           Write(d, val, docstatus)
    PROVE  /\ rows' \in [Docs -> Row \cup {None}] /\ version' \in Nat
           /\ \A e \in Docs : rows'[e] # None => rows'[e].version <= version'
           /\ rows'[d] # None /\ rows'[d].val = val
           /\ Loaded(rows'[d]) \in Copy /\ Follows(Loaded(rows'[d]), rows'[d])
           /\ \A e \in Docs \ {d} : rows'[e] = rows[e]
           /\ \A r \in Requests \cup {None} : RequestOK(r, rows) => RequestOK(r, rows')
           /\ CopiesOK(locals, rows') /\ FormOK(shown, detached, rows')
<1> DEFINE row == [val |-> val, version |-> version + 1, docstatus |-> docstatus]
<1>1. rows \in [Docs -> Row \cup {None}] /\ version \in Nat
      /\ \A e \in Docs : rows[e] # None => rows[e].version <= version
  BY DEF CoreInv
<1>2. rows' = [rows EXCEPT ![d] = row] /\ version' = version + 1
  BY DEF Write
<1>3. row \in Row /\ row # None
  <2>1. row \in Row
    BY <1>1 DEF Row
  <2>2. QED
    BY <2>1, NoneAssumption
<1>4. /\ rows' \in [Docs -> Row \cup {None}] /\ version' \in Nat
      /\ rows'[d] = row /\ \A e \in Docs \ {d} : rows'[e] = rows[e]
  BY <1>1, <1>2, <1>3
<1>5. ASSUME NEW e \in Docs, rows'[e] # None PROVE rows'[e].version <= version'
  <2>1. CASE e = d
    BY <1>1, <1>2, <1>4, <2>1
  <2>2. CASE e # d
    <3>1. rows'[e] = rows[e] /\ rows[e] \in Row /\ rows[e].version <= version
      BY <1>1, <1>4, <1>5, <2>2
    <3>2. QED
      BY <1>1, <1>2, <3>1 DEF Row
  <2>3. QED
    BY <2>1, <2>2
<1>6. Loaded(rows'[d]) \in Copy /\ Follows(Loaded(rows'[d]), rows'[d])
  <2>1. Loaded(row) = [val |-> val, modified |-> version + 1, docstatus |-> docstatus,
                       unsaved |-> FALSE, needs_refresh |-> FALSE]
    BY DEF Loaded
  <2>2. Loaded(row) \in Copy
    <3>1. version + 1 \in Nat
      BY <1>1
    <3>2. [val |-> val, modified |-> version + 1, docstatus |-> docstatus,
           unsaved |-> FALSE, needs_refresh |-> FALSE] \in Copy
      BY <3>1 DEF Copy
    <3>3. QED
      BY <2>1, <3>2
  <2>3. Follows(Loaded(row), row)
    BY <1>1, <1>3, <2>1 DEF Follows
  <2>4. QED
    BY <1>4, <2>2, <2>3
<1>7. ASSUME NEW copy \in Copy \cup {None}, NEW e \in Docs, Follows(copy, rows[e])
      PROVE  Follows(copy, rows'[e])
  <2>1. CASE e = d /\ copy # None
    <3>1. rows[d] \in Row /\ copy \in Copy /\ copy.modified <= rows[d].version
          /\ rows[d].version <= version
      BY <1>1, <1>7, <2>1 DEF Follows
    <3>2. copy.modified < version + 1
      BY <1>1, <3>1 DEF Row, Copy
    <3>3. copy.modified \in Nat /\ row.version = version + 1
      BY <3>1 DEF Copy
    <3>4. QED
      BY <1>1, <1>3, <1>4, <2>1, <3>2, <3>3 DEF Follows
  <2>2. CASE e # d
    BY <1>4, <1>7, <2>2
  <2>3. QED
    BY <2>1, <2>2 DEF Follows
<1>8. \A e \in Docs : rows[e] # None => rows'[e] # None
  BY <1>3, <1>4
<1>9. ASSUME NEW r \in Requests \cup {None}, RequestOK(r, rows) PROVE RequestOK(r, rows')
  <2>1. CASE r # None
    <3>1. r \in Requests /\ r.copy \in Copy \cup {None} /\ r.answer \in Copy \cup {None}
      BY <2>1 DEF Requests
    <3>2. QED
      BY <1>7, <1>8, <1>9, <2>1, <3>1 DEF RequestOK
  <2>2. QED
    BY <2>1 DEF RequestOK
<1>10. CopiesOK(locals, rows')
  BY <1>7, SomeKeys DEF CoreInv, CopiesOK
<1>11. FormOK(shown, detached, rows')
  BY <1>7 DEF CoreInv, FormOK
<1>12. QED
  BY <1>3, <1>4, <1>5, <1>6, <1>9, <1>10, <1>11

\* The server answers the request in slot s.
LEMMA ReplyKeeps ==
    ASSUME requests \in [Slots -> Requests \cup {None}], NEW s \in Slots,
           requests[s] \in Requests, NEW answer \in Copy \cup {None},
           NEW name \in Docs \cup {None}, Reply(s, "ok", answer, name)
    PROVE  /\ requests' \in [Slots -> Requests \cup {None}]
           /\ \A u \in Slots \ {s} : requests'[u] = requests[u]
           /\ requests'[s] = [requests[s] EXCEPT !.reply = "ok", !.answer = answer, !.name = name]
           /\ requests'[s] \in Requests
<1> DEFINE r == [requests[s] EXCEPT !.reply = "ok", !.answer = answer, !.name = name]
<1>1. r \in Requests
  BY DEF Requests
<1>2. requests' = [requests EXCEPT ![s] = r]
  BY DEF Reply
<1>3. QED
  BY <1>1, <1>2

-----------------------------------------------------------------------------
(***************************************************************************)
(* The steps of the user.                                                  *)
(***************************************************************************)
core == <<rows, version, locals, shown, detached, requests>>

LEMMA Quiet == ASSUME CoreInv, UNCHANGED core PROVE CoreInv'
  BY DEF CoreInv, core

LEMMA OpenDocCore ==
    ASSUME CoreInv, NEW k \in Keys, NEW s \in Slots, OpenDoc(k, s)
    PROVE  CoreInv'
<1>1. CASE locals[k] # None
  <2>1. CopiesOK(locals, rows) /\ Refresh(k, locals, s) /\ UNCHANGED <<rows, version>>
    BY <1>1 DEF OpenDoc, CoreInv, server
  <2>2. QED
    BY <2>1, RefreshCore
<1>2. CASE locals[k] = None
  <2>1. k \in Docs /\ rows[k] # None
    BY <1>2 DEF OpenDoc, Keys
  <2>2. /\ requests' = [requests EXCEPT ![s] = GetDoc(k, "open")]
        /\ UNCHANGED <<rows, version, locals, shown, detached>>
    BY <1>2 DEF OpenDoc, server
  <2>3. QED
    BY <2>1, <2>2, AskCore, GetDocOK
<1>3. QED
  BY <1>1, <1>2

LEMMA NewDocCore ==
    ASSUME CoreInv, NEW s \in Slots, NewDoc(s)
    PROVE  CoreInv'
<1> DEFINE copies == [locals EXCEPT ![New] = Blank]
<1>1. Blank \in Copy
  BY DEF Blank, Copy, Values
<1>2. CopiesOK(copies, rows)
  BY <1>1, SomeKeys DEF CoreInv, CopiesOK
<1>3. Refresh(New, copies, s) /\ UNCHANGED <<rows, version>>
  BY DEF NewDoc, server
<1>4. QED
  BY <1>2, <1>3, RefreshCore, SomeKeys

LEMMA TypeCore ==
    ASSUME CoreInv, NEW c \in Changes, Type(c)
    PROVE  CoreInv'
<1>1. FormDoc # None /\ locals' = SetValue(shown, c, locals)
      /\ UNCHANGED <<rows, version, shown, detached, requests>>
  BY DEF Type, Editable, server, form
<1>2. CopiesOK(SetValue(shown, c, locals), rows)
  BY <1>1, FormDocOK, SetValueOK DEF CoreInv, FormOK
<1>3. QED
  BY <1>1, <1>2 DEF CoreInv

LEMMA ChooseCore ==
    ASSUME CoreInv, NEW c \in Changes, NEW s \in Slots, Choose(c, s)
    PROVE  CoreInv'
<1>1. FormDoc # None /\ UNCHANGED <<rows, version, locals, shown, detached>>
  BY DEF Choose, Editable, server, form
<1>2. CASE validating
  BY <1>1, <1>2, Quiet DEF Choose, core
<1>3. CASE ~validating
  <2> DEFINE r == Ask("link", shown, None, c)
  <2>1. r \in Requests /\ RequestOK(r, rows)
    BY <1>1, FormDocOK DEF Ask, Requests, RequestOK
  <2>2. requests' = [requests EXCEPT ![s] = r]
    BY <1>3 DEF Choose
  <2>3. QED
    BY <1>1, <2>1, <2>2, AskCore
<1>4. QED
  BY <1>2, <1>3

LEMMA SendCore ==
    ASSUME CoreInv, NEW kind \in {"savedocs", "cancel"}, NEW s \in Slots, Send(kind, s),
           clicked.action \in Actions
    PROVE  CoreInv'
<1>1. FormDoc # None /\ UNCHANGED <<rows, version, locals, shown, detached>>
  BY DEF Send, server, form
<1>2. CASE is_saving
  BY <1>1, <1>2, Quiet DEF Send, core
<1>3. CASE ~is_saving
  <2> DEFINE r == Ask(kind, shown, Args(kind), clicked.action)
  <2>1. r \in Requests /\ RequestOK(r, rows)
    BY <1>1, FormDocOK DEF Ask, Args, Requests, RequestOK
  <2>2. requests' = [requests EXCEPT ![s] = r]
    BY <1>3 DEF Send
  <2>3. QED
    BY <1>1, <2>1, <2>2, AskCore
<1>4. QED
  BY <1>2, <1>3

LEMMA UserReloadCore ==
    ASSUME CoreInv, NEW s \in Slots, UserReload(s)
    PROVE  CoreInv'
<1>1. /\ FormDoc # None /\ shown # New
      /\ detached' = FormDoc /\ locals' = [locals EXCEPT ![shown] = None]
      /\ requests' = [requests EXCEPT ![s] = GetDoc(shown, "reload")]
      /\ UNCHANGED <<rows, version, shown>>
  BY DEF UserReload, server
<1>2. /\ FormDoc \in Copy /\ shown \in Docs /\ Follows(FormDoc, rows[shown])
      /\ rows[shown] # None
  BY <1>1, FormDocOK DEF Keys
<1>3. CopiesOK(locals', rows')
  BY <1>1, <1>2, SomeKeys DEF CoreInv, CopiesOK, Follows
<1>4. FormOK(shown', detached', rows')
  BY <1>1, <1>2, SomeKeys DEF FormOK
<1>5. /\ requests' \in [Slots -> Requests \cup {None}]
      /\ \A u \in Slots : RequestOK(requests'[u], rows')
  BY <1>1, <1>2, GetDocOK DEF CoreInv
<1>6. QED
  BY <1>1, <1>3, <1>4, <1>5 DEF CoreInv

-----------------------------------------------------------------------------
(***************************************************************************)
(* Those of the server.                                                    *)
(***************************************************************************)
LEMMA ServeGetDocCore ==
    ASSUME CoreInv, NEW s \in Slots, ServeGetDoc(s)
    PROVE  CoreInv'
<1> DEFINE d == requests[s].key
           answer == Loaded(rows[d])
<1>1. requests \in [Slots -> Requests \cup {None}] /\ requests[s] \in Requests
      /\ RequestOK(requests[s], rows) /\ requests[s].kind = "getdoc" /\ requests[s] # None
  BY DEF ServeGetDoc, CoreInv, Idle
<1>2. d \in Docs /\ rows[d] # None /\ rows[d] \in Row
  BY <1>1 DEF RequestOK, CoreInv
<1>3. answer \in Copy /\ answer # None /\ Follows(answer, rows[d])
  <2>1. answer \in Copy
    BY <1>2 DEF Loaded, Copy, Row
  <2>2. answer.modified = rows[d].version /\ answer.val = rows[d].val
    BY DEF Loaded
  <2>3. rows[d].version \in Nat
    BY <1>2 DEF Row
  <2>4. QED
    BY <1>2, <2>1, <2>2, <2>3, NoneAssumption DEF Follows
<1>4. Reply(s, "ok", answer, d)
  BY DEF ServeGetDoc
<1>5. /\ requests' \in [Slots -> Requests \cup {None}]
      /\ \A u \in Slots \ {s} : requests'[u] = requests[u]
      /\ requests'[s] = [requests[s] EXCEPT !.reply = "ok", !.answer = answer, !.name = d]
      /\ requests'[s] \in Requests
  BY <1>1, <1>2, <1>3, <1>4, ReplyKeeps
<1>6. /\ requests'[s].kind = "getdoc" /\ requests'[s].key = d /\ requests'[s].name = d
      /\ requests'[s].answer = answer
  BY <1>1, <1>5 DEF Requests
<1>7. RequestOK(requests'[s], rows)
  BY <1>2, <1>3, <1>5, <1>6 DEF RequestOK
<1>8. UNCHANGED <<rows, version, locals, shown, detached>>
  BY DEF ServeGetDoc, server, form
<1>9. QED
  BY <1>5, <1>7, <1>8 DEF CoreInv

\* savedocs() and cancel() write a row and answer with it.
LEMMA WriteAndReply ==
    ASSUME CoreInv, NEW d \in Docs, NEW val \in Values, NEW docstatus \in 0..2,
           Write(d, val, docstatus), NEW s \in Slots, requests[s] # None,
           requests[s].kind \in {"savedocs", "cancel"}, requests[s].key \in {d, New},
           Reply(s, "ok", Loaded(rows'[d]), d), UNCHANGED <<locals, shown, detached>>
    PROVE  CoreInv'
<1> DEFINE answer == Loaded(rows'[d])
<1>1. requests \in [Slots -> Requests \cup {None}] /\ requests[s] \in Requests
      /\ RequestOK(requests[s], rows)
  BY DEF CoreInv
<1>2. /\ rows' \in [Docs -> Row \cup {None}] /\ version' \in Nat
      /\ \A e \in Docs : rows'[e] # None => rows'[e].version <= version'
      /\ rows'[d] # None /\ answer \in Copy /\ Follows(answer, rows'[d])
      /\ \A r \in Requests \cup {None} : RequestOK(r, rows) => RequestOK(r, rows')
      /\ CopiesOK(locals, rows') /\ FormOK(shown, detached, rows')
  BY WriteCore
<1>3. /\ requests' \in [Slots -> Requests \cup {None}]
      /\ \A u \in Slots \ {s} : requests'[u] = requests[u]
      /\ requests'[s] = [requests[s] EXCEPT !.reply = "ok", !.answer = answer, !.name = d]
      /\ requests'[s] \in Requests
  BY <1>1, <1>2, ReplyKeeps
<1>4. /\ requests'[s].kind = requests[s].kind /\ requests'[s].key = requests[s].key
      /\ requests'[s].copy = requests[s].copy /\ requests'[s].action = requests[s].action
      /\ requests'[s].name = d /\ requests'[s].answer = answer
  BY <1>1, <1>3 DEF Requests
<1>5. RequestOK(requests[s], rows')
  BY <1>1, <1>2
<1>6. answer # None
  BY <1>2, NoneAssumption
<1>7. RequestOK(requests'[s], rows')
  BY <1>2, <1>3, <1>4, <1>5, <1>6 DEF RequestOK
<1>8. \A u \in Slots : RequestOK(requests'[u], rows')
  BY <1>1, <1>2, <1>3, <1>7 DEF CoreInv
<1>9. QED
  BY <1>2, <1>3, <1>8 DEF CoreInv

\* What savedocs() is sent and what it may do with it.
LEMMA SaveArgs ==
    ASSUME CoreInv, NEW s \in Slots, requests[s] # None, requests[s].kind = "savedocs"
    PROVE  /\ requests[s].copy \in Copy /\ requests[s].copy.val \in Values
           /\ Docstatus(requests[s].action) \in 0..2
           /\ requests[s].key \in Keys
           /\ requests[s].key \in Docs =>
                /\ rows[requests[s].key] # None
                /\ Follows(requests[s].copy, rows[requests[s].key])
  BY DEF CoreInv, RequestOK, Requests, Copy, Docstatus

LEMMA ServeSaveCore ==
    ASSUME CoreInv, NEW s \in Slots, ServeSave(s)
    PROVE  CoreInv'
<1>1. /\ requests[s] # None /\ requests[s].kind = "savedocs" /\ requests[s].key # New
      /\ Write(requests[s].key, requests[s].copy.val, Docstatus(requests[s].action))
      /\ Reply(s, "ok", Loaded(rows'[requests[s].key]), requests[s].key)
      /\ UNCHANGED <<locals, shown, detached>>
  BY DEF ServeSave, Idle, form
<1>2. requests[s].key \in Docs
  BY <1>1, SaveArgs DEF Keys
<1>3. QED
  BY <1>1, <1>2, SaveArgs, WriteAndReply

LEMMA ServeInsertCore ==
    ASSUME CoreInv, NEW s \in Slots, NEW d \in Docs, ServeInsert(s, d)
    PROVE  CoreInv'
<1>1. /\ requests[s] # None /\ requests[s].kind = "savedocs" /\ requests[s].key = New
      /\ Write(d, requests[s].copy.val, Docstatus(requests[s].action))
      /\ Reply(s, "ok", Loaded(rows'[d]), d) /\ UNCHANGED <<locals, shown, detached>>
  BY DEF ServeInsert, Idle, form
<1>2. QED
  BY <1>1, SaveArgs, WriteAndReply

LEMMA ServeCancelCore ==
    ASSUME CoreInv, NEW s \in Slots, ServeCancel(s)
    PROVE  CoreInv'
<1>1. /\ requests[s] # None /\ requests[s].kind = "cancel" /\ requests[s].key # New
      /\ Write(requests[s].key, rows[requests[s].key].val, 2)
      /\ Reply(s, "ok", Loaded(rows'[requests[s].key]), requests[s].key)
      /\ UNCHANGED <<locals, shown, detached>>
  BY DEF ServeCancel, Idle, form
<1>2. requests[s].key \in Docs /\ rows[requests[s].key] \in Row
  BY <1>1 DEF CoreInv, RequestOK, Requests, Keys
<1>3. rows[requests[s].key].val \in Values
  BY <1>2 DEF Row
<1>4. QED
  BY <1>1, <1>2, <1>3, WriteAndReply

LEMMA ServeLinkCore ==
    ASSUME CoreInv, NEW s \in Slots, ServeLink(s)
    PROVE  CoreInv'
<1>1. requests \in [Slots -> Requests \cup {None}] /\ requests[s] \in Requests
      /\ RequestOK(requests[s], rows) /\ requests[s].kind = "link" /\ requests[s] # None
      /\ Reply(s, "ok", None, None)
  BY DEF ServeLink, CoreInv, Idle
<1>2. /\ requests' \in [Slots -> Requests \cup {None}]
      /\ \A u \in Slots \ {s} : requests'[u] = requests[u]
      /\ requests'[s] = [requests[s] EXCEPT !.reply = "ok", !.answer = None, !.name = None]
      /\ requests'[s] \in Requests
  BY <1>1, ReplyKeeps
<1>3. requests'[s].kind = "link" /\ requests'[s].action = requests[s].action
  BY <1>1, <1>2 DEF Requests
<1>4. RequestOK(requests'[s], rows)
  BY <1>1, <1>2, <1>3 DEF RequestOK
<1>5. UNCHANGED <<rows, version, locals, shown, detached>>
  BY DEF ServeLink, server, form
<1>6. QED
  BY <1>2, <1>4, <1>5 DEF CoreInv

\* What somebody else writes: the values that were there, or one more.
LEMMA ElsewhereWrites ==
    ASSUME CoreInv, NEW d \in Docs, Elsewhere(d)
    PROVE  \E val \in Values, docstatus \in 0..2 :
                Write(d, val, docstatus) /\ rows[d].val \subseteq val
<1>1. rows[d] # None /\ rows[d].docstatus < 2 /\ rows[d] \in Row /\ version \in Nat
  BY DEF Elsewhere, CoreInv
<1>2. PICK docstatus \in {rows[d].docstatus, rows[d].docstatus + 1} :
        Write(d, IF docstatus = 2 THEN rows[d].val ELSE rows[d].val \cup {version + 1},
              docstatus)
  BY DEF Elsewhere
<1>3. docstatus \in 0..2
  BY <1>1 DEF Row
<1>4. rows[d].val \in Values /\ rows[d].val \cup {version + 1} \in Values
  BY <1>1 DEF Row, Values
<1>5. QED
  BY <1>2, <1>3, <1>4

LEMMA ElsewhereCore ==
    ASSUME CoreInv, NEW d \in Docs, Elsewhere(d)
    PROVE  CoreInv'
<1>1. PICK val \in Values, docstatus \in 0..2 : Write(d, val, docstatus)
  BY ElsewhereWrites
<1>2. UNCHANGED <<locals, shown, detached, requests>>
  BY DEF Elsewhere, form
<1>3. /\ rows' \in [Docs -> Row \cup {None}] /\ version' \in Nat
      /\ \A e \in Docs : rows'[e] # None => rows'[e].version <= version'
      /\ \A r \in Requests \cup {None} : RequestOK(r, rows) => RequestOK(r, rows')
      /\ CopiesOK(locals, rows') /\ FormOK(shown, detached, rows')
  BY <1>1, WriteCore
<1>4. QED
  BY <1>2, <1>3 DEF CoreInv

-----------------------------------------------------------------------------
(***************************************************************************)
(* The answers.                                                            *)
(***************************************************************************)
LEMMA GotDocCore ==
    ASSUME CoreInv, NEW s \in Slots, GotDoc(s)
    PROVE  CoreInv'
<1> DEFINE r == requests[s]
           copies == Sync(r.key, r.answer)
           k == IF r.action = "open" THEN r.key ELSE shown
<1>1. r \in Requests /\ RequestOK(r, rows) /\ r # None /\ r.kind = "getdoc" /\ r.reply = "ok"
  BY DEF GotDoc, Answered, Idle, CoreInv
<1>2. r.key \in Docs /\ r.answer \in Copy /\ Follows(r.answer, rows[r.key])
  BY <1>1 DEF RequestOK, Requests
<1>3. CopiesOK(copies, rows) /\ k \in Keys \cup {None}
  BY <1>2, SyncOK, SomeKeys DEF CoreInv, FormOK
<1>4. Refresh(k, copies, s) /\ UNCHANGED <<rows, version>>
  BY DEF GotDoc, server
<1>5. QED
  BY <1>3, <1>4, RefreshCore

\* The answer of savedocs() or cancel().
LEMMA AnswerOK ==
    ASSUME CoreInv, NEW s \in Slots,
           Answered(s, "savedocs", "ok") \/ Answered(s, "cancel", "ok")
    PROVE  /\ requests[s].name \in Docs /\ requests[s].answer \in Copy
           /\ CopiesOK(Sync(requests[s].name, requests[s].answer), rows)
<1>1. /\ requests[s] \in Requests /\ RequestOK(requests[s], rows) /\ requests[s] # None
      /\ requests[s].kind \in {"savedocs", "cancel"} /\ requests[s].reply = "ok"
  BY DEF Answered, Idle, CoreInv
<1>2. /\ requests[s].name \in Docs /\ requests[s].answer \in Copy
      /\ Follows(requests[s].answer, rows[requests[s].name])
  BY <1>1 DEF RequestOK, Requests
<1>3. QED
  BY <1>2, SyncOK

LEMMA SavedCore ==
    ASSUME CoreInv, NEW s \in Slots, Saved(s)
    PROVE  CoreInv'
<1>1. CopiesOK(Sync(requests[s].name, requests[s].answer), rows)
  BY AnswerOK DEF Saved
<1>2. /\ Refresh(shown, Sync(requests[s].name, requests[s].answer), s)
      /\ UNCHANGED <<rows, version>> /\ shown \in Keys \cup {None}
  BY DEF Saved, server, CoreInv, FormOK
<1>3. QED
  BY <1>1, <1>2, RefreshCore

LEMMA InsertedCore ==
    ASSUME CoreInv, NEW s \in Slots, Inserted(s)
    PROVE  CoreInv'
<1> DEFINE synced == Sync(requests[s].name, requests[s].answer)
           copies == [synced EXCEPT ![New] = None]
           k == IF shown = New THEN requests[s].name ELSE shown
<1>1. CopiesOK(synced, rows) /\ requests[s].name \in Docs
  BY AnswerOK DEF Inserted
<1>2. CopiesOK(copies, rows)
  BY <1>1, SomeKeys DEF CopiesOK
<1>3. k \in Keys \cup {None}
  BY <1>1, SomeKeys DEF CoreInv, FormOK
<1>4. Refresh(k, copies, s) /\ UNCHANGED <<rows, version>>
  BY DEF Inserted, server
<1>5. QED
  BY <1>2, <1>3, <1>4, RefreshCore

LEMMA SavedOrNotCore ==
    ASSUME CoreInv, NEW s \in Slots, SavedOrNot(s)
    PROVE  CoreInv'
<1>1. /\ CopiesOK(locals, rows) /\ shown \in Keys \cup {None}
      /\ Refresh(shown, locals, s) /\ UNCHANGED <<rows, version>>
  BY DEF SavedOrNot, server, CoreInv, FormOK
<1>2. QED
  BY <1>1, RefreshCore

\* GotNoDoc, NotSaved and LinkIsLost.
LEMMA GiveUpCore ==
    ASSUME CoreInv, NEW s \in Slots, GotNoDoc(s) \/ NotSaved(s) \/ LinkIsLost(s)
    PROVE  CoreInv'
<1>1. /\ requests' = [requests EXCEPT ![s] = None]
      /\ UNCHANGED <<rows, version, locals, shown, detached>>
  BY DEF GotNoDoc, NotSaved, LinkIsLost, server, form
<1>2. RequestOK(None, rows)
  BY DEF RequestOK
<1>3. QED
  BY <1>1, <1>2, AskCore

LEMMA LinkIsValidCore ==
    ASSUME CoreInv, NEW s \in Slots, LinkIsValid(s)
    PROVE  CoreInv'
<1> DEFINE r == requests[s]
           fetched == SetValue(r.key, r.action, locals)
<1>1. r \in Requests /\ RequestOK(r, rows) /\ r # None /\ r.kind = "link"
  BY DEF LinkIsValid, Answered, Idle, CoreInv
<1>2. r.key \in Keys /\ r.action \in Changes
  BY <1>1 DEF RequestOK, Requests
<1>3. shown \in Keys \cup {None} /\ detached \in Copy \cup {None}
  BY DEF CoreInv, FormOK
<1>4. CopiesOK(fetched, rows)
  BY <1>2, <1>3, SetValueOK DEF CoreInv
<1>5. CASE shown = None
  <2>1. locals' = fetched /\ requests' = [requests EXCEPT ![s] = None]
        /\ UNCHANGED <<rows, version, shown, detached>>
    BY <1>5 DEF LinkIsValid, server, form
  <2>2. QED
    BY <1>4, <2>1 DEF CoreInv, RequestOK
<1>6. CASE shown # None
  <2>1. locals' = SetValue(shown, r.action, fetched) /\ requests' = [requests EXCEPT ![s] = None]
        /\ UNCHANGED <<rows, version, shown, detached>>
    BY <1>6 DEF LinkIsValid, server, form
  <2>2. CopiesOK(SetValue(shown, r.action, fetched), rows)
    BY <1>2, <1>3, <1>4, <1>6, SetValueOK
  <2>3. QED
    BY <2>1, <2>2 DEF CoreInv, RequestOK
<1>7. QED
  BY <1>5, <1>6

-----------------------------------------------------------------------------
(***************************************************************************)
(* The events.                                                             *)
(***************************************************************************)

\* doc.__needs_refresh = true.
LEMMA MarkedOK ==
    ASSUME CoreInv, NEW d \in Docs, locals[d] # None
    PROVE  CopiesOK([locals EXCEPT ![d].needs_refresh = TRUE], rows)
<1> DEFINE marked == [locals[d] EXCEPT !.needs_refresh = TRUE]
<1>1. locals \in [Keys -> Copy \cup {None}] /\ locals[d] \in Copy /\ d \in Keys
      /\ \A e \in Docs : Follows(locals[e], rows[e])
  BY SomeKeys DEF CoreInv, CopiesOK
<1>2. [locals EXCEPT ![d].needs_refresh = TRUE] = [locals EXCEPT ![d] = marked]
  BY <1>1
<1>3. marked \in Copy /\ marked.modified = locals[d].modified /\ marked.val = locals[d].val
  BY <1>1 DEF Copy
<1>4. Follows(marked, rows[d])
  BY <1>1, <1>3 DEF Follows
<1>5. QED
  BY <1>1, <1>2, <1>3, <1>4, SomeKeys DEF CopiesOK

LEMMA DocUpdateCore ==
    ASSUME CoreInv, NEW d \in Docs, NEW v, DocUpdate(d, v)
    PROVE  CoreInv'
<1>1. UNCHANGED <<rows, version>>
  BY DEF DocUpdate, server
<1>2. CASE IgnoreEvent(d, v) \/ MissEvent(d, v)
  BY <1>1, <1>2, Quiet DEF IgnoreEvent, MissEvent, core
<1>3. CASE MarkCopy(d, v)
  <2>1. CopiesOK(locals', rows)
    BY <1>3, MarkedOK DEF MarkCopy
  <2>2. UNCHANGED <<shown, detached, requests>>
    BY <1>3 DEF MarkCopy
  <2>3. QED
    BY <1>1, <2>1, <2>2 DEF CoreInv
<1>4. CASE DropCopy(d, v)
  <2>1. /\ locals' = [locals EXCEPT ![d] = None] /\ UNCHANGED <<shown, requests>>
        /\ detached' = IF shown = d THEN FormDoc ELSE detached
    BY <1>4 DEF DropCopy
  <2>2. CopiesOK(locals', rows)
    BY <2>1, SomeKeys DEF CoreInv, CopiesOK, Follows
  <2>3. FormOK(shown, detached', rows)
    <3>1. CASE shown = d /\ FormDoc # None
      BY <2>1, <3>1, FormDocOK DEF FormOK
    <3>2. CASE shown = d /\ FormDoc = None
      BY <2>1, <3>2, SomeKeys DEF FormOK
    <3>3. CASE shown # d
      BY <2>1, <3>3 DEF CoreInv
    <3>4. QED
      BY <3>1, <3>2, <3>3
  <2>4. QED
    BY <1>1, <2>1, <2>2, <2>3 DEF CoreInv
<1>5. ASSUME NEW s \in Slots, ShowEvent(d, v, s) PROVE CoreInv'
  <2> DEFINE marked == [locals EXCEPT ![d].needs_refresh = TRUE]
  <2>1. locals[d] # None /\ Refresh(d, marked, s)
    BY <1>5 DEF ShowEvent
  <2>2. CopiesOK(marked, rows) /\ d \in Keys
    BY <2>1, MarkedOK, SomeKeys
  <2>3. QED
    BY <1>1, <2>1, <2>2, RefreshCore
<1>6. QED
  BY <1>2, <1>3, <1>4, <1>5 DEF DocUpdate

LEMMA CoreInit == Init => CoreInv
<1> SUFFICES ASSUME Init PROVE CoreInv
  OBVIOUS
<1>1. rows \in [Docs -> {None} \cup [val : {{}}, version : {0}, docstatus : 0..1]]
      /\ version = 0
  BY DEF Init
<1>2. [val : {{}}, version : {0}, docstatus : 0..1] \subseteq Row
  BY DEF Row, Values
<1>3. rows \in [Docs -> Row \cup {None}] /\ \A d \in Docs : rows[d] # None => rows[d].version <= version
  BY <1>1, <1>2
<1>4. CopiesOK(locals, rows) /\ FormOK(shown, detached, rows)
  BY SomeKeys DEF Init, CopiesOK, FormOK, Follows
<1>5. requests \in [Slots -> Requests \cup {None}] /\ \A s \in Slots : RequestOK(requests[s], rows)
  BY DEF Init, RequestOK
<1>6. QED
  BY <1>1, <1>3, <1>4, <1>5 DEF CoreInv

ClickedOK == clicked # None => clicked.action \in Actions

LEMMA CoreStep == ASSUME CoreInv, ClickedOK, [Next]_vars PROVE CoreInv'
<1>1. CASE User
  <2>1. ASSUME NEW s \in Slots, Save(s) \/ Cancel(s) PROVE CoreInv'
    BY <2>1, SendCore DEF Save, Cancel, ClickedOK
  <2>2. ASSUME OpenList \/ ConfirmSubmit \/ GiveUp
               \/ \E a \in {"Save", "Submit", "Update", "Cancel"} : Click(a)
        PROVE  CoreInv'
    BY <2>2, Quiet DEF OpenList, ConfirmSubmit, GiveUp, Click, core, server, form
  <2>3. QED
    BY <1>1, <2>1, <2>2, OpenDocCore, NewDocCore, UserReloadCore, TypeCore, ChooseCore DEF User
<1>2. CASE Server
  BY <1>2, ServeGetDocCore, ServeSaveCore, ServeCancelCore, ServeLinkCore, ServeInsertCore,
     ElsewhereCore DEF Server
<1>3. ASSUME NEW s \in Slots, Answer(s) PROVE CoreInv'
  BY <1>3, GotDocCore, SavedCore, InsertedCore, SavedOrNotCore, LinkIsValidCore, GiveUpCore
     DEF Answer
<1>4. CASE Realtime
  <2>1. ASSUME Disconnect \/ \E d \in Docs : Join(d) PROVE CoreInv'
    BY <2>1, Quiet DEF Disconnect, Join, core, server, form
  <2>2. QED
    BY <1>4, <2>1, DocUpdateCore DEF Realtime
<1>5. CASE UNCHANGED vars
  BY <1>5, Quiet DEF vars, core, server, form
<1>6. QED
  BY <1>1, <1>2, <1>3, <1>4, <1>5 DEF Next

-----------------------------------------------------------------------------
(***************************************************************************)
(* The other types.                                                        *)
(***************************************************************************)
RestType ==
    /\ inserts \in Nat /\ route \in {"Form", "List"} /\ page \in {"Form", "List"}
    /\ clicked \in [action : Actions, doc : Keys, stage : {"confirm", "pause"}] \cup {None}
    /\ is_saving \in BOOLEAN /\ validating \in BOOLEAN
    /\ new_names \in Docs \cup {None}
    /\ opendocs \subseteq Docs /\ asking \subseteq Docs /\ joined \subseteq Docs
    /\ events \subseteq [doc : Docs, modified : Nat] /\ missed \subseteq Docs
    /\ typed \subseteq Changes /\ gone \subseteq Changes /\ unanswered \in BOOLEAN

LEMMA PartsOfType == TypeOK <=> /\ RestType
                               /\ rows \in [Docs -> Row \cup {None}] /\ version \in Nat
                               /\ locals \in [Keys -> Copy \cup {None}]
                               /\ shown \in Keys \cup {None} /\ detached \in Copy \cup {None}
                               /\ requests \in [Slots -> Requests \cup {None}]
  BY DEF TypeOK, RestType

LEMMA SubscribeType ==
    ASSUME RestType, NEW k, NEW copies, Subscribe(k, copies)
    PROVE  asking' \subseteq Docs
  BY DEF RestType, Subscribe

LEMMA RefreshType ==
    ASSUME RestType, NEW k, NEW copies, NEW s, Refresh(k, copies, s)
    PROVE  opendocs' \subseteq Docs
  BY DEF RestType, Refresh

LEMMA LateType ==
    ASSUME RestType, NEW d \in Docs, NEW copy, Late(d, copy)
    PROVE  missed' \subseteq Docs
  BY DEF RestType, Late, Miss

LEMMA PublishType ==
    ASSUME RestType, NEW d \in Docs, version \in Nat, Publish(d, version + 1)
    PROVE  events' \subseteq [doc : Docs, modified : Nat] /\ missed' \subseteq Docs
  BY DEF RestType, Publish

LEMMA UserType ==
    ASSUME CoreInv, RestType, User
    PROVE  RestType'
<1>1. ASSUME NEW s \in Slots, NEW k \in Keys, OpenDoc(k, s) PROVE RestType'
  <2>1. opendocs' \subseteq Docs /\ asking' \subseteq Docs /\ page' \in {"Form", "List"}
    <3>1. CASE locals[k] # None
      BY <1>1, <3>1, SubscribeType, RefreshType DEF OpenDoc
    <3>2. CASE locals[k] = None
      BY <1>1, <3>2 DEF OpenDoc, RestType
    <3>3. QED
      BY <3>1, <3>2
  <2>2. QED
    BY <1>1, <2>1 DEF OpenDoc, RestType, server, flags, ghosts
<1>2. ASSUME NEW s \in Slots, NewDoc(s) PROVE RestType'
  <2>1. opendocs' \subseteq Docs
    BY <1>2, RefreshType DEF NewDoc
  <2>2. QED
    BY <1>2, <2>1 DEF NewDoc, RestType, server, flags, ghosts
<1>3. ASSUME NEW s \in Slots, Save(s) \/ Cancel(s) PROVE RestType'
  <2>1. PICK kind \in {"savedocs", "cancel"} : Send(kind, s)
    BY <1>3 DEF Save, Cancel
  <2>2. is_saving' \in BOOLEAN
    BY <2>1 DEF Send, RestType
  <2>3. QED
    BY <2>1, <2>2 DEF Send, RestType, server, form, rooms
<1>4. ASSUME NEW s \in Slots, UserReload(s) PROVE RestType'
  <2>1. gone' \subseteq Changes /\ opendocs' \subseteq Docs
    BY <1>4 DEF UserReload, RestType
  <2>2. QED
    BY <1>4, <2>1 DEF UserReload, RestType, server, flags
<1>5. ASSUME NEW c \in Changes, Type(c) PROVE RestType'
  <2>1. gone' \subseteq Changes /\ typed' \subseteq Changes
    BY <1>5 DEF Type, RestType
  <2>2. QED
    BY <1>5, <2>1 DEF Type, RestType, server, form, rooms, flags
<1>6. ASSUME NEW c \in Changes, NEW s \in Slots, Choose(c, s) PROVE RestType'
  <2>1. gone' \subseteq Changes /\ typed' \subseteq Changes /\ validating' \in BOOLEAN
    BY <1>6 DEF Choose, RestType
  <2>2. QED
    BY <1>6, <2>1 DEF Choose, RestType, server, form, rooms
<1>7. ASSUME NEW a \in Actions, Click(a) PROVE RestType'
  <2>1. clicked' \in [action : Actions, doc : Keys, stage : {"confirm", "pause"}]
    BY <1>7, FormDocOK DEF Click
  <2>2. QED
    BY <1>7, <2>1 DEF Click, RestType, server, form, rooms, ghosts
<1>8. ASSUME ConfirmSubmit PROVE RestType'
  <2>1. clicked' \in [action : Actions, doc : Keys, stage : {"confirm", "pause"}]
    BY <1>8 DEF ConfirmSubmit, RestType
  <2>2. QED
    BY <1>8, <2>1 DEF ConfirmSubmit, RestType, server, form, rooms, ghosts
<1>9. ASSUME OpenList PROVE RestType'
  BY <1>9 DEF OpenList, RestType, server, rooms, ghosts
<1>10. ASSUME GiveUp PROVE RestType'
  BY <1>10 DEF GiveUp, RestType, server, form, rooms, ghosts
<1>11. QED
  BY <1>1, <1>2, <1>3, <1>4, <1>5, <1>6, <1>7, <1>8, <1>9, <1>10 DEF User, Actions

LEMMA ServerType ==
    ASSUME CoreInv, RestType, Server
    PROVE  RestType'
<1>1. version \in Nat
  BY DEF CoreInv
<1>2. ASSUME NEW s \in Slots, ServeGetDoc(s) \/ ServeLink(s) PROVE RestType'
  BY <1>2 DEF ServeGetDoc, ServeLink, RestType, server, form, rooms, flags, ghosts
<1>3. ASSUME NEW s \in Slots, ServeSave(s) \/ ServeCancel(s) PROVE RestType'
  <2>1. requests[s].key \in Docs
    <3>1. requests[s] \in Requests /\ requests[s].key # New
      BY <1>3 DEF ServeSave, ServeCancel, CoreInv, Idle
    <3>2. QED
      BY <3>1 DEF Requests, Keys
  <2>2. Publish(requests[s].key, version + 1)
    BY <1>3 DEF ServeSave, ServeCancel
  <2>3. events' \subseteq [doc : Docs, modified : Nat] /\ missed' \subseteq Docs
    BY <1>1, <2>1, <2>2, PublishType
  <2>4. QED
    BY <1>3, <2>3 DEF ServeSave, ServeCancel, RestType, form, rooms, flags, ghosts
<1>4. ASSUME NEW s \in Slots, NEW d \in Docs, ServeInsert(s, d) PROVE RestType'
  <2>1. events' \subseteq [doc : Docs, modified : Nat] /\ missed' \subseteq Docs
    BY <1>1, <1>4, PublishType DEF ServeInsert
  <2>2. inserts' \in Nat
    BY <1>4 DEF ServeInsert, RestType
  <2>3. QED
    BY <1>4, <2>1, <2>2 DEF ServeInsert, RestType, form, rooms, flags, ghosts
<1>5. ASSUME NEW d \in Docs, Elsewhere(d) PROVE RestType'
  <2>1. events' \subseteq [doc : Docs, modified : Nat] /\ missed' \subseteq Docs
    BY <1>1, <1>5, PublishType DEF Elsewhere
  <2>2. QED
    BY <1>5, <2>1 DEF Elsewhere, RestType, form, rooms, flags, ghosts
<1>6. QED
  BY <1>2, <1>3, <1>4, <1>5 DEF Server

LEMMA AnswerType ==
    ASSUME CoreInv, RestType, NEW s \in Slots, Answer(s)
    PROVE  RestType'
<1>1. \A d, copy : Overwritten(d, copy) \subseteq Changes
  BY DEF Overwritten
<1>2. ASSUME GotDoc(s) PROVE RestType'
  <2>1. requests[s].key \in Docs
    BY <1>2 DEF GotDoc, Answered, Idle, CoreInv, RequestOK
  <2>2. missed' \subseteq Docs
    BY <1>2, <2>1, LateType DEF GotDoc
  <2>3. opendocs' \subseteq Docs /\ asking' \subseteq Docs
    BY <1>2, SubscribeType, RefreshType DEF GotDoc
  <2>4. gone' \subseteq Changes /\ page' \in {"Form", "List"}
    BY <1>1, <1>2 DEF GotDoc, RestType
  <2>5. QED
    BY <1>2, <2>2, <2>3, <2>4 DEF GotDoc, RestType, server, flags
<1>3. ASSUME GotNoDoc(s) PROVE RestType'
  BY <1>3 DEF GotNoDoc, RestType, server, form, rooms, flags, ghosts
<1>4. ASSUME Saved(s) PROVE RestType'
  <2>1. requests[s].name \in Docs
    BY <1>4, AnswerOK DEF Saved
  <2>2. missed' \subseteq Docs
    BY <1>4, <2>1, LateType DEF Saved
  <2>3. opendocs' \subseteq Docs /\ asking' \subseteq Docs
    BY <1>4, SubscribeType, RefreshType DEF Saved
  <2>4. gone' \subseteq Changes
    BY <1>1, <1>4 DEF Saved, RestType
  <2>5. QED
    BY <1>4, <2>2, <2>3, <2>4 DEF Saved, RestType, server
<1>5. ASSUME Inserted(s) PROVE RestType'
  <2>1. requests[s].name \in Docs
    BY <1>5, AnswerOK DEF Inserted
  <2>2. missed' \subseteq Docs
    BY <1>5, <2>1, LateType DEF Inserted
  <2>3. opendocs' \subseteq Docs /\ asking' \subseteq Docs
    BY <1>5, SubscribeType, RefreshType DEF Inserted
  <2>4. gone' \subseteq Changes
    BY <1>1, <1>5 DEF Inserted, RestType
  <2>5. route' \in {"Form", "List"} /\ page' \in {"Form", "List"} /\ new_names' \in Docs
    BY <1>5, <2>1 DEF Inserted, RestType
  <2>6. QED
    BY <1>5, <2>2, <2>3, <2>4, <2>5 DEF Inserted, RestType, server
<1>6. ASSUME NotSaved(s) PROVE RestType'
  BY <1>6 DEF NotSaved, RestType, server, form, rooms, ghosts
<1>7. ASSUME SavedOrNot(s) PROVE RestType'
  <2>1. opendocs' \subseteq Docs /\ asking' \subseteq Docs
    BY <1>7, SubscribeType, RefreshType DEF SavedOrNot
  <2>2. QED
    BY <1>7, <2>1 DEF SavedOrNot, RestType, server, ghosts
<1>8. ASSUME LinkIsValid(s) \/ LinkIsLost(s) PROVE RestType'
  <2>1. requests[s].action \in Changes
    BY <1>8 DEF LinkIsValid, LinkIsLost, Answered, Idle, CoreInv, RequestOK
  <2>2. gone' \subseteq Changes /\ validating' \in BOOLEAN
    BY <1>8, <2>1 DEF LinkIsValid, LinkIsLost, RestType, flags
  <2>3. QED
    BY <1>8, <2>2 DEF LinkIsValid, LinkIsLost, RestType, server, form, rooms, flags
<1>9. QED
  BY <1>2, <1>3, <1>4, <1>5, <1>6, <1>7, <1>8 DEF Answer

LEMMA RealtimeType ==
    ASSUME CoreInv, RestType, Realtime
    PROVE  RestType'
<1>1. ASSUME NEW d \in Docs, NEW v, DocUpdate(d, v) PROVE RestType'
  <2>1. missed' \subseteq Docs
    BY <1>1 DEF DocUpdate, IgnoreEvent, MissEvent, MarkCopy, DropCopy, ShowEvent, Miss, RestType
  <2>2. opendocs' \subseteq Docs
    <3>1. CASE \E s \in Slots : ShowEvent(d, v, s)
      BY <3>1, RefreshType DEF ShowEvent
    <3>2. CASE IgnoreEvent(d, v) \/ MissEvent(d, v) \/ MarkCopy(d, v) \/ DropCopy(d, v)
      BY <3>2 DEF IgnoreEvent, MissEvent, MarkCopy, DropCopy, RestType
    <3>3. QED
      BY <1>1, <3>1, <3>2 DEF DocUpdate
  <2>3. QED
    BY <1>1, <2>1, <2>2 DEF DocUpdate, RestType, server, flags
<1>2. ASSUME NEW d \in Docs, Join(d) PROVE RestType'
  BY <1>2 DEF Join, RestType, server, form, flags, ghosts
<1>3. ASSUME Disconnect PROVE RestType'
  <2>1. missed' \subseteq Docs
    BY <1>3 DEF Disconnect, RestType
  <2>2. QED
    BY <1>3, <2>1 DEF Disconnect, RestType, server, form, flags, ghosts
<1>4. QED
  BY <1>1, <1>2, <1>3 DEF Realtime

LEMMA InvInit == Init => CoreInv /\ RestType
<1>1. ASSUME Init PROVE RestType
  <2>1. /\ inserts = 0 /\ route = "List" /\ page = "List" /\ clicked = None
        /\ is_saving = FALSE /\ validating = FALSE /\ new_names = None
        /\ opendocs = {} /\ asking = {} /\ joined = {} /\ events = {} /\ missed = {}
        /\ typed = {} /\ gone = {} /\ unanswered = FALSE
    BY <1>1 DEF Init
  <2>2. inserts \in Nat /\ is_saving \in BOOLEAN /\ validating \in BOOLEAN
        /\ unanswered \in BOOLEAN
    BY <2>1
  <2>3. QED
    BY <2>1, <2>2 DEF RestType
<1>2. QED
  BY <1>1, CoreInit

LEMMA InvStep == CoreInv /\ RestType /\ [Next]_vars => CoreInv' /\ RestType'
<1> SUFFICES ASSUME CoreInv, RestType, [Next]_vars PROVE CoreInv' /\ RestType'
  OBVIOUS
<1>1. CoreInv'
  <2>1. ClickedOK
    BY DEF RestType, ClickedOK
  <2>2. QED
    BY <2>1, CoreStep
<1>2. CASE UNCHANGED vars
  <2>1. RestType'
    BY <1>2 DEF vars, server, form, rooms, flags, ghosts, RestType
  <2>2. QED
    BY <1>1, <2>1
<1>3. QED
  BY <1>1, <1>2, UserType, ServerType, AnswerType, RealtimeType DEF Next

\* Every variable keeps its type.
THEOREM TypeCorrect == Spec => []TypeOK
<1>1. CoreInv /\ RestType => TypeOK
  BY PartsOfType DEF CoreInv, CopiesOK, FormOK
<1>2. QED
  BY InvInit, InvStep, <1>1, PTL DEF Spec

-----------------------------------------------------------------------------
(***************************************************************************)
(* No update is lost.                                                      *)
(***************************************************************************)

\* check_if_latest() lets a save pass only if its copy has the version of the
\* row, and then the copy has everything that is in the row.
LEMMA StepKeepsUpdates ==
    ASSUME CoreInv, [Next]_vars, NEW d \in Docs, rows[d] # None
    PROVE  rows'[d] # None /\ rows[d].val \subseteq rows'[d].val
<1>1. CASE UNCHANGED rows
  BY <1>1
<1>2. ASSUME NEW e \in Docs, NEW val \in Values, NEW docstatus \in 0..2,
             Write(e, val, docstatus), rows[e] = None \/ rows[e].val \subseteq val
      PROVE  rows'[d] # None /\ rows[d].val \subseteq rows'[d].val
  <2>1. rows'[e] # None /\ rows'[e].val = val /\ \A f \in Docs \ {e} : rows'[f] = rows[f]
    BY <1>2, WriteCore
  <2>2. QED
    BY <1>2, <2>1
<1>3. ASSUME NEW s \in Slots, ServeSave(s)
      PROVE  rows'[d] # None /\ rows[d].val \subseteq rows'[d].val
  <2> DEFINE r == requests[s]
  <2>1. /\ r # None /\ r.kind = "savedocs" /\ r.key # New
        /\ Write(r.key, r.copy.val, Docstatus(r.action)) /\ rows[r.key].version = r.copy.modified
    BY <1>3 DEF ServeSave, Idle, Accepts
  <2>2. /\ r.copy \in Copy /\ r.copy.val \in Values /\ Docstatus(r.action) \in 0..2
        /\ r.key \in Docs /\ Follows(r.copy, rows[r.key])
    BY <2>1, SaveArgs DEF Keys
  <2>3. rows[r.key].val \subseteq r.copy.val
    BY <2>1, <2>2, NoneAssumption DEF Follows
  <2>4. QED
    BY <1>2, <2>1, <2>2, <2>3
<1>4. ASSUME NEW s \in Slots, NEW e \in Docs, ServeInsert(s, e)
      PROVE  rows'[d] # None /\ rows[d].val \subseteq rows'[d].val
  <2>1. /\ requests[s] # None /\ requests[s].kind = "savedocs" /\ rows[e] = None
        /\ Write(e, requests[s].copy.val, Docstatus(requests[s].action))
    BY <1>4 DEF ServeInsert, Idle
  <2>2. requests[s].copy.val \in Values /\ Docstatus(requests[s].action) \in 0..2
    BY <2>1, SaveArgs
  <2>3. QED
    BY <1>2, <2>1, <2>2
<1>5. ASSUME NEW s \in Slots, ServeCancel(s)
      PROVE  rows'[d] # None /\ rows[d].val \subseteq rows'[d].val
  <2>1. /\ requests[s] # None /\ requests[s].kind = "cancel" /\ requests[s].key # New
        /\ Write(requests[s].key, rows[requests[s].key].val, 2)
    BY <1>5 DEF ServeCancel, Idle
  <2>2. requests[s].key \in Docs /\ rows[requests[s].key] \in Row
    BY <2>1 DEF CoreInv, RequestOK, Requests, Keys
  <2>3. rows[requests[s].key].val \in Values
    BY <2>2 DEF Row
  <2>4. QED
    BY <1>2, <2>1, <2>2, <2>3
<1>6. ASSUME NEW e \in Docs, Elsewhere(e)
      PROVE  rows'[d] # None /\ rows[d].val \subseteq rows'[d].val
  BY <1>2, <1>6, ElsewhereWrites
<1>7. ASSUME User \/ Realtime \/ (\E s \in Slots : Answer(s) \/ ServeGetDoc(s) \/ ServeLink(s))
      PROVE  UNCHANGED rows
  BY <1>7 DEF User, OpenDoc, NewDoc, Save, Cancel, Send, UserReload, Type, Choose, Click, OpenList,
       ConfirmSubmit, GiveUp, Realtime, DocUpdate, Join, Disconnect, Answer, GotDoc, GotNoDoc,
       Saved, Inserted, NotSaved, SavedOrNot, LinkIsValid, LinkIsLost, ServeGetDoc, ServeLink, server
<1>8. QED
  BY <1>1, <1>3, <1>4, <1>5, <1>6, <1>7 DEF Next, Server, vars, server

\* No save of the tab takes back what anybody has saved.
THEOREM NothingIsTakenBack == Spec => NoLostUpdate
<1> DEFINE Kept == \A d \in Docs : rows[d] # None =>
                        rows'[d] # None /\ rows[d].val \subseteq rows'[d].val
<1>1. CoreInv /\ [Next]_vars => [Kept]_vars
  BY StepKeepsUpdates
<1>2. QED
  BY InvInit, InvStep, <1>1, PTL DEF Spec, NoLostUpdate

-----------------------------------------------------------------------------
(***************************************************************************)
(* One save is in flight at a time.                                        *)
(***************************************************************************)
SavingAt(s) == requests[s] # None /\ requests[s].kind \in {"savedocs", "cancel"}

SerialInv ==
    /\ is_saving <=> \E s \in Slots : SavingAt(s)
    /\ \A s, t \in Slots : SavingAt(s) /\ SavingAt(t) => s = t

\* A step that neither sends a save nor takes its answer.
SavesStay ==
    /\ UNCHANGED <<is_saving, inserts, new_names, unanswered>>
    /\ \A u \in Slots : requests'[u] = requests[u] \/ (~SavingAt(u) /\ ~SavingAt(u)')

\* The slot of a save is free again.
SaveEnds(s) ==
    /\ SavingAt(s) /\ ~SavingAt(s)' /\ is_saving' = FALSE
    /\ \A u \in Slots \ {s} : requests'[u] = requests[u]

LEMMA RefreshEnds ==
    ASSUME CoreInv, NEW k, NEW copies, NEW s \in Slots, Refresh(k, copies, s)
    PROVE  ~SavingAt(s)' /\ \A u \in Slots \ {s} : requests'[u] = requests[u]
<1>1. requests' = [requests EXCEPT ![s] = None] \/ requests' = [requests EXCEPT ![s] = GetDoc(k, "reload")]
  BY DEF Refresh
<1>2. GetDoc(k, "reload").kind = "getdoc"
  BY DEF GetDoc, Ask
<1>3. requests \in [Slots -> Requests \cup {None}]
  BY DEF CoreInv
<1>4. QED
  BY <1>1, <1>2, <1>3 DEF SavingAt

\* A slot that held no save and holds none.
LEMMA SlotStays ==
    ASSUME CoreInv, NEW s \in Slots, ~SavingAt(s), NEW r, r = None \/ r.kind \in {"getdoc", "link"},
           requests' = [requests EXCEPT ![s] = r]
    PROVE  \A u \in Slots : requests'[u] = requests[u] \/ (~SavingAt(u) /\ ~SavingAt(u)')
<1>1. requests \in [Slots -> Requests \cup {None}]
  BY DEF CoreInv
<1>2. requests'[s] = r /\ \A u \in Slots \ {s} : requests'[u] = requests[u]
  BY <1>1
<1>3. ~SavingAt(s)'
  BY <1>2 DEF SavingAt
<1>4. QED
  BY <1>2, <1>3

LEMMA OthersStay ==
    ASSUME CoreInv, [Next]_vars,
           ~\E s \in Slots :
               \/ Save(s) \/ Cancel(s) \/ ServeSave(s) \/ ServeCancel(s)
               \/ \E d \in Docs : ServeInsert(s, d)
               \/ Saved(s) \/ Inserted(s) \/ NotSaved(s) \/ SavedOrNot(s)
    PROVE  SavesStay
<1>1. ASSUME UNCHANGED <<requests, is_saving, inserts, new_names, unanswered>>
      PROVE  SavesStay
  BY <1>1 DEF SavesStay
<1>2. ASSUME NEW s \in Slots, ~SavingAt(s), NEW k, NEW copies, Refresh(k, copies, s),
             UNCHANGED <<is_saving, inserts, new_names, unanswered>>
      PROVE  SavesStay
  BY <1>2, RefreshEnds DEF SavesStay
<1>3. ASSUME NEW s \in Slots, ~SavingAt(s), NEW r, r = None \/ r.kind \in {"getdoc", "link"},
             requests' = [requests EXCEPT ![s] = r],
             UNCHANGED <<is_saving, inserts, new_names, unanswered>>
      PROVE  SavesStay
  BY <1>3, SlotStays DEF SavesStay
<1>4. \A s \in Slots : Idle(s) => ~SavingAt(s)
  BY DEF Idle, SavingAt
<1>5. \A k, why : GetDoc(k, why).kind = "getdoc"
  BY DEF GetDoc, Ask
<1>6. ASSUME NEW s \in Slots, NEW k \in Keys, OpenDoc(k, s) PROVE SavesStay
  <2>1. ~SavingAt(s) /\ UNCHANGED <<is_saving, inserts, new_names, unanswered>>
    BY <1>4, <1>6 DEF OpenDoc, flags, server
  <2>2. CASE locals[k] # None
    BY <1>2, <1>6, <2>1, <2>2 DEF OpenDoc
  <2>3. CASE locals[k] = None
    <3>1. requests' = [requests EXCEPT ![s] = GetDoc(k, "open")]
      BY <1>6, <2>3 DEF OpenDoc
    <3>2. QED
      BY <1>3, <1>5, <2>1, <3>1
  <2>4. QED
    BY <2>2, <2>3
<1>7. ASSUME NEW s \in Slots, NewDoc(s) PROVE SavesStay
  <2>1. ~SavingAt(s) /\ UNCHANGED <<is_saving, inserts, new_names, unanswered>>
        /\ Refresh(New, [locals EXCEPT ![New] = Blank], s)
    BY <1>4, <1>7 DEF NewDoc, flags, server
  <2>2. QED
    BY <1>2, <2>1
<1>8. ASSUME NEW s \in Slots, UserReload(s) PROVE SavesStay
  <2>1. ~SavingAt(s) /\ UNCHANGED <<is_saving, inserts, new_names, unanswered>>
        /\ requests' = [requests EXCEPT ![s] = GetDoc(shown, "reload")]
    BY <1>4, <1>8 DEF UserReload, flags, server
  <2>2. QED
    BY <1>3, <1>5, <2>1
<1>9. ASSUME NEW c \in Changes, NEW s \in Slots, Choose(c, s) PROVE SavesStay
  <2>1. UNCHANGED <<is_saving, inserts, new_names, unanswered>>
    BY <1>9 DEF Choose, server
  <2>2. CASE validating
    BY <1>1, <1>9, <2>1, <2>2 DEF Choose
  <2>3. CASE ~validating
    <3>1. ~SavingAt(s) /\ requests' = [requests EXCEPT ![s] = Ask("link", shown, None, c)]
      BY <1>4, <1>9, <2>3 DEF Choose
    <3>2. Ask("link", shown, None, c).kind = "link"
      BY DEF Ask
    <3>3. QED
      BY <1>3, <2>1, <3>1, <3>2
  <2>4. QED
    BY <2>2, <2>3
<1>10. ASSUME NEW c \in Changes, Type(c) PROVE SavesStay
  BY <1>1, <1>10 DEF Type, flags, server
<1>11. ASSUME OpenList \/ ConfirmSubmit \/ GiveUp \/ \E a \in Actions : Click(a) PROVE SavesStay
  BY <1>1, <1>11 DEF OpenList, ConfirmSubmit, GiveUp, Click, server
<1>12. ASSUME NEW s \in Slots, ServeGetDoc(s) \/ ServeLink(s) PROVE SavesStay
  <2>1. /\ requests[s] \in Requests /\ requests[s].kind \in {"getdoc", "link"}
        /\ UNCHANGED <<is_saving, inserts, new_names, unanswered>>
    BY <1>12 DEF ServeGetDoc, ServeLink, CoreInv, Idle, flags, server
  <2>2. ASSUME NEW answer, NEW name, Reply(s, "ok", answer, name) PROVE SavesStay
    <3> DEFINE r == [requests[s] EXCEPT !.reply = "ok", !.answer = answer, !.name = name]
    <3>1. requests' = [requests EXCEPT ![s] = r]
      BY <2>2 DEF Reply, CoreInv
    <3>2. r.kind = requests[s].kind /\ ~SavingAt(s)
      BY <2>1 DEF Requests, SavingAt
    <3>3. QED
      BY <1>3, <2>1, <3>1, <3>2
  <2>3. QED
    BY <1>12, <2>2 DEF ServeGetDoc, ServeLink
<1>13. ASSUME NEW d \in Docs, Elsewhere(d) PROVE SavesStay
  BY <1>1, <1>13 DEF Elsewhere, flags
<1>14. ASSUME NEW s \in Slots, GotDoc(s) PROVE SavesStay
  <2>1. ~SavingAt(s) /\ UNCHANGED <<is_saving, inserts, new_names, unanswered>>
    BY <1>14 DEF GotDoc, Answered, SavingAt, flags, server
  <2>2. QED
    BY <1>2, <1>14, <2>1 DEF GotDoc
<1>15. ASSUME NEW s \in Slots, GotNoDoc(s) \/ LinkIsValid(s) \/ LinkIsLost(s) PROVE SavesStay
  <2>1. /\ ~SavingAt(s) /\ UNCHANGED <<is_saving, inserts, new_names, unanswered>>
        /\ requests' = [requests EXCEPT ![s] = None]
    BY <1>15 DEF GotNoDoc, LinkIsValid, LinkIsLost, Answered, SavingAt, flags, server
  <2>2. QED
    BY <1>3, <2>1
<1>16. ASSUME NEW d \in Docs, NEW v, DocUpdate(d, v) PROVE SavesStay
  <2>1. UNCHANGED <<is_saving, inserts, new_names, unanswered>>
    BY <1>16 DEF DocUpdate, flags, server
  <2>2. ASSUME NEW s \in Slots, ShowEvent(d, v, s) PROVE SavesStay
    BY <1>2, <1>4, <2>1, <2>2 DEF ShowEvent
  <2>3. QED
    BY <1>1, <1>16, <2>1, <2>2 DEF DocUpdate, IgnoreEvent, MissEvent, MarkCopy, DropCopy
<1>17. ASSUME Disconnect \/ \E d \in Docs : Join(d) PROVE SavesStay
  BY <1>1, <1>17 DEF Disconnect, Join, flags, server
<1>18. CASE UNCHANGED vars
  BY <1>1, <1>18 DEF vars, flags, server
<1>19. CASE User
  BY <1>6, <1>7, <1>8, <1>9, <1>10, <1>11, <1>19 DEF User, Actions
<1>20. CASE Server
  BY <1>12, <1>13, <1>20 DEF Server
<1>21. CASE \E s \in Slots : Answer(s)
  BY <1>14, <1>15, <1>21 DEF Answer
<1>22. CASE Realtime
  BY <1>16, <1>17, <1>22 DEF Realtime
<1>23. QED
  BY <1>18, <1>19, <1>20, <1>21, <1>22 DEF Next

\* The server answers a save: it stays the same save.
LEMMA SaveReplied ==
    ASSUME CoreInv, NEW s \in Slots, NEW d \in Docs, NEW val \in Values,
           NEW docstatus \in 0..2, requests[s] # None, Write(d, val, docstatus),
           Reply(s, "ok", Loaded(rows'[d]), d)
    PROVE  /\ requests'[s] # None /\ requests'[s].kind = requests[s].kind
           /\ requests'[s].key = requests[s].key /\ requests'[s].reply = "ok"
           /\ \A u \in Slots \ {s} : requests'[u] = requests[u]
<1>1. requests \in [Slots -> Requests \cup {None}] /\ requests[s] \in Requests
  BY DEF CoreInv
<1>2. Loaded(rows'[d]) \in Copy
  BY WriteCore
<1>3. /\ \A u \in Slots \ {s} : requests'[u] = requests[u]
      /\ requests'[s] = [requests[s] EXCEPT !.reply = "ok", !.answer = Loaded(rows'[d]),
                                            !.name = d]
      /\ requests'[s] \in Requests
  BY <1>1, <1>2, ReplyKeeps
<1>4. QED
  BY <1>1, <1>3, NoneAssumption DEF Requests

\* What ServeSave, ServeCancel and ServeInsert do to the slots.
LEMMA ServeSlots ==
    ASSUME CoreInv, NEW s \in Slots,
           ServeSave(s) \/ ServeCancel(s) \/ \E d \in Docs : ServeInsert(s, d)
    PROVE  /\ SavingAt(s) /\ SavingAt(s)' /\ UNCHANGED <<is_saving, new_names, unanswered>>
           /\ requests'[s].kind = requests[s].kind /\ requests'[s].key = requests[s].key
           /\ requests'[s].reply = "ok"
           /\ \A u \in Slots \ {s} : requests'[u] = requests[u]
<1>1. /\ requests[s] # None /\ requests[s].kind \in {"savedocs", "cancel"}
      /\ UNCHANGED <<is_saving, new_names, unanswered>>
  BY DEF ServeSave, ServeCancel, ServeInsert, Idle, flags
<1>2. SavingAt(s)
  BY <1>1 DEF SavingAt
<1>3. \E d \in Docs, val \in Values, docstatus \in 0..2 :
        Write(d, val, docstatus) /\ Reply(s, "ok", Loaded(rows'[d]), d)
  <2>1. CASE ServeSave(s)
    <3>1. requests[s].kind = "savedocs" /\ requests[s].key # New
          /\ Write(requests[s].key, requests[s].copy.val, Docstatus(requests[s].action))
          /\ Reply(s, "ok", Loaded(rows'[requests[s].key]), requests[s].key)
      BY <2>1 DEF ServeSave
    <3>2. requests[s].key \in Docs /\ requests[s].copy.val \in Values
          /\ Docstatus(requests[s].action) \in 0..2
      BY <1>1, <3>1, SaveArgs DEF Keys
    <3>3. QED
      BY <3>1, <3>2
  <2>2. CASE ServeCancel(s)
    <3>1. requests[s].key # New /\ Write(requests[s].key, rows[requests[s].key].val, 2)
          /\ requests[s].kind = "cancel"
          /\ Reply(s, "ok", Loaded(rows'[requests[s].key]), requests[s].key)
      BY <2>2 DEF ServeCancel
    <3>2. requests[s].key \in Docs /\ rows[requests[s].key] \in Row
      BY <1>1, <3>1 DEF CoreInv, RequestOK, Requests, Keys
    <3>3. rows[requests[s].key].val \in Values
      BY <3>2 DEF Row
    <3>4. QED
      BY <3>1, <3>2, <3>3
  <2>3. ASSUME NEW d \in Docs, ServeInsert(s, d)
        PROVE  \E val \in Values, docstatus \in 0..2 :
                  Write(d, val, docstatus) /\ Reply(s, "ok", Loaded(rows'[d]), d)
    <3>1. requests[s].kind = "savedocs"
          /\ Write(d, requests[s].copy.val, Docstatus(requests[s].action))
          /\ Reply(s, "ok", Loaded(rows'[d]), d)
      BY <2>3 DEF ServeInsert
    <3>2. requests[s].copy.val \in Values /\ Docstatus(requests[s].action) \in 0..2
      BY <1>1, <3>1, SaveArgs
    <3>3. QED
      BY <3>1, <3>2
  <2>4. QED
    BY <2>1, <2>2, <2>3
<1>4. /\ requests'[s] # None /\ requests'[s].kind = requests[s].kind
      /\ requests'[s].key = requests[s].key /\ requests'[s].reply = "ok"
      /\ \A u \in Slots \ {s} : requests'[u] = requests[u]
  BY <1>1, <1>3, SaveReplied
<1>5. QED
  BY <1>1, <1>2, <1>4 DEF SavingAt

\* What Saved, Inserted, NotSaved and SavedOrNot do to them.
LEMMA AnswerSlots ==
    ASSUME CoreInv, NEW s \in Slots, Saved(s) \/ Inserted(s) \/ NotSaved(s) \/ SavedOrNot(s)
    PROVE  SaveEnds(s)
<1>1. SavingAt(s) /\ is_saving' = FALSE
  BY DEF Saved, Inserted, NotSaved, SavedOrNot, Answered, Idle, SavingAt
<1>2. CASE NotSaved(s)
  <2>1. requests' = [requests EXCEPT ![s] = None] /\ requests \in [Slots -> Requests \cup {None}]
    BY <1>2 DEF NotSaved, CoreInv
  <2>2. QED
    BY <1>1, <2>1 DEF SaveEnds, SavingAt
<1>3. CASE Saved(s)
  BY <1>1, <1>3, RefreshEnds DEF Saved, SaveEnds
<1>4. CASE Inserted(s)
  BY <1>1, <1>4, RefreshEnds DEF Inserted, SaveEnds
<1>5. CASE SavedOrNot(s)
  BY <1>1, <1>5, RefreshEnds DEF SavedOrNot, SaveEnds
<1>6. QED
  BY <1>2, <1>3, <1>4, <1>5

\* What sending a save does to them.
LEMMA SendSlots ==
    ASSUME CoreInv, RestType, NEW s \in Slots, Save(s) \/ Cancel(s)
    PROVE  /\ UNCHANGED <<inserts, new_names, unanswered, locals, shown>>
           /\ \/ UNCHANGED <<requests, is_saving>>
              \/ /\ ~is_saving /\ is_saving' = TRUE /\ SavingAt(s)' /\ Idle(s)
                 /\ requests'[s].key = shown
                 /\ \A u \in Slots \ {s} : requests'[u] = requests[u]
<1>1. PICK kind \in {"savedocs", "cancel"} : Send(kind, s) /\ clicked.action \in Actions
  BY DEF Save, Cancel, RestType
<1>2. UNCHANGED <<inserts, new_names, unanswered, locals, shown>>
  BY <1>1 DEF Send, server, form
<1>3. CASE ~is_saving
  <2> DEFINE r == Ask(kind, shown, Args(kind), clicked.action)
  <2>1. FormDoc # None /\ Idle(s) /\ is_saving' = TRUE /\ requests' = [requests EXCEPT ![s] = r]
    BY <1>1, <1>3 DEF Send
  <2>2. r \in Requests
    BY <1>1, <2>1, FormDocOK DEF Ask, Args, Requests
  <2>3. r # None /\ r.kind = kind /\ r.key = shown
    BY <2>2, NoneAssumption DEF Ask
  <2>4. QED
    BY <1>2, <1>3, <2>1, <2>3 DEF CoreInv, SavingAt
<1>4. QED
  BY <1>1, <1>2, <1>3 DEF Send

LEMMA SerialStep ==
    ASSUME CoreInv, RestType, SerialInv, [Next]_vars
    PROVE  SerialInv'
<1>1. ASSUME NEW s \in Slots, Save(s) \/ Cancel(s) PROVE SerialInv'
  <2>1. CASE UNCHANGED <<requests, is_saving>>
    BY <2>1 DEF SerialInv, SavingAt
  <2>2. CASE ~is_saving /\ is_saving' = TRUE /\ SavingAt(s)'
             /\ \A u \in Slots \ {s} : requests'[u] = requests[u]
    <3>1. \A u \in Slots \ {s} : ~SavingAt(u)'
      BY <2>2 DEF SerialInv, SavingAt
    <3>2. QED
      BY <2>2, <3>1 DEF SerialInv
  <2>3. QED
    BY <1>1, <2>1, <2>2, SendSlots
<1>2. ASSUME NEW s \in Slots,
             ServeSave(s) \/ ServeCancel(s) \/ \E d \in Docs : ServeInsert(s, d)
      PROVE  SerialInv'
  <2>1. UNCHANGED is_saving /\ \A u \in Slots : SavingAt(u)' <=> SavingAt(u)
    BY <1>2, ServeSlots DEF SavingAt
  <2>2. QED
    BY <2>1 DEF SerialInv
<1>3. ASSUME NEW s \in Slots, Saved(s) \/ Inserted(s) \/ NotSaved(s) \/ SavedOrNot(s)
      PROVE  SerialInv'
  <2>1. SaveEnds(s)
    BY <1>3, AnswerSlots
  <2>2. \A u \in Slots : ~SavingAt(u)'
    BY <2>1 DEF SaveEnds, SerialInv, SavingAt
  <2>3. QED
    BY <2>1, <2>2 DEF SaveEnds, SerialInv
<1>4. CASE SavesStay
  <2>1. \A u \in Slots : SavingAt(u)' <=> SavingAt(u)
    BY <1>4 DEF SavesStay, SavingAt
  <2>2. QED
    BY <1>4, <2>1 DEF SavesStay, SerialInv
<1>5. QED
  BY <1>1, <1>2, <1>3, <1>4, OthersStay

LEMMA SerialInit == Init => SerialInv
  BY DEF Init, SerialInv, SavingAt

LEMMA SerialIsOne == SerialInv => OneSaveAtATime
  BY DEF SerialInv, OneSaveAtATime, SavingAt, Idle

\* At most one save is in flight, and is_saving tells so.
THEOREM SavesAreSerial == Spec => []OneSaveAtATime
<1>1. SerialInv /\ CoreInv /\ RestType /\ [Next]_vars => SerialInv'
  BY SerialStep
<1>2. QED
  BY InvInit, InvStep, SerialInit, SerialIsOne, <1>1, PTL DEF Spec

-----------------------------------------------------------------------------
(***************************************************************************)
(* A new document is inserted once.                                        *)
(***************************************************************************)
Inserting(s) == requests[s] # None /\ requests[s].kind = "savedocs" /\ requests[s].key = New

\* The tab has no local copy of the new document.
NewIsGone == locals[New] = None /\ shown # New

\* Once the document has been inserted, the answer is on its way, or was taken,
\* and then the tab has nothing left to insert, or was lost.
InsertInv ==
    /\ new_names # None => NewIsGone /\ \A s \in Slots : ~Inserting(s)
    /\ (inserts > 0 /\ new_names = None /\ ~unanswered) =>
            \E s \in Slots : Inserting(s) /\ requests[s].reply = "ok"

LEMMA RefreshNew ==
    ASSUME NEW k, k # New, NEW copies, copies[New] = None, copies \in [Keys -> Copy \cup {None}],
           NEW s \in Slots, Refresh(k, copies, s)
    PROVE  NewIsGone'
  BY SomeKeys DEF Refresh, NewIsGone

LEMMA SetValueNew ==
    ASSUME NEW copies, copies \in [Keys -> Copy \cup {None}], copies[New] = None,
           NEW k \in Keys, NEW c
    PROVE  SetValue(k, c, copies)[New] = None
<1>1. CASE copies[k] = None
  BY <1>1 DEF SetValue
<1>2. CASE copies[k] # None
  <2>1. k # New
    BY <1>2
  <2>2. QED
    BY <1>2, <2>1, SomeKeys DEF SetValue
<1>3. QED
  BY <1>1, <1>2

\* The local copy does not come back: a second one is never made.
LEMMA NewStaysGone ==
    ASSUME CoreInv, new_names # None, NewIsGone, [Next]_vars
    PROVE  NewIsGone'
<1>1. locals \in [Keys -> Copy \cup {None}] /\ locals[New] = None /\ shown # New
  BY DEF CoreInv, CopiesOK, NewIsGone
<1>2. ASSUME UNCHANGED <<locals, shown>> PROVE NewIsGone'
  BY <1>2 DEF NewIsGone
<1>3. ASSUME NEW d \in Docs, NEW copy PROVE Sync(d, copy)[New] = None
  BY <1>1, SomeKeys DEF Sync
<1>4. ASSUME NEW s \in Slots, NEW k \in Keys, OpenDoc(k, s) PROVE NewIsGone'
  <2>1. k # New
    BY <1>4 DEF OpenDoc
  <2>2. CASE locals[k] # None
    <3>1. Refresh(k, locals, s)
      BY <1>4, <2>2 DEF OpenDoc
    <3>2. QED
      BY <1>1, <2>1, <3>1, RefreshNew
  <2>3. CASE locals[k] = None
    BY <1>2, <1>4, <2>3 DEF OpenDoc
  <2>4. QED
    BY <2>2, <2>3
<1>5. ASSUME NEW s \in Slots, NewDoc(s) PROVE FALSE
  BY <1>5 DEF NewDoc
<1>6. ASSUME NEW s \in Slots, UserReload(s) PROVE NewIsGone'
  <2>1. locals' = [locals EXCEPT ![shown] = None] /\ shown' = shown
    BY <1>6 DEF UserReload
  <2>2. QED
    BY <1>1, <2>1, SomeKeys DEF NewIsGone
<1>7. ASSUME NEW c \in Changes, Type(c) PROVE NewIsGone'
  <2>1. locals' = SetValue(shown, c, locals) /\ shown' = shown /\ FormDoc # None
    BY <1>7 DEF Type, Editable, form
  <2>2. shown \in Keys
    BY <2>1, FormDocOK
  <2>3. QED
    BY <1>1, <2>1, <2>2, SetValueNew DEF NewIsGone
<1>8. CASE User
  <2>1. ASSUME NEW s \in Slots, Save(s) \/ Cancel(s) PROVE NewIsGone'
    BY <1>2, <2>1 DEF Save, Cancel, Send, form
  <2>2. ASSUME NEW s \in Slots, NEW c \in Changes, Choose(c, s) PROVE NewIsGone'
    BY <1>2, <2>2 DEF Choose, form
  <2>3. ASSUME OpenList \/ ConfirmSubmit \/ GiveUp
               \/ \E a \in {"Save", "Submit", "Update", "Cancel"} : Click(a)
        PROVE  NewIsGone'
    BY <1>2, <2>3 DEF OpenList, ConfirmSubmit, GiveUp, Click, form
  <2>4. QED
    BY <1>4, <1>5, <1>6, <1>7, <1>8, <2>1, <2>2, <2>3 DEF User
<1>9. CASE Server
  BY <1>2, <1>9 DEF Server, ServeGetDoc, ServeSave, ServeCancel, ServeLink, ServeInsert, Elsewhere,
     form
<1>10. ASSUME NEW s \in Slots, Answer(s) PROVE NewIsGone'
  <2> DEFINE r == requests[s]
  <2>1. CASE GotDoc(s)
    <3>1. r.key \in Docs
      BY <2>1 DEF GotDoc, Answered, Idle, CoreInv, RequestOK
    <3>2. r.answer \in Copy /\ Follows(r.answer, rows[r.key])
      BY <2>1 DEF GotDoc, Answered, Idle, CoreInv, RequestOK, Requests
    <3>3. Sync(r.key, r.answer)[New] = None
      BY <1>3, <3>1
    <3>4. Sync(r.key, r.answer) \in [Keys -> Copy \cup {None}]
      BY <3>1, <3>2, SyncOK DEF CopiesOK
    <3>5. Refresh(IF r.action = "open" THEN r.key ELSE shown, Sync(r.key, r.answer), s)
      BY <2>1 DEF GotDoc
    <3>6. (IF r.action = "open" THEN r.key ELSE shown) # New
      BY <1>1, <3>1, SomeKeys
    <3>7. QED
      BY <3>3, <3>4, <3>5, <3>6, RefreshNew
  <2>2. CASE Saved(s)
    <3>1. r.name \in Docs /\ Sync(r.name, r.answer) \in [Keys -> Copy \cup {None}]
      BY <2>2, AnswerOK DEF Saved, CopiesOK
    <3>2. Sync(r.name, r.answer)[New] = None
      BY <1>3, <3>1
    <3>3. Refresh(shown, Sync(r.name, r.answer), s)
      BY <2>2 DEF Saved
    <3>4. QED
      BY <1>1, <3>1, <3>2, <3>3, RefreshNew
  <2>3. CASE Inserted(s)
    <3> DEFINE copies == [Sync(r.name, r.answer) EXCEPT ![New] = None]
               k == IF shown = New THEN r.name ELSE shown
    <3>1. r.name \in Docs /\ Sync(r.name, r.answer) \in [Keys -> Copy \cup {None}]
      BY <2>3, AnswerOK DEF Inserted, CopiesOK
    <3>2. copies \in [Keys -> Copy \cup {None}] /\ copies[New] = None /\ k # New
      BY <3>1, SomeKeys
    <3>3. Refresh(k, copies, s)
      BY <2>3 DEF Inserted
    <3>4. QED
      BY <3>2, <3>3, RefreshNew
  <2>4. CASE SavedOrNot(s)
    BY <1>1, <2>4, RefreshNew DEF SavedOrNot
  <2>5. CASE GotNoDoc(s) \/ NotSaved(s) \/ LinkIsLost(s)
    BY <1>2, <2>5 DEF GotNoDoc, NotSaved, LinkIsLost, form
  <2>6. CASE LinkIsValid(s)
    <3>1. r \in Requests /\ r.action \in Changes /\ r.key \in Keys
      BY <2>6 DEF LinkIsValid, Answered, Idle, CoreInv, RequestOK, Requests
    <3>2. shown \in Keys \cup {None} /\ detached \in Copy \cup {None} /\ shown' = shown
      BY <2>6 DEF LinkIsValid, CoreInv, FormOK, form
    <3> DEFINE fetched == SetValue(r.key, r.action, locals)
    <3>3. fetched \in [Keys -> Copy \cup {None}] /\ fetched[New] = None
      BY <1>1, <3>1, <3>2, SetValueOK, SetValueNew DEF CoreInv, CopiesOK
    <3>4. shown # None => SetValue(shown, r.action, fetched)[New] = None
      BY <3>1, <3>2, <3>3, SetValueNew
    <3>5. locals' = IF shown = None THEN fetched ELSE SetValue(shown, r.action, fetched)
      BY <2>6 DEF LinkIsValid
    <3>6. QED
      BY <1>1, <3>2, <3>3, <3>4, <3>5 DEF NewIsGone
  <2>7. QED
    BY <1>10, <2>1, <2>2, <2>3, <2>4, <2>5, <2>6 DEF Answer
<1>11. CASE Realtime
  <2>1. ASSUME NEW d \in Docs, NEW v, DocUpdate(d, v) PROVE NewIsGone'
    <3>1. CASE IgnoreEvent(d, v) \/ MissEvent(d, v)
      BY <1>2, <3>1 DEF IgnoreEvent, MissEvent
    <3>2. CASE MarkCopy(d, v)
      <4>1. locals' = [locals EXCEPT ![d].needs_refresh = TRUE] /\ shown' = shown /\ d # New
        BY <3>2, SomeKeys DEF MarkCopy
      <4>2. QED
        BY <1>1, <4>1, SomeKeys DEF NewIsGone
    <3>3. CASE DropCopy(d, v)
      <4>1. locals' = [locals EXCEPT ![d] = None] /\ shown' = shown
        BY <3>3 DEF DropCopy
      <4>2. QED
        BY <1>1, <4>1, SomeKeys DEF NewIsGone
    <3>4. ASSUME NEW s \in Slots, ShowEvent(d, v, s) PROVE NewIsGone'
      <4> DEFINE marked == [locals EXCEPT ![d].needs_refresh = TRUE]
      <4>1. Refresh(d, marked, s) /\ locals[d] # None /\ d # New
        BY <3>4, SomeKeys DEF ShowEvent
      <4>2. marked \in [Keys -> Copy \cup {None}]
        BY <4>1, MarkedOK DEF CopiesOK
      <4>3. marked[New] = None
        BY <1>1, <4>1, SomeKeys
      <4>4. QED
        BY <4>1, <4>2, <4>3, RefreshNew
    <3>5. QED
      BY <2>1, <3>1, <3>2, <3>3, <3>4 DEF DocUpdate
  <2>2. ASSUME Disconnect \/ \E d \in Docs : Join(d) PROVE NewIsGone'
    BY <1>2, <2>2 DEF Disconnect, Join, form
  <2>3. QED
    BY <1>11, <2>1, <2>2 DEF Realtime
<1>12. CASE UNCHANGED vars
  BY <1>2, <1>12 DEF vars, form
<1>13. QED
  BY <1>8, <1>9, <1>10, <1>11, <1>12 DEF Next

LEMMA InsertStep ==
    ASSUME CoreInv, RestType, SerialInv, InsertInv, [Next]_vars
    PROVE  InsertInv'
<1>1. new_names # None => NewIsGone'
  BY NewStaysGone DEF InsertInv
<1>2. ASSUME NEW s \in Slots, Save(s) \/ Cancel(s) PROVE InsertInv'
  <2>1. UNCHANGED <<inserts, new_names, unanswered, locals, shown>>
    BY <1>2, SendSlots
  <2>2. CASE UNCHANGED <<requests, is_saving>>
    BY <2>1, <2>2 DEF InsertInv, NewIsGone, Inserting
  <2>3. CASE ~is_saving /\ Idle(s) /\ requests'[s].key = shown
             /\ \A u \in Slots \ {s} : requests'[u] = requests[u]
    <3>1. new_names # None => \A u \in Slots : ~Inserting(u)'
      BY <2>1, <2>3 DEF InsertInv, NewIsGone, Inserting
    <3>2. \A u \in Slots : Inserting(u) /\ requests[u].reply = "ok"
                                => Inserting(u)' /\ requests'[u].reply = "ok"
      BY <2>3 DEF Inserting, Idle
    <3>3. QED
      BY <1>1, <2>1, <3>1, <3>2 DEF InsertInv
  <2>4. QED
    BY <1>2, <2>2, <2>3, SendSlots
<1>3. ASSUME NEW s \in Slots, ServeSave(s) \/ ServeCancel(s) PROVE InsertInv'
  <2>1. /\ UNCHANGED <<inserts, new_names, unanswered>> /\ ~Inserting(s)
        /\ \A u \in Slots \ {s} : requests'[u] = requests[u] /\ ~Inserting(s)'
    BY <1>3, ServeSlots DEF ServeSave, ServeCancel, Inserting
  <2>2. ~Inserting(s)'
    BY <1>3, ServeSlots DEF ServeSave, ServeCancel, Inserting
  <2>3. \A u \in Slots : (Inserting(u)' <=> Inserting(u))
                        /\ (Inserting(u) => requests'[u] = requests[u])
    BY <2>1, <2>2 DEF Inserting
  <2>4. QED
    BY <1>1, <2>1, <2>3 DEF InsertInv
<1>4. ASSUME NEW s \in Slots, NEW d \in Docs, ServeInsert(s, d) PROVE InsertInv'
  <2>1. Inserting(s)
    BY <1>4 DEF ServeInsert, Inserting, Idle
  <2>2. Inserting(s)' /\ requests'[s].reply = "ok" /\ UNCHANGED new_names
    BY <1>4, <2>1, ServeSlots DEF Inserting, SavingAt
  <2>3. new_names = None
    BY <2>1 DEF InsertInv
  <2>4. QED
    BY <2>2, <2>3 DEF InsertInv
<1>5. ASSUME NEW s \in Slots, Saved(s) \/ NotSaved(s) PROVE InsertInv'
  <2>1. SaveEnds(s) /\ UNCHANGED <<inserts, new_names, unanswered>>
    BY <1>5, AnswerSlots DEF Saved, NotSaved, server
  <2>2. ~Inserting(s)' /\ ~(Inserting(s) /\ requests[s].reply = "ok")
    BY <1>5, <2>1 DEF Saved, NotSaved, SaveEnds, SavingAt, Inserting
  <2>3. /\ \A u \in Slots : Inserting(u)' => Inserting(u)
        /\ \A u \in Slots : (Inserting(u) /\ requests[u].reply = "ok")
                              => Inserting(u)' /\ requests'[u].reply = "ok"
    BY <2>1, <2>2 DEF SaveEnds, Inserting
  <2>4. QED
    BY <1>1, <2>1, <2>3 DEF InsertInv
<1>6. ASSUME NEW s \in Slots, SavedOrNot(s) PROVE InsertInv'
  <2>1. SaveEnds(s) /\ UNCHANGED new_names /\ unanswered' = TRUE
    BY <1>6, AnswerSlots DEF SavedOrNot
  <2>2. \A u \in Slots : Inserting(u)' => Inserting(u)
    BY <2>1 DEF SaveEnds, Inserting, SavingAt
  <2>3. QED
    BY <1>1, <2>1, <2>2 DEF InsertInv
<1>7. ASSUME NEW s \in Slots, Inserted(s) PROVE InsertInv'
  <2> DEFINE r == requests[s]
             copies == [Sync(r.name, r.answer) EXCEPT ![New] = None]
             k == IF shown = New THEN r.name ELSE shown
  <2>1. r.name \in Docs /\ Sync(r.name, r.answer) \in [Keys -> Copy \cup {None}]
    BY <1>7, AnswerOK DEF Inserted, CopiesOK
  <2>2. copies \in [Keys -> Copy \cup {None}] /\ copies[New] = None /\ k # New
    BY <2>1, SomeKeys
  <2>3. Refresh(k, copies, s) /\ new_names' = r.name
    BY <1>7 DEF Inserted
  <2>4. NewIsGone'
    BY <2>2, <2>3, RefreshNew
  <2>5. SaveEnds(s)
    BY <1>7, AnswerSlots
  <2>6. \A u \in Slots : ~Inserting(u)'
    BY <2>5 DEF SaveEnds, SerialInv, Inserting, SavingAt
  <2>7. new_names' # None
    BY <2>1, <2>3, SomeKeys
  <2>8. QED
    BY <2>4, <2>6, <2>7 DEF InsertInv
<1>8. CASE SavesStay
  <2>1. \A u \in Slots : (Inserting(u)' <=> Inserting(u))
                        /\ (Inserting(u) => requests'[u] = requests[u])
    BY <1>8 DEF SavesStay, SavingAt, Inserting
  <2>2. QED
    BY <1>1, <1>8, <2>1 DEF InsertInv, SavesStay
<1>9. QED
  BY <1>2, <1>3, <1>4, <1>5, <1>6, <1>7, <1>8, OthersStay

\* A new document is inserted once, as long as no answer is lost.
THEOREM NewIsInsertedOnce == Spec => []InsertedOnce
<1>1. Init => InsertInv
  BY DEF Init, InsertInv, Inserting
<1>2. SerialInv /\ InsertInv => InsertedOnce
  <2> SUFFICES ASSUME SerialInv, InsertInv PROVE InsertedOnce
    OBVIOUS
  <2>1. ASSUME inserts > 0, ~unanswered, NEW s \in Slots, Answered(s, "savedocs", "none")
        PROVE  requests[s].key # New
    <3> SUFFICES ASSUME requests[s].key = New PROVE FALSE
      OBVIOUS
    <3>1. Inserting(s) /\ SavingAt(s) /\ requests[s].reply = "none"
      BY <2>1 DEF Answered, Idle, Inserting, SavingAt
    <3>2. PICK t \in Slots : Inserting(t) /\ requests[t].reply = "ok"
      BY <2>1, <3>1 DEF InsertInv
    <3>3. s = t
      BY <3>1, <3>2 DEF SerialInv, SavingAt, Inserting
    <3>4. QED
      BY <3>1, <3>2, <3>3
  <2>2. QED
    BY <2>1 DEF InsertInv, NewIsGone, InsertedOnce
<1>3. CoreInv /\ RestType /\ SerialInv /\ InsertInv /\ [Next]_vars => InsertInv'
  BY InsertStep
<1>4. SerialInv /\ CoreInv /\ RestType /\ [Next]_vars => SerialInv'
  BY SerialStep
<1>5. QED
  BY InvInit, InvStep, SerialInit, <1>1, <1>2, <1>3, <1>4, PTL DEF Spec

=============================================================================
