----------------------- MODULE DeskFormCopies_proofs -----------------------
(***************************************************************************)
(* What becomes of the copies of a tab: the changes that are made in them  *)
(* (ChangesAreKept) and the events that tell that they are old             *)
(* (QuietCopiesAreFresh), for every value of the constants.                *)
(***************************************************************************)
EXTENDS DeskForm_proofs

(***************************************************************************)
(* The changes.  A copy may be dropped or replaced only if what it has is  *)
(* in its row as well: this is so of a copy that is not marked as unsaved, *)
(* and, but for links, of one whose document is being loaded, since the    *)
(* page is frozen then.                                                    *)
(***************************************************************************)
Clean(copies, table, lost) ==
    \A d \in Docs : copies[d] # None /\ ~copies[d].unsaved =>
        copies[d].val \cap Changes \subseteq table[d].val \cup lost

ReadIsClean(r, copies, table, lost) ==
    r # None /\ r.kind = "getdoc" /\ copies[r.key] # None =>
        (copies[r.key].val \cap Changes) \ Links \subseteq table[r.key].val \cup lost

\* An answer has what was sent, and the row has it too; cancel() sends nothing,
\* and a link field is checked for one change.
AnswerIsSaved(r, table) ==
    r # None =>
        /\ r.reply = "ok" /\ r.kind # "link" => r.answer.val \subseteq table[r.name].val
        /\ r.reply = "ok" /\ r.kind = "savedocs" => r.copy.val \subseteq r.answer.val
        /\ r.kind = "cancel" => r.copy = None
        /\ r.kind = "link" => r.action \in Links

InCopies(copies, c) == \E k \in Keys : copies[k] # None /\ c \in copies[k].val

InRows(c) == \E d \in Docs : rows[d] # None /\ c \in rows[d].val

Carries(r, c) == r # None /\ r.kind = "link" /\ r.action = c

Somewhere(c) == InCopies(locals, c) \/ InRows(c) \/ \E u \in Slots : Carries(requests[u], c)

KeptInv ==
    /\ detached # None => locals[shown] = None
    /\ Clean(locals, rows, gone)
    /\ \A u \in Slots : /\ ReadIsClean(requests[u], locals, rows, gone)
                        /\ AnswerIsSaved(requests[u], rows)
    /\ \A c \in typed \ gone : Somewhere(c)

\* These copies may take the place of locals when the request in slot s ends.
Fit(copies, s, lost) ==
    /\ Clean(copies, rows, lost)
    /\ \A u \in Slots \ {s} : ReadIsClean(requests[u], copies, rows, lost)
    /\ \A c \in typed \ lost :
          InCopies(copies, c) \/ InRows(c) \/ \E u \in Slots \ {s} : Carries(requests[u], c)

LEMMA RefreshFits ==
    ASSUME CoreInv, KeptInv, typed \subseteq Changes, NEW k \in Keys \cup {None}, NEW copies,
           CopiesOK(copies, rows), NEW s \in Slots, Refresh(k, copies, s),
           UNCHANGED <<rows, typed>>, Fit(copies, s, gone')
    PROVE  KeptInv'
<1>1. requests \in [Slots -> Requests \cup {None}]
  BY DEF CoreInv
<1>2. copies \in [Keys -> Copy \cup {None}] /\ \A d \in Docs : copies[d] # None => rows[d] # None
  BY DEF CopiesOK, Follows
<1>3. requests' = [requests EXCEPT ![s] = requests'[s]]
      /\ (requests'[s] = None \/ requests'[s] = GetDoc(k, "reload"))
  BY <1>1 DEF Refresh
<1>4. \A u \in Slots \ {s} : requests'[u] = requests[u]
  BY <1>1, <1>3
<1>5. ~(\E c : Carries(requests'[s], c)) /\ AnswerIsSaved(requests'[s], rows')
  BY <1>3 DEF Carries, AnswerIsSaved, GetDoc, Ask
<1>6. \A u \in Slots : AnswerIsSaved(requests'[u], rows')
  BY <1>4, <1>5 DEF KeptInv
<1>7. CASE k # None /\ k # New /\ MustReload(copies[k])
  <2>1. locals' = [copies EXCEPT ![k] = None] /\ detached' = copies[k] /\ shown' = k
        /\ requests'[s] = GetDoc(k, "reload")
    BY <1>1, <1>7 DEF Refresh
  <2>2. k \in Docs /\ k \in Keys /\ copies[k] # None /\ ~copies[k].unsaved /\ rows[k] # None
    BY <1>2, <1>7 DEF MustReload, Keys
  <2>3. locals'[k] = None /\ \A j \in Keys \ {k} : locals'[j] = copies[j]
    BY <1>2, <2>1, <2>2
  <2>4. copies[k].val \cap Changes \subseteq rows[k].val \cup gone'
    BY <2>2 DEF Fit, Clean
  <2>5. Clean(locals', rows', gone')
    BY <2>3, SomeKeys DEF Fit, Clean
  <2>6. ASSUME NEW u \in Slots PROVE ReadIsClean(requests'[u], locals', rows', gone')
    <3>1. CASE u = s
      BY <2>1, <2>3, <3>1 DEF ReadIsClean, GetDoc, Ask
    <3>2. CASE u # s
      <4>1. requests[u] # None /\ requests[u].kind = "getdoc" => requests[u].key \in Keys
        BY <1>1 DEF Requests
      <4>2. QED
        BY <1>4, <2>3, <3>2, <4>1 DEF Fit, ReadIsClean
    <3>3. QED
      BY <3>1, <3>2
  <2>7. ASSUME NEW c \in typed' \ gone' PROVE Somewhere(c)'
    <3>1. CASE InCopies(copies, c)
      <4>1. PICK j \in Keys : copies[j] # None /\ c \in copies[j].val
        BY <3>1 DEF InCopies
      <4>2. CASE j = k
        BY <2>2, <2>4, <2>7, <4>1, <4>2 DEF Somewhere, InRows
      <4>3. CASE j # k
        BY <2>3, <4>1, <4>3 DEF Somewhere, InCopies
      <4>4. QED
        BY <4>2, <4>3
    <3>2. CASE InRows(c)
      BY <3>2 DEF Somewhere, InRows
    <3>3. CASE \E u \in Slots \ {s} : Carries(requests[u], c)
      BY <1>4, <3>3 DEF Somewhere
    <3>4. QED
      BY <2>7, <3>1, <3>2, <3>3 DEF Fit
  <2>8. QED
    BY <1>6, <2>1, <2>3, <2>5, <2>6, <2>7 DEF KeptInv
<1>8. CASE ~(k # None /\ k # New /\ MustReload(copies[k]))
  <2>1. locals' = copies /\ detached' = None /\ requests'[s] = None
    BY <1>1, <1>8 DEF Refresh
  <2>2. Clean(locals', rows', gone')
    BY <2>1 DEF Fit
  <2>3. \A u \in Slots : ReadIsClean(requests'[u], locals', rows', gone')
    BY <1>4, <2>1 DEF Fit, ReadIsClean
  <2>4. \A c \in typed' \ gone' : Somewhere(c)'
    BY <1>4, <2>1 DEF Fit, Somewhere, InRows
  <2>5. QED
    BY <1>6, <2>1, <2>2, <2>3, <2>4 DEF KeptInv
<1>9. QED
  BY <1>7, <1>8

\* The copies stay; rows only grow, requests are answered or made.
LEMMA SameCopies ==
    ASSUME CoreInv, CoreInv', KeptInv, UNCHANGED <<locals, shown, detached>>,
           gone \subseteq gone',
           \A d \in Docs : rows[d] # None => rows'[d] # None /\ rows[d].val \subseteq rows'[d].val,
           \A u \in Slots : /\ ReadIsClean(requests'[u], locals, rows, gone)
                            /\ AnswerIsSaved(requests'[u], rows')
                            /\ \A c : Carries(requests[u], c) /\ c \notin gone'
                                        => Carries(requests'[u], c),
           \A c \in typed' \ (typed \cup gone') : \E u \in Slots : Carries(requests'[u], c)
    PROVE  KeptInv'
<1>1. \A d \in Docs : locals[d] # None => rows[d] # None
  BY DEF CoreInv, CopiesOK, Follows
<1>2. Clean(locals', rows', gone')
  BY <1>1 DEF KeptInv, Clean
<1>3. ASSUME NEW u \in Slots PROVE ReadIsClean(requests'[u], locals', rows', gone')
  <2>1. requests'[u] # None /\ requests'[u].kind = "getdoc" => requests'[u].key \in Docs
    BY DEF CoreInv, RequestOK
  <2>2. QED
    BY <1>1, <2>1 DEF ReadIsClean
<1>4. ASSUME NEW c \in typed' \ gone' PROVE Somewhere(c)'
  <2>1. CASE c \in typed
    <3>1. Somewhere(c)
      BY <1>4, <2>1 DEF KeptInv
    <3>2. QED
      BY <1>4, <3>1 DEF Somewhere, InCopies, InRows
  <2>2. CASE c \notin typed
    BY <1>4, <2>2 DEF Somewhere
  <2>3. QED
    BY <2>1, <2>2
<1>5. QED
  BY <1>2, <1>3, <1>4 DEF KeptInv

-----------------------------------------------------------------------------
(***************************************************************************)
(* The steps of the user.                                                  *)
(***************************************************************************)

\* A request is made in a free slot.
LEMMA AskKeeps ==
    ASSUME CoreInv, CoreInv', KeptInv, NEW s \in Slots, Idle(s), NEW r,
           requests' = [requests EXCEPT ![s] = r], ReadIsClean(r, locals, rows, gone),
           r.reply = "none", r.kind = "cancel" => r.copy = None,
           r.kind = "link" => r.action \in Links,
           UNCHANGED <<rows, locals, shown, detached>>, gone \subseteq gone',
           \A c \in typed' \ (typed \cup gone') : Carries(r, c)
    PROVE  KeptInv'
<1>1. requests'[s] = r /\ \A u \in Slots \ {s} : requests'[u] = requests[u]
  BY DEF CoreInv
<1>2. \A u \in Slots : /\ ReadIsClean(requests'[u], locals, rows, gone)
                       /\ AnswerIsSaved(requests'[u], rows')
  BY <1>1 DEF KeptInv, AnswerIsSaved
<1>3. \A u \in Slots : \A c : Carries(requests[u], c) => Carries(requests'[u], c)
  BY <1>1 DEF Idle, Carries
<1>4. QED
  BY <1>1, <1>2, <1>3, SameCopies

\* Nothing happens to the documents.
LEMMA NothingHappens ==
    ASSUME CoreInv, CoreInv', KeptInv,
           UNCHANGED <<rows, locals, shown, detached, requests, typed>>, gone \subseteq gone'
    PROVE  KeptInv'
<1>1. \A u \in Slots : /\ ReadIsClean(requests[u], locals, rows, gone)
                       /\ AnswerIsSaved(requests[u], rows)
  BY DEF KeptInv
<1>2. QED
  BY <1>1, SameCopies

\* The copies of the tab as they are.
LEMMA LocalsFit ==
    ASSUME KeptInv, NEW s \in Slots, requests[s] = None \/ requests[s].kind # "link"
    PROVE  Fit(locals, s, gone)
  BY DEF KeptInv, Fit, Somewhere, Carries

LEMMA OpenDocKeeps ==
    ASSUME CoreInv, CoreInv', KeptInv, typed \subseteq Changes, NEW k \in Keys, NEW s \in Slots,
           OpenDoc(k, s)
    PROVE  KeptInv'
<1>1. Idle(s) /\ UNCHANGED <<rows, typed, gone>>
  BY DEF OpenDoc, server, ghosts
<1>2. CASE locals[k] # None
  <2>1. Refresh(k, locals, s)
    BY <1>2 DEF OpenDoc
  <2>2. Fit(locals, s, gone') /\ CopiesOK(locals, rows)
    BY <1>1, LocalsFit DEF Idle, CoreInv
  <2>3. QED
    BY <1>1, <2>1, <2>2, RefreshFits
<1>3. CASE locals[k] = None
  <2>1. /\ requests' = [requests EXCEPT ![s] = GetDoc(k, "open")]
        /\ UNCHANGED <<locals, shown, detached>>
    BY <1>3 DEF OpenDoc
  <2>2. ReadIsClean(GetDoc(k, "open"), locals, rows, gone) /\ GetDoc(k, "open").reply = "none"
        /\ GetDoc(k, "open").kind = "getdoc"
    BY <1>3 DEF ReadIsClean, GetDoc, Ask
  <2>3. QED
    BY <1>1, <2>1, <2>2, AskKeeps
<1>4. QED
  BY <1>2, <1>3

LEMMA NewDocKeeps ==
    ASSUME CoreInv, KeptInv, typed \subseteq Changes, NEW s \in Slots, NewDoc(s)
    PROVE  KeptInv'
<1> DEFINE copies == [locals EXCEPT ![New] = Blank]
<1>1. locals[New] = None /\ Idle(s) /\ Refresh(New, copies, s) /\ UNCHANGED <<rows, typed, gone>>
  BY DEF NewDoc, server, ghosts
<1>2. locals \in [Keys -> Copy \cup {None}] /\ Blank \in Copy
  BY DEF CoreInv, CopiesOK, Blank, Copy, Values
<1>3. \A j \in Keys \ {New} : copies[j] = locals[j]
  BY <1>2
<1>4. CopiesOK(copies, rows)
  BY <1>2, SomeKeys DEF CoreInv, CopiesOK
<1>5. Fit(locals, s, gone)
  BY <1>1, LocalsFit DEF Idle
<1>6. \A c : InCopies(locals, c) => InCopies(copies, c)
  BY <1>1, <1>3 DEF InCopies
<1>7. \A u \in Slots : ReadIsClean(requests[u], copies, rows, gone)
  <2>1. \A u \in Slots : requests[u] # None /\ requests[u].kind = "getdoc" => requests[u].key \in Docs
    BY DEF CoreInv, RequestOK
  <2>2. QED
    BY <1>3, <2>1, SomeKeys DEF KeptInv, ReadIsClean
<1>8. Clean(copies, rows, gone)
  BY <1>3, SomeKeys DEF KeptInv, Clean
<1>9. Fit(copies, s, gone')
  BY <1>1, <1>5, <1>6, <1>7, <1>8 DEF Fit
<1>10. QED
  BY <1>1, <1>4, <1>9, SomeKeys, RefreshFits

LEMMA TypeKeeps ==
    ASSUME CoreInv, CoreInv', KeptInv, NEW c \in Changes, Type(c)
    PROVE  KeptInv'
<1>1. /\ ~Frozen /\ typed' = typed \cup {c} /\ locals' = SetValue(shown, c, locals)
      /\ gone' = IF locals[shown] = None THEN gone \cup {c} ELSE gone
      /\ UNCHANGED <<rows, shown, detached, requests>>
  BY DEF Type, Editable, server, form
<1>2. CASE locals[shown] = None
  <2>1. UNCHANGED locals /\ gone' = gone \cup {c}
    BY <1>1, <1>2 DEF SetValue
  <2>2. \A u \in Slots : /\ ReadIsClean(requests[u], locals, rows, gone)
                         /\ AnswerIsSaved(requests[u], rows)
    BY DEF KeptInv
  <2>3. QED
    BY <1>1, <2>1, <2>2, SameCopies
<1>3. CASE locals[shown] # None
  <2>1. shown \in Keys
    BY FormDocOK DEF Type, Editable
  <2>2. locals \in [Keys -> Copy \cup {None}] /\ locals[shown] \in Copy
    BY <1>3, <2>1 DEF CoreInv, CopiesOK
  <2>3. detached = None
    BY <1>3 DEF KeptInv
  <2>4. locals' = [locals EXCEPT ![shown] = [locals[shown] EXCEPT !.val = @ \cup {c}, !.unsaved = TRUE]]
    BY <1>1, <1>3, <2>2, <2>3 DEF SetValue, Copy
  <2>5. /\ locals'[shown].val = locals[shown].val \cup {c} /\ locals'[shown].unsaved
        /\ locals'[shown] \in Copy
        /\ \A j \in Keys \ {shown} : locals'[j] = locals[j]
    BY <2>1, <2>2, <2>4 DEF Copy, Values
  <2>6. locals'[shown] # None
    BY <2>5, NoneAssumption
  <2>7. Clean(locals', rows', gone')
    BY <1>1, <1>3, <2>5, SomeKeys DEF KeptInv, Clean
  <2>8. \A u \in Slots : ReadIsClean(requests'[u], locals', rows', gone')
    BY <1>1 DEF Frozen, Idle, ReadIsClean
  <2>9. ASSUME NEW x \in typed' \ gone' PROVE Somewhere(x)'
    <3>1. CASE x = c
      BY <2>1, <2>5, <2>6, <3>1 DEF Somewhere, InCopies
    <3>2. CASE x # c
      <4>1. Somewhere(x)
        BY <1>1, <1>3, <2>9, <3>2 DEF KeptInv
      <4>2. InCopies(locals, x) => InCopies(locals', x)
        <5>1. ASSUME NEW j \in Keys, locals[j] # None, x \in locals[j].val
              PROVE  InCopies(locals', x)
          <6>1. locals'[j] # None /\ x \in locals'[j].val
            BY <2>5, <2>6, <5>1
          <6>2. QED
            BY <6>1 DEF InCopies
        <5>2. QED
          BY <5>1 DEF InCopies
      <4>3. QED
        BY <1>1, <4>1, <4>2 DEF Somewhere, InRows
    <3>3. QED
      BY <3>1, <3>2
  <2>10. QED
    BY <1>1, <2>3, <2>7, <2>8, <2>9 DEF KeptInv
<1>4. QED
  BY <1>2, <1>3

LEMMA ChooseKeeps ==
    ASSUME CoreInv, CoreInv', KeptInv, NEW c \in Changes, NEW s \in Slots, Choose(c, s)
    PROVE  KeptInv'
<1>1. typed' = typed \cup {c} /\ UNCHANGED <<rows, locals, shown, detached>>
  BY DEF Choose, server, form
<1>2. CASE validating
  <2>1. gone' = gone \cup {c} /\ UNCHANGED requests
    BY <1>2 DEF Choose
  <2>2. \A u \in Slots : /\ ReadIsClean(requests[u], locals, rows, gone)
                         /\ AnswerIsSaved(requests[u], rows)
    BY DEF KeptInv
  <2>3. QED
    BY <1>1, <2>1, <2>2, SameCopies
<1>3. CASE ~validating
  <2> DEFINE r == Ask("link", shown, None, c)
  <2>1. Idle(s) /\ requests' = [requests EXCEPT ![s] = r] /\ UNCHANGED gone
    BY <1>3 DEF Choose
  <2>2. r # None
    <3>1. FormDoc # None
      BY DEF Choose, Editable
    <3>2. r \in Requests
      BY <3>1, FormDocOK DEF Ask, Requests
    <3>3. QED
      BY <3>2, NoneAssumption
  <2>3. ReadIsClean(r, locals, rows, gone) /\ r.reply = "none" /\ r.kind = "link"
        /\ r.action \in Links /\ Carries(r, c)
    BY <2>2 DEF ReadIsClean, Ask, Carries, Choose
  <2>4. QED
    BY <1>1, <2>1, <2>3, AskKeeps
<1>4. QED
  BY <1>2, <1>3

LEMMA SendKeeps ==
    ASSUME CoreInv, CoreInv', KeptInv, NEW s \in Slots, Save(s) \/ Cancel(s)
    PROVE  KeptInv'
<1>1. PICK kind \in {"savedocs", "cancel"} : Send(kind, s)
  BY DEF Save, Cancel
<1>2. UNCHANGED <<rows, locals, shown, detached, typed, gone>>
  BY <1>1 DEF Send, server, form
<1>3. CASE is_saving
  BY <1>1, <1>2, <1>3, NothingHappens DEF Send
<1>4. CASE ~is_saving
  <2> DEFINE r == Ask(kind, shown, Args(kind), clicked.action)
  <2>1. Idle(s) /\ requests' = [requests EXCEPT ![s] = r]
    BY <1>1, <1>4 DEF Send
  <2>2. ReadIsClean(r, locals, rows, gone) /\ r.reply = "none"
        /\ (r.kind = "cancel" => r.copy = None) /\ r.kind # "link"
    BY DEF ReadIsClean, Ask, Args
  <2>3. QED
    BY <1>2, <2>1, <2>2, AskKeeps
<1>5. QED
  BY <1>3, <1>4

LEMMA UserReloadKeeps ==
    ASSUME CoreInv, KeptInv, typed \subseteq Changes, NEW s \in Slots, UserReload(s)
    PROVE  KeptInv'
<1>1. /\ Idle(s) /\ FormDoc # None /\ shown # New
      /\ gone' = gone \cup ((FormDoc.val \cap Changes) \ rows[shown].val)
      /\ detached' = FormDoc /\ locals' = [locals EXCEPT ![shown] = None]
      /\ requests' = [requests EXCEPT ![s] = GetDoc(shown, "reload")]
      /\ UNCHANGED <<rows, shown, typed>>
  BY DEF UserReload, server
<1>2. shown \in Docs /\ shown \in Keys /\ rows[shown] # None
  BY <1>1, FormDocOK, SomeKeys DEF Keys
<1>3. requests'[s] = GetDoc(shown, "reload") /\ \A u \in Slots \ {s} : requests'[u] = requests[u]
  BY <1>1 DEF CoreInv
<1>4. locals'[shown] = None /\ \A j \in Keys \ {shown} : locals'[j] = locals[j]
  BY <1>1, <1>2 DEF CoreInv, CopiesOK
<1>5. Clean(locals', rows', gone')
  BY <1>1, <1>4, SomeKeys DEF KeptInv, Clean
<1>6. ASSUME NEW u \in Slots
      PROVE  ReadIsClean(requests'[u], locals', rows', gone') /\ AnswerIsSaved(requests'[u], rows')
  <2>1. CASE u = s
    BY <1>3, <1>4, <2>1 DEF ReadIsClean, AnswerIsSaved, GetDoc, Ask
  <2>2. CASE u # s
    <3>1. requests[u] # None /\ requests[u].kind = "getdoc" => requests[u].key \in Keys
      BY DEF CoreInv, Requests
    <3>2. QED
      BY <1>1, <1>3, <1>4, <2>2, <3>1 DEF KeptInv, ReadIsClean, AnswerIsSaved
  <2>3. QED
    BY <2>1, <2>2
<1>7. ASSUME NEW c \in typed' \ gone' PROVE Somewhere(c)'
  <2>1. Somewhere(c) /\ c \in Changes
    BY <1>1, <1>7 DEF KeptInv
  <2>2. CASE InCopies(locals, c)
    <3>1. PICK j \in Keys : locals[j] # None /\ c \in locals[j].val
      BY <2>2 DEF InCopies
    <3>2. CASE j = shown
      <4>1. FormDoc = locals[shown]
        BY <1>2, <3>1, <3>2, SomeKeys DEF KeptInv, FormDoc
      <4>2. c \in rows[shown].val
        BY <1>1, <1>7, <2>1, <3>1, <3>2, <4>1
      <4>3. QED
        BY <1>1, <1>2, <4>2 DEF Somewhere, InRows
    <3>3. CASE j # shown
      BY <1>4, <3>1, <3>3 DEF Somewhere, InCopies
    <3>4. QED
      BY <3>2, <3>3
  <2>3. CASE InRows(c)
    BY <1>1, <2>3 DEF Somewhere, InRows
  <2>4. CASE \E u \in Slots : Carries(requests[u], c)
    BY <1>1, <1>3, <2>4 DEF Somewhere, Carries, Idle
  <2>5. QED
    BY <2>1, <2>2, <2>3, <2>4 DEF Somewhere
<1>8. QED
  BY <1>1, <1>4, <1>5, <1>6, <1>7 DEF KeptInv

-----------------------------------------------------------------------------
(***************************************************************************)
(* Those of the server.                                                    *)
(***************************************************************************)

\* A reply in slot s, with the rows as they are by then.
LEMMA ReplyIsKept ==
    ASSUME CoreInv, CoreInv', KeptInv, NEW s \in Slots, requests[s] # None,
           NEW answer \in Copy \cup {None}, NEW name \in Docs \cup {None},
           Reply(s, "ok", answer, name),
           requests[s].kind # "link" => answer.val \subseteq rows'[name].val,
           requests[s].kind = "savedocs" => requests[s].copy.val \subseteq answer.val,
           UNCHANGED <<locals, shown, detached, typed, gone>>,
           \A d \in Docs : rows[d] # None => rows'[d] # None /\ rows[d].val \subseteq rows'[d].val
    PROVE  KeptInv'
<1>1. requests \in [Slots -> Requests \cup {None}] /\ requests[s] \in Requests
  BY DEF CoreInv
<1> DEFINE r == [requests[s] EXCEPT !.reply = "ok", !.answer = answer, !.name = name]
<1>2. /\ \A u \in Slots \ {s} : requests'[u] = requests[u]
      /\ requests'[s] = r /\ requests'[s] \in Requests
  <2>1. r \in Requests
    BY <1>1 DEF Requests
  <2>2. requests' = [requests EXCEPT ![s] = r]
    BY <1>1 DEF Reply
  <2>3. QED
    BY <1>1, <2>1, <2>2
<1>3. /\ requests'[s].kind = requests[s].kind /\ requests'[s].key = requests[s].key
      /\ requests'[s].action = requests[s].action /\ requests'[s].copy = requests[s].copy
      /\ requests'[s].answer = answer /\ requests'[s].name = name
  BY <1>1, <1>2 DEF Requests
<1>4. requests'[s] # None
  BY <1>2, NoneAssumption
<1>5. \A u \in Slots : requests[u] # None /\ requests[u].reply = "ok" /\ requests[u].kind # "link"
                        => requests[u].name \in Docs /\ rows[requests[u].name] # None
  BY DEF CoreInv, RequestOK, Requests, Follows
<1>6. ASSUME NEW u \in Slots PROVE AnswerIsSaved(requests'[u], rows')
  <2>1. CASE u = s
    <3>1. /\ requests[s].kind = "cancel" => requests[s].copy = None
          /\ requests[s].kind = "link" => requests[s].action \in Links
      BY DEF KeptInv, AnswerIsSaved
    <3>2. QED
      BY <1>3, <2>1, <3>1 DEF AnswerIsSaved
  <2>2. CASE u # s
    <3>1. requests'[u] = requests[u] /\ AnswerIsSaved(requests[u], rows)
      BY <1>2, <2>2 DEF KeptInv
    <3>2. QED
      BY <1>5, <3>1 DEF AnswerIsSaved
  <2>3. QED
    BY <2>1, <2>2
<1>7. ASSUME NEW u \in Slots PROVE ReadIsClean(requests'[u], locals, rows, gone)
  <2>1. ReadIsClean(requests[u], locals, rows, gone)
    BY DEF KeptInv
  <2>2. CASE u = s
    BY <1>3, <2>1, <2>2 DEF ReadIsClean
  <2>3. CASE u # s
    BY <1>2, <2>1, <2>3
  <2>4. QED
    BY <2>2, <2>3
<1>8. ASSUME NEW u \in Slots, NEW c, Carries(requests[u], c) PROVE Carries(requests'[u], c)
  <2>1. CASE u = s
    BY <1>3, <1>4, <1>8, <2>1 DEF Carries
  <2>2. CASE u # s
    BY <1>2, <1>8, <2>2
  <2>3. QED
    BY <2>1, <2>2
<1>9. QED
  BY <1>6, <1>7, <1>8, SameCopies

LEMMA ServerKeeps ==
    ASSUME CoreInv, CoreInv', [Next]_vars, KeptInv, Server
    PROVE  KeptInv'
<1>1. \A d \in Docs : rows[d] # None => rows'[d] # None /\ rows[d].val \subseteq rows'[d].val
  BY StepKeepsUpdates
<1>2. UNCHANGED <<locals, shown, detached, typed, gone>>
  BY DEF Server, ServeGetDoc, ServeSave, ServeInsert, ServeCancel, ServeLink, Elsewhere, form, ghosts
<1>3. ASSUME NEW s \in Slots, ServeGetDoc(s) PROVE KeptInv'
  <2> DEFINE d == requests[s].key
  <2>1. /\ requests[s] # None /\ requests[s].kind = "getdoc" /\ Reply(s, "ok", Loaded(rows[d]), d)
        /\ UNCHANGED rows
    BY <1>3 DEF ServeGetDoc, Idle, server
  <2>2. d \in Docs /\ rows[d] \in Row
    BY <2>1 DEF CoreInv, RequestOK
  <2>3. Loaded(rows[d]) \in Copy /\ Loaded(rows[d]).val = rows[d].val
    BY <2>2 DEF Loaded, Copy, Row
  <2>4. QED
    BY <1>1, <1>2, <2>1, <2>2, <2>3, ReplyIsKept
<1>4. ASSUME NEW s \in Slots, NEW d \in Docs, NEW val \in Values, NEW docstatus \in 0..2,
             Write(d, val, docstatus), Reply(s, "ok", Loaded(rows'[d]), d), requests[s] # None,
             requests[s].kind # "link",
             requests[s].kind = "savedocs" => requests[s].copy.val \subseteq val
      PROVE  KeptInv'
  <2>1. rows'[d].val = val /\ Loaded(rows'[d]) \in Copy
    BY <1>4, WriteCore
  <2>2. Loaded(rows'[d]).val = val
    BY <2>1 DEF Loaded
  <2>3. QED
    BY <1>1, <1>2, <1>4, <2>1, <2>2, ReplyIsKept
<1>5. ASSUME NEW s \in Slots, ServeSave(s) PROVE KeptInv'
  <2>1. /\ requests[s] # None /\ requests[s].kind = "savedocs" /\ requests[s].key # New
        /\ Write(requests[s].key, requests[s].copy.val, Docstatus(requests[s].action))
        /\ Reply(s, "ok", Loaded(rows'[requests[s].key]), requests[s].key)
    BY <1>5 DEF ServeSave, Idle
  <2>2. requests[s].key \in Docs /\ requests[s].copy.val \in Values
        /\ Docstatus(requests[s].action) \in 0..2
    BY <2>1, SaveArgs DEF Keys
  <2>3. QED
    BY <1>4, <2>1, <2>2
<1>6. ASSUME NEW s \in Slots, NEW d \in Docs, ServeInsert(s, d) PROVE KeptInv'
  <2>1. /\ requests[s] # None /\ requests[s].kind = "savedocs"
        /\ Write(d, requests[s].copy.val, Docstatus(requests[s].action))
        /\ Reply(s, "ok", Loaded(rows'[d]), d)
    BY <1>6 DEF ServeInsert, Idle
  <2>2. requests[s].copy.val \in Values /\ Docstatus(requests[s].action) \in 0..2
    BY <2>1, SaveArgs
  <2>3. QED
    BY <1>4, <2>1, <2>2
<1>7. ASSUME NEW s \in Slots, ServeCancel(s) PROVE KeptInv'
  <2>1. /\ requests[s] # None /\ requests[s].kind = "cancel" /\ requests[s].key # New
        /\ Write(requests[s].key, rows[requests[s].key].val, 2)
        /\ Reply(s, "ok", Loaded(rows'[requests[s].key]), requests[s].key)
    BY <1>7 DEF ServeCancel, Idle
  <2>2. requests[s].key \in Docs /\ rows[requests[s].key] \in Row
    BY <2>1 DEF CoreInv, RequestOK, Requests, Keys
  <2>3. rows[requests[s].key].val \in Values
    BY <2>2 DEF Row
  <2>4. QED
    BY <1>4, <2>1, <2>2, <2>3
<1>8. ASSUME NEW s \in Slots, ServeLink(s) PROVE KeptInv'
  <2>1. requests[s] # None /\ requests[s].kind = "link" /\ Reply(s, "ok", None, None)
    BY <1>8 DEF ServeLink, Idle
  <2>2. QED
    BY <1>1, <1>2, <2>1, ReplyIsKept
<1>9. ASSUME NEW d \in Docs, Elsewhere(d) PROVE KeptInv'
  <2>1. UNCHANGED requests
    BY <1>9 DEF Elsewhere
  <2>2. \A u \in Slots : requests[u] # None /\ requests[u].reply = "ok" /\ requests[u].kind # "link"
                        => requests[u].name \in Docs /\ rows[requests[u].name] # None
    BY DEF CoreInv, RequestOK, Requests, Follows
  <2>3. \A u \in Slots : /\ ReadIsClean(requests[u], locals, rows, gone)
                         /\ AnswerIsSaved(requests[u], rows')
    BY <1>1, <2>2 DEF KeptInv, AnswerIsSaved
  <2>4. QED
    BY <1>1, <1>2, <2>1, <2>3, SameCopies
<1>10. QED
  BY <1>3, <1>5, <1>6, <1>7, <1>8, <1>9 DEF Server

-----------------------------------------------------------------------------
(***************************************************************************)
(* The answers.                                                            *)
(***************************************************************************)

\* What the user has changed in a copy that sync() replaces is in the answer,
\* in the row, or lost.
LEMMA SyncFits ==
    ASSUME CoreInv, KeptInv, typed \subseteq Changes, NEW s \in Slots, requests[s] # None,
           requests[s].kind # "link", NEW d \in Docs, NEW answer \in Copy,
           answer.val \subseteq rows[d].val, Follows(answer, rows[d]), gone \subseteq gone',
           \A c \in Overwritten(d, answer) : c \in rows[d].val \cup gone'
    PROVE  Fit(Sync(d, answer), s, gone')
<1> DEFINE copies == Sync(d, answer)
<1>1. answer # None /\ rows[d] # None
  BY NoneAssumption DEF Follows
<1>2. copies[d] = answer /\ \A k \in Keys \ {d} : copies[k] = locals[k]
  BY SomeKeys DEF Sync, CoreInv, CopiesOK
<1>3. Clean(copies, rows, gone')
  BY <1>2, SomeKeys DEF KeptInv, Clean
<1>4. ASSUME NEW u \in Slots PROVE ReadIsClean(requests[u], copies, rows, gone')
  <2>1. requests[u] # None /\ requests[u].kind = "getdoc" => requests[u].key \in Keys
    BY DEF CoreInv, Requests
  <2>2. ReadIsClean(requests[u], locals, rows, gone)
    BY DEF KeptInv
  <2>3. CASE requests[u] # None /\ requests[u].key = d
    BY <1>2, <2>3 DEF ReadIsClean
  <2>4. CASE requests[u] = None \/ requests[u].key # d
    BY <1>2, <2>1, <2>2, <2>4 DEF ReadIsClean
  <2>5. QED
    BY <2>3, <2>4
<1>5. ASSUME NEW c \in typed \ gone'
      PROVE  InCopies(copies, c) \/ InRows(c) \/ \E u \in Slots \ {s} : Carries(requests[u], c)
  <2>1. Somewhere(c) /\ c \in Changes
    BY <1>5 DEF KeptInv
  <2>2. CASE InCopies(locals, c)
    <3>1. PICK k \in Keys : locals[k] # None /\ c \in locals[k].val
      BY <2>2 DEF InCopies
    <3>2. CASE k = d
      <4>1. c \in answer.val \/ c \in Overwritten(d, answer)
        BY <2>1, <3>1, <3>2 DEF Overwritten
      <4>2. c \in rows[d].val
        BY <1>5, <4>1
      <4>3. QED
        BY <1>1, <4>2 DEF InRows
    <3>3. CASE k # d
      BY <1>2, <3>1, <3>3 DEF InCopies
    <3>4. QED
      BY <3>2, <3>3
  <2>3. CASE \E u \in Slots : Carries(requests[u], c)
    BY <2>3 DEF Carries
  <2>4. QED
    BY <2>1, <2>2, <2>3 DEF Somewhere
<1>6. QED
  BY <1>3, <1>4, <1>5 DEF Fit

LEMMA GotDocKeeps ==
    ASSUME CoreInv, KeptInv, typed \subseteq Changes, NEW s \in Slots, GotDoc(s)
    PROVE  KeptInv'
<1> DEFINE r == requests[s]
           copies == Sync(r.key, r.answer)
           k == IF r.action = "open" THEN r.key ELSE shown
<1>1. /\ r \in Requests /\ RequestOK(r, rows) /\ r # None /\ r.kind = "getdoc" /\ r.reply = "ok"
      /\ Refresh(k, copies, s) /\ gone' = gone \cup (Overwritten(r.key, r.answer) \cap Links)
      /\ UNCHANGED <<rows, typed>>
  BY DEF GotDoc, Answered, Idle, CoreInv, server
<1>2. /\ r.key \in Docs /\ r.name = r.key /\ r.answer \in Copy
      /\ Follows(r.answer, rows[r.key])
  BY <1>1 DEF RequestOK, Requests
<1>3. CopiesOK(copies, rows) /\ k \in Keys \cup {None}
  BY <1>2, SyncOK, SomeKeys DEF CoreInv, FormOK
<1>4. r.answer.val \subseteq rows[r.key].val
  BY <1>1, <1>2 DEF KeptInv, AnswerIsSaved
<1>5. \A c \in Overwritten(r.key, r.answer) : c \in rows[r.key].val \cup gone'
  <2>1. ReadIsClean(r, locals, rows, gone)
    BY DEF KeptInv
  <2>2. QED
    BY <1>1, <2>1 DEF ReadIsClean, Overwritten
<1>6. Fit(copies, s, gone')
  BY <1>1, <1>2, <1>4, <1>5, SyncFits
<1>7. QED
  BY <1>1, <1>3, <1>6, RefreshFits

LEMMA SavedKeeps ==
    ASSUME CoreInv, KeptInv, typed \subseteq Changes, NEW s \in Slots, Saved(s)
    PROVE  KeptInv'
<1> DEFINE r == requests[s]
           copies == Sync(r.name, r.answer)
           sent == IF r.copy = None THEN {} ELSE r.copy.val
<1>1. /\ r \in Requests /\ RequestOK(r, rows) /\ r # None /\ r.kind \in {"savedocs", "cancel"}
      /\ r.reply = "ok" /\ Refresh(shown, copies, s)
      /\ gone' = gone \cup (Overwritten(r.name, r.answer) \ sent) /\ UNCHANGED <<rows, typed>>
  BY DEF Saved, Answered, Idle, CoreInv, server
<1>2. r.name \in Docs /\ r.answer \in Copy /\ Follows(r.answer, rows[r.name])
  BY <1>1 DEF RequestOK, Requests
<1>3. CopiesOK(copies, rows) /\ shown \in Keys \cup {None}
  BY <1>2, SyncOK DEF CoreInv, FormOK
<1>4. /\ r.answer.val \subseteq rows[r.name].val
      /\ r.kind = "savedocs" => sent \subseteq rows[r.name].val
  BY <1>1 DEF KeptInv, AnswerIsSaved
<1>5. r.kind = "cancel" => sent = {}
  BY <1>1 DEF KeptInv, AnswerIsSaved
<1>6. \A c \in Overwritten(r.name, r.answer) : c \in rows[r.name].val \cup gone'
  BY <1>1, <1>4, <1>5
<1>7. Fit(copies, s, gone')
  BY <1>1, <1>2, <1>4, <1>6, SyncFits
<1>8. QED
  BY <1>1, <1>3, <1>7, RefreshFits

LEMMA InsertKeeps ==
    ASSUME CoreInv, KeptInv, typed \subseteq Changes, NEW s \in Slots, Inserted(s)
    PROVE  KeptInv'
<1> DEFINE r == requests[s]
           synced == Sync(r.name, r.answer)
           copies == [synced EXCEPT ![New] = None]
           k == IF shown = New THEN r.name ELSE shown
<1>1. /\ r \in Requests /\ RequestOK(r, rows) /\ r # None /\ r.kind = "savedocs" /\ r.reply = "ok"
      /\ Refresh(k, copies, s)
      /\ gone' = gone \cup ((Overwritten(New, r.answer) \cup Overwritten(r.name, r.answer))
                              \ r.copy.val)
      /\ UNCHANGED <<rows, typed>>
  BY DEF Inserted, Answered, Idle, CoreInv, server
<1>2. r.name \in Docs /\ r.answer \in Copy /\ Follows(r.answer, rows[r.name]) /\ rows[r.name] # None
  BY <1>1, NoneAssumption DEF RequestOK, Requests, Follows
<1>3. CopiesOK(synced, rows) /\ synced \in [Keys -> Copy \cup {None}]
  BY <1>2, SyncOK DEF CopiesOK
<1>4. copies[New] = None /\ \A j \in Keys \ {New} : copies[j] = synced[j]
  BY <1>3, SomeKeys
<1>5. CopiesOK(copies, rows) /\ k \in Keys \cup {None}
  BY <1>2, <1>3, <1>4, SomeKeys DEF CopiesOK, CoreInv, FormOK
<1>6. r.answer.val \subseteq rows[r.name].val /\ r.copy.val \subseteq rows[r.name].val
  BY <1>1 DEF KeptInv, AnswerIsSaved
<1>7. \A c \in Overwritten(r.name, r.answer) : c \in rows[r.name].val \cup gone'
  BY <1>1, <1>6
<1>8. Fit(synced, s, gone')
  BY <1>1, <1>2, <1>6, <1>7, SyncFits
<1>9. Clean(copies, rows, gone')
  BY <1>4, <1>8, SomeKeys DEF Fit, Clean
<1>10. \A u \in Slots \ {s} : ReadIsClean(requests[u], copies, rows, gone')
  <2>1. \A u \in Slots : requests[u] # None /\ requests[u].kind = "getdoc" => requests[u].key \in Docs
    BY DEF CoreInv, RequestOK
  <2>2. QED
    BY <1>4, <1>8, <2>1, SomeKeys DEF Fit, ReadIsClean
<1>11. ASSUME NEW c \in typed \ gone', InCopies(synced, c) PROVE InCopies(copies, c) \/ InRows(c)
  <2>1. PICK j \in Keys : synced[j] # None /\ c \in synced[j].val
    BY <1>11 DEF InCopies
  <2>2. CASE j = New
    <3>1. synced[New] = locals[New]
      BY <1>2, SomeKeys DEF Sync, CoreInv, CopiesOK
    <3>2. c \in r.answer.val \/ c \in Overwritten(New, r.answer)
      BY <1>11, <2>1, <2>2, <3>1 DEF Overwritten
    <3>3. c \in rows[r.name].val
      BY <1>1, <1>6, <1>11, <3>2
    <3>4. QED
      BY <1>2, <3>3 DEF InRows
  <2>3. CASE j # New
    BY <1>4, <2>1, <2>3 DEF InCopies
  <2>4. QED
    BY <2>2, <2>3
<1>12. Fit(copies, s, gone')
  BY <1>8, <1>9, <1>10, <1>11 DEF Fit
<1>13. QED
  BY <1>1, <1>5, <1>12, RefreshFits

\* A request that is no link is given up, or a link with its change.
LEMMA SlotEnds ==
    ASSUME CoreInv, CoreInv', KeptInv, NEW s \in Slots, requests' = [requests EXCEPT ![s] = None],
           UNCHANGED <<rows, locals, shown, detached, typed>>, gone \subseteq gone',
           \A c : Carries(requests[s], c) => c \in gone'
    PROVE  KeptInv'
<1>1. requests'[s] = None /\ \A u \in Slots \ {s} : requests'[u] = requests[u]
  BY DEF CoreInv
<1>2. \A u \in Slots : /\ ReadIsClean(requests'[u], locals, rows, gone)
                       /\ AnswerIsSaved(requests'[u], rows')
  BY <1>1 DEF KeptInv, AnswerIsSaved, ReadIsClean
<1>3. \A u \in Slots : \A c : Carries(requests[u], c) /\ c \notin gone' => Carries(requests'[u], c)
  BY <1>1
<1>4. QED
  BY <1>2, <1>3, SameCopies

LEMMA SavedOrNotKeeps ==
    ASSUME CoreInv, KeptInv, typed \subseteq Changes, NEW s \in Slots, SavedOrNot(s)
    PROVE  KeptInv'
<1>1. /\ requests[s].kind = "savedocs" /\ Refresh(shown, locals, s)
      /\ UNCHANGED <<rows, typed, gone>>
  BY DEF SavedOrNot, server, ghosts
<1>2. Fit(locals, s, gone')
  BY <1>1, LocalsFit
<1>3. CopiesOK(locals, rows) /\ shown \in Keys \cup {None}
  BY DEF CoreInv, FormOK
<1>4. QED
  BY <1>1, <1>2, <1>3, RefreshFits

\* set_value() adds c to a copy, which is dirty then if it is the form's.
More(copies, more, c) ==
    \A j \in Keys :
        /\ more[j] = None <=> copies[j] = None
        /\ copies[j] # None => /\ copies[j].val \subseteq more[j].val
                               /\ more[j].val \subseteq copies[j].val \cup {c}
                               /\ ~more[j].unsaved => ~copies[j].unsaved

LEMMA SetValueAdds ==
    ASSUME NEW copies \in [Keys -> Copy \cup {None}], NEW k \in Keys, NEW c \in Changes
    PROVE  LET more == SetValue(k, c, copies) IN
           /\ more \in [Keys -> Copy \cup {None}] /\ More(copies, more, c)
           /\ \A j \in Keys \ {k} : more[j] = copies[j]
           /\ copies[k] # None => c \in more[k].val
           /\ copies[k] # None /\ k = shown /\ detached = None => more[k].unsaved
<1>1. CASE copies[k] = None
  BY <1>1 DEF SetValue, More
<1>2. CASE copies[k] # None
  <2> DEFINE copy == copies[k]
             new == [copy EXCEPT !.val = @ \cup {c},
                                 !.unsaved = @ \/ (k = shown /\ detached = None)]
  <2>1. copy \in Copy
    BY <1>2
  <2>2. SetValue(k, c, copies) = [copies EXCEPT ![k] = new]
    BY <1>2, <2>1 DEF SetValue, Copy
  <2>3. /\ new.val = copy.val \cup {c} /\ new \in Copy
        /\ new.unsaved = (copy.unsaved \/ (k = shown /\ detached = None))
    BY <2>1 DEF Copy, Values
  <2>4. new # None
    BY <2>3, NoneAssumption
  <2>5. QED
    BY <1>2, <2>2, <2>3, <2>4 DEF More
<1>3. QED
  BY <1>1, <1>2

LEMMA LinkIsValidKeeps ==
    ASSUME CoreInv, KeptInv, NEW s \in Slots, LinkIsValid(s)
    PROVE  KeptInv'
<1> DEFINE r == requests[s]
           c == r.action
           fetched == SetValue(r.key, c, locals)
<1>1. /\ r \in Requests /\ r # None /\ r.kind = "link"
      /\ locals' = IF shown = None THEN fetched ELSE SetValue(shown, c, fetched)
      /\ gone' = IF shown # r.key \/ locals[shown] = None THEN gone \cup {c} ELSE gone
      /\ requests' = [requests EXCEPT ![s] = None]
      /\ UNCHANGED <<rows, shown, detached, typed>>
  BY DEF LinkIsValid, Answered, Idle, CoreInv, server, form
<1>2. c \in Links /\ c \in Changes /\ r.key \in Keys
  BY <1>1, DeskFormAssumption DEF KeptInv, AnswerIsSaved, Requests
<1>3. locals \in [Keys -> Copy \cup {None}] /\ shown \in Keys \cup {None}
  BY DEF CoreInv, CopiesOK, FormOK
<1>4. fetched \in [Keys -> Copy \cup {None}] /\ More(locals, fetched, c)
  BY <1>2, <1>3, SetValueAdds
<1>5. More(locals, locals', c)
  <2>1. CASE shown = None
    BY <1>1, <1>4, <2>1
  <2>2. CASE shown # None
    <3>1. More(fetched, locals', c)
      BY <1>1, <1>2, <1>3, <1>4, <2>2, SetValueAdds
    <3>2. QED
      BY <1>4, <3>1 DEF More
  <2>3. QED
    BY <2>1, <2>2
<1>6. requests'[s] = None /\ \A u \in Slots \ {s} : requests'[u] = requests[u]
  BY <1>1 DEF CoreInv
<1>7. detached' # None => locals'[shown'] = None
  BY <1>1, <1>5, SomeKeys DEF KeptInv, More, CoreInv, FormOK
<1>8. Clean(locals', rows', gone')
  <2>1. CASE c \in gone'
    BY <1>1, <1>5, <2>1, SomeKeys DEF KeptInv, Clean, More
  <2>2. CASE c \notin gone'
    <3>1. shown = r.key /\ locals[shown] # None /\ shown \in Keys /\ gone' = gone /\ shown # None
      BY <1>1, <1>2, <2>2, SomeKeys
    <3>2. detached = None
      BY <3>1 DEF KeptInv
    <3>3. fetched[shown] # None /\ \A j \in Keys \ {shown} : fetched[j] = locals[j]
      BY <1>2, <1>3, <1>4, <3>1, SetValueAdds DEF More
    <3>4. locals'[shown].unsaved /\ \A j \in Keys \ {shown} : locals'[j] = fetched[j]
      BY <1>1, <1>2, <1>4, <3>1, <3>2, <3>3, SetValueAdds
    <3>5. QED
      BY <1>1, <3>1, <3>3, <3>4, SomeKeys DEF KeptInv, Clean
  <2>3. QED
    BY <2>1, <2>2
<1>9. ASSUME NEW u \in Slots
      PROVE  ReadIsClean(requests'[u], locals', rows', gone') /\ AnswerIsSaved(requests'[u], rows')
  <2>1. CASE u = s
    BY <1>6, <2>1 DEF ReadIsClean, AnswerIsSaved
  <2>2. CASE u # s
    <3>1. requests[u] # None /\ requests[u].kind = "getdoc" => requests[u].key \in Keys
      BY DEF CoreInv, Requests
    <3>2. /\ requests'[u] = requests[u] /\ ReadIsClean(requests[u], locals, rows, gone)
          /\ AnswerIsSaved(requests[u], rows) /\ gone \subseteq gone'
      BY <1>1, <1>6, <2>2 DEF KeptInv
    <3>3. QED
      BY <1>1, <1>2, <1>5, <3>1, <3>2 DEF ReadIsClean, More
  <2>3. QED
    BY <2>1, <2>2
<1>10. ASSUME NEW x \in typed' \ gone' PROVE Somewhere(x)'
  <2>1. Somewhere(x)
    BY <1>1, <1>10 DEF KeptInv
  <2>2. CASE InCopies(locals, x)
    BY <1>5, <2>2 DEF InCopies, More, Somewhere
  <2>3. CASE InRows(x)
    BY <1>1, <2>3 DEF InRows, Somewhere
  <2>4. CASE \E u \in Slots \ {s} : Carries(requests[u], x)
    BY <1>6, <2>4 DEF Somewhere
  <2>5. CASE Carries(requests[s], x)
    <3>1. x = c /\ shown = r.key /\ locals[shown] # None /\ shown \in Keys /\ shown # None
      BY <1>1, <1>2, <1>10, <2>5, SomeKeys DEF Carries
    <3>2. fetched[shown] # None
      BY <1>4, <3>1 DEF More
    <3>3. c \in locals'[shown].val /\ locals'[shown] # None
      BY <1>1, <1>2, <1>4, <1>5, <3>1, <3>2, SetValueAdds DEF More
    <3>4. QED
      BY <3>1, <3>3 DEF Somewhere, InCopies
  <2>6. QED
    BY <2>1, <2>2, <2>3, <2>4, <2>5 DEF Somewhere
<1>11. QED
  BY <1>7, <1>8, <1>9, <1>10 DEF KeptInv

LEMMA AnswerKeeps ==
    ASSUME CoreInv, CoreInv', KeptInv, typed \subseteq Changes, NEW s \in Slots, Answer(s)
    PROVE  KeptInv'
<1>1. ASSUME GotNoDoc(s) \/ NotSaved(s) PROVE KeptInv'
  <2>1. /\ requests' = [requests EXCEPT ![s] = None] /\ requests[s].kind # "link"
        /\ UNCHANGED <<rows, locals, shown, detached, typed, gone>>
    BY <1>1 DEF GotNoDoc, NotSaved, server, form, ghosts
  <2>2. QED
    BY <2>1, SlotEnds DEF Carries
<1>2. ASSUME LinkIsLost(s) PROVE KeptInv'
  <2>1. /\ requests' = [requests EXCEPT ![s] = None] /\ gone' = gone \cup {requests[s].action}
        /\ UNCHANGED <<rows, locals, shown, detached, typed>>
    BY <1>2 DEF LinkIsLost, server, form
  <2>2. QED
    BY <2>1, SlotEnds DEF Carries
<1>3. QED
  BY <1>1, <1>2, GotDocKeeps, SavedKeeps, InsertKeeps, SavedOrNotKeeps, LinkIsValidKeeps DEF Answer

-----------------------------------------------------------------------------
(***************************************************************************)
(* The events.                                                             *)
(***************************************************************************)

\* The mark changes nothing else.
LEMMA MarkOnly ==
    ASSUME CoreInv, NEW d \in Docs, locals[d] # None,
           NEW marked, marked = [locals EXCEPT ![d].needs_refresh = TRUE], NEW k \in Keys
    PROVE  /\ marked[k] = None <=> locals[k] = None
           /\ locals[k] # None => marked[k].val = locals[k].val /\ marked[k].unsaved = locals[k].unsaved
                                  /\ marked[k].modified = locals[k].modified
           /\ k # d => marked[k] = locals[k]
           /\ marked[d].needs_refresh
<1> DEFINE new == [locals[d] EXCEPT !.needs_refresh = TRUE]
<1>1. locals \in [Keys -> Copy \cup {None}] /\ locals[d] \in Copy /\ d \in Keys
  BY SomeKeys DEF CoreInv, CopiesOK
<1>2. marked = [locals EXCEPT ![d] = new]
  BY <1>1
<1>3. /\ new \in Copy /\ new.val = locals[d].val /\ new.unsaved = locals[d].unsaved
      /\ new.modified = locals[d].modified /\ new.needs_refresh
  BY <1>1 DEF Copy
<1>4. new # None
  BY <1>3, NoneAssumption
<1>5. QED
  BY <1>1, <1>2, <1>3, <1>4

LEMMA MarkKeeps ==
    ASSUME CoreInv, KeptInv, NEW d \in Docs, locals[d] # None,
           NEW marked, marked = [locals EXCEPT ![d].needs_refresh = TRUE]
    PROVE  /\ Clean(marked, rows, gone)
           /\ \A u \in Slots : ReadIsClean(requests[u], marked, rows, gone)
           /\ \A c : InCopies(locals, c) => InCopies(marked, c)
<1>1. \A k \in Keys : /\ marked[k] = None <=> locals[k] = None
                      /\ locals[k] # None => marked[k].val = locals[k].val
                                             /\ marked[k].unsaved = locals[k].unsaved
  BY MarkOnly
<1>2. Clean(marked, rows, gone)
  BY <1>1, SomeKeys DEF KeptInv, Clean
<1>3. ASSUME NEW u \in Slots PROVE ReadIsClean(requests[u], marked, rows, gone)
  <2>1. requests[u] # None /\ requests[u].kind = "getdoc" => requests[u].key \in Keys
    BY DEF CoreInv, Requests
  <2>2. ReadIsClean(requests[u], locals, rows, gone)
    BY DEF KeptInv
  <2>3. QED
    BY <1>1, <2>1, <2>2 DEF ReadIsClean
<1>4. \A c : InCopies(locals, c) => InCopies(marked, c)
  BY <1>1 DEF InCopies
<1>5. QED
  BY <1>2, <1>3, <1>4

LEMMA DocUpdateKeeps ==
    ASSUME CoreInv, CoreInv', KeptInv, typed \subseteq Changes, NEW d \in Docs, NEW v, DocUpdate(d, v)
    PROVE  KeptInv'
<1>1. UNCHANGED <<rows, typed, gone>> /\ d \in Keys
  BY SomeKeys DEF DocUpdate, server
<1>2. CASE IgnoreEvent(d, v) \/ MissEvent(d, v)
  BY <1>1, <1>2, NothingHappens DEF IgnoreEvent, MissEvent
<1>3. CASE MarkCopy(d, v)
  <2>1. /\ locals[d] # None /\ locals' = [locals EXCEPT ![d].needs_refresh = TRUE]
        /\ UNCHANGED <<shown, detached, requests>>
    BY <1>3 DEF MarkCopy
  <2>2. /\ Clean(locals', rows, gone)
        /\ \A u \in Slots : ReadIsClean(requests[u], locals', rows, gone)
        /\ \A c : InCopies(locals, c) => InCopies(locals', c)
    BY <2>1, MarkKeeps
  <2>3. detached # None => locals'[shown] = None
    <3>1. detached # None => shown \in Keys /\ locals[shown] = None
      BY SomeKeys DEF KeptInv, CoreInv, FormOK
    <3>2. QED
      BY <2>1, <3>1, MarkOnly
  <2>4. \A c \in typed \ gone : Somewhere(c)'
    BY <1>1, <2>1, <2>2 DEF KeptInv, Somewhere, InRows
  <2>5. \A u \in Slots : AnswerIsSaved(requests'[u], rows')
    BY <1>1, <2>1 DEF KeptInv
  <2>6. QED
    BY <1>1, <2>1, <2>2, <2>3, <2>4, <2>5 DEF KeptInv
<1>4. CASE DropCopy(d, v)
  <2>1. /\ locals[d] # None /\ ~locals[d].unsaved /\ locals' = [locals EXCEPT ![d] = None]
        /\ detached' = (IF shown = d THEN FormDoc ELSE detached) /\ UNCHANGED <<shown, requests>>
    BY <1>4 DEF DropCopy
  <2>2. locals'[d] = None /\ \A k \in Keys \ {d} : locals'[k] = locals[k]
    BY <1>1, <2>1 DEF CoreInv, CopiesOK
  <2>3. detached' # None => locals'[shown'] = None
    <3>1. detached # None => shown \in Keys
      BY SomeKeys DEF CoreInv, FormOK
    <3>2. QED
      BY <2>1, <2>2, <3>1 DEF KeptInv
  <2>4. Clean(locals', rows', gone')
    BY <1>1, <2>2, SomeKeys DEF KeptInv, Clean
  <2>5. ASSUME NEW u \in Slots
        PROVE  ReadIsClean(requests'[u], locals', rows', gone') /\ AnswerIsSaved(requests'[u], rows')
    <3>1. requests[u] # None /\ requests[u].kind = "getdoc" => requests[u].key \in Keys
      BY DEF CoreInv, Requests
    <3>2. ReadIsClean(requests[u], locals, rows, gone) /\ AnswerIsSaved(requests[u], rows)
      BY DEF KeptInv
    <3>3. QED
      BY <1>1, <2>1, <2>2, <3>1, <3>2 DEF ReadIsClean
  <2>6. ASSUME NEW c \in typed' \ gone' PROVE Somewhere(c)'
    <3>1. Somewhere(c) /\ c \in Changes
      BY <1>1, <2>6 DEF KeptInv
    <3>2. CASE InCopies(locals, c)
      <4>1. PICK k \in Keys : locals[k] # None /\ c \in locals[k].val
        BY <3>2 DEF InCopies
      <4>2. CASE k = d
        <5>1. c \in rows[d].val
          BY <1>1, <2>1, <2>6, <3>1, <4>1, <4>2 DEF KeptInv, Clean
        <5>2. rows[d] # None
          BY <2>1 DEF CoreInv, CopiesOK, Follows
        <5>3. QED
          BY <1>1, <5>1, <5>2 DEF Somewhere, InRows
      <4>3. CASE k # d
        BY <2>2, <4>1, <4>3 DEF Somewhere, InCopies
      <4>4. QED
        BY <4>2, <4>3
    <3>3. CASE InRows(c)
      BY <1>1, <3>3 DEF Somewhere, InRows
    <3>4. CASE \E u \in Slots : Carries(requests[u], c)
      BY <2>1, <3>4 DEF Somewhere
    <3>5. QED
      BY <3>1, <3>2, <3>3, <3>4 DEF Somewhere
  <2>7. QED
    BY <2>3, <2>4, <2>5, <2>6 DEF KeptInv
<1>5. ASSUME NEW s \in Slots, ShowEvent(d, v, s) PROVE KeptInv'
  <2> DEFINE marked == [locals EXCEPT ![d].needs_refresh = TRUE]
  <2>1. locals[d] # None /\ Idle(s) /\ Refresh(d, marked, s)
    BY <1>5 DEF ShowEvent
  <2>2. /\ Clean(marked, rows, gone)
        /\ \A u \in Slots : ReadIsClean(requests[u], marked, rows, gone)
        /\ \A c : InCopies(locals, c) => InCopies(marked, c)
    BY <2>1, MarkKeeps
  <2>3. Fit(locals, s, gone)
    BY <2>1, LocalsFit DEF Idle
  <2>4. Fit(marked, s, gone')
    BY <1>1, <2>2, <2>3 DEF Fit
  <2>5. CopiesOK(marked, rows)
    BY <2>1, MarkedOK
  <2>6. QED
    BY <1>1, <2>1, <2>4, <2>5, RefreshFits
<1>6. QED
  BY <1>2, <1>3, <1>4, <1>5 DEF DocUpdate

-----------------------------------------------------------------------------
LEMMA KeptInit == Init => KeptInv
<1> SUFFICES ASSUME Init PROVE KeptInv
  OBVIOUS
<1>1. detached = None /\ locals = [k \in Keys |-> None] /\ requests = [s \in Slots |-> None] /\ typed = {}
  BY DEF Init
<1>2. \A u \in Slots : ReadIsClean(requests[u], locals, rows, gone) /\ AnswerIsSaved(requests[u], rows)
  BY <1>1 DEF ReadIsClean, AnswerIsSaved
<1>3. Clean(locals, rows, gone)
  BY <1>1, SomeKeys DEF Clean
<1>4. QED
  BY <1>1, <1>2, <1>3 DEF KeptInv

LEMMA KeptStep == CoreInv /\ RestType /\ KeptInv /\ [Next]_vars => KeptInv'
<1> SUFFICES ASSUME CoreInv, RestType, KeptInv, [Next]_vars PROVE KeptInv'
  OBVIOUS
<1>1. CoreInv' /\ typed \subseteq Changes
  BY InvStep DEF RestType
<1>2. CASE UNCHANGED vars
  BY <1>1, <1>2, NothingHappens DEF vars, server, form, ghosts
<1>3. CASE User
  <2>1. ASSUME OpenList \/ ConfirmSubmit \/ GiveUp
               \/ \E a \in {"Save", "Submit", "Update", "Cancel"} : Click(a)
        PROVE  KeptInv'
    BY <1>1, <2>1, NothingHappens DEF OpenList, ConfirmSubmit, GiveUp, Click, server, form, ghosts
  <2>2. QED
    BY <1>1, <1>3, <2>1, OpenDocKeeps, NewDocKeeps, SendKeeps, UserReloadKeeps, TypeKeeps, ChooseKeeps
       DEF User
<1>4. CASE Server
  BY <1>1, <1>4, ServerKeeps
<1>5. ASSUME NEW s \in Slots, Answer(s) PROVE KeptInv'
  BY <1>1, <1>5, AnswerKeeps
<1>6. CASE Realtime
  <2>1. ASSUME Disconnect \/ \E d \in Docs : Join(d) PROVE KeptInv'
    BY <1>1, <2>1, NothingHappens DEF Disconnect, Join, server, form, ghosts
  <2>2. QED
    BY <1>1, <1>6, <2>1, DocUpdateKeeps DEF Realtime
<1>7. QED
  BY <1>2, <1>3, <1>4, <1>5, <1>6 DEF Next

\* What is carried by a request is in a link field that is checked.
LEMMA KeptIsKept == CoreInv /\ KeptInv => ChangesAreKept
<1> SUFFICES ASSUME CoreInv, KeptInv, NEW c \in typed \ gone
             PROVE  \/ \E k \in Keys : locals[k] # None /\ c \in locals[k].val
                    \/ \E d \in Docs : rows[d] # None /\ c \in rows[d].val
                    \/ \E s \in Slots : Answered(s, "link", "none") /\ requests[s].action = c
                    \/ \E s \in Slots : Answered(s, "link", "ok") /\ requests[s].action = c
  BY DEF ChangesAreKept
<1>1. \A s \in Slots : requests[s] # None => requests[s].reply \in {"none", "ok"}
  BY DEF CoreInv, Requests
<1>2. QED
  BY <1>1 DEF KeptInv, Somewhere, InCopies, InRows, Carries, Answered, Idle

\* A change the user has made is in a copy, on its way, or in the database, but
\* for the known ways in which it is lost.
THEOREM NothingElseIsLost == Spec => []ChangesAreKept
<1>1. QED
  BY InvInit, InvStep, KeptInit, KeptStep, KeptIsKept, PTL DEF Spec


-----------------------------------------------------------------------------
(***************************************************************************)
(* The events.  An older copy stays one of which the tab is told: it is    *)
(* marked, the event of the version of the row is on its way, or it has    *)
(* passed the tab by.                                                      *)
(***************************************************************************)
Told(copy, d, table, skipped, coming) ==
    copy # None =>
        \/ copy.modified = table[d].version
        \/ copy.needs_refresh
        \/ d \in skipped
        \/ [doc |-> d, modified |-> table[d].version] \in coming

AllTold(copies, table, skipped, coming) ==
    \A d \in Docs : Told(copies[d], d, table, skipped, coming)

CopiesAreTold == AllTold(locals, rows, missed, events)

\* Nothing is replaced: a copy is dropped, keeps its version or is marked.
SameOrMarked(copies, olds) ==
    \A d \in Docs : copies[d] # None =>
        /\ olds[d] # None
        /\ copies[d].modified = olds[d].modified
        /\ olds[d].needs_refresh => copies[d].needs_refresh

LEMMA StaysTold ==
    ASSUME NEW copies, NEW olds, NEW table, NEW skipped, NEW coming,
           AllTold(olds, table, skipped, coming), SameOrMarked(copies, olds)
    PROVE  AllTold(copies, table, skipped, coming)
  BY DEF AllTold, Told, SameOrMarked

LEMMA RefreshTells ==
    ASSUME NEW k \in Keys \cup {None}, NEW copies \in [Keys -> Copy \cup {None}], NEW s,
           Refresh(k, copies, s), AllTold(copies, rows', missed', events')
    PROVE  CopiesAreTold'
<1>1. CASE k # None /\ k # New /\ MustReload(copies[k])
  <2>1. locals' = [copies EXCEPT ![k] = None]
    BY <1>1 DEF Refresh
  <2>2. SameOrMarked(locals', copies)
    BY <1>1, <2>1, SomeKeys DEF SameOrMarked
  <2>3. QED
    BY <2>2, StaysTold DEF CopiesAreTold
<1>2. CASE ~(k # None /\ k # New /\ MustReload(copies[k]))
  BY <1>2 DEF Refresh, CopiesAreTold
<1>3. QED
  BY <1>1, <1>2

\* set_value() leaves the version and the mark as they are.
LEMMA SetValueTells ==
    ASSUME NEW copies \in [Keys -> Copy \cup {None}], NEW k \in Keys, NEW c
    PROVE  SameOrMarked(SetValue(k, c, copies), copies)
<1>1. CASE copies[k] = None
  BY <1>1 DEF SetValue, SameOrMarked
<1>2. CASE copies[k] # None
  <2> DEFINE more == [copies[k] EXCEPT !.val = @ \cup {c},
                                       !.unsaved = @ \/ (k = shown /\ detached = None)]
  <2>1. copies[k] \in Copy
    BY <1>2
  <2>2. SetValue(k, c, copies) = [copies EXCEPT ![k] = more]
    BY <1>2, <2>1 DEF SetValue, Copy
  <2>3. more.modified = copies[k].modified /\ more.needs_refresh = copies[k].needs_refresh
    BY <2>1 DEF Copy
  <2>4. QED
    BY <1>2, <2>2, <2>3, SomeKeys DEF SameOrMarked
<1>3. QED
  BY <1>1, <1>2

LEMMA UserTells ==
    ASSUME CoreInv, CopiesAreTold, User
    PROVE  CopiesAreTold'
<1>1. /\ locals \in [Keys -> Copy \cup {None}] /\ shown \in Keys \cup {None}
      /\ SameOrMarked(locals, locals)
  BY DEF CoreInv, CopiesOK, FormOK, SameOrMarked
<1>2. UNCHANGED <<rows, missed, events>>
  BY DEF User, OpenDoc, NewDoc, Save, Cancel, Send, UserReload, Type, Choose, Click, OpenList,
         ConfirmSubmit, GiveUp, server
<1>3. ASSUME SameOrMarked(locals', locals) PROVE CopiesAreTold'
  BY <1>2, <1>3, StaysTold DEF CopiesAreTold
<1>4. ASSUME NEW k \in Keys, NEW s \in Slots, OpenDoc(k, s) PROVE CopiesAreTold'
  <2>1. CASE locals[k] # None
    BY <1>1, <1>2, <1>4, <2>1, RefreshTells DEF OpenDoc, CopiesAreTold
  <2>2. CASE locals[k] = None
    BY <1>1, <1>3, <1>4, <2>2 DEF OpenDoc
  <2>3. QED
    BY <2>1, <2>2
<1>5. ASSUME NEW s \in Slots, NewDoc(s) PROVE CopiesAreTold'
  <2> DEFINE copies == [locals EXCEPT ![New] = Blank]
  <2>1. Refresh(New, copies, s)
    BY <1>5 DEF NewDoc
  <2>2. copies \in [Keys -> Copy \cup {None}]
    <3>1. Blank \in Copy
      BY DEF Blank, Copy, Values
    <3>2. QED
      BY <1>1, <3>1
  <2>3. SameOrMarked(copies, locals)
    BY <1>1, SomeKeys DEF SameOrMarked
  <2>4. AllTold(copies, rows, missed, events)
    BY <2>3, StaysTold DEF CopiesAreTold
  <2>5. QED
    BY <1>2, <2>1, <2>2, <2>4, RefreshTells, SomeKeys
<1>6. ASSUME NEW s \in Slots, UserReload(s) PROVE CopiesAreTold'
  <2>1. locals' = [locals EXCEPT ![shown] = None]
    BY <1>6 DEF UserReload
  <2>2. SameOrMarked(locals', locals)
    BY <1>1, <2>1, SomeKeys DEF SameOrMarked
  <2>3. QED
    BY <1>3, <2>2
<1>7. ASSUME NEW c, Type(c) PROVE CopiesAreTold'
  <2>1. locals' = SetValue(shown, c, locals) /\ FormDoc # None
    BY <1>7 DEF Type, Editable
  <2>2. shown \in Keys
    BY <2>1, FormDocOK
  <2>3. QED
    BY <1>1, <1>3, <2>1, <2>2, SetValueTells
<1>8. ASSUME locals' = locals PROVE CopiesAreTold'
  BY <1>1, <1>3, <1>8
<1>9. QED
  BY <1>4, <1>5, <1>6, <1>7, <1>8
     DEF User, Save, Cancel, Send, Choose, Click, OpenList, ConfirmSubmit, GiveUp

\* The event of the version that is written is on its way, or the tab misses it.
LEMMA PublishTells ==
    ASSUME CoreInv, CopiesAreTold, NEW d \in Docs, NEW val, NEW docstatus,
           Write(d, val, docstatus), Publish(d, version + 1), locals' = locals
    PROVE  CopiesAreTold'
<1>1. /\ rows'[d].version = version + 1
      /\ \A e \in Docs \ {d} : rows'[e] = rows[e]
  BY DEF Write, CoreInv
<1>2. d \in missed' \/ [doc |-> d, modified |-> version + 1] \in events'
  BY DEF Publish
<1>3. events \subseteq events' /\ missed \ {d} \subseteq missed'
  BY DEF Publish
<1>4. ASSUME NEW e \in Docs PROVE Told(locals'[e], e, rows', missed', events')
  <2>1. CASE e = d
    BY <1>1, <1>2, <2>1 DEF Told
  <2>2. CASE e # d
    <3>1. Told(locals[e], e, rows, missed, events)
      BY DEF CopiesAreTold, AllTold
    <3>2. QED
      BY <1>1, <1>3, <2>2, <3>1 DEF Told
  <2>3. QED
    BY <2>1, <2>2
<1>5. QED
  BY <1>4 DEF CopiesAreTold, AllTold

LEMMA ServerTells ==
    ASSUME CoreInv, CopiesAreTold, Server
    PROVE  CopiesAreTold'
<1>1. locals' = locals
  BY DEF Server, ServeGetDoc, ServeSave, ServeInsert, ServeCancel, ServeLink, Elsewhere
<1>2. ASSUME UNCHANGED <<rows, missed, events>> PROVE CopiesAreTold'
  BY <1>1, <1>2 DEF CopiesAreTold
<1>3. ASSUME NEW s \in Slots, ServeGetDoc(s) \/ ServeLink(s) PROVE CopiesAreTold'
  BY <1>2, <1>3 DEF ServeGetDoc, ServeLink, server
<1>4. ASSUME NEW s \in Slots, ServeSave(s) \/ ServeCancel(s) PROVE CopiesAreTold'
  <2>1. requests[s].key \in Docs
    BY <1>4 DEF ServeSave, ServeCancel, Idle, CoreInv, Requests, Keys
  <2>2. QED
    BY <1>1, <1>4, <2>1, PublishTells DEF ServeSave, ServeCancel
<1>5. ASSUME NEW s \in Slots, NEW d \in Docs, ServeInsert(s, d) PROVE CopiesAreTold'
  BY <1>1, <1>5, PublishTells DEF ServeInsert
<1>6. ASSUME NEW d \in Docs, Elsewhere(d) PROVE CopiesAreTold'
  BY <1>1, <1>6, PublishTells DEF Elsewhere
<1>7. QED
  BY <1>3, <1>4, <1>5, <1>6 DEF Server

\* An answer is as new as the row, or its event is still to come, or missed.
LEMMA LateTells ==
    ASSUME CoreInv, CopiesAreTold, NEW d \in Docs, NEW copy \in Copy, Follows(copy, rows[d]),
           Late(d, copy), UNCHANGED <<rows, events>>
    PROVE  AllTold(Sync(d, copy), rows', missed', events')
<1>1. missed \subseteq missed'
  BY DEF Late, Miss
<1>2. copy # None /\ rows[d] \in Row /\ copy.modified <= rows[d].version
  BY NoneAssumption DEF CoreInv, Follows
<1>3. copy.modified \in Nat /\ rows[d].version \in Nat
  BY <1>2 DEF Copy, Row
<1>4. Told(copy, d, rows, missed', events)
  BY <1>2, <1>3 DEF Late, Miss, Told
<1>5. \A e \in Docs : Told(locals[e], e, rows, missed', events)
  BY <1>1 DEF CopiesAreTold, AllTold, Told
<1>6. Sync(d, copy)[d] = copy /\ \A e \in Docs \ {d} : Sync(d, copy)[e] = locals[e]
  BY SomeKeys DEF Sync, CoreInv, CopiesOK
<1>7. QED
  BY <1>4, <1>5, <1>6 DEF AllTold

LEMMA AnswerTells ==
    ASSUME CoreInv, CopiesAreTold, NEW s \in Slots, Answer(s)
    PROVE  CopiesAreTold'
<1> DEFINE r == requests[s]
<1>1. /\ locals \in [Keys -> Copy \cup {None}] /\ shown \in Keys \cup {None}
      /\ SameOrMarked(locals, locals)
  BY DEF CoreInv, CopiesOK, FormOK, SameOrMarked
<1>2. UNCHANGED <<rows, events>>
  BY DEF Answer, GotDoc, GotNoDoc, Saved, Inserted, NotSaved, SavedOrNot, LinkIsValid, LinkIsLost,
         server
<1>3. r # None
  BY DEF Answer, GotDoc, GotNoDoc, Saved, Inserted, NotSaved, SavedOrNot, LinkIsValid, LinkIsLost,
         Answered, Idle
<1>4. RequestOK(r, rows) /\ r \in Requests
  BY <1>3 DEF CoreInv
<1>5. ASSUME NEW d \in Docs, d = r.name, r.kind \in {"getdoc", "savedocs", "cancel"}, r.reply = "ok",
             Late(d, r.answer)
      PROVE  /\ AllTold(Sync(d, r.answer), rows', missed', events')
             /\ Sync(d, r.answer) \in [Keys -> Copy \cup {None}]
  <2>1. r.answer \in Copy /\ Follows(r.answer, rows[d])
    BY <1>3, <1>4, <1>5 DEF RequestOK, Requests
  <2>2. AllTold(Sync(d, r.answer), rows', missed', events')
    BY <1>2, <1>5, <2>1, LateTells
  <2>3. QED
    BY <1>1, <2>1, <2>2 DEF Sync
<1>6. CASE GotDoc(s)
  <2>1. r.kind = "getdoc" /\ r.reply = "ok"
    BY <1>6 DEF GotDoc, Answered
  <2>2. r.key \in Docs /\ r.name = r.key
    BY <1>3, <1>4, <2>1 DEF RequestOK
  <2>3. Late(r.key, r.answer)
    BY <1>6 DEF GotDoc
  <2>4. PICK k \in Keys \cup {None} : Refresh(k, Sync(r.key, r.answer), s)
    BY <1>1, <1>6, <2>2, SomeKeys DEF GotDoc
  <2>5. QED
    BY <1>5, <2>1, <2>2, <2>3, <2>4, RefreshTells
<1>7. CASE Saved(s) \/ Inserted(s)
  <2>1. r.kind \in {"savedocs", "cancel"} /\ r.reply = "ok" /\ Late(r.name, r.answer)
    BY <1>7 DEF Saved, Inserted, Answered
  <2>2. r.name \in Docs
    BY <1>3, <1>4, <2>1 DEF RequestOK
  <2>3. /\ AllTold(Sync(r.name, r.answer), rows', missed', events')
        /\ Sync(r.name, r.answer) \in [Keys -> Copy \cup {None}]
    BY <1>5, <2>1, <2>2
  <2>4. CASE Saved(s)
    BY <1>1, <2>3, <2>4, RefreshTells DEF Saved
  <2>5. CASE Inserted(s)
    <3> DEFINE copies == [Sync(r.name, r.answer) EXCEPT ![New] = None]
    <3>1. copies \in [Keys -> Copy \cup {None}]
      BY <2>3
    <3>2. SameOrMarked(copies, Sync(r.name, r.answer))
      BY <2>3, SomeKeys DEF SameOrMarked
    <3>3. AllTold(copies, rows', missed', events')
      BY <2>3, <3>2, StaysTold
    <3>4. PICK k \in Keys \cup {None} : Refresh(k, copies, s)
      BY <1>1, <2>2, <2>5, SomeKeys DEF Inserted
    <3>5. QED
      BY <3>1, <3>3, <3>4, RefreshTells
  <2>6. QED
    BY <1>7, <2>4, <2>5
<1>8. CASE SavedOrNot(s)
  BY <1>1, <1>2, <1>8, RefreshTells DEF SavedOrNot, CopiesAreTold
<1>9. CASE LinkIsValid(s)
  <2> DEFINE fetched == SetValue(r.key, r.action, locals)
  <2>1. fetched \in [Keys -> Copy \cup {None}] /\ SameOrMarked(fetched, locals)
    <3>1. r.key \in Keys /\ r.action \in Changes
      BY <1>3, <1>4, <1>9 DEF LinkIsValid, Answered, RequestOK, Requests
    <3>2. CopiesOK(fetched, rows)
      BY <3>1, SetValueOK DEF CoreInv, FormOK
    <3>3. QED
      BY <1>1, <3>1, <3>2, SetValueTells DEF CopiesOK
  <2>2. AllTold(fetched, rows, missed, events)
    BY <2>1, StaysTold DEF CopiesAreTold
  <2>3. UNCHANGED missed
    BY <1>9 DEF LinkIsValid
  <2>4. CASE shown = None
    BY <1>2, <1>9, <2>2, <2>3, <2>4 DEF LinkIsValid, CopiesAreTold
  <2>5. CASE shown # None
    <3>1. locals' = SetValue(shown, r.action, fetched)
      BY <1>9, <2>5 DEF LinkIsValid
    <3>2. SameOrMarked(locals', fetched)
      BY <1>1, <2>1, <2>5, <3>1, SetValueTells
    <3>3. QED
      BY <1>2, <2>2, <2>3, <3>2, StaysTold DEF CopiesAreTold
  <2>6. QED
    BY <2>4, <2>5
<1>10. CASE GotNoDoc(s) \/ NotSaved(s) \/ LinkIsLost(s)
  BY <1>2, <1>10 DEF GotNoDoc, NotSaved, LinkIsLost, CopiesAreTold
<1>11. QED
  BY <1>6, <1>7, <1>8, <1>9, <1>10 DEF Answer

LEMMA DocUpdateTells ==
    ASSUME CoreInv, KeptInv, CopiesAreTold, NEW d \in Docs, NEW v, DocUpdate(d, v)
    PROVE  CopiesAreTold'
<1>1. UNCHANGED rows /\ events' = events \ {[doc |-> d, modified |-> v]}
  BY DEF DocUpdate, server
<1>2. missed \subseteq missed'
  BY DEF DocUpdate, IgnoreEvent, MissEvent, MarkCopy, DropCopy, ShowEvent, Miss
<1>3. locals \in [Keys -> Copy \cup {None}] /\ d \in Keys
  BY SomeKeys DEF CoreInv, CopiesOK
<1>4. \A e \in Docs \ {d} : Told(locals[e], e, rows', missed', events')
  <2>1. ASSUME NEW e \in Docs \ {d} PROVE Told(locals[e], e, rows', missed', events')
    <3>1. [doc |-> e, modified |-> rows[e].version] # [doc |-> d, modified |-> v]
      BY <2>1
    <3>2. Told(locals[e], e, rows, missed, events)
      BY DEF CopiesAreTold, AllTold
    <3>3. QED
      BY <1>1, <1>2, <3>1, <3>2 DEF Told
  <2>2. QED
    BY <2>1
<1>5. ASSUME v # rows[d].version PROVE Told(locals[d], d, rows', missed', events')
  <2>1. [doc |-> d, modified |-> rows[d].version] # [doc |-> d, modified |-> v]
    BY <1>5
  <2>2. Told(locals[d], d, rows, missed, events)
    BY DEF CopiesAreTold, AllTold
  <2>3. QED
    BY <1>1, <1>2, <2>1, <2>2 DEF Told
<1>6. CASE IgnoreEvent(d, v) \/ MissEvent(d, v)
  <2>1. UNCHANGED locals
    BY <1>6 DEF IgnoreEvent, MissEvent
  <2>2. ASSUME v = rows[d].version, locals[d] # None PROVE Told(locals[d], d, rows', missed', events')
    <3>1. CASE IgnoreEvent(d, v)
      <4>1. shown = d /\ FormDoc.modified = v
        BY <2>2, <3>1 DEF IgnoreEvent, OnScreen
      <4>2. FormDoc = locals[d]
        BY <2>2, <4>1, SomeKeys DEF KeptInv, FormDoc
      <4>3. QED
        BY <1>1, <2>2, <4>1, <4>2 DEF Told
    <3>2. CASE MissEvent(d, v)
      BY <2>2, <3>2 DEF MissEvent, Miss, Told
    <3>3. QED
      BY <1>6, <3>1, <3>2
  <2>3. Told(locals[d], d, rows', missed', events')
    BY <1>5, <2>2 DEF Told
  <2>4. QED
    BY <1>4, <2>1, <2>3 DEF CopiesAreTold, AllTold
<1>7. CASE DropCopy(d, v)
  <2>1. locals' = [locals EXCEPT ![d] = None]
    BY <1>7 DEF DropCopy
  <2>2. locals'[d] = None /\ \A e \in Docs \ {d} : locals'[e] = locals[e]
    BY <1>3, <2>1, SomeKeys
  <2>3. QED
    BY <1>4, <2>2 DEF CopiesAreTold, AllTold, Told
<1> DEFINE marked == [locals EXCEPT ![d].needs_refresh = TRUE]
<1>8. ASSUME locals[d] # None PROVE AllTold(marked, rows', missed', events')
  <2>1. \A k \in Keys : k # d => marked[k] = locals[k]
    BY <1>8, MarkOnly
  <2>2. marked[d].needs_refresh
    BY <1>3, <1>8, MarkOnly
  <2>3. QED
    BY <1>4, <2>1, <2>2, SomeKeys DEF AllTold, Told
<1>9. CASE MarkCopy(d, v)
  BY <1>8, <1>9 DEF MarkCopy, CopiesAreTold
<1>10. ASSUME NEW s \in Slots, ShowEvent(d, v, s) PROVE CopiesAreTold'
  <2>1. locals[d] # None /\ Refresh(d, marked, s)
    BY <1>10 DEF ShowEvent
  <2>2. marked \in [Keys -> Copy \cup {None}]
    BY <2>1, MarkedOK DEF CopiesOK
  <2>3. QED
    BY <1>3, <1>8, <2>1, <2>2, RefreshTells
<1>11. QED
  BY <1>6, <1>7, <1>9, <1>10 DEF DocUpdate

LEMMA ToldStep == CoreInv /\ KeptInv /\ CopiesAreTold /\ [Next]_vars => CopiesAreTold'
<1> SUFFICES ASSUME CoreInv, KeptInv, CopiesAreTold, [Next]_vars PROVE CopiesAreTold'
  OBVIOUS
<1>1. CASE UNCHANGED vars
  BY <1>1 DEF vars, server, CopiesAreTold
<1>2. CASE Realtime
  <2>1. ASSUME NEW d \in Docs, Join(d) PROVE CopiesAreTold'
    BY <2>1 DEF Join, server, CopiesAreTold
  <2>2. CASE Disconnect
    <3>1. UNCHANGED <<rows, locals>> /\ missed' = missed \cup {e.doc : e \in events}
      BY <2>2 DEF Disconnect, server
    <3>2. ASSUME NEW d \in Docs PROVE Told(locals'[d], d, rows', missed', events')
      <4>1. Told(locals[d], d, rows, missed, events)
        BY DEF CopiesAreTold, AllTold
      <4>2. [doc |-> d, modified |-> rows[d].version] \in events => d \in missed'
        BY <3>1
      <4>3. QED
        BY <3>1, <4>1, <4>2 DEF Told
    <3>3. QED
      BY <3>2 DEF CopiesAreTold, AllTold
  <2>3. QED
    BY <1>2, <2>1, <2>2, DocUpdateTells DEF Realtime
<1>3. QED
  BY <1>1, <1>2, UserTells, ServerTells, AnswerTells DEF Next

\* Once the events and answers are in, a copy is as new as its row or marked,
\* unless its event has passed the tab by.
THEOREM QuietIsFresh == Spec => []QuietCopiesAreFresh
<1>1. Init => CopiesAreTold
  BY SomeKeys DEF Init, CopiesAreTold, AllTold, Told
<1>2. CopiesAreTold => QuietCopiesAreFresh
  BY DEF CopiesAreTold, AllTold, Told, QuietCopiesAreFresh
<1>3. QED
  BY <1>1, <1>2, InvInit, InvStep, KeptInit, KeptStep, ToldStep, PTL DEF Spec

=============================================================================
