--------------------------- MODULE Realtime_proofs --------------------------
(***************************************************************************)
(* What holds of Realtime for every set of tabs and documents: the lists   *)
(* of viewers, the tabs that are kept as viewers and the rooms of the open *)
(* forms are right but in the ways the histories name, and the service     *)
(* implements the feed of DocFeed.                                         *)
(***************************************************************************)
EXTENDS Realtime, SequenceTheorems, TLAPS

LEMMA TypeInit == Init => TypeOK
<1> SUFFICES ASSUME Init PROVE TypeOK
  OBVIOUS
<1>1. <<>> \in Seq(SUBSET Tabs) /\ <<>> \in Seq(Events)
  OBVIOUS
<1>2. /\ screen = [t \in Tabs |-> None] /\ cur_frm = screen /\ last_doc = screen
      /\ opendocs = [t \in Tabs |-> {}] /\ open_docs = opendocs
      /\ up = opendocs /\ watch = opendocs /\ view = opendocs
  BY DEF Init
<1>3. /\ screen \in [Tabs -> Docs \cup {None}] /\ cur_frm \in [Tabs -> Docs \cup {None}]
      /\ last_doc \in [Tabs -> Types \cup {None}]
      /\ opendocs \in [Tabs -> SUBSET Docs] /\ open_docs \in [Tabs -> SUBSET Docs]
      /\ watch \in [Tabs -> SUBSET Docs] /\ view \in [Tabs -> SUBSET Docs]
      /\ up \in [Tabs -> SUBSET Messages]
  BY <1>2
<1>4. /\ viewers \in [Tabs -> [Docs -> (SUBSET Tabs) \cup {None}]]
      /\ timer \in [Tabs -> BOOLEAN] /\ online \in [Tabs -> BOOLEAN]
  BY DEF Init
<1>5. /\ lists \in [Tabs -> [Docs -> Seq(SUBSET Tabs)]]
      /\ updates \in [Tabs -> Seq(Events)] /\ channel \in Seq(Events)
  BY <1>1 DEF Init
<1>6. /\ checks \subseteq Checks
      /\ counts \in [moves : Nat, connects : Nat, events : Nat]
      /\ silent \subseteq Docs
      /\ ghosts \subseteq Tabs \X Docs /\ deaf \subseteq Tabs \X Docs
  BY DEF Init
<1>7. QED
  BY <1>3, <1>4, <1>5, <1>6 DEF TypeOK

-----------------------------------------------------------------------------
(***************************************************************************)
(* The messages of the tabs and what the server does with them.            *)
(***************************************************************************)
LEMMA SendType ==
    ASSUME TypeOK, NEW ds \in SUBSET Docs, NEW viewing
    PROVE  SendViewers(ds, viewing) \in [Tabs -> [Docs -> Seq(SUBSET Tabs)]]
<1>1. ASSUME NEW t \in Tabs, NEW d \in Docs
      PROVE  /\ lists[t][d] \in Seq(SUBSET Tabs)
             /\ Append(lists[t][d], {u \in Tabs : d \in viewing[u]}) \in Seq(SUBSET Tabs)
  <2>1. lists[t][d] \in Seq(SUBSET Tabs)
    BY DEF TypeOK
  <2>2. {u \in Tabs : d \in viewing[u]} \in SUBSET Tabs
    OBVIOUS
  <2>3. QED
    BY <2>1, <2>2, AppendProperties
<1>2. QED
  BY <1>1 DEF SendViewers

LEMMA ServeType ==
    ASSUME TypeOK, NEW t \in Tabs, NEW messages \in SUBSET Messages, Serve(t, messages)
    PROVE  /\ checks' \subseteq Checks
           /\ view' \in [Tabs -> SUBSET Docs]
           /\ lists' \in [Tabs -> [Docs -> Seq(SUBSET Tabs)]]
           /\ silent' \subseteq Docs
<1> DEFINE closed == {d \in Docs : Msg("doc_close", d) \in messages}
<1>1. Ask(t, messages) \subseteq Checks
  <2>1. ASSUME NEW m \in messages, m.kind # "doc_close"
        PROVE  [tab |-> t, kind |-> m.kind, doc |-> m.doc, live |-> TRUE] \in Checks
    <3>1. m.kind \in {"doc_subscribe", "doc_open"} /\ m.doc \in Docs
      BY <2>1 DEF Messages
    <3>2. QED
      BY <3>1 DEF Checks
  <2>2. checks \subseteq Checks
    BY DEF TypeOK
  <2>3. QED
    BY <2>1, <2>2 DEF Ask
<1>2. view' \in [Tabs -> SUBSET Docs]
  BY DEF Serve, TypeOK
<1>3. SendViewers(closed, view') \in [Tabs -> [Docs -> Seq(SUBSET Tabs)]]
  BY SendType
<1>4. QED
  BY <1>1, <1>2, <1>3 DEF Serve, TypeOK

\* What a step of Emit changes, and what it does not.
LEMMA EmitType ==
    ASSUME TypeOK, NEW t \in Tabs, NEW messages \in SUBSET Messages, Emit(t, messages)
    PROVE  /\ checks' \subseteq Checks
           /\ view' \in [Tabs -> SUBSET Docs]
           /\ lists' \in [Tabs -> [Docs -> Seq(SUBSET Tabs)]]
           /\ silent' \subseteq Docs
           /\ up' \in [Tabs -> SUBSET Messages]
<1>1. CASE online[t]
  BY <1>1, ServeType DEF Emit, TypeOK
<1>2. CASE ~online[t]
  <2>1. up[t] \cup messages \in SUBSET Messages
    BY DEF TypeOK
  <2>2. QED
    BY <1>2, <2>1 DEF Emit, TypeOK
<1>3. QED
  BY <1>1, <1>2

LEMMA MessageTypes ==
    ASSUME TypeOK, NEW t \in Tabs, NEW d \in Docs, NEW throttled, NEW page
    PROVE  /\ DocOpen(t, d) \in SUBSET Messages
           /\ DocSubscribe(t, d, throttled) \in SUBSET Messages
           /\ DocClose(t, page) \in SUBSET Messages
           /\ {m.doc : m \in DocSubscribe(t, d, throttled)} \subseteq {d}
<1>1. \A kind \in {"doc_subscribe", "doc_open", "doc_close"}, e \in Docs : Msg(kind, e) \in Messages
  BY DEF Msg, Messages
<1>2. screen[t] # None => screen[t] \in Docs
  BY DEF TypeOK
<1>3. QED
  BY <1>1, <1>2 DEF DocOpen, DocSubscribe, DocClose, Msg

LEMMA BreakType ==
    ASSUME TypeOK, NEW lost \in SUBSET Tabs, Break(lost)
    PROVE  /\ online' \in [Tabs -> BOOLEAN]
           /\ lists' \in [Tabs -> [Docs -> Seq(SUBSET Tabs)]]
           /\ updates' \in [Tabs -> Seq(Events)]
           /\ watch' \in [Tabs -> SUBSET Docs] /\ view' \in [Tabs -> SUBSET Docs]
           /\ silent' \subseteq Docs
           /\ ghosts' \subseteq Tabs \X Docs /\ deaf' \subseteq Tabs \X Docs
<1>1. <<>> \in Seq(SUBSET Tabs) /\ <<>> \in Seq(Events)
  OBVIOUS
<1>2. ASSUME NEW t \in Tabs, NEW d \in Docs
      PROVE  (IF t \in lost THEN <<>> ELSE lists[t][d]) \in Seq(SUBSET Tabs)
  BY <1>1 DEF TypeOK
<1>3. lists' \in [Tabs -> [Docs -> Seq(SUBSET Tabs)]]
  BY <1>2 DEF Break
<1>4. updates' \in [Tabs -> Seq(Events)]
  BY <1>1 DEF Break, TypeOK
<1>5. online' \in [Tabs -> BOOLEAN] /\ watch' \in [Tabs -> SUBSET Docs]
      /\ view' \in [Tabs -> SUBSET Docs]
  BY DEF Break, TypeOK
<1>6. UNION {view[t] : t \in lost} \subseteq Docs
  BY DEF TypeOK
<1>7. QED
  BY <1>3, <1>4, <1>5, <1>6 DEF Break, TypeOK

\* What the counters and the actions of the tab leave as it is.
LEMMA CountType ==
    ASSUME TypeOK, NEW counter \in {"moves", "connects", "events"}, Count(counter)
    PROVE  counts' \in [moves : Nat, connects : Nat, events : Nat]
  BY DEF TypeOK, Count

LEMMA LeftType ==
    ASSUME TypeOK, NEW t \in Tabs, NEW page
    PROVE  Left(t, page) \subseteq Tabs \X Docs
  BY DEF TypeOK, Left

LEMMA CloseType ==
    ASSUME TypeOK, NEW t \in Tabs, NEW page
    PROVE  DocClose(t, page) \in SUBSET Messages
  BY DEF DocClose, Msg, Messages, TypeOK

LEMMA RefreshType ==
    ASSUME TypeOK, NEW t \in Tabs, NEW d \in Docs, NEW closing \in SUBSET Messages,
           Refresh(t, d, closing)
    PROVE  /\ checks' \subseteq Checks /\ view' \in [Tabs -> SUBSET Docs]
           /\ lists' \in [Tabs -> [Docs -> Seq(SUBSET Tabs)]]
           /\ silent' \subseteq Docs /\ up' \in [Tabs -> SUBSET Messages]
           /\ last_doc' \in [Tabs -> Types \cup {None}]
           /\ opendocs' \in [Tabs -> SUBSET Docs] /\ open_docs' \in [Tabs -> SUBSET Docs]
           /\ deaf' \subseteq Tabs \X Docs
<1>1. PICK throttled \in Throttled(t) :
        /\ Emit(t, closing \cup DocSubscribe(t, d, throttled) \cup DocOpen(t, d))
        /\ open_docs' = [open_docs EXCEPT ![t] =
                            @ \cup {m.doc : m \in DocSubscribe(t, d, throttled)}]
        /\ deaf' = IF d \in opendocs[t] THEN deaf
                   ELSE IF throttled THEN deaf \cup {<<t, d>>} ELSE deaf \ {<<t, d>>}
  BY DEF Refresh
<1>2. /\ DocOpen(t, d) \in SUBSET Messages
      /\ DocSubscribe(t, d, throttled) \in SUBSET Messages
      /\ {m.doc : m \in DocSubscribe(t, d, throttled)} \subseteq {d}
  BY MessageTypes
<1>3. /\ checks' \subseteq Checks /\ view' \in [Tabs -> SUBSET Docs]
      /\ lists' \in [Tabs -> [Docs -> Seq(SUBSET Tabs)]]
      /\ silent' \subseteq Docs /\ up' \in [Tabs -> SUBSET Messages]
  BY <1>1, <1>2, EmitType
<1>4. last_doc' \in [Tabs -> Types \cup {None}]
  BY DEF Refresh, Remember, TypeOK, Types
<1>5. opendocs' \in [Tabs -> SUBSET Docs]
  BY DEF Refresh, TypeOK
<1>6. open_docs' \in [Tabs -> SUBSET Docs]
  <2>1. open_docs[t] \cup {m.doc : m \in DocSubscribe(t, d, throttled)} \in SUBSET Docs
    BY <1>2 DEF TypeOK
  <2>2. QED
    BY <1>1, <2>1 DEF TypeOK
<1>7. deaf' \subseteq Tabs \X Docs
  BY <1>1 DEF TypeOK
<1>8. QED
  BY <1>3, <1>4, <1>5, <1>6, <1>7

LEMMA UserType ==
    ASSUME TypeOK, NEW t \in Tabs, User(t)
    PROVE  TypeOK'
<1>1. ASSUME RefreshForm(t) PROVE TypeOK'
  <2>1. screen[t] \in Docs
    BY <1>1 DEF TypeOK, RefreshForm
  <2>2. Refresh(t, screen[t], {}) /\ {} \in SUBSET Messages
    BY <1>1 DEF RefreshForm
  <2>3. /\ checks' \subseteq Checks /\ view' \in [Tabs -> SUBSET Docs]
        /\ lists' \in [Tabs -> [Docs -> Seq(SUBSET Tabs)]]
        /\ silent' \subseteq Docs /\ up' \in [Tabs -> SUBSET Messages]
        /\ last_doc' \in [Tabs -> Types \cup {None}]
        /\ opendocs' \in [Tabs -> SUBSET Docs] /\ open_docs' \in [Tabs -> SUBSET Docs]
        /\ deaf' \subseteq Tabs \X Docs
    BY <2>1, <2>2, RefreshType
  <2>4. counts' \in [moves : Nat, connects : Nat, events : Nat]
    <3>1. counts' = counts \/ Count("moves")
      BY <1>1 DEF RefreshForm
    <3>2. QED
      BY <3>1, CountType DEF TypeOK
  <2>5. viewers' \in [Tabs -> [Docs -> (SUBSET Tabs) \cup {None}]]
    BY <1>1, <2>1 DEF RefreshForm, TypeOK
  <2>6. QED
    BY <1>1, <2>3, <2>4, <2>5 DEF RefreshForm, TypeOK
<1>2. ASSUME LeaveForm(t) PROVE TypeOK'
  <2>1. DocClose(t, None) \in SUBSET Messages
    BY CloseType
  <2>2. /\ checks' \subseteq Checks /\ view' \in [Tabs -> SUBSET Docs]
        /\ lists' \in [Tabs -> [Docs -> Seq(SUBSET Tabs)]]
        /\ silent' \subseteq Docs /\ up' \in [Tabs -> SUBSET Messages]
    BY <1>2, <2>1, EmitType DEF LeaveForm
  <2>3. counts' \in [moves : Nat, connects : Nat, events : Nat]
    BY <1>2, CountType DEF LeaveForm
  <2>4. ghosts' \subseteq Tabs \X Docs
    BY <1>2, LeftType DEF LeaveForm
  <2>5. QED
    BY <1>2, <2>2, <2>3, <2>4 DEF LeaveForm, TypeOK
<1>3. ASSUME NEW d \in Docs, OpenForm(t, d) PROVE TypeOK'
  <2>1. Refresh(t, d, DocClose(t, DocType[d])) /\ DocClose(t, DocType[d]) \in SUBSET Messages
    BY <1>3, CloseType DEF OpenForm
  <2>2. /\ checks' \subseteq Checks /\ view' \in [Tabs -> SUBSET Docs]
        /\ lists' \in [Tabs -> [Docs -> Seq(SUBSET Tabs)]]
        /\ silent' \subseteq Docs /\ up' \in [Tabs -> SUBSET Messages]
        /\ last_doc' \in [Tabs -> Types \cup {None}]
        /\ opendocs' \in [Tabs -> SUBSET Docs] /\ open_docs' \in [Tabs -> SUBSET Docs]
        /\ deaf' \subseteq Tabs \X Docs
    BY <2>1, RefreshType
  <2>3. counts' \in [moves : Nat, connects : Nat, events : Nat]
    BY <1>3, CountType DEF OpenForm
  <2>4. ghosts' \subseteq Tabs \X Docs
    BY <1>3, LeftType DEF OpenForm
  <2>5. viewers' \in [Tabs -> [Docs -> (SUBSET Tabs) \cup {None}]]
    BY <1>3 DEF OpenForm, TypeOK
  <2>6. QED
    BY <1>3, <2>2, <2>3, <2>4, <2>5 DEF OpenForm, TypeOK
<1>4. ASSUME NEW d \in Docs, ReloadForm(t, d) PROVE TypeOK'
  <2>1. Emit(t, DocClose(t, DocType[d])) /\ DocClose(t, DocType[d]) \in SUBSET Messages
    BY <1>4, CloseType DEF ReloadForm
  <2>2. /\ checks' \subseteq Checks /\ view' \in [Tabs -> SUBSET Docs]
        /\ lists' \in [Tabs -> [Docs -> Seq(SUBSET Tabs)]]
        /\ silent' \subseteq Docs /\ up' \in [Tabs -> SUBSET Messages]
    BY <2>1, EmitType
  <2>3. counts' \in [moves : Nat, connects : Nat, events : Nat]
    BY <1>4, CountType DEF ReloadForm
  <2>4. ghosts' \subseteq Tabs \X Docs
    BY <1>4, LeftType DEF ReloadForm, TypeOK
  <2>5. opendocs' \in [Tabs -> SUBSET Docs]
    BY <1>4 DEF ReloadForm, TypeOK
  <2>6. QED
    BY <1>4, <2>2, <2>3, <2>4, <2>5 DEF ReloadForm, TypeOK
<1>5. QED
  BY <1>1, <1>2, <1>3, <1>4 DEF User

LEMMA PageType ==
    ASSUME TypeOK, NEW t \in Tabs, Page(t)
    PROVE  TypeOK'
<1>1. ASSUME Connect(t) PROVE TypeOK'
  <2>1. up[t] \in SUBSET Messages
    BY DEF TypeOK
  <2>2. /\ checks' \subseteq Checks /\ view' \in [Tabs -> SUBSET Docs]
        /\ lists' \in [Tabs -> [Docs -> Seq(SUBSET Tabs)]] /\ silent' \subseteq Docs
    BY <1>1, <2>1, ServeType DEF Connect
  <2>3. counts' \in [moves : Nat, connects : Nat, events : Nat]
    BY <1>1, CountType DEF Connect
  <2>4. QED
    BY <1>1, <2>2, <2>3 DEF Connect, client, TypeOK
<1>2. ASSUME Reconnect(t) PROVE TypeOK'
  <2>1. CASE cur_frm[t] = None
    BY <1>2, <2>1 DEF Reconnect, TypeOK
  <2>2. CASE cur_frm[t] # None
    <3>1. cur_frm[t] \in Docs
      BY <2>2 DEF TypeOK
    <3>2. DocOpen(t, cur_frm[t]) \in SUBSET Messages
      BY <3>1, MessageTypes
    <3>3. /\ checks' \subseteq Checks /\ view' \in [Tabs -> SUBSET Docs]
          /\ lists' \in [Tabs -> [Docs -> Seq(SUBSET Tabs)]]
          /\ silent' \subseteq Docs /\ up' \in [Tabs -> SUBSET Messages]
      BY <1>2, <2>2, <3>2, EmitType DEF Reconnect
    <3>4. last_doc' \in [Tabs -> Types \cup {None}]
      <4>1. DocType[cur_frm[t]] \in Types
        BY <3>1 DEF Types
      <4>2. last_doc' = [last_doc EXCEPT ![t] = DocType[cur_frm[t]]]
        BY <1>2, <2>2 DEF Reconnect, Remember
      <4>3. QED
        BY <4>1, <4>2 DEF TypeOK
    <3>5. QED
      BY <1>2, <3>3, <3>4 DEF Reconnect, TypeOK
  <2>3. QED
    BY <2>1, <2>2
<1>3. ASSUME TakeUpdate(t) PROVE TypeOK'
  <2>1. Tail(updates[t]) \in Seq(Events)
    BY <1>3 DEF TypeOK, TakeUpdate
  <2>2. opendocs' \in [Tabs -> SUBSET Docs]
    BY <1>3 DEF TypeOK, TakeUpdate
  <2>3. QED
    BY <1>3, <2>1, <2>2 DEF TakeUpdate, TypeOK, server, history
<1>4. ASSUME NEW d \in Docs, ShowViewers(t, d) PROVE TypeOK'
  <2>1. lists[t][d] \in Seq(SUBSET Tabs) /\ lists[t][d] # <<>>
    BY <1>4 DEF TypeOK, ShowViewers
  <2>2. Tail(lists[t][d]) \in Seq(SUBSET Tabs) /\ Head(lists[t][d]) \in SUBSET Tabs
    BY <2>1, HeadTailProperties
  <2>3. lists' \in [Tabs -> [Docs -> Seq(SUBSET Tabs)]]
    BY <1>4, <2>2 DEF ShowViewers, TypeOK
  <2>4. viewers' \in [Tabs -> [Docs -> (SUBSET Tabs) \cup {None}]]
    BY <1>4, <2>2 DEF ShowViewers, TypeOK
  <2>5. QED
    BY <1>4, <2>3, <2>4 DEF ShowViewers, TypeOK, client, server, history
<1>5. QED
  BY <1>1, <1>2, <1>3, <1>4 DEF Page

LEMMA TypeStep == TypeOK /\ [Next]_vars => TypeOK'
<1> SUFFICES ASSUME TypeOK, [Next]_vars PROVE TypeOK'
  OBVIOUS
<1>1. ASSUME NEW t \in Tabs, Disconnect(t) PROVE TypeOK'
  <2>1. {t} \in SUBSET Tabs /\ Break({t})
    BY <1>1 DEF Disconnect
  <2>2. checks' \subseteq Checks
    <3>1. ASSUME NEW c \in checks
          PROVE  [c EXCEPT !.live = c.live /\ c.tab # t] \in Checks
      <4>1. c \in Checks
        BY DEF TypeOK
      <4>2. QED
        BY <4>1 DEF Checks
    <3>2. QED
      BY <1>1, <3>1 DEF Disconnect
  <2>3. QED
    BY <1>1, <2>1, <2>2, BreakType DEF Disconnect, TypeOK, client
<1>2. ASSUME NEW c \in checks, Permit(c) PROVE TypeOK'
  <2>1. c \in Checks
    BY DEF TypeOK
  <2>2. c.tab \in Tabs /\ c.doc \in Docs
    BY <2>1 DEF Checks
  <2>3. checks' \subseteq Checks
    BY <1>2 DEF Permit, TypeOK
  <2>4. CASE c.kind = "doc_subscribe"
    <3>1. watch' \in [Tabs -> SUBSET Docs]
      <4>1. watch[c.tab] \cup {c.doc} \in SUBSET Docs
        BY <2>2 DEF TypeOK
      <4>2. [watch EXCEPT ![c.tab] = @ \cup {c.doc}] \in [Tabs -> SUBSET Docs]
        BY <4>1 DEF TypeOK
      <4>3. QED
        BY <1>2, <2>4, <4>2 DEF Permit, TypeOK
    <3>2. QED
      BY <1>2, <2>2, <2>3, <2>4, <3>1 DEF Permit, TypeOK, client
  <2>5. CASE c.kind # "doc_subscribe"
    <3>1. SendViewers({c.doc}, view') \in [Tabs -> [Docs -> Seq(SUBSET Tabs)]]
      BY <2>2, SendType
    <3>2. view' \in [Tabs -> SUBSET Docs]
      <4>1. view[c.tab] \cup {c.doc} \in SUBSET Docs
        BY <2>2 DEF TypeOK
      <4>2. [view EXCEPT ![c.tab] = @ \cup {c.doc}] \in [Tabs -> SUBSET Docs]
        BY <4>1 DEF TypeOK
      <4>3. QED
        BY <1>2, <2>5, <4>2 DEF Permit, TypeOK
    <3>3. ghosts' \subseteq Tabs \X Docs
      BY <1>2, <2>2, <2>5 DEF Permit, TypeOK
    <3>4. QED
      BY <1>2, <2>3, <2>5, <3>1, <3>2, <3>3 DEF Permit, TypeOK, client
  <2>6. QED
    BY <2>4, <2>5
<1>3. ASSUME NEW c \in checks, Refuse(c) PROVE TypeOK'
  <2>1. c \in Checks
    BY DEF TypeOK
  <2>2. c.tab \in Tabs /\ c.doc \in Docs
    BY <2>1 DEF Checks
  <2>3. QED
    BY <1>3, <2>2 DEF Refuse, TypeOK, client
<1>4. ASSUME NEW d \in Docs, Publish(d) PROVE TypeOK'
  <2>1. counts' \in [moves : Nat, connects : Nat, events : Nat]
    BY <1>4, CountType DEF Publish
  <2>2. [doc |-> d, number |-> counts.events + 1] \in Events
    BY DEF TypeOK, Events
  <2>3. channel' \in Seq(Events)
    BY <1>4, <2>2 DEF Publish, TypeOK
  <2>4. QED
    BY <1>4, <2>1, <2>3 DEF Publish, TypeOK, client, server, history
<1>5. ASSUME Relay PROVE TypeOK'
  <2>1. Head(channel) \in Events /\ Tail(channel) \in Seq(Events)
    BY <1>5, HeadTailProperties DEF Relay, TypeOK
  <2>2. updates' \in [Tabs -> Seq(Events)]
    BY <1>5, <2>1 DEF Relay, TypeOK
  <2>3. QED
    BY <1>5, <2>1, <2>2 DEF Relay, TypeOK, client, server, history
<1>6. ASSUME Restart PROVE TypeOK'
  <2>1. {t \in Tabs : online[t]} \in SUBSET Tabs /\ Break({t \in Tabs : online[t]})
    BY <1>6 DEF Restart
  <2>2. checks' \subseteq Checks /\ channel' \in Seq(Events)
    BY <1>6 DEF Restart
  <2>3. QED
    BY <1>6, <2>1, <2>2, BreakType DEF Restart, TypeOK, client
<1>7. CASE UNCHANGED vars
  BY <1>7 DEF vars, client, server, history, TypeOK
<1>8. QED
  BY <1>1, <1>2, <1>3, <1>4, <1>5, <1>6, <1>7, UserType, PageType DEF Next

\* Every variable keeps its type.
THEOREM TypeCorrect == Spec => []TypeOK
  BY TypeInit, TypeStep, PTL DEF Spec

-----------------------------------------------------------------------------
(***************************************************************************)
(* The inductive invariant.                                                *)
(***************************************************************************)

\* Node takes a socket that is gone out of its rooms, and answers that come
\* for it later join nothing.
Offline ==
    /\ \A t \in Tabs : ~online[t] => view[t] = {}
    /\ \A c \in checks : c.live => online[c.tab]

\* The last list of viewers on its way, or the one shown if there is none, is the
\* list of those who view the document.
LatestIsCurrent ==
    \A t \in Tabs, d \in Docs :
        (d \in view[t] /\ d \notin silent) =>
            IF lists[t][d] = <<>> THEN viewers[t][d] \in {None, Viewing(d)}
            ELSE lists[t][d][Len(lists[t][d])] = Viewing(d)

\* The numbers of the events in the Redis channel end with the last one.
ChannelIsNumbered ==
    /\ Len(channel) <= counts.events
    /\ \A i \in 1..Len(channel) : channel[i].number = counts.events - Len(channel) + i

RInv ==
    /\ TypeOK /\ Offline /\ GhostsAreKnown /\ FormsAreWatched /\ LatestIsCurrent
    /\ ChannelIsNumbered

-----------------------------------------------------------------------------
(***************************************************************************)
(* What the messages of a tab do to the rooms.                             *)
(***************************************************************************)
Subscription(t, d) == [tab |-> t, kind |-> "doc_subscribe", doc |-> d, live |-> TRUE]

\* Only t leaves rooms, and it asks for others.
LEMMA ServeEffect ==
    ASSUME TypeOK, NEW t \in Tabs, NEW messages \in SUBSET Messages, Serve(t, messages)
    PROVE  /\ \A u \in Tabs \ {t} : view'[u] = view[u]
           /\ view'[t] = view[t] \ {d \in Docs : Msg("doc_close", d) \in messages}
           /\ checks \subseteq checks' /\ \A c \in checks' \ checks : c.tab = t
           /\ \A d \in Docs : Msg("doc_subscribe", d) \in messages
                                => Subscription(t, d) \in checks'
<1>1. view' = [view EXCEPT ![t] = @ \ {d \in Docs : Msg("doc_close", d) \in messages}]
      /\ checks' = Ask(t, messages)
  BY DEF Serve
<1>2. /\ \A u \in Tabs \ {t} : view'[u] = view[u]
      /\ view'[t] = view[t] \ {d \in Docs : Msg("doc_close", d) \in messages}
  BY <1>1 DEF TypeOK
<1>3. checks \subseteq checks' /\ \A c \in checks' \ checks : c.tab = t
  BY <1>1 DEF Ask
<1>4. ASSUME NEW d \in Docs, Msg("doc_subscribe", d) \in messages
      PROVE  Subscription(t, d) \in checks'
  <2>1. Msg("doc_subscribe", d).kind = "doc_subscribe" /\ Msg("doc_subscribe", d).doc = d
    BY DEF Msg
  <2>2. QED
    BY <1>1, <1>4, <2>1 DEF Ask, Subscription
<1>5. QED
  BY <1>2, <1>3, <1>4

LEMMA EmitEffect ==
    ASSUME TypeOK, NEW t \in Tabs, NEW messages \in SUBSET Messages, Emit(t, messages)
    PROVE  /\ \A u \in Tabs \ {t} : view'[u] = view[u]
           /\ view'[t] \subseteq view[t]
           /\ online[t] => view'[t] = view[t] \ {d \in Docs : Msg("doc_close", d) \in messages}
           /\ checks \subseteq checks'
           /\ \A c \in checks' \ checks : c.tab = t /\ online[t]
           /\ \A u \in Tabs : up[u] \subseteq up'[u]
           /\ \A d \in Docs : Msg("doc_subscribe", d) \in messages => Joining(t, d)'
<1>1. CASE online[t]
  <2>1. Serve(t, messages) /\ up' = up
    BY <1>1 DEF Emit
  <2>2. QED
    BY <1>1, <2>1, ServeEffect DEF Joining, Subscription
<1>2. CASE ~online[t]
  <2>1. up' = [up EXCEPT ![t] = @ \cup messages] /\ UNCHANGED <<checks, view>>
    BY <1>2 DEF Emit
  <2>2. \A u \in Tabs : up[u] \subseteq up'[u]
    BY <2>1 DEF TypeOK
  <2>3. messages \subseteq up'[t]
    BY <2>1 DEF TypeOK
  <2>4. QED
    BY <1>2, <2>1, <2>2, <2>3 DEF Joining
<1>3. QED
  BY <1>1, <1>2

\* A request is on its way until it is answered.
LEMMA JoiningStays ==
    ASSUME NEW t \in Tabs, NEW d \in Docs, Joining(t, d),
           checks \subseteq checks', up[t] \subseteq up'[t]
    PROVE  Joining(t, d)'
  BY DEF Joining

\* The lists of viewers after the messages of a tab: those who stay are sent the
\* list without it.
LEMMA ServeLists ==
    ASSUME TypeOK, LatestIsCurrent, NEW t \in Tabs, NEW messages \in SUBSET Messages,
           Serve(t, messages),
           \A u \in Tabs, e \in Docs : viewers'[u][e] \in {viewers[u][e], None}
    PROVE  LatestIsCurrent'
<1> DEFINE closed == {d \in Docs : Msg("doc_close", d) \in messages}
<1> SUFFICES ASSUME NEW u \in Tabs, NEW d \in Docs, d \in view'[u], d \notin silent'
             PROVE  IF lists'[u][d] = <<>> THEN viewers'[u][d] \in {None, Viewing(d)'}
                    ELSE lists'[u][d][Len(lists'[u][d])] = Viewing(d)'
  BY DEF LatestIsCurrent
<1>1. Viewing(d)' = {v \in Tabs : d \in view'[v]}
  BY DEF Viewing
<1>2. lists'[u][d] = IF d \in closed /\ d \in view'[u]
                       THEN Append(lists[u][d], Viewing(d)') ELSE lists[u][d]
  BY <1>1 DEF Serve, SendViewers
<1>3. lists[u][d] \in Seq(SUBSET Tabs) /\ Viewing(d)' \in SUBSET Tabs
  BY <1>1 DEF TypeOK
<1>4. CASE d \in closed
  BY <1>2, <1>3, <1>4, AppendProperties
<1>5. CASE d \notin closed
  <2>1. view'[t] = view[t] \ closed /\ \A v \in Tabs \ {t} : view'[v] = view[v]
    BY ServeEffect
  <2>2. Viewing(d)' = Viewing(d) /\ d \in view[u]
    BY <1>1, <1>5, <2>1 DEF Viewing
  <2>3. d \notin silent
    BY <1>5 DEF Serve
  <2>4. QED
    BY <1>2, <1>5, <2>2, <2>3 DEF LatestIsCurrent
<1>6. QED
  BY <1>4, <1>5

LEMMA EmitLists ==
    ASSUME TypeOK, LatestIsCurrent, NEW t \in Tabs, NEW messages \in SUBSET Messages,
           Emit(t, messages),
           \A u \in Tabs, e \in Docs : viewers'[u][e] \in {viewers[u][e], None}
    PROVE  LatestIsCurrent'
<1>1. CASE online[t]
  BY <1>1, ServeLists DEF Emit
<1>2. CASE ~online[t]
  <2>1. UNCHANGED <<view, lists, silent>>
    BY <1>2 DEF Emit
  <2>2. QED
    BY <2>1 DEF LatestIsCurrent, Viewing
<1>3. QED
  BY <1>1, <1>2

\* A form is shown with the messages of the page that is left, if any.
LEMMA RefreshEmits ==
    ASSUME TypeOK, NEW t \in Tabs, NEW d \in Docs, NEW closing \in SUBSET Messages,
           Refresh(t, d, closing)
    PROVE  \E messages \in SUBSET Messages : closing \subseteq messages /\ Emit(t, messages)
<1>1. PICK throttled \in Throttled(t) :
        Emit(t, closing \cup DocSubscribe(t, d, throttled) \cup DocOpen(t, d))
  BY DEF Refresh
<1>2. closing \cup DocSubscribe(t, d, throttled) \cup DocOpen(t, d) \in SUBSET Messages
  BY MessageTypes
<1>3. QED
  BY <1>1, <1>2

\* The users and the timer of a tab act through messages only.
LEMMA UserEmits ==
    ASSUME TypeOK, NEW t \in Tabs, User(t) \/ Reconnect(t)
    PROVE  /\ \/ UNCHANGED <<up, checks, view, lists, silent, viewers>>
              \/ \E messages \in SUBSET Messages : Emit(t, messages)
           /\ UNCHANGED <<online, watch, channel, updates>> /\ counts'.events = counts.events
           /\ \A u \in Tabs, e \in Docs : viewers'[u][e] \in {viewers[u][e], None}
<1>1. CASE RefreshForm(t)
  <2>1. screen[t] \in Docs /\ Refresh(t, screen[t], {}) /\ {} \in SUBSET Messages
    BY <1>1 DEF RefreshForm, TypeOK
  <2>2. \E messages \in SUBSET Messages : Emit(t, messages)
    BY <2>1, RefreshEmits
  <2>3. \A u \in Tabs, e \in Docs : viewers'[u][e] \in {viewers[u][e], None}
    BY <1>1, <2>1 DEF RefreshForm, TypeOK
  <2>4. counts'.events = counts.events
    BY <1>1 DEF RefreshForm, Count, TypeOK
  <2>5. QED
    BY <1>1, <2>2, <2>3, <2>4 DEF RefreshForm
<1>2. CASE LeaveForm(t)
  <2>1. DocClose(t, None) \in SUBSET Messages
    BY CloseType
  <2>2. counts'.events = counts.events
    BY <1>2 DEF LeaveForm, Count, TypeOK
  <2>3. QED
    BY <1>2, <2>1, <2>2 DEF LeaveForm
<1>3. ASSUME NEW d \in Docs, OpenForm(t, d)
      PROVE  /\ \E messages \in SUBSET Messages : Emit(t, messages)
             /\ UNCHANGED <<online, watch, channel, updates>> /\ counts'.events = counts.events
             /\ \A u \in Tabs, e \in Docs : viewers'[u][e] \in {viewers[u][e], None}
  <2>1. Refresh(t, d, DocClose(t, DocType[d])) /\ DocClose(t, DocType[d]) \in SUBSET Messages
    BY <1>3, CloseType DEF OpenForm
  <2>2. \E messages \in SUBSET Messages : Emit(t, messages)
    BY <2>1, RefreshEmits
  <2>3. counts'.events = counts.events
    BY <1>3 DEF OpenForm, Count, TypeOK
  <2>4. \A u \in Tabs, e \in Docs : viewers'[u][e] \in {viewers[u][e], None}
    BY <1>3 DEF OpenForm, TypeOK
  <2>5. QED
    BY <1>3, <2>2, <2>3, <2>4 DEF OpenForm
<1>4. ASSUME NEW d \in Docs, ReloadForm(t, d)
      PROVE  /\ \E messages \in SUBSET Messages : Emit(t, messages)
             /\ UNCHANGED <<online, watch, channel, updates, viewers>>
             /\ counts'.events = counts.events
  <2>1. DocClose(t, DocType[d]) \in SUBSET Messages
    BY CloseType
  <2>2. counts'.events = counts.events
    BY <1>4 DEF ReloadForm, Count, TypeOK
  <2>3. QED
    BY <1>4, <2>1, <2>2 DEF ReloadForm
<1>5. CASE Reconnect(t)
  <2>1. UNCHANGED <<viewers, online, watch, channel, updates, counts>>
    BY <1>5 DEF Reconnect
  <2>2. CASE cur_frm[t] = None
    BY <1>5, <2>1, <2>2 DEF Reconnect
  <2>3. CASE cur_frm[t] # None
    <3>1. cur_frm[t] \in Docs /\ Emit(t, DocOpen(t, cur_frm[t]))
      BY <1>5, <2>3 DEF Reconnect, TypeOK
    <3>2. DocOpen(t, cur_frm[t]) \in SUBSET Messages
      BY <3>1, MessageTypes
    <3>3. QED
      BY <2>1, <3>1, <3>2
  <2>4. QED
    BY <2>2, <2>3
<1>6. QED
  BY <1>1, <1>2, <1>3, <1>4, <1>5 DEF User

-----------------------------------------------------------------------------
(***************************************************************************)
(* Every step keeps the invariant, one part at a time.                     *)
(***************************************************************************)
LEMMA OfflineStep == ASSUME TypeOK, Offline, [Next]_vars PROVE Offline'
<1>1. ASSUME NEW t \in Tabs, User(t) \/ Reconnect(t) PROVE Offline'
  <2>1. UNCHANGED online
    BY <1>1, UserEmits
  <2>2. CASE UNCHANGED <<up, checks, view, lists, silent, viewers>>
    BY <2>1, <2>2 DEF Offline
  <2>3. ASSUME NEW messages \in SUBSET Messages, Emit(t, messages) PROVE Offline'
    <3>1. /\ \A u \in Tabs : view'[u] \subseteq view[u]
          /\ \A c \in checks' \ checks : c.tab = t /\ online[t]
      BY <2>3, EmitEffect
    <3>2. QED
      BY <2>1, <3>1 DEF Offline
  <2>4. QED
    BY <1>1, <2>2, <2>3, UserEmits
<1>2. ASSUME NEW t \in Tabs, Connect(t) PROVE Offline'
  <2>1. /\ Serve(t, up[t]) /\ up[t] \in SUBSET Messages
        /\ online'[t] /\ \A u \in Tabs \ {t} : online'[u] = online[u]
    BY <1>2 DEF Connect, TypeOK
  <2>2. /\ \A u \in Tabs \ {t} : view'[u] = view[u]
        /\ \A c \in checks' \ checks : c.tab = t
    BY <2>1, ServeEffect
  <2>3. \A c \in checks : c.tab \in Tabs
    BY DEF TypeOK, Checks
  <2>4. QED
    BY <2>1, <2>2, <2>3 DEF Offline
<1>3. ASSUME NEW t \in Tabs, TakeUpdate(t) PROVE Offline'
  BY <1>3 DEF TakeUpdate, server, Offline
<1>4. ASSUME NEW t \in Tabs, NEW d \in Docs, ShowViewers(t, d) PROVE Offline'
  BY <1>4 DEF ShowViewers, server, Offline
<1>5. ASSUME NEW t \in Tabs, Disconnect(t) PROVE Offline'
  <2>1. /\ \A u \in Tabs : online'[u] = (online[u] /\ u # t)
        /\ \A u \in Tabs : view'[u] = IF u = t THEN {} ELSE view[u]
    BY <1>5 DEF Disconnect, Break
  <2>2. ASSUME NEW c \in checks', c.live PROVE online'[c.tab]
    <3>1. PICK b \in checks : c = [b EXCEPT !.live = b.live /\ b.tab # t]
      BY <1>5 DEF Disconnect
    <3>2. b \in Checks
      BY DEF TypeOK
    <3>3. c.tab = b.tab /\ b.tab \in Tabs /\ b.live /\ b.tab # t
      BY <2>2, <3>1, <3>2 DEF Checks
    <3>4. QED
      BY <2>1, <3>3 DEF Offline
  <2>3. QED
    BY <2>1, <2>2 DEF Offline
<1>6. ASSUME NEW c \in checks, Permit(c) PROVE Offline'
  <2>1. c.tab \in Tabs /\ UNCHANGED online /\ checks' \subseteq checks
    BY <1>6 DEF Permit, TypeOK, Checks
  <2>2. \A t \in Tabs : view'[t] = view[t] \/ (t = c.tab /\ c.live)
    BY <1>6, <2>1 DEF Permit, TypeOK
  <2>3. QED
    BY <2>1, <2>2 DEF Offline
<1>7. ASSUME NEW c \in checks, Refuse(c) PROVE Offline'
  BY <1>7 DEF Refuse, Offline
<1>8. ASSUME NEW d \in Docs, Publish(d) PROVE Offline'
  BY <1>8 DEF Publish, server, Offline
<1>9. ASSUME Relay PROVE Offline'
  BY <1>9 DEF Relay, server, Offline
<1>10. ASSUME Restart PROVE Offline'
  <2>1. /\ checks' = {}
        /\ \A t \in Tabs : view'[t] = IF online[t] THEN {} ELSE view[t]
    BY <1>10 DEF Restart, Break
  <2>2. QED
    BY <2>1 DEF Offline
<1>11. CASE UNCHANGED vars
  BY <1>11 DEF vars, server, Offline
<1>12. QED
  BY <1>1, <1>2, <1>3, <1>4, <1>5, <1>6, <1>7, <1>8, <1>9, <1>10, <1>11 DEF Next, User, Page

-----------------------------------------------------------------------------
\* A form that is left is closed at the server, unless its page stays or nobody
\* is connected.
LEMMA LeavingCloses ==
    ASSUME TypeOK, Offline, GhostsAreKnown, NEW t \in Tabs, NEW page,
           NEW messages \in SUBSET Messages, Emit(t, messages), DocClose(t, page) \subseteq messages,
           ghosts' = Left(t, page), \A u \in Tabs \ {t} : screen'[u] = screen[u]
    PROVE  GhostsAreKnown'
<1> SUFFICES ASSUME NEW u \in Tabs, NEW d \in Docs, d \in view'[u], screen'[u] # d
             PROVE  <<u, d>> \in ghosts'
  BY DEF GhostsAreKnown
<1>1. d \in view[u]
  BY EmitEffect
<1>2. d # None
  BY RealtimeAssumption
<1>3. CASE u # t
  <2>1. <<u, d>> \in ghosts
    BY <1>1, <1>3 DEF GhostsAreKnown
  <2>2. QED
    BY <1>3, <2>1 DEF Left
<1>4. CASE u = t /\ d # screen[t]
  <2>1. <<t, d>> \in ghosts
    BY <1>1, <1>4 DEF GhostsAreKnown
  <2>2. QED
    BY <1>4, <2>1 DEF Left
<1>5. CASE u = t /\ d = screen[t] /\ page = DocType[d]
  BY <1>2, <1>5 DEF Left
<1>6. CASE u = t /\ d = screen[t] /\ page # DocType[d]
  <2>1. online[t]
    BY <1>1, <1>6 DEF Offline
  <2>2. Msg("doc_close", d) \in messages
    BY <1>2, <1>6 DEF DocClose
  <2>3. QED
    BY <1>6, <2>1, <2>2, EmitEffect
<1>7. QED
  BY <1>3, <1>4, <1>5, <1>6

LEMMA GhostsStep == ASSUME TypeOK, Offline, GhostsAreKnown, [Next]_vars PROVE GhostsAreKnown'
<1>1. ASSUME NEW t \in Tabs, NEW d \in Docs, OpenForm(t, d) PROVE GhostsAreKnown'
  <2>1. Refresh(t, d, DocClose(t, DocType[d])) /\ DocClose(t, DocType[d]) \in SUBSET Messages
    BY <1>1, CloseType DEF OpenForm
  <2>2. PICK messages \in SUBSET Messages :
          DocClose(t, DocType[d]) \subseteq messages /\ Emit(t, messages)
    BY <2>1, RefreshEmits
  <2>3. ghosts' = Left(t, DocType[d]) /\ \A u \in Tabs \ {t} : screen'[u] = screen[u]
    BY <1>1 DEF OpenForm, TypeOK
  <2>4. QED
    BY <2>2, <2>3, LeavingCloses
<1>2. ASSUME NEW t \in Tabs, LeaveForm(t) PROVE GhostsAreKnown'
  <2>1. DocClose(t, None) \in SUBSET Messages
    BY CloseType
  <2>2. ghosts' = Left(t, None) /\ \A u \in Tabs \ {t} : screen'[u] = screen[u]
    BY <1>2 DEF LeaveForm, TypeOK
  <2>3. QED
    BY <1>2, <2>1, <2>2, LeavingCloses DEF LeaveForm
<1>3. ASSUME NEW t \in Tabs, RefreshForm(t) \/ Reconnect(t) PROVE GhostsAreKnown'
  <2>1. UNCHANGED <<screen, ghosts>>
    BY <1>3 DEF RefreshForm, Reconnect
  <2>2. \A u \in Tabs : view'[u] \subseteq view[u]
    BY <1>3, UserEmits, EmitEffect DEF User
  <2>3. QED
    BY <2>1, <2>2 DEF GhostsAreKnown
<1>4. ASSUME NEW t \in Tabs, NEW d \in Docs, ReloadForm(t, d) PROVE GhostsAreKnown'
  <2>1. DocClose(t, DocType[d]) \in SUBSET Messages /\ Emit(t, DocClose(t, DocType[d]))
    BY <1>4, CloseType DEF ReloadForm
  <2>2. \A u \in Tabs : screen'[u] = IF u = t THEN d ELSE screen[u]
    BY <1>4 DEF ReloadForm, TypeOK
  <2>3. CASE screen[t] = d
    <3>1. ghosts' = ghosts /\ \A u \in Tabs : screen'[u] = screen[u]
      BY <1>4, <2>2, <2>3 DEF ReloadForm
    <3>2. \A u \in Tabs : view'[u] \subseteq view[u]
      BY <2>1, EmitEffect
    <3>3. QED
      BY <3>1, <3>2 DEF GhostsAreKnown
  <2>4. CASE screen[t] # d
    <3>1. ghosts' = Left(t, DocType[d])
      BY <1>4, <2>4 DEF ReloadForm
    <3>2. QED
      BY <2>1, <2>2, <3>1, LeavingCloses
  <2>5. QED
    BY <2>3, <2>4
<1>5. ASSUME NEW t \in Tabs, Connect(t) PROVE GhostsAreKnown'
  <2>1. Serve(t, up[t]) /\ up[t] \in SUBSET Messages /\ UNCHANGED <<screen, ghosts>>
    BY <1>5 DEF Connect, TypeOK, client
  <2>2. \A u \in Tabs : view'[u] \subseteq view[u]
    BY <2>1, ServeEffect
  <2>3. QED
    BY <2>1, <2>2 DEF GhostsAreKnown
<1>6. ASSUME NEW c \in checks, Permit(c) PROVE GhostsAreKnown'
  <2>1. c.tab \in Tabs /\ c.doc \in Docs /\ UNCHANGED screen
    BY <1>6 DEF Permit, TypeOK, Checks, client
  <2>2. CASE c.kind = "doc_subscribe"
    BY <1>6, <2>1, <2>2 DEF Permit, GhostsAreKnown
  <2>3. CASE c.kind # "doc_subscribe"
    <3>1. /\ view' = IF c.live THEN [view EXCEPT ![c.tab] = @ \cup {c.doc}] ELSE view
          /\ ghosts' = IF c.live /\ screen[c.tab] # c.doc
                         THEN ghosts \cup {<<c.tab, c.doc>>} ELSE ghosts
      BY <1>6, <2>3 DEF Permit
    <3>2. QED
      BY <2>1, <3>1 DEF GhostsAreKnown, TypeOK
  <2>4. QED
    BY <2>2, <2>3
<1>7. ASSUME NEW lost \in SUBSET Tabs, Break(lost), UNCHANGED screen PROVE GhostsAreKnown'
  BY <1>7 DEF Break, GhostsAreKnown
<1>8. CASE UNCHANGED <<screen, view, ghosts>>
  BY <1>8 DEF GhostsAreKnown
<1>9. ASSUME Restart PROVE GhostsAreKnown'
  BY <1>7, <1>9 DEF Restart, client
<1>10. ASSUME NEW t \in Tabs, Disconnect(t) PROVE GhostsAreKnown'
  BY <1>7, <1>10 DEF Disconnect, client
<1>11. QED
  BY <1>1, <1>2, <1>3, <1>4, <1>5, <1>6, <1>8, <1>9, <1>10
     DEF Next, User, Page, TakeUpdate, ShowViewers, Refuse, Publish, Relay, vars, client,
         server, history

-----------------------------------------------------------------------------
LEMMA WatchedStep ==
    ASSUME TypeOK, Offline, FormsAreWatched, [Next]_vars
    PROVE  FormsAreWatched'
<1>1. ASSUME NEW t \in Tabs, NEW d \in Docs, NEW closing \in SUBSET Messages,
             Refresh(t, d, closing), UNCHANGED watch
      PROVE  FormsAreWatched'
  <2>1. PICK throttled \in Throttled(t) :
          /\ Emit(t, closing \cup DocSubscribe(t, d, throttled) \cup DocOpen(t, d))
          /\ deaf' = IF d \in opendocs[t] THEN deaf
                     ELSE IF throttled THEN deaf \cup {<<t, d>>} ELSE deaf \ {<<t, d>>}
    BY <1>1 DEF Refresh
  <2>2. closing \cup DocSubscribe(t, d, throttled) \cup DocOpen(t, d) \in SUBSET Messages
    BY MessageTypes
  <2>3. opendocs' = [opendocs EXCEPT ![t] = @ \cup {d}]
    BY <1>1 DEF Refresh
  <2>4. /\ checks \subseteq checks' /\ \A u \in Tabs : up[u] \subseteq up'[u]
        /\ \A e \in Docs : Msg("doc_subscribe", e) \in DocSubscribe(t, d, throttled)
                             => Joining(t, e)'
    BY <2>1, <2>2, EmitEffect
  <2>5. ASSUME NEW u \in Tabs, NEW e \in opendocs[u]
        PROVE  e \in watch'[u] \/ Joining(u, e)' \/ <<u, e>> \in deaf'
    <3>1. e \in Docs
      BY DEF TypeOK
    <3>2. e \in watch[u] \/ Joining(u, e) \/ <<u, e>> \in deaf
      BY DEF FormsAreWatched
    <3>3. <<u, e>> \in deaf => <<u, e>> \in deaf'
      BY <2>1
    <3>4. QED
      BY <1>1, <2>4, <3>1, <3>2, <3>3, JoiningStays
  <2>6. d \notin opendocs[t] => Joining(t, d)' \/ <<t, d>> \in deaf'
    <3>1. CASE throttled /\ d \notin opendocs[t]
      BY <2>1, <3>1
    <3>2. CASE ~throttled /\ d \notin opendocs[t]
      <4>1. Msg("doc_subscribe", d) \in DocSubscribe(t, d, throttled)
        BY <3>2 DEF DocSubscribe
      <4>2. QED
        BY <2>4, <4>1
    <3>3. QED
      BY <3>1, <3>2
  <2>7. \A u \in Tabs : opendocs'[u] = IF u = t THEN opendocs[u] \cup {d} ELSE opendocs[u]
    BY <2>3 DEF TypeOK
  <2>8. QED
    BY <2>5, <2>6, <2>7 DEF FormsAreWatched
<1>2. ASSUME UNCHANGED <<watch, deaf>>, checks \subseteq checks',
             \A u \in Tabs : up[u] \subseteq up'[u] /\ opendocs'[u] \subseteq opendocs[u]
      PROVE  FormsAreWatched'
  <2>1. \A u \in Tabs : \A d \in opendocs[u] : d \in Docs
    BY DEF TypeOK
  <2>2. QED
    BY <1>2, <2>1, JoiningStays DEF FormsAreWatched
<1>3. ASSUME NEW t \in Tabs, User(t) \/ Reconnect(t) PROVE FormsAreWatched'
  <2>1. ASSUME NEW d \in Docs, OpenForm(t, d) PROVE FormsAreWatched'
    BY <1>1, <2>1, CloseType DEF OpenForm
  <2>2. ASSUME RefreshForm(t) PROVE FormsAreWatched'
    <3>1. screen[t] \in Docs /\ Refresh(t, screen[t], {}) /\ {} \in SUBSET Messages
      BY <2>2 DEF RefreshForm, TypeOK
    <3>2. QED
      BY <1>1, <2>2, <3>1 DEF RefreshForm
  <2>3. checks \subseteq checks' /\ \A u \in Tabs : up[u] \subseteq up'[u]
    <3>1. CASE UNCHANGED <<up, checks, view, lists, silent, viewers>>
      BY <3>1
    <3>2. ASSUME NEW messages \in SUBSET Messages, Emit(t, messages)
          PROVE  checks \subseteq checks' /\ \A u \in Tabs : up[u] \subseteq up'[u]
      BY <3>2, EmitEffect
    <3>3. QED
      BY <1>3, <3>1, <3>2, UserEmits
  <2>4. ASSUME NEW d \in Docs, ReloadForm(t, d) PROVE FormsAreWatched'
    <3>1. UNCHANGED <<watch, deaf>> /\ \A u \in Tabs : opendocs'[u] \subseteq opendocs[u]
      BY <2>4 DEF ReloadForm, TypeOK
    <3>2. QED
      BY <1>2, <2>3, <3>1
  <2>5. ASSUME LeaveForm(t) \/ Reconnect(t) PROVE FormsAreWatched'
    <3>1. UNCHANGED <<opendocs, watch, deaf>>
      BY <2>5 DEF LeaveForm, Reconnect
    <3>2. QED
      BY <1>2, <2>3, <3>1
  <2>6. QED
    BY <1>3, <2>1, <2>2, <2>4, <2>5 DEF User
<1>4. ASSUME NEW t \in Tabs, Connect(t) PROVE FormsAreWatched'
  <2>1. /\ Serve(t, up[t]) /\ up[t] \in SUBSET Messages
        /\ up' = [up EXCEPT ![t] = {}] /\ UNCHANGED <<opendocs, watch, deaf>>
    BY <1>4 DEF Connect, TypeOK, client
  <2>2. /\ checks \subseteq checks'
        /\ \A d \in Docs : Msg("doc_subscribe", d) \in up[t] => Subscription(t, d) \in checks'
    BY <2>1, ServeEffect
  <2>3. ASSUME NEW u \in Tabs, NEW d \in opendocs[u], Joining(u, d) PROVE Joining(u, d)'
    <3>1. d \in Docs
      BY DEF TypeOK
    <3>2. CASE u = t
      BY <2>2, <2>3, <3>1, <3>2 DEF Joining, Subscription
    <3>3. CASE u # t
      <4>1. up'[u] = up[u]
        BY <2>1, <3>3 DEF TypeOK
      <4>2. QED
        BY <2>2, <2>3, <4>1 DEF Joining
    <3>4. QED
      BY <3>2, <3>3
  <2>4. QED
    BY <2>1, <2>3 DEF FormsAreWatched
<1>5. ASSUME NEW c \in checks, Permit(c) PROVE FormsAreWatched'
  <2>1. c \in Checks /\ c.tab \in Tabs /\ c.doc \in Docs
    BY DEF TypeOK, Checks
  <2>2. UNCHANGED <<opendocs, up, deaf>> /\ checks' = checks \ {c}
    BY <1>5 DEF Permit, client
  <2>3. \A u \in Tabs : watch[u] \subseteq watch'[u]
    <3>1. CASE watch' = watch
      BY <3>1
    <3>2. CASE watch' = [watch EXCEPT ![c.tab] = @ \cup {c.doc}]
      BY <2>1, <3>2 DEF TypeOK
    <3>3. QED
      BY <1>5, <3>1, <3>2 DEF Permit
  <2>4. ASSUME NEW u \in Tabs, NEW d \in opendocs[u], Joining(u, d)
        PROVE  Joining(u, d)' \/ d \in watch'[u]
    <3>1. CASE c = [tab |-> u, kind |-> "doc_subscribe", doc |-> d, live |-> TRUE]
      <4>1. watch' = [watch EXCEPT ![u] = @ \cup {d}]
        BY <1>5, <3>1 DEF Permit
      <4>2. QED
        BY <4>1 DEF TypeOK
    <3>2. CASE c # [tab |-> u, kind |-> "doc_subscribe", doc |-> d, live |-> TRUE]
      BY <2>2, <2>4, <3>2 DEF Joining
    <3>3. QED
      BY <3>1, <3>2
  <2>5. QED
    BY <2>2, <2>3, <2>4 DEF FormsAreWatched
<1>6. ASSUME NEW c \in checks, Refuse(c) PROVE FormsAreWatched'
  <2>1. UNCHANGED <<opendocs, up, watch>> /\ checks' = checks \ {c}
        /\ deaf' = IF c.kind = "doc_subscribe" THEN deaf \cup {<<c.tab, c.doc>>} ELSE deaf
    BY <1>6 DEF Refuse, client
  <2>2. ASSUME NEW u \in Tabs, NEW d \in opendocs[u], Joining(u, d)
        PROVE  Joining(u, d)' \/ <<u, d>> \in deaf'
    <3>1. CASE c = [tab |-> u, kind |-> "doc_subscribe", doc |-> d, live |-> TRUE]
      BY <2>1, <3>1
    <3>2. CASE c # [tab |-> u, kind |-> "doc_subscribe", doc |-> d, live |-> TRUE]
      BY <2>1, <2>2, <3>2 DEF Joining
    <3>3. QED
      BY <3>1, <3>2
  <2>3. QED
    BY <2>1, <2>2 DEF FormsAreWatched
<1>7. ASSUME NEW t \in Tabs, Disconnect(t) PROVE FormsAreWatched'
  <2>1. /\ UNCHANGED <<opendocs, up>>
        /\ checks' = {[c EXCEPT !.live = c.live /\ c.tab # t] : c \in checks}
        /\ \A u \in Tabs \ {t} : watch'[u] = watch[u]
        /\ deaf' = deaf \cup {x \in {t} \X Docs : x[2] \in opendocs[x[1]]}
    BY <1>7 DEF Disconnect, Break, client
  <2>2. ASSUME NEW u \in Tabs \ {t}, NEW d \in opendocs[u], Joining(u, d)
        PROVE  Joining(u, d)'
    <3> DEFINE c == [tab |-> u, kind |-> "doc_subscribe", doc |-> d, live |-> TRUE]
    <3>1. CASE c \in checks
      <4>1. [c EXCEPT !.live = c.live /\ c.tab # t] = c
        OBVIOUS
      <4>2. c \in checks'
        BY <2>1, <3>1, <4>1
      <4>3. QED
        BY <4>2 DEF Joining
    <3>2. CASE c \notin checks
      BY <2>1, <2>2, <3>2 DEF Joining
    <3>3. QED
      BY <3>1, <3>2
  <2>3. \A d \in opendocs[t] : <<t, d>> \in deaf'
    BY <2>1 DEF TypeOK
  <2>4. QED
    BY <2>1, <2>2, <2>3 DEF FormsAreWatched
<1>8. ASSUME Restart PROVE FormsAreWatched'
  <2>1. /\ UNCHANGED <<opendocs, up>>
        /\ \A u \in Tabs : ~online[u] => watch'[u] = watch[u]
        /\ deaf' = deaf \cup {x \in {t \in Tabs : online[t]} \X Docs : x[2] \in opendocs[x[1]]}
    BY <1>8 DEF Restart, Break, client
  <2>2. ASSUME NEW u \in Tabs, NEW d \in opendocs[u], ~online[u], Joining(u, d)
        PROVE  Joining(u, d)'
    <3>1. [tab |-> u, kind |-> "doc_subscribe", doc |-> d, live |-> TRUE] \notin checks
      BY <2>2 DEF Offline
    <3>2. QED
      BY <2>1, <2>2, <3>1 DEF Joining
  <2>3. \A u \in Tabs : online[u] => \A d \in opendocs[u] : <<u, d>> \in deaf'
    BY <2>1 DEF TypeOK
  <2>4. QED
    BY <2>1, <2>2, <2>3 DEF FormsAreWatched
<1>9. CASE UNCHANGED <<client, up, watch, checks, deaf>>
  BY <1>2, <1>9 DEF client
<1>10. ASSUME NEW t \in Tabs, TakeUpdate(t) PROVE FormsAreWatched'
  <2>1. UNCHANGED <<up, watch, checks, deaf>>
    BY <1>10 DEF TakeUpdate, server, history
  <2>2. \A u \in Tabs : opendocs'[u] \subseteq opendocs[u]
    BY <1>10 DEF TakeUpdate, TypeOK
  <2>3. QED
    BY <1>2, <2>1, <2>2
<1>11. QED
  BY <1>3, <1>4, <1>5, <1>6, <1>7, <1>8, <1>9, <1>10
     DEF Next, Page, ShowViewers, Publish, Relay, vars, server, history

-----------------------------------------------------------------------------
LEMMA LatestStep ==
    ASSUME TypeOK, Offline, LatestIsCurrent, [Next]_vars
    PROVE  LatestIsCurrent'
<1>1. ASSUME NEW t \in Tabs, User(t) \/ Reconnect(t) PROVE LatestIsCurrent'
  <2>1. \A u \in Tabs, e \in Docs : viewers'[u][e] \in {viewers[u][e], None}
    BY <1>1, UserEmits
  <2>2. CASE UNCHANGED <<up, checks, view, lists, silent, viewers>>
    BY <2>2 DEF LatestIsCurrent, Viewing
  <2>3. ASSUME NEW messages \in SUBSET Messages, Emit(t, messages) PROVE LatestIsCurrent'
    BY <2>1, <2>3, EmitLists
  <2>4. QED
    BY <1>1, <2>2, <2>3, UserEmits
<1>2. ASSUME NEW t \in Tabs, Connect(t) PROVE LatestIsCurrent'
  <2>1. Serve(t, up[t]) /\ up[t] \in SUBSET Messages /\ UNCHANGED viewers
    BY <1>2 DEF Connect, TypeOK
  <2>2. QED
    BY <2>1, ServeLists
<1>3. ASSUME NEW t \in Tabs, NEW d \in Docs, ShowViewers(t, d) PROVE LatestIsCurrent'
  <2> SUFFICES ASSUME NEW u \in Tabs, NEW e \in Docs, e \in view[u], e \notin silent
               PROVE  IF lists'[u][e] = <<>> THEN viewers'[u][e] \in {None, Viewing(e)}
                      ELSE lists'[u][e][Len(lists'[u][e])] = Viewing(e)
    BY <1>3 DEF LatestIsCurrent, Viewing, ShowViewers, server, history
  <2>1. lists[t][d] \in Seq(SUBSET Tabs) /\ lists[t][d] # <<>>
        /\ lists' = [lists EXCEPT ![t][d] = Tail(@)]
        /\ viewers' = [viewers EXCEPT ![t][d] = Head(lists[t][d])]
    BY <1>3 DEF ShowViewers, TypeOK
  <2>2. CASE u = t /\ e = d
    <3>1. lists'[u][e] = Tail(lists[t][d]) /\ viewers'[u][e] = Head(lists[t][d])
      BY <2>1, <2>2 DEF TypeOK
    <3>2. lists[t][d][Len(lists[t][d])] = Viewing(d)
      BY <2>1, <2>2 DEF LatestIsCurrent
    <3>3. CASE Len(lists[t][d]) = 1
      BY <2>1, <2>2, <3>1, <3>2, <3>3, HeadTailProperties
    <3>4. CASE Len(lists[t][d]) # 1
      <4> DEFINE l == lists[t][d]
      <4>1. Len(l) \in Nat \ {0, 1}
        BY <2>1, <3>4, EmptySeq
      <4>2. Len(Tail(l)) = Len(l) - 1 /\ Tail(l) # <<>>
        <5>1. Tail(l) \in Seq(SUBSET Tabs) /\ Len(Tail(l)) = Len(l) - 1
          BY <2>1, HeadTailProperties
        <5>2. Len(Tail(l)) # 0
          BY <4>1, <5>1
        <5>3. QED
          BY <5>1, <5>2, EmptySeq
      <4>3. Tail(l)[Len(l) - 1] = l[Len(l)]
        BY <2>1, <4>1, <4>2, HeadTailProperties
      <4>4. QED
        BY <2>2, <3>1, <3>2, <4>2, <4>3
    <3>5. QED
      BY <3>3, <3>4
  <2>3. CASE ~(u = t /\ e = d)
    <3>1. lists'[u][e] = lists[u][e] /\ viewers'[u][e] = viewers[u][e]
      BY <2>1, <2>3 DEF TypeOK
    <3>2. QED
      BY <3>1 DEF LatestIsCurrent
  <2>4. QED
    BY <2>2, <2>3
<1>4. ASSUME NEW c \in checks, Permit(c) PROVE LatestIsCurrent'
  <2>1. c.tab \in Tabs /\ c.doc \in Docs /\ UNCHANGED viewers
    BY <1>4 DEF Permit, TypeOK, Checks
  <2>2. CASE c.kind = "doc_subscribe"
    BY <1>4, <2>1, <2>2 DEF Permit, LatestIsCurrent, Viewing
  <2>3. CASE c.kind # "doc_subscribe"
    <3>1. /\ lists' = SendViewers({c.doc}, view') /\ silent' = silent \ {c.doc}
          /\ view' = IF c.live THEN [view EXCEPT ![c.tab] = @ \cup {c.doc}] ELSE view
      BY <1>4, <2>3 DEF Permit
    <3> SUFFICES ASSUME NEW u \in Tabs, NEW e \in Docs, e \in view'[u], e \notin silent'
                 PROVE  IF lists'[u][e] = <<>> THEN viewers[u][e] \in {None, Viewing(e)'}
                        ELSE lists'[u][e][Len(lists'[u][e])] = Viewing(e)'
      BY <2>1 DEF LatestIsCurrent
    <3>2. Viewing(e)' = {v \in Tabs : e \in view'[v]} /\ Viewing(e)' \in SUBSET Tabs
      BY DEF Viewing
    <3>3. lists'[u][e] = IF e = c.doc THEN Append(lists[u][e], Viewing(e)') ELSE lists[u][e]
      BY <3>1, <3>2 DEF SendViewers
    <3>4. CASE e = c.doc
      <4>1. lists[u][e] \in Seq(SUBSET Tabs)
        BY DEF TypeOK
      <4>2. QED
        BY <3>2, <3>3, <3>4, <4>1, AppendProperties
    <3>5. CASE e # c.doc
      <4>1. \A v \in Tabs : e \in view'[v] <=> e \in view[v]
        BY <2>1, <3>1, <3>5 DEF TypeOK
      <4>2. Viewing(e)' = Viewing(e) /\ e \in view[u] /\ e \notin silent
        BY <3>1, <3>2, <3>5, <4>1 DEF Viewing
      <4>3. QED
        BY <3>3, <3>5, <4>2 DEF LatestIsCurrent
    <3>6. QED
      BY <3>4, <3>5
  <2>4. QED
    BY <2>2, <2>3
<1>5. ASSUME NEW lost \in SUBSET Tabs, Break(lost), UNCHANGED viewers PROVE LatestIsCurrent'
  <2> SUFFICES ASSUME NEW u \in Tabs, NEW e \in Docs, e \in view'[u], e \notin silent'
               PROVE  IF lists'[u][e] = <<>> THEN viewers[u][e] \in {None, Viewing(e)'}
                      ELSE lists'[u][e][Len(lists'[u][e])] = Viewing(e)'
    BY <1>5 DEF LatestIsCurrent
  <2>1. \A v \in Tabs : view'[v] = IF v \in lost THEN {} ELSE view[v]
    BY <1>5 DEF Break
  <2>2. e \notin silent /\ \A v \in lost : e \notin view[v]
    BY <1>5 DEF Break
  <2>3. Viewing(e)' = Viewing(e) /\ e \in view[u] /\ u \notin lost
    BY <2>1, <2>2 DEF Viewing
  <2>4. lists'[u][e] = lists[u][e]
    BY <1>5, <2>3 DEF Break
  <2>5. QED
    BY <2>2, <2>3, <2>4 DEF LatestIsCurrent
<1>6. ASSUME NEW t \in Tabs, Disconnect(t) PROVE LatestIsCurrent'
  BY <1>5, <1>6 DEF Disconnect
<1>7. ASSUME Restart PROVE LatestIsCurrent'
  BY <1>5, <1>7 DEF Restart
<1>8. CASE UNCHANGED <<viewers, lists, view, silent>>
  BY <1>8 DEF LatestIsCurrent, Viewing
<1>9. QED
  BY <1>1, <1>2, <1>3, <1>4, <1>6, <1>7, <1>8
     DEF Next, User, Page, TakeUpdate, Refuse, Publish, Relay, vars, server, history

-----------------------------------------------------------------------------
(***************************************************************************)
(* The feed.                                                               *)
(***************************************************************************)
LEMMA NumbersAfterRelay ==
    ASSUME TypeOK, ChannelIsNumbered, channel # <<>>
    PROVE  /\ Head(channel) = [doc |-> Head(channel).doc,
                               number |-> counts.events - Len(channel) + 1]
           /\ Head(channel).doc \in Docs
           /\ Len(Tail(channel)) = Len(channel) - 1 /\ Len(channel) \in 1..counts.events
           /\ \A i \in 1..Len(Tail(channel)) :
                Tail(channel)[i].number = counts.events - Len(Tail(channel)) + i
<1>1. channel \in Seq(Events) /\ counts.events \in Nat
  BY DEF TypeOK
<1>2. /\ Head(channel) \in Events /\ Head(channel) = channel[1]
      /\ Len(channel) \in Nat \ {0}
      /\ Len(Tail(channel)) = Len(channel) - 1
      /\ \A i \in 1..Len(Tail(channel)) : Tail(channel)[i] = channel[i + 1]
  BY <1>1, HeadTailProperties, EmptySeq
<1>3. Head(channel).number = counts.events - Len(channel) + 1
  BY <1>2 DEF ChannelIsNumbered
<1>4. ASSUME NEW i \in 1..Len(Tail(channel))
      PROVE  Tail(channel)[i].number = counts.events - Len(Tail(channel)) + i
  <2>1. i + 1 \in 1..Len(channel)
    BY <1>2
  <2>2. channel[i + 1].number = counts.events - Len(channel) + (i + 1)
    BY <2>1 DEF ChannelIsNumbered
  <2>3. QED
    BY <1>1, <1>2, <2>2
<1>5. QED
  BY <1>1, <1>2, <1>3, <1>4 DEF ChannelIsNumbered, Events

LEMMA ChannelStep ==
    ASSUME TypeOK, ChannelIsNumbered, [Next]_vars
    PROVE  ChannelIsNumbered'
<1>1. ASSUME NEW d \in Docs, Publish(d) PROVE ChannelIsNumbered'
  <2>1. /\ channel \in Seq(Events) /\ counts.events \in Nat
        /\ channel' = Append(channel, [doc |-> d, number |-> counts.events + 1])
        /\ counts'.events = counts.events + 1
        /\ [doc |-> d, number |-> counts.events + 1] \in Events
    BY <1>1 DEF Publish, Count, TypeOK, Events
  <2>2. /\ Len(channel) \in Nat /\ Len(channel') = Len(channel) + 1
        /\ \A i \in 1..Len(channel) : channel'[i] = channel[i]
        /\ channel'[Len(channel) + 1] = [doc |-> d, number |-> counts.events + 1]
    BY <2>1, AppendProperties, LenProperties
  <2>3. ASSUME NEW i \in 1..Len(channel')
        PROVE  channel'[i].number = counts'.events - Len(channel') + i
    <3>1. CASE i \in 1..Len(channel)
      BY <2>1, <2>2, <3>1 DEF ChannelIsNumbered
    <3>2. CASE i = Len(channel) + 1
      BY <2>1, <2>2, <3>2
    <3>3. QED
      BY <2>2, <3>1, <3>2
  <2>4. QED
    BY <2>1, <2>2, <2>3 DEF ChannelIsNumbered
<1>2. ASSUME Relay PROVE ChannelIsNumbered'
  BY <1>2, NumbersAfterRelay DEF Relay, ChannelIsNumbered, TypeOK
<1>3. ASSUME Restart PROVE ChannelIsNumbered'
  BY <1>3, EmptySeq DEF Restart, ChannelIsNumbered, TypeOK
<1>4. ASSUME UNCHANGED channel, counts'.events = counts.events PROVE ChannelIsNumbered'
  BY <1>4 DEF ChannelIsNumbered
<1>5. ASSUME NEW t \in Tabs, User(t) \/ Page(t) PROVE ChannelIsNumbered'
  <2>1. CASE User(t) \/ Reconnect(t)
    BY <1>4, <2>1, UserEmits
  <2>2. CASE Connect(t)
    BY <1>4, <2>2 DEF Connect, Count, TypeOK
  <2>3. QED
    BY <1>4, <1>5, <2>1, <2>2 DEF Page, TakeUpdate, ShowViewers
<1>6. QED
  BY <1>1, <1>2, <1>3, <1>4, <1>5
     DEF Next, Disconnect, Permit, Refuse, vars

\* Each step is one of the feed, or nothing that a tab could tell from it.
LEMMA StepsFeed ==
    ASSUME TypeOK, ChannelIsNumbered, ChannelIsNumbered', [Next]_vars
    PROVE  [Feed!Next]_(Feed!vars)
<1> DEFINE last == counts.events - Len(channel)
<1>1. ASSUME UNCHANGED <<watch, updates, channel>>, counts'.events = counts.events
      PROVE  UNCHANGED Feed!vars
  BY <1>1 DEF Feed!vars
<1>2. ASSUME NEW t \in Tabs, User(t) \/ Page(t) PROVE [Feed!Next]_(Feed!vars)
  <2>1. CASE User(t) \/ Reconnect(t)
    BY <1>1, <2>1, UserEmits
  <2>2. CASE Connect(t)
    BY <1>1, <2>2 DEF Connect, Count, TypeOK
  <2>3. CASE TakeUpdate(t)
    BY <2>3 DEF TakeUpdate, server, Feed!Next, Feed!Take
  <2>4. CASE \E d \in Docs : ShowViewers(t, d)
    BY <1>1, <2>4 DEF ShowViewers, server
  <2>5. QED
    BY <1>2, <2>1, <2>2, <2>3, <2>4 DEF Page
<1>3. ASSUME NEW lost \in SUBSET Tabs, Break(lost), last' >= last
      PROVE  Feed!Next
  BY <1>3 DEF Break, Feed!Next, Feed!Lose
<1>4. ASSUME NEW t \in Tabs, Disconnect(t) PROVE Feed!Next
  <2>1. last' >= last
    <3>1. Len(channel) \in Nat
      BY LenProperties DEF TypeOK
    <3>2. QED
      BY <1>4, <3>1 DEF Disconnect, TypeOK
  <2>2. QED
    BY <1>3, <1>4, <2>1 DEF Disconnect
<1>5. ASSUME Restart PROVE Feed!Next
  <2>1. last' >= last
    <3>1. Len(channel) \in Nat
      BY LenProperties DEF TypeOK
    <3>2. channel' = <<>> /\ counts' = counts /\ counts.events \in Nat
      BY <1>5 DEF Restart, TypeOK
    <3>3. last' = counts.events
      BY <3>2, EmptySeq
    <3>4. QED
      BY <3>1, <3>2, <3>3
  <2>2. QED
    BY <1>3, <1>5, <2>1 DEF Restart
<1>6. ASSUME NEW c \in checks, Permit(c) PROVE [Feed!Next]_(Feed!vars)
  <2>1. c.tab \in Tabs /\ c.doc \in Docs
    BY DEF TypeOK, Checks
  <2>2. UNCHANGED <<updates, channel, counts>>
    BY <1>6 DEF Permit
  <2>3. CASE watch' = watch
    BY <1>1, <2>2, <2>3
  <2>4. CASE watch' = [watch EXCEPT ![c.tab] = @ \cup {c.doc}]
    <3>1. Feed!Join(c.tab, c.doc)
      BY <2>2, <2>4 DEF Feed!Join
    <3>2. QED
      BY <2>1, <3>1 DEF Feed!Next
  <2>5. QED
    BY <1>6, <2>3, <2>4 DEF Permit
<1>7. ASSUME NEW c \in checks, Refuse(c) PROVE UNCHANGED Feed!vars
  BY <1>1, <1>7 DEF Refuse
<1>8. ASSUME NEW d \in Docs, Publish(d) PROVE UNCHANGED Feed!vars
  <2>1. /\ channel \in Seq(Events)
        /\ channel' = Append(channel, [doc |-> d, number |-> counts.events + 1])
        /\ counts'.events = counts.events + 1 /\ counts.events \in Nat
        /\ [doc |-> d, number |-> counts.events + 1] \in Events
        /\ UNCHANGED <<watch, updates>>
    BY <1>8 DEF Publish, Count, TypeOK, Events, server
  <2>2. Len(channel') = Len(channel) + 1 /\ Len(channel) \in Nat
    BY <2>1, AppendProperties, LenProperties
  <2>3. last' = last
    BY <2>1, <2>2
  <2>4. QED
    BY <2>1, <2>3 DEF Feed!vars
<1>9. ASSUME Relay PROVE Feed!Next
  <2> DEFINE d == Head(channel).doc
  <2>1. /\ Head(channel) = [doc |-> d, number |-> last + 1] /\ d \in Docs
        /\ Len(Tail(channel)) = Len(channel) - 1 /\ Len(channel) \in 1..counts.events
    BY <1>9, NumbersAfterRelay DEF Relay
  <2>2. channel' = Tail(channel) /\ counts' = counts /\ counts.events \in Nat
    BY <1>9 DEF Relay, TypeOK
  <2>3. last' = last + 1 /\ last' > last
    BY <2>1, <2>2
  <2>4. UNCHANGED watch
    BY <1>9 DEF Relay, server
  <2>5. updates' = [t \in Tabs |-> IF d \in watch[t]
                      THEN Append(updates[t], [doc |-> d, number |-> last']) ELSE updates[t]]
    BY <1>9, <2>1, <2>3 DEF Relay
  <2>6. Feed!Publish(d)
    BY <2>3, <2>4, <2>5 DEF Feed!Publish
  <2>7. QED
    BY <2>1, <2>6 DEF Feed!Next
<1>10. CASE UNCHANGED vars
  BY <1>1, <1>10 DEF vars, server
<1>11. QED
  BY <1>2, <1>4, <1>5, <1>6, <1>7, <1>8, <1>9, <1>10 DEF Next

-----------------------------------------------------------------------------
(***************************************************************************)
(* The theorems.                                                           *)
(***************************************************************************)
LEMMA RInit == Init => RInv
<1> SUFFICES ASSUME Init PROVE RInv
  OBVIOUS
<1>1. TypeOK
  BY TypeInit
<1>2. /\ \A t \in Tabs : opendocs[t] = {} /\ view[t] = {}
      /\ checks = {} /\ channel = <<>> /\ counts.events = 0
  BY DEF Init
<1>3. Offline /\ GhostsAreKnown /\ FormsAreWatched /\ LatestIsCurrent
  BY <1>2 DEF Offline, GhostsAreKnown, FormsAreWatched, LatestIsCurrent
<1>4. ChannelIsNumbered
  BY <1>2, EmptySeq DEF ChannelIsNumbered
<1>5. QED
  BY <1>1, <1>3, <1>4 DEF RInv

LEMMA RStep == RInv /\ [Next]_vars => RInv'
  BY TypeStep, OfflineStep, GhostsStep, WatchedStep, LatestStep, ChannelStep DEF RInv

\* Nobody is kept as a viewer of a document but in the ways the history names.
THEOREM NoOtherGhosts == Spec => []GhostsAreKnown
<1>1. RInv => GhostsAreKnown
  BY DEF RInv
<1>2. QED
  BY RInit, RStep, <1>1, PTL DEF Spec

\* A tab with a loaded copy of a document is in the document's room, on the way to
\* it, or outside in one of the ways the history names, whatever copies are
\* dropped and loaded again.
THEOREM NoOtherDeafForms == Spec => []FormsAreWatched
<1>1. RInv => FormsAreWatched
  BY DEF RInv
<1>2. QED
  BY RInit, RStep, <1>1, PTL DEF Spec

\* Whatever the order in which tabs join and leave, the last list of viewers a
\* tab is sent is right, if no connection was lost.
THEOREM ViewersAgree == Spec => []ViewersAreCurrent
<1>1. RInv => ViewersAreCurrent
  BY DEF RInv, LatestIsCurrent, ViewersAreCurrent
<1>2. QED
  BY RInit, RStep, <1>1, PTL DEF Spec

\* Realtime implements DocFeed.
THEOREM Implementation == Spec => ImplementsFeed
<1>1. Init => Feed!Init
  BY EmptySeq DEF Init, Feed!Init
<1>2. RInv /\ RInv' /\ [Next]_vars => [Feed!Next]_(Feed!vars)
  BY StepsFeed DEF RInv
<1>3. QED
  BY RInit, RStep, <1>1, <1>2, PTL DEF Spec, ImplementsFeed, Feed!Spec

=============================================================================
