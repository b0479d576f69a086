------------------------------ MODULE Realtime ------------------------------
(***************************************************************************)
(* The rooms of the realtime service: the forms that tabs of the Desk open *)
(* and close (socketio_client.js), the node server that keeps the tabs in  *)
(* rooms and relays what is published on Redis (socketio.js), and the list *)
(* of the people who view a document (form_viewers.js).                    *)
(*                                                                         *)
(* A tab is in the room of a document to get its events and in the "open   *)
(* doc" room to be listed as a viewer.  Joining waits for an HTTP request  *)
(* from node to the web server, can_subscribe_doc; leaving does not.       *)
(***************************************************************************)
EXTENDS Naturals, Sequences

CONSTANTS
    Tabs,         \* tabs of browsers, each of a user of its own
    Docs,         \* documents
    DocType,      \* the DocType of each
    MaxMoves,     \* bound: forms opened, refreshed and closed by users
    MaxConnects,  \* bound: connections made again
    Unanswered,   \* bound: the documents whose permission requests may fail
    MaxEvents,    \* bound: events published
    None          \* no document, no DocType, no list of viewers

ASSUME RealtimeAssumption ==
    /\ DocType \in [Docs -> {DocType[d] : d \in Docs}]
    /\ None \notin Docs \cup {DocType[d] : d \in Docs}
    /\ Unanswered \subseteq Docs
    /\ {MaxMoves, MaxConnects, MaxEvents} \subseteq Nat

VARIABLES
    screen,     \* the document whose form a tab shows
    cur_frm,    \* the document of the form that was refreshed last
    opendocs,   \* frm.opendocs: the documents of which the tab has a loaded copy
    open_docs,  \* frappe.socketio.open_docs
    last_doc,   \* the DocType in frappe.socketio.last_doc
    viewers,    \* docinfo.viewers.current
    timer,      \* the 5 seconds after a connect are running
    online,     \* the socket is connected
    up,         \* what the tab has buffered while it is not connected
    lists,      \* the lists of viewers on their way to the tab
    updates,    \* the events of documents on their way to it
    watch,      \* server: the documents whose room the socket is in
    view,       \* server: those whose "open doc" room it is in
    checks,     \* server: the permission requests that are not answered
    channel,    \* the events in the Redis channel
    counts,     \* bounded counters
    silent,     \* history: documents whose room was left without a word
    ghosts,     \* history: tabs that are kept as viewers in a known way
    deaf        \* history: tabs not in the room of a document in a known way

client == <<screen, cur_frm, opendocs, open_docs, last_doc>>
server == <<watch, view, checks>>
history == <<silent, ghosts, deaf>>
vars == <<client, viewers, timer, online, up, lists, updates, server, channel, counts, history>>

Msg(kind, d) == [kind |-> kind, doc |-> d]

\* The Desk is loaded and connected, and no form has been opened.
Init ==
    /\ screen = [t \in Tabs |-> None] /\ cur_frm = screen /\ last_doc = screen
    /\ opendocs = [t \in Tabs |-> {}] /\ open_docs = opendocs
    /\ viewers = [t \in Tabs |-> [d \in Docs |-> None]]
    /\ timer = [t \in Tabs |-> FALSE] /\ online = [t \in Tabs |-> TRUE]
    /\ lists = [t \in Tabs |-> [d \in Docs |-> <<>>]] /\ updates = [t \in Tabs |-> <<>>]
    /\ up = opendocs /\ watch = opendocs /\ view = opendocs
    /\ checks = {}
    /\ channel = <<>>
    /\ counts = [moves |-> 0, connects |-> 0, events |-> 0]
    /\ silent = {} /\ ghosts = {} /\ deaf = {}

Below(counter, max) == counts[counter] < max

Count(counter) == counts' = [counts EXCEPT ![counter] = @ + 1]

-----------------------------------------------------------------------------
(***************************************************************************)
(* The handlers of the server, for the messages of a tab.  What they do    *)
(* does not depend on the order of the messages of one step.               *)
(***************************************************************************)

\* send_viewers() of the documents ds, to those who view them by now.
SendViewers(ds, viewing) ==
    [t \in Tabs |-> [d \in Docs |->
        IF d \in ds /\ d \in viewing[t]
          THEN Append(lists[t][d], {u \in Tabs : d \in viewing[u]}) ELSE lists[t][d]]]

\* can_subscribe_doc() asks the web server for doc_subscribe and doc_open.
Ask(t, messages) ==
    checks \cup {[tab |-> t, kind |-> m.kind, doc |-> m.doc, live |-> TRUE] :
                    m \in {m \in messages : m.kind # "doc_close"}}

\* Mutated: those who stay are not told.
ServeSilently(t, messages) ==
    LET closed == {d \in Docs : Msg("doc_close", d) \in messages} IN
    /\ checks' = Ask(t, messages)
    /\ view' = [view EXCEPT ![t] = @ \ closed]
    /\ UNCHANGED <<lists, silent>>

\* doc_close leaves the room at once.
Serve(t, messages) ==
    LET closed == {d \in Docs : Msg("doc_close", d) \in messages} IN
    /\ checks' = Ask(t, messages)
    /\ view' = [view EXCEPT ![t] = @ \ closed]
    /\ lists' = SendViewers(closed, view')
    /\ silent' = silent \ closed

\* emit(): socket.io keeps the messages until there is a connection.
Emit(t, messages) ==
    IF online[t] THEN Serve(t, messages) /\ UNCHANGED up
    ELSE /\ up' = [up EXCEPT ![t] = @ \cup messages]
         /\ UNCHANGED <<checks, view, lists, silent>>

-----------------------------------------------------------------------------
(***************************************************************************)
(* The tab.                                                                *)
(***************************************************************************)

\* doc_open(): the tab tells of a form unless the last one was of the same
\* DocType.
DocOpen(t, d) == IF last_doc[t] # DocType[d] THEN {Msg("doc_open", d)} ELSE {}

\* Mutated: the name in place of the DocType.
RememberName(t, d) == last_doc' = [last_doc EXCEPT ![t] = d]

Remember(t, d) == last_doc' = [last_doc EXCEPT ![t] = DocType[d]]

\* frappe.flags.doc_subscribe: less than a second has passed since the last one.
Throttled(t) == IF open_docs[t] = {} THEN {FALSE} ELSE BOOLEAN

\* Mutated: it takes any open document for this one.
DocSubscribeOnce(t, d, throttled) ==
    IF d \notin opendocs[t] /\ open_docs[t] = {} /\ ~throttled
      THEN {Msg("doc_subscribe", d)} ELSE {}

\* form-load, when there is no loaded copy: doc_subscribe().  The search for the
\* document among open_docs finds nothing: it asks their entries, which have a
\* docname, for their name.
DocSubscribe(t, d, throttled) ==
    IF d \notin opendocs[t] /\ ~throttled THEN {Msg("doc_subscribe", d)} ELSE {}

\* Mutated: the page that is left does not tell.
StayOpen(t, page) == {}

\* form-unload, when the page of the form is hidden: doc_close().  The forms of
\* a DocType share a page.
DocClose(t, page) ==
    IF screen[t] # None /\ page # DocType[screen[t]]
      THEN {Msg("doc_close", screen[t])} ELSE {}

\* The tab leaves the form it shows with or without a doc_close.
Left(t, page) ==
    IF screen[t] = None THEN ghosts
    ELSE IF page = DocType[screen[t]] THEN ghosts \cup {<<t, screen[t]>>}
    ELSE ghosts \ {<<t, screen[t]>>}

\* frm.refresh(): form-load, unless there is a loaded copy, and form-refresh.
Refresh(t, d, closing) ==
    /\ \E throttled \in Throttled(t) : LET subscribe == DocSubscribe(t, d, throttled) IN
        /\ Emit(t, closing \cup subscribe \cup DocOpen(t, d))
        /\ open_docs' = [open_docs EXCEPT ![t] = @ \cup {m.doc : m \in subscribe}]
        /\ deaf' = IF d \in opendocs[t] THEN deaf
                   ELSE IF throttled THEN deaf \cup {<<t, d>>} ELSE deaf \ {<<t, d>>}
    /\ opendocs' = [opendocs EXCEPT ![t] = @ \cup {d}]
    /\ Remember(t, d)

\* FormFactory.load() of another document, with docinfo if it had to be asked for.
OpenForm(t, d) ==
    /\ Below("moves", MaxMoves) /\ Count("moves")
    /\ screen[t] # d
    /\ screen' = [screen EXCEPT ![t] = d] /\ cur_frm' = [cur_frm EXCEPT ![t] = d]
    /\ Refresh(t, d, DocClose(t, DocType[d]))
    /\ viewers' = IF d \in opendocs[t] THEN viewers ELSE [viewers EXCEPT ![t][d] = None]
    /\ ghosts' = Left(t, DocType[d])
    /\ UNCHANGED <<timer, online, updates, watch, channel>>

\* reload_doc(), by the user or by the refresh() of a form that is opened with a
\* copy older than two minutes: remove_from_locals(), and the server is asked.
ReloadForm(t, d) ==
    /\ Below("moves", MaxMoves) /\ Count("moves")
    /\ d \in opendocs[t]
    /\ screen' = [screen EXCEPT ![t] = d] /\ cur_frm' = [cur_frm EXCEPT ![t] = d]
    /\ opendocs' = [opendocs EXCEPT ![t] = @ \ {d}]
    /\ Emit(t, DocClose(t, DocType[d]))
    /\ ghosts' = IF screen[t] = d THEN ghosts ELSE Left(t, DocType[d])
    /\ UNCHANGED <<open_docs, last_doc, viewers, timer, online, updates, watch, channel, deaf>>

\* The answer comes, for which the page is frozen, or that to a save: sync()
\* replaces docinfo.
RefreshForm(t) ==
    /\ screen[t] # None
    /\ IF screen[t] \in opendocs[t] THEN Below("moves", MaxMoves) /\ Count("moves")
                                    ELSE UNCHANGED counts
    /\ viewers' = [viewers EXCEPT ![t][screen[t]] = None]
    /\ Refresh(t, screen[t], {})
    /\ UNCHANGED <<screen, cur_frm, timer, online, updates, watch, channel, ghosts>>

\* Another page.
LeaveForm(t) ==
    /\ Below("moves", MaxMoves) /\ Count("moves")
    /\ screen[t] # None
    /\ Emit(t, DocClose(t, None))
    /\ screen' = [screen EXCEPT ![t] = None]
    /\ ghosts' = Left(t, None)
    /\ UNCHANGED <<cur_frm, opendocs, open_docs, last_doc, viewers, timer, online,
                   updates, watch, channel, deaf>>

\* What the tab has buffered goes out as soon as it is connected.
Connect(t) ==
    /\ ~online[t] /\ Below("connects", MaxConnects) /\ Count("connects")
    /\ online' = [online EXCEPT ![t] = TRUE]
    /\ timer' = [timer EXCEPT ![t] = TRUE]
    /\ Serve(t, up[t])
    /\ up' = [up EXCEPT ![t] = {}]
    /\ UNCHANGED <<client, viewers, updates, watch, channel, ghosts, deaf>>

\* 5 seconds after a connect.  $.each(open_docs, function(d) ...) calls the
\* function with the indices, for which there are no locals.
Reconnect(t) ==
    /\ timer[t]
    /\ timer' = [timer EXCEPT ![t] = FALSE]
    /\ IF cur_frm[t] = None THEN UNCHANGED <<up, last_doc, checks, view, lists, silent>>
       ELSE /\ Emit(t, DocOpen(t, cur_frm[t]))
            /\ Remember(t, cur_frm[t])
    /\ UNCHANGED <<screen, cur_frm, opendocs, open_docs, viewers, online, updates,
                   watch, channel, counts, ghosts, deaf>>

\* The handler of doc_viewers: set_viewers().
ShowViewers(t, d) ==
    /\ lists[t][d] # <<>>
    /\ lists' = [lists EXCEPT ![t][d] = Tail(@)]
    /\ viewers' = [viewers EXCEPT ![t][d] = Head(lists[t][d])]
    /\ UNCHANGED <<client, timer, online, up, updates, server, channel, counts, history>>

\* That of doc_update: a copy that is not shown and has no unsaved changes is
\* dropped, with remove_from_locals().
TakeUpdate(t) ==
    /\ updates[t] # <<>>
    /\ updates' = [updates EXCEPT ![t] = Tail(@)]
    /\ LET d == Head(updates[t]).doc IN \E unsaved \in BOOLEAN :
        opendocs' = IF screen[t] = d \/ unsaved THEN opendocs
                    ELSE [opendocs EXCEPT ![t] = @ \ {d}]
    /\ UNCHANGED <<screen, cur_frm, open_docs, last_doc, viewers, timer, online, up, lists,
                   server, channel, counts, history>>

-----------------------------------------------------------------------------
(***************************************************************************)
(* The rest of the server.                                                 *)
(***************************************************************************)

\* 200: the socket joins the room.  One that is disconnected by now is not
\* there to get or to be anything, but the viewers are sent all the same.
Permit(c) ==
    /\ c \in checks
    /\ checks' = checks \ {c}
    /\ IF c.kind = "doc_subscribe"
         THEN /\ watch' = IF c.live THEN [watch EXCEPT ![c.tab] = @ \cup {c.doc}] ELSE watch
              /\ UNCHANGED <<view, lists, silent, ghosts>>
         ELSE /\ view' = IF c.live THEN [view EXCEPT ![c.tab] = @ \cup {c.doc}] ELSE view
              /\ lists' = SendViewers({c.doc}, view')
              /\ silent' = silent \ {c.doc}
              /\ ghosts' = IF c.live /\ screen[c.tab] # c.doc
                             THEN ghosts \cup {<<c.tab, c.doc>>} ELSE ghosts
              /\ UNCHANGED watch
    /\ UNCHANGED <<client, viewers, timer, online, up, updates, channel, counts, deaf>>

\* 403, another status or no answer.
Refuse(c) ==
    /\ c \in checks /\ c.doc \in Unanswered
    /\ checks' = checks \ {c}
    /\ deaf' = IF c.kind = "doc_subscribe" THEN deaf \cup {<<c.tab, c.doc>>} ELSE deaf
    /\ UNCHANGED <<client, viewers, timer, online, up, lists, updates, watch, view, channel,
                   counts, silent, ghosts>>

\* The connections of the tabs `lost` break: what is on its way is lost, node
\* takes the sockets out of their rooms and tells nobody.
Break(lost) ==
    /\ online' = [t \in Tabs |-> online[t] /\ t \notin lost]
    /\ lists' = [t \in Tabs |-> [d \in Docs |-> IF t \in lost THEN <<>> ELSE lists[t][d]]]
    /\ updates' = [t \in Tabs |-> IF t \in lost THEN <<>> ELSE updates[t]]
    /\ watch' = [t \in Tabs |-> IF t \in lost THEN {} ELSE watch[t]]
    /\ view' = [t \in Tabs |-> IF t \in lost THEN {} ELSE view[t]]
    /\ silent' = silent \cup UNION {view[t] : t \in lost}
    /\ ghosts' = {x \in ghosts : x[1] \notin lost}
    /\ deaf' = deaf \cup {x \in lost \X Docs : x[2] \in opendocs[x[1]]}

Disconnect(t) ==
    /\ online[t]
    /\ Break({t})
    /\ checks' = {[c EXCEPT !.live = c.live /\ c.tab # t] : c \in checks}
    /\ UNCHANGED <<client, viewers, timer, up, channel, counts>>

\* The node server is restarted.
Restart ==
    /\ \E t \in Tabs : online[t]
    /\ Break({t \in Tabs : online[t]})
    /\ checks' = {} /\ channel' = <<>>
    /\ UNCHANGED <<client, viewers, timer, up, counts>>

\* notify_update(), after the commit.
Publish(d) ==
    /\ Below("events", MaxEvents) /\ Count("events")
    /\ channel' = Append(channel, [doc |-> d, number |-> counts.events + 1])
    /\ UNCHANGED <<client, viewers, timer, online, up, lists, updates, server, history>>

\* Mutated: every socket of the site gets it.
RelayToAll ==
    /\ channel # <<>>
    /\ channel' = Tail(channel)
    /\ updates' = [t \in Tabs |-> IF online[t] THEN Append(updates[t], Head(channel))
                                              ELSE updates[t]]
    /\ UNCHANGED <<client, viewers, timer, online, up, lists, server, counts, history>>

\* subscriber.on("message"): to the room of the document.
Relay ==
    /\ channel # <<>>
    /\ channel' = Tail(channel)
    /\ updates' = [t \in Tabs |-> IF Head(channel).doc \in watch[t]
                                    THEN Append(updates[t], Head(channel)) ELSE updates[t]]
    /\ UNCHANGED <<client, viewers, timer, online, up, lists, server, counts, history>>

-----------------------------------------------------------------------------
User(t) == RefreshForm(t) \/ LeaveForm(t) \/ \E d \in Docs : OpenForm(t, d) \/ ReloadForm(t, d)

Page(t) ==
    \/ Connect(t) \/ Reconnect(t) \/ TakeUpdate(t)
    \/ \E d \in Docs : ShowViewers(t, d)

Next ==
    \/ \E t \in Tabs : User(t) \/ Page(t) \/ Disconnect(t)
    \/ \E c \in checks : Permit(c) \/ Refuse(c)
    \/ \E d \in Docs : Publish(d)
    \/ Relay \/ Restart

Spec == Init /\ [][Next]_vars

-----------------------------------------------------------------------------
(***************************************************************************)
(* Properties.                                                             *)
(***************************************************************************)
Messages == [kind : {"doc_subscribe", "doc_open", "doc_close"}, doc : Docs]

Checks == [tab : Tabs, kind : {"doc_subscribe", "doc_open"}, doc : Docs, live : BOOLEAN]

Events == [doc : Docs, number : Nat]

Types == {DocType[d] : d \in Docs}

TypeOK ==
    /\ screen \in [Tabs -> Docs \cup {None}] /\ cur_frm \in [Tabs -> Docs \cup {None}]
    /\ opendocs \in [Tabs -> SUBSET Docs] /\ open_docs \in [Tabs -> SUBSET Docs]
    /\ last_doc \in [Tabs -> Types \cup {None}]
    /\ viewers \in [Tabs -> [Docs -> (SUBSET Tabs) \cup {None}]]
    /\ timer \in [Tabs -> BOOLEAN] /\ online \in [Tabs -> BOOLEAN]
    /\ up \in [Tabs -> SUBSET Messages]
    /\ lists \in [Tabs -> [Docs -> Seq(SUBSET Tabs)]]
    /\ updates \in [Tabs -> Seq(Events)] /\ channel \in Seq(Events)
    /\ watch \in [Tabs -> SUBSET Docs] /\ view \in [Tabs -> SUBSET Docs]
    /\ checks \subseteq Checks
    /\ counts \in [moves : Nat, connects : Nat, events : Nat]
    /\ silent \subseteq Docs
    /\ ghosts \subseteq Tabs \X Docs /\ deaf \subseteq Tabs \X Docs

Viewing(d) == {t \in Tabs : d \in view[t]}

\* The list of viewers in the sidebar of a form is right once the lists on their
\* way to it are in, whatever the order in which tabs join and leave: unless
\* somebody's connection was lost, which node tells nobody, and until the form
\* is loaded again, which empties it.
ViewersAreCurrent ==
    \A t \in Tabs, d \in Docs :
        (d \in view[t] /\ lists[t][d] = <<>> /\ viewers[t][d] # None)
            => viewers[t][d] = Viewing(d) \/ d \in silent

\* A tab that does not show a document is not kept among its viewers, but in two
\* ways: the form went on to another document of the DocType, which hides no
\* page, or the tab had gone before the permission to be a viewer came.
GhostsAreKnown ==
    \A t \in Tabs, d \in Docs :
        (d \in view[t] /\ screen[t] # d) => <<t, d>> \in ghosts

\* The request of t to join the room of d is on its way.
Joining(t, d) ==
    \/ Msg("doc_subscribe", d) \in up[t]
    \/ [tab |-> t, kind |-> "doc_subscribe", doc |-> d, live |-> TRUE] \in checks

\* A tab gets the events of every document of which it has a loaded copy, or will,
\* but in three ways, each until the form is loaded again: another form was loaded
\* in the same second, the web server did not permit it, or the connection was
\* lost.  Whatever copies are dropped and loaded again meanwhile.
FormsAreWatched ==
    \A t \in Tabs : \A d \in opendocs[t] :
        d \in watch[t] \/ Joining(t, d) \/ <<t, d>> \in deaf

\* "re-connect open docs": a tab that is connected again is in the rooms of its
\* documents again, once its timer has run out and its requests are answered.
OpenDocsAreReconnected ==
    \A t \in Tabs :
        (online[t] /\ ~timer[t] /\ up[t] = {} /\ checks = {}) => open_docs[t] \subseteq watch[t]

\* Seen from the tabs, rooms, permissions, connections and the way over Redis
\* are the feed of DocFeed: no event comes twice, late or out of order.
Feed == INSTANCE DocFeed WITH
    last <- counts.events - Len(channel), joined <- watch, inbox <- updates

ImplementsFeed == Feed!Spec

=============================================================================
