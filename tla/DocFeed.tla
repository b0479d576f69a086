------------------------------- MODULE DocFeed ------------------------------
(***************************************************************************)
(* What the realtime service promises a tab of the Desk about the events   *)
(* of documents (notify_update() in model/document.py): while the tab is   *)
(* in the room of a document, it gets each event once and in the order in  *)
(* which they were published; it gets none from before it has joined, and  *)
(* when its connection is lost, everything is lost at once.                *)
(***************************************************************************)
EXTENDS Naturals, Sequences

CONSTANTS Tabs, Docs

VARIABLES
    last,    \* the number of the last event published
    joined,  \* the documents whose events a tab gets
    inbox    \* the events on their way to it

vars == <<last, joined, inbox>>

Init ==
    /\ last = 0
    /\ joined = [t \in Tabs |-> {}]
    /\ inbox = [t \in Tabs |-> <<>>]

Join(t, d) ==
    /\ joined' = [joined EXCEPT ![t] = @ \cup {d}]
    /\ UNCHANGED <<last, inbox>>

\* Events may be lost on their way to the rooms, so their numbers only grow.
Publish(d) ==
    /\ last' > last
    /\ inbox' = [t \in Tabs |-> IF d \in joined[t]
                                  THEN Append(inbox[t], [doc |-> d, number |-> last'])
                                  ELSE inbox[t]]
    /\ UNCHANGED joined

Take(t) ==
    /\ inbox[t] # <<>>
    /\ inbox' = [inbox EXCEPT ![t] = Tail(@)]
    /\ UNCHANGED <<last, joined>>

\* The connections of some tabs are lost, and perhaps events with them.
Lose(lost) ==
    /\ joined' = [t \in Tabs |-> IF t \in lost THEN {} ELSE joined[t]]
    /\ inbox' = [t \in Tabs |-> IF t \in lost THEN <<>> ELSE inbox[t]]
    /\ last' >= last

Next ==
    \/ \E t \in Tabs : Take(t) \/ \E d \in Docs : Join(t, d)
    \/ \E d \in Docs : Publish(d)
    \/ \E lost \in SUBSET Tabs : Lose(lost)

Spec == Init /\ [][Next]_vars

=============================================================================
