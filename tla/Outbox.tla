-------------------------------- MODULE Outbox -------------------------------
(***************************************************************************)
(* What commit() promises a request (frappe/database.py): the jobs that a  *)
(* transaction asks for wait from the very step that makes its writes      *)
(* durable, all of them and no others; each leaves once, for the queue or  *)
(* with a fault, and nobody hears of a write before it is durable.         *)
(***************************************************************************)
EXTENDS Naturals

CONSTANT Writes

VARIABLES
    durable,  \* the writes that were committed
    asked,    \* the writes that asked for a job
    waiting,  \* the jobs to be relayed to the queue
    relayed,  \* the jobs in the queue
    lost,     \* the jobs that met a fault
    heard     \* the writes whose event was published

vars == <<durable, asked, waiting, relayed, lost, heard>>

Init ==
    /\ durable = {} /\ asked = {}
    /\ waiting = {} /\ relayed = {} /\ lost = {}
    /\ heard = {}

\* enqueue_after_commit, by a write of an open transaction.
Ask(w) ==
    /\ w \notin durable
    /\ asked' = asked \cup {w}
    /\ UNCHANGED <<durable, waiting, relayed, lost, heard>>

Commit(written) ==
    /\ written \cap durable = {}
    /\ durable' = durable \cup written
    /\ waiting' = waiting \cup (written \cap asked)
    /\ UNCHANGED <<asked, relayed, lost, heard>>

Relay(job) ==
    /\ job \in waiting
    /\ waiting' = waiting \ {job}
    /\ relayed' = relayed \cup {job}
    /\ UNCHANGED <<durable, asked, lost, heard>>

\* The queue or the process fails, with some of the jobs.
Lose(some) ==
    /\ some \subseteq waiting
    /\ waiting' = waiting \ some
    /\ lost' = lost \cup some
    /\ UNCHANGED <<durable, asked, relayed, heard>>

Publish(told) ==
    /\ told \subseteq durable
    /\ heard' = heard \cup told
    /\ UNCHANGED <<durable, asked, waiting, relayed, lost>>

Next ==
    \/ \E w \in Writes : Ask(w) \/ Relay(w)
    \/ \E some \in SUBSET Writes : Commit(some) \/ Lose(some) \/ Publish(some)

Spec == Init /\ [][Next]_vars

-----------------------------------------------------------------------------
\* Each job that was asked for by a durable write waits, is in the queue or is
\* lost, and only one of them; nobody has heard of a write that is not durable.
OnePlace ==
    /\ waiting \cup relayed \cup lost = asked \cap durable
    /\ waiting \cap relayed = {} /\ waiting \cap lost = {} /\ relayed \cap lost = {}
    /\ heard \subseteq durable

=============================================================================
