----------------------------- MODULE AfterCommit ----------------------------
(***************************************************************************)
(* What a transaction leaves to be done after it: frappe/database.py,      *)
(* commit() and rollback(), with the realtime events that are published    *)
(* "after commit" (frappe/realtime.py) and the jobs that are enqueued      *)
(* "after commit" (frappe/utils/background_jobs.py).                       *)
(*                                                                         *)
(* Both lists live in the process, not in the transaction: commit() works  *)
(* them off one element at a time, rollback() leaves them alone, and the   *)
(* end of the request or job (frappe.destroy) forgets them.  A write is    *)
(* named by a number; an event or a job has the number of the write it     *)
(* tells about.                                                            *)
(***************************************************************************)
EXTENDS Naturals, Sequences

CONSTANTS
    Processes,  \* workers, each running one request or job after another
    Kinds,      \* what they run: a "request", a "batch" (a request that catches
                \* the error of one document and goes on) or a background "job"
    Faults,     \* what may fail: "pubsub", "queue", "crash"
    MaxWrites   \* bound: writes in a behaviour

ASSUME AfterCommitAssumption ==
    /\ Kinds \subseteq {"request", "batch", "job"}
    /\ Faults \subseteq {"pubsub", "queue", "crash"}
    /\ MaxWrites \in Nat

VARIABLES
    writes,     \* number of writes so far
    committed,  \* writes that are durable
    published,  \* writes whose event was published
    queued,     \* writes whose job was enqueued
    pc,         \* each process: its place
    kind,       \* each process: what it runs
    last,       \* each process: is the commit under way the final one?
    own,        \* each process: the writes of the open transaction
    counted,    \* each process: is transaction_writes above 0?
    events,     \* each process: local.realtime_log
    jobs,       \* each process: flags.enqueue_after_commit
    next,       \* each process: the job commit() enqueues next
    requested,  \* history: writes of requests that catch no exception
    announced,  \* history: writes with a job to enqueue after their commit
    excused,    \* history: writes whose jobs met a fault
    broken,     \* history: writes with a job in the list of a commit that raised
    repeated    \* history: writes whose job was enqueued more than once

db == <<writes, committed>>
out == <<published, queued>>
local == <<own, counted, events, jobs, next>>
history == <<requested, announced, excused, broken, repeated>>
vars == <<db, out, pc, kind, last, local, history>>

-----------------------------------------------------------------------------
Init ==
    /\ writes = 0 /\ committed = {}
    /\ published = {} /\ queued = {}
    /\ pc = [p \in Processes |-> "idle"]
    /\ kind = [p \in Processes |-> "request"]
    /\ last = [p \in Processes |-> FALSE]
    /\ own = [p \in Processes |-> {}]
    /\ counted = [p \in Processes |-> FALSE]
    /\ events = [p \in Processes |-> {}]
    /\ jobs = [p \in Processes |-> <<>>]
    /\ next = [p \in Processes |-> 1]
    /\ requested = {} /\ announced = {}
    /\ excused = {} /\ broken = {} /\ repeated = {}

Goto(p, s) == pc' = [pc EXCEPT ![p] = s]

\* application() or execute_job().
Begin(p, k) ==
    /\ pc[p] = "idle"
    /\ kind' = [kind EXCEPT ![p] = k]
    /\ Goto(p, "running")
    /\ UNCHANGED <<db, out, last, local, history>>

\* A statement that writes, by save() or set_value(), and what the hooks and
\* notify_update() leave for after the commit.  check_transaction_status()
\* counts it only when "update", "insert" or "delete" are its first letters.
Write(p, counts, announce) ==
    /\ pc[p] = "running" /\ writes < MaxWrites
    /\ writes' = writes + 1
    /\ own' = [own EXCEPT ![p] = @ \cup {writes'}]
    /\ counted' = [counted EXCEPT ![p] = @ \/ counts]
    /\ events' = [events EXCEPT ![p] =
                    IF "event" \in announce THEN @ \cup {writes'} ELSE @]
    /\ jobs' = [jobs EXCEPT ![p] =
                    IF "job" \in announce THEN Append(@, writes') ELSE @]
    /\ announced' = IF "job" \in announce THEN announced \cup {writes'} ELSE announced
    /\ requested' = IF kind[p] = "request" THEN requested \cup {writes'} ELSE requested
    /\ UNCHANGED <<committed, out, pc, kind, last, next, excused, broken, repeated>>

-----------------------------------------------------------------------------
(***************************************************************************)
(* commit() and rollback().                                                *)
(***************************************************************************)

\* Mutated: the lists are dropped with the transaction.
DropLists(p, final) ==
    /\ committed' = committed \cup own[p]
    /\ own' = [own EXCEPT ![p] = {}]
    /\ counted' = [counted EXCEPT ![p] = FALSE]
    /\ jobs' = [jobs EXCEPT ![p] = <<>>]
    /\ last' = [last EXCEPT ![p] = final]
    /\ Goto(p, "publish")
    /\ UNCHANGED <<writes, out, kind, events, next, history>>

\* The COMMIT of commit(): transaction_writes starts again from 0.
CommitWrites(p, final) ==
    /\ committed' = committed \cup own[p]
    /\ own' = [own EXCEPT ![p] = {}]
    /\ counted' = [counted EXCEPT ![p] = FALSE]
    /\ last' = [last EXCEPT ![p] = final]
    /\ Goto(p, "publish")
    /\ UNCHANGED <<writes, out, kind, events, jobs, next, history>>

\* frappe.db.commit() in the middle: in a batch, for DDL, with auto_commit,
\* or at the write that exceeds the limit.
CommitNow(p) == pc[p] = "running" /\ CommitWrites(p, FALSE)

\* flush_realtime_log(), one event ...
Publish(p, w) ==
    /\ pc[p] = "publish" /\ w \in events[p]
    /\ published' = published \cup {w}
    /\ UNCHANGED <<db, queued, pc, kind, last, local, history>>

\* ... and when the loop is through; emit_via_redis() swallows a lost connection.
Flushed(p) ==
    /\ pc[p] = "publish"
    /\ events[p] \subseteq published \/ "pubsub" \in Faults
    /\ events' = [events EXCEPT ![p] = {}]
    /\ Goto(p, "enqueue")
    /\ UNCHANGED <<db, out, kind, last, own, counted, jobs, next, history>>

\* Mutated: a job that cannot be enqueued is tried again, from the first.
EnqueueAgain(p) ==
    /\ pc[p] = "enqueue" /\ next[p] <= Len(jobs[p])
    /\ queued' = queued \cup {jobs[p][next[p]]}
    /\ repeated' = repeated \cup (queued \cap {jobs[p][next[p]]})
    /\ \/ next' = [next EXCEPT ![p] = @ + 1]
       \/ next' = [next EXCEPT ![p] = 1]
    /\ UNCHANGED <<db, published, pc, kind, last, own, counted, events, jobs,
                   requested, announced, excused, broken>>

\* enqueue_jobs_after_commit(), one job ...
EnqueueJob(p) ==
    /\ pc[p] = "enqueue" /\ next[p] <= Len(jobs[p])
    /\ queued' = queued \cup {jobs[p][next[p]]}
    /\ repeated' = repeated \cup (queued \cap {jobs[p][next[p]]})
    /\ next' = [next EXCEPT ![p] = @ + 1]
    /\ UNCHANGED <<db, published, pc, kind, last, own, counted, events, jobs,
                   requested, announced, excused, broken>>

\* frappe.destroy(): the lists are gone.
Forget(p) ==
    /\ own' = [own EXCEPT ![p] = {}]
    /\ counted' = [counted EXCEPT ![p] = FALSE]
    /\ events' = [events EXCEPT ![p] = {}]
    /\ jobs' = [jobs EXCEPT ![p] = <<>>]
    /\ next' = [next EXCEPT ![p] = 1]
    /\ Goto(p, "idle")

\* ... and when all are enqueued the list is emptied, and commit() returns
\* to the code that called it ...
Resume(p) ==
    /\ pc[p] = "enqueue" /\ ~ last[p] /\ next[p] > Len(jobs[p])
    /\ jobs' = [jobs EXCEPT ![p] = <<>>]
    /\ next' = [next EXCEPT ![p] = 1]
    /\ Goto(p, "running")
    /\ UNCHANGED <<db, out, kind, last, own, counted, events, history>>

\* ... or to after_request() or execute_job(), which end.
End(p) ==
    /\ pc[p] = "enqueue" /\ last[p] /\ next[p] > Len(jobs[p])
    /\ Forget(p)
    /\ UNCHANGED <<db, out, kind, last, history>>

\* Mutated: the next commit starts before the first job.
RollbackToZero(p) ==
    /\ own' = [own EXCEPT ![p] = {}]
    /\ counted' = [counted EXCEPT ![p] = FALSE]
    /\ next' = [next EXCEPT ![p] = 0]
    /\ Goto(p, "running")
    /\ UNCHANGED <<events, jobs>>

\* rollback() touches neither list.
Rollback(p) ==
    /\ own' = [own EXCEPT ![p] = {}]
    /\ counted' = [counted EXCEPT ![p] = FALSE]
    /\ next' = [next EXCEPT ![p] = 1]
    /\ Goto(p, "running")
    /\ UNCHANGED <<events, jobs>>

\* log() of the scheduler: an Error Log on the rolled back transaction, and a
\* commit, which finds the lists as they are.  execute_job() ends with it;
\* scheduler_task(), which it may be running, logs first and raises again.
LogError(p) ==
    /\ own' = [own EXCEPT ![p] = {}]
    /\ counted' = [counted EXCEPT ![p] = FALSE]
    /\ next' = [next EXCEPT ![p] = 1]
    /\ \E final \in BOOLEAN : last' = [last EXCEPT ![p] = final]
    /\ Goto(p, "publish")
    /\ UNCHANGED <<events, jobs>>

\* Mutated: every request goes on after an exception.
GoOn(p) == Rollback(p) /\ UNCHANGED last

\* An exception: a batch catches it and takes the next document, a job logs
\* it, everything else ends; so does a job that can't log it, or that is retried
\* from the start after a deadlock (Begin).
Raise(p) ==
    \/ kind[p] = "batch" /\ Rollback(p) /\ UNCHANGED last
    \/ kind[p] # "batch" /\ Forget(p) /\ UNCHANGED last
    \/ kind[p] = "job" /\ LogError(p)

\* An exception in the code that a request or a job runs.
Fail(p) ==
    /\ pc[p] = "running"
    /\ Raise(p)
    /\ UNCHANGED <<db, out, kind, history>>

\* The jobs in a process's list, and those of them it still has to enqueue.
Listed(p) == {jobs[p][i] : i \in 1..Len(jobs[p])}

Unqueued(p) == {jobs[p][i] : i \in next[p]..Len(jobs[p])}

\* The Redis of the events answers with something else than a lost connection,
\* or the Redis of the queue is not there: commit() raises after the COMMIT, and
\* neither list is emptied.  Nobody catches what the last commit raises.
CommitFails(p) ==
    /\ \/ pc[p] = "publish" /\ events[p] # {} /\ "pubsub" \in Faults
       \/ pc[p] = "enqueue" /\ next[p] <= Len(jobs[p]) /\ "queue" \in Faults
    /\ IF last[p] THEN Forget(p) /\ UNCHANGED last ELSE Raise(p)
    /\ excused' = excused \cup Unqueued(p)
    /\ broken' = broken \cup Listed(p)
    /\ UNCHANGED <<db, out, kind, requested, announced, repeated>>

\* after_request() commits a request that has written, the update of the
\* session may commit the others; execute_job() always commits.
Finish(p) ==
    /\ pc[p] = "running"
    /\ \/ CommitWrites(p, TRUE)
       \/ /\ kind[p] # "job" /\ ~ counted[p]
          /\ Forget(p)
          /\ UNCHANGED <<db, out, kind, last, history>>

\* The process is killed.
Crash(p) ==
    /\ "crash" \in Faults
    /\ pc[p] # "idle"
    /\ Forget(p)
    /\ excused' = excused \cup Unqueued(p)
    /\ UNCHANGED <<db, out, kind, last, requested, announced, broken, repeated>>

-----------------------------------------------------------------------------
Process(p) ==
    \/ \E k \in Kinds : Begin(p, k)
    \/ \E counts \in BOOLEAN, announce \in SUBSET {"event", "job"} :
            Write(p, counts, announce)
    \/ \E w \in events[p] : Publish(p, w)
    \/ CommitNow(p) \/ Flushed(p) \/ EnqueueJob(p) \/ Resume(p) \/ End(p)
    \/ Fail(p) \/ CommitFails(p) \/ Finish(p) \/ Crash(p)

Next == \E p \in Processes : Process(p)

Spec == Init /\ [][Next]_vars

-----------------------------------------------------------------------------
(***************************************************************************)
(* Properties.                                                             *)
(***************************************************************************)
TypeOK ==
    /\ writes \in 0..MaxWrites
    /\ committed \subseteq 1..writes /\ published \subseteq 1..writes
    /\ queued \subseteq 1..writes
    /\ pc \in [Processes -> {"idle", "running", "publish", "enqueue"}]
    /\ kind \in [Processes -> {"request", "batch", "job"}]
    /\ last \in [Processes -> BOOLEAN]
    /\ own \in [Processes -> SUBSET (1..writes)]
    /\ counted \in [Processes -> BOOLEAN]
    /\ events \in [Processes -> SUBSET (1..writes)]
    /\ jobs \in [Processes -> Seq(1..writes)]
    /\ next \in [Processes -> Nat \ {0}]
    /\ requested \subseteq 1..writes /\ announced \subseteq 1..writes
    /\ excused \subseteq 1..writes /\ broken \subseteq 1..writes
    /\ repeated \subseteq 1..writes

\* "will emit after current transaction is committed": a request that catches
\* no exception publishes an event only when the write it tells about is
\* durable, whatever the batches and jobs beside it do and whatever fails ...
RequestsPublishCommitted == published \cap requested \subseteq committed

\* ... and enqueues jobs for durable writes only.
RequestsQueueCommitted == queued \cap requested \subseteq committed

\* A job is enqueued twice only when a commit() that listed it has raised, and
\* only by those who commit again then: a batch, which goes on, or a background
\* job, whose error is logged.
OnlyRaisedCommitsRepeat == repeated \subseteq broken \ requested

\* No committed write loses its job: it is enqueued, or commit() is still
\* working off the list, or the queue or the process has failed.
NoJobIsForgotten ==
    \A w \in committed \cap announced :
        \/ w \in queued
        \/ w \in excused
        \/ \E p \in Processes : pc[p] \in {"publish", "enqueue"} /\ w \in Unqueued(p)

-----------------------------------------------------------------------------
(***************************************************************************)
(* The abstract specification: the outbox of the requests that catch no    *)
(* exception.                                                              *)
(***************************************************************************)
\* What commit() still has to enqueue.
Left(p) == IF pc[p] \in {"publish", "enqueue"} THEN Unqueued(p) ELSE {}

Waiting == (UNION {Left(p) : p \in Processes}) \cap requested

Box == INSTANCE Outbox WITH
    Writes  <- 1..MaxWrites,
    durable <- committed \cap requested,
    asked   <- announced \cap requested,
    waiting <- Waiting,
    relayed <- queued \cap requested,
    lost    <- excused \cap committed \cap requested,
    heard   <- published \cap requested

\* For the writes of a request commit(), which works its lists off one by one
\* and can fail or be killed in between, is an outbox: the jobs wait as soon as
\* the COMMIT is done, each is enqueued or lost once, and neither the batches
\* and jobs beside it nor an earlier rollback() add to them.
ImplementsOutbox == Box!Spec

\* The job of a committed write of a request waits in commit(), was enqueued or
\* was lost: none of them twice, none that was given up comes back, none of a
\* write that was rolled back; and what is published is of committed writes
\* too.  RequestsPublishCommitted and RequestsQueueCommitted follow.
JobsAreInOnePlace == Box!OnePlace

=============================================================================
