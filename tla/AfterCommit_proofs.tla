-------------------------- MODULE AfterCommit_proofs ------------------------
(***************************************************************************)
(* What holds of AfterCommit for every set of processes: no committed job  *)
(* is forgotten, whatever runs and whatever fails; a request that catches  *)
(* no exception announces nothing that is not committed; and a job is      *)
(* enqueued twice only after a commit() that listed it has raised.         *)
(***************************************************************************)
EXTENDS AfterCommit, SequenceTheorems, TLAPS

-----------------------------------------------------------------------------
LEMMA TypeInit == Init => TypeOK
BY AfterCommitAssumption DEF Init, TypeOK

\* The jobs still to be enqueued are those of writes.
LEMMA UnqueuedType ==
    ASSUME TypeOK, NEW p \in Processes
    PROVE  Unqueued(p) \subseteq 1..writes
<1>1. jobs[p] \in Seq(1..writes) /\ next[p] \in Nat \ {0}
  BY DEF TypeOK
<1>2. \A i \in next[p]..Len(jobs[p]) : i \in 1..Len(jobs[p])
  BY <1>1
<1>3. ASSUME NEW i \in 1..Len(jobs[p]) PROVE jobs[p][i] \in 1..writes
  BY <1>1, ElementOfSeq
<1>4. QED
  BY <1>2, <1>3 DEF Unqueued

LEMMA ListedType ==
    ASSUME TypeOK, NEW p \in Processes PROVE Listed(p) \subseteq 1..writes
<1>1. jobs[p] \in Seq(1..writes)
  BY DEF TypeOK
<1>2. ASSUME NEW i \in 1..Len(jobs[p]) PROVE jobs[p][i] \in 1..writes
  BY <1>1, ElementOfSeq
<1>3. QED
  BY <1>2 DEF Listed

\* Every step keeps the type of every variable.
LEMMA TypeStep == TypeOK /\ [Next]_vars => TypeOK'
<1> SUFFICES ASSUME TypeOK, [Next]_vars PROVE TypeOK'
  OBVIOUS
<1> USE AfterCommitAssumption DEF TypeOK, db, out, local, history, Goto
<1>1. ASSUME NEW p \in Processes, NEW k \in Kinds, Begin(p, k) PROVE TypeOK'
  BY <1>1 DEF Begin
<1>2. ASSUME NEW p \in Processes, NEW counts \in BOOLEAN,
             NEW announce \in SUBSET {"event", "job"}, Write(p, counts, announce)
      PROVE  TypeOK'
  <2>1. writes' \in 0..MaxWrites /\ writes' = writes + 1
    BY <1>2 DEF Write
  <2>2. committed' \subseteq 1..writes' /\ published' \subseteq 1..writes'
        /\ queued' \subseteq 1..writes' /\ announced' \subseteq 1..writes'
        /\ excused' \subseteq 1..writes' /\ broken' \subseteq 1..writes'
        /\ repeated' \subseteq 1..writes'
    BY <1>2, <2>1 DEF Write
  <2>3. own' \in [Processes -> SUBSET (1..writes')]
        /\ events' \in [Processes -> SUBSET (1..writes')]
    BY <1>2, <2>1 DEF Write
  <2>4. jobs' \in [Processes -> Seq(1..writes')]
    <3>1. \A q \in Processes : jobs[q] \in Seq(1..writes')
      BY <2>1
    <3>2. Append(jobs[p], writes') \in Seq(1..writes')
      BY <2>1, <3>1
    <3>3. QED
      BY <1>2, <3>1, <3>2 DEF Write
  <2>5. QED
    BY <1>2, <2>1, <2>2, <2>3, <2>4 DEF Write
<1>3. ASSUME NEW p \in Processes, NEW final \in BOOLEAN, CommitWrites(p, final)
      PROVE  TypeOK'
  BY <1>3 DEF CommitWrites
<1>4. ASSUME NEW p \in Processes, Flushed(p) \/ \E w \in events[p] : Publish(p, w)
      PROVE  TypeOK'
  BY <1>4 DEF Publish, Flushed
<1>5. ASSUME NEW p \in Processes, EnqueueJob(p) PROVE TypeOK'
  <2>1. jobs[p][next[p]] \in 1..writes
    BY <1>5 DEF EnqueueJob
  <2>2. queued' \subseteq 1..writes /\ repeated' \subseteq 1..writes
    BY <1>5, <2>1 DEF EnqueueJob
  <2>3. next' \in [Processes -> Nat \ {0}]
    BY <1>5 DEF EnqueueJob
  <2>4. QED
    BY <1>5, <2>2, <2>3 DEF EnqueueJob
<1>6. ASSUME NEW p \in Processes, Resume(p) PROVE TypeOK'
  BY <1>6 DEF Resume
<1>7. ASSUME NEW p \in Processes, Forget(p), UNCHANGED last,
             excused' \subseteq 1..writes, broken' \subseteq 1..writes,
             UNCHANGED <<writes, committed, published, queued, kind, requested, announced,
                         repeated>>
      PROVE  TypeOK'
  <2>2. jobs' \in [Processes -> Seq(1..writes)]
    BY <1>7 DEF Forget
  <2>3. own' \in [Processes -> SUBSET (1..writes)]
        /\ events' \in [Processes -> SUBSET (1..writes)]
    BY <1>7 DEF Forget
  <2>4. QED
    BY <1>7, <2>2, <2>3 DEF Forget
<1>8. ASSUME NEW p \in Processes, (Rollback(p) /\ UNCHANGED last) \/ LogError(p),
             excused' \subseteq 1..writes, broken' \subseteq 1..writes,
             UNCHANGED <<writes, committed, published, queued, kind, requested, announced,
                         repeated>>
      PROVE  TypeOK'
  <2>1. /\ own' = [own EXCEPT ![p] = {}] /\ counted' = [counted EXCEPT ![p] = FALSE]
        /\ next' = [next EXCEPT ![p] = 1] /\ UNCHANGED <<events, jobs>>
        /\ \E s \in {"running", "publish"} : pc' = [pc EXCEPT ![p] = s]
    <3>1. CASE Rollback(p)
      BY <3>1 DEF Rollback
    <3>2. CASE LogError(p)
      BY <3>2, Zenon DEF LogError
    <3>3. QED
      BY <1>8, <3>1, <3>2
  <2>2. own' \in [Processes -> SUBSET (1..writes)]
    BY <2>1
  <2>3. last' \in [Processes -> BOOLEAN]
    <3>1. CASE UNCHANGED last
      BY <3>1
    <3>2. CASE LogError(p)
      <4>1. PICK final \in BOOLEAN : last' = [last EXCEPT ![p] = final]
        BY <3>2, Zenon DEF LogError
      <4>2. QED
        BY <4>1
    <3>3. QED
      BY <1>8, <3>1, <3>2
  <2>4. counted' \in [Processes -> BOOLEAN]
    BY <2>1
  <2>5. next' \in [Processes -> Nat \ {0}]
    BY <2>1
  <2>6. pc' \in [Processes -> {"idle", "running", "publish", "enqueue"}]
    BY <2>1
  <2>7. QED
    BY <1>8, <2>1, <2>2, <2>3, <2>4, <2>5, <2>6
<1>9. ASSUME NEW p \in Processes, CommitNow(p) \/ Finish(p) PROVE TypeOK'
  <2>1. CASE \E final \in BOOLEAN : CommitWrites(p, final)
    BY <1>3, <2>1
  <2>2. CASE Forget(p) /\ UNCHANGED <<db, out, kind, last, history>>
    BY <1>7, <2>2
  <2>3. QED
    BY <1>9, <2>1, <2>2 DEF CommitNow, Finish
<1>10. ASSUME NEW p \in Processes, End(p) \/ Fail(p) \/ CommitFails(p) \/ Crash(p)
       PROVE  TypeOK'
  <2>1. UNCHANGED <<writes, committed, published, queued, kind, requested, announced,
                    repeated>>
    BY <1>10 DEF End, Fail, CommitFails, Crash
  <2>2. ((Forget(p) \/ Rollback(p)) /\ UNCHANGED last) \/ LogError(p)
    BY <1>10 DEF End, Fail, CommitFails, Crash, Raise
  <2>3. /\ excused' = excused \/ excused' = excused \cup Unqueued(p)
        /\ broken' = broken \/ broken' = broken \cup Listed(p)
    BY <1>10 DEF End, Fail, CommitFails, Crash
  <2>4. excused' \subseteq 1..writes /\ broken' \subseteq 1..writes
    BY <2>3, UnqueuedType, ListedType
  <2>5. QED
    BY <1>7, <1>8, <2>1, <2>2, <2>4
<1>11. CASE UNCHANGED vars
  BY <1>11 DEF vars
<1>12. QED
  BY <1>1, <1>2, <1>4, <1>5, <1>6, <1>9, <1>10, <1>11 DEF Next, Process

\* Every variable keeps its type in every behaviour.
THEOREM TypeCorrect == Spec => []TypeOK
BY TypeInit, TypeStep, PTL DEF Spec

-----------------------------------------------------------------------------
(***************************************************************************)
(* No committed job is forgotten, for every Kinds and every Faults.        *)
(***************************************************************************)

\* Outside commit() the list starts at its first job, and an open
\* transaction's jobs are in the list.
JobsInv ==
    /\ \A p \in Processes : pc[p] # "enqueue" => next[p] = 1
    /\ \A p \in Processes : own[p] # {} => pc[p] = "running"
    /\ \A p \in Processes : own[p] \cap announced \subseteq Unqueued(p)

LEMMA JobsInit == Init => TypeOK /\ JobsInv /\ NoJobIsForgotten
<1> SUFFICES ASSUME Init PROVE JobsInv /\ NoJobIsForgotten
  BY TypeInit
<1>1. QED
  BY DEF Init, JobsInv, NoJobIsForgotten

\* A process that forgets its lists outside commit(), or with an excuse.
LEMMA JobsForget ==
    ASSUME TypeOK, JobsInv, NoJobIsForgotten, NEW p \in Processes,
           Forget(p) \/ Rollback(p), UNCHANGED <<committed, queued, announced>>,
           excused \subseteq excused',
           pc[p] = "running" \/ Unqueued(p) \subseteq excused'
    PROVE  JobsInv' /\ NoJobIsForgotten'
<1>1. \A q \in Processes \ {p} :
          /\ pc'[q] = pc[q] /\ own'[q] = own[q] /\ jobs'[q] = jobs[q]
          /\ next'[q] = next[q]
  BY DEF Forget, Rollback, Goto, TypeOK
<1>2. own'[p] = {} /\ next'[p] = 1 /\ pc'[p] \in {"idle", "running"}
  BY DEF Forget, Rollback, Goto, TypeOK
<1>3. \A q \in Processes \ {p} : Unqueued(q)' = Unqueued(q)
  BY <1>1 DEF Unqueued
<1>4. JobsInv'
  BY <1>1, <1>2, <1>3 DEF JobsInv
<1>5. NoJobIsForgotten'
  <2> SUFFICES ASSUME NEW w \in committed \cap announced, w \notin queued,
                      w \notin excused'
      PROVE  \E q \in Processes : pc'[q] \in {"publish", "enqueue"} /\ w \in Unqueued(q)'
    BY DEF NoJobIsForgotten
  <2>1. PICK q \in Processes : pc[q] \in {"publish", "enqueue"} /\ w \in Unqueued(q)
    BY DEF NoJobIsForgotten
  <2>2. q # p
    BY <2>1
  <2>3. QED
    BY <1>1, <1>3, <2>1, <2>2
<1>6. QED
  BY <1>4, <1>5

\* A job whose error is logged: the list is worked off from its first job again.
LEMMA JobsLog ==
    ASSUME TypeOK, JobsInv, NoJobIsForgotten, NEW p \in Processes, LogError(p),
           UNCHANGED <<committed, queued, announced>>, excused \subseteq excused'
    PROVE  JobsInv' /\ NoJobIsForgotten'
<1>1. \A q \in Processes \ {p} : pc'[q] = pc[q] /\ own'[q] = own[q] /\ next'[q] = next[q]
  BY DEF LogError, Goto, TypeOK
<1>2. own'[p] = {} /\ next'[p] = 1 /\ pc'[p] = "publish" /\ jobs' = jobs
  BY DEF LogError, Goto, TypeOK
<1>3. \A q \in Processes \ {p} : Unqueued(q)' = Unqueued(q)
  BY <1>1, <1>2 DEF Unqueued
<1>4. Unqueued(p) \subseteq Unqueued(p)'
  <2>1. next[p] \in Nat \ {0} /\ Len(jobs[p]) \in Nat
    BY DEF TypeOK
  <2>2. \A i \in next[p]..Len(jobs[p]) : i \in 1..Len(jobs[p])
    BY <2>1
  <2>3. QED
    BY <1>2, <2>2 DEF Unqueued
<1>5. JobsInv'
  BY <1>1, <1>2, <1>3 DEF JobsInv
<1>6. NoJobIsForgotten'
  <2> SUFFICES ASSUME NEW w \in committed \cap announced, w \notin queued,
                      w \notin excused'
      PROVE  \E q \in Processes : pc'[q] \in {"publish", "enqueue"} /\ w \in Unqueued(q)'
    BY DEF NoJobIsForgotten
  <2>1. PICK q \in Processes : pc[q] \in {"publish", "enqueue"} /\ w \in Unqueued(q)
    BY DEF NoJobIsForgotten
  <2>2. QED
    BY <1>1, <1>2, <1>3, <1>4, <2>1
<1>7. QED
  BY <1>5, <1>6

\* A COMMIT.
LEMMA JobsCommit ==
    ASSUME TypeOK, JobsInv, NoJobIsForgotten, NEW p \in Processes,
           pc[p] = "running", Goto(p, "publish"), own' = [own EXCEPT ![p] = {}],
           committed \subseteq committed', committed' \subseteq committed \cup own[p],
           UNCHANGED <<queued, jobs, next, history>>
    PROVE  JobsInv' /\ NoJobIsForgotten'
<1>1. \A q \in Processes \ {p} : pc'[q] = pc[q] /\ own'[q] = own[q]
  BY DEF Goto, TypeOK
<1>2. own'[p] = {} /\ pc'[p] = "publish"
  BY DEF Goto, TypeOK
<1>3. /\ \A q \in Processes : Unqueued(q)' = Unqueued(q)
      /\ UNCHANGED <<announced, excused>>
  BY DEF Unqueued, history
<1>4. JobsInv'
  BY <1>1, <1>2, <1>3 DEF JobsInv
<1>5. NoJobIsForgotten'
  <2> SUFFICES ASSUME NEW w \in committed' \cap announced, w \notin queued,
                      w \notin excused
      PROVE  \E q \in Processes : pc'[q] \in {"publish", "enqueue"} /\ w \in Unqueued(q)'
    BY <1>3 DEF NoJobIsForgotten
  <2>1. CASE w \in own[p]
    BY <1>2, <1>3, <2>1 DEF JobsInv
  <2>2. CASE w \in committed
    <3>1. PICK q \in Processes : pc[q] \in {"publish", "enqueue"} /\ w \in Unqueued(q)
      BY <2>2 DEF NoJobIsForgotten
    <3>2. QED
      BY <1>1, <1>3, <3>1
  <2>3. QED
    BY <2>1, <2>2
<1>6. QED
  BY <1>4, <1>5

LEMMA JobsStep ==
    ASSUME TypeOK, TypeOK', JobsInv, NoJobIsForgotten, [Next]_vars
    PROVE  JobsInv' /\ NoJobIsForgotten'
<1> USE DEF db, out, local, history
<1>1. ASSUME NEW p \in Processes, NEW k \in Kinds, Begin(p, k)
      PROVE  JobsInv' /\ NoJobIsForgotten'
  <2>1. \A q \in Processes \ {p} : pc'[q] = pc[q]
    BY <1>1 DEF Begin, Goto, TypeOK
  <2>2. pc[p] = "idle" /\ pc'[p] = "running"
    BY <1>1 DEF Begin, Goto, TypeOK
  <2>3. /\ \A q \in Processes : Unqueued(q)' = Unqueued(q)
        /\ UNCHANGED <<committed, queued, own, next, announced, excused>>
    BY <1>1 DEF Begin, Unqueued
  <2>4. JobsInv'
    BY <2>1, <2>2, <2>3 DEF JobsInv
  <2>5. NoJobIsForgotten'
    BY <2>1, <2>2, <2>3 DEF NoJobIsForgotten
  <2>6. QED
    BY <2>4, <2>5
<1>2. ASSUME NEW p \in Processes, NEW counts \in BOOLEAN,
             NEW announce \in SUBSET {"event", "job"}, Write(p, counts, announce)
      PROVE  JobsInv' /\ NoJobIsForgotten'
  <2>1. /\ pc[p] = "running" /\ next[p] = 1
        /\ writes' = writes + 1 /\ writes' \notin 1..writes
        /\ UNCHANGED <<committed, queued, pc, next, excused>>
        /\ own' = [own EXCEPT ![p] = @ \cup {writes'}]
        /\ announced \subseteq announced' /\ announced' \subseteq announced \cup {writes'}
    BY <1>2 DEF Write, JobsInv, TypeOK
  <2>2. \A q \in Processes \ {p} : own'[q] = own[q] /\ Unqueued(q)' = Unqueued(q)
    BY <1>2 DEF Write, Unqueued, TypeOK
  <2>3. own'[p] = own[p] \cup {writes'}
    BY <2>1 DEF TypeOK
  <2>4. Unqueued(p) \subseteq Unqueued(p)'
        /\ (writes' \in announced' => writes' \in Unqueued(p)')
    <3>1. CASE "job" \in announce
      <4>1. jobs'[p] = Append(jobs[p], writes') /\ jobs[p] \in Seq(1..writes)
            /\ next'[p] = 1
        BY <1>2, <2>1, <3>1 DEF Write, TypeOK
      <4>2. /\ Len(jobs'[p]) = Len(jobs[p]) + 1 /\ Len(jobs[p]) \in Nat
            /\ \A i \in 1..Len(jobs[p]) : jobs'[p][i] = jobs[p][i]
            /\ jobs'[p][Len(jobs[p]) + 1] = writes'
        BY <4>1
      <4>3. Unqueued(p) = {jobs[p][i] : i \in 1..Len(jobs[p])}
        BY <2>1 DEF Unqueued
      <4>4. Unqueued(p)' = {jobs'[p][i] : i \in 1..(Len(jobs[p]) + 1)}
        BY <4>1, <4>2 DEF Unqueued
      <4>5. QED
        BY <4>2, <4>3, <4>4
    <3>2. CASE "job" \notin announce
      <4>1. jobs' = jobs /\ announced' = announced
        BY <1>2, <3>2 DEF Write, TypeOK
      <4>2. QED
        BY <2>1, <4>1 DEF Unqueued, TypeOK
    <3>3. QED
      BY <3>1, <3>2
  <2>5. \A q \in Processes : own[q] \subseteq 1..writes
    BY DEF TypeOK
  <2>6. JobsInv'
    <3>1. own'[p] \cap announced' \subseteq Unqueued(p)'
      BY <2>1, <2>3, <2>4, <2>5 DEF JobsInv
    <3>2. \A q \in Processes \ {p} : own'[q] \cap announced' \subseteq Unqueued(q)'
      BY <2>1, <2>2, <2>5 DEF JobsInv
    <3>3. QED
      BY <2>1, <2>2, <3>1, <3>2 DEF JobsInv
  <2>7. NoJobIsForgotten'
    <3>1. committed \cap announced' = committed \cap announced
      BY <2>1 DEF TypeOK
    <3>2. \A q \in Processes : Unqueued(q) \subseteq Unqueued(q)'
      BY <2>2, <2>4
    <3>3. QED
      BY <2>1, <3>1, <3>2 DEF NoJobIsForgotten
  <2>8. QED
    BY <2>6, <2>7
<1>3. ASSUME NEW p \in Processes, NEW final \in BOOLEAN, pc[p] = "running",
             CommitWrites(p, final)
      PROVE  JobsInv' /\ NoJobIsForgotten'
  <2>1. committed \subseteq committed' /\ committed' \subseteq committed \cup own[p]
        /\ Goto(p, "publish") /\ own' = [own EXCEPT ![p] = {}]
        /\ UNCHANGED <<queued, jobs, next, history>>
    BY <1>3 DEF CommitWrites
  <2>2. QED
    BY <1>3, <2>1, JobsCommit
<1>4. ASSUME NEW p \in Processes, Flushed(p) PROVE JobsInv' /\ NoJobIsForgotten'
  <2>1. \A q \in Processes \ {p} : pc'[q] = pc[q]
    BY <1>4 DEF Flushed, Goto, TypeOK
  <2>2. pc[p] = "publish" /\ pc'[p] = "enqueue"
    BY <1>4 DEF Flushed, Goto, TypeOK
  <2>3. /\ \A q \in Processes : Unqueued(q)' = Unqueued(q)
        /\ UNCHANGED <<committed, queued, own, next, announced, excused>>
    BY <1>4 DEF Flushed, Unqueued
  <2>4. JobsInv'
    BY <2>1, <2>2, <2>3 DEF JobsInv
  <2>5. NoJobIsForgotten'
    BY <2>1, <2>2, <2>3 DEF NoJobIsForgotten
  <2>6. QED
    BY <2>4, <2>5
<1>10. ASSUME NEW p \in Processes, NEW w \in events[p], Publish(p, w)
      PROVE  JobsInv' /\ NoJobIsForgotten'
  <2>1. UNCHANGED <<committed, queued, pc, own, jobs, next, announced, excused>>
    BY <1>10 DEF Publish
  <2>2. \A q \in Processes : Unqueued(q)' = Unqueued(q)
    BY <2>1 DEF Unqueued
  <2>3. QED
    BY <2>1, <2>2 DEF JobsInv, NoJobIsForgotten
<1>5. ASSUME NEW p \in Processes, EnqueueJob(p) PROVE JobsInv' /\ NoJobIsForgotten'
  <2>1. /\ pc[p] = "enqueue" /\ next[p] \in Nat \ {0} /\ next[p] <= Len(jobs[p])
        /\ queued' = queued \cup {jobs[p][next[p]]}
        /\ next' = [next EXCEPT ![p] = @ + 1]
        /\ UNCHANGED <<committed, pc, own, jobs, announced, excused>>
    BY <1>5 DEF EnqueueJob, TypeOK
  <2>2. \A q \in Processes \ {p} : next'[q] = next[q] /\ Unqueued(q)' = Unqueued(q)
    BY <2>1 DEF Unqueued, TypeOK
  <2>3. Unqueued(p) \subseteq Unqueued(p)' \cup {jobs[p][next[p]]}
    <3>1. next'[p] = next[p] + 1 /\ Len(jobs[p]) \in Nat
      BY <2>1 DEF TypeOK
    <3>2. \A i \in next[p]..Len(jobs[p]) : i = next[p] \/ i \in (next[p] + 1)..Len(jobs[p])
      BY <2>1, <3>1
    <3>3. QED
      BY <2>1, <3>1, <3>2 DEF Unqueued
  <2>4. JobsInv'
    BY <2>1, <2>2 DEF JobsInv
  <2>5. NoJobIsForgotten'
    <3> SUFFICES ASSUME NEW w \in committed \cap announced, w \notin queued',
                        w \notin excused
        PROVE  \E q \in Processes : pc'[q] \in {"publish", "enqueue"} /\ w \in Unqueued(q)'
      BY <2>1 DEF NoJobIsForgotten
    <3>1. PICK q \in Processes : pc[q] \in {"publish", "enqueue"} /\ w \in Unqueued(q)
      BY <2>1 DEF NoJobIsForgotten
    <3>2. QED
      BY <2>1, <2>2, <2>3, <3>1
  <2>6. QED
    BY <2>4, <2>5
<1>6. ASSUME NEW p \in Processes, Resume(p) PROVE JobsInv' /\ NoJobIsForgotten'
  <2>1. /\ pc[p] = "enqueue" /\ pc'[p] = "running" /\ next'[p] = 1
        /\ UNCHANGED <<committed, queued, own, announced, excused>>
        /\ \A q \in Processes \ {p} : pc'[q] = pc[q] /\ next'[q] = next[q]
    BY <1>6 DEF Resume, Goto, TypeOK
  <2>2. \A q \in Processes \ {p} : Unqueued(q)' = Unqueued(q)
    BY <1>6 DEF Resume, Unqueued, TypeOK
  <2>3. Unqueued(p) = {} /\ own[p] = {}
    <3>1. own[p] = {}
      BY <2>1 DEF JobsInv
    <3>2. Unqueued(p) = {}
      BY <1>6 DEF Resume, Unqueued, TypeOK
    <3>3. QED
      BY <3>1, <3>2
  <2>4. JobsInv'
    BY <2>1, <2>2, <2>3 DEF JobsInv
  <2>5. NoJobIsForgotten'
    BY <2>1, <2>2, <2>3 DEF NoJobIsForgotten
  <2>6. QED
    BY <2>4, <2>5
<1>7. ASSUME NEW p \in Processes, End(p) PROVE JobsInv' /\ NoJobIsForgotten'
  <2>1. Unqueued(p) = {}
    BY <1>7 DEF End, Unqueued, TypeOK
  <2>2. QED
    BY <1>7, <2>1, JobsForget DEF End
<1>8. ASSUME NEW p \in Processes, Fail(p) PROVE JobsInv' /\ NoJobIsForgotten'
  <2>1. pc[p] = "running" /\ UNCHANGED <<committed, queued, announced, excused>>
    BY <1>8 DEF Fail
  <2>2. Forget(p) \/ Rollback(p) \/ LogError(p)
    BY <1>8 DEF Fail, Raise
  <2>3. QED
    BY <2>1, <2>2, JobsForget, JobsLog
<1>9. ASSUME NEW p \in Processes, CommitFails(p) PROVE JobsInv' /\ NoJobIsForgotten'
  <2>1. UNCHANGED <<committed, queued, announced>> /\ excused' = excused \cup Unqueued(p)
    BY <1>9 DEF CommitFails
  <2>2. Forget(p) \/ Rollback(p) \/ LogError(p)
    BY <1>9 DEF CommitFails, Raise
  <2>3. QED
    BY <2>1, <2>2, JobsForget, JobsLog
<1>11. ASSUME NEW p \in Processes, Crash(p) PROVE JobsInv' /\ NoJobIsForgotten'
  BY <1>11, JobsForget DEF Crash
<1>12. ASSUME NEW p \in Processes, CommitNow(p) PROVE JobsInv' /\ NoJobIsForgotten'
  BY <1>3, <1>12 DEF CommitNow
<1>13. ASSUME NEW p \in Processes, Finish(p) PROVE JobsInv' /\ NoJobIsForgotten'
  <2>1. CASE CommitWrites(p, TRUE)
    BY <1>3, <1>13, <2>1 DEF Finish
  <2>2. CASE ~ CommitWrites(p, TRUE)
    BY <1>13, <2>2, JobsForget DEF Finish
  <2>3. QED
    BY <2>1, <2>2
<1>14. CASE UNCHANGED vars
  BY <1>14 DEF vars, JobsInv, NoJobIsForgotten, Unqueued
<1>15. QED
  BY <1>1, <1>2, <1>4, <1>10, <1>5, <1>6, <1>7, <1>8, <1>9, <1>11, <1>12, <1>13,
     <1>14 DEF Next, Process

\* Requests, batches and jobs, with every fault: the job of a committed write
\* is enqueued, or about to be, or a fault of the queue or a crash took it.
THEOREM NoneForgotten == Spec => []NoJobIsForgotten
<1>1. TypeOK /\ JobsInv /\ NoJobIsForgotten /\ [Next]_vars
        => (TypeOK /\ JobsInv /\ NoJobIsForgotten)'
  BY TypeStep, JobsStep
<1>2. QED
  BY <1>1, JobsInit, PTL DEF Spec

-----------------------------------------------------------------------------
(***************************************************************************)
(* What a request announces is committed: it ends with its first           *)
(* exception, whatever the batches and jobs beside it do.                  *)
(***************************************************************************)
\* The lists tell only of the process's own kind of writes; those of a request
\* only of committed writes and of the open transaction, and there is none
\* between COMMIT and the end of commit().
CommittedInv ==
    /\ \A p \in Processes : pc[p] = "idle" => events[p] = {} /\ Listed(p) = {}
    /\ \A p \in Processes : own[p] # {} => pc[p] = "running"
    /\ \A p \in Processes : events[p] \cap requested \subseteq own[p] \cup committed
    /\ \A p \in Processes : Listed(p) \cap requested \subseteq own[p] \cup committed
    /\ \A p \in Processes : kind[p] # "request" =>
            events[p] \cap requested = {} /\ Listed(p) \cap requested = {}
    /\ RequestsPublishCommitted
    /\ RequestsQueueCommitted

LEMMA CommittedInit == Init => CommittedInv
BY DEF Init, CommittedInv, Listed, RequestsPublishCommitted, RequestsQueueCommitted

\* A process whose lists at most shrink, outside a transaction.
LEMMA CommittedShrink ==
    ASSUME TypeOK, CommittedInv, NEW p \in Processes,
           \A q \in Processes \ {p} :
                /\ pc'[q] = pc[q] /\ own'[q] = own[q] /\ events'[q] = events[q]
                /\ Listed(q)' = Listed(q),
           own'[p] = {}, events'[p] \subseteq events[p], Listed(p)' \subseteq Listed(p),
           pc'[p] = "idle" => events'[p] = {} /\ Listed(p)' = {},
           kind[p] = "request" =>
                (events'[p] \cup Listed(p)') \cap requested \subseteq committed',
           committed \subseteq committed',
           published' \cap requested \subseteq committed',
           queued' \cap requested \subseteq committed',
           UNCHANGED <<kind, requested>>
    PROVE  CommittedInv'
<1>1. /\ \A q \in Processes : pc'[q] = "idle" => events'[q] = {} /\ Listed(q)' = {}
      /\ \A q \in Processes : own'[q] # {} => pc'[q] = "running"
      /\ \A q \in Processes : kind[q] # "request" =>
            events'[q] \cap requested = {} /\ Listed(q)' \cap requested = {}
  BY DEF CommittedInv
<1>2. \A q \in Processes \ {p} :
          /\ events'[q] \cap requested \subseteq own'[q] \cup committed'
          /\ Listed(q)' \cap requested \subseteq own'[q] \cup committed'
  BY DEF CommittedInv
<1>3. /\ events'[p] \cap requested \subseteq committed'
      /\ Listed(p)' \cap requested \subseteq committed'
  <2>1. CASE kind[p] = "request"
    BY <2>1
  <2>2. CASE kind[p] # "request"
    BY <1>1, <2>2
  <2>3. QED
    BY <2>1, <2>2
<1>4. QED
  BY <1>1, <1>2, <1>3 DEF CommittedInv, RequestsPublishCommitted, RequestsQueueCommitted

LEMMA CommittedForget ==
    ASSUME TypeOK, CommittedInv, NEW p \in Processes, Forget(p),
           UNCHANGED <<committed, published, queued, kind, requested>>
    PROVE  CommittedInv'
<1>1. \A q \in Processes \ {p} :
          /\ pc'[q] = pc[q] /\ own'[q] = own[q] /\ events'[q] = events[q]
          /\ Listed(q)' = Listed(q)
  BY DEF Forget, Goto, TypeOK, Listed
<1>2. own'[p] = {} /\ events'[p] = {} /\ Listed(p)' = {}
  BY DEF Forget, TypeOK, Listed
<1>3. published \cap requested \subseteq committed /\ queued \cap requested \subseteq committed
  BY DEF CommittedInv, RequestsPublishCommitted, RequestsQueueCommitted
<1>4. QED
  BY <1>1, <1>2, <1>3, CommittedShrink

\* A ROLLBACK in a process that is not a request.
LEMMA CommittedRollback ==
    ASSUME TypeOK, CommittedInv, NEW p \in Processes, kind[p] # "request",
           own' = [own EXCEPT ![p] = {}],
           NEW s \in {"running", "publish"}, Goto(p, s),
           UNCHANGED <<committed, published, queued, kind, requested, events, jobs>>
    PROVE  CommittedInv'
<1>1. \A q \in Processes : Listed(q)' = Listed(q)
  BY DEF Listed
<1>2. \A q \in Processes \ {p} : pc'[q] = pc[q] /\ own'[q] = own[q]
  BY DEF Goto, TypeOK
<1>3. own'[p] = {} /\ pc'[p] # "idle"
  BY DEF Goto, TypeOK
<1>4. published \cap requested \subseteq committed /\ queued \cap requested \subseteq committed
  BY DEF CommittedInv, RequestsPublishCommitted, RequestsQueueCommitted
<1>5. QED
  BY <1>1, <1>2, <1>3, <1>4, CommittedShrink

LEMMA CommittedWrite ==
    ASSUME TypeOK, CommittedInv, NEW p \in Processes, NEW counts \in BOOLEAN,
           NEW announce \in SUBSET {"event", "job"}, Write(p, counts, announce)
    PROVE  CommittedInv'
<1>1. /\ pc[p] = "running"
      /\ UNCHANGED <<committed, published, queued, pc, kind>>
      /\ own'[p] = own[p] \cup {writes'}
      /\ events'[p] \subseteq events[p] \cup {writes'}
  BY DEF Write, TypeOK, db, out, local, history
<1>2. requested' = IF kind[p] = "request" THEN requested \cup {writes'} ELSE requested
  BY DEF Write
<1>3. \A q \in Processes \ {p} :
          own'[q] = own[q] /\ events'[q] = events[q] /\ Listed(q)' = Listed(q)
  BY DEF Write, TypeOK, Listed
<1>4. Listed(p)' \subseteq Listed(p) \cup {writes'}
  <2>1. jobs[p] \in Seq(1..writes)
    BY DEF TypeOK
  <2>2. CASE jobs'[p] = Append(jobs[p], writes')
    <3>1. /\ Len(jobs'[p]) = Len(jobs[p]) + 1 /\ Len(jobs[p]) \in Nat
          /\ \A i \in 1..Len(jobs[p]) : jobs'[p][i] = jobs[p][i]
          /\ jobs'[p][Len(jobs[p]) + 1] = writes'
      BY <2>1, <2>2
    <3>2. QED
      BY <3>1 DEF Listed
  <2>3. CASE jobs'[p] = jobs[p]
    BY <2>3 DEF Listed
  <2>4. QED
    BY <2>2, <2>3 DEF Write, TypeOK
<1>5. /\ \A q \in Processes : events[q] \subseteq 1..writes /\ Listed(q) \subseteq 1..writes
      /\ published \subseteq 1..writes /\ queued \subseteq 1..writes
      /\ requested \subseteq 1..writes /\ writes' \notin 1..writes
  BY ListedType DEF TypeOK, Write
<1>6. \A S \in SUBSET (1..writes) : S \cap requested' = S \cap requested
  BY <1>2, <1>5
<1>7. /\ \A q \in Processes : own'[q] # {} => pc'[q] = "running"
      /\ \A q \in Processes : pc'[q] = "idle" => events'[q] = {} /\ Listed(q)' = {}
      /\ RequestsPublishCommitted' /\ RequestsQueueCommitted'
  BY <1>1, <1>3, <1>5, <1>6
     DEF CommittedInv, RequestsPublishCommitted, RequestsQueueCommitted
<1>8. \A q \in Processes \ {p} :
          /\ events'[q] \cap requested' = events[q] \cap requested
          /\ Listed(q)' \cap requested' = Listed(q) \cap requested
  BY <1>3, <1>5, <1>6
<1>9. /\ events'[p] \cap requested' \subseteq (events[p] \cap requested) \cup {writes'}
      /\ Listed(p)' \cap requested' \subseteq (Listed(p) \cap requested) \cup {writes'}
  BY <1>1, <1>2, <1>4
<1>10. kind[p] # "request" =>
          events'[p] \cap requested' = {} /\ Listed(p)' \cap requested' = {}
  <2>1. kind[p] # "request" => writes' \notin requested'
    BY <1>2, <1>5
  <2>2. QED
    BY <1>9, <2>1 DEF CommittedInv
<1>11. QED
  BY <1>1, <1>3, <1>7, <1>8, <1>9, <1>10 DEF CommittedInv

LEMMA CommittedStep ==
    ASSUME TypeOK, CommittedInv, [Next]_vars
    PROVE  CommittedInv'
<1> USE DEF db, out, local, history
<1>0. published \cap requested \subseteq committed /\ queued \cap requested \subseteq committed
  BY DEF CommittedInv, RequestsPublishCommitted, RequestsQueueCommitted
<1>1. ASSUME NEW p \in Processes, NEW k \in Kinds, Begin(p, k) PROVE CommittedInv'
  <2>1. /\ UNCHANGED <<committed, published, queued, own, events, jobs, requested>>
        /\ pc[p] = "idle" /\ pc'[p] = "running"
        /\ \A q \in Processes \ {p} : pc'[q] = pc[q] /\ kind'[q] = kind[q]
    BY <1>1 DEF Begin, Goto, TypeOK
  <2>2. \A q \in Processes : Listed(q)' = Listed(q)
    BY <2>1 DEF Listed
  <2>3. events[p] = {} /\ Listed(p) = {} /\ own[p] = {}
    BY <2>1 DEF CommittedInv
  <2>4. QED
    BY <2>1, <2>2, <2>3
       DEF CommittedInv, RequestsPublishCommitted, RequestsQueueCommitted
<1>2. ASSUME NEW p \in Processes, NEW counts \in BOOLEAN,
             NEW announce \in SUBSET {"event", "job"}, Write(p, counts, announce)
      PROVE  CommittedInv'
  BY <1>2, CommittedWrite
<1>3. ASSUME NEW p \in Processes, NEW final \in BOOLEAN, pc[p] = "running",
             CommitWrites(p, final)
      PROVE  CommittedInv'
  <2>1. /\ committed' = committed \cup own[p]
        /\ UNCHANGED <<published, queued, kind, events, jobs, requested>>
        /\ own'[p] = {} /\ pc'[p] = "publish"
        /\ \A q \in Processes \ {p} : own'[q] = own[q] /\ pc'[q] = pc[q]
    BY <1>3 DEF CommitWrites, Goto, TypeOK
  <2>2. \A q \in Processes : Listed(q)' = Listed(q)
    BY <2>1 DEF Listed
  <2>3. (events[p] \cup Listed(p)) \cap requested \subseteq committed'
    BY <2>1 DEF CommittedInv
  <2>4. QED
    BY <1>0, <2>1, <2>2, <2>3, CommittedShrink
<1>4. ASSUME NEW p \in Processes, Flushed(p) \/ \E w \in events[p] : Publish(p, w)
      PROVE  CommittedInv'
  <2>1. /\ UNCHANGED <<committed, queued, kind, own, jobs, requested>>
        /\ pc[p] = "publish" /\ pc'[p] \in {"publish", "enqueue"}
        /\ published' \subseteq published \cup events[p] /\ events'[p] \subseteq events[p]
        /\ \A q \in Processes \ {p} : pc'[q] = pc[q] /\ events'[q] = events[q]
    BY <1>4 DEF Publish, Flushed, Goto, TypeOK
  <2>2. \A q \in Processes : Listed(q)' = Listed(q)
    BY <2>1 DEF Listed
  <2>3. own[p] = {}
    BY <2>1 DEF CommittedInv
  <2>4. events[p] \cap requested \subseteq committed
        /\ Listed(p) \cap requested \subseteq committed
    BY <2>3 DEF CommittedInv
  <2>5. QED
    BY <1>0, <2>1, <2>2, <2>3, <2>4, CommittedShrink
<1>5. ASSUME NEW p \in Processes, EnqueueJob(p) PROVE CommittedInv'
  <2>1. /\ UNCHANGED <<committed, published, kind, own, events, jobs, pc, requested>>
        /\ pc[p] = "enqueue" /\ queued' = queued \cup {jobs[p][next[p]]}
    BY <1>5 DEF EnqueueJob, TypeOK
  <2>2. \A q \in Processes : Listed(q)' = Listed(q)
    BY <2>1 DEF Listed
  <2>3. jobs[p][next[p]] \in Listed(p)
    <3>1. next[p] \in 1..Len(jobs[p])
      BY <1>5 DEF EnqueueJob, TypeOK
    <3>2. QED
      BY <3>1 DEF Listed
  <2>4. own[p] = {}
    BY <2>1 DEF CommittedInv
  <2>5. events[p] \cap requested \subseteq committed
        /\ Listed(p) \cap requested \subseteq committed
    BY <2>4 DEF CommittedInv
  <2>6. QED
    BY <1>0, <2>1, <2>2, <2>3, <2>4, <2>5, CommittedShrink
<1>6. ASSUME NEW p \in Processes, Resume(p) PROVE CommittedInv'
  <2>1. UNCHANGED <<committed, published, queued, kind, own, events, requested>>
        /\ own[p] = {}
    BY <1>6 DEF Resume, CommittedInv
  <2>2. Listed(p)' = {} /\ pc'[p] = "running"
    BY <1>6 DEF Resume, Goto, TypeOK, Listed
  <2>3. \A q \in Processes \ {p} : pc'[q] = pc[q] /\ Listed(q)' = Listed(q)
    BY <1>6 DEF Resume, Goto, TypeOK, Listed
  <2>4. events[p] \cap requested \subseteq committed
    BY <2>1 DEF CommittedInv
  <2>5. QED
    BY <1>0, <2>1, <2>2, <2>3, <2>4, CommittedShrink
<1>7. ASSUME NEW p \in Processes,
             End(p) \/ Fail(p) \/ CommitFails(p) \/ Crash(p)
      PROVE  CommittedInv'
  <2>1. UNCHANGED <<committed, published, queued, kind, requested>>
    BY <1>7 DEF End, Fail, CommitFails, Crash
  <2>2. Forget(p) \/ (kind[p] # "request" /\ (Rollback(p) \/ LogError(p)))
    BY <1>7 DEF End, Fail, CommitFails, Crash, Raise
  <2>3. QED
    BY <2>1, <2>2, CommittedForget, CommittedRollback DEF Rollback, LogError
<1>9. ASSUME NEW p \in Processes, CommitNow(p) \/ Finish(p) PROVE CommittedInv'
  <2>1. CASE \E final \in BOOLEAN : CommitWrites(p, final)
    BY <1>3, <1>9, <2>1 DEF CommitNow, Finish
  <2>2. CASE Forget(p) /\ UNCHANGED <<db, out, kind, last, history>>
    BY <2>2, CommittedForget
  <2>3. QED
    BY <1>9, <2>1, <2>2 DEF CommitNow, Finish
<1>10. CASE UNCHANGED vars
  <2>1. UNCHANGED <<committed, published, queued, kind, pc, own, events, jobs, requested>>
    BY <1>10 DEF vars
  <2>2. \A q \in Processes : Listed(q)' = Listed(q)
    BY <2>1 DEF Listed
  <2>3. QED
    BY <2>1, <2>2 DEF CommittedInv, RequestsPublishCommitted, RequestsQueueCommitted
<1>11. QED
  BY <1>1, <1>2, <1>4, <1>5, <1>6, <1>7, <1>9, <1>10 DEF Next, Process

\* A request that catches no exception publishes nothing that is not
\* committed, beside any other processes and with every fault ...
THEOREM PublishedCommitted == Spec => []RequestsPublishCommitted
<1>1. TypeOK /\ CommittedInv /\ [Next]_vars => (TypeOK /\ CommittedInv)'
  BY TypeStep, CommittedStep
<1>2. CommittedInv => RequestsPublishCommitted
  BY DEF CommittedInv
<1>3. QED
  BY <1>1, <1>2, TypeInit, CommittedInit, PTL DEF Spec

\* ... and enqueues no job for it.
THEOREM QueuedCommitted == Spec => []RequestsQueueCommitted
<1>1. TypeOK /\ CommittedInv /\ [Next]_vars => (TypeOK /\ CommittedInv)'
  BY TypeStep, CommittedStep
<1>2. CommittedInv => RequestsQueueCommitted
  BY DEF CommittedInv
<1>3. QED
  BY <1>1, <1>2, TypeInit, CommittedInit, PTL DEF Spec

-----------------------------------------------------------------------------
(***************************************************************************)
(* No job is enqueued twice, unless a commit() that listed it has raised,  *)
(* and then not that of a request.                                         *)
(***************************************************************************)

\* The lists name each write once, and what is still to be enqueued was not
\* enqueued before, unless commit() has raised and starts again from the first.
OnceInv ==
    /\ \A p \in Processes : pc[p] = "idle" => Listed(p) = {}
    /\ \A p \in Processes : pc[p] # "enqueue" => next[p] = 1
    /\ \A p \in Processes : \A i, j \in 1..Len(jobs[p]) :
            jobs[p][i] = jobs[p][j] => i = j
    /\ \A p, q \in Processes : p # q => Listed(p) \cap Listed(q) = {}
    /\ \A p \in Processes : Unqueued(p) \cap queued \subseteq broken \ requested
    /\ OnlyRaisedCommitsRepeat

LEMMA OnceInit == Init => OnceInv
BY DEF Init, OnceInv, Listed, Unqueued, OnlyRaisedCommitsRepeat

\* What is left to enqueue is part of the list.
LEMMA UnqueuedListed ==
    ASSUME TypeOK, NEW p \in Processes PROVE Unqueued(p) \subseteq Listed(p)
<1>1. jobs[p] \in Seq(1..writes) /\ next[p] \in Nat \ {0}
  BY DEF TypeOK
<1>2. \A i \in next[p]..Len(jobs[p]) : i \in 1..Len(jobs[p])
  BY <1>1
<1>3. QED
  BY <1>2 DEF Unqueued, Listed

\* A process whose list is emptied.
LEMMA OnceForget ==
    ASSUME TypeOK, OnceInv, NEW p \in Processes,
           jobs' = [jobs EXCEPT ![p] = <<>>], next' = [next EXCEPT ![p] = 1],
           \A q \in Processes \ {p} : pc'[q] = pc[q],
           broken \subseteq broken', UNCHANGED <<queued, requested, repeated>>
    PROVE  OnceInv'
<1>1. \A q \in Processes \ {p} :
          jobs'[q] = jobs[q] /\ next'[q] = next[q]
          /\ Listed(q)' = Listed(q) /\ Unqueued(q)' = Unqueued(q)
  BY DEF TypeOK, Listed, Unqueued
<1>2. jobs'[p] = <<>> /\ next'[p] = 1
  BY DEF TypeOK
<1>3. Listed(p)' = {} /\ Unqueued(p)' = {}
  BY <1>2 DEF Listed, Unqueued
<1>4. /\ \A q \in Processes : pc'[q] = "idle" => Listed(q)' = {}
      /\ \A q \in Processes : pc'[q] # "enqueue" => next'[q] = 1
      /\ OnlyRaisedCommitsRepeat'
  BY <1>1, <1>2, <1>3 DEF OnceInv, OnlyRaisedCommitsRepeat
<1>5. \A q \in Processes : \A i, j \in 1..Len(jobs'[q]) :
          jobs'[q][i] = jobs'[q][j] => i = j
  <2>1. \A i, j \in 1..Len(jobs'[p]) : i = j
    BY <1>2
  <2>2. \A q \in Processes \ {p} : \A i, j \in 1..Len(jobs'[q]) :
            jobs'[q][i] = jobs'[q][j] => i = j
    BY <1>1 DEF OnceInv
  <2>3. QED
    BY <2>1, <2>2
<1>6. /\ \A q, r \in Processes : q # r => Listed(q)' \cap Listed(r)' = {}
      /\ \A q \in Processes : Unqueued(q)' \cap queued' \subseteq broken' \ requested'
  BY <1>1, <1>3 DEF OnceInv
<1>7. QED
  BY <1>4, <1>5, <1>6 DEF OnceInv

\* A process that leaves its list as it is, on its way to commit() or into it.
LEMMA OnceKeep ==
    ASSUME TypeOK, OnceInv, NEW p \in Processes, pc[p] # "enqueue",
           pc'[p] = "idle" => pc[p] = "idle",
           \A q \in Processes \ {p} : pc'[q] = pc[q],
           broken \ requested \subseteq broken' \ requested',
           UNCHANGED <<queued, jobs, next, repeated>>
    PROVE  OnceInv'
<1>1. \A q \in Processes : Listed(q)' = Listed(q) /\ Unqueued(q)' = Unqueued(q)
  BY DEF Listed, Unqueued
<1>2. QED
  BY <1>1 DEF OnceInv, OnlyRaisedCommitsRepeat

\* A process that starts again from its first job, after commit() has raised.
LEMMA OnceAgain ==
    ASSUME TypeOK, OnceInv, NEW p \in Processes, Listed(p) \cap requested = {},
           Rollback(p) \/ LogError(p), broken' = broken \cup Listed(p),
           UNCHANGED <<queued, requested, repeated>>
    PROVE  OnceInv'
<1>1. /\ UNCHANGED jobs /\ next'[p] = 1 /\ pc'[p] # "idle"
      /\ \A q \in Processes \ {p} : pc'[q] = pc[q] /\ next'[q] = next[q]
  BY DEF Rollback, LogError, Goto, TypeOK
<1>2. /\ \A q \in Processes : Listed(q)' = Listed(q)
      /\ \A q \in Processes \ {p} : Unqueued(q)' = Unqueued(q)
  BY <1>1 DEF Listed, Unqueued
<1>3. Unqueued(p)' = Listed(p)
  BY <1>1 DEF Listed, Unqueued
<1>4. Unqueued(p)' \subseteq broken' \ requested'
  BY <1>3
<1>5. /\ \A q \in Processes : pc'[q] = "idle" => Listed(q)' = {}
      /\ \A q \in Processes : pc'[q] # "enqueue" => next'[q] = 1
      /\ \A q \in Processes : Unqueued(q)' \cap queued' \subseteq broken' \ requested'
  BY <1>1, <1>2, <1>4 DEF OnceInv
<1>6. QED
  BY <1>1, <1>2, <1>5 DEF OnceInv, OnlyRaisedCommitsRepeat

LEMMA OnceWrite ==
    ASSUME TypeOK, OnceInv, NEW p \in Processes, NEW counts \in BOOLEAN,
           NEW announce \in SUBSET {"event", "job"}, Write(p, counts, announce)
    PROVE  OnceInv'
<1>1. /\ pc[p] = "running" /\ next[p] = 1 /\ jobs[p] \in Seq(1..writes)
      /\ writes' = writes + 1 /\ writes' \notin 1..writes
      /\ UNCHANGED <<queued, pc, next, broken, repeated>>
  BY DEF Write, OnceInv, TypeOK, db, out, local, history
<1>2. broken \ requested \subseteq broken' \ requested'
  <2>1. requested' \subseteq requested \cup {writes'} /\ broken \subseteq 1..writes
    BY DEF Write, TypeOK
  <2>2. QED
    BY <1>1, <2>1
<1>3. \A q \in Processes \ {p} :
          jobs'[q] = jobs[q] /\ Listed(q)' = Listed(q) /\ Unqueued(q)' = Unqueued(q)
  BY <1>1 DEF Write, TypeOK, Listed, Unqueued
<1>4. CASE "job" \notin announce
  <2>1. jobs' = jobs
    BY <1>4 DEF Write, TypeOK
  <2>2. QED
    BY <1>1, <1>2, <2>1, OnceKeep
<1>5. CASE "job" \in announce
  <2>1. jobs'[p] = Append(jobs[p], writes')
    BY <1>5 DEF Write, TypeOK
  <2>2. /\ Len(jobs'[p]) = Len(jobs[p]) + 1 /\ Len(jobs[p]) \in Nat
        /\ \A i \in 1..Len(jobs[p]) : jobs'[p][i] = jobs[p][i]
        /\ jobs'[p][Len(jobs[p]) + 1] = writes'
    BY <1>1, <2>1
  <2>3. Listed(p)' = Listed(p) \cup {writes'} /\ Unqueued(p)' = Listed(p)'
        /\ Unqueued(p) = Listed(p)
    BY <1>1, <2>2 DEF Listed, Unqueued
  <2>4. \A q \in Processes : writes' \notin Listed(q)
    BY <1>1, ListedType
  <2>5. writes' \notin queued
    BY <1>1 DEF TypeOK
  <2>6. \A i, j \in 1..Len(jobs'[p]) : jobs'[p][i] = jobs'[p][j] => i = j
    <3>1. \A i \in 1..Len(jobs[p]) : jobs[p][i] # writes'
      BY <2>4 DEF Listed
    <3>2. \A i \in 1..Len(jobs'[p]) : i = Len(jobs[p]) + 1 \/ i \in 1..Len(jobs[p])
      BY <2>2
    <3>3. QED
      BY <2>2, <3>1, <3>2 DEF OnceInv
  <2>7. \A q \in Processes : \A i, j \in 1..Len(jobs'[q]) :
            jobs'[q][i] = jobs'[q][j] => i = j
    BY <1>3, <2>6 DEF OnceInv
  <2>8. \A q, r \in Processes : q # r => Listed(q)' \cap Listed(r)' = {}
    BY <1>3, <2>3, <2>4 DEF OnceInv
  <2>9. \A q \in Processes : Unqueued(q)' \cap queued' \subseteq broken' \ requested'
    BY <1>1, <1>2, <1>3, <2>3, <2>5 DEF OnceInv
  <2>10. \A q \in Processes : pc'[q] = "idle" => Listed(q)' = {}
    BY <1>1, <1>3 DEF OnceInv
  <2>11. QED
    BY <1>1, <1>2, <2>7, <2>8, <2>9, <2>10 DEF OnceInv, OnlyRaisedCommitsRepeat
<1>6. QED
  BY <1>4, <1>5

LEMMA OnceStep ==
    ASSUME TypeOK, CommittedInv, OnceInv, [Next]_vars
    PROVE  OnceInv'
<1> USE DEF db, out, local, history
<1>1. ASSUME NEW p \in Processes, NEW k \in Kinds, Begin(p, k) PROVE OnceInv'
  <2>1. \A q \in Processes \ {p} : pc'[q] = pc[q]
    BY <1>1 DEF Begin, Goto, TypeOK
  <2>2. pc[p] = "idle" /\ UNCHANGED <<queued, jobs, next, requested, broken, repeated>>
    BY <1>1 DEF Begin
  <2>3. QED
    BY <2>1, <2>2, OnceKeep
<1>2. ASSUME NEW p \in Processes, NEW counts \in BOOLEAN,
             NEW announce \in SUBSET {"event", "job"}, Write(p, counts, announce)
      PROVE  OnceInv'
  BY <1>2, OnceWrite
<1>3. ASSUME NEW p \in Processes, NEW s \in {"running", "publish", "enqueue"},
             pc[p] # "enqueue", Goto(p, s),
             UNCHANGED <<queued, jobs, next, requested, broken, repeated>>
      PROVE  OnceInv'
  <2>1. /\ \A q \in Processes \ {p} : pc'[q] = pc[q]
        /\ pc'[p] # "idle"
    BY <1>3 DEF Goto, TypeOK
  <2>2. QED
    BY <1>3, <2>1, OnceKeep
<1>4. ASSUME NEW p \in Processes, Flushed(p) PROVE OnceInv'
  BY <1>3, <1>4 DEF Flushed
<1>5. ASSUME NEW p \in Processes, EnqueueJob(p) PROVE OnceInv'
  <2> DEFINE job == jobs[p][next[p]]
  <2>1. /\ pc[p] = "enqueue" /\ next[p] \in 1..Len(jobs[p]) /\ Len(jobs[p]) \in Nat
        /\ next[p] \in Nat /\ next'[p] = next[p] + 1
        /\ queued' = queued \cup {job} /\ repeated' = repeated \cup (queued \cap {job})
        /\ UNCHANGED <<pc, jobs, requested, broken>>
        /\ \A q \in Processes \ {p} : next'[q] = next[q]
    BY <1>5 DEF EnqueueJob, TypeOK
  <2>2. job \in Unqueued(p) /\ job \in Listed(p)
    BY <2>1 DEF Unqueued, Listed
  <2>3. \A q \in Processes : Listed(q)' = Listed(q)
    BY <2>1 DEF Listed
  <2>4. \A q \in Processes \ {p} : Unqueued(q)' = Unqueued(q) /\ job \notin Unqueued(q)
    <3>1. \A q \in Processes \ {p} : Unqueued(q)' = Unqueued(q)
      BY <2>1 DEF Unqueued
    <3>2. \A q \in Processes \ {p} : job \notin Listed(q)
      BY <2>2 DEF OnceInv
    <3>3. QED
      BY <3>1, <3>2, UnqueuedListed
  <2>5. Unqueued(p)' \subseteq Unqueued(p) /\ job \notin Unqueued(p)'
    <3>1. Unqueued(p)' = {jobs[p][i] : i \in (next[p] + 1)..Len(jobs[p])}
      BY <2>1 DEF Unqueued
    <3>2. \A i \in (next[p] + 1)..Len(jobs[p]) :
              i # next[p] /\ i \in 1..Len(jobs[p]) /\ i \in next[p]..Len(jobs[p])
      BY <2>1
    <3>3. \A i \in (next[p] + 1)..Len(jobs[p]) : jobs[p][i] # job
      BY <2>1, <3>2 DEF OnceInv
    <3>4. QED
      BY <3>1, <3>2, <3>3 DEF Unqueued
  <2>6. \A q \in Processes : Unqueued(q)' \cap queued' \subseteq broken' \ requested'
    BY <2>1, <2>4, <2>5 DEF OnceInv
  <2>7. repeated' \subseteq broken' \ requested'
    BY <2>1, <2>2 DEF OnceInv, OnlyRaisedCommitsRepeat
  <2>8. QED
    BY <2>1, <2>3, <2>6, <2>7 DEF OnceInv, OnlyRaisedCommitsRepeat
<1>6. ASSUME NEW p \in Processes, Resume(p) PROVE OnceInv'
  <2>1. \A q \in Processes \ {p} : pc'[q] = pc[q]
    BY <1>6 DEF Resume, Goto, TypeOK
  <2>2. QED
    BY <1>6, <2>1, OnceForget DEF Resume
<1>7. ASSUME NEW p \in Processes, Forget(p), broken \subseteq broken',
             UNCHANGED <<queued, requested, repeated>>
      PROVE  OnceInv'
  <2>1. \A q \in Processes \ {p} : pc'[q] = pc[q]
    BY <1>7 DEF Forget, Goto, TypeOK
  <2>2. QED
    BY <1>7, <2>1, OnceForget DEF Forget
<1>8. ASSUME NEW p \in Processes, End(p) \/ Crash(p) PROVE OnceInv'
  BY <1>7, <1>8 DEF End, Crash
<1>9. ASSUME NEW p \in Processes, Fail(p) PROVE OnceInv'
  <2>1. pc[p] = "running" /\ UNCHANGED <<queued, requested, broken, repeated>>
    BY <1>9 DEF Fail
  <2>2. CASE Forget(p)
    BY <1>7, <2>1, <2>2
  <2>3. CASE Rollback(p) \/ LogError(p)
    <3>1. next[p] = 1 /\ UNCHANGED jobs
      BY <2>1, <2>3 DEF OnceInv, Rollback, LogError
    <3>2. UNCHANGED next
      BY <2>3, <3>1 DEF Rollback, LogError, TypeOK
    <3>3. Goto(p, "running") \/ Goto(p, "publish")
      BY <2>3 DEF Rollback, LogError
    <3>4. QED
      BY <1>3, <2>1, <3>1, <3>2, <3>3
  <2>4. QED
    BY <1>9, <2>2, <2>3 DEF Fail, Raise
<1>10. ASSUME NEW p \in Processes, CommitFails(p) PROVE OnceInv'
  <2>1. UNCHANGED <<queued, requested, repeated>> /\ broken' = broken \cup Listed(p)
    BY <1>10 DEF CommitFails
  <2>2. Forget(p) \/ (kind[p] # "request" /\ (Rollback(p) \/ LogError(p)))
    BY <1>10 DEF CommitFails, Raise
  <2>3. kind[p] # "request" => Listed(p) \cap requested = {}
    BY DEF CommittedInv
  <2>4. QED
    BY <1>7, <2>1, <2>2, <2>3, OnceAgain
<1>11. ASSUME NEW p \in Processes, CommitNow(p) \/ Finish(p) PROVE OnceInv'
  <2>1. CASE \E final \in BOOLEAN : CommitWrites(p, final)
    BY <1>3, <1>11, <2>1 DEF CommitNow, Finish, CommitWrites
  <2>2. CASE Forget(p) /\ UNCHANGED <<db, out, kind, last, history>>
    BY <1>7, <2>2
  <2>3. QED
    BY <1>11, <2>1, <2>2 DEF CommitNow, Finish
<1>12. CASE UNCHANGED <<queued, pc, jobs, next, requested, broken, repeated>>
  <2>1. \A q \in Processes : Listed(q)' = Listed(q) /\ Unqueued(q)' = Unqueued(q)
    BY <1>12 DEF Listed, Unqueued
  <2>2. QED
    BY <1>12, <2>1 DEF OnceInv, OnlyRaisedCommitsRepeat
<1>13. QED
  BY <1>1, <1>2, <1>4, <1>5, <1>6, <1>8, <1>9, <1>10, <1>11, <1>12
  DEF Next, Process, Publish, vars

\* A job enqueued twice was in the list of a commit() that has raised, and its
\* write is a batch's or a job's, beside any other processes and whatever fails.
THEOREM EnqueuedOnce == Spec => []OnlyRaisedCommitsRepeat
<1>1. TypeOK /\ CommittedInv /\ OnceInv /\ [Next]_vars
        => (TypeOK /\ CommittedInv /\ OnceInv)'
  BY TypeStep, CommittedStep, OnceStep
<1>2. OnceInv => OnlyRaisedCommitsRepeat
  BY DEF OnceInv
<1>3. QED
  BY <1>1, <1>2, TypeInit, CommittedInit, OnceInit, PTL DEF Spec

-----------------------------------------------------------------------------
(***************************************************************************)
(* commit() is an outbox for the requests.                                 *)
(***************************************************************************)

\* A write is in one process, in its open transaction or its list.
Held(p) == own[p] \cup Listed(p)

\* What is open is neither committed nor lost, and the list of a request is that
\* of its open transaction: it ends with its first exception, so that no
\* rollback() leaves anything in it.
BoxInv ==
    /\ \A p, q \in Processes : p # q => Held(p) \cap Held(q) = {}
    /\ \A p \in Processes : own[p] \cap (committed \cup excused) = {}
    /\ \A p \in Processes : kind[p] # "request" => own[p] \cap requested = {}
    /\ \A p \in Processes : pc[p] = "running" /\ kind[p] = "request" =>
            Listed(p) \subseteq own[p] \cap announced

OutboxInv == TypeOK /\ JobsInv /\ NoJobIsForgotten /\ CommittedInv /\ OnceInv /\ BoxInv

LEMMA BoxInit == Init => BoxInv
BY DEF Init, BoxInv, Held, Listed

\* A process ends its transaction, and its list does not grow.
LEMMA BoxShrink ==
    ASSUME TypeOK, BoxInv, NEW p \in Processes,
           \A q \in Processes \ {p} :
                /\ pc'[q] = pc[q] /\ own'[q] = own[q] /\ kind'[q] = kind[q]
                /\ Listed(q)' = Listed(q)
                /\ own[q] \cap (committed' \cup excused') = {},
           own'[p] = {}, Listed(p)' \subseteq Listed(p),
           pc'[p] = "running" /\ kind'[p] = "request" => Listed(p)' = {},
           UNCHANGED <<requested, announced>>
    PROVE  BoxInv'
<1>1. \A q \in Processes \ {p} : Held(q)' = Held(q)
  BY DEF Held
<1>2. Held(p)' \subseteq Held(p)
  BY DEF Held
<1>3. \A q, r \in Processes : q # r => Held(q)' \cap Held(r)' = {}
  BY <1>1, <1>2 DEF BoxInv
<1>4. \A q \in Processes : own'[q] \cap (committed' \cup excused') = {}
  OBVIOUS
<1>5. \A q \in Processes : kind'[q] # "request" => own'[q] \cap requested = {}
  BY DEF BoxInv
<1>6. \A q \in Processes : pc'[q] = "running" /\ kind'[q] = "request" =>
          Listed(q)' \subseteq own'[q] \cap announced
  BY DEF BoxInv
<1>7. QED
  BY <1>3, <1>4, <1>5, <1>6 DEF BoxInv

\* The transactions of the others are not committed or lost with that of p.
LEMMA OthersStay ==
    ASSUME TypeOK, BoxInv, NEW p \in Processes,
           committed' \cup excused' \subseteq committed \cup excused \cup Held(p)
    PROVE  \A q \in Processes \ {p} : own[q] \cap (committed' \cup excused') = {}
BY DEF BoxInv, Held

LEMMA BoxForget ==
    ASSUME TypeOK, BoxInv, NEW p \in Processes,
           Forget(p) \/ ((Rollback(p) \/ LogError(p)) /\ kind[p] # "request"),
           excused' \subseteq excused \cup Unqueued(p),
           UNCHANGED <<committed, kind, requested, announced>>
    PROVE  BoxInv'
<1>1. \A q \in Processes \ {p} :
          pc'[q] = pc[q] /\ own'[q] = own[q] /\ Listed(q)' = Listed(q)
  BY DEF Forget, Rollback, LogError, Goto, TypeOK, Listed
<1>2. own'[p] = {}
  BY DEF Forget, Rollback, LogError, TypeOK
<1>3. Listed(p)' = {} \/ (kind[p] # "request" /\ Listed(p)' = Listed(p))
  BY DEF Forget, Rollback, LogError, TypeOK, Listed
<1>4. committed' \cup excused' \subseteq committed \cup excused \cup Held(p)
  BY UnqueuedListed DEF Held
<1>5. QED
  BY <1>1, <1>2, <1>3, <1>4, OthersStay, BoxShrink

\* What a write adds to the list of its process.
LEMMA WriteLists ==
    ASSUME TypeOK, NEW p \in Processes, NEW counts \in BOOLEAN,
           NEW announce \in SUBSET {"event", "job"}, Write(p, counts, announce)
    PROVE  /\ Listed(p)' \subseteq Listed(p) \cup (announced' \cap {writes'})
           /\ \A q \in Processes \ {p} : Listed(q)' = Listed(q)
<1>1. \A q \in Processes \ {p} : Listed(q)' = Listed(q)
  BY DEF Write, TypeOK, Listed
<1>2. CASE "job" \in announce
  <2>1. jobs[p] \in Seq(1..writes) /\ jobs'[p] = Append(jobs[p], writes')
    BY <1>2 DEF Write, TypeOK
  <2>2. /\ Len(jobs'[p]) = Len(jobs[p]) + 1 /\ Len(jobs[p]) \in Nat
        /\ \A i \in 1..Len(jobs[p]) : jobs'[p][i] = jobs[p][i]
        /\ jobs'[p][Len(jobs[p]) + 1] = writes'
    BY <2>1
  <2>3. Listed(p)' \subseteq Listed(p) \cup {writes'}
    BY <2>2 DEF Listed
  <2>4. writes' \in announced'
    BY <1>2 DEF Write
  <2>5. QED
    BY <1>1, <2>3, <2>4
<1>3. CASE "job" \notin announce
  <2>1. jobs' = jobs
    BY <1>3 DEF Write, TypeOK
  <2>2. QED
    BY <1>1, <2>1 DEF Listed
<1>4. QED
  BY <1>2, <1>3

LEMMA BoxWrite ==
    ASSUME TypeOK, BoxInv, NEW p \in Processes, NEW counts \in BOOLEAN,
           NEW announce \in SUBSET {"event", "job"}, Write(p, counts, announce)
    PROVE  BoxInv'
<1>1. /\ pc[p] = "running" /\ writes' \notin 1..writes
      /\ UNCHANGED <<committed, pc, kind, excused>>
      /\ own'[p] = own[p] \cup {writes'}
      /\ \A q \in Processes \ {p} : own'[q] = own[q]
      /\ announced \subseteq announced'
      /\ requested' = IF kind[p] = "request" THEN requested \cup {writes'} ELSE requested
  BY DEF Write, TypeOK, db, out, local, history
<1>2. /\ \A q \in Processes : Held(q) \subseteq 1..writes
      /\ committed \cup excused \cup requested \subseteq 1..writes
  BY ListedType DEF TypeOK, Held
<1>3. Listed(p)' \subseteq Listed(p) \cup (announced' \cap {writes'})
      /\ \A q \in Processes \ {p} : Listed(q)' = Listed(q)
  BY WriteLists
<1>4. Held(p)' \subseteq Held(p) \cup {writes'} /\ \A q \in Processes \ {p} : Held(q)' = Held(q)
  BY <1>1, <1>3 DEF Held
<1>5. \A q, r \in Processes : q # r => Held(q)' \cap Held(r)' = {}
  BY <1>1, <1>2, <1>4 DEF BoxInv
<1>6. \A q \in Processes : own'[q] \cap (committed' \cup excused') = {}
  BY <1>1, <1>2 DEF BoxInv
<1>7. \A q \in Processes : kind'[q] # "request" => own'[q] \cap requested' = {}
  <2>1. \A q \in Processes : own[q] \subseteq 1..writes
    BY DEF TypeOK
  <2>2. QED
    BY <1>1, <1>2, <2>1 DEF BoxInv
<1>8. \A q \in Processes : pc'[q] = "running" /\ kind'[q] = "request" =>
          Listed(q)' \subseteq own'[q] \cap announced'
  BY <1>1, <1>3 DEF BoxInv
<1>9. QED
  BY <1>5, <1>6, <1>7, <1>8 DEF BoxInv

LEMMA BoxStep ==
    ASSUME TypeOK, CommittedInv, BoxInv, [Next]_vars
    PROVE  BoxInv'
<1> USE DEF db, out, local, history
<1>1. ASSUME NEW p \in Processes, NEW k \in Kinds, Begin(p, k) PROVE BoxInv'
  <2>1. /\ UNCHANGED <<committed, own, jobs, requested, announced, excused>>
        /\ pc[p] = "idle"
        /\ \A q \in Processes \ {p} : pc'[q] = pc[q] /\ kind'[q] = kind[q]
    BY <1>1 DEF Begin, Goto, TypeOK
  <2>2. \A q \in Processes : Listed(q)' = Listed(q)
    BY <2>1 DEF Listed
  <2>3. own[p] = {} /\ Listed(p) = {}
    BY <2>1 DEF CommittedInv
  <2>4. \A q \in Processes \ {p} : own[q] \cap (committed' \cup excused') = {}
    BY <2>1, OthersStay
  <2>5. QED
    BY <2>1, <2>2, <2>3, <2>4, BoxShrink
<1>2. ASSUME NEW p \in Processes, NEW final \in BOOLEAN, CommitWrites(p, final)
      PROVE  BoxInv'
  <2>1. /\ committed' = committed \cup own[p]
        /\ UNCHANGED <<kind, jobs, requested, announced, excused>>
        /\ own'[p] = {} /\ pc'[p] = "publish"
        /\ \A q \in Processes \ {p} : own'[q] = own[q] /\ pc'[q] = pc[q]
    BY <1>2 DEF CommitWrites, Goto, TypeOK
  <2>2. \A q \in Processes : Listed(q)' = Listed(q)
    BY <2>1 DEF Listed
  <2>3. \A q \in Processes \ {p} : own[q] \cap (committed' \cup excused') = {}
    BY <2>1, OthersStay DEF Held
  <2>4. QED
    BY <2>1, <2>2, <2>3, BoxShrink
<1>3. ASSUME NEW p \in Processes, Flushed(p) \/ EnqueueJob(p) \/ Resume(p) PROVE BoxInv'
  <2>1. /\ UNCHANGED <<committed, kind, own, requested, announced, excused>>
        /\ pc[p] # "running"
        /\ \A q \in Processes \ {p} : pc'[q] = pc[q]
    BY <1>3 DEF Flushed, EnqueueJob, Resume, Goto, TypeOK
  <2>2. \A q \in Processes \ {p} : Listed(q)' = Listed(q)
    BY <1>3 DEF Flushed, EnqueueJob, Resume, TypeOK, Listed
  <2>3. own[p] = {}
    BY <2>1 DEF CommittedInv
  <2>4. Listed(p)' = {} \/ (Listed(p)' = Listed(p) /\ pc'[p] = "enqueue")
    BY <1>3 DEF Flushed, EnqueueJob, Resume, Goto, TypeOK, Listed
  <2>5. \A q \in Processes \ {p} : own[q] \cap (committed' \cup excused') = {}
    BY <2>1, OthersStay
  <2>6. QED
    BY <2>1, <2>2, <2>3, <2>4, <2>5, BoxShrink
<1>4. ASSUME NEW p \in Processes, End(p) \/ Fail(p) \/ CommitFails(p) \/ Crash(p)
      PROVE  BoxInv'
  <2>1. UNCHANGED <<committed, kind, requested, announced>>
        /\ excused' \subseteq excused \cup Unqueued(p)
    BY <1>4 DEF End, Fail, CommitFails, Crash
  <2>2. Forget(p) \/ (kind[p] # "request" /\ (Rollback(p) \/ LogError(p)))
    BY <1>4 DEF End, Fail, CommitFails, Crash, Raise
  <2>3. QED
    BY <2>1, <2>2, BoxForget
<1>6. ASSUME NEW p \in Processes, CommitNow(p) \/ Finish(p) PROVE BoxInv'
  <2>1. CASE \E final \in BOOLEAN : CommitWrites(p, final)
    BY <1>2, <2>1
  <2>2. CASE Forget(p) /\ UNCHANGED <<db, out, kind, last, history>>
    BY <2>2, BoxForget
  <2>3. QED
    BY <1>6, <2>1, <2>2 DEF CommitNow, Finish
<1>7. CASE UNCHANGED <<committed, kind, pc, own, jobs, requested, announced, excused>>
  <2>1. \A q \in Processes : Listed(q)' = Listed(q) /\ Held(q)' = Held(q)
    BY <1>7 DEF Listed, Held
  <2>2. QED
    BY <1>7, <2>1 DEF BoxInv
<1>8. QED
  BY <1>1, <1>3, <1>4, <1>6, <1>7, BoxWrite DEF Next, Process, Publish, vars

LEMMA OutboxStep == OutboxInv /\ [Next]_vars => OutboxInv'
  BY TypeStep, JobsStep, CommittedStep, OnceStep, BoxStep DEF OutboxInv

-----------------------------------------------------------------------------
\* What the other processes have left to enqueue.
Rest(p) == UNION {Left(q) : q \in Processes \ {p}}

LEMMA InBounds == TypeOK => 1..writes \subseteq 1..MaxWrites
BY AfterCommitAssumption DEF TypeOK

LEMMA WaitingIs ==
    ASSUME NEW p \in Processes
    PROVE  Waiting = (Rest(p) \cup Left(p)) \cap requested
BY DEF Waiting, Rest

LEMMA RestStays ==
    ASSUME NEW p \in Processes,
           \A q \in Processes \ {p} : pc'[q] = pc[q] /\ next'[q] = next[q] /\ jobs'[q] = jobs[q]
    PROVE  Rest(p)' = Rest(p)
<1>1. \A q \in Processes \ {p} : Left(q)' = Left(q)
  BY DEF Left, Unqueued
<1>2. QED
  BY <1>1 DEF Rest

\* A job is waiting once.
LEMMA RestIsOther ==
    ASSUME TypeOK, OnceInv, NEW p \in Processes
    PROVE  Rest(p) \cap Listed(p) = {}
<1>1. \A q \in Processes : Left(q) \subseteq Listed(q)
  BY UnqueuedListed DEF Left
<1>2. QED
  BY <1>1 DEF Rest, OnceInv

\* What happens to a process whose list is of no request, or is worked off.
LEMMA BoxSame ==
    ASSUME NEW p \in Processes,
           \A q \in Processes \ {p} : pc'[q] = pc[q] /\ next'[q] = next[q] /\ jobs'[q] = jobs[q],
           Left(p)' \cap requested = Left(p) \cap requested,
           UNCHANGED <<committed, published, queued, requested, announced>>,
           excused' \cap committed \cap requested = excused \cap committed \cap requested
    PROVE  UNCHANGED Box!vars
<1>1. Waiting' = (Rest(p)' \cup Left(p)') \cap requested'
  BY DEF Waiting, Rest
<1>2. Waiting' = Waiting
  BY <1>1, RestStays, WaitingIs
<1>3. QED
  BY <1>2 DEF Box!vars

LEMMA WriteAsks ==
    ASSUME OutboxInv, NEW p \in Processes, NEW counts \in BOOLEAN,
           NEW announce \in SUBSET {"event", "job"}, Write(p, counts, announce)
    PROVE  [Box!Next]_(Box!vars)
<1>0. writes' \in 1..MaxWrites /\ writes' \notin 1..writes
  BY AfterCommitAssumption DEF OutboxInv, Write, TypeOK
<1>1. /\ pc[p] = "running"
      /\ UNCHANGED <<committed, published, queued, pc, next, excused>>
      /\ \A q \in Processes \ {p} : jobs'[q] = jobs[q]
      /\ requested' \subseteq requested \cup {writes'} /\ requested \subseteq requested'
      /\ announced' \subseteq announced \cup {writes'} /\ announced \subseteq announced'
  BY DEF OutboxInv, Write, TypeOK, db, out, local, history
<1>2. committed \cup published \cup queued \cup excused \cup requested \cup announced \subseteq 1..writes
  BY DEF OutboxInv, TypeOK
<1>3. Left(p) = {} /\ Left(p)' = {}
  BY <1>1 DEF Left
<1>4. Rest(p) \subseteq 1..writes
  BY UnqueuedType DEF OutboxInv, Rest, Left
<1>5. Waiting' = Waiting
  <2>1. Waiting' = (Rest(p)' \cup Left(p)') \cap requested'
    BY DEF Waiting, Rest
  <2>2. QED
    BY <1>0, <1>1, <1>2, <1>3, <1>4, <2>1, RestStays, WaitingIs
<1>6. /\ committed' \cap requested' = committed \cap requested
      /\ queued' \cap requested' = queued \cap requested
      /\ published' \cap requested' = published \cap requested
      /\ excused' \cap committed' \cap requested' = excused \cap committed \cap requested
  BY <1>0, <1>1, <1>2
<1>7. CASE announced' \cap requested' = announced \cap requested
  BY <1>5, <1>6, <1>7 DEF Box!vars
<1>8. CASE announced' \cap requested' # announced \cap requested
  <2>1. announced' \cap requested' = (announced \cap requested) \cup {writes'}
    BY <1>0, <1>1, <1>2, <1>8
  <2>2. Box!Ask(writes')
    BY <1>0, <1>1, <1>2, <1>5, <1>6, <2>1 DEF Box!Ask
  <2>3. QED
    BY <1>0, <2>2 DEF Box!Next
<1>9. QED
  BY <1>7, <1>8

LEMMA CommitCommits ==
    ASSUME OutboxInv, NEW p \in Processes, NEW final \in BOOLEAN, pc[p] = "running",
           CommitWrites(p, final)
    PROVE  Box!Next
<1> DEFINE written == own[p] \cap requested
<1>1. /\ committed' = committed \cup own[p] /\ pc'[p] = "publish" /\ next[p] = 1
      /\ UNCHANGED <<published, queued, next, jobs, requested, announced, excused>>
      /\ \A q \in Processes \ {p} : pc'[q] = pc[q]
  BY DEF OutboxInv, CommitWrites, Goto, TypeOK, JobsInv, out, history
<1>2. Left(p) = {} /\ Left(p)' = Listed(p) /\ Unqueued(p) = Listed(p)
  BY <1>1 DEF Left, Unqueued, Listed
<1>3. Listed(p) \cap requested = written \cap announced
  <2>1. own[p] \cap announced \subseteq Listed(p)
    BY <1>2 DEF OutboxInv, JobsInv
  <2>2. CASE kind[p] = "request"
    BY <2>1, <2>2 DEF OutboxInv, BoxInv
  <2>3. CASE kind[p] # "request"
    BY <2>1, <2>3 DEF OutboxInv, CommittedInv
  <2>4. QED
    BY <2>2, <2>3
<1>4. Waiting' = Waiting \cup (written \cap (announced \cap requested))
  <2>1. Waiting' = (Rest(p)' \cup Left(p)') \cap requested'
    BY DEF Waiting, Rest
  <2>2. QED
    BY <1>1, <1>2, <1>3, <2>1, RestStays, WaitingIs
<1>5. /\ own[p] \cap committed = {} /\ own[p] \cap excused = {}
      /\ written \in SUBSET (1..MaxWrites)
  <2>1. written \subseteq 1..writes
    BY DEF OutboxInv, TypeOK
  <2>2. QED
    BY <2>1, InBounds DEF OutboxInv, BoxInv
<1>6. Box!Commit(written)
  BY <1>1, <1>4, <1>5 DEF Box!Commit
<1>7. QED
  BY <1>5, <1>6 DEF Box!Next

LEMMA PublishPublishes ==
    ASSUME OutboxInv, NEW p \in Processes, NEW w \in events[p], Publish(p, w)
    PROVE  Box!Next
<1> DEFINE told == {w} \cap requested
<1>1. /\ pc[p] = "publish" /\ published' = published \cup {w}
      /\ UNCHANGED <<committed, queued, pc, next, jobs, requested, announced, excused>>
  BY DEF Publish, db, local, history
<1>2. Waiting' = Waiting
  BY <1>1 DEF Waiting, Left, Unqueued
<1>3. told \subseteq committed /\ told \in SUBSET (1..MaxWrites)
  <2>1. own[p] = {} /\ w \in 1..writes
    BY <1>1 DEF OutboxInv, CommittedInv, TypeOK
  <2>2. QED
    BY <2>1, InBounds DEF OutboxInv, CommittedInv
<1>4. Box!Publish(told)
  BY <1>1, <1>2, <1>3 DEF Box!Publish
<1>5. QED
  BY <1>3, <1>4 DEF Box!Next

\* The events are through: the jobs wait as before.
LEMMA FlushedStutters ==
    ASSUME OutboxInv, NEW p \in Processes, Flushed(p)
    PROVE  UNCHANGED Box!vars
<1>1. /\ pc[p] = "publish" /\ pc'[p] = "enqueue"
      /\ UNCHANGED <<committed, published, queued, next, jobs, requested, announced, excused>>
      /\ \A q \in Processes \ {p} : pc'[q] = pc[q]
  BY DEF OutboxInv, Flushed, Goto, TypeOK, db, out, history
<1>2. Left(p)' = Left(p)
  BY <1>1 DEF Left, Unqueued
<1>3. QED
  BY <1>1, <1>2, BoxSame

LEMMA EnqueueRelays ==
    ASSUME OutboxInv, NEW p \in Processes, EnqueueJob(p)
    PROVE  [Box!Next]_(Box!vars)
<1> DEFINE job == jobs[p][next[p]]
<1>1. /\ pc[p] = "enqueue" /\ next[p] \in 1..Len(jobs[p]) /\ Len(jobs[p]) \in Nat
      /\ next'[p] = next[p] + 1 /\ queued' = queued \cup {job}
      /\ UNCHANGED <<committed, published, pc, jobs, requested, announced, excused>>
      /\ \A q \in Processes \ {p} : next'[q] = next[q]
  BY DEF OutboxInv, EnqueueJob, TypeOK, db
<1>2. job \in Listed(p) /\ job \in Left(p) /\ job \in 1..MaxWrites
  <2>1. job \in Listed(p) /\ job \in Unqueued(p)
    BY <1>1 DEF Listed, Unqueued
  <2>2. job \in 1..MaxWrites
    BY <2>1, ListedType, InBounds DEF OutboxInv
  <2>3. QED
    BY <1>1, <2>1, <2>2 DEF Left
<1>3. Left(p)' = Left(p) \ {job}
  <2>1. Left(p) = {jobs[p][i] : i \in next[p]..Len(jobs[p])}
    BY <1>1 DEF Left, Unqueued
  <2>2. Left(p)' = {jobs[p][i] : i \in (next[p] + 1)..Len(jobs[p])}
    BY <1>1 DEF Left, Unqueued
  <2>3. \A i \in (next[p] + 1)..Len(jobs[p]) : jobs[p][i] # job
    BY <1>1 DEF OutboxInv, OnceInv
  <2>4. \A i \in next[p]..Len(jobs[p]) : i = next[p] \/ i \in (next[p] + 1)..Len(jobs[p])
    BY <1>1
  <2>5. \A i \in (next[p] + 1)..Len(jobs[p]) : i \in next[p]..Len(jobs[p])
    BY <1>1
  <2>6. QED
    BY <2>1, <2>2, <2>3, <2>4, <2>5
<1>4. Waiting' = Waiting \ {job}
  <2>1. Waiting' = (Rest(p)' \cup Left(p)') \cap requested'
    BY DEF Waiting, Rest
  <2>2. job \notin Rest(p)
    BY <1>2, RestIsOther DEF OutboxInv
  <2>3. QED
    BY <1>1, <1>3, <2>1, <2>2, RestStays, WaitingIs
<1>5. CASE job \in requested
  <2>1. job \in Waiting
    BY <1>2, <1>5, WaitingIs
  <2>2. Box!Relay(job)
    BY <1>1, <1>4, <1>5, <2>1 DEF Box!Relay
  <2>3. QED
    BY <1>2, <2>2 DEF Box!Next
<1>6. CASE job \notin requested
  <2>1. job \notin Waiting
    BY <1>6, WaitingIs
  <2>2. QED
    BY <1>1, <1>4, <1>6, <2>1 DEF Box!vars
<1>7. QED
  BY <1>5, <1>6

\* A Redis fails, or the process is killed.
LEMMA FaultLoses ==
    ASSUME OutboxInv, NEW p \in Processes, CommitFails(p) \/ Crash(p)
    PROVE  [Box!Next]_(Box!vars)
<1> DEFINE some == Left(p) \cap requested
<1>1. /\ excused' = excused \cup Unqueued(p)
      /\ UNCHANGED <<committed, published, queued, requested, announced>>
  BY DEF CommitFails, Crash, db, out
<1>2. \A q \in Processes \ {p} : pc'[q] = pc[q] /\ next'[q] = next[q] /\ jobs'[q] = jobs[q]
  BY DEF OutboxInv, CommitFails, Crash, Raise, Forget, Rollback, LogError, Goto, TypeOK
<1>3. Left(p)' \cap requested = {}
  <2>1. CASE Forget(p)
    BY <2>1 DEF Forget, Goto, OutboxInv, TypeOK, Left
  <2>2. CASE ~ Forget(p)
    <3>1. kind[p] # "request" /\ UNCHANGED jobs /\ next'[p] = 1
      BY <2>2 DEF CommitFails, Crash, Raise, Rollback, LogError, OutboxInv, TypeOK
    <3>2. Left(p)' \subseteq Listed(p)
      BY <3>1 DEF Left, Unqueued, Listed
    <3>3. QED
      BY <3>1, <3>2 DEF OutboxInv, CommittedInv
  <2>3. QED
    BY <2>1, <2>2
<1>4. CASE pc[p] \in {"publish", "enqueue"}
  <2>1. Left(p) = Unqueued(p) /\ Unqueued(p) \subseteq Listed(p) /\ own[p] = {}
    BY <1>4, UnqueuedListed DEF Left, OutboxInv, CommittedInv
  <2>2. some \subseteq committed
    BY <2>1 DEF OutboxInv, CommittedInv
  <2>3. Waiting' = Waiting \ some
    <3>1. Waiting' = (Rest(p)' \cup Left(p)') \cap requested'
      BY DEF Waiting, Rest
    <3>2. Rest(p) \cap Left(p) = {}
      BY <2>1, RestIsOther DEF OutboxInv
    <3>3. QED
      BY <1>1, <1>2, <1>3, <3>1, <3>2, RestStays, WaitingIs
  <2>4. some \subseteq Waiting /\ some \in SUBSET (1..MaxWrites)
    BY <2>1, WaitingIs, ListedType, InBounds DEF OutboxInv
  <2>5. Box!Lose(some)
    BY <1>1, <2>1, <2>2, <2>3, <2>4 DEF Box!Lose
  <2>6. QED
    BY <2>4, <2>5 DEF Box!Next
<1>5. CASE pc[p] = "running"
  <2>1. Left(p) = {} /\ Unqueued(p) \subseteq Listed(p)
    BY <1>5, UnqueuedListed DEF Left, OutboxInv
  <2>2. Unqueued(p) \cap committed \cap requested = {}
    <3>1. CASE kind[p] = "request"
      BY <1>5, <2>1, <3>1 DEF OutboxInv, BoxInv
    <3>2. CASE kind[p] # "request"
      BY <2>1, <3>2 DEF OutboxInv, CommittedInv
    <3>3. QED
      BY <3>1, <3>2
  <2>3. Left(p)' \cap requested = Left(p) \cap requested
    BY <1>3, <2>1
  <2>4. QED
    BY <1>1, <1>2, <2>2, <2>3, BoxSame
<1>6. QED
  BY <1>4, <1>5 DEF OutboxInv, CommitFails, Crash, TypeOK

LEMMA StepsBox ==
    ASSUME OutboxInv, [Next]_vars
    PROVE  [Box!Next]_(Box!vars)
<1> USE DEF db, out, local, history
<1>1. ASSUME NEW p \in Processes, pc'[p] \in {"idle", "running"},
             Left(p) = {},
             \A q \in Processes \ {p} : pc'[q] = pc[q] /\ next'[q] = next[q] /\ jobs'[q] = jobs[q],
             UNCHANGED <<committed, published, queued, requested, announced, excused>>
      PROVE  UNCHANGED Box!vars
  <2>1. Left(p)' = {}
    BY <1>1 DEF Left
  <2>2. QED
    BY <1>1, <2>1, BoxSame
<1>2. ASSUME NEW p \in Processes, NEW k \in Kinds, Begin(p, k) PROVE UNCHANGED Box!vars
  BY <1>1, <1>2 DEF Begin, Goto, OutboxInv, TypeOK, Left
<1>3. ASSUME NEW p \in Processes, Resume(p) \/ End(p) PROVE UNCHANGED Box!vars
  <2>1. Left(p) = {}
    BY <1>3 DEF Resume, End, OutboxInv, TypeOK, Left, Unqueued
  <2>2. QED
    BY <1>1, <1>3, <2>1 DEF Resume, End, Forget, Goto, OutboxInv, TypeOK
<1>4. ASSUME NEW p \in Processes, Fail(p) PROVE UNCHANGED Box!vars
  <2>1. pc[p] = "running" /\ Left(p) = {}
        /\ UNCHANGED <<committed, published, queued, requested, announced, excused>>
    BY <1>4 DEF Fail, Left
  <2>2. CASE ~ LogError(p)
    BY <1>1, <1>4, <2>1, <2>2 DEF Fail, Raise, Forget, Rollback, Goto, OutboxInv, TypeOK
  <2>3. CASE LogError(p)
    <3>1. /\ UNCHANGED jobs /\ next'[p] = 1
          /\ \A q \in Processes \ {p} : pc'[q] = pc[q] /\ next'[q] = next[q]
      BY <2>3 DEF LogError, Goto, OutboxInv, TypeOK
    <3>2. CASE kind[p] # "request"
      <4>1. Left(p)' \subseteq Listed(p)
        BY <3>1 DEF Left, Unqueued, Listed
      <4>2. Left(p)' \cap requested = {}
        BY <3>2, <4>1 DEF OutboxInv, CommittedInv
      <4>3. QED
        BY <2>1, <3>1, <4>2, BoxSame
    <3>3. CASE kind[p] = "request"
      BY <1>1, <1>4, <2>1, <3>1, <3>3
      DEF Fail, Raise, Forget, Goto, OutboxInv, TypeOK
    <3>4. QED
      BY <3>2, <3>3
  <2>4. QED
    BY <2>2, <2>3
<1>6. ASSUME NEW p \in Processes, CommitNow(p) \/ Finish(p) PROVE [Box!Next]_(Box!vars)
  <2>1. pc[p] = "running"
    BY <1>6 DEF CommitNow, Finish
  <2>2. CASE \E final \in BOOLEAN : CommitWrites(p, final)
    BY <2>1, <2>2, CommitCommits
  <2>3. CASE Forget(p) /\ UNCHANGED <<db, out, kind, last, history>>
    BY <1>1, <2>1, <2>3 DEF Forget, Goto, OutboxInv, TypeOK, Left
  <2>4. QED
    BY <1>6, <2>2, <2>3 DEF CommitNow, Finish
<1>7. CASE UNCHANGED vars
  <2>1. \A q \in Processes : Left(q)' = Left(q)
    BY <1>7 DEF vars, Left, Unqueued
  <2>2. Waiting' = Waiting
    BY <1>7, <2>1 DEF vars, Waiting
  <2>3. QED
    BY <1>7, <2>2 DEF vars, Box!vars
<1>8. QED
  BY <1>2, <1>3, <1>4, <1>6, <1>7, WriteAsks, PublishPublishes, FlushedStutters,
     EnqueueRelays, FaultLoses
     DEF Next, Process

\* AfterCommit implements Outbox for the requests: no step of commit(), of a
\* fault or of another process moves a job or an event but in the way the
\* outbox does.
THEOREM Implementation == Spec => ImplementsOutbox
<1>1. Init => OutboxInv
  BY TypeInit, JobsInit, CommittedInit, OnceInit, BoxInit DEF OutboxInv
<1>2. Init => Box!Init
  BY DEF Init, Box!Init, Waiting, Left
<1>3. OutboxInv /\ [Next]_vars => [Box!Next]_(Box!vars)
  BY StepsBox
<1>4. QED
  BY <1>1, <1>2, <1>3, OutboxStep, PTL DEF Spec, ImplementsOutbox, Box!Spec

-----------------------------------------------------------------------------
\* What an outbox does keeps each job in one place ...
LEMMA BoxKeeps == Box!OnePlace /\ [Box!Next]_(Box!vars) => Box!OnePlace'
<1> SUFFICES ASSUME Box!OnePlace, [Box!Next]_(Box!vars) PROVE Box!OnePlace'
  OBVIOUS
<1>1. ASSUME NEW w \in 1..MaxWrites, Box!Ask(w) PROVE Box!OnePlace'
  BY <1>1 DEF Box!Ask, Box!OnePlace
<1>2. ASSUME NEW w \in 1..MaxWrites, Box!Relay(w) PROVE Box!OnePlace'
  BY <1>2 DEF Box!Relay, Box!OnePlace
<1>3. ASSUME NEW some \in SUBSET (1..MaxWrites), Box!Commit(some) PROVE Box!OnePlace'
  BY <1>3 DEF Box!Commit, Box!OnePlace
<1>4. ASSUME NEW some \in SUBSET (1..MaxWrites), Box!Lose(some) PROVE Box!OnePlace'
  BY <1>4 DEF Box!Lose, Box!OnePlace
<1>5. ASSUME NEW some \in SUBSET (1..MaxWrites), Box!Publish(some) PROVE Box!OnePlace'
  BY <1>5 DEF Box!Publish, Box!OnePlace
<1>6. CASE UNCHANGED Box!vars
  BY <1>6 DEF Box!vars, Box!OnePlace
<1>7. QED
  BY <1>1, <1>2, <1>3, <1>4, <1>5, <1>6 DEF Box!Next

\* ... and so does AfterCommit for the jobs of a request: what commit() works
\* off is enqueued once or lost once, whatever fails.
THEOREM OneOutcome == Spec => []JobsAreInOnePlace
<1>1. Box!Spec => []Box!OnePlace
  <2>1. Box!Init => Box!OnePlace
    BY DEF Box!Init, Box!OnePlace
  <2>2. QED
    BY <2>1, BoxKeeps, PTL DEF Box!Spec
<1>2. QED
  BY <1>1, Implementation, PTL DEF ImplementsOutbox, JobsAreInOnePlace

=============================================================================
