------------------------- MODULE NamingSeries_proofs ------------------------
(***************************************************************************)
(* Proofs about NamingSeries, for any set of requests.  The properties of  *)
(* the numbers hold when every document of the DocType has a number        *)
(* (Others = {}); NamingSeriesOthers.cfg shows that they need it.          *)
(***************************************************************************)
EXTENDS NamingSeries, TLAPS

-----------------------------------------------------------------------------
\* Type correctness.
LEMMA InitTyped == Init => TypeOK
BY NamingSeriesAssumption DEF Init, TypeOK, Names

LEMMA TableTyped ==
    ASSUME TypeOK, NEW p \in Requests
    PROVE  /\ Table(p) \subseteq Names /\ Visible(p) \subseteq Names
           /\ Counter(p) \in Int \cup {None}
BY DEF TypeOK, Names, Table, Visible, Counter

LEMMA ReleaseTyped ==
    ASSUME TypeOK, NEW p \in Requests, Release(p),
           current' \in Int \cup {None}, docs' \subseteq Names, used' \subseteq Int
    PROVE  TypeOK'
BY DEF TypeOK, Release, Goto, Names

LEMMA NextTyped == TypeOK /\ [Next]_vars => TypeOK'
<1> SUFFICES ASSUME TypeOK, [Next]_vars PROVE TypeOK'
  OBVIOUS
<1>0. None \notin Requests \cup Int /\ 1 \in Int
  BY NamingSeriesAssumption
<1>1. CASE UNCHANGED vars
  BY <1>1 DEF vars, db, locks, pending, TypeOK
<1>2. ASSUME NEW p \in Requests, Request(p) PROVE TypeOK'
  <2>0. /\ Table(p) \subseteq Names /\ Visible(p) \subseteq Names
        /\ Counter(p) \in Int \cup {None}
    BY TableTyped
  <2>1. CASE Begin(p)
    BY <2>1 DEF Begin, Goto, db, locks, pending, TypeOK
  <2>2. CASE StartInsert(p)
    BY <2>2 DEF StartInsert, Goto, db, locks, pending, TypeOK
  <2>3. CASE NextNumber(p)
    <3>1. Counter(p) + 1 \in Int
      BY <2>0, <2>3 DEF NextNumber
    <3> QED
      BY <2>3, <3>1 DEF NextNumber, Goto, db, pending, TypeOK
  <2>4. CASE FindNoSeries(p)
    BY <2>4 DEF FindNoSeries, Goto, db, pending, TypeOK
  <2>5. CASE CreateSeries(p)
    BY <2>5, <1>0 DEF CreateSeries, Goto, db, pending, TypeOK
  <2>6. CASE InsertRow(p)
    BY <2>6 DEF InsertRow, Goto, db, locks, TypeOK
  <2>7. CASE StartDelete(p)
    BY <2>0, <2>7 DEF StartDelete, Goto, db, locks, pending, TypeOK
  <2>8. CASE Revert(p)
    <3>1. target[p] \in Names
      BY <2>8 DEF Revert, TypeOK
    <3>2. added' \in [Requests -> SUBSET Int] /\ removed' \in [Requests -> SUBSET Names]
      BY <2>8, <3>1 DEF Revert, TypeOK
    <3>3. lock' \in Requests \cup {None} /\ gaps' \subseteq Requests
      BY <2>8 DEF Revert, TypeOK
    <3>4. mine' \in [Requests -> Int]
      <4>1. CASE Counter(p) = None
        BY <2>8, <4>1 DEF Revert, TypeOK
      <4>2. CASE Counter(p) # None
        <5>1. Counter(p) \in Int /\ Counter(p) - 1 \in Int
          BY <2>0, <4>2
        <5> QED
          BY <2>8, <4>2, <5>1 DEF Revert, TypeOK
      <4> QED
        BY <4>1, <4>2
    <3> QED
      BY <2>8, <3>2, <3>3, <3>4 DEF Revert, Goto, db, TypeOK
  <2>9. CASE Commit(p)
    <3>1. used \cup given[p] \subseteq Int
      BY DEF TypeOK
    <3> QED
      BY <2>0, <2>9, <3>1, ReleaseTyped DEF Commit
  <2>10. CASE Fail(p) \/ Deadlock(p)
    <3>1. Release(p) /\ UNCHANGED db
      BY <2>10 DEF Fail, Deadlock, Rollback
    <3> QED
      BY <3>1, ReleaseTyped DEF db, TypeOK
  <2> QED
    BY <1>2, <2>1, <2>2, <2>3, <2>4, <2>5, <2>6, <2>7, <2>8, <2>9, <2>10 DEF Request
<1> QED
  BY <1>1, <1>2 DEF Next

\* Every variable keeps its type.
THEOREM TypeCorrect == Spec => []TypeOK
BY InitTyped, NextTyped, PTL DEF Spec

-----------------------------------------------------------------------------
(***************************************************************************)
(* The lock of the counter: CounterIsLocked is inductive.  A step of one   *)
(* request leaves the others Untouched, and what they know stays true.     *)
(***************************************************************************)
Untouched(q) ==
    /\ pc'[q] = pc[q] /\ mine'[q] = mine[q] /\ number'[q] = number[q]
    /\ added'[q] = added[q] /\ removed'[q] = removed[q] /\ given'[q] = given[q]
    /\ seen'[q] = seen[q]

LEMMA InitLocked == Others = {} /\ Init => CounterIsLocked
BY NamingSeriesAssumption
   DEF Init, CounterIsLocked, CounterCovers, UnlockedUnchanged, LockedCovers, GapHeld

\* A step of another request, which does not change the documents while q
\* has the lock, and does not take it from q.
LEMMA KeepUnlocked ==
    ASSUME NEW q \in Requests, UnlockedUnchanged(q), Untouched(q), lock' = q <=> lock = q
    PROVE  UnlockedUnchanged(q)'
BY DEF UnlockedUnchanged, Untouched

LEMMA KeepLocked ==
    ASSUME NEW q \in Requests, LockedCovers(q), Untouched(q), lock' = q <=> lock = q,
           lock = q => docs' = docs, used \subseteq used'
    PROVE  LockedCovers(q)'
<1>1. CASE lock # q
  BY <1>1 DEF LockedCovers
<1>2. CASE lock = q
  <2>1. Table(q)' = Table(q)
    BY <1>2 DEF Table, Untouched
  <2> QED
    BY <1>2, <2>1 DEF LockedCovers, Untouched
<1> QED
  BY <1>1, <1>2

LEMMA KeepGap ==
    ASSUME NEW q \in Requests, GapHeld(q), Untouched(q), lock' = q <=> lock = q,
           pc[q] = "create" => /\ q \in gaps => q \in gaps'
                               /\ lock' = lock /\ current' = current,
           current # None => current' # None
    PROVE  GapHeld(q)'
BY DEF GapHeld, Untouched, Counter

LEMMA BeginLocked ==
    ASSUME TypeOK, CounterIsLocked, NEW p \in Requests, Begin(p)
    PROVE  CounterIsLocked'
<1>1. \A q \in Requests : q # p => Untouched(q)
  BY DEF Begin, Goto, pending, TypeOK, Untouched
<1>2. CounterCovers'
  BY DEF Begin, CounterIsLocked, CounterCovers, TypeOK, db
<1>3. pc[p] = "idle" /\ pc'[p] = "open" /\ UNCHANGED <<db, locks, mine, number, pending>>
  BY DEF Begin, Goto, TypeOK
<1>4. \A q \in Requests : Table(q)' = Table(q)
  BY <1>3 DEF Table, db, pending
<1>5. UnlockedUnchanged(p)' /\ LockedCovers(p)' /\ GapHeld(p)'
  BY <1>3, <1>4 DEF CounterIsLocked, UnlockedUnchanged, LockedCovers, GapHeld, db, locks, pending
<1>6. ASSUME NEW q \in Requests, q # p
      PROVE  UnlockedUnchanged(q)' /\ LockedCovers(q)' /\ GapHeld(q)'
  BY <1>1, <1>3, <1>6, KeepUnlocked, KeepLocked, KeepGap DEF CounterIsLocked, db, locks
<1> QED
  BY <1>2, <1>5, <1>6 DEF CounterIsLocked

LEMMA OthersKeep ==
    ASSUME CounterIsLocked, NEW p \in Requests, UNCHANGED db,
           \A q \in Requests : q # p =>
               /\ Untouched(q)
               /\ lock' = q <=> lock = q
               /\ pc[q] = "create" => (q \in gaps => q \in gaps') /\ lock' = lock
    PROVE  \A q \in Requests : q # p =>
               UnlockedUnchanged(q)' /\ LockedCovers(q)' /\ GapHeld(q)'
BY KeepUnlocked, KeepLocked, KeepGap DEF CounterIsLocked, db

LEMMA StartInsertLocked ==
    ASSUME TypeOK, CounterIsLocked, NEW p \in Requests, StartInsert(p)
    PROVE  CounterIsLocked'
<1>1. pc[p] = "open" /\ pc'[p] = "series"
      /\ UNCHANGED <<db, locks, seen, mine, number, pending>>
  BY DEF StartInsert, Goto, TypeOK
<1>2. \A q \in Requests : Table(q)' = Table(q)
  BY <1>1 DEF Table, db, pending
<1>3. \A q \in Requests : q # p => Untouched(q)
  BY DEF StartInsert, Goto, pending, TypeOK, Untouched
<1>4. UnlockedUnchanged(p)' /\ LockedCovers(p)' /\ GapHeld(p)'
  BY <1>1, <1>2 DEF CounterIsLocked, UnlockedUnchanged, LockedCovers, GapHeld, db, locks, pending
<1>5. CounterCovers'
  BY <1>1 DEF CounterIsLocked, CounterCovers, db
<1> QED
  BY <1>1, <1>3, <1>4, <1>5, OthersKeep DEF CounterIsLocked, locks

LEMMA NextNumberLocked ==
    ASSUME TypeOK, Others = {}, CounterIsLocked, NEW p \in Requests, NextNumber(p)
    PROVE  CounterIsLocked'
<1> DEFINE c == Counter(p)
<1>1. /\ pc[p] = "series" /\ pc'[p] = "insert" /\ lock \in {None, p} /\ lock' = p
      /\ mine'[p] = c + 1 /\ number'[p] = c + 1
      /\ UNCHANGED <<db, gaps, seen, pending>>
  BY DEF NextNumber, Free, Goto, TypeOK
<1>2. None \notin Requests
  BY NamingSeriesAssumption
<1>3. \A q \in Requests : q # p => Untouched(q) /\ (lock' = q <=> lock = q)
  BY <1>1, <1>2 DEF NextNumber, Goto, pending, TypeOK, Untouched
<1>4. c \in Int /\ c # None
  BY TableTyped DEF NextNumber
<1>5. Table(p)' = Table(p) /\ Table(p) \subseteq Int /\ added[p] \subseteq Int
  BY <1>1, TableTyped DEF Table, db, pending, Names, TypeOK
<1>6. \A d \in Table(p) : d <= c
  <2>1. CASE lock = p
    BY <2>1 DEF CounterIsLocked, LockedCovers, Counter
  <2>2. CASE lock = None
    BY <1>2, <1>4, <2>2 DEF CounterIsLocked, CounterCovers, UnlockedUnchanged, Counter, Table
  <2> QED
    BY <1>1, <2>1, <2>2
<1>7. \A n \in 1..c : n \in used \/ n \in given[p]
  <2>1. CASE lock = p
    BY <1>1, <2>1 DEF CounterIsLocked, LockedCovers, Counter
  <2>2. CASE lock = None
    BY <1>2, <1>4, <2>2 DEF CounterIsLocked, CounterCovers, Counter
  <2> QED
    BY <1>1, <2>1, <2>2
<1>8. LockedCovers(p)'
  <2>1. \A d \in Table(p)' : d <= c + 1 /\ d < c + 1
    BY <1>4, <1>5, <1>6
  <2>2. \A n \in 1..(c + 1) : n \in used' \/ n \in given'[p] \/ n = c + 1
    BY <1>1, <1>4, <1>7 DEF db, pending
  <2>3. \A n \in added'[p] : \A d \in docs' \ removed'[p] : n > d
    <3>1. CASE lock = p
      BY <1>1, <3>1 DEF CounterIsLocked, LockedCovers, db, pending
    <3>2. CASE lock # p
      BY <1>1, <3>2 DEF CounterIsLocked, UnlockedUnchanged, pending
    <3> QED
      BY <3>1, <3>2
  <2> QED
    BY <1>1, <2>1, <2>2, <2>3 DEF LockedCovers
<1>9. UnlockedUnchanged(p)' /\ GapHeld(p)'
  BY <1>1 DEF UnlockedUnchanged, GapHeld
<1>10. CounterCovers'
  BY <1>1 DEF CounterIsLocked, CounterCovers, db
<1>11. \A q \in Requests : pc[q] # "create"
  BY <1>2, <1>4 DEF CounterIsLocked, GapHeld, Counter
<1> QED
  BY <1>1, <1>3, <1>8, <1>9, <1>10, <1>11, OthersKeep DEF CounterIsLocked

LEMMA FindNoSeriesLocked ==
    ASSUME TypeOK, CounterIsLocked, NEW p \in Requests, FindNoSeries(p)
    PROVE  CounterIsLocked'
<1>1. /\ pc[p] = "series" /\ pc'[p] = "create" /\ lock = None /\ current = None
      /\ gaps' = gaps \cup {p}
      /\ UNCHANGED <<db, lock, seen, mine, number, pending>>
  BY DEF FindNoSeries, Goto, TypeOK
<1>2. \A q \in Requests : q # p => Untouched(q)
  BY DEF FindNoSeries, Goto, pending, TypeOK, Untouched
<1>3. lock # p
  BY <1>1, NamingSeriesAssumption
<1>4. UnlockedUnchanged(p)' /\ LockedCovers(p)' /\ GapHeld(p)'
  BY <1>1, <1>3 DEF CounterIsLocked, UnlockedUnchanged, LockedCovers, GapHeld, db, pending
<1>5. CounterCovers'
  BY <1>1 DEF CounterIsLocked, CounterCovers, db
<1> QED
  BY <1>1, <1>2, <1>4, <1>5, OthersKeep DEF CounterIsLocked

LEMMA CreateSeriesLocked ==
    ASSUME TypeOK, CounterIsLocked, NEW p \in Requests, CreateSeries(p)
    PROVE  CounterIsLocked'
<1>1. /\ pc[p] = "create" /\ pc'[p] = "insert" /\ gaps = {p} /\ lock' = p
      /\ mine'[p] = 1 /\ number'[p] = 1
      /\ UNCHANGED <<db, gaps, seen, pending>>
  BY DEF CreateSeries, Goto, TypeOK
<1>2. lock = None /\ current = None /\ None \notin Requests
  BY <1>1, NamingSeriesAssumption DEF CounterIsLocked, GapHeld
<1>3. \A q \in Requests : q # p => /\ Untouched(q)
                                   /\ lock' = q <=> lock = q
                                   /\ pc[q] # "create"
  BY <1>1, <1>2 DEF CreateSeries, Goto, pending, TypeOK, Untouched, CounterIsLocked, GapHeld
<1>4. docs' = {} /\ added'[p] = {}
  BY <1>1, <1>2 DEF CounterIsLocked, CounterCovers, UnlockedUnchanged, db, pending
<1>5. UnlockedUnchanged(p)' /\ LockedCovers(p)' /\ GapHeld(p)'
  BY <1>1, <1>4 DEF UnlockedUnchanged, LockedCovers, GapHeld, Table
<1>6. CounterCovers'
  BY <1>1 DEF CounterIsLocked, CounterCovers, db
<1> QED
  BY <1>1, <1>3, <1>5, <1>6, OthersKeep DEF CounterIsLocked

LEMMA InsertRowLocked ==
    ASSUME TypeOK, Others = {}, CounterIsLocked, NEW p \in Requests, InsertRow(p)
    PROVE  CounterIsLocked'
<1>1. /\ pc[p] = "insert" /\ pc'[p] = "open"
      /\ added'[p] = added[p] \cup {number[p]} /\ given'[p] = given[p] \cup {number[p]}
      /\ UNCHANGED <<db, locks, seen, mine, number, removed>>
  BY DEF InsertRow, Goto, TypeOK
<1>2. \A q \in Requests : q # p => Untouched(q)
  BY DEF InsertRow, Goto, TypeOK, Untouched
<1>3. lock = p /\ lock' = p
  BY <1>1 DEF CounterIsLocked, UnlockedUnchanged, locks
<1>4. Table(p)' = Table(p) \cup {number[p]}
  BY <1>1 DEF Table, db
<1>5. number[p] = mine[p] /\ mine[p] \in Int
  BY <1>1, <1>3 DEF CounterIsLocked, LockedCovers, TypeOK
<1>6. LockedCovers(p)'
  <2>1. \A d \in Table(p)' : d <= mine'[p]
    BY <1>1, <1>3, <1>4, <1>5 DEF CounterIsLocked, LockedCovers
  <2>2. \A n \in 1..mine'[p] : n \in used' \/ n \in given'[p]
    BY <1>1, <1>3 DEF CounterIsLocked, LockedCovers, db
  <2>3. \A n \in added'[p] : \A d \in docs' \ removed'[p] : n > d
    <3>1. SUFFICES ASSUME NEW d \in docs \ removed[p] PROVE \A n \in added'[p] : n > d
      BY <1>1 DEF db
    <3>2. d \in Int /\ d \in Table(p)
      BY <3>1 DEF TypeOK, Names, Table
    <3>3. number[p] > d
      BY <1>1, <1>3, <1>5, <3>2 DEF CounterIsLocked, LockedCovers
    <3> QED
      BY <1>1, <1>3, <3>3 DEF CounterIsLocked, LockedCovers
  <2> QED
    BY <1>1, <2>1, <2>2, <2>3 DEF LockedCovers
<1>7. UnlockedUnchanged(p)' /\ GapHeld(p)'
  BY <1>1, <1>3 DEF UnlockedUnchanged, GapHeld
<1>8. CounterCovers'
  BY <1>1 DEF CounterIsLocked, CounterCovers, db
<1> QED
  BY <1>1, <1>2, <1>6, <1>7, <1>8, OthersKeep DEF CounterIsLocked, locks

LEMMA StartDeleteLocked ==
    ASSUME TypeOK, CounterIsLocked, NEW p \in Requests, StartDelete(p)
    PROVE  CounterIsLocked'
<1>1. /\ pc[p] = "open" /\ pc'[p] = "revert" /\ Visible(p) # {}
      /\ UNCHANGED <<db, locks, seen, mine, number, pending>>
  BY DEF StartDelete, Goto, TypeOK
<1>2. \A q \in Requests : q # p => Untouched(q)
  BY DEF StartDelete, Goto, pending, TypeOK, Untouched
<1>3. Table(p)' = Table(p) /\ Counter(p)' = Counter(p)
  BY <1>1 DEF Table, Counter, db, pending, locks
<1>4. Counter(p) # None
  <2>1. CASE lock = p
    BY <2>1, NamingSeriesAssumption DEF Counter, TypeOK
  <2>2. CASE lock # p
    <3>1. seen[p] # {}
      BY <1>1, <2>2 DEF CounterIsLocked, UnlockedUnchanged, Visible
    <3> QED
      BY <2>2, <3>1 DEF CounterIsLocked, CounterCovers, Counter
  <2> QED
    BY <2>1, <2>2
<1>5. UnlockedUnchanged(p)' /\ LockedCovers(p)' /\ GapHeld(p)'
  BY <1>1, <1>3, <1>4 DEF CounterIsLocked, UnlockedUnchanged, LockedCovers, GapHeld, db, locks, pending
<1>6. CounterCovers'
  BY <1>1 DEF CounterIsLocked, CounterCovers, db
<1> QED
  BY <1>1, <1>2, <1>5, <1>6, OthersKeep DEF CounterIsLocked, locks

LEMMA RevertLocked ==
    ASSUME TypeOK, Others = {}, CounterIsLocked, NEW p \in Requests, Revert(p)
    PROVE  CounterIsLocked'
<1> DEFINE c == Counter(p)
           d0 == target[p]
<1>1. pc[p] = "revert" /\ c # None /\ c \in Int /\ d0 \in Int /\ Count(d0) = d0
  BY TableTyped DEF Revert, CounterIsLocked, GapHeld, TypeOK, Names, Count
<1>2. /\ pc'[p] = "open" /\ lock \in {None, p} /\ lock' = p
      /\ mine'[p] = IF c = d0 THEN c - 1 ELSE c
      /\ added'[p] = added[p] \ {d0} /\ removed'[p] = removed[p] \cup {d0}
      /\ given'[p] = given[p]
      /\ UNCHANGED <<db, gaps, seen>>
  BY <1>1 DEF Revert, Free, Goto, TypeOK
<1>3. None \notin Requests
  BY NamingSeriesAssumption
<1>4. \A q \in Requests : q # p => Untouched(q) /\ (lock' = q <=> lock = q)
  BY <1>1, <1>2, <1>3 DEF Revert, Goto, TypeOK, Untouched
<1>5. Table(p)' = Table(p) \ {d0} /\ Table(p) \subseteq Int
  BY <1>2, TableTyped DEF Table, db, Names
<1>6. \A d \in Table(p) : d <= c
  <2>1. CASE lock = p
    BY <2>1 DEF CounterIsLocked, LockedCovers, Counter
  <2>2. CASE lock = None
    BY <1>1, <1>3, <2>2 DEF CounterIsLocked, CounterCovers, UnlockedUnchanged, Counter, Table
  <2> QED
    BY <1>2, <2>1, <2>2
<1>7. \A n \in 1..c : n \in used \/ n \in given[p]
  <2>1. CASE lock = p
    BY <1>1, <2>1 DEF CounterIsLocked, LockedCovers, Counter
  <2>2. CASE lock = None
    BY <1>1, <1>3, <2>2 DEF CounterIsLocked, CounterCovers, Counter
  <2> QED
    BY <1>2, <2>1, <2>2
<1>8. mine'[p] \in Int /\ mine'[p] <= c /\ (c = d0 => mine'[p] = c - 1) /\ (c # d0 => mine'[p] = c)
  BY <1>1, <1>2
<1>9. LockedCovers(p)'
  <2>1. \A d \in Table(p)' : d <= mine'[p]
    <3>1. SUFFICES ASSUME NEW d \in Table(p), d # d0 PROVE d <= mine'[p]
      BY <1>5
    <3>2. d \in Int /\ d <= c
      BY <1>5, <1>6
    <3> QED
      BY <1>1, <1>8, <3>1, <3>2
  <2>2. \A n \in 1..mine'[p] : n \in used' \/ n \in given'[p]
    <3>1. 1..mine'[p] \subseteq 1..c
      BY <1>1, <1>8
    <3> QED
      BY <1>2, <1>7, <3>1 DEF db
  <2>3. \A n \in added'[p] : \A d \in docs' \ removed'[p] : n > d
    <3>1. \A n \in added[p] : \A d \in docs \ removed[p] : n > d
      BY DEF CounterIsLocked, UnlockedUnchanged, LockedCovers
    <3> QED
      BY <1>2, <3>1 DEF db
  <2> QED
    BY <1>2, <2>1, <2>2, <2>3 DEF LockedCovers
<1>10. UnlockedUnchanged(p)' /\ GapHeld(p)'
  BY <1>2 DEF UnlockedUnchanged, GapHeld
<1>11. CounterCovers'
  BY <1>2 DEF CounterIsLocked, CounterCovers, db
<1>12. \A q \in Requests : q # p => pc[q] # "create"
  BY <1>1, <1>3 DEF CounterIsLocked, GapHeld, Counter
<1> QED
  BY <1>2, <1>4, <1>9, <1>10, <1>11, <1>12, OthersKeep DEF CounterIsLocked

LEMMA ReleaseFacts ==
    ASSUME TypeOK, NEW p \in Requests, Release(p)
    PROVE  /\ pc'[p] = "idle" /\ lock' # p /\ seen'[p] = {}
           /\ added'[p] = {} /\ removed'[p] = {} /\ given'[p] = {}
           /\ lock' \in {lock, None} /\ (lock # p => lock' = lock)
           /\ \A q \in Requests : q # p => /\ Untouched(q)
                                           /\ lock' = q <=> lock = q
                                           /\ q \in gaps => q \in gaps'
<1>1. None \notin Requests
  BY NamingSeriesAssumption
<1> QED
  BY <1>1 DEF Release, Goto, TypeOK, Untouched

LEMMA RollbackLocked ==
    ASSUME TypeOK, CounterIsLocked, NEW p \in Requests, Rollback(p)
    PROVE  CounterIsLocked'
<1>1. Release(p) /\ UNCHANGED db
  BY DEF Rollback
<1>2. UnlockedUnchanged(p)' /\ LockedCovers(p)' /\ GapHeld(p)'
  BY <1>1, ReleaseFacts DEF UnlockedUnchanged, LockedCovers, GapHeld
<1>3. CounterCovers'
  BY <1>1, ReleaseFacts DEF CounterIsLocked, CounterCovers, Untouched, db
<1>4. \A q \in Requests : pc[q] = "create" => lock = None /\ lock' = lock
  BY <1>1, ReleaseFacts DEF CounterIsLocked, GapHeld
<1> QED
  BY <1>1, <1>2, <1>3, <1>4, ReleaseFacts, OthersKeep DEF CounterIsLocked

LEMMA CommitLocked ==
    ASSUME TypeOK, CounterIsLocked, NEW p \in Requests, Commit(p)
    PROVE  CounterIsLocked'
<1>1. /\ Release(p) /\ pc[p] = "open"
      /\ current' = Counter(p) /\ docs' = Table(p) /\ used' = used \cup given[p]
  BY DEF Commit
<1>2. CASE lock # p
  <2>1. Rollback(p)
    BY <1>1, <1>2 DEF CounterIsLocked, UnlockedUnchanged, Counter, Table, Rollback, db
  <2> QED
    BY <2>1, RollbackLocked
<1>3. CASE lock = p
  <2>1. current' = mine[p] /\ current' # None
    BY <1>1, <1>3, NamingSeriesAssumption DEF Counter, TypeOK
  <2>2. CounterCovers'
    BY <1>1, <1>3, <2>1 DEF CounterIsLocked, LockedCovers, CounterCovers
  <2>3. UnlockedUnchanged(p)' /\ LockedCovers(p)' /\ GapHeld(p)'
    BY <1>1, ReleaseFacts DEF UnlockedUnchanged, LockedCovers, GapHeld
  <2>4. \A q \in Requests : pc[q] # "create"
    BY <1>3, NamingSeriesAssumption DEF CounterIsLocked, GapHeld
  <2>5. ASSUME NEW q \in Requests, q # p
        PROVE  UnlockedUnchanged(q)' /\ LockedCovers(q)' /\ GapHeld(q)'
    <3>1. Untouched(q) /\ (lock' = q <=> lock = q) /\ lock # q
      BY <1>1, <1>3, <2>5, ReleaseFacts
    <3>2. UnlockedUnchanged(q)' /\ LockedCovers(q)'
      BY <3>1, KeepUnlocked DEF CounterIsLocked, LockedCovers
    <3>3. GapHeld(q)'
      BY <2>1, <2>4, <3>1, KeepGap DEF CounterIsLocked
    <3> QED
      BY <3>2, <3>3
  <2> QED
    BY <2>2, <2>3, <2>5 DEF CounterIsLocked
<1> QED
  BY <1>2, <1>3

LEMMA NextLocked ==
    Others = {} /\ TypeOK /\ CounterIsLocked /\ [Next]_vars => CounterIsLocked'
<1> SUFFICES ASSUME Others = {}, TypeOK, CounterIsLocked, [Next]_vars
             PROVE  CounterIsLocked'
  OBVIOUS
<1>1. CASE UNCHANGED vars
  BY <1>1 DEF vars, db, locks, pending, CounterIsLocked, CounterCovers, UnlockedUnchanged,
              LockedCovers, GapHeld, Table, Counter
<1>2. ASSUME NEW p \in Requests, Request(p) PROVE CounterIsLocked'
  BY <1>2, BeginLocked, StartInsertLocked, NextNumberLocked, FindNoSeriesLocked,
     CreateSeriesLocked, InsertRowLocked, StartDeleteLocked, RevertLocked, CommitLocked,
     RollbackLocked DEF Request, Fail, Deadlock
<1> QED
  BY <1>1, <1>2 DEF Next

\* The lock of the counter covers what its holder has counted, inserted and
\* deleted.
THEOREM LockedCounter == Others = {} => (Spec => []CounterIsLocked)
<1> SUFFICES ASSUME Others = {} PROVE Spec => []CounterIsLocked
  OBVIOUS
<1>1. Init => CounterIsLocked
  BY InitLocked
<1>2. TypeOK /\ CounterIsLocked /\ [Next]_vars => CounterIsLocked'
  BY NextLocked
<1> QED
  BY <1>1, <1>2, TypeCorrect, PTL DEF Spec

\* getseries() never gives a number that is the name of a document.
THEOREM Fresh == Others = {} => (Spec => []FreshNumber)
<1> SUFFICES ASSUME Others = {} PROVE Spec => []FreshNumber
  OBVIOUS
<1>1. TypeOK /\ CounterIsLocked => FreshNumber
  <2> SUFFICES ASSUME TypeOK, CounterIsLocked, NEW p \in Requests, pc[p] = "insert",
                      number[p] \in Table(p)
               PROVE  FALSE
    BY DEF FreshNumber
  <2>1. number[p] = mine[p] /\ number[p] < mine[p] /\ mine[p] \in Int
    BY DEF CounterIsLocked, UnlockedUnchanged, LockedCovers, TypeOK
  <2> QED
    BY <2>1
<1> QED
  BY <1>1, TypeCorrect, LockedCounter, PTL

\* A number is taken back only from the end of the series.
THEOREM Highest == Others = {} => (Spec => []NewNumbersAreHighest)
<1> SUFFICES ASSUME Others = {} PROVE Spec => []NewNumbersAreHighest
  OBVIOUS
<1>1. CounterIsLocked => NewNumbersAreHighest
  BY DEF CounterIsLocked, UnlockedUnchanged, LockedCovers, NewNumbersAreHighest
<1> QED
  BY <1>1, LockedCounter, PTL

\* Rollbacks skip no number.
THEOREM Gapless == Others = {} => (Spec => []NoGaps)
<1> SUFFICES ASSUME Others = {} PROVE Spec => []NoGaps
  OBVIOUS
<1>1. CounterIsLocked => NoGaps
  BY DEF CounterIsLocked, CounterCovers, NoGaps
<1> QED
  BY <1>1, LockedCounter, PTL

=============================================================================
