---------------------------- MODULE Upload_proofs ---------------------------
(***************************************************************************)
(* What holds of Upload for every set of batches and files: a batch is     *)
(* never past its last file, every timer and every answer of node finds    *)
(* the upload it is for, or one that was started after it, no file is      *)
(* skipped or attached twice, and its row has its content, but in the ways *)
(* that the properties name.                                               *)
(***************************************************************************)
EXTENDS Upload, SequenceTheorems, TLAPS

-----------------------------------------------------------------------------
(***************************************************************************)
(* The types, with what makes them inductive: the variables are functions, *)
(* a batch that listens has begun, a task is one of a batch's files, and   *)
(* nothing is read, put together, written or answered before an upload has *)
(* given the uploader its callback, which it keeps for ever.               *)
(***************************************************************************)
TaskType ==
    [batch : Batches, file : Files, stage : {"naming", "reading", "posting"},
     data : NoneOr(Files), url : NoneOr(Names), sure : BOOLEAN]

AnswerType == [kind : {"slice", "end"}, slice : 0..1, name : Names]
WriteType  == [name : Names, content : Content, live : BOOLEAN]

BatchInv ==
    /\ next \in [Batches -> Nat]
    /\ \A b \in Batches : next[b] \in 0..Len(Plan[b])
    /\ listening \in [Batches -> BOOLEAN]
    /\ args \in [Batches -> [data : NoneOr(Files), url : NoneOr(Names)]]
    /\ tasks \subseteq TaskType

UploaderInv ==
    /\ callback \in NoneOr(Uploads) /\ reader \in {None, callback}
    /\ started \in BOOLEAN /\ timer \in BOOLEAN
    /\ reading \subseteq [upload : Uploads, slice : 0..2]

NodeInv ==
    /\ online \in BOOLEAN /\ breaks \in 0..MaxBreaks
    /\ answers \in Seq(AnswerType)
    /\ partial \in [Names -> Content] /\ disk \in [Names -> Content]
    /\ writes \subseteq WriteType

RowsInv ==
    /\ \A r \in rows : r.file \in Files /\ r.name \in Names
    /\ instead \subseteq Files \X Files /\ twice \subseteq Files

HistoryInv ==
    /\ told \subseteq Batches /\ unanswered \subseteq Batches /\ moved \subseteq Batches
    /\ doubtful \in BOOLEAN

\* Before the first upload.
Untouched ==
    /\ reader = None /\ timer = FALSE /\ reading = {} /\ answers = <<>> /\ writes = {}

CallbackInv == callback = None => Untouched

TypeInv == BatchInv /\ UploaderInv /\ NodeInv /\ RowsInv /\ HistoryInv /\ CallbackInv

LEMMA TypeInvImplies == TypeInv => TypeOK
<1> SUFFICES ASSUME TypeInv PROVE TypeOK
  OBVIOUS
<1> USE DEF TypeInv
<1>1. \A i \in DOMAIN answers :
          answers[i] \in [kind : {"slice", "end"}, slice : 0..1, name : Names]
  <2>1. answers \in Seq(AnswerType)
    BY DEF NodeInv
  <2>2. QED
    BY <2>1, ElementOfSeq, LenProperties DEF AnswerType
<1>2. \A w \in writes : w.name \in Names /\ w.content \in Content /\ w.live \in BOOLEAN
  BY DEF NodeInv, WriteType
<1>3. timer => callback # None
  BY DEF CallbackInv, Untouched
<1>4. QED
  BY <1>1, <1>2, <1>3
  DEF TypeOK, BatchInv, UploaderInv, NodeInv, RowsInv, HistoryInv, TaskType

LEMMA PlanFacts ==
    ASSUME NEW b \in Batches
    PROVE  /\ Plan[b] \in Seq(Files) /\ Len(Plan[b]) \in Nat /\ Len(Plan[b]) >= 1
           /\ \A i \in 1..Len(Plan[b]) : Plan[b][i] \in Files
<1>1. Plan[b] \in Seq(Files) /\ Plan[b] # <<>>
  BY UploadAssumption
<1>2. Len(Plan[b]) \in Nat /\ \A i \in 1..Len(Plan[b]) : Plan[b][i] \in Files
  BY <1>1, ElementOfSeq, LenProperties
<1>3. Len(Plan[b]) # 0
  BY <1>1, EmptySeq
<1>4. QED
  BY <1>1, <1>2, <1>3

LEMMA NameFacts ==
    \A f \in Files : Name[f] \in Names /\ <<Name[f], f>> \in Names /\ ServerName(f) \in Names
BY DEF Names, ServerName

LEMMA TypeInit == Init => TypeInv
<1> SUFFICES ASSUME Init PROVE TypeInv
  OBVIOUS
<1>1. BatchInv
  <2>1. next = [b \in Batches |-> 0] /\ tasks = {}
    BY DEF Init
  <2>2. ASSUME NEW b \in Batches PROVE next[b] \in 0..Len(Plan[b])
    <3>1. next[b] = 0 /\ Len(Plan[b]) \in Nat
      BY <2>1, PlanFacts
    <3>2. QED
      BY <3>1
  <2>3. listening \in [Batches -> BOOLEAN]
    BY DEF Init
  <2>4. args \in [Batches -> [data : NoneOr(Files), url : NoneOr(Names)]]
    BY DEF Init, NoneOr
  <2>5. QED
    BY <2>1, <2>2, <2>3, <2>4 DEF BatchInv
<1>2. UploaderInv /\ CallbackInv
  BY DEF Init, UploaderInv, NoneOr, CallbackInv, Untouched
<1>3. NodeInv
  <2>1. breaks = 0 /\ online \in BOOLEAN /\ answers = <<>> /\ writes = {}
    BY DEF Init
  <2>2. MaxBreaks \in Nat
    BY UploadAssumption
  <2>3. partial \in [Names -> Content] /\ disk \in [Names -> Content]
    BY DEF Init, Content
  <2>4. QED
    BY <2>1, <2>2, <2>3 DEF NodeInv
<1>4. RowsInv /\ HistoryInv
  BY DEF Init, RowsInv, HistoryInv
<1>5. QED
  BY <1>1, <1>2, <1>3, <1>4 DEF TypeInv

\* The batches that go on to their next file.
LEMMA NextType ==
    ASSUME BatchInv, NEW bs \in SUBSET Batches, NEW others \in SUBSET TaskType,
           \A b \in bs : next[b] < Len(Plan[b]),
           UploadNext(bs, others), listening' \in [Batches -> BOOLEAN]
    PROVE  BatchInv'
<1>1. next' = [b \in Batches |-> IF b \in bs THEN next[b] + 1 ELSE next[b]]
  BY DEF UploadNext
<1>2. \A b \in Batches : next[b] \in Nat /\ next[b] <= Len(Plan[b]) /\ Len(Plan[b]) \in Nat
  BY PlanFacts DEF BatchInv
<1>3. \A b \in Batches : next'[b] \in 0..Len(Plan[b])
  BY <1>1, <1>2
<1>4. next' \in [Batches -> Nat]
  BY <1>1, <1>2
<1>5. args' \in [Batches -> [data : NoneOr(Files), url : NoneOr(Names)]]
  <2>1. \A b \in Batches : [args[b] EXCEPT !.url = None]
                               \in [data : NoneOr(Files), url : NoneOr(Names)]
    BY DEF BatchInv, NoneOr
  <2>2. QED
    BY <2>1 DEF UploadNext, BatchInv
<1>6. tasks' \subseteq TaskType
  <2>1. ASSUME NEW b \in bs PROVE ReadFile(b, Plan[b][next[b] + 1]) \in TaskType
    <3>1. next[b] + 1 \in 1..Len(Plan[b])
      BY <1>2
    <3>2. Plan[b][next[b] + 1] \in Files
      BY <3>1, PlanFacts
    <3>3. QED
      BY <3>2 DEF ReadFile, Task, TaskType, NoneOr
  <2>2. QED
    BY <2>1 DEF UploadNext
<1>7. QED
  BY <1>3, <1>4, <1>5, <1>6 DEF BatchInv

\* Only the tasks and the arguments of a batch change.
LEMMA TasksType ==
    ASSUME BatchInv, NEW old \in SUBSET tasks, NEW t, t \in TaskType,
           tasks' = old \cup {t} \/ tasks' \in SUBSET tasks, UNCHANGED <<batch, args>>
    PROVE  BatchInv'
BY DEF BatchInv, batch

LEMMA ReadWholeType ==
    ASSUME TypeInv, NEW t, ReadWhole(t)
    PROVE  TypeInv'
<1> USE DEF uploader, node, history, server, batch
<1>1. t \in TaskType
  BY DEF ReadWhole, TypeInv, BatchInv
<1>2. t.batch \in Batches /\ t.file \in Files
  BY <1>1 DEF TaskType
<1>3. args' \in [Batches -> [data : NoneOr(Files), url : NoneOr(Names)]]
  BY <1>2 DEF ReadWhole, TypeInv, BatchInv, NoneOr
<1>4. ToServer(t.batch, t.file, args'[t.batch], TRUE) \in TaskType
  BY <1>2, <1>3 DEF ToServer, TaskType
<1>5. BatchInv'
  BY <1>3, <1>4 DEF ReadWhole, TypeInv, BatchInv
<1>6. QED
  BY <1>5 DEF ReadWhole, TypeInv, UploaderInv, NodeInv, RowsInv, HistoryInv, CallbackInv,
     Untouched

LEMMA NamedType ==
    ASSUME TypeInv, NEW t, Named(t)
    PROVE  TypeInv'
<1> USE DEF uploader, node, history, server, batch
<1> DEFINE u == [batch |-> t.batch, file |-> t.file, name |-> ServerName(t.file)]
<1>1. t \in TaskType
  BY DEF Named, TypeInv, BatchInv
<1>2. t.batch \in Batches /\ t.file \in Files
  BY <1>1 DEF TaskType
<1>3. u \in Uploads /\ u # None
  <2>1. u \in Uploads
    BY <1>2, NameFacts DEF Uploads
  <2>2. QED
    BY <2>1, NoneAssumption
<1>4. Start(t, u) /\ UNCHANGED <<batch, args, node, rows, instead, twice, unanswered, moved, doubtful>>
  BY DEF Named, server
<1>5. BatchInv'
  <2>1. Task(t.batch, t.file, "reading") \in TaskType
    BY <1>2 DEF Task, TaskType, NoneOr
  <2>2. \/ tasks' = (tasks \ {t}) \cup {Task(t.batch, t.file, "reading")}
        \/ tasks' \in SUBSET tasks
    BY <1>4 DEF Start
  <2>3. QED
    BY <1>4, <2>1, <2>2, TasksType DEF TypeInv
<1>6. NodeInv' /\ RowsInv'
  BY <1>4 DEF TypeInv, NodeInv, RowsInv
<1>7. HistoryInv'
  <2>1. told' = told \cup {t.batch} \/ told' = told
    BY <1>4 DEF Start
  <2>2. QED
    BY <1>2, <1>4, <2>1 DEF TypeInv, HistoryInv
<1>8. UploaderInv' /\ CallbackInv'
  <2>1. CASE UNCHANGED uploader
    BY <1>4, <2>1 DEF TypeInv, UploaderInv, CallbackInv, Untouched
  <2>2. CASE /\ reader' = u /\ callback' = u /\ started' = FALSE
             /\ reading' = reading \cup {[upload |-> u, slice |-> 0]}
             /\ UNCHANGED timer
    <3>1. [upload |-> u, slice |-> 0] \in [upload : Uploads, slice : 0..2]
      BY <1>3
    <3>2. reading' \subseteq [upload : Uploads, slice : 0..2] /\ timer' \in BOOLEAN
      BY <2>2, <3>1 DEF TypeInv, UploaderInv
    <3>3. callback' \in NoneOr(Uploads) /\ reader' \in {None, callback'}
          /\ started' \in BOOLEAN /\ callback' # None
      BY <1>3, <2>2 DEF NoneOr
    <3>4. QED
      BY <3>2, <3>3 DEF UploaderInv, CallbackInv
  <2>3. QED
    BY <1>4, <2>1, <2>2 DEF Start
<1>9. QED
  BY <1>5, <1>6, <1>7, <1>8 DEF TypeInv

LEMMA FailedType ==
    ASSUME TypeInv, NEW t, Failed(t)
    PROVE  TypeInv'
<1> USE DEF uploader, node, history, server, batch
<1>1. t \in TaskType /\ tasks' \in SUBSET tasks
  BY DEF Failed, Unanswered, TypeInv, BatchInv
<1>2. t.batch \in Batches
  BY <1>1 DEF TaskType
<1>3. BatchInv' /\ HistoryInv'
  BY <1>1, <1>2 DEF Failed, Unanswered, TypeInv, BatchInv, HistoryInv
<1>4. QED
  BY <1>3 DEF Failed, Unanswered, TypeInv, UploaderInv, NodeInv, RowsInv, CallbackInv, Untouched

\* What the server has after a request.
LEMMA SaveFacts ==
    ASSUME NEW t, Save(t) \/ UNCHANGED server
    PROVE  /\ rows \subseteq rows' /\ instead \subseteq instead'
           /\ rows' = rows \/ rows' = rows \cup {Row(t)}
           /\ instead' = instead \/ (Duplicate(t) /\ instead' = instead \cup {<<t.file, t.data>>})
           /\ \/ twice' = twice
              \/ /\ twice' = twice \cup {t.file} /\ rows' = rows \cup {Row(t)}
                 /\ \E r \in rows : r.batch = t.batch /\ r.file = t.file
           /\ Row(t).batch = t.batch /\ Row(t).file = t.file /\ Row(t).sure = t.sure
           /\ Row(t).data = t.data
<1>1. /\ Row(t).batch = t.batch /\ Row(t).file = t.file /\ Row(t).sure = t.sure
      /\ Row(t).data = t.data
  BY DEF Row
<1>2. CASE UNCHANGED server
  BY <1>1, <1>2 DEF server
<1>3. CASE Save(t)
  BY <1>1, <1>3 DEF Save
<1>4. QED
  BY <1>2, <1>3

LEMMA SaveType ==
    ASSUME RowsInv, NEW t, t \in TaskType, Save(t) \/ UNCHANGED server
    PROVE  RowsInv'
<1>1. t.file \in Files /\ t.url \in NoneOr(Names) /\ (t.data # None => t.data \in Files)
  BY DEF TaskType, NoneOr
<1>2. Row(t).file \in Files /\ Row(t).name \in Names
  BY <1>1, NameFacts DEF Row, NoneOr
<1>3. \A r \in rows' : r.file \in Files /\ r.name \in Names
  BY <1>2, SaveFacts DEF RowsInv
<1>4. Duplicate(t) => <<t.file, t.data>> \in Files \X Files
  BY <1>1 DEF Duplicate
<1>5. instead' \subseteq Files \X Files /\ twice' \subseteq Files
  BY <1>1, <1>4, SaveFacts DEF RowsInv
<1>6. QED
  BY <1>3, <1>5 DEF RowsInv

LEMMA UnansweredType ==
    ASSUME TypeInv, NEW t, Unanswered(t)
    PROVE  TypeInv'
<1> USE DEF uploader, node, batch
<1>1. t \in TaskType /\ tasks' \in SUBSET tasks
  BY DEF Unanswered, TypeInv, BatchInv
<1>2. t.batch \in Batches
  BY <1>1 DEF TaskType
<1>3. BatchInv' /\ HistoryInv'
  BY <1>1, <1>2 DEF Unanswered, TypeInv, BatchInv, HistoryInv
<1>4. RowsInv'
  BY <1>1, SaveType DEF Unanswered, TypeInv
<1>5. QED
  BY <1>3, <1>4 DEF Unanswered, TypeInv, UploaderInv, NodeInv, CallbackInv, Untouched

LEMMA AttachType ==
    ASSUME TypeInv, NEW b \in Batches, Attach(b)
    PROVE  TypeInv'
<1> USE DEF uploader, node, history, server
<1>1. BatchInv'
  <2>1. \A c \in {b} : next[c] < Len(Plan[c])
    BY PlanFacts DEF Attach
  <2>2. listening' \in [Batches -> BOOLEAN]
    BY DEF Attach, TypeInv, BatchInv
  <2>3. tasks \in SUBSET TaskType /\ {b} \in SUBSET Batches
    BY DEF TypeInv, BatchInv
  <2>4. UploadNext({b}, tasks)
    BY DEF Attach
  <2>5. QED
    BY <2>1, <2>2, <2>3, <2>4, NextType DEF TypeInv
<1>2. QED
  BY <1>1 DEF Attach, TypeInv, UploaderInv, NodeInv, RowsInv, HistoryInv, CallbackInv,
     Untouched

LEMMA PostedType ==
    ASSUME TypeInv, NEW t, Posted(t)
    PROVE  TypeInv'
<1> USE DEF uploader, node
<1> DEFINE done == {b \in Batches : listening[b] /\ next[b] = Len(Plan[b])}
           going == {b \in Batches : listening[b]} \ done
<1>1. t \in TaskType /\ tasks \ {t} \in SUBSET TaskType
  BY DEF Posted, TypeInv, BatchInv
<1>2. t.batch \in Batches /\ t.file \in Files /\ t.url \in NoneOr(Names)
  BY <1>1 DEF TaskType
<1>3. BatchInv'
  <2>1. \A b \in going : next[b] < Len(Plan[b])
    <3> SUFFICES ASSUME NEW b \in going PROVE next[b] < Len(Plan[b])
      OBVIOUS
    <3>1. b \in Batches /\ next[b] # Len(Plan[b])
      OBVIOUS
    <3>2. next[b] \in 0..Len(Plan[b]) /\ Len(Plan[b]) \in Nat
      BY <3>1, PlanFacts DEF TypeInv, BatchInv
    <3>3. QED
      BY <3>1, <3>2
  <2>2. listening' \in [Batches -> BOOLEAN]
    BY DEF Posted, TypeInv, BatchInv
  <2>3. UploadNext(going, tasks \ {t})
    BY DEF Posted
  <2>4. going \in SUBSET Batches
    OBVIOUS
  <2>5. QED
    BY <1>1, <2>1, <2>2, <2>3, <2>4, NextType DEF TypeInv
<1>4. RowsInv'
  BY <1>1, SaveType DEF Posted, TypeInv
<1>5. HistoryInv'
  BY <1>2 DEF Posted, TypeInv, HistoryInv
<1>6. QED
  BY <1>3, <1>4, <1>5 DEF Posted, TypeInv, UploaderInv, NodeInv, CallbackInv, Untouched

\* Node has got a slice under a name that was given to an upload.
LEMMA AcceptType ==
    ASSUME NodeInv, NEW n \in Names, NEW s \in Slices \cup {<<>>}, Accept(n, s),
           UNCHANGED <<online, breaks, disk>>
    PROVE  NodeInv'
<1>1. Append(partial[n], s) \in Content
  BY AppendProperties DEF NodeInv, Content
<1>2. partial' \in [Names -> Content] /\ partial'[n] \in Content
  BY <1>1 DEF Accept, NodeInv
<1>3. writes' \subseteq WriteType
  <2>1. [name |-> n, content |-> partial'[n], live |-> TRUE] \in WriteType
    BY <1>2 DEF WriteType
  <2>2. \/ writes' = writes \cup {[name |-> n, content |-> partial'[n], live |-> TRUE]}
        \/ writes' = writes
    BY DEF Accept
  <2>3. QED
    BY <2>1, <2>2 DEF NodeInv
<1>4. answers' \in Seq(AnswerType)
  <2>1. [kind |-> "slice", slice |-> 1, name |-> n] \in AnswerType
    BY DEF AnswerType
  <2>2. Append(answers, [kind |-> "slice", slice |-> 1, name |-> n]) \in Seq(AnswerType)
    BY <2>1, AppendProperties DEF NodeInv
  <2>3. QED
    BY <2>2 DEF Accept, NodeInv
<1>5. QED
  BY <1>2, <1>3, <1>4 DEF NodeInv

\* Whatever is read is read after an upload has been started.
LEMMA BegunType ==
    ASSUME TypeInv, reading # {} \/ answers # <<>> \/ writes # {} \/ timer
    PROVE  callback \in Uploads /\ callback # None
BY DEF TypeInv, CallbackInv, Untouched, UploaderInv, NoneOr

LEMMA SendType ==
    ASSUME TypeInv, NEW r, Send(r)
    PROVE  TypeInv'
<1> USE DEF history, server, batch
<1>1. r \in [upload : Uploads, slice : 0..2] /\ callback # None
  BY BegunType DEF Send, TypeInv, UploaderInv
<1>2. r.upload \in Uploads /\ r.slice \in 0..2
  BY <1>1
<1>3. r.upload.name \in Names /\ r.upload.file \in Files
  BY <1>2 DEF Uploads
<1>4. Result(r) \in Slices \cup {<<>>}
  BY <1>2, <1>3 DEF Result, Slices
<1>5. NodeInv'
  BY <1>3, <1>4, AcceptType DEF Send, TypeInv
<1>6. UploaderInv' /\ CallbackInv'
  BY <1>1 DEF Send, TypeInv, UploaderInv, CallbackInv
<1>7. BatchInv' /\ RowsInv' /\ HistoryInv'
  <2>1. doubtful' \in BOOLEAN
    BY DEF Send, TypeInv, HistoryInv
  <2>2. QED
    BY <2>1 DEF Send, TypeInv, BatchInv, RowsInv, HistoryInv
<1>8. QED
  BY <1>5, <1>6, <1>7 DEF TypeInv

LEMMA SendNothingType ==
    ASSUME TypeInv, NEW r, SendNothing(r)
    PROVE  TypeInv'
<1> USE DEF history, server, batch, node
<1>1. QED
  BY DEF SendNothing, TypeInv, BatchInv, UploaderInv, NodeInv, RowsInv, HistoryInv,
     CallbackInv, Untouched

LEMMA AnswerFacts ==
    ASSUME TypeInv, answers # <<>>
    PROVE  /\ Head(answers) \in AnswerType /\ Tail(answers) \in Seq(AnswerType)
           /\ Head(answers).name \in Names /\ Head(answers).slice \in 0..1
           /\ callback \in Uploads /\ callback # None
<1>1. Head(answers) \in AnswerType /\ Tail(answers) \in Seq(AnswerType)
  BY HeadTailProperties DEF TypeInv, NodeInv
<1>2. QED
  BY <1>1, BegunType DEF AnswerType

LEMMA RequestSliceType ==
    ASSUME TypeInv, RequestSlice
    PROVE  TypeInv'
<1> USE DEF history, server, batch
<1>1. answers # <<>> /\ answers' = Tail(answers)
  BY DEF RequestSlice, NextAnswer
<1>2. NodeInv'
  BY <1>1, AnswerFacts DEF RequestSlice, TypeInv, NodeInv
<1>3. UploaderInv' /\ CallbackInv'
  <2>1. reading' \subseteq [upload : Uploads, slice : 0..2]
        /\ started' \in BOOLEAN /\ timer' \in BOOLEAN
    <3>1. CASE reader = None \/ ~Idle(reader)
      BY <3>1 DEF RequestSlice, TypeInv, UploaderInv
    <3>2. CASE ~ (reader = None \/ ~Idle(reader))
      <4>1. reader \in Uploads /\ Head(answers).slice \in 0..2
        BY <1>1, <3>2, AnswerFacts DEF TypeInv, UploaderInv
      <4>2. QED
        BY <3>2, <4>1 DEF RequestSlice, TypeInv, UploaderInv
    <3>3. QED
      BY <3>1, <3>2
  <2>2. QED
    BY <1>1, <2>1, AnswerFacts DEF RequestSlice, TypeInv, UploaderInv, CallbackInv
<1>4. BatchInv' /\ RowsInv' /\ HistoryInv'
  BY DEF RequestSlice, TypeInv, BatchInv, RowsInv, HistoryInv
<1>5. QED
  BY <1>2, <1>3, <1>4 DEF TypeInv

LEMMA UploadEndType ==
    ASSUME TypeInv, UploadEnd
    PROVE  TypeInv'
<1> USE DEF history, server, batch
<1>1. answers # <<>> /\ answers' = Tail(answers)
  BY DEF UploadEnd, NextAnswer
<1>2. callback.batch \in Batches /\ callback.file \in Files /\ callback # None
  BY <1>1, AnswerFacts DEF Uploads
<1>3. NodeInv'
  BY <1>1, AnswerFacts DEF UploadEnd, TypeInv, NodeInv
<1>4. args' \in [Batches -> [data : NoneOr(Files), url : NoneOr(Names)]]
  <2>1. Head(answers).name \in NoneOr(Names)
    BY <1>1, AnswerFacts DEF NoneOr
  <2>2. QED
    BY <1>2, <2>1 DEF UploadEnd, TypeInv, BatchInv
<1>5. ToServer(callback.batch, callback.file, args'[callback.batch], ~doubtful) \in TaskType
  BY <1>2, <1>4 DEF ToServer, TaskType, TypeInv, HistoryInv
<1>6. BatchInv'
  BY <1>4, <1>5 DEF UploadEnd, TypeInv, BatchInv
<1>7. UploaderInv' /\ CallbackInv' /\ RowsInv' /\ HistoryInv'
  BY <1>2 DEF UploadEnd, TypeInv, UploaderInv, CallbackInv, RowsInv, HistoryInv
<1>8. QED
  BY <1>3, <1>6, <1>7 DEF TypeInv

\* disconnect(): the one who is told is the batch whose upload it was.
LEMMA DropType ==
    ASSUME TypeInv, Drop
    PROVE  told' \subseteq Batches /\ reader' = None
<1>1. reader = None \/ reader.batch \in Batches
  BY DEF TypeInv, UploaderInv, NoneOr, Uploads
<1>2. QED
  BY <1>1 DEF Drop, TypeInv, HistoryInv

LEMMA KeepAliveType ==
    ASSUME TypeInv, KeepAlive
    PROVE  TypeInv'
<1> USE DEF history, server, batch, node
<1>1. callback \in Uploads /\ callback # None
  BY BegunType DEF KeepAlive
<1>2. callback.batch \in Batches /\ callback.file \in Files
  BY <1>1 DEF Uploads
<1>3. Task(callback.batch, callback.file, "reading") \in TaskType
  BY <1>2 DEF Task, TaskType, NoneOr
<1>4. BatchInv'
  BY <1>3 DEF KeepAlive, TypeInv, BatchInv
<1>5. UploaderInv' /\ CallbackInv'
  BY <1>1, DropType DEF KeepAlive, TypeInv, UploaderInv, CallbackInv
<1>6. NodeInv' /\ RowsInv' /\ HistoryInv'
  BY DropType DEF KeepAlive, TypeInv, NodeInv, RowsInv, HistoryInv
<1>7. QED
  BY <1>4, <1>5, <1>6 DEF TypeInv

LEMMA WrittenType ==
    ASSUME TypeInv, NEW w, NEW well \in BOOLEAN, Written(w, well)
    PROVE  TypeInv'
<1> USE DEF history, server, batch, uploader
<1>1. w \in WriteType /\ callback # None
  BY BegunType DEF Written, TypeInv, NodeInv
<1>2. w.name \in Names /\ w.content \in Content
  BY <1>1 DEF WriteType
<1>3. answers' \in Seq(AnswerType)
  <2>1. [kind |-> "end", slice |-> 0, name |-> w.name] \in AnswerType
    BY <1>2 DEF AnswerType
  <2>2. Append(answers, [kind |-> "end", slice |-> 0, name |-> w.name]) \in Seq(AnswerType)
    BY <2>1, AppendProperties DEF TypeInv, NodeInv
  <2>3. QED
    BY <2>2 DEF Written, TypeInv, NodeInv
<1>4. partial' \in [Names -> Content] /\ disk' \in [Names -> Content]
  <2>1. <<>> \in Content
    BY DEF Content
  <2>2. QED
    BY <1>2, <2>1 DEF Written, TypeInv, NodeInv
<1>5. NodeInv'
  BY <1>3, <1>4 DEF Written, TypeInv, NodeInv
<1>6. QED
  BY <1>1, <1>5 DEF Written, TypeInv, BatchInv, UploaderInv, RowsInv, HistoryInv,
     CallbackInv

\* The connection breaks, and with it what node has of the files.
LEMMA BreakType ==
    ASSUME TypeInv, Break, writes' \subseteq WriteType, disk' \in [Names -> Content],
           breaks' \in 0..MaxBreaks,
           writes = {} => writes' = {},
           UNCHANGED <<batch, args, tasks, callback, started, timer, reading, server,
                       unanswered, moved, given>>
    PROVE  TypeInv'
<1> USE DEF history, server, batch
<1>1. NodeInv'
  <2>1. partial' \in [Names -> Content]
    BY DEF Break, Content
  <2>2. answers' \in Seq(AnswerType) /\ online' \in BOOLEAN
    <3>1. answers' = <<>> /\ online' = FALSE
      BY DEF Break
    <3>2. QED
      BY <3>1, EmptySeq
  <2>3. QED
    BY <2>1, <2>2 DEF NodeInv
<1>2. reader' = None /\ HistoryInv'
  BY DropType DEF Break, TypeInv, HistoryInv
<1>3. UploaderInv' /\ CallbackInv'
  BY <1>2 DEF Break, TypeInv, UploaderInv, CallbackInv, Untouched
<1>4. BatchInv' /\ RowsInv'
  BY DEF TypeInv, BatchInv, RowsInv
<1>5. QED
  BY <1>1, <1>2, <1>3, <1>4 DEF TypeInv

LEMMA DisconnectType ==
    ASSUME TypeInv, Disconnect
    PROVE  TypeInv'
<1>1. breaks' \in 0..MaxBreaks
  <2>1. breaks \in 0..MaxBreaks /\ breaks < MaxBreaks /\ breaks' = breaks + 1
    BY DEF Disconnect, TypeInv, NodeInv
  <2>2. MaxBreaks \in Nat
    BY UploadAssumption
  <2>3. QED
    BY <2>1, <2>2
<1>2. writes' = {[x EXCEPT !.live = FALSE] : x \in writes}
  BY DEF Disconnect
<1>3. \A x \in WriteType : [x EXCEPT !.live = FALSE] \in WriteType
  BY DEF WriteType
<1>4. writes' \subseteq WriteType /\ (writes = {} => writes' = {})
  BY <1>2, <1>3 DEF TypeInv, NodeInv
<1>5. disk' \in [Names -> Content]
  BY DEF Disconnect, TypeInv, NodeInv
<1>6. QED
  BY <1>1, <1>4, <1>5, BreakType DEF Disconnect

LEMMA WrittenTooLateType ==
    ASSUME TypeInv, NEW w, WrittenTooLate(w)
    PROVE  TypeInv'
<1>1. w \in WriteType
  BY DEF WrittenTooLate, TypeInv, NodeInv
<1>2. w.name \in Names /\ w.content \in Content
  BY <1>1 DEF WriteType
<1>3. writes' = {[x EXCEPT !.live = FALSE] : x \in writes \ {w}}
  BY DEF WrittenTooLate
<1>4. \A x \in WriteType : [x EXCEPT !.live = FALSE] \in WriteType
  BY DEF WriteType
<1>5. writes' \subseteq WriteType /\ (writes = {} => writes' = {})
  BY <1>3, <1>4 DEF TypeInv, NodeInv
<1>6. disk' \in [Names -> Content]
  BY <1>2 DEF WrittenTooLate, TypeInv, NodeInv
<1>7. breaks' \in 0..MaxBreaks
  BY DEF WrittenTooLate, TypeInv, NodeInv
<1>8. QED
  BY <1>5, <1>6, <1>7, BreakType DEF WrittenTooLate

LEMMA TypeStep == TypeInv /\ [Next]_vars => TypeInv'
<1> SUFFICES ASSUME TypeInv, [Next]_vars PROVE TypeInv'
  OBVIOUS
<1>1. CASE Connect
  BY <1>1 DEF Connect, batch, uploader, history, server, TypeInv, BatchInv, UploaderInv, NodeInv,
     RowsInv, HistoryInv, CallbackInv, Untouched
<1>2. CASE UNCHANGED vars
  BY <1>2 DEF vars, batch, uploader, node, history, server, TypeInv, BatchInv, UploaderInv,
     NodeInv, RowsInv, HistoryInv, CallbackInv, Untouched
<1>3. CASE Progress
  BY <1>3, ReadWholeType, NamedType, FailedType, UnansweredType, PostedType, SendType, SendNothingType,
     RequestSliceType, UploadEndType, KeepAliveType, WrittenType, WrittenTooLateType
  DEF Progress
<1>4. QED
  BY <1>1, <1>2, <1>3, AttachType, DisconnectType DEF Next

\* Every variable keeps its type: next never passes the last file of its batch,
\* whichever batch moves it on, a timer or an answer always finds the callback
\* of an upload, and the reader never belongs to another one.
THEOREM TypeCorrect == Spec => []TypeOK
<1>1. Spec => []TypeInv
  BY TypeInit, TypeStep, PTL DEF Spec
<1>2. QED
  BY <1>1, TypeInvImplies, PTL

-----------------------------------------------------------------------------
(***************************************************************************)
(* What node has of the upload in progress, while none of this connection  *)
(* is doubtful: its steps are taken in order.                              *)
(***************************************************************************)
First(u)  == <<<<u.file, 0>>>>
Asked(u)  == <<[kind |-> "slice", slice |-> 1, name |-> u.name]>>
Ended(u)  == <<[kind |-> "end", slice |-> 0, name |-> u.name]>>
Write(u)  == [name |-> u.name, content |-> Whole(u.file), live |-> TRUE]
Live      == {w \in writes : w.live}
Reads(u, slices) == \A r \in [upload : {u}, slice : 0..2] : r \in reading <=> r.slice \in slices

Stage(u) ==
    \/ /\ Reads(u, {0}) /\ partial[u.name] = <<>> /\ answers = <<>> /\ Live = {} /\ ~started
    \/ /\ Reads(u, {}) /\ partial[u.name] = First(u) /\ answers = Asked(u) /\ Live = {} /\ ~started
    \/ /\ Reads(u, {1}) /\ partial[u.name] = First(u) /\ answers = <<>> /\ Live = {} /\ started
    \/ /\ Reads(u, {}) /\ answers = <<>> /\ Live = {Write(u)} /\ started
    \/ /\ Reads(u, {}) /\ partial[u.name] = <<>> /\ Live = {} /\ started
       /\ answers = <<>> \/ (answers = Ended(u) /\ disk[u.name] = Whole(u.file))

ProtoInv ==
    ~doubtful =>
        /\ \A n \in Names : reader = None \/ reader.name # n => partial[n] = <<>>
        /\ reader = None => answers = <<>> /\ Live = {}
        /\ reader # None => Stage(reader)

-----------------------------------------------------------------------------
(***************************************************************************)
(* The way of a file: a task, the upload in progress, the timer of one     *)
(* that has not been answered, a row.  It is in one place at a time, late  *)
(* answers aside.                                                          *)
(***************************************************************************)
Planned(b, f) == \E i \in DOMAIN Plan[b] : i <= next[b] /\ Plan[b][i] = f

Of(u, b, f) == u # None /\ u.batch = b /\ u.file = f

\* The uploader has it.
Uploading(b, f) == Of(reader, b, f) \/ (timer /\ ~started /\ Of(callback, b, f))

SureTask(t, b, f) == t \in tasks /\ t.sure /\ t.batch = b /\ t.file = f
SureRow(b, f) == \E r \in rows : r.sure /\ r.batch = b /\ r.file = f
Busy(b, f) == Uploading(b, f) \/ \E t \in tasks : SureTask(t, b, f)

\* The batch has got this far.
PlannedInv ==
    /\ \A t \in tasks : Planned(t.batch, t.file)
    /\ \A r \in rows : r.batch \in Batches /\ Planned(r.batch, r.file)
    /\ \A r \in reading : Planned(r.upload.batch, r.upload.file)
    /\ callback # None => Planned(callback.batch, callback.file)
    /\ \A b \in Batches : args[b].data # None => Planned(b, args[b].data)
    /\ \A g \in given : \E b \in Batches : Planned(b, g[2])

\* A big file asks for its name once, before anything else.
NamingInv ==
    /\ \A t \in tasks : t.stage # "posting" => t.sure
    /\ \A t \in tasks : t.stage = "naming" =>
          /\ t.file \in Big
          /\ ~Of(callback, t.batch, t.file)
          /\ \A r \in reading : ~Of(r.upload, t.batch, t.file)
          /\ \A g \in given : g[2] # t.file
    /\ callback # None => callback.file \in Big

OnceInv ==
    /\ \A b \in Batches : \A f \in Files :
          /\ \A s, t \in tasks : SureTask(s, b, f) /\ SureTask(t, b, f) => s = t
          /\ \A t \in tasks : SureTask(t, b, f) => ~Uploading(b, f) /\ ~SureRow(b, f)
          /\ Uploading(b, f) => ~SureRow(b, f)
    /\ \A f \in twice : \E r \in rows : r.file = f /\ ~r.sure

\* A batch that nothing has misled is at the file that is under way.
OrderInv ==
    /\ \A t \in tasks : ~t.sure => t.batch \in moved
    /\ \A b \in Batches \ moved : \A f \in Files :
          Busy(b, f) => next[b] > 0 /\ f = Plan[b][next[b]]
    /\ NoneIsSkipped

-----------------------------------------------------------------------------
(***************************************************************************)
(* What a row has got.                                                     *)
(***************************************************************************)
\* All that has to do with a name has been given it.
NamesInv ==
    /\ \A r \in reading : <<r.upload.name, r.upload.file>> \in given
    /\ callback # None => <<callback.name, callback.file>> \in given
    /\ \A w \in writes : \E g \in given :
          g[1] = w.name /\ (w.live \/ reader = None \/ reader.file # g[2])

\* The content of the file is on the disk, and nothing will overwrite it.
Stored(n, f) ==
    /\ n \in Names
    /\ (\A g \in given : g[1] = n => g[2] = f) =>
          /\ disk[n] = Whole(f)
          /\ \A w \in writes : w.name # n
          /\ \A r \in reading : r.upload.name # n

StoredInv ==
    /\ \A t \in tasks : t.stage = "posting" /\ t.data = None /\ t.sure => Stored(t.url, t.file)
    /\ \A r \in rows : r.data = None /\ r.sure => Stored(r.url, r.file)

CarriedIn(b, f, d) ==
    /\ f \in Big
    /\ \E i, j \in DOMAIN Plan[b] :
          /\ Plan[b][i] = d /\ Plan[b][j] = f
          /\ i < j \/ b \in moved

DataInv ==
    /\ \A t \in tasks : t.stage = "posting" /\ t.data # None =>
          t.data = t.file \/ CarriedIn(t.batch, t.file, t.data)
    /\ \A r \in rows : r.data # None =>
          r.data = r.file \/ CarriedIn(r.batch, r.file, r.data)

-----------------------------------------------------------------------------
(***************************************************************************)
(* A batch only goes on, so what is planned stays so.                      *)
(***************************************************************************)
LEMMA NextGrows ==
    ASSUME TypeInv, [Next]_vars
    PROVE  \A b \in Batches : next[b] \in Nat /\ next'[b] \in Nat /\ next[b] <= next'[b]
<1>1. next \in [Batches -> Nat]
  BY DEF TypeInv, BatchInv
<1>2. ASSUME UNCHANGED next PROVE \A b \in Batches : next[b] \in Nat /\ next'[b] \in Nat /\ next[b] <= next'[b]
  BY <1>1, <1>2
<1>3. ASSUME NEW bs, NEW others, UploadNext(bs, others)
      PROVE  \A b \in Batches : next[b] \in Nat /\ next'[b] \in Nat /\ next[b] <= next'[b]
  BY <1>1, <1>3 DEF UploadNext
<1>4. CASE \E b \in Batches : Attach(b)
  BY <1>3, <1>4 DEF Attach
<1>5. CASE \E t \in tasks : Posted(t)
  BY <1>3, <1>5 DEF Posted
<1>6. QED
  BY <1>2, <1>4, <1>5 DEF Next, Progress, ReadWhole, Named, Failed, Unanswered, Send, SendNothing, RequestSlice,
     UploadEnd, KeepAlive, Written, WrittenTooLate, Disconnect, Connect, vars, batch

LEMMA StaysPlanned ==
    ASSUME TypeInv, [Next]_vars, NEW b \in Batches, NEW f, Planned(b, f)
    PROVE  Planned(b, f)'
<1>1. PICK i \in DOMAIN Plan[b] : i <= next[b] /\ Plan[b][i] = f
  BY DEF Planned
<1>2. i \in Nat /\ next[b] <= next'[b] /\ next[b] \in Nat /\ next'[b] \in Nat
  BY PlanFacts, LenProperties, NextGrows
<1>3. QED
  BY <1>1, <1>2 DEF Planned

\* The task of a batch that has gone on is its next file, which is new.
LEMMA GoesOn ==
    ASSUME TypeInv, NEW bs \in SUBSET Batches, NEW others, UploadNext(bs, others),
           \A c \in bs : next[c] < Len(Plan[c]), NEW b \in bs, NEW f, f = Plan[b][next[b] + 1]
    PROVE  /\ next'[b] = next[b] + 1 /\ next'[b] \in DOMAIN Plan[b]
           /\ f \in Files /\ f = Plan[b][next'[b]]
           /\ ~Planned(b, f) /\ Planned(b, f)'
<1>1. next[b] \in Nat /\ next'[b] = next[b] + 1
  BY DEF TypeInv, BatchInv, UploadNext
<1>2. Plan[b] \in Seq(Files) /\ Len(Plan[b]) \in Nat /\ DOMAIN Plan[b] = 1..Len(Plan[b])
  BY PlanFacts, LenProperties
<1>3. next'[b] \in DOMAIN Plan[b]
  BY <1>1, <1>2
<1>4. f \in Files /\ f = Plan[b][next'[b]]
  BY <1>1, <1>2, <1>3, PlanFacts
<1>5. ~Planned(b, f)
  <2>1. \A i \in DOMAIN Plan[b] : Plan[b][i] = f => i = next'[b]
    BY <1>3, <1>4, DistinctAssumption
  <2>2. ~(next'[b] <= next[b])
    BY <1>1
  <2>3. QED
    BY <2>1, <2>2 DEF Planned
<1>6. Planned(b, f)'
  BY <1>1, <1>3, <1>4 DEF Planned
<1>7. QED
  BY <1>1, <1>3, <1>4, <1>5, <1>6

\* The batches that upload_complete moves on: none when no answer comes.
LEMMA PostedGoesOn ==
    ASSUME TypeInv, NEW t, Posted(t) \/ Unanswered(t)
    PROVE  /\ moved \subseteq moved'
           /\ \E going \in SUBSET Batches :
                 /\ UploadNext(going, tasks \ {t})
                 /\ \A b \in going : listening[b] /\ next[b] < Len(Plan[b])
                 /\ going \ {t.batch} \subseteq moved'
                 /\ \A b \in Batches \ going : next'[b] = next[b]
                 /\ going # {} => Save(t) /\ t.stage = "posting"
<1>1. CASE Posted(t)
  <2> DEFINE done == {b \in Batches : listening[b] /\ next[b] = Len(Plan[b])}
             going == {b \in Batches : listening[b]} \ done
  <2>1. UploadNext(going, tasks \ {t}) /\ moved' = moved \cup ((going \cup done) \ {t.batch})
        /\ Save(t) /\ t.stage = "posting"
    BY <1>1 DEF Posted
  <2>2. ASSUME NEW b \in going PROVE listening[b] /\ next[b] < Len(Plan[b])
    <3>1. b \in Batches /\ next[b] # Len(Plan[b]) /\ listening[b]
      OBVIOUS
    <3>2. next[b] \in 0..Len(Plan[b]) /\ Len(Plan[b]) \in Nat
      BY <3>1, PlanFacts DEF TypeInv, BatchInv
    <3>3. QED
      BY <3>1, <3>2
  <2>3. \A b \in Batches \ going : next'[b] = next[b]
    BY <2>1 DEF UploadNext
  <2>4. going \in SUBSET Batches
    OBVIOUS
  <2> HIDE DEF going, done
  <2>5. QED
    BY <2>1, <2>2, <2>3, <2>4
<1>2. CASE Unanswered(t)
  <2>1. UNCHANGED <<next, args, moved>> /\ tasks' = tasks \ {t}
    BY <1>2 DEF Unanswered, batch
  <2>2. next = [b \in Batches |-> next[b]] /\ args = [b \in Batches |-> args[b]]
    BY DEF TypeInv, BatchInv
  <2>3. UploadNext({}, tasks \ {t})
    BY <2>1, <2>2 DEF UploadNext
  <2>4. QED
    BY <2>1, <2>3
<1>3. QED
  BY <1>1, <1>2

\* Each row is an old one or that of a request that the server has taken.
LEMMA RowsCome ==
    ASSUME [Next]_vars, NEW r \in rows' \ rows
    PROVE  \E t \in tasks : t.stage = "posting" /\ r = Row(t)
<1>1. PICK t \in tasks : Posted(t) \/ Unanswered(t)
  BY DEF Next, Progress, Attach, ReadWhole, Named, Failed, Send, SendNothing, RequestSlice,
     UploadEnd, KeepAlive, Written, WrittenTooLate, Disconnect, Connect, vars, server
<1>2. r = Row(t)
  BY <1>1, SaveFacts DEF Posted, Unanswered
<1>3. t.stage = "posting"
  BY <1>1 DEF Posted, Unanswered, server
<1>4. QED
  BY <1>2, <1>3

\* Each task is an old one, a new file of a batch, or goes on with the file of
\* an old task or of the callback.
LEMMA TasksCome ==
    ASSUME TypeInv, [Next]_vars, NEW t \in tasks' \ tasks
    PROVE  \/ \E b \in Batches : /\ next'[b] \in DOMAIN Plan[b]
                                 /\ t = ReadFile(b, Plan[b][next'[b]])
                                 /\ ~Planned(b, t.file) /\ Planned(b, t.file)'
           \/ \E s \in tasks \ tasks' : /\ t.batch = s.batch /\ t.file = s.file
                                        /\ t.sure /\ s.stage # "posting" /\ t.stage # "naming"
           \/ /\ callback # None /\ t.batch = callback.batch /\ t.file = callback.file
              /\ t.stage # "naming" /\ (t.stage # "posting" => t.sure)
<1>1. ASSUME NEW bs \in SUBSET Batches, NEW others \in SUBSET tasks, UploadNext(bs, others),
             \A c \in bs : next[c] < Len(Plan[c])
      PROVE  \E b \in Batches : /\ next'[b] \in DOMAIN Plan[b]
                                /\ t = ReadFile(b, Plan[b][next'[b]])
                                /\ ~Planned(b, t.file) /\ Planned(b, t.file)'
  <2>1. PICK b \in bs : t = ReadFile(b, Plan[b][next[b] + 1])
    BY <1>1 DEF UploadNext
  <2>2. t.file = Plan[b][next[b] + 1]
    BY <2>1 DEF ReadFile, Task
  <2>3. b \in Batches /\ next'[b] \in DOMAIN Plan[b] /\ t.file = Plan[b][next'[b]]
        /\ ~Planned(b, t.file) /\ Planned(b, t.file)'
    BY <1>1, <2>2, GoesOn
  <2>4. t = ReadFile(b, Plan[b][next'[b]])
    BY <2>1, <2>2, <2>3
  <2>5. QED
    BY <2>3, <2>4
<1>2. CASE \E b \in Batches : Attach(b)
  <2>1. PICK b \in Batches : next[b] = 0 /\ UploadNext({b}, tasks)
    BY <1>2 DEF Attach
  <2>2. \A c \in {b} : next[c] < Len(Plan[c])
    BY <2>1, PlanFacts
  <2>3. QED
    BY <1>1, <2>1, <2>2
<1>3. CASE \E s \in tasks : Posted(s) \/ Unanswered(s)
  BY <1>1, <1>3, PostedGoesOn
<1>4. CASE \E s \in tasks : ReadWhole(s)
  BY <1>4 DEF ReadWhole, ToServer
<1>5. CASE \E s \in tasks : Named(s)
  BY <1>5 DEF Named, Start, Task
<1>6. CASE UploadEnd
  BY <1>6, AnswerFacts DEF UploadEnd, ToServer, NextAnswer
<1>7. CASE KeepAlive
  BY <1>7, BegunType DEF KeepAlive, Task
<1>8. CASE UNCHANGED tasks \/ \E s \in tasks : Failed(s)
  BY <1>8 DEF Failed
<1>9. QED
  BY <1>2, <1>3, <1>4, <1>5, <1>6, <1>7, <1>8
     DEF Next, Progress, Send, SendNothing, RequestSlice, Written, WrittenTooLate, Disconnect, Connect,
         vars

LEMMA PlannedStep == TypeInv /\ TypeInv' /\ PlannedInv /\ [Next]_vars => PlannedInv'
<1> SUFFICES ASSUME TypeInv, TypeInv', PlannedInv, [Next]_vars PROVE PlannedInv'
  OBVIOUS
<1>1. ASSUME NEW t \in tasks' PROVE Planned(t.batch, t.file)'
  <2>1. t.batch \in Batches
    BY DEF TypeInv, BatchInv, TaskType
  <2>2. CASE t \in tasks
    BY <2>1, <2>2, StaysPlanned DEF PlannedInv
  <2>3. CASE t \notin tasks
    <3>1. ASSUME NEW b \in Batches, t = ReadFile(b, Plan[b][next'[b]]), Planned(b, t.file)'
          PROVE  Planned(t.batch, t.file)'
      <4>1. t.batch = b
        BY <3>1 DEF ReadFile, Task
      <4>2. QED
        BY <3>1, <4>1
    <3>2. ASSUME NEW s \in tasks, t.batch = s.batch, t.file = s.file PROVE Planned(t.batch, t.file)
      BY <3>2 DEF PlannedInv
    <3>3. ASSUME callback # None, t.batch = callback.batch, t.file = callback.file
          PROVE  Planned(t.batch, t.file)
      BY <3>3 DEF PlannedInv
    <3>4. QED
      BY <2>1, <2>3, <3>1, <3>2, <3>3, TasksCome, StaysPlanned
  <2>4. QED
    BY <2>2, <2>3
<1>2. ASSUME NEW r \in rows' PROVE r.batch \in Batches /\ Planned(r.batch, r.file)'
  <2>1. CASE r \in rows
    BY <2>1, StaysPlanned DEF PlannedInv
  <2>2. CASE r \notin rows
    <3>1. PICK t \in tasks : r = Row(t)
      BY <2>2, RowsCome
    <3>2. r.batch = t.batch /\ r.file = t.file
      BY <3>1 DEF Row
    <3>3. t.batch \in Batches
      BY DEF TypeInv, BatchInv, TaskType
    <3>4. Planned(r.batch, r.file)
      BY <3>2 DEF PlannedInv
    <3>5. QED
      BY <3>2, <3>3, <3>4, StaysPlanned
  <2>3. QED
    BY <2>1, <2>2
\* What the uploader takes up comes from a task.
<1>3. ASSUME NEW t \in tasks, Named(t),
             NEW u, u = [batch |-> t.batch, file |-> t.file, name |-> ServerName(t.file)]
      PROVE  u.batch \in Batches /\ Planned(u.batch, u.file)
  BY <1>3 DEF PlannedInv, TypeInv, BatchInv, TaskType
<1>4. ASSUME NEW c, c = callback', c # None PROVE Planned(c.batch, c.file)'
  <2>1. CASE UNCHANGED callback
    <3>1. c.batch \in Batches /\ Planned(c.batch, c.file)
      BY <1>4, <2>1 DEF TypeInv, UploaderInv, NoneOr, Uploads, PlannedInv
    <3>2. QED
      BY <3>1, StaysPlanned
  <2>2. CASE callback' # callback
    <3>1. PICK t \in tasks : Named(t)
      BY <2>2 DEF Next, Progress, Attach, ReadWhole, Posted, Failed, Unanswered, Send, SendNothing, RequestSlice,
         UploadEnd, KeepAlive, Written, WrittenTooLate, Disconnect, Connect, vars, uploader
    <3>2. c = [batch |-> t.batch, file |-> t.file, name |-> ServerName(t.file)]
      BY <1>4, <2>2, <3>1 DEF Named, Start, uploader
    <3>3. QED
      BY <1>3, <3>1, <3>2, StaysPlanned
  <2>3. QED
    BY <2>1, <2>2
<1>5. ASSUME NEW r \in reading' PROVE Planned(r.upload.batch, r.upload.file)'
  <2>1. r.upload.batch \in Batches
    BY DEF TypeInv, UploaderInv, Uploads
  <2>2. CASE r \in reading
    BY <2>1, <2>2, StaysPlanned DEF PlannedInv
  <2>3. CASE r.upload = reader /\ reader # None
    BY <2>1, <2>3, StaysPlanned DEF PlannedInv, TypeInv, UploaderInv
  <2>4. CASE r \notin reading /\ \E t \in tasks : Named(t)
    <3>1. PICK t \in tasks : Named(t)
      BY <2>4
    <3>2. r.upload = [batch |-> t.batch, file |-> t.file, name |-> ServerName(t.file)]
      BY <2>4, <3>1 DEF Named, Start, uploader
    <3>3. QED
      BY <1>3, <3>1, <3>2, StaysPlanned
  <2>5. CASE RequestSlice
    BY <2>2, <2>3, <2>5 DEF RequestSlice
  <2>6. CASE \E t \in tasks : Named(t)
    BY <2>2, <2>4, <2>6
  <2>7. CASE reading' \subseteq reading
    BY <2>2, <2>7
  <2>8. QED
    BY <2>5, <2>6, <2>7 DEF Next, Progress, Attach, ReadWhole, Posted, Failed, Unanswered, Send, SendNothing,
       UploadEnd, KeepAlive, Written, WrittenTooLate, Disconnect, Connect, vars, uploader
<1>6. ASSUME NEW b \in Batches, args'[b].data # None, NEW d, d = args'[b].data
      PROVE  Planned(b, d)'
  <2>1. CASE args'[b].data = args[b].data
    BY <1>6, <2>1, StaysPlanned DEF PlannedInv
  <2>2. CASE args'[b].data # args[b].data
    <3>1. args \in [Batches -> [data : NoneOr(Files), url : NoneOr(Names)]]
      BY DEF TypeInv, BatchInv
    <3>2. ASSUME NEW bs, NEW others, UploadNext(bs, others) PROVE FALSE
      BY <2>2, <3>1, <3>2 DEF UploadNext
    <3>3. ASSUME UploadEnd PROVE FALSE
      BY <2>2, <3>1, <3>3 DEF UploadEnd
    <3>4. PICK t \in tasks : ReadWhole(t)
      BY <2>2, <3>2, <3>3 DEF Next, Progress, Attach, Named, Posted, Failed, Unanswered, Send, SendNothing,
         RequestSlice, KeepAlive, Written, WrittenTooLate, Disconnect, Connect, vars
    <3>5. t.batch = b /\ args'[b].data = t.file
      BY <2>2, <3>1, <3>4 DEF ReadWhole
    <3>6. QED
      BY <1>6, <3>5, StaysPlanned DEF PlannedInv
  <2>3. QED
    BY <2>1, <2>2
<1>7. ASSUME NEW g \in given' PROVE \E b \in Batches : Planned(b, g[2])'
  <2>1. CASE g \in given
    BY <2>1, StaysPlanned DEF PlannedInv
  <2>2. CASE g \notin given
    <3>1. PICK t \in tasks : Named(t)
      BY <2>2 DEF Next, Progress, Attach, ReadWhole, Posted, Failed, Unanswered, Send, SendNothing, RequestSlice,
         UploadEnd, KeepAlive, Written, WrittenTooLate, Disconnect, Connect, vars, history, server
    <3>2. g[2] = t.file
      BY <2>2, <3>1 DEF Named
    <3>3. t.batch \in Batches /\ Planned(t.batch, g[2])
      BY <3>2 DEF PlannedInv, TypeInv, BatchInv, TaskType
    <3>4. QED
      BY <3>3, StaysPlanned
  <2>3. QED
    BY <2>1, <2>2
<1>8. QED
  BY <1>1, <1>2, <1>4, <1>5, <1>6, <1>7 DEF PlannedInv

\* A file is of one batch.
LEMMA OneBatch ==
    ASSUME NEW b \in Batches, NEW c \in Batches, NEW f, Planned(b, f), Planned(c, f)
    PROVE  b = c
  BY DistinctAssumption DEF Planned

LEMMA NamingStep ==
    TypeInv /\ PlannedInv /\ NamingInv /\ OnceInv /\ [Next]_vars => NamingInv'
<1> SUFFICES ASSUME TypeInv, PlannedInv, NamingInv, OnceInv, [Next]_vars PROVE NamingInv'
  OBVIOUS
<1>1. ASSUME NEW t \in tasks', t.stage # "posting" PROVE t.sure
  <2>1. CASE t \in tasks
    BY <1>1, <2>1 DEF NamingInv
  <2>2. CASE t \notin tasks
    <3>1. ASSUME NEW b, t = ReadFile(b, Plan[b][next'[b]]) PROVE t.sure
      BY <3>1 DEF ReadFile, Task
    <3>2. QED
      BY <1>1, <2>2, <3>1, TasksCome
  <2>3. QED
    BY <2>1, <2>2
<1>2. CASE \E s \in tasks : Named(s)
  <2>1. PICK s \in tasks : Named(s)
    BY <1>2
  <2> DEFINE u == [batch |-> s.batch, file |-> s.file, name |-> ServerName(s.file)]
  <2>2. /\ s.stage = "naming" /\ s.sure /\ s.file \in Big /\ s.batch \in Batches /\ s.file \in Files
        /\ Planned(s.batch, s.file)
    BY <2>1 DEF Named, NamingInv, PlannedInv, TypeInv, BatchInv, TaskType
  <2>3. /\ callback' = callback \/ callback' = u
        /\ reading' \subseteq reading \cup {[upload |-> u, slice |-> 0]}
        /\ given' = given \cup {<<ServerName(s.file), s.file>>}
    BY <2>1 DEF Named, Start, uploader
  <2>4. ASSUME NEW t \in tasks', t.stage = "naming"
        PROVE  /\ t.file \in Big
               /\ ~Of(callback', t.batch, t.file)
               /\ \A r \in reading' : ~Of(r.upload, t.batch, t.file)
               /\ \A g \in given' : g[2] # t.file
    <3>1. t \in tasks /\ t # s
      BY <2>1, <2>4 DEF Named, Start, Task
    <3>2. t.batch \in Batches /\ t.file \in Files /\ t.sure /\ Planned(t.batch, t.file)
      BY <2>4, <3>1 DEF NamingInv, PlannedInv, TypeInv, BatchInv, TaskType
    <3>3. t.file # s.file
      <4>1. SUFFICES ASSUME t.file = s.file PROVE FALSE
        OBVIOUS
      <4>2. t.batch = s.batch
        BY <2>2, <3>2, <4>1, OneBatch
      <4>3. QED
        BY <2>2, <3>1, <3>2, <4>1, <4>2 DEF OnceInv, SureTask
    <3>4. ~Of(u, t.batch, t.file)
      BY <3>3 DEF Of
    <3>5. QED
      BY <2>3, <2>4, <3>1, <3>3, <3>4 DEF NamingInv, Of
  <2>5. callback' # None => callback'.file \in Big
    BY <2>2, <2>3 DEF NamingInv
  <2>6. QED
    BY <1>1, <2>4, <2>5 DEF NamingInv
<1>3. CASE ~\E s \in tasks : Named(s)
  <2>1. UNCHANGED <<callback, given>>
    BY <1>3 DEF Next, Progress, Attach, ReadWhole, Posted, Failed, Unanswered, Send, SendNothing, RequestSlice,
       UploadEnd, KeepAlive, Written, WrittenTooLate, Disconnect, Connect, vars, uploader, history, server
  <2>2. \A r \in reading' : r \in reading \/ (reader # None /\ r.upload = reader)
    <3>1. CASE RequestSlice
      <4>1. \/ reading' = reading
            \/ /\ reader # None
               /\ reading' = reading \cup {[upload |-> reader, slice |-> Head(answers).slice]}
        BY <3>1 DEF RequestSlice
      <4>2. QED
        BY <4>1
    <3>2. CASE reading' \subseteq reading
      BY <3>2
    <3>3. QED
      BY <1>3, <3>1, <3>2 DEF Next, Progress, Attach, ReadWhole, Posted, Failed, Unanswered, Send, SendNothing,
         UploadEnd, KeepAlive, Written, WrittenTooLate, Disconnect, Connect, vars, uploader
  <2>3. reader # None => reader = callback
    BY DEF TypeInv, UploaderInv
  <2>4. ASSUME NEW t \in tasks', t.stage = "naming"
        PROVE  /\ t.file \in Big
               /\ ~Of(callback, t.batch, t.file)
               /\ \A r \in reading : ~Of(r.upload, t.batch, t.file)
               /\ \A g \in given : g[2] # t.file
    <3>1. CASE t \in tasks
      BY <2>4, <3>1 DEF NamingInv
    <3>2. CASE t \notin tasks
      <4>1. PICK b \in Batches : /\ t = ReadFile(b, Plan[b][next'[b]])
                                 /\ ~Planned(b, t.file) /\ Planned(b, t.file)'
        BY <2>4, <3>2, TasksCome
      <4>2. t.batch = b /\ t.file \in Big
        BY <2>4, <4>1 DEF ReadFile, Task
      <4>3. ~Of(callback, t.batch, t.file) /\ \A r \in reading : ~Of(r.upload, t.batch, t.file)
        BY <4>1, <4>2 DEF Of, PlannedInv
      <4>4. ASSUME NEW g \in given, g[2] = t.file PROVE FALSE
        <5>1. PICK c \in Batches : Planned(c, t.file)
          BY <4>4 DEF PlannedInv
        <5>2. c = b
          BY <4>1, <5>1, StaysPlanned, DistinctAssumption DEF Planned
        <5>3. QED
          BY <4>1, <5>1, <5>2
      <4>5. QED
        BY <4>2, <4>3, <4>4
    <3>3. QED
      BY <3>1, <3>2
  <2>5. ASSUME NEW t \in tasks', t.stage = "naming"
        PROVE  \A r \in reading' : ~Of(r.upload, t.batch, t.file)
    <3>1. TAKE r \in reading'
    <3>2. ~Of(callback, t.batch, t.file) /\ (r \in reading => ~Of(r.upload, t.batch, t.file))
      BY <2>4, <2>5
    <3>3. QED
      BY <2>2, <2>3, <3>2
  <2>6. QED
    BY <1>1, <2>1, <2>4, <2>5 DEF NamingInv
<1>4. QED
  BY <1>2, <1>3

-----------------------------------------------------------------------------
(***************************************************************************)
(* The upload in progress.                                                 *)
(***************************************************************************)
LEMMA ProtoSame ==
    ASSUME ProtoInv, UNCHANGED <<doubtful, partial, answers, writes, reader, reading, started, disk>>
    PROVE  ProtoInv'
  BY DEF ProtoInv, Stage, Reads, Live

\* Without doubt, an upload is in one of its stages.
LEMMA InStage ==
    ASSUME TypeInv, ProtoInv, ~doubtful, reader # None
    PROVE  /\ Stage(reader) /\ reader \in Uploads /\ reader.name \in Names /\ reader.file \in Files
           /\ \A n \in Names \ {reader.name} : partial[n] = <<>>
           /\ \A r \in reading : r.upload = reader => r \in [upload : {reader}, slice : 0..2]
  BY DEF TypeInv, UploaderInv, NoneOr, ProtoInv, Uploads

\* A step of node or of the reader for the upload u that stays in progress.
LEMMA ProtoBy ==
    ASSUME NEW u, reader' = u, u # None, Stage(u)',
           \A n \in Names \ {u.name} : partial'[n] = <<>>
    PROVE  ProtoInv'
  BY DEF ProtoInv, Stage, Reads, Live

LEMMA NamedProto ==
    ASSUME TypeInv, NamingInv, ProtoInv, NEW t \in tasks, Named(t)
    PROVE  ProtoInv'
<1>1. PICK u : u = [batch |-> t.batch, file |-> t.file, name |-> ServerName(t.file)]
  OBVIOUS
<1>2. UNCHANGED <<doubtful, partial, answers, writes, disk>>
  BY DEF Named, node
<1>3. CASE UNCHANGED uploader
  BY <1>2, <1>3, ProtoSame DEF uploader
<1>4. CASE ~UNCHANGED uploader
  <2>1. /\ reader = None /\ reader' = u /\ started' = FALSE
        /\ reading' = reading \cup {[upload |-> u, slice |-> 0]}
    BY <1>1, <1>4 DEF Named, Start
  <2>2. t.batch \in Batches /\ t.file \in Files /\ t.stage = "naming"
    BY DEF Named, TypeInv, BatchInv, TaskType
  <2>3. u \in Uploads
    BY <1>1, <2>2, NameFacts DEF Uploads
  <2>4. u # None /\ u.name \in Names
    BY <2>3, NoneAssumption DEF Uploads
  <2>5. \A r \in reading : r.upload # u
    <3>1. \A r \in reading : ~Of(r.upload, t.batch, t.file)
      BY <2>2 DEF NamingInv
    <3>2. u.batch = t.batch /\ u.file = t.file
      BY <1>1
    <3>3. QED
      BY <2>4, <3>1, <3>2 DEF Of
  <2>6. CASE doubtful'
    BY <2>6 DEF ProtoInv
  <2>7. CASE ~doubtful'
    <3>1. answers' = <<>> /\ Live' = {} /\ \A n \in Names : partial'[n] = <<>>
      BY <1>2, <2>1, <2>7 DEF ProtoInv, Live
    <3>2. Reads(u, {0})'
      BY <2>1, <2>5 DEF Reads
    <3>3. Stage(u)'
      BY <2>1, <2>4, <3>1, <3>2 DEF Stage
    <3>4. QED
      BY <2>1, <2>4, <3>1, <3>3, ProtoBy
  <2>8. QED
    BY <2>6, <2>7
<1>5. QED
  BY <1>3, <1>4

LEMMA TwoSlices ==
    ASSUME NEW a, NEW c
    PROVE  Append(<<a>>, c) = <<a, c>>
<1>1. SUFFICES ASSUME NEW s, s = Append(<<a>>, c), NEW t, t = <<a, c>> PROVE s = t
  OBVIOUS
<1> DEFINE S == {a, c}
<1>2. <<a>> \in Seq(S) /\ Len(<<a>>) = 1 /\ <<a>>[1] = a
  OBVIOUS
<1>3. s \in Seq(S) /\ Len(s) = 2 /\ s[1] = a /\ s[2] = c
  BY <1>1, <1>2, AppendProperties
<1>4. t \in Seq(S) /\ Len(t) = 2 /\ t[1] = a /\ t[2] = c
  BY <1>1
<1>5. \A i \in 1..Len(s) : s[i] = t[i]
  BY <1>3, <1>4
<1> HIDE DEF S
<1>6. QED
  BY <1>3, <1>4, <1>5, SeqEqual

LEMMA SendProto ==
    ASSUME TypeInv, ProtoInv, NEW r, Send(r)
    PROVE  ProtoInv'
<1> DEFINE u == r.upload
<1>1. CASE doubtful'
  BY <1>1 DEF ProtoInv
<1>2. CASE ~doubtful'
  <2>1. /\ ~doubtful /\ reader = u /\ reader # None /\ r \in reading /\ reading' = reading \ {r}
        /\ Accept(u.name, <<u.file, r.slice>>) /\ UNCHANGED <<reader, started, disk>>
    BY <1>2 DEF Send, Result
  <2>2. /\ Stage(u) /\ u.name \in Names
        /\ \A n \in Names \ {u.name} : partial[n] = <<>>
        /\ \A q \in reading : q.upload = u => q \in [upload : {u}, slice : 0..2]
    BY <2>1, InStage
  <2>3. partial \in [Names -> Content]
    BY DEF TypeInv, NodeInv
  <2>4. \A n \in Names \ {u.name} : partial'[n] = <<>>
    BY <2>1, <2>2, <2>3 DEF Accept
  <2>5. partial'[u.name] = Append(partial[u.name], <<u.file, r.slice>>)
    BY <2>1, <2>2, <2>3 DEF Accept
  <2>6. r \in [upload : {u}, slice : 0..2]
    BY <2>1, <2>2
  <2>7. CASE /\ Reads(u, {0}) /\ partial[u.name] = <<>> /\ answers = <<>> /\ Live = {} /\ ~started
    <3>1. r.slice = 0
      BY <2>1, <2>6, <2>7 DEF Reads
    <3>2. Reads(u, {})'
      BY <2>1, <2>6, <2>7, <3>1 DEF Reads
    <3>3. partial'[u.name] = First(u) /\ Len(partial[u.name]) + 1 = 1
      BY <2>5, <2>7, <3>1 DEF First
    <3>4. UNCHANGED writes /\ answers' = Asked(u)
      BY <2>1, <2>7, <3>3 DEF Accept, Asked
    <3>5. Live' = {} /\ ~started'
      BY <2>1, <2>7, <3>4 DEF Live
    <3>6. Stage(u)'
      BY <3>2, <3>3, <3>4, <3>5 DEF Stage
    <3>7. QED
      BY <2>1, <2>4, <3>6, ProtoBy
  <2>8. CASE /\ Reads(u, {1}) /\ partial[u.name] = First(u) /\ answers = <<>> /\ Live = {} /\ started
    <3>1. r.slice = 1
      BY <2>1, <2>6, <2>8 DEF Reads
    <3>2. Reads(u, {})'
      BY <2>1, <2>6, <2>8, <3>1 DEF Reads
    <3>3. partial'[u.name] = Whole(u.file) /\ Len(partial[u.name]) = 1
      <4>1. partial[u.name] = <<<<u.file, 0>>>>
        BY <2>8 DEF First
      <4>2. partial'[u.name] = Append(<<<<u.file, 0>>>>, <<u.file, 1>>)
        BY <2>5, <3>1, <4>1
      <4>3. Len(partial[u.name]) = 1
        BY <4>1
      <4>4. QED
        BY <4>2, <4>3, TwoSlices DEF Whole
    <3>4. UNCHANGED answers /\ writes' = writes \cup {Write(u)}
      <4>1. Len(partial[u.name]) + 1 >= 2
        BY <3>3
      <4>2. UNCHANGED answers
            /\ writes' = writes \cup {[name |-> u.name, content |-> partial'[u.name], live |-> TRUE]}
        BY <2>1, <4>1 DEF Accept
      <4>3. QED
        BY <3>3, <4>2 DEF Write
    <3>5. Write(u).live /\ Live' = {Write(u)} /\ started'
      BY <2>1, <2>8, <3>4 DEF Live, Write
    <3>6. Stage(u)'
      BY <2>8, <3>2, <3>4, <3>5 DEF Stage
    <3>7. QED
      BY <2>1, <2>4, <3>6, ProtoBy
  <2>9. ~Reads(u, {})
    BY <2>1, <2>6 DEF Reads
  <2>10. QED
    BY <2>2, <2>7, <2>8, <2>9 DEF Stage
<1>3. QED
  BY <1>1, <1>2

LEMMA RequestSliceProto ==
    ASSUME TypeInv, ProtoInv, RequestSlice
    PROVE  ProtoInv'
<1> DEFINE u == reader
<1>1. CASE doubtful
  BY <1>1 DEF RequestSlice, ProtoInv, history, server
<1>2. CASE ~doubtful
  <2>1. answers # <<>> /\ Head(answers).kind = "slice" /\ answers' = Tail(answers)
    BY DEF RequestSlice, NextAnswer
  <2>2. reader # None /\ Stage(reader) /\ \A n \in Names \ {reader.name} : partial[n] = <<>>
    BY <1>2, <2>1, InStage DEF ProtoInv
  <2>3. /\ Reads(u, {}) /\ partial[u.name] = First(u) /\ answers = Asked(u) /\ Live = {} /\ ~started
    <3>1. answers # Ended(u)
      BY <2>1 DEF Ended
    <3>2. QED
      BY <2>1, <2>2, <3>1 DEF Stage
  <2>4. Idle(reader)
    BY <1>2, <2>2, <2>3, InStage DEF Idle, Reads
  <2>5. Head(answers).slice = 1 /\ answers' = <<>>
    BY <2>1, <2>3 DEF Asked
  <2>6. /\ reading' = reading \cup {[upload |-> u, slice |-> 1]} /\ started' = TRUE
        /\ UNCHANGED <<partial, writes, disk, reader>>
    BY <2>2, <2>4, <2>5 DEF RequestSlice
  <2>7. ASSUME NEW v, v = reader PROVE Stage(v)'
    <3>1. Reads(v, {1})'
      BY <2>3, <2>6, <2>7 DEF Reads
    <3>2. partial'[v.name] = First(v) /\ Live' = {}
      BY <2>3, <2>6, <2>7 DEF First, Live
    <3>3. QED
      BY <2>5, <2>6, <3>1, <3>2 DEF Stage
  <2>8. QED
    BY <2>2, <2>6, <2>7, ProtoBy
<1>3. QED
  BY <1>1, <1>2

\* Without doubt, an answer that ends an upload ends the one in progress.
LEMMA EndsItself ==
    ASSUME TypeInv, ProtoInv, UploadEnd, ~doubtful
    PROVE  /\ reader # None /\ reader = callback /\ started
           /\ answers = Ended(reader) /\ Live = {} /\ Reads(reader, {})
           /\ disk[reader.name] = Whole(reader.file)
           /\ \A n \in Names : partial[n] = <<>>
<1>1. answers # <<>> /\ Head(answers).kind = "end"
  BY DEF UploadEnd, NextAnswer
<1>2. reader # None /\ Stage(reader) /\ reader.name \in Names
      /\ \A n \in Names \ {reader.name} : partial[n] = <<>>
  BY <1>1, InStage DEF ProtoInv
<1>3. answers # Asked(reader)
  BY <1>1 DEF Asked
<1>4. reader = callback
  BY <1>2 DEF TypeInv, UploaderInv
<1>5. QED
  BY <1>1, <1>2, <1>3, <1>4 DEF Stage

LEMMA WrittenProto ==
    ASSUME TypeInv, ProtoInv, NEW w, NEW well \in BOOLEAN, Written(w, well)
    PROVE  ProtoInv'
<1> DEFINE u == reader
<1>1. CASE doubtful
  BY <1>1 DEF Written, ProtoInv, history, server
<1>2. CASE ~doubtful
  <2>1. w \in Live /\ writes' = writes \ {w}
    BY DEF Written, Live
  <2>2. reader # None /\ Stage(reader) /\ reader.name \in Names
        /\ \A n \in Names \ {reader.name} : partial[n] = <<>>
    BY <1>2, <2>1, InStage DEF ProtoInv
  <2>3. /\ Reads(u, {}) /\ answers = <<>> /\ Live = {Write(u)} /\ started
    BY <2>1, <2>2 DEF Stage
  <2>4. w = Write(u) /\ w.name = u.name /\ w.content = Whole(u.file)
    BY <2>1, <2>3 DEF Write
  <2>5. partial \in [Names -> Content] /\ disk \in [Names -> Content]
    BY DEF TypeInv, NodeInv
  <2>6. Live' = {}
    BY <2>1, <2>3, <2>4 DEF Live
  <2>7. partial'[u.name] = <<>> /\ \A n \in Names \ {u.name} : partial'[n] = <<>>
    BY <2>2, <2>4, <2>5 DEF Written
  <2>8. answers' = <<>> \/ (answers' = Ended(u) /\ disk'[u.name] = Whole(u.file))
    <3>1. CASE well
      <4>1. answers' = Append(<<>>, [kind |-> "end", slice |-> 0, name |-> u.name])
        BY <2>3, <2>4, <3>1 DEF Written
      <4>2. answers' = Ended(u)
        BY <4>1 DEF Ended
      <4>3. disk'[u.name] = Whole(u.file)
        BY <2>2, <2>4, <2>5, <3>1 DEF Written
      <4>4. QED
        BY <4>2, <4>3
    <3>2. CASE ~well
      BY <2>3, <3>2 DEF Written
    <3>3. QED
      BY <3>1, <3>2
  <2>9. UNCHANGED <<reader, reading, started>>
    BY DEF Written, uploader
  <2>10. ASSUME NEW v, v = reader PROVE Stage(v)'
    <3>1. Reads(v, {})'
      BY <2>3, <2>9, <2>10 DEF Reads
    <3>2. QED
      BY <2>3, <2>6, <2>7, <2>8, <2>9, <2>10, <3>1 DEF Stage, Ended
  <2>11. QED
    BY <2>2, <2>7, <2>9, <2>10, ProtoBy
<1>3. QED
  BY <1>1, <1>2

LEMMA BreakProto ==
    ASSUME TypeInv, Break, NEW old \in SUBSET writes, writes' = {[x EXCEPT !.live = FALSE] : x \in old}
    PROVE  ProtoInv' /\ reader' = None /\ \A w \in writes' : ~w.live /\ \E x \in old : w.name = x.name
<1>1. \A x \in old : x \in WriteType
  BY DEF TypeInv, NodeInv
<1>2. \A w \in writes' : ~w.live /\ \E x \in old : w.name = x.name
  BY <1>1 DEF WriteType
<1>3. reader' = None /\ answers' = <<>> /\ \A n \in Names : partial'[n] = <<>>
  BY DEF Break, Drop
<1>4. Live' = {}
  BY <1>2 DEF Live
<1>5. QED
  BY <1>2, <1>3, <1>4 DEF ProtoInv

LEMMA ProtoStep == TypeInv /\ NamingInv /\ ProtoInv /\ [Next]_vars => ProtoInv'
<1> SUFFICES ASSUME TypeInv, NamingInv, ProtoInv, [Next]_vars PROVE ProtoInv'
  OBVIOUS
<1>1. ASSUME \/ UNCHANGED vars \/ Connect \/ \E b \in Batches : Attach(b)
             \/ \E t \in tasks : ReadWhole(t) \/ Failed(t) \/ Unanswered(t) \/ Posted(t)
      PROVE  ProtoInv'
  BY <1>1, ProtoSame DEF Connect, Attach, ReadWhole, Failed, Unanswered, Posted, vars, uploader, node, history, server
<1>2. ASSUME NEW r \in reading, SendNothing(r) PROVE ProtoInv'
  <2>1. reader = None /\ UNCHANGED <<doubtful, partial, answers, writes, reader>>
    BY <1>2 DEF SendNothing, node, history, server
  <2>2. QED
    BY <2>1 DEF ProtoInv, Live
<1>3. CASE UploadEnd
  <2>1. CASE doubtful
    BY <1>3, <2>1 DEF UploadEnd, ProtoInv, history, server
  <2>2. CASE ~doubtful
    <3>1. answers' = Tail(answers) /\ reader' = None /\ UNCHANGED <<partial, writes>>
      BY <1>3 DEF UploadEnd
    <3>2. answers' = <<>>
      <4>1. answers = <<[kind |-> "end", slice |-> 0, name |-> reader.name]>>
        BY <1>3, <2>2, EndsItself DEF Ended
      <4>2. QED
        BY <3>1, <4>1
    <3>3. QED
      BY <1>3, <2>2, <3>1, <3>2, EndsItself DEF ProtoInv, Live
  <2>3. QED
    BY <2>1, <2>2
<1>4. CASE KeepAlive
  BY <1>4 DEF KeepAlive, Drop, ProtoInv, Live, node
<1>5. CASE Disconnect
  BY <1>5, BreakProto DEF Disconnect
<1>6. ASSUME NEW w \in writes, WrittenTooLate(w) PROVE ProtoInv'
  <2>1. writes \ {w} \in SUBSET writes
    OBVIOUS
  <2>2. QED
    BY <1>6, <2>1, BreakProto DEF WrittenTooLate
<1>7. QED
  BY <1>1, <1>2, <1>3, <1>4, <1>5, <1>6, NamedProto, SendProto, RequestSliceProto, WrittenProto
     DEF Next, Progress

-----------------------------------------------------------------------------
(***************************************************************************)
(* A file is in one place.                                                 *)
(***************************************************************************)
LEMMA UploadingIs ==
    ASSUME TypeInv, NEW b, NEW f, Uploading(b, f)
    PROVE  Of(callback, b, f)
  BY DEF Uploading, Of, TypeInv, UploaderInv

LEMMA TaskFacts ==
    ASSUME TypeInv, NEW t \in tasks
    PROVE  t.batch \in Batches /\ t.file \in Files
  BY DEF TypeInv, BatchInv, TaskType

\* Nothing is new but that a task goes away or the uploader is freed.
LEMMA OnceLess ==
    ASSUME OnceInv, tasks' \subseteq tasks, UNCHANGED <<rows, twice>>,
           \A b \in Batches : \A f \in Files : Uploading(b, f)' => Uploading(b, f)
    PROVE  OnceInv'
<1>1. ASSUME NEW b \in Batches, NEW f \in Files
      PROVE  /\ \A s, t \in tasks' : SureTask(s, b, f)' /\ SureTask(t, b, f)' => s = t
             /\ \A t \in tasks' : SureTask(t, b, f)' => ~Uploading(b, f)' /\ ~SureRow(b, f)'
             /\ Uploading(b, f)' => ~SureRow(b, f)'
  BY DEF OnceInv, SureTask, SureRow
<1>2. QED
  BY <1>1 DEF OnceInv

\* A task goes on with its file.
LEMMA OnceMoved ==
    ASSUME TypeInv, OnceInv, NEW s \in tasks, s.sure, NEW n, n.batch = s.batch, n.file = s.file,
           tasks' = (tasks \ {s}) \cup {n}, UNCHANGED <<rows, twice, uploader>>
    PROVE  OnceInv'
<1>1. ASSUME NEW b \in Batches, NEW f \in Files
      PROVE  /\ \A x, y \in tasks' : SureTask(x, b, f)' /\ SureTask(y, b, f)' => x = y
             /\ \A t \in tasks' : SureTask(t, b, f)' => ~Uploading(b, f)' /\ ~SureRow(b, f)'
             /\ Uploading(b, f)' => ~SureRow(b, f)'
  <2>1. Uploading(b, f)' <=> Uploading(b, f)
    BY DEF Uploading, uploader
  <2>2. SureRow(b, f)' <=> SureRow(b, f)
    BY DEF SureRow
  <2>3. \A x \in tasks' : SureTask(x, b, f)' =>
          (x = n /\ SureTask(s, b, f)) \/ (x # s /\ SureTask(x, b, f))
    BY DEF SureTask
  <2>4. QED
    BY <2>1, <2>2, <2>3 DEF OnceInv, SureTask
<1>2. QED
  BY <1>1 DEF OnceInv

\* What the uploader had goes on as a task.
LEMMA OnceFreed ==
    ASSUME TypeInv, OnceInv, NEW n, n.sure => Uploading(n.batch, n.file),
           tasks' = tasks \cup {n}, UNCHANGED <<rows, twice>>,
           n.sure => \A b, f : ~Uploading(b, f)',
           \A b \in Batches : \A f \in Files : Uploading(b, f)' => Uploading(b, f)
    PROVE  OnceInv'
<1>1. ASSUME NEW b \in Batches, NEW f \in Files
      PROVE  /\ \A x, y \in tasks' : SureTask(x, b, f)' /\ SureTask(y, b, f)' => x = y
             /\ \A t \in tasks' : SureTask(t, b, f)' => ~Uploading(b, f)' /\ ~SureRow(b, f)'
             /\ Uploading(b, f)' => ~SureRow(b, f)'
  <2>1. SureRow(b, f)' <=> SureRow(b, f)
    BY DEF SureRow
  <2>2. \A x \in tasks' : SureTask(x, b, f)' =>
          SureTask(x, b, f) \/ (x = n /\ n.sure /\ Uploading(b, f))
    BY DEF SureTask
  <2>3. QED
    BY <2>1, <2>2 DEF OnceInv, SureTask
<1>2. QED
  BY <1>1 DEF OnceInv

LEMMA NamedOnce ==
    ASSUME TypeInv, NamingInv, OnceInv, NEW s \in tasks, Named(s)
    PROVE  OnceInv'
<1>1. s.sure /\ s.batch \in Batches /\ s.file \in Files
  BY TaskFacts DEF Named, NamingInv
<1>2. UNCHANGED <<rows, twice>>
  BY DEF Named, server
<1>3. CASE UNCHANGED uploader
  <2>1. tasks' = tasks \ {s} \/ tasks' = (tasks \ {s}) \cup {Task(s.batch, s.file, "reading")}
    BY DEF Named, Start
  <2>2. \A b, f : Uploading(b, f)' => Uploading(b, f)
    BY <1>3 DEF Uploading, uploader
  <2>3. CASE tasks' = tasks \ {s}
    BY <1>2, <2>2, <2>3, OnceLess
  <2>4. CASE tasks' = (tasks \ {s}) \cup {Task(s.batch, s.file, "reading")}
    BY <1>1, <1>2, <1>3, <2>4, OnceMoved DEF Task
  <2>5. QED
    BY <2>1, <2>3, <2>4
<1>4. CASE ~UNCHANGED uploader
  <2>1. /\ tasks' = tasks \ {s}
        /\ reader' = [batch |-> s.batch, file |-> s.file, name |-> ServerName(s.file)]
        /\ callback' = reader'
    BY <1>4 DEF Named, Start
  <2>2. \A b, f : Uploading(b, f)' => b = s.batch /\ f = s.file
    BY <2>1 DEF Uploading, Of
  <2>3. ASSUME NEW b \in Batches, NEW f \in Files
        PROVE  /\ \A x, y \in tasks' : SureTask(x, b, f)' /\ SureTask(y, b, f)' => x = y
               /\ \A t \in tasks' : SureTask(t, b, f)' => ~Uploading(b, f)' /\ ~SureRow(b, f)'
               /\ Uploading(b, f)' => ~SureRow(b, f)'
    <3>1. SureRow(b, f)' <=> SureRow(b, f)
      BY <1>2 DEF SureRow
    <3>2. \A x \in tasks' : x # s /\ x \in tasks /\ (SureTask(x, b, f)' <=> SureTask(x, b, f))
      BY <2>1 DEF SureTask
    <3>3. Uploading(b, f)' => SureTask(s, b, f)
      BY <1>1, <2>2 DEF SureTask
    <3>4. QED
      BY <3>1, <3>2, <3>3 DEF OnceInv
  <2>4. QED
    BY <1>2, <2>3 DEF OnceInv
<1>5. QED
  BY <1>3, <1>4

\* The batches go on to files that nothing has seen.
LEMMA OnceNew ==
    ASSUME TypeInv, PlannedInv, OnceInv, NEW bs \in SUBSET Batches, NEW old \in SUBSET tasks,
           UploadNext(bs, old), \A c \in bs : next[c] < Len(Plan[c]), UNCHANGED uploader,
           NEW t, rows' = rows \/ (t \in tasks \ old /\ rows' = rows \cup {Row(t)}),
           NEW b \in Batches, NEW f \in Files
    PROVE  /\ \A x, y \in tasks' : SureTask(x, b, f)' /\ SureTask(y, b, f)' => x = y
           /\ \A x \in tasks' : SureTask(x, b, f)' => ~Uploading(b, f)' /\ ~SureRow(b, f)'
           /\ Uploading(b, f)' => ~SureRow(b, f)'
<1>1. Uploading(b, f)' <=> Uploading(b, f)
  BY DEF Uploading, uploader
<1>2. SureRow(b, f)' => SureRow(b, f) \/ (t \in tasks \ old /\ SureTask(t, b, f))
  BY DEF SureRow, SureTask, Row
<1>3. ASSUME NEW x \in tasks', SureTask(x, b, f)', x \notin old
      PROVE  ~Planned(b, f) /\ x = ReadFile(b, f)
  <2>1. PICK c \in bs : x = ReadFile(c, Plan[c][next[c] + 1])
    BY <1>3 DEF UploadNext
  <2>2. c = b /\ f = Plan[b][next[b] + 1]
    BY <1>3, <2>1 DEF SureTask, ReadFile, Task
  <2>3. QED
    BY <2>1, <2>2, GoesOn
<1>4. ~Planned(b, f) => /\ ~Uploading(b, f) /\ ~SureRow(b, f)
                        /\ \A x \in tasks : ~SureTask(x, b, f)
  BY UploadingIs DEF PlannedInv, SureTask, SureRow, Of
<1>5. \A x \in tasks' : SureTask(x, b, f)' /\ x \in old => SureTask(x, b, f)
  BY DEF SureTask
<1>6. ASSUME NEW x \in tasks', NEW y \in tasks', SureTask(x, b, f)', SureTask(y, b, f)'
      PROVE  x = y
  BY <1>3, <1>4, <1>5, <1>6 DEF OnceInv
<1>7. ASSUME NEW x \in tasks', SureTask(x, b, f)'
      PROVE  ~Uploading(b, f)' /\ ~SureRow(b, f)'
  BY <1>1, <1>2, <1>3, <1>4, <1>5, <1>7 DEF OnceInv
<1>8. Uploading(b, f)' => ~SureRow(b, f)'
  BY <1>1, <1>2 DEF OnceInv
<1>9. QED
  BY <1>6, <1>7, <1>8

LEMMA PostedOnce ==
    ASSUME TypeInv, PlannedInv, OnceInv, NEW t \in tasks, Posted(t) \/ Unanswered(t)
    PROVE  OnceInv'
<1>1. t.batch \in Batches /\ t.file \in Files
  BY TaskFacts
<1>2. (Save(t) \/ UNCHANGED server) /\ UNCHANGED uploader
  BY DEF Posted, Unanswered
<1>3. /\ rows \subseteq rows' /\ (rows' = rows \/ rows' = rows \cup {Row(t)})
      /\ \/ twice' = twice
         \/ /\ twice' = twice \cup {t.file} /\ rows' = rows \cup {Row(t)}
            /\ \E r \in rows : r.batch = t.batch /\ r.file = t.file
      /\ Row(t).file = t.file /\ Row(t).sure = t.sure
  BY <1>2, SaveFacts
<1>4. PICK going \in SUBSET Batches : /\ UploadNext(going, tasks \ {t})
                                      /\ \A b \in going : next[b] < Len(Plan[b])
  BY PostedGoesOn
<1>5. ASSUME NEW b \in Batches, NEW f \in Files
      PROVE  /\ \A x, y \in tasks' : SureTask(x, b, f)' /\ SureTask(y, b, f)' => x = y
             /\ \A x \in tasks' : SureTask(x, b, f)' => ~Uploading(b, f)' /\ ~SureRow(b, f)'
             /\ Uploading(b, f)' => ~SureRow(b, f)'
  <2>1. tasks \ {t} \in SUBSET tasks /\ t \in tasks \ (tasks \ {t})
    OBVIOUS
  <2>2. QED
    BY <1>2, <1>3, <1>4, <2>1, OnceNew
<1>6. ASSUME NEW f \in twice' PROVE \E r \in rows' : r.file = f /\ ~r.sure
  <2>1. CASE f \in twice
    BY <1>3, <2>1 DEF OnceInv
  <2>2. CASE f \notin twice
    <3>1. /\ f = t.file /\ rows' = rows \cup {Row(t)}
          /\ \E r \in rows : r.batch = t.batch /\ r.file = t.file
      BY <1>3, <1>6, <2>2
    <3>2. CASE t.sure
      BY <1>1, <1>3, <3>1, <3>2 DEF OnceInv, SureTask, SureRow
    <3>3. CASE ~t.sure
      BY <1>3, <3>1, <3>3
    <3>4. QED
      BY <3>2, <3>3
  <2>3. QED
    BY <2>1, <2>2
<1>7. QED
  BY <1>5, <1>6 DEF OnceInv

LEMMA OnceStep ==
    TypeInv /\ PlannedInv /\ NamingInv /\ ProtoInv /\ OnceInv /\ [Next]_vars => OnceInv'
<1> SUFFICES ASSUME TypeInv, PlannedInv, NamingInv, ProtoInv, OnceInv, [Next]_vars PROVE OnceInv'
  OBVIOUS
<1>1. ASSUME NEW b \in Batches, Attach(b) PROVE OnceInv'
  <2>1. UploadNext({b}, tasks) /\ next[b] = 0 /\ UNCHANGED <<uploader, rows, twice>>
    BY <1>1 DEF Attach, history, server
  <2>2. \A c \in {b} : next[c] < Len(Plan[c])
    BY <2>1, PlanFacts
  <2>3. \A c \in Batches : \A f \in Files :
          /\ \A x, y \in tasks' : SureTask(x, c, f)' /\ SureTask(y, c, f)' => x = y
          /\ \A x \in tasks' : SureTask(x, c, f)' => ~Uploading(c, f)' /\ ~SureRow(c, f)'
          /\ Uploading(c, f)' => ~SureRow(c, f)'
    BY <2>1, <2>2, OnceNew
  <2>4. QED
    BY <2>1, <2>3 DEF OnceInv
<1>2. ASSUME NEW t \in tasks, ReadWhole(t) PROVE OnceInv'
  <2>1. t.sure
    BY <1>2 DEF ReadWhole, NamingInv
  <2>2. PICK n : n = ToServer(t.batch, t.file, args'[t.batch], TRUE)
    OBVIOUS
  <2>3. n.batch = t.batch /\ n.file = t.file
    BY <2>2 DEF ToServer
  <2>4. tasks' = (tasks \ {t}) \cup {n} /\ UNCHANGED <<rows, twice, uploader>>
    BY <1>2, <2>2 DEF ReadWhole, history, server
  <2>5. QED
    BY <2>1, <2>3, <2>4, OnceMoved
<1>3. CASE UploadEnd
  <2>1. PICK n : n = ToServer(callback.batch, callback.file, args'[callback.batch], ~doubtful)
    OBVIOUS
  <2>2. n.batch = callback.batch /\ n.file = callback.file /\ n.sure = ~doubtful
    BY <2>1 DEF ToServer
  <2>3. tasks' = tasks \cup {n} /\ reader' = None /\ UNCHANGED <<rows, twice, started, timer, callback>>
    BY <1>3, <2>1 DEF UploadEnd, history, server
  <2>4. \A b, f : Uploading(b, f)' => Uploading(b, f)
    BY <2>3 DEF Uploading, Of
  <2>5. ASSUME n.sure PROVE Uploading(n.batch, n.file) /\ \A b, f : ~Uploading(b, f)'
    <3>1. ~doubtful
      BY <2>2, <2>5 DEF TypeInv, HistoryInv
    <3>2. reader # None /\ reader = callback /\ started
      BY <1>3, <3>1, EndsItself
    <3>3. QED
      BY <2>2, <2>3, <3>2 DEF Uploading, Of
  <2>6. QED
    BY <2>3, <2>4, <2>5, OnceFreed
<1>4. CASE KeepAlive
  <2>1. timer /\ timer' = FALSE /\ reader' = None /\ UNCHANGED <<rows, twice>> /\ callback # None
    BY <1>4, BegunType DEF KeepAlive, Drop, server
  <2>2. \A b, f : ~Uploading(b, f)'
    BY <2>1 DEF Uploading, Of
  <2>3. CASE started
    BY <1>4, <2>1, <2>2, <2>3, OnceLess DEF KeepAlive
  <2>4. CASE ~started
    <3>1. PICK n : n = Task(callback.batch, callback.file, "reading")
      OBVIOUS
    <3>2. n.batch = callback.batch /\ n.file = callback.file
      BY <3>1 DEF Task
    <3>3. Uploading(n.batch, n.file)
      BY <2>1, <2>4, <3>2 DEF Uploading, Of
    <3>4. tasks' = tasks \cup {n}
      BY <1>4, <2>4, <3>1 DEF KeepAlive
    <3>5. QED
      BY <2>1, <2>2, <3>3, <3>4, OnceFreed
  <2>5. QED
    BY <2>3, <2>4
<1>5. ASSUME tasks' \subseteq tasks, UNCHANGED <<rows, twice, callback>>,
             reader' = reader \/ reader' = None,
             timer' /\ ~started' => (timer /\ ~started) \/ (reader # None /\ reader' = reader)
      PROVE  OnceInv'
  <2>1. \A b, f : Uploading(b, f)' => Uploading(b, f)
    BY <1>5 DEF Uploading, Of, TypeInv, UploaderInv
  <2>2. QED
    BY <1>5, <2>1, OnceLess
<1>6. CASE Disconnect \/ \E w \in writes : WrittenTooLate(w)
  BY <1>5, <1>6 DEF Disconnect, WrittenTooLate, Break, Drop, server
<1>7. CASE RequestSlice \/ \E r \in reading : Send(r) \/ SendNothing(r)
  BY <1>5, <1>7 DEF RequestSlice, Send, SendNothing, history, server
<1>8. CASE Connect \/ UNCHANGED vars
  BY <1>5, <1>8 DEF Connect, vars, uploader, history, server
<1>9. ASSUME NEW t \in tasks, Failed(t) PROVE OnceInv'
  BY <1>5, <1>9 DEF Failed, uploader, server
<1>10. ASSUME NEW w \in writes, NEW well \in BOOLEAN, Written(w, well) PROVE OnceInv'
  BY <1>5, <1>10 DEF Written, uploader, history, server
<1>11. QED
  BY <1>1, <1>2, <1>3, <1>4, <1>6, <1>7, <1>8, <1>9, <1>10, NamedOnce, PostedOnce
     DEF Next, Progress

-----------------------------------------------------------------------------
(***************************************************************************)
(* The files of a batch have their rows in the order of the plan.          *)
(***************************************************************************)
\* Only a batch that goes on has another file under way.
LEMMA OrderKept ==
    ASSUME OrderInv, UNCHANGED <<next, listening, rows, instead>>, moved \subseteq moved',
           \A t \in tasks' : ~t.sure => t \in tasks \/ t.batch \in moved',
           \A b \in Batches \ moved' : \A f \in Files : Busy(b, f)' => Busy(b, f)
    PROVE  OrderInv'
<1>1. NoneIsSkipped'
  BY DEF OrderInv, NoneIsSkipped, Replaced, Done
<1>2. \A t \in tasks' : ~t.sure => t.batch \in moved'
  BY DEF OrderInv
<1>3. ASSUME NEW b \in Batches \ moved', NEW f \in Files, Busy(b, f)'
      PROVE  next'[b] > 0 /\ f = Plan[b][next'[b]]
  BY <1>3 DEF OrderInv
<1>4. QED
  BY <1>1, <1>2, <1>3 DEF OrderInv

LEMMA NamedOrder ==
    ASSUME TypeInv, NamingInv, OrderInv, NEW s \in tasks, Named(s)
    PROVE  OrderInv'
<1>1. s.sure /\ UNCHANGED <<next, listening, moved, rows, instead>>
  BY DEF Named, NamingInv, batch, server
<1>2. ASSUME NEW t \in tasks' PROVE t \in tasks \/ t = Task(s.batch, s.file, "reading")
  BY <1>2 DEF Named, Start
<1>3. ASSUME NEW b \in Batches, NEW f \in Files, Uploading(b, f)'
      PROVE  Uploading(b, f) \/ SureTask(s, b, f)
  <2>1. CASE UNCHANGED uploader
    BY <1>3, <2>1 DEF Uploading, uploader
  <2>2. CASE ~UNCHANGED uploader
    <3>1. callback' = reader' /\ reader' = [batch |-> s.batch, file |-> s.file, name |-> ServerName(s.file)]
      BY <2>2 DEF Named, Start
    <3>2. b = s.batch /\ f = s.file
      BY <1>3, <3>1 DEF Uploading, Of
    <3>3. QED
      BY <1>1, <3>2 DEF SureTask
  <2>3. QED
    BY <2>1, <2>2
<1>4. ASSUME NEW b \in Batches, NEW f \in Files, NEW t \in tasks', SureTask(t, b, f)'
      PROVE  SureTask(t, b, f) \/ SureTask(s, b, f)
  BY <1>1, <1>2, <1>4 DEF SureTask, Task
<1>5. ASSUME NEW b \in Batches, NEW f \in Files, Busy(b, f)' PROVE Busy(b, f)
  <2>1. CASE Uploading(b, f)'
    BY <1>3, <2>1 DEF Busy
  <2>2. ASSUME NEW t \in tasks', SureTask(t, b, f)' PROVE Busy(b, f)
    <3>1. SureTask(t, b, f) \/ SureTask(s, b, f)
      BY <1>4, <2>2
    <3>2. QED
      BY <3>1 DEF Busy, SureTask
  <2>3. QED
    BY <1>5, <2>1, <2>2 DEF Busy
<1>6. \A t \in tasks' : ~t.sure => t \in tasks
  BY <1>2 DEF Task
<1>7. QED
  BY <1>1, <1>5, <1>6, OrderKept

\* The other steps that leave the batches where they are.
LEMMA StillOrder ==
    ASSUME TypeInv, ProtoInv, OrderInv, UNCHANGED <<next, listening, moved, rows, instead>>,
           tasks' \subseteq tasks, UNCHANGED callback, reader' = reader \/ reader' = None,
           timer' /\ ~started' => (timer /\ ~started) \/ (reader # None /\ reader' = reader)
    PROVE  OrderInv'
<1>1. \A b, f : Uploading(b, f)' => Uploading(b, f)
  BY DEF Uploading, Of, TypeInv, UploaderInv
<1>2. ASSUME NEW b \in Batches, NEW f \in Files, Busy(b, f)' PROVE Busy(b, f)
  BY <1>1, <1>2 DEF Busy, SureTask
<1>3. QED
  BY <1>2, OrderKept

\* The uploader hands its file on.
LEMMA FreedOrder ==
    ASSUME OrderInv, UNCHANGED <<next, listening, rows, instead, callback>>,
           moved \subseteq moved', reader' = None, NEW n, tasks' = tasks \cup {n},
           n.sure => Uploading(n.batch, n.file), ~n.sure => n.batch \in moved',
           timer' /\ ~started' => timer /\ ~started
    PROVE  OrderInv'
<1>1. \A b, f : Uploading(b, f)' => Uploading(b, f)
  BY DEF Uploading, Of
<1>2. ASSUME NEW b \in Batches, NEW f \in Files, Busy(b, f)' PROVE Busy(b, f)
  BY <1>1, <1>2 DEF Busy, SureTask
<1>3. QED
  BY <1>2, OrderKept

LEMMA AttachOrder ==
    ASSUME TypeInv, PlannedInv, OrderInv, NEW a \in Batches, Attach(a)
    PROVE  OrderInv'
<1>1. /\ UploadNext({a}, tasks) /\ next[a] = 0 /\ UNCHANGED <<uploader, rows, instead, moved>>
      /\ \A c \in {a} : next[c] < Len(Plan[c])
  BY PlanFacts DEF Attach, history, server
<1>2. next'[a] = 1 /\ \A b \in Batches \ {a} : next'[b] = next[b]
  BY <1>1 DEF UploadNext, TypeInv, BatchInv
<1>3. \A t \in tasks' : ~t.sure => t.batch \in moved'
  BY <1>1 DEF UploadNext, ReadFile, Task, OrderInv
<1>4. \A f : ~Planned(a, f)
  <2>1. \A i \in DOMAIN Plan[a] : ~(i <= next[a])
    BY <1>1, PlanFacts, LenProperties
  <2>2. QED
    BY <2>1 DEF Planned
<1>5. ASSUME NEW b \in Batches \ moved', NEW f \in Files, Busy(b, f)'
      PROVE  next'[b] > 0 /\ f = Plan[b][next'[b]]
  <2>1. Uploading(b, f)' <=> Uploading(b, f)
    BY <1>1 DEF Uploading, uploader
  <2>2. ASSUME NEW t \in tasks', SureTask(t, b, f)'
        PROVE  SureTask(t, b, f) \/ (b = a /\ f = Plan[a][next[a] + 1])
    BY <1>1, <2>2 DEF UploadNext, SureTask, ReadFile, Task
  <2>3. Busy(b, f) \/ (b = a /\ f = Plan[a][next[a] + 1])
    <3>1. CASE Uploading(b, f)'
      BY <2>1, <3>1 DEF Busy
    <3>2. CASE \E t \in tasks' : SureTask(t, b, f)'
      BY <2>2, <3>2 DEF Busy, SureTask
    <3>3. QED
      BY <1>5, <3>1, <3>2 DEF Busy
  <2>4. CASE b = a
    <3>1. ~Busy(b, f)
      BY <1>4, <2>4, UploadingIs DEF Busy, PlannedInv, Of, SureTask
    <3>2. QED
      BY <1>1, <1>2, <2>3, <2>4, <3>1
  <2>5. CASE b # a
    BY <1>1, <1>2, <1>5, <2>3, <2>5 DEF OrderInv
  <2>6. QED
    BY <2>4, <2>5
<1>6. NoneIsSkipped'
  <2>1. ASSUME NEW b \in Batches \ moved', NEW i \in Done(b)'
        PROVE  (\E r \in rows' : r.file = Plan[b][i]) \/ Replaced(b, i)'
    <3>1. listening' = [listening EXCEPT ![a] = TRUE] /\ listening \in [Batches -> BOOLEAN]
      BY DEF Attach, TypeInv, BatchInv
    <3>2. b \in Batches \ moved /\ i \in Done(b)
      <4>1. CASE b = a
        BY <1>2, <2>1, <3>1, <4>1 DEF Done
      <4>2. CASE b # a
        <5>1. listening'[b] = listening[b] /\ next'[b] = next[b]
          BY <1>2, <3>1, <4>2
        <5>2. QED
          BY <1>1, <2>1, <5>1 DEF Done
      <4>3. QED
        BY <4>1, <4>2
    <3>3. (\E r \in rows : r.file = Plan[b][i]) \/ Replaced(b, i)
      BY <3>2 DEF OrderInv, NoneIsSkipped
    <3>4. QED
      BY <1>1, <3>3 DEF Replaced
  <2>2. QED
    BY <2>1 DEF NoneIsSkipped
<1>7. QED
  BY <1>3, <1>5, <1>6 DEF OrderInv

\* The file that the server has just taken, or answered for, while its batch has
\* not been misled.
LEMMA SavedIsNotSkipped ==
    ASSUME TypeInv, PlannedInv, DataInv, NEW t \in tasks, t.stage = "posting", Save(t),
           NEW b \in Batches \ moved, b = t.batch,
           NEW k, k = next[b], k > 0, t.file = Plan[b][k]
    PROVE  (\E r \in rows' : r.file = Plan[b][k]) \/ Replaced(b, k)'
<1>1. t.file \in Files /\ k \in Nat /\ k \in DOMAIN Plan[b]
  BY TaskFacts, PlanFacts, LenProperties DEF TypeInv, BatchInv
<1>2. CASE ~Duplicate(t)
  <2>1. Row(t) \in rows' /\ Row(t).file = t.file
    BY <1>2 DEF Save, Row
  <2>2. QED
    BY <2>1
<1>3. CASE Duplicate(t)
  <2>1. PICK r \in rows : r.data = t.data /\ t.data # None
    BY <1>3 DEF Duplicate
  <2>2. rows' = rows /\ instead' = instead \cup {<<t.file, t.data>>}
    BY <1>3 DEF Save
  <2>3. CASE t.data = t.file
    <3>1. CASE r.data = r.file
      BY <2>1, <2>2, <2>3, <3>1
    <3>2. CASE r.data # r.file
      <4>1. CarriedIn(r.batch, r.file, r.data)
        BY <2>1, <3>2 DEF DataInv
      <4>2. r.batch \in Batches /\ Planned(r.batch, r.file)
        BY DEF PlannedInv
      <4>3. PICK i \in DOMAIN Plan[r.batch], j \in DOMAIN Plan[r.batch] :
               /\ Plan[r.batch][i] = t.file /\ Plan[r.batch][j] = r.file
               /\ i < j \/ r.batch \in moved
        BY <2>1, <2>3, <4>1 DEF CarriedIn
      <4>4. r.batch = b /\ i = k
        BY <1>1, <4>2, <4>3, DistinctAssumption
      <4>5. PICK l \in DOMAIN Plan[r.batch] : l <= next[r.batch] /\ Plan[r.batch][l] = r.file
        BY <4>2 DEF Planned
      <4>6. j = l
        BY <4>2, <4>3, <4>5, DistinctAssumption
      <4>7. i \in Nat /\ j \in Nat
        BY <4>2, <4>3, PlanFacts, LenProperties
      <4>8. QED
        BY <1>1, <4>3, <4>4, <4>5, <4>6, <4>7
    <3>3. QED
      BY <3>1, <3>2
  <2>4. CASE t.data # t.file
    <3>1. CarriedIn(b, t.file, t.data)
      BY <2>1, <2>4 DEF DataInv
    <3>2. PICK i \in DOMAIN Plan[b], j \in DOMAIN Plan[b] :
             Plan[b][i] = t.data /\ Plan[b][j] = t.file /\ i < j
      BY <3>1 DEF CarriedIn
    <3>3. j = k
      BY <1>1, <3>2, DistinctAssumption
    <3>4. i \in 1..(k - 1)
      BY <1>1, <3>2, <3>3, PlanFacts, LenProperties
    <3>5. t.file \in Big
      BY <3>1 DEF CarriedIn
    <3>6. Replaced(b, k)'
      <4>1. Plan[b][k] \in Big
        BY <1>1, <3>5
      <4>2. <<Plan[b][k], Plan[b][i]>> \in instead' /\ \E q \in rows' : q.data = Plan[b][i]
        BY <2>1, <2>2, <3>2
      <4>3. QED
        BY <3>4, <4>1, <4>2 DEF Replaced
    <3>7. QED
      BY <3>6
  <2>5. QED
    BY <2>3, <2>4
<1>4. QED
  BY <1>2, <1>3

\* What a batch has done with that it had not before.
LEMMA PostedDone ==
    ASSUME TypeInv, NEW t, Posted(t) \/ Unanswered(t), NEW b \in Batches \ moved',
           NEW i \in Done(b)', i \notin Done(b)
    PROVE  b = t.batch /\ i = next[b] /\ i > 0 /\ Save(t) /\ t.stage = "posting"
<1>1. next[b] \in Nat /\ listening \in [Batches -> BOOLEAN]
  BY DEF TypeInv, BatchInv
<1>2. ~Unanswered(t)
  BY DEF Unanswered, batch, Done
<1>3. Posted(t)
  BY <1>2
<1> DEFINE done == {c \in Batches : listening[c] /\ next[c] = Len(Plan[c])}
           going == {c \in Batches : listening[c]} \ done
<1>4. /\ listening' = [c \in Batches |-> listening[c] /\ c \notin done]
      /\ UploadNext(going, tasks \ {t})
      /\ moved' = moved \cup ((going \cup done) \ {t.batch})
      /\ Save(t) /\ t.stage = "posting"
  BY <1>3 DEF Posted
<1>5. CASE b \notin going \cup done
  <2>1. next'[b] = next[b] /\ ~listening[b] /\ ~listening'[b]
    BY <1>4, <1>5 DEF UploadNext
  <2>2. QED
    BY <2>1 DEF Done
<1>6. CASE b \in going \cup done
  <2>1. b = t.batch /\ listening[b]
    BY <1>4, <1>6
  <2>2. i \in 1..next[b]
    <3>1. CASE b \in going
      <4>1. next'[b] = next[b] + 1 /\ listening'[b]
        BY <1>4, <3>1 DEF UploadNext
      <4>2. QED
        BY <1>1, <4>1 DEF Done
    <3>2. CASE b \in done
      <4>1. next'[b] = next[b] /\ ~listening'[b]
        BY <1>4, <3>2 DEF UploadNext
      <4>2. QED
        BY <4>1 DEF Done
    <3>3. QED
      BY <1>6, <3>1, <3>2
  <2>3. i \notin 1..(next[b] - 1)
    BY <2>1 DEF Done
  <2>4. QED
    BY <1>1, <1>4, <2>1, <2>2, <2>3
<1>7. QED
  BY <1>5, <1>6

LEMMA PostedOrder ==
    ASSUME TypeInv, PlannedInv, OnceInv, OrderInv, DataInv, NEW t \in tasks,
           Posted(t) \/ Unanswered(t)
    PROVE  OrderInv'
<1>1. /\ (Save(t) \/ UNCHANGED server) /\ UNCHANGED uploader /\ moved \subseteq moved'
  BY PostedGoesOn DEF Posted, Unanswered
<1>2. PICK going \in SUBSET Batches :
         /\ UploadNext(going, tasks \ {t})
         /\ \A c \in going : next[c] < Len(Plan[c])
         /\ going \ {t.batch} \subseteq moved'
         /\ \A b \in Batches \ going : next'[b] = next[b]
         /\ going # {} => Save(t) /\ t.stage = "posting"
  BY PostedGoesOn
\* A batch that goes on, or ends, without being misled has had its own file posted.
<1>3. ASSUME NEW b \in Batches \ moved', b = t.batch
      PROVE  /\ t.file = Plan[b][next[b]] /\ next[b] > 0
             /\ \A s \in tasks \ {t} : \A f \in Files : ~SureTask(s, b, f)
             /\ \A f \in Files : ~Uploading(b, f)
  <2>1. b = t.batch /\ b \notin moved /\ t.file \in Files
    BY <1>1, <1>3, TaskFacts
  <2>2. SureTask(t, b, t.file)
    BY <2>1 DEF SureTask, OrderInv
  <2>3. \A f \in Files : Busy(b, f) => next[b] > 0 /\ f = Plan[b][next[b]]
    BY <2>1 DEF OrderInv
  <2>4. t.file = Plan[b][next[b]] /\ next[b] > 0
    BY <2>1, <2>2, <2>3 DEF Busy
  <2>5. \A s \in tasks \ {t} : \A f \in Files : ~SureTask(s, b, f)
    BY <2>2, <2>3, <2>4 DEF Busy, OnceInv
  <2>6. \A f \in Files : ~Uploading(b, f)
    BY <2>2, <2>3, <2>4 DEF Busy, OnceInv
  <2>7. QED
    BY <2>1, <2>4, <2>5, <2>6
<1>4. \A s \in tasks' : ~s.sure => s.batch \in moved'
  BY <1>1, <1>2 DEF UploadNext, ReadFile, Task, OrderInv
<1>5. ASSUME NEW b \in Batches, NEW f \in Files, NEW s \in tasks', SureTask(s, b, f)'
      PROVE  \/ s \in tasks \ {t} /\ SureTask(s, b, f)
             \/ b \in going /\ f = Plan[b][next[b] + 1]
  BY <1>2, <1>5 DEF UploadNext, SureTask, ReadFile, Task
<1>6. \A b, f : Uploading(b, f)' <=> Uploading(b, f)
  BY <1>1 DEF Uploading, uploader
<1>7. ASSUME NEW b \in Batches \ moved', NEW f \in Files, Busy(b, f)'
      PROVE  next'[b] > 0 /\ f = Plan[b][next'[b]]
  <2>1. CASE b \in going
    <3>1. next'[b] = next[b] + 1 /\ next[b] \in Nat
      BY <1>2, <2>1 DEF UploadNext, TypeInv, BatchInv
    <3>2. b = t.batch /\ ~Uploading(b, f)'
      BY <1>2, <1>3, <1>6, <1>7, <2>1
    <3>3. PICK s \in tasks' : SureTask(s, b, f)'
      BY <1>7, <3>2 DEF Busy
    <3>4. ~(s \in tasks \ {t} /\ SureTask(s, b, f))
      BY <1>3, <1>7, <3>2
    <3>5. f = Plan[b][next[b] + 1]
      BY <1>5, <3>3, <3>4
    <3>6. QED
      BY <3>1, <3>5
  <2>2. CASE b \notin going
    <3>1. next'[b] = next[b] /\ b \notin moved
      BY <1>1, <1>2, <1>7, <2>2
    <3>2. Busy(b, f)
      <4>1. CASE Uploading(b, f)'
        BY <1>6, <4>1 DEF Busy
      <4>2. ASSUME NEW s \in tasks', SureTask(s, b, f)' PROVE Busy(b, f)
        BY <1>5, <2>2, <4>2 DEF Busy
      <4>3. QED
        BY <1>7, <4>1, <4>2 DEF Busy
    <3>3. QED
      BY <3>1, <3>2 DEF OrderInv
  <2>3. QED
    BY <2>1, <2>2
<1>8. ASSUME NEW b \in Batches \ moved', NEW i \in Done(b)'
      PROVE  (\E r \in rows' : r.file = Plan[b][i]) \/ Replaced(b, i)'
  <2>1. b \in Batches \ moved
    BY <1>1, <1>8
  <2>2. CASE i \in Done(b)
    <3>1. (\E r \in rows : r.file = Plan[b][i]) \/ Replaced(b, i)
      BY <2>1, <2>2 DEF OrderInv, NoneIsSkipped
    <3>2. rows \subseteq rows' /\ instead \subseteq instead'
      BY <1>1, SaveFacts
    <3>3. QED
      BY <3>1, <3>2 DEF Replaced
  <2>3. CASE i \notin Done(b)
    <3>1. b = t.batch /\ i = next[b] /\ i > 0 /\ Save(t) /\ t.stage = "posting"
      BY <1>8, <2>3, PostedDone
    <3>2. t.file = Plan[b][i]
      BY <1>3, <1>8, <3>1
    <3>3. QED
      BY <2>1, <3>1, <3>2, SavedIsNotSkipped
  <2>4. QED
    BY <2>2, <2>3
<1>9. NoneIsSkipped'
  BY <1>8 DEF NoneIsSkipped
<1>10. QED
  BY <1>4, <1>7, <1>9 DEF OrderInv

LEMMA OrderStep ==
    TypeInv /\ PlannedInv /\ NamingInv /\ ProtoInv /\ OnceInv /\ OrderInv /\ DataInv /\ [Next]_vars
        => OrderInv'
<1> SUFFICES ASSUME TypeInv, PlannedInv, NamingInv, ProtoInv, OnceInv, OrderInv, DataInv, [Next]_vars
             PROVE  OrderInv'
  OBVIOUS
<1>1. ASSUME NEW t \in tasks, ReadWhole(t) PROVE OrderInv'
  <2>1. t.sure
    BY <1>1 DEF ReadWhole, NamingInv
  <2>2. PICK n : n = ToServer(t.batch, t.file, args'[t.batch], TRUE)
    OBVIOUS
  <2>3. n.batch = t.batch /\ n.file = t.file
    BY <2>2 DEF ToServer
  <2>4. /\ tasks' = (tasks \ {t}) \cup {n} /\ n.sure
        /\ UNCHANGED <<next, listening, moved, rows, instead, uploader>>
    BY <1>1, <2>2 DEF ReadWhole, history, server, batch, ToServer
  <2>5. ASSUME NEW b \in Batches, NEW f \in Files, Busy(b, f)' PROVE Busy(b, f)
    <3>1. CASE Uploading(b, f)'
      BY <2>4, <3>1 DEF Busy, Uploading, uploader
    <3>2. ASSUME NEW s \in tasks', SureTask(s, b, f)' PROVE Busy(b, f)
      <4>1. SureTask(s, b, f) \/ SureTask(t, b, f)
        BY <2>1, <2>3, <2>4, <3>2 DEF SureTask
      <4>2. QED
        BY <4>1 DEF Busy, SureTask
    <3>3. QED
      BY <2>5, <3>1, <3>2 DEF Busy
  <2>6. QED
    BY <2>4, <2>5, OrderKept
<1>2. CASE UploadEnd
  <2>1. PICK n : n = ToServer(callback.batch, callback.file, args'[callback.batch], ~doubtful)
    OBVIOUS
  <2>2. n.batch = callback.batch /\ n.file = callback.file /\ n.sure = ~doubtful
    BY <2>1 DEF ToServer
  <2>3. /\ tasks' = tasks \cup {n} /\ reader' = None
        /\ UNCHANGED <<next, listening, rows, instead, started, timer, callback>>
        /\ moved \subseteq moved' /\ (~n.sure => n.batch \in moved')
    <3>1. tasks' = tasks \cup {n} /\ reader' = None
      BY <1>2, <2>1 DEF UploadEnd
    <3>2. UNCHANGED <<next, listening, rows, instead, started, timer, callback>>
      BY <1>2 DEF UploadEnd, server, batch
    <3>3. moved \subseteq moved' /\ (doubtful => callback.batch \in moved')
      BY <1>2 DEF UploadEnd
    <3>4. doubtful \in BOOLEAN
      BY DEF TypeInv, HistoryInv
    <3>5. ~n.sure => n.batch \in moved'
      BY <2>2, <3>3, <3>4
    <3>6. QED
      BY <3>1, <3>2, <3>3, <3>5
  <2>4. ASSUME n.sure PROVE Uploading(n.batch, n.file)
    <3>1. reader # None /\ reader = callback
      BY <1>2, <2>2, <2>4, EndsItself DEF TypeInv, HistoryInv
    <3>2. QED
      BY <2>2, <3>1 DEF Uploading, Of
  <2>5. QED
    BY <2>3, <2>4, FreedOrder
<1>3. CASE KeepAlive
  <2>1. /\ timer /\ timer' = FALSE /\ reader' = None /\ callback # None
        /\ UNCHANGED <<next, listening, moved, rows, instead, callback, started>>
    BY <1>3, BegunType DEF KeepAlive, Drop, batch, server
  <2>2. CASE started
    BY <1>3, <2>1, <2>2, StillOrder DEF KeepAlive
  <2>3. CASE ~started
    <3>1. PICK n : n = Task(callback.batch, callback.file, "reading")
      OBVIOUS
    <3>2. n.batch = callback.batch /\ n.file = callback.file /\ n.sure
      BY <3>1 DEF Task
    <3>3. Uploading(n.batch, n.file)
      BY <2>1, <2>3, <3>2 DEF Uploading, Of
    <3>4. tasks' = tasks \cup {n}
      BY <1>3, <2>3, <3>1 DEF KeepAlive
    <3>5. QED
      BY <2>1, <3>2, <3>3, <3>4, FreedOrder
  <2>4. QED
    BY <2>2, <2>3
<1>4. CASE Disconnect \/ \E w \in writes : WrittenTooLate(w)
  BY <1>4, StillOrder DEF Disconnect, WrittenTooLate, Break, Drop, batch, server
<1>5. CASE RequestSlice \/ \E r \in reading : Send(r) \/ SendNothing(r)
  BY <1>5, StillOrder DEF RequestSlice, Send, SendNothing, history, server, batch
<1>6. CASE Connect \/ UNCHANGED vars
  BY <1>6, StillOrder DEF Connect, vars, uploader, history, server, batch
<1>7. ASSUME NEW t \in tasks, Failed(t) PROVE OrderInv'
  BY <1>7, StillOrder DEF Failed, uploader, server, batch
<1>8. ASSUME NEW w \in writes, NEW well \in BOOLEAN, Written(w, well) PROVE OrderInv'
  BY <1>8, StillOrder DEF Written, uploader, history, server, batch
<1>9. QED
  BY <1>1, <1>2, <1>3, <1>4, <1>5, <1>6, <1>7, <1>8, AttachOrder, NamedOrder, PostedOrder
     DEF Next, Progress

-----------------------------------------------------------------------------
(***************************************************************************)
(* Names.                                                                  *)
(***************************************************************************)
\* Node has nothing that the uploader has not, but dead writes.
LEMMA NamesKept ==
    ASSUME TypeInv, NamesInv, UNCHANGED <<callback, given>>,
           \A r \in reading' : r \in reading \/ (reader # None /\ r.upload = reader),
           reader' = reader \/ reader' = None,
           \A w \in writes' : \/ w \in writes
                              \/ \E r \in reading : w.name = r.upload.name /\ w.live
    PROVE  NamesInv'
<1>1. ASSUME NEW r \in reading' PROVE <<r.upload.name, r.upload.file>> \in given'
  BY <1>1 DEF NamesInv, TypeInv, UploaderInv
<1>2. callback' # None => <<callback'.name, callback'.file>> \in given'
  BY DEF NamesInv
<1>3. ASSUME NEW w \in writes'
      PROVE  \E g \in given' : g[1] = w.name /\ (w.live \/ reader' = None \/ reader'.file # g[2])
  <2>1. CASE w \in writes
    BY <2>1 DEF NamesInv
  <2>2. ASSUME NEW r \in reading, w.name = r.upload.name, w.live
        PROVE  \E g \in given' : g[1] = w.name /\ (w.live \/ reader' = None \/ reader'.file # g[2])
    <3>1. <<r.upload.name, r.upload.file>> \in given'
      BY DEF NamesInv
    <3>2. QED
      BY <2>2, <3>1
  <2>3. QED
    BY <2>1, <2>2
<1>4. QED
  BY <1>1, <1>2, <1>3 DEF NamesInv

LEMMA NamedNames ==
    ASSUME TypeInv, NamingInv, NamesInv, NEW t \in tasks, Named(t)
    PROVE  NamesInv'
<1>1. PICK u : u = [batch |-> t.batch, file |-> t.file, name |-> ServerName(t.file)]
  OBVIOUS
<1>2. u.name = ServerName(t.file) /\ u.file = t.file
  BY <1>1
<1>3. given' = given \cup {<<u.name, u.file>>} /\ UNCHANGED writes /\ \A g \in given : g[2] # u.file
  BY <1>2 DEF Named, NamingInv, node
<1>4. \/ UNCHANGED uploader
      \/ reader' = u /\ callback' = u /\ reading' = reading \cup {[upload |-> u, slice |-> 0]}
  BY <1>1 DEF Named, Start
<1>5. ASSUME NEW r \in reading' PROVE <<r.upload.name, r.upload.file>> \in given'
  BY <1>3, <1>4, <1>5 DEF NamesInv, uploader
<1>6. callback' # None => <<callback'.name, callback'.file>> \in given'
  BY <1>3, <1>4 DEF NamesInv, uploader
<1>7. ASSUME NEW w \in writes'
      PROVE  \E g \in given' : g[1] = w.name /\ (w.live \/ reader' = None \/ reader'.file # g[2])
  <2>1. PICK g \in given : g[1] = w.name /\ (w.live \/ reader = None \/ reader.file # g[2])
    BY <1>3, <1>7 DEF NamesInv
  <2>2. reader' = reader \/ reader'.file # g[2]
    BY <1>3, <1>4, <2>1 DEF uploader
  <2>3. QED
    BY <1>3, <2>1, <2>2
<1>8. QED
  BY <1>5, <1>6, <1>7 DEF NamesInv

LEMMA BreakNames ==
    ASSUME TypeInv, NamesInv, Break, NEW old \in SUBSET writes,
           writes' = {[x EXCEPT !.live = FALSE] : x \in old}, UNCHANGED <<callback, reading, given>>
    PROVE  NamesInv'
<1>1. reader' = None /\ \A w \in writes' : \E x \in old : w.name = x.name
  BY BreakProto
<1>2. ASSUME NEW w \in writes'
      PROVE  \E g \in given' : g[1] = w.name /\ (w.live \/ reader' = None \/ reader'.file # g[2])
  BY <1>1, <1>2 DEF NamesInv
<1>3. QED
  BY <1>2 DEF NamesInv

LEMMA NamesStep == TypeInv /\ NamingInv /\ ProtoInv /\ NamesInv /\ [Next]_vars => NamesInv'
<1> SUFFICES ASSUME TypeInv, NamingInv, ProtoInv, NamesInv, [Next]_vars PROVE NamesInv'
  OBVIOUS
<1>1. CASE \/ UNCHANGED vars \/ Connect \/ UploadEnd \/ KeepAlive
           \/ \E b \in Batches : Attach(b)
           \/ \E t \in tasks : ReadWhole(t) \/ Failed(t) \/ Unanswered(t) \/ Posted(t)
  <2>1. UNCHANGED <<callback, given, reading, writes>> /\ (reader' = reader \/ reader' = None)
    BY <1>1 DEF vars, Connect, UploadEnd, KeepAlive, Drop, Attach, ReadWhole, Failed, Unanswered, Posted,
       uploader, node, history, server
  <2>2. QED
    BY <2>1, NamesKept
<1>2. CASE RequestSlice \/ \E r \in reading : SendNothing(r)
  <2>1. UNCHANGED <<callback, given, reader, writes>>
    BY <1>2 DEF RequestSlice, SendNothing, node, history, server
  <2>2. ASSUME NEW r \in reading' PROVE r \in reading \/ (reader # None /\ r.upload = reader)
    BY <1>2, <2>2 DEF RequestSlice, SendNothing
  <2>3. QED
    BY <2>1, <2>2, NamesKept
<1>3. ASSUME NEW r \in reading, Send(r) PROVE NamesInv'
  <2>1. UNCHANGED <<callback, given, reader>> /\ reading' \subseteq reading
    BY <1>3 DEF Send, history, server
  <2>2. ASSUME NEW w \in writes', w \notin writes PROVE w.name = r.upload.name /\ w.live
    BY <1>3, <2>2 DEF Send, Accept
  <2>3. QED
    BY <2>1, <2>2, NamesKept
<1>4. ASSUME NEW w \in writes, NEW well \in BOOLEAN, Written(w, well) PROVE NamesInv'
  <2>1. UNCHANGED <<callback, given, reader, reading>> /\ writes' \subseteq writes
    BY <1>4 DEF Written, uploader, history, server
  <2>2. QED
    BY <2>1, NamesKept
<1>5. ASSUME NEW w \in writes, WrittenTooLate(w) PROVE NamesInv'
  <2>1. /\ Break /\ writes' = {[x EXCEPT !.live = FALSE] : x \in writes \ {w}}
        /\ UNCHANGED <<callback, reading, given>> /\ writes \ {w} \in SUBSET writes
    BY <1>5 DEF WrittenTooLate
  <2>2. QED
    BY <2>1, BreakNames
<1>6. CASE Disconnect
  BY <1>6, BreakNames DEF Disconnect
<1>7. QED
  BY <1>1, <1>2, <1>3, <1>4, <1>5, <1>6, NamedNames DEF Next, Progress

-----------------------------------------------------------------------------
(***************************************************************************)
(* What a sure row names is on the disk.                                   *)
(***************************************************************************)
\* The file has got past the uploader.
Through(b, f) == SureRow(b, f) \/ \E t \in tasks : SureTask(t, b, f) /\ t.stage = "posting"

LEMMA ThroughIs ==
    ASSUME TypeInv, PlannedInv, NamingInv, OnceInv, NEW b \in Batches, NEW f \in Files, Through(b, f)
    PROVE  /\ ~Uploading(b, f) /\ Planned(b, f)
           /\ \A t \in tasks : t.stage = "naming" => t.file # f
<1>1. ~Uploading(b, f)
  BY DEF Through, OnceInv
<1>2. Planned(b, f)
  BY DEF Through, SureRow, SureTask, PlannedInv
<1>3. ASSUME NEW t \in tasks, t.stage = "naming", t.file = f PROVE FALSE
  <2>1. t.batch \in Batches /\ Planned(t.batch, f) /\ t.sure
    BY <1>3, TaskFacts DEF PlannedInv, NamingInv
  <2>2. SureTask(t, b, f)
    BY <1>2, <1>3, <2>1, OneBatch DEF SureTask
  <2>3. QED
    BY <1>3, <2>2 DEF Through, OnceInv
<1>4. QED
  BY <1>1, <1>2, <1>3

\* No step takes it from there.
LEMMA StaysStored ==
    ASSUME TypeInv, PlannedInv, NamingInv, OnceInv, NamesInv, [Next]_vars,
           NEW b \in Batches, NEW f \in Files, NEW n, Through(b, f), Stored(n, f)
    PROVE  Stored(n, f)'
<1> SUFFICES ASSUME \A g \in given' : g[1] = n => g[2] = f
             PROVE  /\ disk'[n] = Whole(f)
                    /\ \A w \in writes' : w.name # n
                    /\ \A r \in reading' : r.upload.name # n
  BY DEF Stored, Whole
<1>1. given \subseteq given'
  BY DEF Next, Progress, Attach, ReadWhole, Named, Posted, Failed, Unanswered, Send, SendNothing, RequestSlice,
     UploadEnd, KeepAlive, Written, WrittenTooLate, Disconnect, Connect, vars, history, server
<1>2. /\ disk[n] = Whole(f) /\ n \in Names /\ disk \in [Names -> Content]
      /\ \A w \in writes : w.name # n
      /\ \A r \in reading : r.upload.name # n
  BY <1>1 DEF Stored, TypeInv, NodeInv
<1>3. disk'[n] = Whole(f)
  <2>1. CASE UNCHANGED disk
    BY <1>2, <2>1
  <2>2. ASSUME NEW w \in writes, disk' = [disk EXCEPT ![w.name] = w.content]
        PROVE  disk'[n] = Whole(f)
    BY <1>2, <2>2
  <2>3. QED
    BY <2>1, <2>2 DEF Next, Progress, Attach, ReadWhole, Named, Posted, Failed, Unanswered, Send, SendNothing,
       RequestSlice, UploadEnd, KeepAlive, Written, WrittenTooLate, Disconnect, Connect, vars, node,
       Accept
<1>4. ASSUME NEW w \in writes' PROVE w.name # n
  <2>1. ASSUME writes' \subseteq writes PROVE w.name # n
    BY <1>2, <2>1
  <2>2. ASSUME NEW r \in reading, Send(r) PROVE w.name # n
    <3>1. w \in writes \/ w.name = r.upload.name
      BY <2>2 DEF Send, Accept
    <3>2. QED
      BY <1>2, <3>1
  <2>3. ASSUME NEW old \in SUBSET writes, Break, writes' = {[x EXCEPT !.live = FALSE] : x \in old}
        PROVE  w.name # n
    <3>1. \A x \in writes' : \E y \in old : x.name = y.name
      BY <2>3, BreakProto
    <3>2. PICK y \in old : w.name = y.name
      BY <1>4, <3>1
    <3>3. QED
      BY <1>2, <3>2
  <2>4. ASSUME NEW v \in writes, WrittenTooLate(v) PROVE w.name # n
    BY <2>3, <2>4 DEF WrittenTooLate
  <2>5. CASE Disconnect
    BY <2>3, <2>5 DEF Disconnect
  <2>6. CASE \/ \E c \in Batches : Attach(c)
             \/ \E t \in tasks : ReadWhole(t) \/ Named(t) \/ Failed(t) \/ Unanswered(t) \/ Posted(t)
    BY <2>1, <2>6 DEF Attach, ReadWhole, Named, Posted, Failed, Unanswered, node
  <2>7. CASE \/ \E r \in reading : SendNothing(r)
             \/ RequestSlice \/ UploadEnd \/ KeepAlive \/ Connect \/ UNCHANGED vars
             \/ \E v \in writes : \E well \in BOOLEAN : Written(v, well)
    BY <2>1, <2>7 DEF SendNothing, RequestSlice, UploadEnd, KeepAlive, Written, Connect, vars, node
  <2>8. QED
    BY <2>2, <2>4, <2>5, <2>6, <2>7 DEF Next, Progress
<1>5. ASSUME NEW r \in reading' PROVE r.upload.name # n
  <2>1. CASE reading' \subseteq reading
    BY <1>2, <2>1
  <2>2. ASSUME NEW t \in tasks, Named(t) PROVE r.upload.name # n
    <3>1. t.file # f
      BY <2>2, ThroughIs DEF Named
    <3>2. <<ServerName(t.file), t.file>> \in given'
      BY <2>2 DEF Named
    <3>3. ServerName(t.file) # n
      BY <3>1, <3>2
    <3>4. r \in reading \/ r.upload = [batch |-> t.batch, file |-> t.file, name |-> ServerName(t.file)]
      BY <2>2 DEF Named, Start, uploader
    <3>5. QED
      BY <1>2, <3>3, <3>4
  <2>3. ASSUME r.upload = reader, reader # None PROVE r.upload.name # n
    <3>1. reader = callback /\ reader.batch \in Batches
      BY <2>3 DEF TypeInv, UploaderInv, NoneOr, Uploads
    <3>2. <<reader.name, reader.file>> \in given' /\ Planned(reader.batch, reader.file)
      BY <1>1, <2>3, <3>1 DEF NamesInv, PlannedInv
    <3>3. reader.file # f
      <4>1. SUFFICES ASSUME reader.file = f PROVE FALSE
        OBVIOUS
      <4>2. reader.batch = b
        BY <3>1, <3>2, <4>1, ThroughIs, OneBatch
      <4>3. Uploading(b, f)
        BY <2>3, <4>1, <4>2 DEF Uploading, Of
      <4>4. QED
        BY <4>3, ThroughIs
    <3>4. QED
      BY <2>3, <3>2, <3>3
  <2>4. CASE RequestSlice
    BY <1>2, <2>3, <2>4 DEF RequestSlice
  <2>5. QED
    BY <2>1, <2>2, <2>4 DEF Next, Progress, Attach, ReadWhole, Posted, Failed, Unanswered, Send, SendNothing,
       UploadEnd, KeepAlive, Written, WrittenTooLate, Disconnect, Connect, vars, uploader
<1>6. QED
  BY <1>3, <1>4, <1>5

\* The upload that ends without doubt has been stored.
LEMMA EndStored ==
    ASSUME TypeInv, PlannedInv, ProtoInv, NamesInv, UploadEnd, ~doubtful
    PROVE  Head(answers).name = callback.name /\ Stored(callback.name, callback.file)'
<1> DEFINE u == reader
<1>1. /\ u # None /\ u = callback /\ answers = Ended(u) /\ Live = {} /\ Reads(u, {})
      /\ disk[u.name] = Whole(u.file)
  BY EndsItself
<1>2. u \in Uploads /\ u.name \in Names /\ u.batch \in Batches
  BY <1>1 DEF TypeInv, UploaderInv, NoneOr, Uploads
<1>3. Head(answers).name = callback.name
  BY <1>1 DEF Ended
<1>4. ASSUME \A g \in given : g[1] = u.name => g[2] = u.file, NEW w \in writes PROVE w.name # u.name
  <2>1. ~w.live
    BY <1>1 DEF Live
  <2>2. PICK g \in given : g[1] = w.name /\ reader.file # g[2]
    BY <1>1, <2>1 DEF NamesInv
  <2>3. QED
    BY <1>4, <2>2
<1>5. ASSUME \A g \in given : g[1] = u.name => g[2] = u.file, NEW r \in reading
      PROVE  r.upload.name # u.name
  <2>1. SUFFICES ASSUME r.upload.name = u.name PROVE FALSE
    OBVIOUS
  <2>2. <<r.upload.name, r.upload.file>> \in given /\ r \in [upload : Uploads, slice : 0..2]
    BY DEF NamesInv, TypeInv, UploaderInv
  <2>3. r.upload.file = u.file /\ r.upload \in Uploads /\ r.upload.batch \in Batches /\ r.slice \in 0..2
    BY <1>5, <2>1, <2>2 DEF Uploads
  <2>4. Planned(r.upload.batch, u.file) /\ Planned(u.batch, u.file)
    BY <1>1, <2>3 DEF PlannedInv
  <2>5. r.upload.batch = u.batch
    BY <1>2, <2>3, <2>4, OneBatch
  <2>6. r.upload = u
    BY <1>2, <2>1, <2>3, <2>5 DEF Uploads
  <2>7. r \in [upload : {u}, slice : 0..2]
    BY <2>2, <2>3, <2>6
  <2>8. QED
    BY <1>1, <2>7 DEF Reads
<1>6. Stored(u.name, u.file)
  BY <1>1, <1>2, <1>4, <1>5 DEF Stored
<1>7. UNCHANGED <<given, disk, writes, reading>>
  BY DEF UploadEnd, history, server
<1>8. Stored(callback.name, callback.file)'
  <2>1. callback' = callback
    BY DEF UploadEnd
  <2>2. QED
    BY <1>1, <1>6, <1>7, <2>1 DEF Stored, Whole
<1>9. QED
  BY <1>3, <1>8

\* Where what is posted comes from.
LEMMA PostingComes ==
    ASSUME TypeInv, [Next]_vars, NEW t \in tasks' \ tasks, t.stage = "posting"
    PROVE  \/ /\ UploadEnd
              /\ t = ToServer(callback.batch, callback.file, args'[callback.batch], ~doubtful)
           \/ \E s \in tasks : ReadWhole(s) /\ t = ToServer(s.batch, s.file, args'[s.batch], TRUE)
<1>1. ASSUME NEW bs, NEW others \in SUBSET tasks, UploadNext(bs, others) PROVE FALSE
  BY <1>1 DEF UploadNext, ReadFile, Task
<1>2. CASE \E b \in Batches : Attach(b)
  BY <1>1, <1>2 DEF Attach
<1>3. CASE \E s \in tasks : Posted(s)
  BY <1>1, <1>3 DEF Posted
<1>4. CASE \E s \in tasks : Named(s)
  BY <1>4 DEF Named, Start, Task
<1>5. CASE KeepAlive
  BY <1>5 DEF KeepAlive, Task
<1>6. CASE UploadEnd
  BY <1>6 DEF UploadEnd
<1>7. CASE \E s \in tasks : ReadWhole(s)
  BY <1>7 DEF ReadWhole
<1>8. CASE UNCHANGED tasks \/ \E s \in tasks : Failed(s) \/ Unanswered(s)
  BY <1>8 DEF Failed, Unanswered
<1>9. QED
  BY <1>2, <1>3, <1>4, <1>5, <1>6, <1>7, <1>8
     DEF Next, Progress, Send, SendNothing, RequestSlice, Written, WrittenTooLate, Disconnect, Connect,
         vars

LEMMA StoredStep ==
    TypeInv /\ PlannedInv /\ NamingInv /\ ProtoInv /\ OnceInv /\ NamesInv /\ StoredInv /\ [Next]_vars
        => StoredInv'
<1> SUFFICES ASSUME TypeInv, PlannedInv, NamingInv, ProtoInv, OnceInv, NamesInv, StoredInv, [Next]_vars
             PROVE  StoredInv'
  OBVIOUS
<1>1. ASSUME NEW t \in tasks, t.stage = "posting", t.data = None, t.sure PROVE Stored(t.url, t.file)'
  <2>1. t.batch \in Batches /\ t.file \in Files /\ Stored(t.url, t.file)
    BY <1>1, TaskFacts DEF StoredInv
  <2>2. Through(t.batch, t.file)
    BY <1>1 DEF Through, SureTask
  <2>3. QED
    BY <2>1, <2>2, StaysStored
<1>2. ASSUME NEW t \in tasks', t.stage = "posting", t.data = None, t.sure PROVE Stored(t.url, t.file)'
  <2>1. CASE t \in tasks
    BY <1>1, <1>2, <2>1
  <2>2. ASSUME UploadEnd, t = ToServer(callback.batch, callback.file, args'[callback.batch], ~doubtful)
        PROVE  Stored(t.url, t.file)'
    <3>1. t.file = callback.file /\ t.sure = ~doubtful /\ t.url = args'[callback.batch].url
      BY <2>2 DEF ToServer
    <3>2. ~doubtful
      BY <1>2, <3>1 DEF TypeInv, HistoryInv
    <3>3. callback.batch \in Batches /\ args \in [Batches -> [data : NoneOr(Files), url : NoneOr(Names)]]
      BY <2>2, AnswerFacts DEF UploadEnd, NextAnswer, Uploads, TypeInv, BatchInv
    <3>4. t.url = Head(answers).name
      BY <2>2, <3>1, <3>3 DEF UploadEnd
    <3>5. t.url = callback.name /\ Stored(callback.name, callback.file)'
      BY <2>2, <3>2, <3>4, EndStored
    <3>6. UNCHANGED callback
      BY <2>2 DEF UploadEnd
    <3>7. QED
      BY <3>1, <3>5, <3>6
  <2>3. ASSUME NEW s \in tasks, ReadWhole(s), t = ToServer(s.batch, s.file, args'[s.batch], TRUE)
        PROVE  FALSE
    <3>1. s.batch \in Batches /\ s.file \in Files
      BY TaskFacts
    <3>2. args \in [Batches -> [data : NoneOr(Files), url : NoneOr(Names)]]
      BY DEF TypeInv, BatchInv
    <3>3. t.data = s.file
      BY <2>3, <3>1, <3>2 DEF ReadWhole, ToServer
    <3>4. QED
      BY <1>2, <3>1, <3>3, UploadAssumption
  <2>4. QED
    BY <1>2, <2>1, <2>2, <2>3, PostingComes
<1>3. ASSUME NEW r \in rows', r.data = None, r.sure PROVE Stored(r.url, r.file)'
  <2>1. CASE r \in rows
    <3>1. r.batch \in Batches /\ r.file \in Files /\ Stored(r.url, r.file) /\ Through(r.batch, r.file)
      BY <1>3, <2>1 DEF StoredInv, TypeInv, RowsInv, PlannedInv, Through, SureRow
    <3>2. QED
      BY <3>1, StaysStored
  <2>2. CASE r \notin rows
    <3>1. PICK t \in tasks : t.stage = "posting" /\ r = Row(t)
      BY <2>2, RowsCome
    <3>2. r.data = t.data /\ r.sure = t.sure /\ r.file = t.file /\ (t.data = None => r.url = t.url)
      BY <3>1 DEF Row
    <3>3. Stored(t.url, t.file)'
      BY <1>1, <1>3, <3>1, <3>2
    <3>4. QED
      BY <1>3, <3>2, <3>3
  <2>3. QED
    BY <2>1, <2>2
<1>4. QED
  BY <1>2, <1>3 DEF StoredInv

-----------------------------------------------------------------------------
(***************************************************************************)
(* The filedata that a row has got.                                        *)
(***************************************************************************)
LEMMA CarriedStays ==
    ASSUME [Next]_vars, NEW b, NEW f, NEW d, CarriedIn(b, f, d)
    PROVE  CarriedIn(b, f, d)'
<1>1. moved \subseteq moved'
  BY DEF Next, Progress, Attach, ReadWhole, Named, Posted, Failed, Unanswered, Send, SendNothing, RequestSlice,
     UploadEnd, KeepAlive, Written, WrittenTooLate, Disconnect, Connect, vars, history
<1>2. QED
  BY <1>1 DEF CarriedIn

\* The arguments of a batch have the data of a file that comes before the one
\* that ends, or of that one, or the answer is doubtful.
LEMMA EndCarries ==
    ASSUME TypeInv, PlannedInv, NamingInv, ProtoInv, OrderInv, UploadEnd,
           NEW d, d = args[callback.batch].data, d # None
    PROVE  d = callback.file \/ CarriedIn(callback.batch, callback.file, d)'
<1>1. PICK b \in Batches, f \in Files : b = callback.batch /\ f = callback.file
  BY AnswerFacts DEF UploadEnd, NextAnswer, Uploads
<1>2. callback # None /\ f \in Big /\ Planned(b, f) /\ Planned(b, d)
  BY <1>1, AnswerFacts DEF UploadEnd, NextAnswer, NamingInv, PlannedInv
<1>3. PICK i \in DOMAIN Plan[b] : i <= next[b] /\ Plan[b][i] = d
  BY <1>2 DEF Planned
<1>4. PICK j \in DOMAIN Plan[b] : j <= next[b] /\ Plan[b][j] = f
  BY <1>2 DEF Planned
<1>5. moved \subseteq moved' /\ (doubtful => b \in moved') /\ callback' = callback
  BY <1>1 DEF UploadEnd
<1>6. CASE b \in moved'
  BY <1>1, <1>2, <1>3, <1>4, <1>5, <1>6 DEF CarriedIn
<1>7. CASE b \notin moved'
  <2>1. reader # None /\ reader = callback
    BY <1>5, <1>7, EndsItself DEF TypeInv, HistoryInv
  <2>2. Busy(b, f)
    BY <1>1, <2>1 DEF Busy, Uploading, Of
  <2>3. f = Plan[b][next[b]] /\ next[b] > 0
    BY <1>5, <1>7, <2>2 DEF OrderInv
  <2>4. next[b] \in DOMAIN Plan[b] /\ i \in Nat /\ next[b] \in Nat
    BY <2>3, PlanFacts, LenProperties DEF TypeInv, BatchInv
  <2>5. i = next[b] \/ i < next[b]
    BY <1>3, <2>4
  <2>6. QED
    BY <1>1, <1>2, <1>3, <1>5, <2>3, <2>4, <2>5 DEF CarriedIn
<1>8. QED
  BY <1>6, <1>7

LEMMA DataStep ==
    TypeInv /\ PlannedInv /\ NamingInv /\ ProtoInv /\ OrderInv /\ DataInv /\ [Next]_vars => DataInv'
<1> SUFFICES ASSUME TypeInv, PlannedInv, NamingInv, ProtoInv, OrderInv, DataInv, [Next]_vars
             PROVE  DataInv'
  OBVIOUS
<1>1. ASSUME NEW t \in tasks', t.stage = "posting", t.data # None
      PROVE  t.data = t.file \/ CarriedIn(t.batch, t.file, t.data)'
  <2>1. CASE t \in tasks
    BY <1>1, <2>1, CarriedStays DEF DataInv
  <2>2. ASSUME UploadEnd, t = ToServer(callback.batch, callback.file, args'[callback.batch], ~doubtful)
        PROVE  t.data = t.file \/ CarriedIn(t.batch, t.file, t.data)'
    <3>1. /\ t.batch = callback.batch /\ t.file = callback.file /\ t.sure = ~doubtful
          /\ t.data = args'[callback.batch].data
      BY <2>2 DEF ToServer
    <3>2. callback.batch \in Batches /\ args \in [Batches -> [data : NoneOr(Files), url : NoneOr(Names)]]
      BY <2>2, AnswerFacts DEF UploadEnd, NextAnswer, Uploads, TypeInv, BatchInv
    <3>3. t.data = args[callback.batch].data
      BY <2>2, <3>1, <3>2 DEF UploadEnd
    <3>4. QED
      BY <1>1, <2>2, <3>1, <3>3, EndCarries DEF UploadEnd
  <2>3. ASSUME NEW s \in tasks, ReadWhole(s), t = ToServer(s.batch, s.file, args'[s.batch], TRUE)
        PROVE  t.data = t.file
    <3>1. args \in [Batches -> [data : NoneOr(Files), url : NoneOr(Names)]] /\ s.batch \in Batches
      BY TaskFacts DEF TypeInv, BatchInv
    <3>2. QED
      BY <2>3, <3>1 DEF ReadWhole, ToServer
  <2>4. QED
    BY <1>1, <2>1, <2>2, <2>3, PostingComes
<1>2. ASSUME NEW r \in rows', r.data # None
      PROVE  r.data = r.file \/ CarriedIn(r.batch, r.file, r.data)'
  <2>1. CASE r \in rows
    BY <1>2, <2>1, CarriedStays DEF DataInv
  <2>2. CASE r \notin rows
    <3>1. PICK t \in tasks : t.stage = "posting" /\ r = Row(t)
      BY <2>2, RowsCome
    <3>2. r.data = t.data /\ r.file = t.file /\ r.batch = t.batch
      BY <3>1 DEF Row
    <3>3. r.data = r.file \/ CarriedIn(r.batch, r.file, r.data)
      BY <1>2, <3>1, <3>2 DEF DataInv
    <3>4. QED
      BY <3>3, CarriedStays
  <2>3. QED
    BY <2>1, <2>2
<1>3. QED
  BY <1>1, <1>2 DEF DataInv

-----------------------------------------------------------------------------
(***************************************************************************)
(* All together.                                                           *)
(***************************************************************************)
WayInv == TypeInv /\ PlannedInv /\ NamingInv /\ ProtoInv /\ OnceInv

FileInv == WayInv /\ OrderInv /\ NamesInv /\ StoredInv /\ DataInv

LEMMA FileInit == Init => FileInv
<1> SUFFICES ASSUME Init PROVE FileInv
  OBVIOUS
<1>1. /\ tasks = {} /\ rows = {} /\ reading = {} /\ writes = {} /\ given = {} /\ twice = {}
      /\ reader = None /\ callback = None /\ answers = <<>> /\ timer = FALSE
      /\ partial = [n \in Names |-> <<>>] /\ next = [b \in Batches |-> 0]
      /\ args = [b \in Batches |-> [data |-> None, url |-> None]]
  BY DEF Init
<1>2. TypeInv
  BY TypeInit
<1>3. PlannedInv /\ NamingInv
  BY <1>1 DEF PlannedInv, NamingInv
<1>4. ProtoInv
  BY <1>1 DEF ProtoInv, Live
<1>5. OnceInv
  BY <1>1 DEF OnceInv, SureTask, SureRow, Uploading, Of
<1>6. OrderInv
  BY <1>1 DEF OrderInv, NoneIsSkipped, Done, Busy, Uploading, Of
<1>7. NamesInv /\ StoredInv /\ DataInv
  BY <1>1 DEF NamesInv, StoredInv, DataInv
<1>8. QED
  BY <1>2, <1>3, <1>4, <1>5, <1>6, <1>7 DEF FileInv, WayInv

LEMMA FileStep == FileInv /\ [Next]_vars => FileInv'
  BY TypeStep, PlannedStep, NamingStep, ProtoStep, OnceStep, OrderStep, NamesStep, StoredStep, DataStep
     DEF FileInv, WayInv

LEMMA Reachable == Spec => []FileInv
  BY FileInit, FileStep, PTL DEF Spec

\* upload_to_server() is called once for a file: the fallback of the uploader
\* and upload-end do not both attach it, unless the answer came for an upload
\* that had been given up.
THEOREM FilesAreAttachedOnce == Spec => []AttachedOnce
<1>1. FileInv => AttachedOnce
  BY DEF FileInv, WayInv, OnceInv, AttachedOnce
<1>2. QED
  BY <1>1, Reachable, PTL

\* upload_next() leaves no file of its batch without a row, and a batch does not
\* end without that of its last, unless another batch or a late answer has called
\* on_upload(), or the request was answered with the row of an earlier file.
THEOREM NoFileIsSkipped == Spec => []NoneIsSkipped
<1>1. FileInv => NoneIsSkipped
  BY DEF FileInv, OrderInv
<1>2. QED
  BY <1>1, Reachable, PTL

\* The File row that get_file_doc() makes has the content of the file that the
\* user has selected, with the exceptions that ContentIsKept names.
THEOREM RowsHaveTheirContent == Spec => []ContentIsKept
<1>1. ASSUME FileInv, NEW r \in rows
      PROVE  \/ r.data = r.file \/ Carried(r)
             \/ r.data = None /\ (r.sure /\ OwnName(r) => disk[r.url] = Whole(r.file))
  <2>1. CASE r.data = None
    BY <1>1, <2>1 DEF FileInv, StoredInv, Stored, OwnName
  <2>2. CASE r.data # None
    <3>1. r.data = r.file \/ CarriedIn(r.batch, r.file, r.data)
      BY <1>1, <2>2 DEF FileInv, DataInv
    <3>2. QED
      BY <3>1 DEF CarriedIn, Carried
  <2>3. QED
    BY <2>1, <2>2
<1>2. FileInv => ContentIsKept
  BY <1>1 DEF ContentIsKept
<1>3. QED
  BY <1>2, Reachable, PTL

-----------------------------------------------------------------------------
(***************************************************************************)
(* What the two liveness properties rest on: the uploader and a batch that *)
(* listens always have something to wait for.                              *)
(***************************************************************************)
\* The uploader is never "in progress" without what will free it.
UploadIsTimed == reader # None => Timed

LEMMA TimedStep == TypeInv /\ UploadIsTimed /\ [Next]_vars => UploadIsTimed'
<1> SUFFICES ASSUME TypeInv, UploadIsTimed, [Next]_vars PROVE UploadIsTimed'
  OBVIOUS
<1>1. ASSUME UNCHANGED uploader PROVE UploadIsTimed'
  BY <1>1 DEF uploader, UploadIsTimed, Timed
<1>2. ASSUME NEW t \in tasks, Named(t) PROVE UploadIsTimed'
  <2>1. PICK u : Start(t, u)
    BY <1>2 DEF Named
  <2>2. CASE /\ reader' = u /\ callback' = u /\ started' = FALSE
             /\ reading' = reading \cup {[upload |-> u, slice |-> 0]}
    <3>1. [upload |-> u, slice |-> 0] \in reading'
      BY <2>2
    <3>2. \E r \in reading' : r.upload = reader'
      BY <2>2, <3>1
    <3>3. QED
      BY <3>2 DEF UploadIsTimed, Timed
  <2>3. QED
    BY <1>1, <2>1, <2>2 DEF Start
<1>3. ASSUME NEW r \in reading, Send(r) \/ SendNothing(r) PROVE UploadIsTimed'
  BY <1>3 DEF Send, SendNothing, UploadIsTimed, Timed
<1>4. CASE RequestSlice
  BY <1>4 DEF RequestSlice, UploadIsTimed, Timed
<1>5. CASE reader' = None
  BY <1>5 DEF UploadIsTimed
<1>6. QED
  BY <1>1, <1>2, <1>3, <1>4, <1>5
     DEF Next, Progress, Attach, ReadWhole, Failed, Unanswered, Posted, UploadEnd, KeepAlive, Written,
         WrittenTooLate, Disconnect, Connect, Break, Drop, node, uploader, vars

\* What a batch can wait for.
Waits(b) ==
    b \in told \cup unanswered \/ (\E t \in tasks : t.batch = b) \/ (reader # None /\ reader.batch = b)

\* A task that goes away, or the upload that is dropped, leaves another one of
\* its batch, or the user is told.
LEMMA StillWaits ==
    ASSUME NEW b, Waits(b), told \subseteq told', unanswered \subseteq unanswered',
           \A t \in tasks \ tasks' : t.batch = b => Waits(b)',
           reader' = reader \/ (reader # None /\ reader.batch = b => Waits(b)')
    PROVE  Waits(b)'
  BY DEF Waits

\* upload_complete: a batch that goes on listening has its next file.
LEMMA PostedWaits ==
    ASSUME TypeInv, NEW t \in tasks, Posted(t), NEW b \in Batches, listening'[b]
    PROVE  Waits(b)'
<1> DEFINE done == {c \in Batches : listening[c] /\ next[c] = Len(Plan[c])}
           going == {c \in Batches : listening[c]} \ done
<1>1. UploadNext(going, tasks \ {t}) /\ listening' = [c \in Batches |-> listening[c] /\ c \notin done]
  BY DEF Posted
<1>2. listening'[b] = (listening[b] /\ b \notin done)
  BY <1>1, Zenon
<1>3. b \in going
  BY <1>2
<1>4. ReadFile(b, Plan[b][next[b] + 1]) \in tasks'
  BY <1>1, <1>3 DEF UploadNext
<1>5. QED
  BY <1>4 DEF Waits, ReadFile, Task

\* Every batch that listens has something to wait for.
BatchWaits == \A b \in Batches : listening[b] => Waits(b)

LEMMA GoesOnStep == TypeInv /\ BatchWaits /\ [Next]_vars => BatchWaits'
<1> SUFFICES ASSUME TypeInv, BatchWaits, [Next]_vars, NEW b \in Batches, listening'[b]
             PROVE  Waits(b)'
  BY DEF BatchWaits
<1>1. listening[b] => Waits(b)
  BY DEF BatchWaits
<1>2. ASSUME UNCHANGED <<listening, tasks, reader, unanswered>>, told \subseteq told' PROVE Waits(b)'
  BY <1>1, <1>2 DEF Waits
<1>3. ASSUME NEW c \in Batches, Attach(c) PROVE Waits(b)'
  <2>1. listening' = [listening EXCEPT ![c] = TRUE] /\ UploadNext({c}, tasks)
        /\ UNCHANGED <<reader, told, unanswered>>
    BY <1>3 DEF Attach, uploader, history, server
  <2>2. CASE b = c
    <3>1. ReadFile(b, Plan[b][next[b] + 1]) \in tasks'
      BY <2>1, <2>2 DEF UploadNext
    <3>2. QED
      BY <3>1 DEF Waits, ReadFile, Task
  <2>3. CASE b # c
    <3>1. listening[b] /\ tasks \subseteq tasks'
      BY <2>1, <2>3 DEF UploadNext, TypeInv, BatchInv
    <3>2. QED
      BY <1>1, <2>1, <3>1 DEF Waits
  <2>4. QED
    BY <2>2, <2>3
<1>4. ASSUME NEW t \in tasks, ReadWhole(t) PROVE Waits(b)'
  <2>1. listening[b] /\ UNCHANGED <<reader, told, unanswered>>
        /\ tasks' = (tasks \ {t}) \cup {ToServer(t.batch, t.file, args'[t.batch], TRUE)}
    BY <1>4 DEF ReadWhole, batch, uploader, history, server
  <2>2. ToServer(t.batch, t.file, args'[t.batch], TRUE).batch = t.batch
    BY DEF ToServer
  <2>3. t.batch = b => Waits(b)'
    BY <2>1, <2>2 DEF Waits
  <2>4. \A s \in tasks \ tasks' : s = t
    BY <2>1
  <2>5. QED
    BY <1>1, <2>1, <2>3, <2>4, StillWaits
<1>5. ASSUME NEW t \in tasks, Named(t) PROVE Waits(b)'
  <2>1. PICK u : Start(t, u) /\ u.batch = t.batch /\ u # None /\ UNCHANGED <<listening, unanswered>>
    <3> DEFINE new == [batch |-> t.batch, file |-> t.file, name |-> ServerName(t.file)]
    <3>1. t.batch \in Batches /\ t.file \in Files
      BY TaskFacts
    <3>2. ServerName(t.file) \in Names
      BY <3>1, NameFacts
    <3>3. new \in Uploads /\ new.batch = t.batch
      BY <3>1, <3>2 DEF Uploads
    <3>4. new # None
      BY <3>3, NoneAssumption
    <3>5. Start(t, new) /\ UNCHANGED <<listening, unanswered>>
      BY <1>5 DEF Named, batch
    <3> HIDE DEF new
    <3>6. QED
      BY <3>3, <3>4, <3>5
  <2>2. \A s \in tasks \ tasks' : s = t
    BY <2>1 DEF Start
  <2>3. t.batch = b => Waits(b)'
    <3>1. CASE t.batch \in told'
      BY <3>1 DEF Waits
    <3>2. CASE tasks' = (tasks \ {t}) \cup {Task(t.batch, t.file, "reading")}
      <4>1. Task(t.batch, t.file, "reading") \in tasks'
        BY <3>2
      <4>2. Task(t.batch, t.file, "reading").batch = t.batch
        BY DEF Task
      <4>3. QED
        BY <4>1, <4>2 DEF Waits
    <3>3. CASE reader' = u
      BY <2>1, <3>3 DEF Waits
    <3>4. QED
      BY <2>1, <3>1, <3>2, <3>3 DEF Start
  <2>4. told \subseteq told' /\ (reader' = reader \/ reader = None)
    BY <2>1 DEF Start, uploader
  <2>5. QED
    BY <1>1, <2>1, <2>2, <2>3, <2>4, StillWaits
<1>6. ASSUME NEW t \in tasks, Failed(t) \/ Unanswered(t) PROVE Waits(b)'
  <2>1. /\ listening[b] /\ tasks' = tasks \ {t} /\ reader' = reader
        /\ told \subseteq told' /\ unanswered \subseteq unanswered'
        /\ t.batch \in told' \cup unanswered'
    BY <1>6 DEF Failed, Unanswered, batch, uploader
  <2>2. t.batch = b => Waits(b)'
    BY <2>1 DEF Waits
  <2>3. QED
    BY <1>1, <2>1, <2>2, StillWaits
<1>7. CASE UploadEnd
  <2>1. listening[b] /\ UNCHANGED <<told, unanswered>> /\ tasks \subseteq tasks'
        /\ ToServer(callback.batch, callback.file, args'[callback.batch], ~doubtful) \in tasks'
    BY <1>7 DEF UploadEnd, batch, history, server
  <2>2. reader # None /\ reader.batch = b => Waits(b)'
    BY <2>1 DEF TypeInv, UploaderInv, Waits, ToServer
  <2>3. QED
    BY <1>1, <2>1, <2>2, StillWaits
<1>8. ASSUME Drop, tasks \subseteq tasks', UNCHANGED <<listening, unanswered>> PROVE Waits(b)'
  <2>1. told \subseteq told' /\ (reader # None => reader.batch \in told')
    BY <1>8 DEF Drop
  <2>2. reader # None /\ reader.batch = b => Waits(b)'
    BY <2>1 DEF Waits
  <2>3. QED
    BY <1>1, <1>8, <2>1, <2>2, StillWaits
<1>9. CASE KeepAlive \/ Disconnect \/ \E w \in writes : WrittenTooLate(w)
  BY <1>8, <1>9 DEF KeepAlive, Disconnect, WrittenTooLate, Break, batch
<1>10. ASSUME \/ UNCHANGED vars \/ Connect \/ RequestSlice
              \/ \E r \in reading : Send(r) \/ SendNothing(r)
              \/ \E w \in writes : \E well \in BOOLEAN : Written(w, well)
       PROVE  Waits(b)'
  BY <1>2, <1>10 DEF vars, batch, uploader, history, server, Connect, RequestSlice, Send, SendNothing, Written
<1>11. QED
  BY <1>3, <1>4, <1>5, <1>6, <1>7, <1>9, <1>10, PostedWaits DEF Next, Progress

LEMMA WaitsInv == Spec => [](TypeInv /\ UploadIsTimed /\ BatchWaits)
<1>1. Init => TypeInv /\ UploadIsTimed /\ BatchWaits
  BY TypeInit DEF Init, UploadIsTimed, BatchWaits
<1>2. QED
  BY <1>1, TypeStep, TimedStep, GoesOnStep, PTL DEF Spec

\* The uploader is never "in progress" without what will free it: keep_alive()
\* is under way, or the first slice is being read, whatever node answers or
\* fails to answer.  That the timer ends is FairSpec's.
THEOREM UploaderHasItsTimer == Spec => []UploadIsTimed
  BY WaitsInv, PTL

\* No batch is left listening with nothing under way and its user not told:
\* every error path of start(), keep_alive() and disconnect() either goes on
\* with the file or tells.
THEOREM NoBatchIsForgotten == Spec => []BatchGoesOn
<1>1. UploadIsTimed /\ BatchWaits => BatchGoesOn
  BY DEF UploadIsTimed, BatchWaits, Waits, BatchGoesOn
<1>2. QED
  BY <1>1, WaitsInv, PTL

=============================================================================
