------------------------- MODULE EmailQueue_proofs --------------------------
(***************************************************************************)
(* What holds of EmailQueue for every set of workers, mails and recipients *)
(* and every bound on faults and resends: 'Sent' always tells the truth,   *)
(* in a recipient's row and in a mail's, and nobody gets a mail twice but  *)
(* through one of the four windows that the module's history names.        *)
(***************************************************************************)
EXTENDS EmailQueue, TLAPS

-----------------------------------------------------------------------------
LEMMA TypeInit == Init => TypeOK
<1> SUFFICES ASSUME Init PROVE TypeOK
  OBVIOUS
<1>1. MaxFaults \in Nat /\ MaxResends \in Nat
  BY EmailQueueAssumption
<1>2. faults \in 0..MaxFaults /\ resends \in 0..MaxResends
  <2>1. faults = 0 /\ resends = 0
    BY DEF Init
  <2>2. QED
    BY <1>1, <2>1
<1>3. status \in [Mails -> Statuses] /\ retry \in [Mails -> Nat]
      /\ age \in [Mails -> 0..2]
  <2>1. "None" \in Statuses /\ 0 \in Nat /\ 0 \in 0..2
    BY DEF Statuses, Gone
  <2>2. status = [m \in Mails |-> "None"] /\ retry = [m \in Mails |-> 0]
        /\ age = [m \in Mails |-> 0]
    BY DEF Init
  <2>3. QED
    BY <2>1, <2>2
<1>4. rstatus \in [Mails -> [Recipients -> RecipientStatuses]]
      /\ rl \in [Workers -> [Recipients -> RecipientStatuses]]
  BY DEF Init, RecipientStatuses
<1>5. delivery \in DeliveryStatuses /\ counted \in [Workers -> DeliveryStatuses]
  BY DEF Init, DeliveryStatuses
<1>6. pc \in [Workers -> Steps] /\ phase \in [Workers -> Phases]
  BY DEF Init, Steps, Phases
<1>7. delivered \in [Mails -> [Recipients -> Nat]]
      /\ windows \in [Mails -> SUBSET {"snapshot", "claim", "unrecorded", "resend"}]
  BY DEF Init
<1>8. lock \in [Mails -> Workers \cup {None}]
      /\ mail \in [Workers -> Mails \cup {None}]
      /\ todo \in [Workers -> SUBSET Mails]
      /\ view \in [Workers -> [Mails -> [Recipients -> RecipientStatuses]] \cup {None}]
      /\ left \in [Workers -> SUBSET Recipients]
      /\ tries \in [Workers -> Nat]
      /\ current \in [Workers -> Recipients \cup {None}]
  BY DEF Init
<1>9. QED
  BY <1>2, <1>3, <1>4, <1>5, <1>6, <1>7, <1>8 DEF Init, TypeOK

LEMMA StatusNames == Sendable \subseteq Statuses /\ Gone \subseteq Statuses
BY DEF Statuses

\* The parts of a step: a status, the summary, a fault, the end of a job.
LEMMA SetStatusType ==
    ASSUME TypeOK, NEW m \in Mails, NEW s \in Statuses, SetStatus(m, s)
    PROVE  status' \in [Mails -> Statuses]
<1>1. CASE status[m] \in Gone
  BY <1>1 DEF SetStatus, TypeOK
<1>2. CASE status[m] \notin Gone
  BY <1>2 DEF SetStatus, TypeOK
<1>3. QED
  BY <1>1, <1>2

LEMMA TouchType ==
    ASSUME TypeOK, NEW m \in Mails, Touch(m) \/ Untouched
    PROVE  age' \in [Mails -> 0..2] /\ fresh' \in SUBSET Mails
<1>1. age \in [Mails -> 0..2] /\ fresh \in SUBSET Mails
  BY DEF TypeOK
<1>2. QED
  BY <1>1 DEF Touch, Untouched

LEMMA RefreshType ==
    ASSUME TypeOK, NEW w \in Workers, NEW p \in Phases, ThenRefresh(w, p)
    PROVE  pc' \in [Workers -> Steps] /\ phase' \in [Workers -> Phases]
<1>1. phase' \in [Workers -> Phases]
  BY DEF ThenRefresh, TypeOK
<1>2. \E s \in {"count", "setup", "leave", "next"} : Goto(w, s)
  BY DEF ThenRefresh, Resume, Phases
<1>3. QED
  BY <1>1, <1>2 DEF Goto, TypeOK, Steps

LEMMA GotoType ==
    ASSUME TypeOK, NEW w \in Workers, NEW s \in Steps, Goto(w, s)
    PROVE  pc' \in [Workers -> Steps]
BY DEF Goto, TypeOK

LEMMA FaultType ==
    ASSUME TypeOK, NEW k, Fault(k)
    PROVE  faults' \in 0..MaxFaults
BY EmailQueueAssumption DEF Fault, TypeOK

LEMMA ForgetType ==
    ASSUME TypeOK, NEW w \in Workers, ForgetJob(w)
    PROVE  /\ mail' \in [Workers -> Mails \cup {None}]
           /\ todo' \in [Workers -> SUBSET Mails]
           /\ view' \in [Workers ->
                  [Mails -> [Recipients -> RecipientStatuses]] \cup {None}]
           /\ rl' \in [Workers -> [Recipients -> RecipientStatuses]]
           /\ left' \in [Workers -> SUBSET Recipients]
           /\ tries' \in [Workers -> Nat]
           /\ current' \in [Workers -> Recipients \cup {None}]
           /\ phase' \in [Workers -> Phases]
           /\ counted' \in [Workers -> DeliveryStatuses]
<1>1. mail' \in [Workers -> Mails \cup {None}] /\ todo' \in [Workers -> SUBSET Mails]
  BY DEF ForgetJob, TypeOK
<1>2. view' \in [Workers -> [Mails -> [Recipients -> RecipientStatuses]] \cup {None}]
  BY DEF ForgetJob, TypeOK
<1>3. rl' \in [Workers -> [Recipients -> RecipientStatuses]]
  BY DEF ForgetJob, TypeOK, RecipientStatuses
<1>4. left' \in [Workers -> SUBSET Recipients] /\ tries' \in [Workers -> Nat]
      /\ current' \in [Workers -> Recipients \cup {None}]
  BY DEF ForgetJob, TypeOK
<1>5. phase' \in [Workers -> Phases]
  BY DEF ForgetJob, TypeOK, Phases
<1>6. counted' \in [Workers -> DeliveryStatuses]
  BY DEF ForgetJob, TypeOK, DeliveryStatuses
<1>7. QED
  BY <1>1, <1>2, <1>3, <1>4, <1>5, <1>6

\* A worker that holds a mail knows which one, and whose turn it is.
Holding == Steps \ {"idle", "next"}

PlaceInv ==
    /\ \A w \in Workers : pc[w] \in Holding => mail[w] \in Mails
    /\ \A w \in Workers : pc[w] = "record" => current[w] \in Recipients

LEMMA HoldsMail ==
    ASSUME TypeOK, PlaceInv, NEW w \in Workers, pc[w] \notin {"idle", "next"}
    PROVE  mail[w] \in Mails
BY DEF TypeOK, PlaceInv, Holding

\* Every step keeps the type of every variable.
LEMMA TypeStep == TypeOK /\ PlaceInv /\ [Next]_vars => TypeOK'
<1> SUFFICES ASSUME TypeOK, PlaceInv, [Next]_vars PROVE TypeOK'
  OBVIOUS
<1> USE DEF tables, local, admin
<1>1. ASSUME NEW m \in Mails, AddMail(m) PROVE TypeOK'
  BY <1>1 DEF AddMail, TypeOK, Statuses, Sendable
<1>2. ASSUME NEW m \in Mails, LoadForResend(m) PROVE TypeOK'
  <2>1. resend' \in [mail : Mails, rows : [Recipients -> RecipientStatuses]]
    BY <1>2 DEF LoadForResend, TypeOK
  <2>2. MaxResends \in Nat
    BY EmailQueueAssumption
  <2>3. resends' \in 0..MaxResends
    <3>1. resends < MaxResends /\ resends' = resends + 1 /\ resends \in 0..MaxResends
      BY <1>2 DEF LoadForResend, TypeOK
    <3>2. QED
      BY <2>2, <3>1
  <2>4. QED
    BY <1>2, <2>1, <2>3 DEF LoadForResend, TypeOK
<1>3. ASSUME NEW m \in Mails, Tick(m) PROVE TypeOK'
  <2>1. age[m] + 1 \in 0..2
    <3>1. age[m] \in 0..2 /\ age[m] < MaxAge
      BY <1>3 DEF Tick, TypeOK
    <3>2. MaxAge \in 0..2
      BY EmailQueueAssumption
    <3>3. QED
      BY <3>1, <3>2
  <2>2. age' \in [Mails -> 0..2]
    BY <1>3, <2>1 DEF Tick, TypeOK
  <2>3. QED
    BY <1>3, <2>2 DEF Tick, TypeOK
<1>4. ASSUME NEW w \in Workers, StartFlush(w) PROVE TypeOK'
  BY <1>4 DEF StartFlush, Goto, TypeOK, Steps
<1>5. ASSUME NEW w \in Workers, NextMail(w) PROVE TypeOK'
  BY <1>5 DEF NextMail, Goto, TypeOK, Steps
<1>6. ASSUME NEW w \in Workers, EndJob(w) \/ MailGone(w) PROVE TypeOK'
  <2>1. pc' \in [Workers -> Steps]
    BY <1>6, GotoType DEF EndJob, MailGone, Steps
  <2>2. ForgetJob(w)
    BY <1>6 DEF EndJob, MailGone
  <2>3. UNCHANGED <<tables, admin, delivered, windows, faults>>
    BY <1>6 DEF EndJob, MailGone
  <2>4. QED
    BY <2>1, <2>2, <2>3, ForgetType DEF TypeOK
<1>7. ASSUME NEW w \in Workers, NEW m \in Mails, SendNow(w, m) PROVE TypeOK'
  BY <1>7 DEF SendNow, Goto, TypeOK, Steps
<1>8. ASSUME NEW w \in Workers, LockMail(w) PROVE TypeOK'
  <2> DEFINE m == mail[w]
             rows == RecipientsSeen(w)
  <2>1. m \in Mails
    BY <1>8, HoldsMail DEF LockMail
  <2>2. rows \in [Recipients -> RecipientStatuses]
    BY <2>1 DEF RecipientsSeen, TypeOK
  <2>3. pc' \in [Workers -> Steps]
    BY <1>8, GotoType DEF LockMail, Steps
  <2>4. lock' \in [Mails -> Workers \cup {None}] /\ tries' \in [Workers -> Nat]
    BY <1>8, <2>1 DEF LockMail, TypeOK
  <2>5. view' \in [Workers -> [Mails -> [Recipients -> RecipientStatuses]] \cup {None}]
    BY <1>8 DEF LockMail, TypeOK
  <2>6. rl' \in [Workers -> [Recipients -> RecipientStatuses]]
        /\ left' \in [Workers -> SUBSET Recipients]
    BY <1>8, <2>2 DEF LockMail, TypeOK
  <2>7. windows' \in [Mails -> SUBSET {"snapshot", "claim", "unrecorded", "resend"}]
    BY <1>8, <2>1 DEF LockMail, TypeOK
  <2>8. QED
    BY <1>8, <2>3, <2>4, <2>5, <2>6, <2>7 DEF LockMail, TypeOK
<1>9. ASSUME NEW w \in Workers, SkipMail(w) PROVE TypeOK'
  BY <1>9 DEF SkipMail, Goto, TypeOK, Steps
<1>10. ASSUME NEW w \in Workers, CommitBeforeMark(w) PROVE TypeOK'
  BY <1>10, HoldsMail DEF CommitBeforeMark, Goto, TypeOK, Steps
<1>11. ASSUME NEW w \in Workers, MarkSending(w) PROVE TypeOK'
  <2>1. mail[w] \in Mails
    BY <1>11, HoldsMail DEF MarkSending
  <2>2. status' \in [Mails -> Statuses]
    BY <1>11, <2>1, SetStatusType DEF MarkSending, Statuses
  <2>3. age' \in [Mails -> 0..2] /\ fresh' \in SUBSET Mails
    BY <1>11, <2>1, TouchType DEF MarkSending
  <2>4. pc' \in [Workers -> Steps] /\ phase' \in [Workers -> Phases]
    BY <1>11, RefreshType DEF MarkSending, Phases
  <2>5. windows' \in [Mails -> SUBSET {"snapshot", "claim", "unrecorded", "resend"}]
    BY <1>11, <2>1 DEF MarkSending, TypeOK
  <2>6. QED
    BY <1>11, <2>2, <2>3, <2>4, <2>5 DEF MarkSending, TypeOK
<1>12. ASSUME NEW w \in Workers, CountStatuses(w) PROVE TypeOK'
  <2>1. DeliveryFrom(LinkedStatuses) \in DeliveryStatuses
    BY DEF DeliveryFrom, DeliveryStatuses
  <2>2. view' \in [Workers -> [Mails -> [Recipients -> RecipientStatuses]] \cup {None}]
    BY <1>12 DEF CountStatuses, TypeOK
  <2>3. pc' \in [Workers -> Steps]
    BY <1>12, GotoType DEF CountStatuses, Steps
  <2>4. counted' \in [Workers -> DeliveryStatuses]
    BY <1>12, <2>1 DEF CountStatuses, TypeOK
  <2>5. QED
    BY <1>12, <2>2, <2>3, <2>4 DEF CountStatuses, TypeOK
<1>13. ASSUME NEW w \in Workers, SetDelivery(w) PROVE TypeOK'
  <2>1. pc' \in [Workers -> Steps]
    <3>1. Resume(phase[w]) \in Steps
      BY DEF Resume, TypeOK, Phases, Steps
    <3>2. QED
      BY <1>13, <3>1, GotoType DEF SetDelivery
  <2>2. delivery' \in DeliveryStatuses
    BY <1>13 DEF SetDelivery, TypeOK
  <2>3. QED
    BY <1>13, <2>1, <2>2 DEF SetDelivery, TypeOK
<1>14. ASSUME NEW w \in Workers, SetupServer(w) PROVE TypeOK'
  BY <1>14 DEF SetupServer, Goto, TypeOK, Steps
<1>15. ASSUME NEW w \in Workers, Deliver(w) PROVE TypeOK'
  <2>1. mail[w] \in Mails
    BY <1>15, HoldsMail DEF Deliver
  <2>2. PICK r \in left[w] :
            /\ delivered' = [delivered EXCEPT ![mail[w]][r] = @ + 1]
            /\ left' = [left EXCEPT ![w] = @ \ {r}]
            /\ current' = [current EXCEPT ![w] = r]
    BY <1>15 DEF Deliver
  <2>3. r \in Recipients
    BY <2>2 DEF TypeOK
  <2>4. delivered[mail[w]][r] + 1 \in Nat
    BY <2>1, <2>3 DEF TypeOK
  <2>5. delivered' \in [Mails -> [Recipients -> Nat]]
    BY <2>1, <2>2, <2>3, <2>4 DEF TypeOK
  <2>6. left' \in [Workers -> SUBSET Recipients]
        /\ current' \in [Workers -> Recipients \cup {None}]
    BY <2>2, <2>3 DEF TypeOK
  <2>7. pc' \in [Workers -> Steps]
    BY <1>15, GotoType DEF Deliver, Steps
  <2>8. QED
    BY <1>15, <2>5, <2>6, <2>7 DEF Deliver, TypeOK
<1>16. ASSUME NEW w \in Workers, RecordSent(w) PROVE TypeOK'
  <2>1. mail[w] \in Mails /\ current[w] \in Recipients
    BY <1>16, HoldsMail DEF RecordSent, PlaceInv
  <2>2. "Sent" \in RecipientStatuses
    BY DEF RecipientStatuses
  <2>3. rl' \in [Workers -> [Recipients -> RecipientStatuses]]
    BY <1>16, <2>1, <2>2 DEF RecordSent, TypeOK
  <2>4. rstatus' \in [Mails -> [Recipients -> RecipientStatuses]]
    <3>1. [rstatus EXCEPT ![mail[w]][current[w]] = "Sent"]
              \in [Mails -> [Recipients -> RecipientStatuses]]
      BY <2>1, <2>2 DEF TypeOK
    <3>2. QED
      BY <1>16, <3>1 DEF RecordSent, TypeOK
  <2>5. pc' \in [Workers -> Steps] /\ current' \in [Workers -> Recipients \cup {None}]
    BY <1>16, GotoType DEF RecordSent, TypeOK, Steps
  <2>6. QED
    BY <1>16, <2>3, <2>4, <2>5 DEF RecordSent, TypeOK
<1>17. ASSUME NEW w \in Workers, FinishMail(w) PROVE TypeOK'
  <2>1. mail[w] \in Mails
    BY <1>17, HoldsMail DEF FinishMail
  <2>2. status' \in [Mails -> Statuses]
    BY <1>17, <2>1, SetStatusType DEF FinishMail, Statuses
  <2>3. age' \in [Mails -> 0..2] /\ fresh' \in SUBSET Mails
    BY <1>17, <2>1, TouchType DEF FinishMail
  <2>4. pc' \in [Workers -> Steps] /\ phase' \in [Workers -> Phases]
    BY <1>17, RefreshType DEF FinishMail, Phases
  <2>5. QED
    BY <1>17, <2>2, <2>3, <2>4 DEF FinishMail, TypeOK
<1>18. ASSUME NEW w \in Workers, LoseConnection(w) PROVE TypeOK'
  BY <1>18, FaultType DEF LoseConnection, Goto, TypeOK, Steps
<1>19. ASSUME NEW w \in Workers, RaiseError(w) PROVE TypeOK'
  BY <1>19 DEF RaiseError, Goto, TypeOK, Steps
<1>20. ASSUME NEW w \in Workers, FailToRecord(w) PROVE TypeOK'
  <2>1. mail[w] \in Mails /\ current[w] \in Recipients
    BY <1>20, HoldsMail DEF FailToRecord, PlaceInv
  <2>2. rl' \in [Workers -> [Recipients -> RecipientStatuses]]
    BY <1>20, <2>1 DEF FailToRecord, TypeOK
  <2>3. windows' \in [Mails -> SUBSET {"snapshot", "claim", "unrecorded", "resend"}]
    BY <1>20, <2>1 DEF FailToRecord, TypeOK
  <2>4. pc' \in [Workers -> Steps]
    BY <1>20, GotoType DEF FailToRecord, Steps
  <2>5. faults' \in 0..MaxFaults
    BY <1>20, FaultType DEF FailToRecord
  <2>6. QED
    BY <1>20, <2>2, <2>3, <2>4, <2>5 DEF FailToRecord, TypeOK
<1>21. ASSUME NEW w \in Workers, HandleBadConnection(w) PROVE TypeOK'
  <2>1. mail[w] \in Mails
    BY <1>21, HoldsMail DEF HandleBadConnection
  <2>2. status' \in [Mails -> Statuses]
    BY <1>21, <2>1, SetStatusType, StatusNames DEF HandleBadConnection, Sendable
  <2>3. age' \in [Mails -> 0..2] /\ fresh' \in SUBSET Mails
    BY <1>21, <2>1, TouchType DEF HandleBadConnection
  <2>4. pc' \in [Workers -> Steps] /\ phase' \in [Workers -> Phases]
    BY <1>21, RefreshType DEF HandleBadConnection, Phases
  <2>5. view' \in [Workers -> [Mails -> [Recipients -> RecipientStatuses]] \cup {None}]
    BY <1>21 DEF HandleBadConnection, TypeOK
  <2>6. QED
    BY <1>21, <2>2, <2>3, <2>4, <2>5 DEF HandleBadConnection, TypeOK
<1>22. ASSUME NEW w \in Workers, HandleError(w) PROVE TypeOK'
  <2>1. mail[w] \in Mails
    BY <1>22, HoldsMail DEF HandleError
  <2>2. \E s \in Statuses : SetStatus(mail[w], s)
    BY <1>22 DEF HandleError, Statuses, Sendable
  <2>3. status' \in [Mails -> Statuses]
    BY <2>1, <2>2, SetStatusType
  <2>4. age' \in [Mails -> 0..2] /\ fresh' \in SUBSET Mails
    BY <1>22, <2>1, TouchType DEF HandleError
  <2>5. pc' \in [Workers -> Steps] /\ phase' \in [Workers -> Phases]
    BY <1>22, RefreshType DEF HandleError, Phases
  <2>6. retry' \in [Mails -> Nat]
    <3>1. [retry EXCEPT ![mail[w]] = @ + 1] \in [Mails -> Nat]
      BY <2>1 DEF TypeOK
    <3>2. retry' = retry \/ retry' = [retry EXCEPT ![mail[w]] = @ + 1]
      BY <1>22 DEF HandleError
    <3>3. QED
      BY <3>1, <3>2 DEF TypeOK
  <2>7. QED
    BY <1>22, <2>3, <2>4, <2>5, <2>6 DEF HandleError, TypeOK
<1>23. ASSUME NEW w \in Workers, Abort(w) PROVE TypeOK'
  <2>1. pc[w] = "record" => mail[w] \in Mails
    BY HoldsMail
  <2>2. lock' \in [Mails -> Workers \cup {None}]
    BY <1>23 DEF Abort, TypeOK
  <2>3. windows' \in [Mails -> SUBSET {"snapshot", "claim", "unrecorded", "resend"}]
    <3>1. CASE pc[w] = "record"
      BY <1>23, <2>1, <3>1 DEF Abort, TypeOK
    <3>2. CASE pc[w] # "record"
      BY <1>23, <3>2 DEF Abort, TypeOK
    <3>3. QED
      BY <3>1, <3>2
  <2>4. pc' \in [Workers -> Steps]
    BY <1>23, GotoType DEF Abort, Steps
  <2>5. faults' \in 0..MaxFaults
    BY <1>23, FaultType DEF Abort
  <2>6. ForgetJob(w)
    BY <1>23 DEF Abort
  <2>7. QED
    BY <1>23, <2>2, <2>3, <2>4, <2>5, <2>6, ForgetType DEF Abort, TypeOK
<1>24. ASSUME SaveResend PROVE TypeOK'
  <2>1. resend.mail \in Mails /\ resend.rows \in [Recipients -> RecipientStatuses]
    BY <1>24 DEF SaveResend, TypeOK
  <2>2. status' \in [Mails -> Statuses]
    BY <1>24, <2>1, SetStatusType, StatusNames DEF SaveResend, Sendable
  <2>3. age' \in [Mails -> 0..2] /\ fresh' \in SUBSET Mails
    BY <1>24, <2>1, TouchType DEF SaveResend
  <2>4. rstatus' \in [Mails -> [Recipients -> RecipientStatuses]]
    BY <1>24, <2>1 DEF SaveResend, TypeOK
  <2>5. windows' \in [Mails -> SUBSET {"snapshot", "claim", "unrecorded", "resend"}]
    BY <1>24, <2>1 DEF SaveResend, TypeOK
  <2>6. QED
    BY <1>24, <2>2, <2>3, <2>4, <2>5 DEF SaveResend, TypeOK
<1>25. ASSUME RejectResend PROVE TypeOK'
  BY <1>25 DEF RejectResend, TypeOK
<1>26. ASSUME SelectDoomed PROVE TypeOK'
  BY <1>26, EmailQueueAssumption DEF SelectDoomed, TypeOK
<1>27. ASSUME ClearOutbox PROVE TypeOK'
  <2>1. {"Deleted", "Expired"} \subseteq Statuses
    BY DEF Statuses, Gone
  <2>2. status' \in [Mails -> Statuses]
    BY <1>27, <2>1 DEF ClearOutbox, TypeOK
  <2>3. QED
    BY <1>27, <2>2 DEF ClearOutbox, TypeOK
<1>28. CASE UNCHANGED vars
  BY <1>28 DEF vars, TypeOK
<1>29. ASSUME NEW w \in Workers, LeaveTry(w) PROVE TypeOK'
  BY <1>29 DEF LeaveTry, Goto, TypeOK, Steps
<1>30. QED
  BY <1>1, <1>2, <1>3, <1>4, <1>5, <1>6, <1>7, <1>8, <1>9, <1>10, <1>11, <1>12,
     <1>13, <1>14, <1>15, <1>16, <1>17, <1>18, <1>19, <1>20, <1>21, <1>22, <1>23,
     <1>24, <1>25, <1>26, <1>27, <1>28, <1>29
  DEF Next, Job, SendOne

-----------------------------------------------------------------------------
(***************************************************************************)
(* 'Sent' is the truth, wherever it is written: whatever races, whatever   *)
(* fails.  Beside the two tables this is kept of each worker's snapshot    *)
(* and lists, and of the document retry_sending() has loaded.              *)
(***************************************************************************)

\* The server has accepted the message for this recipient.
Served(m, r) == delivered[m][r] >= 1

\* The steps at which a worker's lists are those of the mail it holds.
Listed == Holding \ {"lock"}

ViewServed(w) ==
    view[w] # None =>
        \A m \in Mails, r \in Recipients : view[w][m][r] = "Sent" => Served(m, r)

\* A recipient who is not on the list of those to do has been served.
ListServed(w) ==
    pc[w] \in Listed =>
        \A r \in Recipients :
            rl[w][r] = "Sent" \/ r \notin left[w] => Served(mail[w], r)

TurnServed(w) == pc[w] = "record" => Served(mail[w], current[w])

Place(w) ==
    /\ pc[w] \in Holding => mail[w] \in Mails
    /\ pc[w] = "record" => current[w] \in Recipients

Truthful(w) == Place(w) /\ ViewServed(w) /\ ListServed(w) /\ TurnServed(w)

ResendServed ==
    resend # None =>
        \A r \in Recipients : resend.rows[r] = "Sent" => Served(resend.mail, r)

Tables == SentRowsWereDelivered /\ SentMailsAreComplete /\ ResendServed

Truth == Tables /\ \A w \in Workers : Truthful(w)

LEMMA TruthPlace == Truth => PlaceInv
BY DEF Truth, Truthful, Place, PlaceInv

LEMMA TruthInit == Init => Truth
<1> SUFFICES ASSUME Init PROVE Truth
  OBVIOUS
<1>1. /\ \A m \in Mails : status[m] = "None"
      /\ \A m \in Mails, r \in Recipients : rstatus[m][r] = "Not Sent"
      /\ resend = None
  BY DEF Init
<1>2. \A w \in Workers : pc[w] = "idle" /\ view[w] = None
  BY DEF Init
<1>3. Tables
  BY <1>1 DEF Tables, SentRowsWereDelivered, SentMailsAreComplete, ResendServed
<1>4. \A w \in Workers : Truthful(w)
  BY <1>2 DEF Truthful, Place, ViewServed, ListServed, TurnServed, Listed, Holding
<1>5. QED
  BY <1>3, <1>4 DEF Truth

\* What a step of worker w leaves alone: the variables of the others.
Alone(w) ==
    \A v \in Workers \ {w} :
        /\ pc'[v] = pc[v] /\ mail'[v] = mail[v] /\ view'[v] = view[v]
        /\ rl'[v] = rl[v] /\ left'[v] = left[v] /\ current'[v] = current[v]
        /\ phase'[v] = phase[v]

\* A delivery is not taken back.
Kept == \A m \in Mails, r \in Recipients : Served(m, r) => Served(m, r)'

LEMMA ForgetAlone ==
    ASSUME TypeOK, NEW w \in Workers, NEW s, Goto(w, s), ForgetJob(w)
    PROVE  Alone(w)
BY DEF TypeOK, Goto, ForgetJob, Alone

LEMMA RefreshAlone ==
    ASSUME TypeOK, NEW w \in Workers, NEW p \in Phases, ThenRefresh(w, p),
           UNCHANGED <<mail, rl, left, current>>,
           view' \in {view, [view EXCEPT ![w] = None]}
    PROVE  Alone(w)
BY DEF TypeOK, Goto, ThenRefresh, Alone

\* Of the steps of a worker only sendmail() delivers anything.
LEMMA WorkerAlone ==
    ASSUME TypeOK, Truth, NEW w \in Workers,
           Job(w) \/ Abort(w) \/ \E m \in Mails : SendNow(w, m)
    PROVE  Alone(w) /\ (~ Deliver(w) => UNCHANGED delivered)
<1> USE DEF local, admin, tables
<1>1. CASE \E m \in Mails : SendNow(w, m)
  BY <1>1 DEF SendNow, Alone, Goto, TypeOK
<1>2. CASE StartFlush(w)
  BY <1>2 DEF StartFlush, Alone, Goto, TypeOK
<1>3. CASE NextMail(w)
  BY <1>3 DEF NextMail, Alone, Goto, TypeOK
<1>4. CASE EndJob(w)
  BY <1>4, ForgetAlone DEF EndJob
<1>5. CASE MailGone(w)
  BY <1>5, ForgetAlone DEF MailGone
<1>6. CASE Abort(w)
  BY <1>6, ForgetAlone DEF Abort
<1>7. CASE LockMail(w)
  BY <1>7 DEF LockMail, Alone, Goto, TypeOK
<1>8. CASE SkipMail(w)
  BY <1>8 DEF SkipMail, Alone, Goto, TypeOK
<1>9. CASE CommitBeforeMark(w)
  BY <1>9 DEF CommitBeforeMark, Alone, Goto, TypeOK
<1>10. CASE MarkSending(w)
  BY <1>10, RefreshAlone DEF MarkSending, Phases
<1>11. CASE CountStatuses(w)
  BY <1>11 DEF CountStatuses, Alone, Goto, TypeOK
<1>12. CASE SetDelivery(w)
  BY <1>12 DEF SetDelivery, Alone, Goto, TypeOK
<1>13. CASE SetupServer(w)
  BY <1>13 DEF SetupServer, Alone, Goto, TypeOK
<1>14. CASE Deliver(w)
  BY <1>14 DEF Deliver, Alone, Goto, TypeOK
<1>15. CASE RecordSent(w)
  BY <1>15 DEF RecordSent, Alone, Goto, TypeOK
<1>16. CASE FinishMail(w)
  BY <1>16, RefreshAlone DEF FinishMail, Phases
<1>17. CASE LoseConnection(w)
  BY <1>17 DEF LoseConnection, Alone, Goto, TypeOK
<1>18. CASE RaiseError(w) \/ LeaveTry(w)
  BY <1>18 DEF RaiseError, LeaveTry, Alone, Goto, TypeOK
<1>19. CASE FailToRecord(w)
  BY <1>19 DEF FailToRecord, Alone, Goto, TypeOK
<1>20. CASE HandleBadConnection(w)
  BY <1>20, RefreshAlone DEF HandleBadConnection, Phases
<1>21. CASE HandleError(w)
  BY <1>21, RefreshAlone DEF HandleError, Phases
<1>22. QED
  BY <1>1, <1>2, <1>3, <1>4, <1>5, <1>6, <1>7, <1>8, <1>9, <1>10, <1>11, <1>12,
     <1>13, <1>14, <1>15, <1>16, <1>17, <1>18, <1>19, <1>20, <1>21
  DEF Job, SendOne

\* What says 'Sent' in another worker, and in the tables, goes on being true.
LEMMA OthersTruthful ==
    ASSUME Truth, NEW w \in Workers, Alone(w), Kept, Truthful(w)', Tables'
    PROVE  Truth'
<1>1. ASSUME NEW v \in Workers \ {w} PROVE Truthful(v)'
  <2>1. /\ pc'[v] = pc[v] /\ mail'[v] = mail[v] /\ view'[v] = view[v]
        /\ rl'[v] = rl[v] /\ left'[v] = left[v] /\ current'[v] = current[v]
    BY DEF Alone
  <2>2. Truthful(v)
    BY DEF Truth
  <2>3. Place(v)' /\ ViewServed(v)'
    BY <2>1, <2>2 DEF Truthful, Place, ViewServed, Kept
  <2>4. ListServed(v)'
    BY <2>1, <2>2 DEF Truthful, Place, ListServed, Kept, Listed
  <2>5. TurnServed(v)'
    <3>1. ASSUME pc[v] = "record" PROVE delivered'[mail[v]][current[v]] >= 1
      <4>1. mail[v] \in Mails /\ current[v] \in Recipients
            /\ Served(mail[v], current[v])
        BY <2>2, <3>1 DEF Truthful, Place, TurnServed, Holding, Steps
      <4>2. QED
        BY <4>1 DEF Kept, Served
    <3>2. QED
      BY <2>1, <3>1 DEF TurnServed, Served
  <2>6. QED
    BY <2>3, <2>4, <2>5 DEF Truthful
<1>2. QED
  BY <1>1 DEF Truth

LEMMA TablesKept ==
    ASSUME TypeOK, Tables, Kept, UNCHANGED <<rstatus, resend>>,
           \A m \in Mails : status'[m] = "Sent" => status[m] = "Sent"
    PROVE  Tables'
<1>1. SentRowsWereDelivered' /\ SentMailsAreComplete'
  BY DEF Tables, SentRowsWereDelivered, SentMailsAreComplete, Kept, Served
<1>2. ResendServed'
  BY DEF Tables, ResendServed, Kept, TypeOK
<1>3. QED
  BY <1>1, <1>2 DEF Tables

\* An UPDATE to any other status leaves no new 'Sent'.
LEMMA NotMarkedSent ==
    ASSUME TypeOK, NEW m \in Mails, NEW s, s # "Sent", SetStatus(m, s)
    PROVE  \A n \in Mails : status'[n] = "Sent" => status[n] = "Sent"
BY DEF SetStatus, TypeOK

\* A step of a worker on its mail that makes no new list.
LEMMA ListsKept ==
    ASSUME Truth, NEW w \in Workers, Kept, pc[w] \in Listed,
           pc'[w] \in Listed \cup {"next"}, pc'[w] # "record",
           UNCHANGED <<mail, rl, left>>,
           view' = view \/ view'[w] \in {None, rstatus}
    PROVE  Truthful(w)'
<1>1. Truthful(w) /\ mail[w] \in Mails
  BY DEF Truth, Truthful, Place, Listed
<1>2. Place(w)' /\ TurnServed(w)'
  BY <1>1 DEF Place, TurnServed
<1>3. ViewServed(w)'
  <2>1. \A m \in Mails, r \in Recipients : rstatus[m][r] = "Sent" => Served(m, r)
    BY DEF Truth, Tables, SentRowsWereDelivered, Served
  <2>2. QED
    BY <1>1, <2>1 DEF Truthful, ViewServed, Kept
<1>4. ListServed(w)'
  BY <1>1 DEF Truthful, ListServed, Kept, Listed
<1>5. QED
  BY <1>2, <1>3, <1>4 DEF Truthful

LEMMA RefreshListed ==
    ASSUME TypeOK, NEW w \in Workers, NEW p \in Phases, ThenRefresh(w, p)
    PROVE  pc'[w] \in {"count", "setup", "leave", "next"}
BY DEF ThenRefresh, Resume, Phases, Goto, TypeOK

LEMMA TruthDeliver ==
    ASSUME TypeOK, Truth, NEW w \in Workers, Deliver(w)
    PROVE  Kept /\ Truthful(w)'
<1>1. mail[w] \in Mails /\ Truthful(w)
  BY TruthPlace, HoldsMail DEF Deliver, Truth
<1>2. PICK r \in left[w] :
          /\ delivered' = [delivered EXCEPT ![mail[w]][r] = @ + 1]
          /\ left' = [left EXCEPT ![w] = @ \ {r}]
          /\ current' = [current EXCEPT ![w] = r]
  BY DEF Deliver
<1>3. r \in Recipients
  BY <1>2 DEF TypeOK
<1>4. /\ delivered'[mail[w]][r] = delivered[mail[w]][r] + 1
      /\ \A m \in Mails, q \in Recipients :
             m # mail[w] \/ q # r => delivered'[m][q] = delivered[m][q]
  BY <1>1, <1>2, <1>3 DEF TypeOK
<1>5. delivered[mail[w]][r] \in Nat
  BY <1>1, <1>3 DEF TypeOK
<1>6. delivered'[mail[w]][r] >= 1
  BY <1>4, <1>5
<1>7. Kept
  BY <1>4, <1>6 DEF Kept, Served
<1>8. /\ pc[w] = "loop" /\ pc'[w] = "record" /\ current'[w] = r
      /\ left'[w] = left[w] \ {r}
      /\ mail'[w] = mail[w] /\ rl'[w] = rl[w] /\ view'[w] = view[w]
  BY <1>2 DEF Deliver, Goto, TypeOK
<1>9. Place(w)' /\ TurnServed(w)'
  BY <1>1, <1>3, <1>6, <1>8 DEF Place, TurnServed, Served
<1>10. ViewServed(w)'
  BY <1>1, <1>7, <1>8 DEF Truthful, ViewServed, Kept
<1>11. ListServed(w)'
  <2>1. pc[w] \in Listed
    BY <1>8 DEF Listed, Holding, Steps
  <2>2. \A q \in Recipients :
            rl[w][q] = "Sent" \/ q \notin left[w] => delivered'[mail[w]][q] >= 1
    BY <1>1, <1>7, <2>1 DEF Truthful, ListServed, Kept, Served
  <2>3. delivered'[mail[w]][r] >= 1
    BY <1>6
  <2>4. QED
    BY <1>8, <2>2, <2>3 DEF ListServed, Served
<1>12. QED
  BY <1>7, <1>9, <1>10, <1>11 DEF Truthful

LEMMA TruthLock ==
    ASSUME TypeOK, Truth, NEW w \in Workers, LockMail(w)
    PROVE  Truthful(w)'
<1> USE DEF tables, local, admin
<1>1. mail[w] \in Mails /\ Truthful(w)
  BY TruthPlace, HoldsMail DEF LockMail, Truth
<1>2. Kept
  BY DEF LockMail, Kept, Served
<1> DEFINE rows == RecipientsSeen(w)
<1>3. rows \in [Recipients -> RecipientStatuses]
  BY <1>1 DEF RecipientsSeen, TypeOK
<1>4. \A r \in Recipients : rows[r] = "Sent" => Served(mail[w], r)
  BY <1>1 DEF RecipientsSeen, Truth, Tables, SentRowsWereDelivered, Served,
              Truthful, ViewServed
<1>5. /\ pc'[w] = "locked" /\ mail'[w] = mail[w] /\ rl'[w] = rows
      /\ left'[w] = {r \in Recipients : rows[r] = "Not Sent"}
      /\ view'[w] = IF view[w] = None THEN rstatus ELSE view[w]
  BY DEF LockMail, Goto, TypeOK
<1>6. Place(w)' /\ TurnServed(w)'
  BY <1>1, <1>5 DEF Place, TurnServed
<1>7. ViewServed(w)'
  BY <1>1, <1>2, <1>5 DEF ViewServed, Truthful, Truth, Tables, SentRowsWereDelivered,
                          Kept, Served
<1>8. ListServed(w)'
  <2>1. \A r \in Recipients : r \notin left'[w] => rows[r] = "Sent"
    BY <1>3, <1>5 DEF RecipientStatuses
  <2>2. \A r \in Recipients : rows[r] = "Sent" => delivered'[mail[w]][r] >= 1
    BY <1>1, <1>2, <1>4 DEF Kept, Served
  <2>3. QED
    BY <1>5, <2>1, <2>2 DEF ListServed, Served
<1>9. QED
  BY <1>6, <1>7, <1>8 DEF Truthful

\* recipient.status = "Sent": of the one whose turn it is.
LEMMA TruthMark ==
    ASSUME TypeOK, Truth, NEW w \in Workers, NEW s, pc[w] = "record", Kept,
           rl' = [rl EXCEPT ![w][current[w]] = s], pc'[w] # "record",
           pc'[w] \in Listed, UNCHANGED <<mail, view, left>>
    PROVE  Truthful(w)'
<1>1. mail[w] \in Mails /\ Truthful(w) /\ current[w] \in Recipients
  BY TruthPlace, HoldsMail DEF Truth, Truthful, Place
<1>2. Place(w)' /\ TurnServed(w)'
  BY <1>1 DEF Place, TurnServed
<1>3. ViewServed(w)'
  BY <1>1 DEF Truthful, ViewServed, Kept
<1>4. \A r \in Recipients : r # current[w] => rl'[w][r] = rl[w][r]
  BY <1>1 DEF TypeOK
<1>5. delivered'[mail[w]][current[w]] >= 1
  BY <1>1 DEF Truthful, TurnServed, Kept, Served
<1>6. \A r \in Recipients :
          rl[w][r] = "Sent" \/ r \notin left[w] => delivered'[mail[w]][r] >= 1
  BY <1>1 DEF Truthful, ListServed, Kept, Served, Listed, Holding, Steps
<1>7. ListServed(w)'
  BY <1>4, <1>5, <1>6 DEF ListServed, Served
<1>8. QED
  BY <1>2, <1>3, <1>7 DEF Truthful

\* The row of the one whose turn it is.
LEMMA TruthRecord ==
    ASSUME TypeOK, Truth, NEW w \in Workers, RecordSent(w)
    PROVE  Tables'
<1> USE DEF tables, local, admin
<1>1. mail[w] \in Mails /\ current[w] \in Recipients /\ Truthful(w) /\ pc[w] = "record"
  BY TruthPlace, HoldsMail DEF RecordSent, Truth, Truthful, Place
<1>2. Served(mail[w], current[w])
  BY <1>1 DEF Truthful, TurnServed
<1>3. UNCHANGED <<delivered, resend, status>>
  BY DEF RecordSent
<1>4. \A m \in Mails, r \in Recipients :
          m # mail[w] \/ r # current[w] => rstatus'[m][r] = rstatus[m][r]
  BY <1>1 DEF RecordSent, TypeOK
<1>5. SentRowsWereDelivered'
  BY <1>2, <1>3, <1>4 DEF Truth, Tables, SentRowsWereDelivered, Served
<1>6. SentMailsAreComplete' /\ ResendServed'
  BY <1>3 DEF Truth, Tables, SentMailsAreComplete, ResendServed, Served
<1>7. QED
  BY <1>5, <1>6 DEF Tables

\* "if all are sent set status": nobody is left, so everybody was served.
LEMMA TruthFinish ==
    ASSUME TypeOK, Truth, NEW w \in Workers, FinishMail(w)
    PROVE  Tables'
<1> USE DEF tables, local, admin
<1>1. mail[w] \in Mails /\ Truthful(w) /\ pc[w] = "loop" /\ left[w] = {}
  BY TruthPlace, HoldsMail DEF FinishMail, Truth
<1>2. \A r \in Recipients : Served(mail[w], r)
  BY <1>1 DEF Truthful, ListServed, Listed, Holding, Steps
<1>3. UNCHANGED <<delivered, resend, rstatus>>
  BY DEF FinishMail
<1>4. \A m \in Mails : m # mail[w] => status'[m] = status[m]
  BY <1>1 DEF FinishMail, SetStatus, TypeOK
<1>5. SentMailsAreComplete'
  BY <1>2, <1>3, <1>4 DEF Truth, Tables, SentMailsAreComplete, Served
<1>6. SentRowsWereDelivered' /\ ResendServed'
  BY <1>3 DEF Truth, Tables, SentRowsWereDelivered, ResendServed, Served
<1>7. QED
  BY <1>5, <1>6 DEF Tables

\* After sendmail() it is the turn of a recipient to be recorded.
LEMMA DeliverMoves ==
    ASSUME TypeOK, NEW w \in Workers, Deliver(w)
    PROVE  pc[w] = "loop" /\ pc'[w] = "record"
BY DEF Deliver, Goto, TypeOK

\* Every step of a worker, and every step of the rest, keeps the truth.
LEMMA TruthWorker ==
    ASSUME TypeOK, Truth, NEW w \in Workers,
           Job(w) \/ Abort(w) \/ \E m \in Mails : SendNow(w, m)
    PROVE  Truth'
<1> USE DEF tables, local, admin
<1>0. Alone(w) /\ (~ Deliver(w) => Kept)
  BY WorkerAlone DEF Kept, Served
<1>1. Truthful(w) /\ Tables
  BY DEF Truth
<1>2. pc[w] \notin {"idle", "next"} => mail[w] \in Mails
  BY TruthPlace, HoldsMail
<1>3. ASSUME ~ Deliver(w), UNCHANGED <<status, rstatus, resend>> PROVE Tables'
  BY <1>0, <1>1, <1>3, TablesKept
<1>4. ASSUME ~ Deliver(w), pc'[w] \in {"idle", "next", "lock"},
             pc'[w] = "lock" => mail'[w] \in Mails, ViewServed(w)'
      PROVE  Truthful(w)'
  BY <1>4 DEF Truthful, Place, ListServed, TurnServed, Listed, Holding
<1>5. CASE \E m \in Mails : SendNow(w, m)
  <2>1. ~ Deliver(w)
    BY <1>5 DEF SendNow, Deliver
  <2>2. pc'[w] = "lock" /\ mail'[w] \in Mails
    BY <1>5 DEF SendNow, Goto, TypeOK
  <2>3. ViewServed(w)'
    BY <1>1, <1>5 DEF SendNow, ViewServed, Tables, SentRowsWereDelivered, Served, TypeOK
  <2>4. QED
    BY <1>0, <1>3, <1>4, <1>5, <2>1, <2>2, <2>3, OthersTruthful DEF SendNow
<1>6. CASE StartFlush(w)
  <2>1. ~ Deliver(w) /\ pc'[w] = "next"
    BY <1>6 DEF StartFlush, Deliver, Goto, TypeOK
  <2>2. ViewServed(w)'
    BY <1>1, <1>6 DEF StartFlush, ViewServed, Tables, SentRowsWereDelivered, Served, TypeOK
  <2>3. QED
    BY <1>0, <1>3, <1>4, <1>6, <2>1, <2>2, OthersTruthful DEF StartFlush
<1>7. CASE NextMail(w)
  <2>1. ~ Deliver(w) /\ pc'[w] = "lock" /\ mail'[w] \in Mails
    BY <1>7 DEF NextMail, Deliver, Goto, TypeOK
  <2>2. ViewServed(w)'
    BY <1>1, <1>7 DEF NextMail, ViewServed, Truthful, Served
  <2>3. QED
    BY <1>0, <1>3, <1>4, <1>7, <2>1, <2>2, OthersTruthful DEF NextMail
<1>8. CASE EndJob(w) \/ MailGone(w) \/ Abort(w)
  <2>1. ~ Deliver(w)
    BY <1>8, <1>2, DeliverMoves DEF EndJob, MailGone, Abort, Goto, TypeOK
  <2>2. pc'[w] = "idle" /\ view'[w] = None
    BY <1>8 DEF EndJob, MailGone, Abort, Goto, ForgetJob, TypeOK
  <2>3. ViewServed(w)'
    BY <2>2 DEF ViewServed
  <2>4. UNCHANGED <<status, rstatus, resend>>
    BY <1>8 DEF EndJob, MailGone, Abort
  <2>5. QED
    BY <1>0, <1>3, <1>4, <2>1, <2>2, <2>3, <2>4, OthersTruthful
<1>9. CASE LockMail(w)
  <2>1. ~ Deliver(w)
    BY <1>9 DEF LockMail, Deliver
  <2>2. QED
    BY <1>0, <1>3, <1>9, <2>1, TruthLock, OthersTruthful DEF LockMail
<1>10. CASE SkipMail(w)
  <2>1. ~ Deliver(w) /\ pc'[w] = "next" /\ view'[w] = None
    BY <1>10 DEF SkipMail, Deliver, Goto, TypeOK
  <2>2. ViewServed(w)'
    BY <2>1 DEF ViewServed
  <2>3. QED
    BY <1>0, <1>3, <1>4, <1>10, <2>1, <2>2, OthersTruthful DEF SkipMail
<1>11. CASE \/ CommitBeforeMark(w) \/ CountStatuses(w) \/ SetDelivery(w)
            \/ SetupServer(w) \/ LoseConnection(w) \/ RaiseError(w) \/ LeaveTry(w)
  <2>1. ~ Deliver(w)
    BY <1>11, DeliverMoves DEF CommitBeforeMark, CountStatuses, SetDelivery, Resume,
       SetupServer, LoseConnection, RaiseError, LeaveTry, InTry, Goto, TypeOK
  <2>2. pc[w] \in Listed
    BY <1>11 DEF CommitBeforeMark, CountStatuses, SetDelivery, Resume, SetupServer,
       LoseConnection, RaiseError, LeaveTry, InTry, Listed, Holding, Steps
  <2>3. pc'[w] \in {"mark", "deliver", "setup", "leave", "next", "loop", "badconn", "error"}
    BY <1>11 DEF CommitBeforeMark, CountStatuses, SetDelivery, Resume, SetupServer,
       LoseConnection, RaiseError, LeaveTry, InTry, Phases, Goto, TypeOK
  <2>4. pc'[w] \in Listed \cup {"next"} /\ pc'[w] # "record"
    BY <2>3 DEF Listed, Holding, Steps
  <2>5. UNCHANGED <<mail, rl, left, status, rstatus, resend>>
        /\ (view' = view \/ view'[w] \in {None, rstatus})
    <3>1. CASE CommitBeforeMark(w) \/ CountStatuses(w)
      BY <1>11, <3>1 DEF CommitBeforeMark, CountStatuses, TypeOK
    <3>2. CASE SetDelivery(w) \/ SetupServer(w) \/ LeaveTry(w)
      BY <1>11, <3>2 DEF SetDelivery, SetupServer, LeaveTry
    <3>3. CASE LoseConnection(w) \/ RaiseError(w)
      BY <1>11, <3>3 DEF LoseConnection, RaiseError
    <3>4. QED
      BY <1>11, <3>1, <3>2, <3>3
  <2>6. Truthful(w)'
    BY <1>0, <2>1, <2>2, <2>4, <2>5, ListsKept
  <2>7. QED
    BY <1>0, <1>3, <2>1, <2>5, <2>6, OthersTruthful
<1>12. CASE MarkSending(w) \/ HandleBadConnection(w) \/ HandleError(w)
  <2>1. pc[w] \in {"mark", "badconn", "error"} /\ ~ Deliver(w)
    BY <1>12 DEF MarkSending, HandleBadConnection, HandleError, Deliver
  <2>2. \E p \in Phases : ThenRefresh(w, p)
    BY <1>12 DEF MarkSending, HandleBadConnection, HandleError, Phases
  <2>3. pc'[w] \in Listed \cup {"next"} /\ pc'[w] # "record" /\ pc[w] \in Listed
    BY <2>1, <2>2, RefreshListed DEF Listed, Holding, Steps
  <2>4. UNCHANGED <<mail, rl, left, rstatus, resend>>
        /\ (view' = view \/ view'[w] \in {None, rstatus})
    BY <1>12 DEF MarkSending, HandleBadConnection, HandleError, TypeOK
  <2>5. \E s : s # "Sent" /\ SetStatus(mail[w], s)
    BY <1>12 DEF MarkSending, HandleBadConnection, HandleError
  <2>6. \A n \in Mails : status'[n] = "Sent" => status[n] = "Sent"
    BY <1>2, <2>1, <2>5, NotMarkedSent
  <2>7. Tables'
    BY <1>0, <1>1, <2>1, <2>4, <2>6, TablesKept
  <2>8. Truthful(w)'
    BY <1>0, <2>1, <2>3, <2>4, ListsKept
  <2>9. QED
    BY <1>0, <2>1, <2>7, <2>8, OthersTruthful
<1>13. CASE FinishMail(w)
  <2>1. ~ Deliver(w) /\ pc[w] \in Listed
    BY <1>13 DEF FinishMail, Deliver, Listed, Holding, Steps
  <2>2. pc'[w] \in Listed \cup {"next"} /\ pc'[w] # "record"
    BY <1>13, RefreshListed DEF FinishMail, Phases, Listed, Holding, Steps
  <2>3. Truthful(w)'
    BY <1>0, <1>13, <2>1, <2>2, ListsKept DEF FinishMail
  <2>4. QED
    BY <1>0, <1>13, <2>1, <2>3, TruthFinish, OthersTruthful
<1>14. CASE RecordSent(w)
  <2>1. ~ Deliver(w) /\ pc[w] = "record"
    BY <1>14 DEF RecordSent, Deliver
  <2>2. pc'[w] = "loop"
    BY <1>14 DEF RecordSent, Goto, TypeOK
  <2>3. pc'[w] \in Listed
    BY <2>2 DEF Listed, Holding, Steps
  <2>4. rl' = [rl EXCEPT ![w][current[w]] = "Sent"] /\ UNCHANGED <<mail, view, left>>
    BY <1>14 DEF RecordSent
  <2>5. Truthful(w)'
    BY <1>0, <2>1, <2>2, <2>3, <2>4, TruthMark
  <2>6. QED
    BY <1>0, <1>14, <2>1, <2>5, TruthRecord, OthersTruthful
<1>15. CASE FailToRecord(w)
  <2>1. ~ Deliver(w) /\ pc[w] = "record"
    BY <1>15 DEF FailToRecord, Deliver
  <2>2. pc'[w] \in {"badconn", "error"}
    BY <1>15 DEF FailToRecord, Goto, TypeOK
  <2>3. pc'[w] \in Listed /\ pc'[w] # "record"
    BY <2>2 DEF Listed, Holding, Steps
  <2>4. PICK s \in RecipientStatuses : rl' = [rl EXCEPT ![w][current[w]] = s]
    BY <1>15 DEF FailToRecord
  <2>5. UNCHANGED <<mail, view, left, status, rstatus, resend>>
    BY <1>15 DEF FailToRecord
  <2>6. Truthful(w)'
    BY <1>0, <2>1, <2>3, <2>4, <2>5, TruthMark
  <2>7. QED
    BY <1>0, <1>3, <2>1, <2>5, <2>6, OthersTruthful
<1>16. CASE Deliver(w)
  <2>1. UNCHANGED <<status, rstatus, resend>>
    BY <1>16 DEF Deliver
  <2>2. Tables'
    BY <1>1, <1>16, <2>1, TruthDeliver, TablesKept
  <2>3. QED
    BY <1>0, <1>16, <2>2, TruthDeliver, OthersTruthful
<1>17. QED
  BY <1>5, <1>6, <1>7, <1>8, <1>9, <1>10, <1>11, <1>12, <1>13, <1>14, <1>15, <1>16
  DEF Job, SendOne

\* A step that no worker takes.
Outside ==
    \/ \E m \in Mails : AddMail(m) \/ LoadForResend(m) \/ Tick(m)
    \/ SaveResend \/ RejectResend \/ SelectDoomed \/ ClearOutbox
    \/ UNCHANGED vars

LEMMA OutsideLocal ==
    ASSUME Outside
    PROVE  UNCHANGED <<pc, local, delivered>>
BY DEF Outside, AddMail, LoadForResend, Tick, SaveResend, RejectResend, SelectDoomed,
       ClearOutbox, vars, admin

LEMMA TruthOutside ==
    ASSUME TypeOK, Truth, Outside
    PROVE  Truth'
<1> USE DEF tables, local, admin
<1>1. Kept /\ \A w \in Workers : Truthful(w)'
  <2>1. UNCHANGED <<pc, local, delivered>>
    BY OutsideLocal
  <2>2. ASSUME NEW w \in Workers PROVE Truthful(w)'
    <3>1. Truthful(w)
      BY DEF Truth
    <3>2. Place(w)' /\ ViewServed(w)' /\ ListServed(w)' /\ TurnServed(w)'
      BY <2>1, <3>1 DEF Truthful, Place, ViewServed, ListServed, TurnServed, Served
    <3>3. QED
      BY <3>2 DEF Truthful
  <2>3. Kept
    BY <2>1 DEF Kept, Served
  <2>4. QED
    BY <2>2, <2>3
<1>2. CASE \/ \E m \in Mails : AddMail(m) \/ Tick(m)
           \/ SelectDoomed \/ ClearOutbox \/ UNCHANGED vars
  <2>1. UNCHANGED <<rstatus, resend>>
    BY <1>2 DEF AddMail, Tick, SelectDoomed, ClearOutbox, vars
  <2>2. \A m \in Mails : status'[m] = "Sent" => status[m] = "Sent"
    BY <1>2 DEF AddMail, Tick, SelectDoomed, ClearOutbox, vars, TypeOK
  <2>3. QED
    BY <1>1, <2>1, <2>2, TablesKept DEF Truth
<1>3. CASE \E m \in Mails : LoadForResend(m)
  <2>1. PICK m \in Mails : LoadForResend(m)
    BY <1>3
  <2>2. UNCHANGED <<status, rstatus, delivered>>
        /\ resend' = [mail |-> m, rows |-> rstatus[m]]
    BY <2>1 DEF LoadForResend
  <2>3. Tables'
    BY <2>2 DEF Truth, Tables, SentRowsWereDelivered, SentMailsAreComplete,
                ResendServed, Served
  <2>4. QED
    BY <1>1, <2>3 DEF Truth
<1>4. CASE SaveResend
  <2>1. resend.mail \in Mails /\ resend # None
    BY <1>4 DEF SaveResend, TypeOK
  <2>2. SetStatus(resend.mail, "Not Sent") /\ UNCHANGED delivered /\ resend' = None
        /\ rstatus' = [rstatus EXCEPT ![resend.mail] = resend.rows]
    BY <1>4 DEF SaveResend
  <2>3. \A m \in Mails : status'[m] = "Sent" => status[m] = "Sent"
    BY <2>1, <2>2, NotMarkedSent
  <2>4. SentMailsAreComplete' /\ ResendServed'
    BY <2>2, <2>3 DEF Truth, Tables, SentMailsAreComplete, ResendServed
  <2>5. SentRowsWereDelivered'
    BY <2>1, <2>2 DEF Truth, Tables, SentRowsWereDelivered, ResendServed, Served, TypeOK
  <2>6. QED
    BY <1>1, <2>4, <2>5 DEF Truth, Tables
<1>5. CASE RejectResend
  <2>1. UNCHANGED <<status, rstatus, delivered>> /\ resend' = None
    BY <1>5 DEF RejectResend
  <2>2. Tables'
    BY <2>1 DEF Truth, Tables, SentRowsWereDelivered, SentMailsAreComplete, ResendServed
  <2>3. QED
    BY <1>1, <2>2 DEF Truth
<1>6. QED
  BY <1>2, <1>3, <1>4, <1>5 DEF Outside

LEMMA NextSteps ==
    ASSUME [Next]_vars
    PROVE  \/ Outside
           \/ \E w \in Workers :
                  Job(w) \/ Abort(w) \/ \E m \in Mails : SendNow(w, m)
BY DEF Next, Outside

Known == TypeOK /\ Truth

LEMMA KnownStep == Known /\ [Next]_vars => Known'
<1> SUFFICES ASSUME TypeOK, Truth, [Next]_vars PROVE Known'
  BY DEF Known
<1>1. TypeOK'
  BY TypeStep, TruthPlace
<1>2. Truth'
  BY NextSteps, TruthWorker, TruthOutside
<1>3. QED
  BY <1>1, <1>2 DEF Known

LEMMA KnownHolds == Spec => []Known
<1>1. Init => Known
  BY TypeInit, TruthInit DEF Known
<1>2. QED
  BY <1>1, KnownStep, PTL DEF Spec

\* Every variable keeps its type in every behaviour.
THEOREM TypeCorrect == Spec => []TypeOK
<1>1. Known => TypeOK
  BY DEF Known
<1>2. QED
  BY <1>1, KnownHolds, PTL

\* A recipient's row says 'Sent' only of a message the server has taken:
\* send_one(), retry_sending() and their races, for all workers and mails.
THEOREM SentIsTrue == Spec => []SentRowsWereDelivered
<1>1. Known => SentRowsWereDelivered
  BY DEF Known, Truth, Tables
<1>2. QED
  BY <1>1, KnownHolds, PTL

\* A mail is 'Sent' only when each recipient's message has been taken, though
\* the code asks whether any of the recipients in its own list is sent.
THEOREM SentIsComplete == Spec => []SentMailsAreComplete
<1>1. Known => SentMailsAreComplete
  BY DEF Known, Truth, Tables
<1>2. QED
  BY <1>1, KnownHolds, PTL

-----------------------------------------------------------------------------
(***************************************************************************)
(* Nobody gets a mail twice but through one of the windows.  The invariant *)
(* is about the mails none was open for: one worker tries at a time, the   *)
(* row says 'Sending' meanwhile, or 'Sent' from the last status change of  *)
(* the try block on, the recipients to do have got nothing, and whoever got*)
(* the message got it once and is recorded, or is about to be.             *)
(***************************************************************************)

\* A loaded document that is still current is one that failed (or is deleted).
FreshFailed ==
    \A m \in fresh : status[m] \in {"Error", "Partially Errored", "Deleted"}

\* From the lock to the end of the loop, those to do are those who are not sent.
Listing(w) ==
    \/ pc[w] \in {"locked", "mark", "setup", "loop"}
    \/ pc[w] \in {"count", "deliver"} /\ phase[w] = "start"

Unsent(w) == {r \in Recipients : rl[w][r] = "Not Sent"}

ListIsRight(w) ==
    /\ Listing(w) => left[w] = Unsent(w)
    /\ pc[w] = "record" => left[w] = Unsent(w) \ {current[w]}

ToDoIsListed == \A w \in Workers : ListIsRight(w)

Clean(m) == windows[m] = {}

\* The worker is past its claim of the mail and has left neither the try block nor
\* its except clauses.
AtIt(w) ==
    \/ pc[w] \in {"setup", "loop", "record", "leave", "badconn", "error"}
    \/ pc[w] \in {"count", "deliver"} /\ phase[w] # "end"

OneTries ==
    \A v, w \in Workers :
        AtIt(v) /\ AtIt(w) /\ mail[v] = mail[w] /\ Clean(mail[w]) => v = w

\* Behind the last status change of the try block, which may still fail.
Leaving(w) ==
    phase[w] = "tried" /\ pc[w] \in {"count", "deliver", "leave", "badconn", "error"}

Says(w) ==
    \/ status[mail[w]] \in {"Sending", "Deleted"}
    \/ status[mail[w]] = "Sent" /\ Leaving(w)

RowSaysSo == \A w \in Workers : AtIt(w) /\ Clean(mail[w]) => Says(w)

ToDoGotNothing ==
    \A w \in Workers : AtIt(w) /\ Clean(mail[w]) =>
        \A r \in left[w] : delivered[mail[w]][r] = 0

Turn(w, m, r) == pc[w] = "record" /\ mail[w] = m /\ current[w] = r

Recorded(m, r) ==
    \/ rstatus[m][r] = "Sent"
    \/ status[m] = "Deleted"
    \/ \E w \in Workers : Turn(w, m, r)

OnceAndRecorded ==
    \A m \in Mails, r \in Recipients : Clean(m) =>
        /\ delivered[m][r] <= 1
        /\ delivered[m][r] = 1 => Recorded(m, r)

Claims == OneTries /\ RowSaysSo /\ ToDoGotNothing /\ OnceAndRecorded

Once == FreshFailed /\ ToDoIsListed /\ Claims

LEMMA OnceInit == Init => Once
<1> SUFFICES ASSUME Init PROVE Once
  OBVIOUS
<1>1. \A w \in Workers : pc[w] = "idle" /\ ~ AtIt(w)
  BY DEF Init, AtIt
<1>2. fresh = {} /\ \A m \in Mails, r \in Recipients : delivered[m][r] = 0
  BY DEF Init
<1>3. FreshFailed /\ ToDoIsListed
  BY <1>1, <1>2 DEF FreshFailed, ToDoIsListed, ListIsRight, Listing
<1>4. Claims
  BY <1>1, <1>2 DEF Claims, OneTries, RowSaysSo, ToDoGotNothing, OnceAndRecorded
<1>5. QED
  BY <1>3, <1>4 DEF Once

\* The history of windows only grows.
WindowsGrow == \A m \in Mails : windows[m] \subseteq windows'[m]

\* A step that delivers nothing and writes nothing down: nobody starts to try,
\* and whoever goes on trying has the same mail and list.
LEMMA ClaimsFrame ==
    ASSUME TypeOK, Truth, Claims, WindowsGrow, UNCHANGED delivered,
           \A m \in Mails : windows'[m] = {} => rstatus'[m] = rstatus[m],
           \A m \in Mails : status[m] = "Deleted" => status'[m] = "Deleted",
           \A v \in Workers : AtIt(v)' =>
               /\ AtIt(v) /\ mail'[v] = mail[v] /\ left'[v] = left[v]
               /\ current'[v] = current[v],
           \A v \in Workers : pc[v] = "record" =>
               pc'[v] = "record" \/ windows'[mail[v]] # {},
           \A v \in Workers : AtIt(v)' /\ windows'[mail[v]] = {} /\ Says(v) => Says(v)'
    PROVE  Claims'
<1>1. \A v \in Workers : AtIt(v)' =>
          /\ AtIt(v) /\ mail'[v] = mail[v] /\ left'[v] = left[v]
          /\ current'[v] = current[v]
  OBVIOUS
<1>2. \A v \in Workers : AtIt(v) => mail[v] \in Mails
  BY DEF Truth, Truthful, Place, AtIt, Holding, TypeOK
<1>3. \A m \in Mails : windows'[m] = {} => Clean(m)
  BY DEF WindowsGrow, Clean
<1>4. OneTries'
  BY <1>1, <1>2, <1>3 DEF Claims, OneTries, Clean
<1>5. RowSaysSo'
  BY <1>1, <1>2, <1>3 DEF Claims, RowSaysSo, Clean
<1>6. ToDoGotNothing'
  BY <1>1, <1>2, <1>3 DEF Claims, ToDoGotNothing, Clean
<1>7. OnceAndRecorded'
  <2> SUFFICES ASSUME NEW m \in Mails, NEW r \in Recipients, windows'[m] = {}
      PROVE  /\ delivered[m][r] <= 1
             /\ delivered[m][r] = 1 => Recorded(m, r)'
    BY DEF OnceAndRecorded, Clean
  <2>1. delivered[m][r] <= 1 /\ (delivered[m][r] = 1 => Recorded(m, r))
    BY <1>3 DEF Claims, OnceAndRecorded
  <2>2. ASSUME NEW v \in Workers, Turn(v, m, r) PROVE Turn(v, m, r)'
    <3>1. pc'[v] = "record"
      BY <2>2 DEF Turn
    <3>2. QED
      BY <1>1, <2>2, <3>1 DEF Turn, AtIt
  <2>3. Recorded(m, r) => Recorded(m, r)'
    BY <2>2 DEF Recorded
  <2>4. QED
    BY <2>1, <2>3
<1>8. QED
  BY <1>4, <1>5, <1>6, <1>7 DEF Claims

\* The same of a step of one worker, w.
LEMMA ClaimsAlone ==
    ASSUME TypeOK, Truth, Claims, NEW w \in Workers, Alone(w), WindowsGrow,
           UNCHANGED <<rstatus, delivered>>,
           \A m \in Mails : status[m] = "Deleted" => status'[m] = "Deleted",
           AtIt(w)' => /\ AtIt(w) /\ mail'[w] = mail[w] /\ left'[w] = left[w]
                         /\ current'[w] = current[w],
           pc[w] = "record" => pc'[w] = "record" \/ windows'[mail[w]] # {},
           AtIt(w)' /\ windows'[mail[w]] = {} /\ Says(w) => Says(w)',
           \A v \in Workers \ {w} : AtIt(v) /\ windows'[mail[v]] = {} =>
               status'[mail[v]] \in {status[mail[v]], "Sending", "Deleted"}
    PROVE  Claims'
<1>1. ASSUME NEW v \in Workers \ {w}
      PROVE  /\ AtIt(v)' => /\ AtIt(v) /\ mail'[v] = mail[v]
                              /\ left'[v] = left[v] /\ current'[v] = current[v]
             /\ pc[v] = "record" => pc'[v] = "record"
             /\ AtIt(v)' /\ windows'[mail[v]] = {} /\ Says(v) => Says(v)'
  <2>1. AtIt(v)' = AtIt(v) /\ Leaving(v)' = Leaving(v) /\ mail'[v] = mail[v]
        /\ left'[v] = left[v] /\ current'[v] = current[v] /\ pc'[v] = pc[v]
    BY DEF Alone, AtIt, Leaving
  <2>2. QED
    BY <2>1 DEF Says
<1>2. QED
  BY <1>1, ClaimsFrame

\* The claim: if it is not stale, nobody tries, and those to do got nothing.
LEMMA ClaimsMark ==
    ASSUME TypeOK, Truth, Once, NEW w \in Workers, MarkSending(w)
    PROVE  Claims'
<1> USE DEF tables, local, admin
<1> DEFINE m == mail[w]
<1>1. m \in Mails
  BY TruthPlace, HoldsMail DEF MarkSending
<1>2. Alone(w)
  BY RefreshAlone DEF MarkSending, Phases
<1>3. UNCHANGED <<rstatus, delivered, mail, left, current>> /\ pc[w] = "mark"
      /\ windows' = [windows EXCEPT ![m] = @ \cup IF ClaimIsStale(w) THEN {"claim"} ELSE {}]
  BY DEF MarkSending
<1>4. WindowsGrow /\ \A n \in Mails : n # m => windows'[n] = windows[n]
  BY <1>1, <1>3 DEF WindowsGrow, TypeOK
<1>5. windows'[m] = {} => Clean(m) /\ ~ ClaimIsStale(w)
  BY <1>1, <1>3 DEF Clean, TypeOK
<1>6. \A n \in Mails : n # m => status'[n] = status[n]
  BY <1>1 DEF MarkSending, SetStatus, TypeOK
<1>7. status'[m] = IF status[m] \in Gone THEN status[m] ELSE "Sending"
  BY <1>1 DEF MarkSending, SetStatus, TypeOK
<1>8. \A v \in Workers : AtIt(v) => mail[v] \in Mails
  BY DEF Truth, Truthful, Place, AtIt, Holding, TypeOK
<1>9. \A v \in Workers \ {w} : AtIt(v)' = AtIt(v) /\ Leaving(v)' = Leaving(v)
  BY <1>2 DEF Alone, AtIt, Leaving
<1>10. windows'[m] = {} =>
         /\ \A v \in Workers \ {w} : AtIt(v) => mail[v] # m
         /\ status[m] \in Sendable /\ rl[w] = rstatus[m]
  <2> SUFFICES ASSUME windows'[m] = {}
      PROVE  /\ \A v \in Workers \ {w} : AtIt(v) => mail[v] # m
             /\ status[m] \in Sendable /\ rl[w] = rstatus[m]
    OBVIOUS
  <2>1. status[m] \in Sendable /\ rl[w] = rstatus[m]
    BY <1>5 DEF ClaimIsStale
  <2>2. QED
    BY <1>5, <2>1 DEF Once, Claims, RowSaysSo, Says, Sendable
<1>11. OneTries'
  BY <1>3, <1>4, <1>8, <1>9, <1>10 DEF Once, Claims, OneTries, Clean
<1>12. RowSaysSo'
  BY <1>3, <1>4, <1>6, <1>7, <1>8, <1>9, <1>10
  DEF Once, Claims, RowSaysSo, Says, Clean, Sendable, Gone
<1>13. windows'[m] = {} => \A r \in left[w] : delivered[m][r] = 0
  <2> SUFFICES ASSUME windows'[m] = {}, NEW r \in left[w] PROVE delivered[m][r] = 0
    OBVIOUS
  <2>1. r \in Recipients /\ rstatus[m][r] = "Not Sent"
    <3>1. left[w] = {p \in Recipients : rl[w][p] = "Not Sent"}
      BY <1>3 DEF Once, ToDoIsListed, ListIsRight, Listing, Unsent
    <3>2. rl[w] = rstatus[m]
      BY <1>10
    <3>3. QED
      BY <3>1, <3>2
  <2>2. status[m] # "Deleted"
    BY <1>10 DEF Sendable
  <2>3. \A v \in Workers : ~ Turn(v, m, r)
    BY <1>3, <1>10 DEF Turn, AtIt
  <2>4. ~ Recorded(m, r)
    BY <2>1, <2>2, <2>3 DEF Recorded
  <2>5. delivered[m][r] <= 1 /\ delivered[m][r] # 1
    BY <1>1, <1>5, <2>1, <2>4 DEF Once, Claims, OnceAndRecorded
  <2>6. delivered[m][r] \in Nat
    <3>1. delivered \in [Mails -> [Recipients -> Nat]]
      BY DEF TypeOK
    <3>2. QED
      BY <1>1, <2>1, <3>1
  <2>7. QED
    BY <2>5, <2>6
<1>14. ToDoGotNothing'
  BY <1>3, <1>4, <1>8, <1>9, <1>13 DEF Once, Claims, ToDoGotNothing, Clean
<1>15. OnceAndRecorded'
  <2> SUFFICES ASSUME NEW n \in Mails, NEW r \in Recipients, windows'[n] = {}
      PROVE  /\ delivered[n][r] <= 1
             /\ delivered[n][r] = 1 => Recorded(n, r)'
    BY <1>3 DEF OnceAndRecorded, Clean
  <2>1. Clean(n)
    BY <1>4, <1>5 DEF Clean
  <2>2. delivered[n][r] <= 1 /\ (delivered[n][r] = 1 => Recorded(n, r))
    BY <2>1 DEF Once, Claims, OnceAndRecorded
  <2>3. \A v \in Workers : Turn(v, n, r) => Turn(v, n, r)'
    BY <1>2, <1>3 DEF Turn, Alone
  <2>4. status[n] = "Deleted" => status'[n] = "Deleted"
    BY <1>6, <1>7 DEF Gone
  <2>5. QED
    BY <1>3, <2>2, <2>3, <2>4 DEF Recorded
<1>16. QED
  BY <1>11, <1>12, <1>14, <1>15 DEF Claims

\* sendmail() for one of those to do.
LEMMA ClaimsDeliver ==
    ASSUME TypeOK, Truth, Once, NEW w \in Workers, Deliver(w)
    PROVE  Claims'
<1> USE DEF tables, local, admin
<1> DEFINE m == mail[w]
<1>1. m \in Mails
  BY TruthPlace, HoldsMail DEF Deliver
<1>2. Alone(w) /\ UNCHANGED <<rstatus, status, windows, mail, phase>>
  BY WorkerAlone DEF Job, SendOne, Deliver
<1>3. PICK q \in left[w] :
          /\ delivered' = [delivered EXCEPT ![m][q] = @ + 1]
          /\ left' = [left EXCEPT ![w] = @ \ {q}]
          /\ current' = [current EXCEPT ![w] = q]
  BY DEF Deliver
<1>4. q \in Recipients
  BY <1>3 DEF TypeOK
<1>5. /\ delivered'[m][q] = delivered[m][q] + 1
      /\ \A n \in Mails, r \in Recipients :
             n # m \/ r # q => delivered'[n][r] = delivered[n][r]
  BY <1>1, <1>3, <1>4 DEF TypeOK
<1>6. /\ pc[w] = "loop" /\ pc'[w] = "record" /\ current'[w] = q
      /\ left'[w] = left[w] \ {q}
  BY <1>3 DEF Deliver, Goto, TypeOK
<1>7. \A v \in Workers : AtIt(v)' = AtIt(v) /\ left'[v] \subseteq left[v]
  <2>1. \A v \in Workers \ {w} : AtIt(v)' = AtIt(v) /\ left'[v] = left[v]
    BY <1>2 DEF Alone, AtIt
  <2>2. AtIt(w)' = AtIt(w)
    BY <1>6 DEF AtIt
  <2>3. QED
    BY <1>6, <2>1, <2>2
<1>8. \A v \in Workers : AtIt(v) => mail[v] \in Mails
  BY DEF Truth, Truthful, Place, AtIt, Holding, TypeOK
<1>9. OneTries' /\ RowSaysSo'
  <2>1. \A v \in Workers : Leaving(v)' = Leaving(v)
    BY <1>2, <1>6 DEF Alone, Leaving
  <2>2. QED
    BY <1>2, <1>7, <2>1 DEF Once, Claims, OneTries, RowSaysSo, Says, Clean
<1>10. AtIt(w)
  BY <1>6 DEF AtIt
<1>11. ToDoGotNothing'
  <2> SUFFICES ASSUME NEW v \in Workers, AtIt(v), windows[mail[v]] = {},
                      NEW r \in left'[v]
      PROVE  delivered'[mail[v]][r] = 0
    BY <1>2, <1>7 DEF ToDoGotNothing, Clean
  <2>1. r \in left[v] /\ r \in Recipients /\ mail[v] \in Mails
    BY <1>7, <1>8 DEF TypeOK
  <2>2. delivered[mail[v]][r] = 0
    BY <2>1 DEF Once, Claims, ToDoGotNothing, Clean
  <2>3. CASE v = w
    BY <1>5, <1>6, <2>1, <2>2, <2>3
  <2>4. CASE v # w
    BY <1>5, <1>10, <2>1, <2>2, <2>4 DEF Once, Claims, OneTries, Clean
  <2>5. QED
    BY <2>3, <2>4
<1>12. OnceAndRecorded'
  <2> SUFFICES ASSUME NEW n \in Mails, NEW r \in Recipients, windows[n] = {}
      PROVE  /\ delivered'[n][r] <= 1
             /\ delivered'[n][r] = 1 => Recorded(n, r)'
    BY <1>2 DEF OnceAndRecorded, Clean
  <2>1. CASE n = m /\ r = q
    <3>1. delivered[n][r] = 0
      BY <1>3, <1>10, <2>1 DEF Once, Claims, ToDoGotNothing, Clean
    <3>2. Turn(w, n, r)'
      BY <1>2, <1>6, <2>1 DEF Turn
    <3>3. QED
      BY <1>5, <2>1, <3>1, <3>2 DEF Recorded
  <2>2. CASE n # m \/ r # q
    <3>1. delivered'[n][r] = delivered[n][r]
      BY <1>5, <2>2
    <3>2. delivered[n][r] <= 1 /\ (delivered[n][r] = 1 => Recorded(n, r))
      BY DEF Once, Claims, OnceAndRecorded, Clean
    <3>3. \A v \in Workers : Turn(v, n, r) => Turn(v, n, r)'
      BY <1>2, <1>6 DEF Turn, Alone
    <3>4. QED
      BY <1>2, <3>1, <3>2, <3>3 DEF Recorded
  <2>3. QED
    BY <2>1, <2>2
<1>13. QED
  BY <1>9, <1>11, <1>12 DEF Claims

\* recipient.status = "Sent", in the table: the turn is over, the row remains.
LEMMA ClaimsRecord ==
    ASSUME TypeOK, Truth, Once, NEW w \in Workers, RecordSent(w)
    PROVE  Claims'
<1> USE DEF tables, local, admin
<1> DEFINE m == mail[w]
           q == current[w]
<1>1. m \in Mails /\ q \in Recipients /\ pc[w] = "record"
  BY TruthPlace, HoldsMail DEF RecordSent, Truth, Truthful, Place
<1>2. Alone(w) /\ UNCHANGED <<status, windows, mail, phase, left, delivered>>
  BY WorkerAlone DEF Job, SendOne, RecordSent, Deliver
<1>3. pc'[w] = "loop"
  BY DEF RecordSent, Goto, TypeOK
<1>4. \A v \in Workers : AtIt(v)' = AtIt(v)
  <2>1. \A v \in Workers \ {w} : AtIt(v)' = AtIt(v)
    BY <1>2 DEF Alone, AtIt
  <2>2. AtIt(w)' = AtIt(w)
    BY <1>1, <1>3 DEF AtIt
  <2>3. QED
    BY <2>1, <2>2
<1>5. OneTries' /\ RowSaysSo' /\ ToDoGotNothing'
  <2>1. \A v \in Workers : Leaving(v)' = Leaving(v)
    BY <1>1, <1>2, <1>3 DEF Alone, Leaving
  <2>2. QED
    BY <1>2, <1>4, <2>1 DEF Once, Claims, OneTries, RowSaysSo, Says, ToDoGotNothing, Clean
<1>6. /\ \A n \in Mails, r \in Recipients : rstatus[n][r] = "Sent" => rstatus'[n][r] = "Sent"
      /\ status[m] \notin Gone => rstatus'[m][q] = "Sent"
  BY <1>1 DEF RecordSent, TypeOK
<1>7. OnceAndRecorded'
  <2> SUFFICES ASSUME NEW n \in Mails, NEW r \in Recipients, windows[n] = {},
                      delivered[n][r] = 1
      PROVE  Recorded(n, r)'
    BY <1>2 DEF Once, Claims, OnceAndRecorded, Clean
  <2>1. Recorded(n, r)
    BY DEF Once, Claims, OnceAndRecorded, Clean
  <2>2. ASSUME NEW v \in Workers, Turn(v, n, r) PROVE Recorded(n, r)'
    <3>1. CASE v # w
      BY <1>2, <2>2, <3>1 DEF Turn, Alone, Recorded
    <3>2. CASE v = w
      <4>1. n = m /\ r = q /\ AtIt(w)
        BY <2>2, <3>2 DEF Turn, AtIt
      <4>2. status[m] \in {"Sending", "Deleted"}
        BY <1>1, <4>1 DEF Once, Claims, RowSaysSo, Says, Leaving, Clean
      <4>3. QED
        BY <1>2, <1>6, <4>1, <4>2 DEF Recorded, Gone
    <3>3. QED
      BY <3>1, <3>2
  <2>3. QED
    BY <1>2, <1>6, <2>1, <2>2 DEF Recorded
<1>8. QED
  BY <1>5, <1>7 DEF Claims

\* An acceptance that was not recorded: its mail is not clean any more.
LEMMA ClaimsUnrecorded ==
    ASSUME TypeOK, Truth, Once, NEW w \in Workers, Alone(w), pc[w] = "record",
           UNCHANGED <<status, rstatus, delivered, mail, left>>, WindowsGrow,
           windows'[mail[w]] # {}
    PROVE  Claims'
<1>1. \A v \in Workers : AtIt(v)' => AtIt(v) /\ mail[v] \in Mails
  BY DEF Alone, AtIt, Truth, Truthful, Place, Holding, TypeOK
<1>2. \A m \in Mails : windows'[m] = {} => Clean(m)
  BY DEF WindowsGrow, Clean
<1>3. OneTries' /\ RowSaysSo' /\ ToDoGotNothing'
  <2>1. \A v \in Workers \ {w} : Leaving(v)' = Leaving(v)
    BY DEF Alone, Leaving
  <2>2. QED
    BY <1>1, <1>2, <2>1
    DEF Once, Claims, OneTries, RowSaysSo, Says, ToDoGotNothing, Clean
<1>4. OnceAndRecorded'
  <2> SUFFICES ASSUME NEW m \in Mails, NEW r \in Recipients, windows'[m] = {}
      PROVE  /\ delivered[m][r] <= 1
             /\ delivered[m][r] = 1 => Recorded(m, r)'
    BY DEF OnceAndRecorded, Clean
  <2>1. delivered[m][r] <= 1 /\ (delivered[m][r] = 1 => Recorded(m, r))
    BY <1>2 DEF Once, Claims, OnceAndRecorded
  <2>2. \A v \in Workers : Turn(v, m, r) => Turn(v, m, r)'
    BY DEF Turn, Alone
  <2>3. QED
    BY <2>1, <2>2 DEF Recorded
<1>5. QED
  BY <1>3, <1>4 DEF Claims

\* An except clause: the row gets its status, the worker stops trying.
LEMMA ClaimsEnd ==
    ASSUME TypeOK, Truth, Once, NEW w \in Workers,
           pc[w] \in {"badconn", "error"}, NEW s, SetStatus(mail[w], s),
           ThenRefresh(w, "end"), UNCHANGED <<windows, rstatus, delivered>>,
           UNCHANGED <<mail, rl, left, current>>,
           view' \in {view, [view EXCEPT ![w] = None]}
    PROVE  Claims'
<1>1. mail[w] \in Mails /\ AtIt(w)
  BY TruthPlace, HoldsMail DEF AtIt
<1>2. Alone(w)
  BY RefreshAlone DEF Phases
<1>3. ~ AtIt(w)'
  BY DEF ThenRefresh, Resume, Goto, AtIt, TypeOK
<1>4. \A m \in Mails : m # mail[w] => status'[m] = status[m]
  BY <1>1 DEF SetStatus, TypeOK
<1>5. \A m \in Mails : status[m] = "Deleted" => status'[m] = "Deleted"
  BY <1>1 DEF SetStatus, TypeOK, Gone
<1>6. ASSUME NEW v \in Workers \ {w}, AtIt(v), windows[mail[v]] = {}
      PROVE  status'[mail[v]] = status[mail[v]]
  <2>1. v # w /\ mail[v] \in Mails
    BY <1>6 DEF AtIt, Truth, Truthful, Place, Holding, TypeOK
  <2>2. mail[v] # mail[w]
    BY <1>1, <1>6, <2>1 DEF Once, Claims, OneTries, Clean
  <2>3. QED
    BY <1>4, <2>1, <2>2
<1>7. WindowsGrow
  BY DEF WindowsGrow
<1>8. QED
  BY <1>2, <1>3, <1>5, <1>6, <1>7, ClaimsAlone DEF Once

\* The loop is over and everyone on the list is sent: the row says 'Sent', unless
\* it was deleted, and the worker is still in the try block.
LEMMA FinishMarksSent ==
    ASSUME TypeOK, Truth, Once, NEW w \in Workers, FinishMail(w)
    PROVE  AnySent(w)
<1>1. left[w] = {} /\ left[w] = Unsent(w)
  BY DEF FinishMail, Once, ToDoIsListed, ListIsRight, Listing
<1>2. PICK r : r \in Recipients
  BY EmailQueueAssumption
<1>3. rl[w][r] \in RecipientStatuses /\ rl[w][r] # "Not Sent"
  <2>1. rl \in [Workers -> [Recipients -> RecipientStatuses]]
    BY DEF TypeOK
  <2>2. r \notin Unsent(w)
    BY <1>1
  <2>3. QED
    BY <1>2, <2>1, <2>2 DEF Unsent
<1>4. QED
  BY <1>2, <1>3 DEF AnySent, RecipientStatuses

LEMMA ClaimsFinish ==
    ASSUME TypeOK, Truth, Once, NEW w \in Workers, FinishMail(w)
    PROVE  Claims'
<1>1. mail[w] \in Mails /\ AtIt(w) /\ pc[w] = "loop" /\ SetStatus(mail[w], "Sent")
  BY TruthPlace, HoldsMail, FinishMarksSent DEF FinishMail, AtIt
<1>2. Alone(w)
  BY RefreshAlone DEF FinishMail, Phases
<1>3. Leaving(w)' /\ mail' = mail
  BY DEF FinishMail, ThenRefresh, Resume, Goto, Leaving, TypeOK
<1>4. \A m \in Mails : m # mail[w] => status'[m] = status[m]
  BY <1>1 DEF SetStatus, TypeOK
<1>5. \A m \in Mails : status[m] = "Deleted" => status'[m] = "Deleted"
  BY <1>1 DEF SetStatus, TypeOK, Gone
<1>6. ASSUME NEW v \in Workers \ {w}, AtIt(v), windows'[mail[v]] = {}
      PROVE  status'[mail[v]] = status[mail[v]]
  <2>1. mail[v] \in Mails
    BY <1>6 DEF AtIt, Truth, Truthful, Place, Holding, TypeOK
  <2>2. mail[v] # mail[w]
    BY <1>1, <1>6, <2>1 DEF FinishMail, Once, Claims, OneTries, Clean
  <2>3. QED
    BY <1>4, <2>1, <2>2
<1>7. Says(w) => Says(w)'
  <2>1. status'[mail[w]] = IF status[mail[w]] \in Gone THEN status[mail[w]] ELSE "Sent"
    BY <1>1 DEF SetStatus, TypeOK
  <2>2. QED
    BY <1>1, <1>3, <2>1 DEF Says, Leaving, Gone
<1>8. WindowsGrow /\ UNCHANGED <<rstatus, delivered, left, current>>
  BY DEF FinishMail, WindowsGrow
<1>9. QED
  BY <1>1, <1>2, <1>3, <1>5, <1>6, <1>7, <1>8, ClaimsAlone DEF Once

\* A worker's step that leaves the tables alone, and does not begin to try.
LEMMA ClaimsQuiet ==
    ASSUME TypeOK, Truth, Once, NEW w \in Workers, Alone(w),
           UNCHANGED <<status, rstatus, delivered>>, WindowsGrow,
           AtIt(w)' => /\ AtIt(w) /\ mail'[w] = mail[w] /\ left'[w] = left[w]
                         /\ current'[w] = current[w] /\ (Leaving(w) => Leaving(w)'),
           pc[w] = "record" => windows'[mail[w]] # {}
    PROVE  Claims'
<1>1. AtIt(w)' /\ Says(w) => Says(w)'
  BY DEF Says
<1>2. QED
  BY <1>1, ClaimsAlone DEF Once

LEMMA ClaimsWorker ==
    ASSUME TypeOK, Truth, Once, NEW w \in Workers,
           Job(w) \/ Abort(w) \/ \E m \in Mails : SendNow(w, m)
    PROVE  Claims'
<1> USE DEF tables, local, admin
<1>0. Alone(w)
  BY WorkerAlone
<1>1. pc[w] \notin {"idle", "next"} => mail[w] \in Mails
  BY TruthPlace, HoldsMail
<1>2. CASE \/ \E m \in Mails : SendNow(w, m)
           \/ StartFlush(w) \/ NextMail(w) \/ EndJob(w) \/ MailGone(w)
           \/ SkipMail(w) \/ CommitBeforeMark(w)
  <2>1. /\ pc'[w] \in {"lock", "next", "idle", "mark"} /\ pc[w] # "record"
        /\ UNCHANGED <<status, rstatus, delivered, windows>>
    BY <1>2 DEF SendNow, StartFlush, NextMail, EndJob, MailGone, SkipMail,
       CommitBeforeMark, Goto, TypeOK
  <2>2. ~ AtIt(w)' /\ WindowsGrow
    BY <2>1 DEF AtIt, WindowsGrow
  <2>3. QED
    BY <1>0, <2>1, <2>2, ClaimsQuiet
<1>3. CASE LockMail(w)
  <2>1. pc'[w] = "locked" /\ pc[w] = "lock" /\ UNCHANGED <<status, rstatus, delivered>>
    BY <1>3 DEF LockMail, Goto, TypeOK
  <2>2. ~ AtIt(w)'
    BY <2>1 DEF AtIt
  <2>3. WindowsGrow
    BY <1>1, <1>3, <2>1 DEF LockMail, WindowsGrow, TypeOK
  <2>4. QED
    BY <1>0, <2>1, <2>2, <2>3, ClaimsQuiet
<1>4. CASE Abort(w)
  <2>1. pc'[w] = "idle" /\ UNCHANGED <<status, rstatus, delivered>>
    BY <1>4 DEF Abort, Goto, TypeOK
  <2>2. ~ AtIt(w)'
    BY <2>1 DEF AtIt
  <2>3. WindowsGrow /\ (pc[w] = "record" => windows'[mail[w]] # {})
    BY <1>1, <1>4 DEF Abort, WindowsGrow, TypeOK
  <2>4. QED
    BY <1>0, <2>1, <2>2, <2>3, ClaimsQuiet
<1>5. CASE FailToRecord(w)
  <2>1. UNCHANGED <<status, rstatus, delivered, mail, left>> /\ pc[w] = "record"
    BY <1>5 DEF FailToRecord
  <2>2. windows' = [windows EXCEPT ![mail[w]] = @ \cup {"unrecorded"}]
    BY <1>5 DEF FailToRecord
  <2>3. WindowsGrow /\ windows'[mail[w]] # {}
    BY <1>1, <2>1, <2>2 DEF WindowsGrow, TypeOK
  <2>4. QED
    BY <1>0, <2>1, <2>2, <2>3, ClaimsUnrecorded
<1>6. CASE \/ CountStatuses(w) \/ SetDelivery(w) \/ SetupServer(w)
           \/ LoseConnection(w) \/ RaiseError(w) \/ LeaveTry(w)
  <2>1. pc[w] # "record" /\ WindowsGrow
        /\ UNCHANGED <<status, rstatus, delivered, mail, left, current, phase>>
    BY <1>6 DEF CountStatuses, SetDelivery, Resume, SetupServer, LoseConnection, RaiseError, LeaveTry, InTry,
       WindowsGrow
  <2>2. AtIt(w)' => AtIt(w) /\ (Leaving(w) => Leaving(w)')
    BY <1>6 DEF Leaving, Phases, CountStatuses, SetDelivery, Resume, SetupServer, LoseConnection, RaiseError, LeaveTry, InTry,
       AtIt, Goto, TypeOK
  <2>3. QED
    BY <1>0, <2>1, <2>2, ClaimsQuiet
<1>7. CASE HandleBadConnection(w) \/ HandleError(w)
  <2>1. /\ pc[w] \in {"badconn", "error"} /\ ThenRefresh(w, "end")
        /\ UNCHANGED <<windows, rstatus, delivered>>
        /\ UNCHANGED <<mail, rl, left, current>>
        /\ view' = [view EXCEPT ![w] = None]
    BY <1>7 DEF HandleBadConnection, HandleError
  <2>2. \E s : SetStatus(mail[w], s)
    BY <1>7 DEF HandleBadConnection, HandleError
  <2>3. QED
    BY <2>1, <2>2, ClaimsEnd
<1>8. QED
  BY <1>2, <1>3, <1>4, <1>5, <1>6, <1>7, ClaimsMark, ClaimsDeliver, ClaimsRecord,
     ClaimsFinish
  DEF Job, SendOne

LEMMA ClaimsOutside ==
    ASSUME TypeOK, Truth, Once, Outside
    PROVE  Claims'
<1> USE DEF tables, local, admin
<1>1. UNCHANGED <<pc, mail, left, current, phase, delivered>>
  BY OutsideLocal
<1>2. \A v \in Workers : AtIt(v)' = AtIt(v) /\ Leaving(v)' = Leaving(v)
  BY <1>1 DEF AtIt, Leaving
<1>3. \A v \in Workers : AtIt(v) => mail[v] \in Mails
  BY DEF Truth, Truthful, Place, AtIt, Holding, TypeOK
<1>5. WindowsGrow /\ \A m \in Mails : windows'[m] = {} => rstatus'[m] = rstatus[m]
  <2>1. CASE SaveResend
    <3>1. resend.mail \in Mails
      BY <2>1 DEF SaveResend, TypeOK
    <3>2. QED
      BY <2>1, <3>1 DEF SaveResend, WindowsGrow, TypeOK
  <2>2. CASE ~ SaveResend
    <3>1. UNCHANGED <<windows, rstatus>>
      BY <2>2 DEF Outside, AddMail, LoadForResend, Tick, RejectResend, SelectDoomed,
         ClearOutbox, vars
    <3>2. QED
      BY <3>1 DEF WindowsGrow
  <2>3. QED
    BY <2>1, <2>2
<1>6. \A m \in Mails : status[m] \in {"Sending", "Sent", "Deleted"} =>
          status'[m] \in {status[m], "Deleted"}
  <2>1. CASE SaveResend
    <3>1. resend.mail \in Mails /\ resend.mail \in fresh
      BY <2>1 DEF SaveResend, TypeOK
    <3>2. status[resend.mail] \in {"Error", "Partially Errored", "Deleted"}
      BY <3>1 DEF Once, FreshFailed
    <3>3. QED
      BY <2>1, <3>1, <3>2 DEF SaveResend, SetStatus, Gone, TypeOK
  <2>2. CASE ClearOutbox
    BY <2>2 DEF ClearOutbox, Expiring
  <2>3. CASE ~ SaveResend /\ ~ ClearOutbox
    BY <2>3 DEF Outside, AddMail, LoadForResend, Tick, RejectResend, SelectDoomed, vars,
       TypeOK
  <2>4. QED
    BY <2>1, <2>2, <2>3
<1>7. \A m \in Mails : windows'[m] = {} => windows[m] = {}
  BY <1>5 DEF WindowsGrow
<1>8. \A m \in Mails : status[m] = "Deleted" => status'[m] = "Deleted"
  BY <1>6
<1>9. \A v \in Workers : AtIt(v)' /\ Says(v) => Says(v)'
  BY <1>1, <1>2, <1>3, <1>6 DEF Says
<1>10. Claims
  BY DEF Once
<1>11. QED
  BY <1>1, <1>2, <1>5, <1>8, <1>9, <1>10, ClaimsFrame

\* What is loaded and current failed before; what is to do was listed.
LEMMA FreshWorker ==
    ASSUME TypeOK, Truth, Once, NEW w \in Workers,
           Job(w) \/ Abort(w) \/ \E m \in Mails : SendNow(w, m)
    PROVE  FreshFailed'
<1> USE DEF tables, local, admin
<1>1. pc[w] \notin {"idle", "next"} => mail[w] \in Mails
  BY TruthPlace, HoldsMail
<1>2. CASE UNCHANGED <<status, fresh>>
  BY <1>2 DEF Once, FreshFailed
<1>3. ASSUME NEW s, pc[w] \notin {"idle", "next"}, SetStatus(mail[w], s),
             \/ Touch(mail[w])
             \/ Untouched /\ s \in {"Error", "Partially Errored"}
      PROVE  FreshFailed'
  <2>1. \A m \in Mails : m # mail[w] => status'[m] = status[m]
    BY <1>1, <1>3 DEF SetStatus, TypeOK
  <2>2. status'[mail[w]] \in {s, status[mail[w]]}
    BY <1>1, <1>3 DEF SetStatus, TypeOK
  <2>3. fresh' \subseteq fresh /\ fresh' \subseteq Mails
        /\ (mail[w] \notin fresh' \/ s \in {"Error", "Partially Errored"})
    BY <1>3 DEF Touch, Untouched, TypeOK
  <2>4. QED
    BY <2>1, <2>2, <2>3 DEF Once, FreshFailed
<1>4. CASE MarkSending(w) \/ HandleBadConnection(w)
  BY <1>3, <1>4 DEF MarkSending, HandleBadConnection
<1>5. CASE FinishMail(w)
  BY <1>3, <1>5 DEF FinishMail
<1>6. CASE HandleError(w)
  BY <1>3, <1>6 DEF HandleError
<1>7. QED
  BY <1>2, <1>4, <1>5, <1>6
  DEF Job, SendOne, Abort, SendNow, StartFlush, NextMail, EndJob, LockMail, SkipMail,
      MailGone, CommitBeforeMark, CountStatuses, SetDelivery, Resume, SetupServer, Deliver,
      RecordSent, LoseConnection, RaiseError, FailToRecord,
       LeaveTry, InTry

LEMMA ListedWorker ==
    ASSUME TypeOK, Truth, Once, NEW w \in Workers,
           Job(w) \/ Abort(w) \/ \E m \in Mails : SendNow(w, m)
    PROVE  ToDoIsListed'
<1> USE DEF tables, local, admin
<1>1. Alone(w) /\ ToDoIsListed
  BY WorkerAlone DEF Once
<1>2. ASSUME ListIsRight(w)' PROVE ToDoIsListed'
  <2> SUFFICES ASSUME NEW v \in Workers PROVE ListIsRight(v)'
    BY DEF ToDoIsListed
  <2>1. CASE v = w
    BY <1>2, <2>1
  <2>2. CASE v # w
    <3>1. pc'[v] = pc[v] /\ left'[v] = left[v] /\ rl'[v] = rl[v] /\ phase'[v] = phase[v]
          /\ current'[v] = current[v]
      BY <1>1, <2>2 DEF Alone
    <3>2. ListIsRight(v)
      BY <1>1 DEF ToDoIsListed
    <3>3. QED
      BY <3>1, <3>2 DEF ListIsRight, Listing, Unsent
  <2>3. QED
    BY <2>1, <2>2
<1>3. ListIsRight(w)
  BY <1>1 DEF ToDoIsListed
<1>4. ASSUME Listing(w)' => Listing(w), pc'[w] # "record", UNCHANGED <<rl, left>>
      PROVE  ListIsRight(w)'
  BY <1>3, <1>4 DEF ListIsRight, Unsent
<1>5. CASE LockMail(w)
  <2>1. left'[w] = {r \in Recipients : rl'[w][r] = "Not Sent"} /\ pc'[w] = "locked"
    BY <1>5 DEF LockMail, Goto, TypeOK
  <2>2. QED
    BY <1>2, <2>1 DEF ListIsRight, Unsent
<1>6. CASE \/ CommitBeforeMark(w) \/ CountStatuses(w) \/ SetDelivery(w) \/ SetupServer(w)
           \/ LoseConnection(w) \/ RaiseError(w) \/ LeaveTry(w)
  <2>1. UNCHANGED <<rl, left, phase>>
    BY <1>6 DEF CommitBeforeMark, CountStatuses, SetDelivery, SetupServer, LoseConnection,
       RaiseError, LeaveTry
  <2>2. (Listing(w)' => Listing(w)) /\ pc'[w] # "record"
    BY <1>6, <2>1 DEF CommitBeforeMark, CountStatuses, SetDelivery, SetupServer, Resume,
       LoseConnection, RaiseError, LeaveTry, InTry, Listing, Phases, Goto, TypeOK
  <2>3. QED
    BY <1>2, <1>4, <2>1, <2>2
<1>7. CASE MarkSending(w)
  <2>1. UNCHANGED <<rl, left>> /\ Listing(w)
    BY <1>7 DEF MarkSending, Listing
  <2>2. pc'[w] # "record"
    BY <1>7, RefreshListed DEF MarkSending, Phases
  <2>3. QED
    BY <1>2, <1>4, <2>1, <2>2
<1>8. CASE FinishMail(w) \/ HandleBadConnection(w) \/ HandleError(w)
  <2>1. \E p \in {"tried", "end"} : ThenRefresh(w, p)
    BY <1>8 DEF FinishMail, HandleBadConnection, HandleError
  <2>2. pc'[w] \in {"count", "leave", "next"} /\ phase'[w] # "start"
    BY <2>1 DEF ThenRefresh, Resume, Goto, TypeOK
  <2>3. QED
    BY <1>2, <2>2 DEF ListIsRight, Listing
<1>9. CASE Deliver(w)
  <2>1. left[w] = Unsent(w) /\ rl' = rl /\ pc'[w] = "record"
    BY <1>3, <1>9 DEF Deliver, ListIsRight, Listing, Goto, TypeOK
  <2>2. left'[w] = left[w] \ {current'[w]}
    BY <1>9 DEF Deliver, TypeOK
  <2>3. QED
    BY <1>2, <2>1, <2>2 DEF ListIsRight, Listing, Unsent
<1>10. CASE RecordSent(w)
  <2>1. left[w] = Unsent(w) \ {current[w]} /\ left' = left /\ pc'[w] = "loop"
    BY <1>3, <1>10 DEF RecordSent, ListIsRight, Goto, TypeOK
  <2>2. current[w] \in Recipients
    BY <1>10 DEF RecordSent, Truth, Truthful, Place
  <2>3. Unsent(w)' = Unsent(w) \ {current[w]}
    BY <1>10, <2>2 DEF RecordSent, Unsent, TypeOK
  <2>4. QED
    BY <1>2, <2>1, <2>3 DEF ListIsRight
<1>11. CASE \/ \E m \in Mails : SendNow(w, m)
            \/ StartFlush(w) \/ NextMail(w) \/ EndJob(w) \/ MailGone(w) \/ Abort(w)
            \/ SkipMail(w) \/ FailToRecord(w)
  <2>1. pc'[w] \in {"idle", "next", "lock", "badconn", "error"}
    BY <1>11 DEF SendNow, StartFlush, NextMail, EndJob, MailGone, Abort, SkipMail,
       FailToRecord, Goto, TypeOK
  <2>2. QED
    BY <1>2, <2>1 DEF ListIsRight, Listing
<1>12. QED
  BY <1>5, <1>6, <1>7, <1>8, <1>9, <1>10, <1>11 DEF Job, SendOne

LEMMA OnceOutside ==
    ASSUME TypeOK, Truth, Once, Outside
    PROVE  Once'
<1> USE DEF tables, local, admin
<1>1. ToDoIsListed'
  <2>1. UNCHANGED <<pc, rl, left, current, phase>>
    BY OutsideLocal
  <2>2. ASSUME NEW w \in Workers PROVE ListIsRight(w)'
    <3>1. ListIsRight(w)
      BY DEF Once, ToDoIsListed
    <3>2. QED
      BY <2>1, <3>1 DEF ListIsRight, Listing, Unsent
  <2>3. QED
    BY <2>2 DEF ToDoIsListed
<1>2. FreshFailed'
  <2>1. CASE SaveResend
    <3>1. resend.mail \in Mails
      BY <2>1 DEF SaveResend, TypeOK
    <3>2. QED
      BY <2>1, <3>1 DEF SaveResend, SetStatus, Touch, Once, FreshFailed, TypeOK
  <2>2. CASE ~ SaveResend
    BY <2>2 DEF Outside, AddMail, LoadForResend, Tick, RejectResend, SelectDoomed,
       ClearOutbox, Expiring, vars, Once, FreshFailed, TypeOK
  <2>3. QED
    BY <2>1, <2>2
<1>3. QED
  BY <1>1, <1>2, ClaimsOutside DEF Once

LEMMA OnceStep == Known /\ Once /\ [Next]_vars => Once'
<1> SUFFICES ASSUME TypeOK, Truth, Once, [Next]_vars PROVE Once'
  BY DEF Known
<1>1. CASE Outside
  BY <1>1, OnceOutside
<1>2. ASSUME NEW w \in Workers,
             Job(w) \/ Abort(w) \/ \E m \in Mails : SendNow(w, m)
      PROVE  Once'
  BY <1>2, ClaimsWorker, FreshWorker, ListedWorker DEF Once
<1>3. QED
  BY <1>1, <1>2, NextSteps

LEMMA OnceHolds == Spec => []Once
<1>1. QED
  BY OnceInit, OnceStep, KnownHolds, PTL DEF Spec

\* A recipient who got a mail twice got it through one of the four windows,
\* for all workers, mails, faults and resends.
THEOREM NoOtherDuplicates == Spec => []DuplicatesOnlyFromKnownWindows
<1>1. Known /\ Once => DuplicatesOnlyFromKnownWindows
  <2> SUFFICES ASSUME Known, Once, NEW m \in Mails, NEW r \in Recipients,
                      delivered[m][r] > 1, windows[m] = {}
      PROVE  FALSE
    BY DEF DuplicatesOnlyFromKnownWindows
  <2>1. delivered[m][r] <= 1
    BY DEF Once, Claims, OnceAndRecorded, Clean
  <2>2. delivered[m][r] \in Nat
    BY DEF Known, TypeOK
  <2>3. QED
    BY <2>1, <2>2
<1>2. QED
  BY <1>1, KnownHolds, OnceHolds, PTL

-----------------------------------------------------------------------------
(***************************************************************************)
(* With one worker, no crash, every acceptance recorded and no resend, no  *)
(* window matters: the worker's snapshot is the table, whatever            *)
(* clear_outbox() deletes or expires behind its back.                      *)
(***************************************************************************)
Calm ==
    /\ \A v, w \in Workers : v = w
    /\ "abort" \notin FaultKinds /\ "unrecorded" \notin FaultKinds
    /\ MaxResends = 0

\* The worker has made its list of the recipients to do.
Busy(w) == pc[w] \in {"locked", "mark"} \/ AtIt(w)

\* The worker's snapshot is current until it gives it up, and the mails it
\* knows are rows of the table, or were.
SnapshotIsCurrent(w) ==
    view[w] # None =>
        /\ view[w] = rstatus
        /\ \/ pc[w] \in {"next", "lock", "locked", "leave", "badconn", "error"}
           \/ pc[w] = "deliver" /\ phase[w] # "start"

MailsExist(w) ==
    /\ \A m \in todo[w] : status[m] # "None"
    /\ pc[w] \in Holding => status[mail[w]] # "None"

ToDoIsNew(w) == Busy(w) => \A r \in left[w] : delivered[mail[w]][r] = 0

AllRecorded ==
    \A m \in Mails, r \in Recipients :
        /\ delivered[m][r] <= 1
        /\ delivered[m][r] = 1 => Recorded(m, r)

Single ==
    /\ resend = None
    /\ \A w \in Workers : SnapshotIsCurrent(w) /\ MailsExist(w) /\ ToDoIsNew(w)
    /\ AllRecorded

LEMMA SingleInit == Init => Single
<1> SUFFICES ASSUME Init PROVE Single
  OBVIOUS
<1>1. resend = None /\ \A m \in Mails, r \in Recipients : delivered[m][r] = 0
  BY DEF Init
<1>2. \A w \in Workers : pc[w] = "idle" /\ view[w] = None /\ todo[w] = {}
  BY DEF Init
<1>3. \A w \in Workers : SnapshotIsCurrent(w) /\ MailsExist(w) /\ ToDoIsNew(w)
  BY <1>2 DEF SnapshotIsCurrent, MailsExist, ToDoIsNew, Busy, AtIt, Holding
<1>4. AllRecorded
  BY <1>1 DEF AllRecorded
<1>5. QED
  BY <1>1, <1>3, <1>4 DEF Single

\* No row is forgotten: a mail that was added may be deleted, not unmade.
Remembered ==
    \A m \in Mails : /\ status[m] # "None" => status'[m] # "None"
                     /\ status[m] = "Deleted" => status'[m] = "Deleted"

\* A step of the worker that delivers and records nothing.
LEMMA SingleFrame ==
    ASSUME Calm, TypeOK, Single, NEW w \in Workers, Remembered,
           UNCHANGED <<rstatus, delivered, resend>>, pc[w] # "record",
           SnapshotIsCurrent(w)', MailsExist(w)', ToDoIsNew(w)'
    PROVE  Single'
<1>1. \A v \in Workers : v = w
  BY DEF Calm
<1>2. \A m \in Mails, r \in Recipients : Recorded(m, r) => Recorded(m, r)'
  BY <1>1 DEF Recorded, Turn, Remembered
<1>3. AllRecorded'
  BY <1>2 DEF Single, AllRecorded
<1>4. QED
  BY <1>1, <1>3 DEF Single

LEMMA SetStatusRemembers ==
    ASSUME TypeOK, NEW m \in Mails, NEW s, s # "None", SetStatus(m, s)
    PROVE  Remembered
BY DEF SetStatus, TypeOK, Remembered, Gone

\* One that keeps the mail and the list.
LEMMA SingleGoesOn ==
    ASSUME Calm, TypeOK, Truth, Single, NEW w \in Workers, Remembered,
           UNCHANGED <<rstatus, delivered, resend, mail, todo, left>>,
           pc[w] # "record", Busy(w), SnapshotIsCurrent(w)'
    PROVE  Single'
<1>2. todo[w] \subseteq Mails /\ mail[w] \in Mails /\ pc[w] \in Holding
  BY DEF Busy, AtIt, Truth, Truthful, Place, Holding, TypeOK, Steps
<1>3. MailsExist(w)'
  BY <1>2 DEF Single, MailsExist, Remembered
<1>4. ToDoIsNew(w)'
  BY DEF Single, ToDoIsNew
<1>5. QED
  BY <1>3, <1>4, SingleFrame

LEMMA SingleLock ==
    ASSUME Calm, TypeOK, Truth, Single, NEW w \in Workers, LockMail(w)
    PROVE  Single'
<1> USE DEF tables, local, admin
<1> DEFINE m == mail[w]
<1>1. m \in Mails /\ pc[w] = "lock" /\ status[m] \in Sendable
  BY TruthPlace, HoldsMail DEF LockMail
<1>2. RecipientsSeen(w) = rstatus[m]
  BY DEF RecipientsSeen, Single, SnapshotIsCurrent
<1>3. UNCHANGED <<status, rstatus, delivered, resend, mail, todo>>
      /\ pc'[w] = "locked" /\ view'[w] = rstatus
      /\ left'[w] = {r \in Recipients : rstatus[m][r] = "Not Sent"}
  <2>1. UNCHANGED <<status, rstatus, delivered, resend, mail, todo>>
        /\ pc'[w] = "locked"
    BY DEF LockMail, Goto, TypeOK
  <2>2. view'[w] = IF view[w] = None THEN rstatus ELSE view[w]
    BY DEF LockMail, TypeOK
  <2>3. left'[w] = {r \in Recipients : RecipientsSeen(w)[r] = "Not Sent"}
    BY DEF LockMail, TypeOK
  <2>4. QED
    BY <1>2, <2>1, <2>2, <2>3 DEF Single, SnapshotIsCurrent
<1>4. SnapshotIsCurrent(w)' /\ MailsExist(w)' /\ Remembered
  BY <1>1, <1>3 DEF SnapshotIsCurrent, MailsExist, Single, Remembered, Sendable
<1>5. ASSUME NEW r \in left'[w] PROVE delivered[m][r] = 0
  <2>1. r \in Recipients /\ rstatus[m][r] = "Not Sent"
    BY <1>3
  <2>2. \A v \in Workers : pc[v] = "lock"
    BY <1>1 DEF Calm
  <2>3. ~ Recorded(m, r)
    BY <1>1, <2>1, <2>2 DEF Recorded, Turn, Sendable
  <2>4. delivered[m][r] <= 1 /\ delivered[m][r] # 1
    BY <1>1, <2>1, <2>3 DEF Single, AllRecorded
  <2>5. delivered \in [Mails -> [Recipients -> Nat]]
    BY DEF TypeOK
  <2>6. delivered[m][r] \in Nat
    BY <1>1, <2>1, <2>5
  <2>7. QED
    BY <2>4, <2>6
<1>6. ToDoIsNew(w)'
  BY <1>3, <1>5 DEF ToDoIsNew
<1>7. QED
  BY <1>1, <1>3, <1>4, <1>6, SingleFrame

LEMMA SingleDeliver ==
    ASSUME Calm, TypeOK, Truth, Single, NEW w \in Workers, Deliver(w)
    PROVE  Single'
<1> USE DEF tables, local, admin
<1> DEFINE m == mail[w]
<1>0. \A v \in Workers : v = w
  BY DEF Calm
<1>1. m \in Mails /\ pc[w] = "loop"
  BY TruthPlace, HoldsMail DEF Deliver
<1>2. PICK q \in left[w] :
          /\ delivered' = [delivered EXCEPT ![m][q] = @ + 1]
          /\ left' = [left EXCEPT ![w] = @ \ {q}]
          /\ current' = [current EXCEPT ![w] = q]
  BY DEF Deliver
<1>3. q \in Recipients /\ left[w] \subseteq Recipients
  BY <1>2 DEF TypeOK
<1>4. /\ delivered'[m][q] = delivered[m][q] + 1
      /\ \A n \in Mails, r \in Recipients :
             n # m \/ r # q => delivered'[n][r] = delivered[n][r]
  BY <1>1, <1>2, <1>3 DEF TypeOK
<1>5. /\ pc'[w] = "record" /\ current'[w] = q /\ left'[w] = left[w] \ {q}
      /\ UNCHANGED <<status, rstatus, resend, mail, todo, view>>
  BY <1>2 DEF Deliver, Goto, TypeOK
<1>6. Busy(w)
  BY <1>1 DEF Busy, AtIt
<1>7. SnapshotIsCurrent(w)' /\ MailsExist(w)'
  BY <1>1, <1>5 DEF Single, SnapshotIsCurrent, MailsExist, Holding, Steps
<1>8. ToDoIsNew(w)'
  BY <1>1, <1>3, <1>4, <1>5, <1>6 DEF Single, ToDoIsNew
<1>9. AllRecorded'
  <2> SUFFICES ASSUME NEW n \in Mails, NEW r \in Recipients
      PROVE  /\ delivered'[n][r] <= 1
             /\ delivered'[n][r] = 1 => Recorded(n, r)'
    BY DEF AllRecorded
  <2>1. CASE n = m /\ r = q
    <3>1. delivered[n][r] = 0
      BY <1>2, <1>6, <2>1 DEF Single, ToDoIsNew
    <3>2. Recorded(n, r)'
      BY <1>5, <2>1 DEF Recorded, Turn
    <3>3. QED
      BY <1>4, <2>1, <3>1, <3>2
  <2>2. CASE n # m \/ r # q
    <3>1. \A v \in Workers : ~ Turn(v, n, r)
      BY <1>0, <1>1 DEF Turn
    <3>2. Recorded(n, r) => Recorded(n, r)'
      BY <1>5, <3>1 DEF Recorded
    <3>3. QED
      BY <1>4, <2>2, <3>2 DEF Single, AllRecorded
  <2>3. QED
    BY <2>1, <2>2
<1>10. QED
  BY <1>0, <1>5, <1>7, <1>8, <1>9 DEF Single

LEMMA SingleRecord ==
    ASSUME Calm, TypeOK, Truth, Single, NEW w \in Workers, RecordSent(w)
    PROVE  Single'
<1> USE DEF tables, local, admin
<1> DEFINE m == mail[w]
           q == current[w]
<1>0. \A v \in Workers : v = w
  BY DEF Calm
<1>1. m \in Mails /\ q \in Recipients /\ pc[w] = "record"
  BY TruthPlace, HoldsMail DEF RecordSent, Truth, Truthful, Place
<1>2. UNCHANGED <<status, delivered, resend, mail, todo, view, left>>
      /\ pc'[w] = "loop"
  BY DEF RecordSent, Goto, TypeOK
<1>3. Busy(w) /\ pc[w] \in Holding /\ view[w] = None
  BY <1>1 DEF Busy, AtIt, Holding, Steps, Single, SnapshotIsCurrent
<1>4. SnapshotIsCurrent(w)' /\ MailsExist(w)' /\ ToDoIsNew(w)'
  BY <1>2, <1>3 DEF Single, SnapshotIsCurrent, MailsExist, ToDoIsNew
<1>5. /\ \A n \in Mails, r \in Recipients : rstatus[n][r] = "Sent" => rstatus'[n][r] = "Sent"
      /\ status[m] \notin Gone => rstatus'[m][q] = "Sent"
  BY <1>1 DEF RecordSent, TypeOK
<1>6. status[m] # "None"
  BY <1>3 DEF Single, MailsExist
<1>7. \A n \in Mails, r \in Recipients : Recorded(n, r) => Recorded(n, r)'
  <2> SUFFICES ASSUME NEW n \in Mails, NEW r \in Recipients, Recorded(n, r)
      PROVE  Recorded(n, r)'
    OBVIOUS
  <2>1. CASE Turn(w, n, r)
    <3>1. n = m /\ r = q
      BY <2>1 DEF Turn
    <3>2. rstatus'[n][r] = "Sent" \/ status'[n] = "Deleted"
      BY <1>2, <1>5, <1>6, <3>1 DEF Gone
    <3>3. QED
      BY <3>2 DEF Recorded
  <2>2. CASE ~ Turn(w, n, r)
    BY <1>0, <1>2, <1>5, <2>2 DEF Recorded
  <2>3. QED
    BY <2>1, <2>2
<1>8. AllRecorded'
  BY <1>2, <1>7 DEF Single, AllRecorded
<1>9. QED
  BY <1>0, <1>2, <1>4, <1>8 DEF Single

LEMMA SingleWorker ==
    ASSUME Calm, TypeOK, Truth, Single, NEW w \in Workers,
           Job(w) \/ Abort(w) \/ \E m \in Mails : SendNow(w, m)
    PROVE  Single'
<1> USE DEF tables, local, admin
<1>1. pc[w] \notin {"idle", "next"} => mail[w] \in Mails
  BY TruthPlace, HoldsMail
<1>2. SnapshotIsCurrent(w) /\ MailsExist(w) /\ ToDoIsNew(w)
  BY DEF Single
<1>3. ASSUME UNCHANGED <<status, rstatus, delivered, resend>>, pc[w] # "record",
             pc'[w] = "idle" \/ pc'[w] = "next" \/ pc'[w] = "lock",
             view'[w] = None \/ (view'[w] = rstatus /\ pc'[w] # "idle"),
             \A n \in todo'[w] : status[n] # "None",
             pc'[w] = "lock" => status[mail'[w]] # "None"
      PROVE  Single'
  <2>1. SnapshotIsCurrent(w)'
    BY <1>3 DEF SnapshotIsCurrent
  <2>2. MailsExist(w)' /\ ToDoIsNew(w)' /\ Remembered
    BY <1>3 DEF MailsExist, ToDoIsNew, Busy, AtIt, Holding, Remembered
  <2>3. QED
    BY <1>3, <2>1, <2>2, SingleFrame
<1>4. CASE \E m \in Mails : SendNow(w, m)
  <2>1. PICK m \in Mails : SendNow(w, m)
    BY <1>4
  <2>2. pc'[w] = "lock" /\ mail'[w] = m /\ status[m] # "None"
        /\ view'[w] \in {None, rstatus} /\ todo' = todo
    BY <2>1 DEF SendNow, Goto, Gone, TypeOK
  <2>3. QED
    BY <1>2, <1>3, <2>1, <2>2 DEF SendNow, MailsExist
<1>5. CASE StartFlush(w)
  <2>1. pc'[w] = "next" /\ view'[w] = rstatus
        /\ todo'[w] = {m \in Mails : status[m] \in Sendable}
    BY <1>5 DEF StartFlush, Goto, TypeOK
  <2>2. \A n \in todo'[w] : status[n] # "None"
    BY <2>1 DEF Sendable
  <2>3. QED
    BY <1>3, <1>5, <2>1, <2>2 DEF StartFlush
<1>6. CASE NextMail(w)
  <2>1. pc[w] = "next" /\ pc'[w] = "lock" /\ mail'[w] \in todo[w]
        /\ todo'[w] \subseteq todo[w] /\ view' = view
    BY <1>6 DEF NextMail, Goto, TypeOK
  <2>2. view'[w] = None \/ view'[w] = rstatus
    BY <1>2, <2>1 DEF SnapshotIsCurrent
  <2>3. \A n \in todo'[w] : status[n] # "None"
    BY <1>2, <2>1 DEF MailsExist
  <2>4. status[mail'[w]] # "None"
    BY <1>2, <2>1 DEF MailsExist
  <2>5. QED
    <3>1. UNCHANGED <<status, rstatus, delivered, resend>>
      BY <1>6 DEF NextMail
    <3>2. QED
      BY <1>3, <2>1, <2>2, <2>3, <2>4, <3>1
<1>7. CASE EndJob(w) \/ MailGone(w)
  <2>1. pc'[w] = "idle" /\ view'[w] = None /\ todo'[w] = {} /\ pc[w] # "record"
    BY <1>7 DEF EndJob, MailGone, Goto, ForgetJob, TypeOK
  <2>2. UNCHANGED <<status, rstatus, delivered, resend>>
    BY <1>7 DEF EndJob, MailGone
  <2>3. SnapshotIsCurrent(w)' /\ MailsExist(w)' /\ ToDoIsNew(w)' /\ Remembered
    BY <2>1, <2>2 DEF SnapshotIsCurrent, MailsExist, ToDoIsNew, Busy, AtIt, Holding,
       Remembered
  <2>4. QED
    BY <2>1, <2>2, <2>3, SingleFrame
<1>8. CASE SkipMail(w)
  <2>1. pc'[w] = "next" /\ view'[w] = None /\ todo' = todo /\ pc[w] = "lock"
    BY <1>8 DEF SkipMail, Goto, TypeOK
  <2>2. QED
    BY <1>2, <1>3, <1>8, <2>1 DEF SkipMail, MailsExist
<1>9. CASE Abort(w) \/ FailToRecord(w)
  BY <1>9 DEF Abort, FailToRecord, Fault, Calm
<1>10. CASE CommitBeforeMark(w) \/ CountStatuses(w) \/ SetDelivery(w) \/ SetupServer(w)
            \/ LoseConnection(w) \/ RaiseError(w) \/ LeaveTry(w)
  <2>1. UNCHANGED <<status, rstatus, delivered, resend, mail, todo, left, phase>>
        /\ pc[w] \in {"locked", "count", "deliver", "leave", "setup", "loop"}
    BY <1>10 DEF CommitBeforeMark, CountStatuses, SetDelivery, SetupServer,
       LoseConnection, RaiseError, LeaveTry, InTry
  <2>2. Remembered
    BY <2>1 DEF Remembered
  <2>6. SnapshotIsCurrent(w)'
    <3>1. CASE CommitBeforeMark(w) \/ CountStatuses(w)
      BY <1>2, <2>1, <1>10, <3>1
      DEF CommitBeforeMark, CountStatuses, SnapshotIsCurrent, Goto, TypeOK
    <3>2. CASE \/ SetDelivery(w) \/ SetupServer(w) \/ LeaveTry(w) \/ LoseConnection(w)
               \/ RaiseError(w)
      <4>1. view' = view /\ (view[w] # None => pc'[w] \in {"next", "leave", "badconn", "error"})
        BY <1>2, <1>10, <3>2 DEF SetDelivery, SetupServer, LeaveTry, LoseConnection,
           RaiseError, Resume, Phases, SnapshotIsCurrent, Goto, TypeOK
      <4>2. QED
        BY <1>2, <2>1, <4>1 DEF SnapshotIsCurrent
    <3>3. QED
      BY <1>10, <3>1, <3>2
  <2>3. CASE Busy(w)
    BY <2>1, <2>2, <2>3, <2>6, SingleGoesOn
  <2>4. CASE ~ Busy(w)
    <3>1. pc[w] \in {"count", "deliver"} /\ phase[w] = "end"
      BY <2>1, <2>4 DEF Busy, AtIt, TypeOK
    <3>2. pc'[w] \in {"deliver", "next"}
      BY <1>10, <3>1 DEF CommitBeforeMark, CountStatuses, SetDelivery, Resume, SetupServer,
         LoseConnection, RaiseError, LeaveTry, InTry, Goto, TypeOK
    <3>3. ~ Busy(w)'
      BY <2>1, <3>1, <3>2 DEF Busy, AtIt
    <3>4. SnapshotIsCurrent(w)' /\ ToDoIsNew(w)'
      BY <2>6, <3>3 DEF ToDoIsNew
    <3>5. MailsExist(w)'
      BY <1>2, <2>1, <3>1 DEF MailsExist, Holding, Steps
    <3>6. QED
      BY <2>1, <2>2, <3>1, <3>4, <3>5, SingleFrame
  <2>5. QED
    BY <2>3, <2>4
<1>11. CASE MarkSending(w) \/ FinishMail(w) \/ HandleBadConnection(w) \/ HandleError(w)
  <2>1. pc[w] \in {"mark", "loop", "badconn", "error"}
        /\ UNCHANGED <<rstatus, delivered, resend, mail, todo, left>>
        /\ \/ view' = view /\ pc[w] \in {"mark", "loop"}
           \/ view'[w] = None
    BY <1>11 DEF MarkSending, FinishMail, HandleBadConnection, HandleError, TypeOK
  <2>2. \E s : s # "None" /\ SetStatus(mail[w], s)
    BY <1>11 DEF MarkSending, FinishMail, HandleBadConnection, HandleError
  <2>3. Remembered
    BY <1>1, <2>1, <2>2, SetStatusRemembers
  <2>4. Busy(w) /\ view'[w] = None
    BY <1>2, <2>1 DEF Busy, AtIt, SnapshotIsCurrent
  <2>5. SnapshotIsCurrent(w)'
    BY <2>4 DEF SnapshotIsCurrent
  <2>6. QED
    BY <2>1, <2>3, <2>4, <2>5, SingleGoesOn
<1>12. QED
  BY <1>4, <1>5, <1>6, <1>7, <1>8, <1>9, <1>10, <1>11, SingleLock, SingleDeliver,
     SingleRecord
  DEF Job, SendOne

LEMMA SingleOutside ==
    ASSUME Calm, TypeOK, Truth, Single, Outside
    PROVE  Single'
<1> USE DEF tables, local, admin
<1>1. UNCHANGED <<pc, mail, todo, view, left, current, phase, delivered>>
  BY OutsideLocal
<1>2. ~ SaveResend /\ ~ RejectResend /\ resend = None
  BY DEF SaveResend, RejectResend, Single
<1>3. \A m \in Mails : ~ LoadForResend(m)
  BY DEF LoadForResend, Calm, TypeOK
<1>4. UNCHANGED <<rstatus, resend>>
  BY <1>2, <1>3 DEF Outside, AddMail, Tick, SelectDoomed, ClearOutbox, vars
<1>5. Remembered
  BY <1>2, <1>3 DEF Outside, AddMail, Tick, SelectDoomed, ClearOutbox, Expiring, vars,
     Remembered, TypeOK
<1>6. ASSUME NEW w \in Workers
      PROVE  SnapshotIsCurrent(w)' /\ MailsExist(w)' /\ ToDoIsNew(w)'
  <2>1. SnapshotIsCurrent(w) /\ MailsExist(w) /\ ToDoIsNew(w)
    BY DEF Single
  <2>2. todo[w] \subseteq Mails /\ (pc[w] \in Holding => mail[w] \in Mails)
    BY DEF TypeOK, Truth, Truthful, Place
  <2>3. SnapshotIsCurrent(w)' /\ ToDoIsNew(w)'
    BY <1>1, <1>4, <2>1 DEF SnapshotIsCurrent, ToDoIsNew, Busy, AtIt
  <2>4. MailsExist(w)'
    BY <1>1, <1>5, <2>1, <2>2 DEF MailsExist, Remembered
  <2>5. QED
    BY <2>3, <2>4
<1>7. \A m \in Mails, r \in Recipients : Recorded(m, r) => Recorded(m, r)'
  BY <1>1, <1>4, <1>5 DEF Recorded, Turn, Remembered
<1>8. AllRecorded'
  BY <1>1, <1>7 DEF Single, AllRecorded
<1>9. QED
  BY <1>2, <1>4, <1>6, <1>8 DEF Single

LEMMA SingleStep == Calm /\ Known /\ Single /\ [Next]_vars => Single'
BY NextSteps, SingleWorker, SingleOutside DEF Known

\* With one worker that is never killed, no acceptance that goes unrecorded and
\* no resend, nobody gets a mail twice, however often connections are lost.
THEOREM OneWorkerSendsOnce ==
    ASSUME \A v, w \in Workers : v = w, MaxResends = 0,
           "abort" \notin FaultKinds, "unrecorded" \notin FaultKinds
    PROVE  Spec => []AtMostOnce
<1>1. Calm
  BY DEF Calm
<1>2. Known /\ Single /\ [Next]_vars => Single'
  BY <1>1, SingleStep
<1>3. Single => AtMostOnce
  BY DEF Single, AllRecorded, AtMostOnce
<1>4. QED
  BY <1>2, <1>3, SingleInit, KnownHolds, PTL DEF Spec

-----------------------------------------------------------------------------
(***************************************************************************)
(* Nothing is left 'Sending'.  Only the claim writes that status, and a    *)
(* worker leaves the try block and its except clauses by writing another   *)
(* one, unless it is killed.                                               *)
(***************************************************************************)
NoAborts == "abort" \notin FaultKinds

\* A step of worker w: nobody else's claim is touched.
LEMMA SenderAlone ==
    ASSUME SendingHasASender, NEW w \in Workers, Alone(w),
           \A m \in Mails : status'[m] = "Sending" =>
               status[m] = "Sending" \/ (Trying(w) /\ mail[w] = m)',
           \A m \in Mails : Trying(w) /\ mail[w] = m /\ status'[m] = "Sending" =>
               (Trying(w) /\ mail[w] = m)'
    PROVE  SendingHasASender'
<1> SUFFICES ASSUME NEW m \in Mails, status'[m] = "Sending"
    PROVE  \E v \in Workers : (Trying(v) /\ mail[v] = m)'
  BY DEF SendingHasASender
<1>1. CASE status[m] = "Sending"
  <2>1. PICK v \in Workers : Trying(v) /\ mail[v] = m
    BY <1>1 DEF SendingHasASender
  <2>2. CASE v = w
    BY <2>1, <2>2
  <2>3. CASE v # w
    BY <2>1, <2>3 DEF Alone, Trying
  <2>4. QED
    BY <2>2, <2>3
<1>2. CASE status[m] # "Sending"
  BY <1>2
<1>3. QED
  BY <1>1, <1>2

LEMMA SenderWorker ==
    ASSUME NoAborts, TypeOK, Truth, SendingHasASender, NEW w \in Workers,
           Job(w) \/ Abort(w) \/ \E m \in Mails : SendNow(w, m)
    PROVE  SendingHasASender'
<1> USE DEF tables, local, admin
<1>0. Alone(w)
  BY WorkerAlone
<1>1. pc[w] \notin {"idle", "next"} => mail[w] \in Mails
  BY TruthPlace, HoldsMail
<1>2. CASE \/ \E m \in Mails : SendNow(w, m)
           \/ StartFlush(w) \/ NextMail(w) \/ EndJob(w) \/ MailGone(w)
           \/ SkipMail(w) \/ LockMail(w) \/ CommitBeforeMark(w)
  <2>1. UNCHANGED status /\ pc[w] \in {"idle", "next", "lock", "locked"}
    BY <1>2 DEF SendNow, StartFlush, NextMail, EndJob, MailGone, SkipMail, LockMail,
       CommitBeforeMark
  <2>2. ~ Trying(w)
    BY <2>1 DEF Trying
  <2>3. QED
    BY <1>0, <2>1, <2>2, SenderAlone
<1>3. CASE \/ CountStatuses(w) \/ SetDelivery(w) \/ SetupServer(w) \/ Deliver(w)
           \/ RecordSent(w) \/ LoseConnection(w) \/ RaiseError(w) \/ LeaveTry(w) \/ FailToRecord(w)
  <2>1. UNCHANGED <<status, mail, phase>>
    BY <1>3 DEF CountStatuses, SetDelivery, Resume, SetupServer, Deliver, RecordSent,
       LoseConnection, RaiseError, FailToRecord,
       LeaveTry, InTry
  <2>2. Trying(w) => Trying(w)'
    BY <1>3, <2>1 DEF CountStatuses, SetDelivery, Resume, SetupServer, Deliver, RecordSent,
       LoseConnection, RaiseError, FailToRecord,
       LeaveTry, InTry, Goto, Trying, TypeOK
  <2>3. QED
    BY <1>0, <2>1, <2>2, SenderAlone
<1>4. CASE MarkSending(w)
  <2>1. SetStatus(mail[w], "Sending") /\ ThenRefresh(w, "start") /\ mail' = mail
        /\ mail[w] \in Mails
    BY <1>1, <1>4 DEF MarkSending
  <2>2. Trying(w)'
    BY <2>1 DEF ThenRefresh, Resume, Goto, Trying, TypeOK
  <2>3. \A m \in Mails : m # mail[w] => status'[m] = status[m]
    BY <2>1 DEF SetStatus, TypeOK
  <2>4. QED
    BY <1>0, <2>1, <2>2, <2>3, SenderAlone
<1>5. CASE FinishMail(w) \/ HandleBadConnection(w) \/ HandleError(w)
  <2>1. pc[w] \notin {"idle", "next"}
        /\ \E s : s # "Sending" /\ SetStatus(mail[w], s)
    BY <1>5 DEF FinishMail, HandleBadConnection, HandleError
  <2>2. /\ status'[mail[w]] # "Sending"
        /\ \A m \in Mails : m # mail[w] => status'[m] = status[m]
    BY <1>1, <2>1 DEF SetStatus, Gone, TypeOK
  <2>3. QED
    BY <1>0, <2>2, SenderAlone
<1>6. ~ Abort(w)
  BY DEF Abort, Fault, NoAborts
<1>7. QED
  BY <1>2, <1>3, <1>4, <1>5, <1>6 DEF Job, SendOne

\* Outside the workers a mail is queued, expired or deleted.
LEMMA OutsideStatus ==
    ASSUME TypeOK, Outside
    PROVE  \A m \in Mails : status'[m] # status[m] =>
               status'[m] \in {"Not Sent", "Expired", "Deleted"}
<1> USE DEF tables, local, admin
<1>1. CASE SaveResend
  <2>1. resend.mail \in Mails
    BY <1>1 DEF SaveResend, TypeOK
  <2>2. QED
    BY <1>1, <2>1 DEF SaveResend, SetStatus, TypeOK
<1>2. CASE ~ SaveResend
  BY <1>2 DEF Outside, AddMail, LoadForResend, Tick, RejectResend, SelectDoomed,
     ClearOutbox, vars, TypeOK
<1>3. QED
  BY <1>1, <1>2

LEMMA SenderOutside ==
    ASSUME TypeOK, SendingHasASender, Outside
    PROVE  SendingHasASender'
<1>1. UNCHANGED <<pc, mail, phase>>
  BY OutsideLocal DEF local
<1>2. \A m \in Mails : status'[m] = "Sending" => status[m] = "Sending"
  BY OutsideStatus
<1>3. QED
  BY <1>1, <1>2 DEF SendingHasASender, Trying

\* No mail is left 'Sending', out of the sight of get_queue(), unless a worker is
\* killed: a worker is at it, whatever connections, errors and races do.
THEOREM NothingIsLeftSending ==
    ASSUME "abort" \notin FaultKinds
    PROVE  Spec => []SendingHasASender
<1>1. NoAborts
  BY DEF NoAborts
<1>2. Init => SendingHasASender
  BY DEF Init, SendingHasASender
<1>3. Known /\ SendingHasASender /\ [Next]_vars => SendingHasASender'
  BY <1>1, NextSteps, SenderWorker, SenderOutside DEF Known
<1>4. QED
  BY <1>2, <1>3, KnownHolds, PTL DEF Spec

-----------------------------------------------------------------------------
(***************************************************************************)
(* The summary of the Communication.  Once its mails are all done with it  *)
(* is right, or the one worker is on its way to set it right, and what it  *)
(* has counted is current.                                                 *)
(***************************************************************************)
LinkedAreDone ==
    LinkedStatuses \subseteq {"None", "Sent", "Error", "Partially Errored"}

CountedIsCurrent ==
    \A w \in Workers : pc[w] = "deliver" => counted[w] = DeliveryFrom(LinkedStatuses)

\* A worker is about to write the summary, now or behind its except clause.
Refreshing ==
    \E w \in Workers :
        \/ pc[w] \in {"count", "deliver"}
        \/ pc[w] \in {"badconn", "error"} /\ mail[w] \in Linked

SummaryFollows ==
    /\ \A w \in Workers : pc[w] \in {"count", "deliver"} => mail[w] \in Linked
    /\ LinkedAreDone =>
           /\ CountedIsCurrent
           /\ DeliveryFrom(LinkedStatuses) \in {None, delivery} \/ Refreshing

LEMMA SummaryInit == Init => SummaryFollows
<1> SUFFICES ASSUME Init PROVE SummaryFollows
  OBVIOUS
<1>1. LinkedStatuses \subseteq {"None"}
  BY EmailQueueAssumption DEF Init, LinkedStatuses
<1>2. DeliveryFrom(LinkedStatuses) = None
  BY <1>1 DEF DeliveryFrom
<1>3. CountedIsCurrent
  BY DEF Init, CountedIsCurrent
<1>4. QED
  BY <1>2, <1>3 DEF SummaryFollows, Init

\* If no linked mail changes, what has been counted stays right.
LEMMA SameMails ==
    ASSUME \A m \in Linked : status'[m] = status[m]
    PROVE  LinkedStatuses' = LinkedStatuses
BY DEF LinkedStatuses

LEMMA SummaryWorker ==
    ASSUME NoAborts, \A v, w \in Workers : v = w, TypeOK, Truth, SummaryFollows,
           NEW w \in Workers,
           Job(w) \/ Abort(w) \/ \E m \in Mails : SendNow(w, m)
    PROVE  SummaryFollows'
<1> USE DEF tables, local, admin
<1>0. \A v \in Workers : v = w
  OBVIOUS
<1>1. pc[w] \notin {"idle", "next"} => mail[w] \in Mails
  BY TruthPlace, HoldsMail
<1>2. CASE \/ \E m \in Mails : SendNow(w, m)
           \/ StartFlush(w) \/ NextMail(w) \/ EndJob(w) \/ MailGone(w)
           \/ SkipMail(w) \/ LockMail(w) \/ CommitBeforeMark(w) \/ SetupServer(w)
           \/ Deliver(w) \/ RecordSent(w) \/ LeaveTry(w) \/ FailToRecord(w)
           \/ (LoseConnection(w) \/ RaiseError(w)) /\ pc[w] \notin {"count", "deliver"}
  <2>1. /\ UNCHANGED <<status, delivery>>
        /\ pc[w] \notin {"count", "deliver", "badconn", "error"}
        /\ pc'[w] \notin {"count", "deliver"}
    BY <1>2 DEF SendNow, StartFlush, NextMail, EndJob, MailGone, SkipMail, LockMail,
       CommitBeforeMark, SetupServer, Deliver, RecordSent, LoseConnection, RaiseError,
       LeaveTry, InTry, FailToRecord, Goto, TypeOK
  <2>2. LinkedStatuses' = LinkedStatuses
    BY <2>1, SameMails
  <2>3. CountedIsCurrent' /\ ~ Refreshing
    BY <1>0, <2>1 DEF CountedIsCurrent, Refreshing
  <2>4. QED
    BY <1>0, <2>1, <2>2, <2>3 DEF SummaryFollows, LinkedAreDone
<1>8. CASE (LoseConnection(w) \/ RaiseError(w)) /\ pc[w] \in {"count", "deliver"}
  <2>1. UNCHANGED <<status, delivery, mail>> /\ pc'[w] \in {"badconn", "error"}
    BY <1>8 DEF LoseConnection, RaiseError, Goto, TypeOK
  <2>2. Refreshing'
    BY <1>8, <2>1 DEF SummaryFollows, Refreshing
  <2>3. CountedIsCurrent'
    BY <1>0, <2>1 DEF CountedIsCurrent
  <2>4. QED
    BY <1>0, <2>1, <2>2, <2>3 DEF SummaryFollows
<1>3. CASE CountStatuses(w)
  <2>1. LinkedStatuses' = LinkedStatuses
    BY <1>3, SameMails DEF CountStatuses
  <2>2. pc'[w] = "deliver" /\ counted'[w] = DeliveryFrom(LinkedStatuses)
        /\ pc[w] = "count" /\ mail' = mail
    BY <1>3 DEF CountStatuses, Goto, TypeOK
  <2>3. CountedIsCurrent' /\ Refreshing'
    BY <1>0, <2>1, <2>2 DEF CountedIsCurrent, Refreshing
  <2>4. QED
    BY <1>0, <2>2, <2>3 DEF SummaryFollows
<1>4. CASE SetDelivery(w)
  <2>1. LinkedStatuses' = LinkedStatuses
    BY <1>4, SameMails DEF SetDelivery
  <2>2. pc[w] = "deliver"
        /\ delivery' = IF counted[w] = None THEN delivery ELSE counted[w]
    BY <1>4 DEF SetDelivery
  <2>3. pc'[w] \notin {"count", "deliver"}
    BY <1>4 DEF SetDelivery, Resume, Phases, Goto, TypeOK
  <2>4. CountedIsCurrent'
    BY <1>0, <2>3 DEF CountedIsCurrent
  <2>5. LinkedAreDone => DeliveryFrom(LinkedStatuses) \in {None, delivery'}
    BY <2>2 DEF SummaryFollows, CountedIsCurrent
  <2>6. QED
    BY <1>0, <2>1, <2>3, <2>4, <2>5 DEF SummaryFollows, LinkedAreDone
<1>5. CASE MarkSending(w) \/ FinishMail(w) \/ HandleBadConnection(w) \/ HandleError(w)
  <2>0. \E p \in Phases : ThenRefresh(w, p)
    BY <1>5 DEF MarkSending, FinishMail, HandleBadConnection, HandleError, Phases
  <2>1. /\ pc[w] \notin {"idle", "next", "count", "deliver"} /\ delivery' = delivery
        /\ mail' = mail
        /\ \E s : SetStatus(mail[w], s)
    BY <1>5 DEF MarkSending, FinishMail, HandleBadConnection, HandleError
  <2>2. CASE mail[w] \in Linked
    <3>1. pc'[w] = "count"
      BY <2>0, <2>2 DEF ThenRefresh, Goto, TypeOK
    <3>2. CountedIsCurrent' /\ Refreshing'
      BY <1>0, <3>1 DEF CountedIsCurrent, Refreshing
    <3>3. QED
      BY <1>0, <2>1, <2>2, <3>2 DEF SummaryFollows
  <2>3. CASE mail[w] \notin Linked
    <3>1. \A m \in Linked : status'[m] = status[m]
      BY <1>1, <2>1, <2>3, EmailQueueAssumption DEF SetStatus, TypeOK
    <3>2. LinkedStatuses' = LinkedStatuses
      BY <3>1, SameMails
    <3>3. pc'[w] \notin {"count", "deliver"}
      BY <2>0, <2>3 DEF ThenRefresh, Resume, Phases, Goto, TypeOK
    <3>4. CountedIsCurrent' /\ ~ Refreshing
      BY <1>0, <2>1, <2>3, <3>3 DEF CountedIsCurrent, Refreshing
    <3>5. QED
      BY <1>0, <2>1, <3>2, <3>3, <3>4 DEF SummaryFollows, LinkedAreDone
  <2>4. QED
    BY <2>2, <2>3
<1>6. ~ Abort(w)
  BY DEF Abort, Fault, NoAborts
<1>7. QED
  BY <1>2, <1>3, <1>4, <1>5, <1>6, <1>8 DEF Job, SendOne

LEMMA SummaryOutside ==
    ASSUME TypeOK, SummaryFollows, Outside
    PROVE  SummaryFollows'
<1>1. UNCHANGED <<pc, counted, mail>>
  BY OutsideLocal DEF local
<1>2. UNCHANGED delivery
  BY DEF Outside, AddMail, LoadForResend, Tick, SaveResend, RejectResend, SelectDoomed,
     ClearOutbox, vars, tables
<1>3. SUFFICES ASSUME LinkedAreDone' PROVE SummaryFollows'
  BY <1>1 DEF SummaryFollows
<1>4. \A m \in Linked : status'[m] = status[m]
  BY <1>3, OutsideStatus, EmailQueueAssumption DEF LinkedAreDone, LinkedStatuses
<1>5. LinkedStatuses' = LinkedStatuses
  BY <1>4, SameMails
<1>6. QED
  BY <1>1, <1>2, <1>3, <1>5
  DEF SummaryFollows, LinkedAreDone, Refreshing, CountedIsCurrent

\* One worker that is not killed leaves the Communication with the summary of its
\* mails once these are done with: no count it writes is out of date, whatever is
\* added, resent or retried meanwhile.
THEOREM TheSummaryIsRight ==
    ASSUME \A v, w \in Workers : v = w, "abort" \notin FaultKinds
    PROVE  Spec => []SummaryIsRight
<1>1. NoAborts
  BY DEF NoAborts
<1>2. Known /\ SummaryFollows /\ [Next]_vars => SummaryFollows'
  BY <1>1, NextSteps, SummaryWorker, SummaryOutside DEF Known
<1>3. SummaryFollows => SummaryIsRight
  BY DEF SummaryFollows, SummaryIsRight, LinkedAreDone, AllDone, Refreshing
<1>4. QED
  BY <1>2, <1>3, SummaryInit, KnownHolds, PTL DEF Spec

-----------------------------------------------------------------------------
(***************************************************************************)
(* A mail lives as Mailing says.  A mail no window was open for is claimed *)
(* from the queue, handed to those who have nothing yet and settled from   *)
(* 'Sending': that is what Once keeps of it.  Of the others Mailing asks   *)
(* what Truth keeps of every mail.                                         *)
(***************************************************************************)
Astray == {m \in Mails : windows[m] # {}}

\* What clear_outbox() has selected is in the table, or was.
DoomedExist == \A m \in doomed : status[m] # "None"

LEMMA StageIs ==
    ASSUME NEW s \in Statuses
    PROVE  /\ s \in Gone <=> Stage(s) \in {"none", "deleted"}
           /\ s = "None" <=> Stage(s) = "none"
           /\ s = "Sent" <=> Stage(s) = "sent"
BY DEF Stage, Statuses, Sendable, Gone

LEMMA StageNames ==
    /\ Stage("None") = "none" /\ Stage("Not Sent") = "queued"
    /\ Stage("Expired") = "expired" /\ Stage("Deleted") = "deleted"
BY DEF Stage, Sendable

LEMMA SameDelivered ==
    ASSUME TypeOK, delivered' = delivered
    PROVE  \A m \in Mails, r \in Recipients : delivered'[m][r] >= delivered[m][r]
<1>1. \A m \in Mails, r \in Recipients : delivered[m][r] \in Nat
  BY DEF TypeOK
<1>2. QED
  BY <1>1

\* An UPDATE of the status: a row that is gone stays so.
LEMMA StatusSet ==
    ASSUME TypeOK, NEW m \in Mails, NEW s, SetStatus(m, s)
    PROVE  /\ \A n \in Mails : n # m => status'[n] = status[n]
           /\ status'[m] = IF status[m] \in Gone THEN status[m] ELSE s
BY DEF SetStatus, TypeOK

LEMMA Remembering ==
    ASSUME TypeOK, Truth, [Next]_vars
    PROVE  Remembered
<1> USE DEF tables, local, admin
<1>1. CASE Outside
  <2>1. CASE SaveResend
    <3>1. resend.mail \in Mails
      BY <2>1 DEF SaveResend, TypeOK
    <3>2. QED
      BY <2>1, <3>1, SetStatusRemembers DEF SaveResend
  <2>2. CASE ~ SaveResend
    BY <1>1, <2>2 DEF Outside, AddMail, LoadForResend, Tick, RejectResend, SelectDoomed,
       ClearOutbox, Expiring, vars, Remembered, TypeOK
  <2>3. QED
    BY <2>1, <2>2
<1>2. ASSUME NEW w \in Workers,
             Job(w) \/ Abort(w) \/ \E m \in Mails : SendNow(w, m)
      PROVE  Remembered
  <2>1. CASE UNCHANGED status
    BY <2>1 DEF Remembered
  <2>2. CASE MarkSending(w) \/ FinishMail(w) \/ HandleBadConnection(w) \/ HandleError(w)
    <3>1. mail[w] \in Mails
      BY <2>2, TruthPlace, HoldsMail
      DEF MarkSending, FinishMail, HandleBadConnection, HandleError
    <3>2. \E s : s # "None" /\ SetStatus(mail[w], s)
      BY <2>2 DEF MarkSending, FinishMail, HandleBadConnection, HandleError
    <3>3. QED
      BY <3>1, <3>2, SetStatusRemembers
  <2>3. QED
    BY <1>2, <2>1, <2>2
    DEF Job, SendOne, Abort, SendNow, StartFlush, NextMail, EndJob, LockMail, SkipMail,
        MailGone, CommitBeforeMark, CountStatuses, SetDelivery, Resume, SetupServer, Deliver,
        RecordSent, LoseConnection, RaiseError, FailToRecord,
       LeaveTry, InTry
<1>3. QED
  BY <1>1, <1>2, NextSteps

LEMMA DoomedStep ==
    ASSUME TypeOK, Truth, DoomedExist, [Next]_vars
    PROVE  DoomedExist'
<1> USE DEF tables, local, admin
<1>1. Remembered /\ doomed \subseteq Mails
  BY Remembering DEF TypeOK
<1>2. CASE SelectDoomed
  BY <1>2 DEF SelectDoomed, DoomedExist, Gone
<1>3. CASE ClearOutbox
  BY <1>3 DEF ClearOutbox, DoomedExist
<1>4. CASE UNCHANGED doomed
  BY <1>1, <1>4 DEF DoomedExist, Remembered
<1>5. QED
  <2>1. CASE Outside
    BY <1>2, <1>3, <1>4, <2>1 DEF Outside, AddMail, LoadForResend, Tick, SaveResend,
       RejectResend, vars
  <2>2. ASSUME NEW w \in Workers,
               Job(w) \/ Abort(w) \/ \E m \in Mails : SendNow(w, m)
        PROVE  UNCHANGED doomed
    BY <2>2 DEF Job, SendOne, Abort, SendNow, StartFlush, NextMail, EndJob, LockMail,
       SkipMail, MailGone, CommitBeforeMark, MarkSending, CountStatuses, SetDelivery, Resume,
       SetupServer, Deliver, RecordSent, FinishMail, LoseConnection, RaiseError, LeaveTry, InTry,
       FailToRecord, HandleBadConnection, HandleError
  <2>3. QED
    BY <1>4, <2>1, <2>2, NextSteps

-----------------------------------------------------------------------------
LEMMA LifeStutters ==
    ASSUME UNCHANGED <<status, delivered, windows>>
    PROVE  UNCHANGED Life!vars
BY DEF Life!vars

\* A step on a mail that is astray, or goes astray by it.
LEMMA LifeStrays ==
    ASSUME TypeOK, TypeOK', Truth', NEW m \in Mails, windows'[m] # {},
           \A n \in Mails : n # m => /\ status'[n] = status[n]
                                     /\ delivered'[n] = delivered[n]
                                     /\ windows'[n] = windows[n],
           status[m] \in Gone => status'[m] = status[m],
           \A r \in Recipients : delivered'[m][r] >= delivered[m][r]
    PROVE  Life!Next
<1>1. status[m] \in Statuses /\ status'[m] \in Statuses
  BY DEF TypeOK
<1>2. Astray' = Astray \cup {m}
  BY DEF Astray
<1>3. Stage(status[m]) \in {"none", "deleted"} => status'[m] = status[m]
  BY <1>1, StageIs
<1>4. Stage(status'[m]) = "sent" => \A r \in Recipients : delivered'[m][r] >= 1
  BY <1>1, StageIs DEF Truth, Tables, SentMailsAreComplete, Served
<1>5. Life!Stray(m)
  BY <1>2, <1>3, <1>4 DEF Life!Stray, Life!Everyone, Astray
<1>6. QED
  BY <1>5 DEF Life!Next

\* A change of one mail's status, and of nothing else.
LEMMA LifeMoves ==
    ASSUME TypeOK, NEW m \in Mails, NEW s, SetStatus(m, s), status[m] \notin Gone,
           NEW from, Stage(status[m]) \in from, UNCHANGED <<delivered, windows>>
    PROVE  Life!Moves(m, from, Stage(s))
<1>1. status' = [status EXCEPT ![m] = s]
  BY DEF SetStatus
<1>2. [n \in Mails |-> Stage(status'[n])]
          = [[n \in Mails |-> Stage(status[n])] EXCEPT ![m] = Stage(s)]
  BY <1>1 DEF TypeOK
<1>3. QED
  BY <1>2 DEF Life!Moves

LifeInv == Known /\ Once /\ DoomedExist

\* The claim.
LEMMA LifeMark ==
    ASSUME LifeInv, Known', NEW w \in Workers, MarkSending(w)
    PROVE  Life!Next
<1> USE DEF tables, local, admin
<1> DEFINE m == mail[w]
<1>0. TypeOK /\ Truth /\ TypeOK' /\ Truth'
  BY DEF LifeInv, Known
<1>1. m \in Mails
  BY <1>0, TruthPlace, HoldsMail DEF MarkSending
<1>2. SetStatus(m, "Sending") /\ UNCHANGED delivered
      /\ windows' = [windows EXCEPT ![m] = @ \cup IF ClaimIsStale(w) THEN {"claim"} ELSE {}]
  BY DEF MarkSending
<1>3. CASE ClaimIsStale(w)
  <2>1. windows'[m] # {} /\ \A n \in Mails : n # m => windows'[n] = windows[n]
    BY <1>0, <1>1, <1>2, <1>3 DEF TypeOK
  <2>2. \A n \in Mails : n # m => status'[n] = status[n]
    BY <1>0, <1>1, <1>2, StatusSet
  <2>3. status[m] \in Gone => status'[m] = status[m]
    BY <1>0, <1>1, <1>2, StatusSet
  <2>4. \A r \in Recipients : delivered'[m][r] >= delivered[m][r]
    BY <1>0, <1>1, <1>2, SameDelivered
  <2>5. QED
    BY <1>0, <1>1, <1>2, <2>1, <2>2, <2>3, <2>4, LifeStrays
<1>4. CASE ~ ClaimIsStale(w)
  <2>1. status[m] \in Sendable
    BY <1>4 DEF ClaimIsStale
  <2>2. windows' = windows
    BY <1>0, <1>1, <1>2, <1>4 DEF TypeOK
  <2>3. Stage(status[m]) \in {"queued"} /\ Stage("Sending") = "sending"
    BY <2>1 DEF Stage, Sendable
  <2>4. Life!Moves(m, {"queued"}, Stage("Sending"))
    BY <1>0, <1>1, <1>2, <2>1, <2>2, <2>3, LifeMoves DEF Sendable, Gone
  <2>5. Life!Claim(m)
    BY <2>3, <2>4 DEF Life!Claim
  <2>6. QED
    BY <1>1, <2>5 DEF Life!Next
<1>5. QED
  BY <1>3, <1>4

\* sendmail().
LEMMA LifeDeliver ==
    ASSUME LifeInv, Known', NEW w \in Workers, Deliver(w)
    PROVE  Life!Next
<1> USE DEF tables, local, admin
<1> DEFINE m == mail[w]
<1>0. TypeOK /\ Truth /\ TypeOK' /\ Truth'
  BY DEF LifeInv, Known
<1>1. m \in Mails /\ AtIt(w)
  BY <1>0, TruthPlace, HoldsMail DEF Deliver, AtIt
<1>2. PICK q \in left[w] : delivered' = [delivered EXCEPT ![m][q] = @ + 1]
  BY DEF Deliver
<1>3. q \in Recipients /\ delivered \in [Mails -> [Recipients -> Nat]]
  BY <1>0, <1>2 DEF TypeOK
<1>4. UNCHANGED <<status, windows>>
  BY DEF Deliver
<1>5. CASE Clean(m)
  <2>1. status[m] \in {"Sending", "Deleted"} /\ delivered[m][q] = 0
    BY <1>1, <1>2, <1>5
    DEF LifeInv, Once, Claims, RowSaysSo, ToDoGotNothing, Says, Leaving, Deliver
  <2>2. Stage(status[m]) \in {"sending", "deleted"}
    BY <2>1 DEF Stage, Sendable
  <2>3. delivered' = [delivered EXCEPT ![m][q] = 1]
    BY <1>1, <1>2, <1>3, <2>1
  <2>4. Life!Hand(m, q)
    BY <1>1, <1>4, <2>1, <2>2, <2>3 DEF Life!Hand
  <2>5. QED
    BY <1>1, <1>3, <2>4 DEF Life!Next
<1>6. CASE ~ Clean(m)
  <2>1. \A r \in Recipients : delivered'[m][r] >= delivered[m][r]
    BY <1>1, <1>2, <1>3
  <2>2. \A n \in Mails : n # m => delivered'[n] = delivered[n]
    BY <1>1, <1>2, <1>3
  <2>3. windows'[m] # {}
    BY <1>4, <1>6 DEF Clean
  <2>4. QED
    BY <1>0, <1>1, <1>4, <2>1, <2>2, <2>3, LifeStrays
<1>7. QED
  BY <1>5, <1>6

\* The end of the try block, and the except clauses.
LEMMA LifeEnd ==
    ASSUME LifeInv, Known', NEW w \in Workers, pc[w] \in {"loop", "badconn", "error"},
           NEW s \in {"Sent", "Error", "Partially Errored", "Not Sent", "Partially Sent"},
           s = "Sent" => pc[w] = "loop",
           SetStatus(mail[w], s), UNCHANGED <<delivered, windows>>
    PROVE  [Life!Next]_(Life!vars)
<1> DEFINE m == mail[w]
<1>0. TypeOK /\ Truth /\ TypeOK' /\ Truth'
  BY DEF LifeInv, Known
<1>1. m \in Mails /\ AtIt(w)
  BY <1>0, TruthPlace, HoldsMail DEF AtIt
<1>2. CASE status[m] \in Gone
  BY <1>2, LifeStutters DEF SetStatus
<1>3. CASE status[m] \notin Gone /\ Clean(m)
  <2>1. /\ status[m] \in {"Sending", "Sent"}
        /\ s = "Sent" => status[m] = "Sending"
    BY <1>1, <1>3 DEF LifeInv, Once, Claims, RowSaysSo, Says, Leaving, Gone
  <2>2. Stage("Sending") = "sending" /\ Stage("Sent") = "sent"
    BY DEF Stage, Sendable
  <2>6. ASSUME NEW from, Stage(status[m]) \in from
        PROVE  Life!Moves(m, from, Stage(s))
    BY <1>0, <1>1, <1>3, <2>6, LifeMoves
  <2>3. CASE s = "Sent"
    <3>4. Life!Moves(m, {"sending"}, "sent")
      BY <2>1, <2>2, <2>3, <2>6
    <3>1. status'[m] = "Sent"
      BY <1>0, <1>1, <1>3, <2>3, StatusSet
    <3>2. \A r \in Recipients : delivered[m][r] >= 1
      BY <1>0, <1>1, <3>1 DEF Truth, Tables, SentMailsAreComplete
    <3>3. Life!Finish(m)
      BY <1>1, <3>2, <3>4 DEF Life!Finish, Life!Everyone
    <3>5. QED
      BY <1>1, <3>3 DEF Life!Next
  <2>4. CASE s \in {"Error", "Partially Errored"}
    <3>1. Stage(s) = "failed"
      BY <2>4 DEF Stage, Sendable
    <3>2. Life!GiveUp(m)
      BY <2>1, <2>2, <2>6, <3>1 DEF Life!GiveUp
    <3>3. QED
      BY <1>1, <3>2 DEF Life!Next
  <2>5. CASE s \in Sendable
    <3>0. Stage(s) = "queued"
      BY <2>5 DEF Stage, Sendable
    <3>1. Life!PutBack(m)
      BY <2>1, <2>2, <2>6, <3>0 DEF Life!PutBack
    <3>2. QED
      BY <1>1, <3>1 DEF Life!Next
  <2>7. QED
    BY <2>3, <2>4, <2>5 DEF Sendable
<1>4. CASE status[m] \notin Gone /\ ~ Clean(m)
  <2>1. \A n \in Mails : n # m => status'[n] = status[n]
    BY <1>0, <1>1, StatusSet
  <2>2. \A r \in Recipients : delivered'[m][r] >= delivered[m][r]
    BY <1>0, <1>1, SameDelivered
  <2>3. windows'[m] # {}
    BY <1>4 DEF Clean
  <2>4. QED
    BY <1>0, <1>1, <1>4, <2>1, <2>2, <2>3, LifeStrays
<1>5. QED
  BY <1>2, <1>3, <1>4

\* A window opens, and nothing else of the three is touched.
LEMMA LifeWindow ==
    ASSUME LifeInv, Known', NEW m \in Mails, NEW why \in SUBSET {"snapshot", "unrecorded"},
           windows' = [windows EXCEPT ![m] = @ \cup why],
           UNCHANGED <<status, delivered>>
    PROVE  [Life!Next]_(Life!vars)
<1>0. TypeOK /\ Truth /\ TypeOK' /\ Truth'
  BY DEF LifeInv, Known
<1>1. CASE why = {}
  <2>1. windows' = windows
    BY <1>0, <1>1 DEF TypeOK
  <2>2. QED
    BY <2>1, LifeStutters
<1>2. CASE why # {}
  <2>1. windows'[m] # {} /\ \A n \in Mails : n # m => windows'[n] = windows[n]
    BY <1>0, <1>2 DEF TypeOK
  <2>2. \A r \in Recipients : delivered'[m][r] >= delivered[m][r]
    BY <1>0, SameDelivered
  <2>3. QED
    BY <1>0, <2>1, <2>2, LifeStrays
<1>3. QED
  BY <1>1, <1>2

LEMMA LifeWorker ==
    ASSUME LifeInv, Known', NEW w \in Workers,
           Job(w) \/ Abort(w) \/ \E m \in Mails : SendNow(w, m)
    PROVE  [Life!Next]_(Life!vars)
<1> USE DEF tables, local, admin
<1>0. pc[w] \notin {"idle", "next"} => mail[w] \in Mails
  BY TruthPlace, HoldsMail DEF LifeInv, Known
<1>1. CASE UNCHANGED <<status, delivered, windows>>
  BY <1>1, LifeStutters
<1>2. CASE LockMail(w)
  <2>1. mail[w] \in Mails /\ UNCHANGED <<status, delivered>>
    BY <1>0, <1>2 DEF LockMail
  <2>2. \E why \in SUBSET {"snapshot", "unrecorded"} :
            windows' = [windows EXCEPT ![mail[w]] = @ \cup why]
    BY <1>2 DEF LockMail
  <2>3. QED
    BY <2>1, <2>2, LifeWindow
<1>3. CASE FailToRecord(w)
  <2>1. mail[w] \in Mails /\ UNCHANGED <<status, delivered>>
    BY <1>0, <1>3 DEF FailToRecord
  <2>2. windows' = [windows EXCEPT ![mail[w]] = @ \cup {"unrecorded"}]
    BY <1>3 DEF FailToRecord
  <2>3. QED
    BY <2>1, <2>2, LifeWindow
<1>4. CASE Abort(w)
  <2>1. UNCHANGED <<status, delivered>>
    BY <1>4 DEF Abort
  <2>2. CASE pc[w] = "record"
    <3>1. windows' = [windows EXCEPT ![mail[w]] = @ \cup {"unrecorded"}]
      BY <1>4, <2>2 DEF Abort
    <3>2. QED
      BY <1>0, <2>1, <2>2, <3>1, LifeWindow
  <2>3. CASE pc[w] # "record"
    BY <1>4, <2>1, <2>3, LifeStutters DEF Abort
  <2>4. QED
    BY <2>2, <2>3
<1>5. CASE FinishMail(w) \/ HandleBadConnection(w) \/ HandleError(w)
  <2>1. pc[w] \in {"loop", "badconn", "error"} /\ UNCHANGED <<delivered, windows>>
    BY <1>5 DEF FinishMail, HandleBadConnection, HandleError
  <2>2. \E s \in {"Sent", "Error", "Partially Errored", "Not Sent", "Partially Sent"} :
            SetStatus(mail[w], s) /\ (s = "Sent" => pc[w] = "loop")
    BY <1>5 DEF FinishMail, HandleBadConnection, HandleError
  <2>3. QED
    BY <2>1, <2>2, LifeEnd
<1>6. QED
  BY <1>1, <1>2, <1>3, <1>4, <1>5, LifeMark, LifeDeliver
  DEF Job, SendOne, SendNow, StartFlush, NextMail, EndJob, SkipMail, MailGone,
      CommitBeforeMark, CountStatuses, SetDelivery, Resume, SetupServer, RecordSent,
      LoseConnection, RaiseError, LeaveTry, InTry

LEMMA LifeResend ==
    ASSUME LifeInv, Known', SaveResend
    PROVE  Life!Next
<1> USE DEF tables, local, admin
<1> DEFINE m == resend.mail
<1>0. TypeOK /\ Truth /\ TypeOK' /\ Truth'
  BY DEF LifeInv, Known
<1>1. m \in Mails /\ m \in fresh /\ status[m] \notin Gone /\ SetStatus(m, "Not Sent")
      /\ UNCHANGED delivered
      /\ windows' = [windows EXCEPT ![m] =
                        @ \cup IF resend.rows # rstatus[m] THEN {"resend"} ELSE {}]
  BY <1>0 DEF SaveResend, TypeOK
<1>2. CASE windows'[m] = {}
  <2>1. status[m] \in {"Error", "Partially Errored"}
    BY <1>1 DEF LifeInv, Once, FreshFailed, Gone
  <2>2. windows' = windows
    <3>1. windows \in [Mails -> SUBSET {"snapshot", "claim", "unrecorded", "resend"}]
      BY <1>0 DEF TypeOK
    <3>2. resend.rows = rstatus[m]
      BY <1>1, <1>2, <3>1
    <3>3. QED
      BY <1>1, <3>1, <3>2
  <2>3. Stage(status[m]) \in {"failed"}
    BY <2>1 DEF Stage, Sendable
  <2>4. Life!Moves(m, {"failed"}, Stage("Not Sent"))
    BY <1>0, <1>1, <2>2, <2>3, LifeMoves
  <2>5. Life!Resend(m)
    BY <2>4, StageNames DEF Life!Resend
  <2>6. QED
    BY <1>1, <2>5 DEF Life!Next
<1>3. CASE windows'[m] # {}
  <2>1. \A n \in Mails : n # m => windows'[n] = windows[n] /\ status'[n] = status[n]
    BY <1>0, <1>1, StatusSet DEF TypeOK
  <2>2. \A r \in Recipients : delivered'[m][r] >= delivered[m][r]
    BY <1>0, <1>1, SameDelivered
  <2>3. QED
    BY <1>0, <1>1, <1>3, <2>1, <2>2, LifeStrays
<1>4. QED
  BY <1>2, <1>3

LEMMA LifeClears ==
    ASSUME LifeInv, ClearOutbox
    PROVE  Life!Next
<1> USE DEF tables, local, admin
<1>1. doomed \in SUBSET Mails /\ status \in [Mails -> Statuses]
  BY DEF LifeInv, Known, TypeOK
<1>2. Expiring \in SUBSET Mails
  BY DEF Expiring
<1>3. UNCHANGED <<delivered, windows>>
      /\ status' = [m \in Mails |-> IF m \in doomed THEN "Deleted"
                                    ELSE IF m \in Expiring THEN "Expired"
                                    ELSE status[m]]
  BY DEF ClearOutbox
<1>4. \A m \in doomed : Stage(status[m]) # "none"
  <2>1. \A m \in doomed : status[m] \in Statuses /\ status[m] # "None"
    BY <1>1 DEF LifeInv, DoomedExist
  <2>2. QED
    BY <2>1, StageIs
<1>5. \A m \in Expiring : Stage(status[m]) = "queued"
  BY DEF Expiring, Stage, Sendable
<1>6. [m \in Mails |-> Stage(status'[m])]
          = [m \in Mails |-> IF m \in doomed THEN "deleted"
                             ELSE IF m \in Expiring THEN "expired"
                             ELSE [n \in Mails |-> Stage(status[n])][m]]
  <2>1. ASSUME NEW m \in Mails
        PROVE  Stage(status'[m]) = IF m \in doomed THEN "deleted"
                                   ELSE IF m \in Expiring THEN "expired"
                                   ELSE Stage(status[m])
    BY <1>3, StageNames
  <2>2. QED
    BY <2>1
<1>7. Life!Clear(doomed, Expiring)
  <2>1. \A m \in doomed : [n \in Mails |-> Stage(status[n])][m] # "none"
    BY <1>1, <1>4
  <2>2. \A m \in Expiring : [n \in Mails |-> Stage(status[n])][m] = "queued"
    BY <1>2, <1>5
  <2>3. UNCHANGED <<delivered, Astray>>
    BY <1>3 DEF Astray
  <2>4. QED
    BY <1>6, <2>1, <2>2, <2>3 DEF Life!Clear, Astray
<1>8. QED
  BY <1>1, <1>2, <1>7 DEF Life!Next

LEMMA LifeAdd ==
    ASSUME LifeInv, NEW m \in Mails, AddMail(m)
    PROVE  Life!Next
<1>1. TypeOK /\ status[m] = "None" /\ UNCHANGED <<delivered, windows>>
      /\ status' = [status EXCEPT ![m] = "Not Sent"]
  BY DEF AddMail, LifeInv, Known
<1>2. [n \in Mails |-> Stage(status'[n])]
          = [[n \in Mails |-> Stage(status[n])] EXCEPT ![m] = "queued"]
  BY <1>1, StageNames DEF TypeOK
<1>3. Stage(status[m]) = "none"
  BY <1>1, StageNames
<1>4. Life!Queue(m)
  BY <1>1, <1>2, <1>3 DEF Life!Queue, Life!Moves
<1>5. QED
  BY <1>4 DEF Life!Next

LEMMA LifeOutside ==
    ASSUME LifeInv, Known', Outside
    PROVE  [Life!Next]_(Life!vars)
<1>1. CASE SaveResend
  BY <1>1, LifeResend
<1>2. CASE ClearOutbox
  BY <1>2, LifeClears
<1>3. CASE \E m \in Mails : AddMail(m)
  BY <1>3, LifeAdd
<1>4. CASE ~ SaveResend /\ ~ ClearOutbox /\ \A m \in Mails : ~ AddMail(m)
  <2>1. UNCHANGED <<status, delivered, windows>>
    BY <1>4 DEF Outside, LoadForResend, Tick, RejectResend, SelectDoomed, vars, tables
  <2>2. QED
    BY <2>1, LifeStutters
<1>5. QED
  BY <1>1, <1>2, <1>3, <1>4

\* Workers, crashes, faults, resends and clear_outbox(), statement by statement:
\* what they make of a mail is a life that Mailing allows, for all workers,
\* mails and recipients.
THEOREM Implementation == Spec => ImplementsMailing
<1>1. Init => LifeInv
  BY TypeInit, TruthInit, OnceInit DEF LifeInv, Known, DoomedExist, Init
<1>2. LifeInv /\ [Next]_vars => LifeInv'
  BY KnownStep, OnceStep, DoomedStep DEF LifeInv, Known
<1>3. Init => Life!Init
  <2> SUFFICES ASSUME Init PROVE Life!Init
    OBVIOUS
  <2>1. [m \in Mails |-> Stage(status[m])] = [m \in Mails |-> "none"]
    BY StageNames DEF Init
  <2>2. Astray = {}
    BY DEF Init, Astray
  <2>3. delivered = [m \in Mails |-> [r \in Recipients |-> 0]]
    BY DEF Init
  <2>4. QED
    BY <2>1, <2>2, <2>3 DEF Life!Init, Astray
<1>4. LifeInv /\ [Next]_vars => [Life!Next]_(Life!vars)
  BY NextSteps, LifeWorker, LifeOutside, KnownStep DEF LifeInv
<1>5. QED
  BY <1>1, <1>2, <1>3, <1>4, PTL DEF Spec, ImplementsMailing, Life!Spec

=============================================================================
