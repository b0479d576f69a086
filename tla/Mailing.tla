------------------------------- MODULE Mailing -------------------------------
(***************************************************************************)
(* The life of a mail, as frappe/email/queue.py means it to be: it is      *)
(* queued, taken by a sender, handed to the server once for each recipient *)
(* and then sent, put back or given up; a mail that was given up may be    *)
(* queued again, one that waits may expire, and any may be deleted for     *)
(* good, though its sender goes on with it.  The sender may also fail      *)
(* behind the word 'sent' and take it back, but hands nothing over twice.  *)
(* A mail may go astray; then little is left of this, but it does not come *)
(* back once it is deleted, and it is not called sent before everyone has  *)
(* it.                                                                     *)
(***************************************************************************)
EXTENDS Naturals

CONSTANTS Mails, Recipients

VARIABLES
    stage,   \* of each mail
    got,     \* how often each recipient was handed each mail
    astray   \* the mails that have gone astray

vars == <<stage, got, astray>>

Init ==
    /\ stage = [m \in Mails |-> "none"]
    /\ got = [m \in Mails |-> [r \in Recipients |-> 0]]
    /\ astray = {}

Everyone(m) == \A r \in Recipients : got[m][r] >= 1

Moves(m, from, to) ==
    /\ stage[m] \in from
    /\ stage' = [stage EXCEPT ![m] = to]
    /\ UNCHANGED <<got, astray>>

Queue(m)   == Moves(m, {"none"}, "queued")
Claim(m)   == Moves(m, {"queued"}, "sending")
PutBack(m) == Moves(m, {"sending", "sent"}, "queued")
GiveUp(m)  == Moves(m, {"sending", "sent"}, "failed")
Resend(m)  == Moves(m, {"failed"}, "queued")
Finish(m)  == Everyone(m) /\ Moves(m, {"sending"}, "sent")

Hand(m, r) ==
    /\ stage[m] \in {"sending", "deleted"} /\ got[m][r] = 0
    /\ got' = [got EXCEPT ![m][r] = 1]
    /\ UNCHANGED <<stage, astray>>

Clear(gone, old) ==
    /\ \A m \in gone : stage[m] # "none"
    /\ \A m \in old : stage[m] = "queued"
    /\ stage' = [m \in Mails |-> IF m \in gone THEN "deleted"
                                 ELSE IF m \in old THEN "expired" ELSE stage[m]]
    /\ UNCHANGED <<got, astray>>

\* Whatever happens to a mail that is, or goes, astray.
Stray(m) ==
    /\ astray' = astray \cup {m}
    /\ \A n \in Mails \ {m} : stage'[n] = stage[n] /\ got'[n] = got[n]
    /\ stage[m] \in {"none", "deleted"} => stage'[m] = stage[m]
    /\ \A r \in Recipients : got'[m][r] >= got[m][r]
    /\ stage'[m] = "sent" => Everyone(m)'

Next ==
    \/ \E m \in Mails :
           \/ Queue(m) \/ Claim(m) \/ PutBack(m) \/ GiveUp(m) \/ Resend(m) \/ Finish(m)
           \/ Stray(m)
           \/ \E r \in Recipients : Hand(m, r)
    \/ \E gone, old \in SUBSET Mails : Clear(gone, old)

Spec == Init /\ [][Next]_vars

=============================================================================
