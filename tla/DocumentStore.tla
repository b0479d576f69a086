---------------------------- MODULE DocumentStore ---------------------------
(***************************************************************************)
(* What the Document class promises about one document, seen from outside: *)
(* a row that changes in single steps.  Every value a step writes is the   *)
(* timestamp of the step that wrote it, so "kept or written here" below    *)
(* says that no step brings back an older value: no update is lost.        *)
(*                                                                         *)
(* The columns stand for three kinds: a, a field that is not               *)
(* allow_on_submit; b, a field written by forms and by db_set; c, a column *)
(* written with update_modified=False (_seen, _assign, _comments, ...), for*)
(* which nothing is promised.                                              *)
(***************************************************************************)
EXTENDS Naturals

CONSTANT NoRow          \* the document does not exist
VARIABLE doc

Row == [modified : Nat, docstatus : 0..2, a : Nat, b : Nat, c : Nat]

\* Save > Save, Save > Submit, Submit > Submit, Submit > Cancel.
Transitions == {<<0, 0>>, <<0, 1>>, <<1, 1>>, <<1, 2>>}

Init == doc = NoRow

\* insert(): as a draft or already submitted.
Create ==
    /\ doc = NoRow
    /\ doc' \in Row /\ doc'.docstatus \in {0, 1}

\* save(), submit(), cancel(): built on the row as it is now.
Revise ==
    /\ doc # NoRow
    /\ doc' \in Row /\ doc'.modified # doc.modified
    /\ <<doc.docstatus, doc'.docstatus>> \in Transitions
    /\ doc'.a \in {doc.a, doc'.modified} /\ doc'.b \in {doc.b, doc'.modified}
    /\ doc.docstatus = 1 /\ doc'.docstatus = 1 => doc'.a = doc.a

\* db_set() of one field, with and without a new `modified`.
SetField ==
    /\ doc # NoRow
    /\ doc' \in Row /\ doc'.modified # doc.modified
    /\ doc' = [doc EXCEPT !.b = doc'.modified, !.modified = doc'.modified]

SetUnstamped ==
    /\ doc # NoRow
    /\ doc' \in Row /\ doc' = [doc EXCEPT !.c = doc'.c]

Remove == doc # NoRow /\ doc' = NoRow

Next == Create \/ Revise \/ SetField \/ SetUnstamped \/ Remove

Spec == Init /\ [][Next]_doc
=============================================================================
