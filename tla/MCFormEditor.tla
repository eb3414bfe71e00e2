---------------------------- MODULE MCFormEditor ----------------------------
(* The files of users: what another user exported, and files that were edited. *)
EXTENDS FormEditor

Subject(id, elements) ==
    [ID |-> id, Type |-> "subject", titled |-> TRUE,
     Order |-> SetToSeq({e.ID : e \in elements}),
     Elements |-> [x \in {e.ID : e \in elements} |-> CHOOSE e \in elements : e.ID = x]]

MCFiles ==
    {<<Subject(-1, {Subject(-2, {question(-3, TRUE)})})>>,
     \* one identifier in two subjects, which the schema accepts
     <<Subject(-1, {question(-3, TRUE)}), Subject(-2, {question(-3, TRUE)})>>,
     \* two subjects of one identifier
     <<Subject(-1, {}), Subject(-1, {question(-3, TRUE)})>>,
     \* a question that the schema refuses
     <<Subject(-1, {question(-3, FALSE)})>>}
=============================================================================
