--------------------------- MODULE MCQuestionForm ---------------------------
(***************************************************************************)
(* Small instances of QuestionForm.                                        *)
(***************************************************************************)
EXTENDS QuestionForm

MCLanguages == <<"en", "fr">>

choice(text) == [Choice |-> text, URL |-> Empty]
En(l) == [lg \in {"en"} |-> l]
EnFr(l) == [lg \in {"en", "fr"} |-> l]

\* One language, two languages, and a translation of the second choice only
MCFiles == {<<choice(En("a")), choice(En("a"))>>, <<choice(EnFr("a")), choice(EnFr("a"))>>,
            <<choice(En("a")), choice(EnFr("a"))>>}
=============================================================================
