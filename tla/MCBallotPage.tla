---------------------------- MODULE MCBallotPage ----------------------------
(***************************************************************************)
(* Small instances of BallotPage.                                          *)
(***************************************************************************)
EXTENDS BallotPage

MCLanguages == <<"en", "fr">>

\* The i-th choice, translated or not
English(i) == [Choice |-> [lg \in {"en"} |-> <<lg, i>>], URL |-> Empty]
Both(i) == [Choice |-> [lg \in {"en", "fr"} |-> <<lg, i>>], URL |-> Empty]

\* A question with choices, of which the last translated ones have two labels
question(type, n, translated, min, max) ==
    [newQuestion(type, max, min) EXCEPT
        !.titled = TRUE, !.MaxLength = 2,
        !.Choices = [i \in 1..n |-> IF i > n - translated THEN Both(i) ELSE English(i)]]

\* As long as allowed and all of three bytes, too long, refused, only a space
MCInputs == {[units |-> 2, bytes |-> 6, spaces |-> 0, matches |-> TRUE],
             [units |-> 4, bytes |-> 4, spaces |-> 1, matches |-> TRUE],
             [units |-> 1, bytes |-> 1, spaces |-> 0, matches |-> FALSE],
             [units |-> 1, bytes |-> 1, spaces |-> 1, matches |-> FALSE]}

\* Every kind, with every relation of the two bounds, alone and together
AllKinds == {<<question("select", 3, 3, 1, 2)>>, <<question("select", 3, 0, 2, 2)>>,
             <<question("select", 2, 0, 0, 1)>>,
             <<question("rank", 3, 3, 3, 3)>>,
             <<question("rank", 3, 0, 3, 3), question("rank", 2, 0, 2, 2)>>,
             <<question("text", 2, 0, 1, 2)>>, <<question("text", 2, 0, 2, 2)>>,
             <<question("select", 2, 2, 1, 1), question("rank", 2, 0, 2, 2),
               question("text", 1, 0, 1, 1)>>}

OneSelect == {<<question("select", 2, 0, 0, 1)>>}

\* The short form is voted on twice, the others once.
MCMaxRequests == [f \in AllKinds |-> IF f \in OneSelect THEN 2 ELSE 1]
=============================================================================
