----------------------------- MODULE MCEvoting -----------------------------
(***************************************************************************)
(* Small instances of the contract for TLC.                                *)
(***************************************************************************)
EXTENDS Evoting

CONSTANTS n1, n2, n3, c1, c2, long

\* Two users, then a user ID that is a number but no SCIPER, then no number.
TwoUsers == {"111111", "222222"}
NumberedUsers == TwoUsers \cup {"99999"}
AllUsers == NumberedUsers \cup {""}
MCAtoi == [u \in {"111111", "222222", "99999"} |->
              CASE u = "111111" -> 111111 [] u = "222222" -> 222222 [] u = "99999" -> 99999]

MCNodes == {n1, n2, n3}
MCDkgIndex == [n \in MCNodes |->
                  CASE n = n1 -> 0 [] n = n2 -> 1 [] n = n3 -> 2]

\* The shares' indexes, and one more.
MCIndexes == 0 .. 3

\* Ciphertexts of the rounds of a roster of two at most.
MCReencryptions == {<<>>} \cup {<<n>> : n \in MCNodes}

\* Rosters that need every node
OneNode == {{n1}}
FewNodes == {{n1}, {n2, n3}}

\* 29 bytes are one chunk; "long" is a ballot of two.
MCCiphervotes == {c1, c2, long}
MCChunks == [c \in MCCiphervotes |-> IF c = long THEN 2 ELSE 1]

\* Every ciphervote decrypts to a ballot.
MCPlaintext == [c \in MCCiphervotes |-> IF c = c1 THEN "yes" ELSE "no"]

\* All bags of at most MaxBallots ciphervotes.
MCShuffleOutputs ==
    {[c \in {x \in Ciphervotes : g[x] > 0} |-> g[c]] :
        g \in {h \in [Ciphervotes -> 0 .. MaxBallots] : FoldFunction(+, 0, h) <= MaxBallots}}
=============================================================================
