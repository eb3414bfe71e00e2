------------------------------ MODULE Ballots ------------------------------
(***************************************************************************)
(* How a ballot is written by the frontend and read by the nodes:          *)
(* voteEncode (pages/ballot/components/VoteEncode.tsx) on one side, and on *)
(* the other MaxEncodedSize, ChunksPerBallot and Unmarshal of              *)
(* contracts/evoting/types.                                                *)
(*                                                                         *)
(* A form is the sequence of its questions; the subjects around them only  *)
(* add to the size that is reserved. The answers to a question are         *)
(*   select: one Boolean per choice,                                       *)
(*   rank:   the choices in the order in which they stand on the page, and *)
(*           the blank entries that were dragged in between them,          *)
(*   text:   one text per choice.                                          *)
(* A text is what the code tells apart: its length in UTF-16 units, its    *)
(* length in bytes, the spaces around it, and whether the regular          *)
(* expression of the question accepts it. Places and choices are counted   *)
(* from 1 here and from 0 in the code and in the ballot.                   *)
(***************************************************************************)
EXTENDS Questions, FiniteSets

NoText == [units |-> 0, bytes |-> 0, spaces |-> 0, matches |-> FALSE]

\* The entry of a rank that stands for no choice
Undefined == 0

\* How many choices are selected, how many texts are not empty
numAnswer(q, a) == Cardinality({i \in DOMAIN a : IF q.Type = "text" THEN a[i] # NoText ELSE a[i]})

-----------------------------------------------------------------------------
(* Sizes, in bytes *)

base64Size(n) == 4 * ((n + 2) \div 3)
idSize == base64Size(8)
nameSize(q) == IF q.Type = "select" THEN 6 ELSE 4
\* of a place: no list of choices is longer than three digits tell
Digits(n) == IF n < 10 THEN 1 ELSE IF n < 100 THEN 2 ELSE 3

\* Mutant: a character is one byte
reservedForASCII(q) ==
    nameSize(q) + idSize + 2 +
    CASE q.Type = "rank" -> 4 * Len(q.Choices)
      [] q.Type = "select" -> 2 * Len(q.Choices)
      [] q.Type = "text" -> (base64Size(q.MaxLength) + 1) * q.MaxN
                            + Max({Len(q.Choices) - q.MaxN, 0})

\* What the nodes reserve for a question
reserved(q) ==
    nameSize(q) + idSize + 2 +
    CASE q.Type = "rank" -> 4 * Len(q.Choices)
      [] q.Type = "select" -> 2 * Len(q.Choices)
      [] q.Type = "text" -> (4 * q.MaxLength + 1) * q.MaxN + Max({Len(q.Choices) - q.MaxN, 0})

MaxBallotSize(form) ==
    IF form = <<>> THEN 0 ELSE 1 + SumFunction([q \in DOMAIN form |-> reserved(form[q])])

chunkSize == 29
ChunksPerBallot(size) ==
    IF size % chunkSize = 0 THEN size \div chunkSize ELSE size \div chunkSize + 1

-----------------------------------------------------------------------------
(* Encoding *)

\* Mutant: the order on the page is sent as it is
rankAsListed(a) == [i \in DOMAIN a |-> a[i] - 1]

\* The place of every choice; blank entries count, and have no place of their own
rankPositions(a) == [c \in Range(a) \ {Undefined} |-> (CHOOSE i \in DOMAIN a : a[i] = c) - 1]

\* The entries of the line of a question, which are joined by commas
encoded(q, a) == CASE q.Type = "select" -> [i \in DOMAIN a |-> IF a[i] THEN "1" ELSE "0"]
                   [] q.Type = "rank" -> rankPositions(a)
                   [] q.Type = "text" -> [i \in DOMAIN a |-> [base64 |-> a[i]]]

\* A line of no entry loses the colon before them instead of a last comma.
encodeLine(q, a) == [parts |-> IF DOMAIN a = {} THEN 2 ELSE 3, entries |-> encoded(q, a)]

entrySize(q, e) == CASE q.Type = "select" -> 1
                     [] q.Type = "rank" -> Digits(e)
                     [] q.Type = "text" -> base64Size(e.base64.bytes)
lineSize(q, line) ==
    nameSize(q) + 2 + idSize
    + SumFunction([i \in DOMAIN line.entries |-> entrySize(q, line.entries[i]) + 1])

encodedSize(form, lines) ==
    1 + SumFunction([q \in DOMAIN form |-> lineSize(form[q], lines[q])])

encodeBallot(form, answers) == [q \in DOMAIN form |-> encodeLine(form[q], answers[q])]

\* A ballot shorter than ballotSize is padded to that size.
fits(size, ballotSize, chunks) ==
    (IF size < ballotSize THEN ballotSize ELSE size) <= chunkSize * chunks

\* voteEncode throws
Throws(form, answers) ==
    LET size == MaxBallotSize(form)
    IN  ~ fits(encodedSize(form, encodeBallot(form, answers)), size, ChunksPerBallot(size))

-----------------------------------------------------------------------------
(* Decoding *)

MaxInt8 == 127

checkNumberOfAnswers(q, n) == q.MinN <= n /\ n <= q.MaxN

\* The entries of a line, parsed
parsed(q, entries) ==
    CASE q.Type = "select" -> [i \in DOMAIN entries |-> entries[i] = "1"]
      [] q.Type = "rank" -> entries
      [] q.Type = "text" -> [i \in DOMAIN entries |-> entries[i].base64]

\* A rank is an int8 in [0, MaxN[; the frontend leaves no choice without one.
rankParses(q, entries) ==
    \A i \in DOMAIN entries : entries[i] \in 0..MaxInt8 /\ entries[i] < q.MaxN

\* unmarshalAnswers refuses nothing
answersParse(q, entries) ==
    /\ Len(entries) = Len(q.Choices)
    /\ q.Type = "rank" => rankParses(q, entries)
    /\ checkNumberOfAnswers(q, IF q.Type = "rank" THEN Len(entries)
                               ELSE numAnswer(q, parsed(q, entries)))

\* One line that is refused invalidates the whole ballot.
Accepted(form, lines) ==
    \A q \in DOMAIN form : lines[q].parts = 3 /\ answersParse(form[q], lines[q].entries)
Unmarshal(form, lines) == [q \in DOMAIN form |-> parsed(form[q], lines[q].entries)]

\* The places of its choices
Places(q) == 1..Len(q.Choices)

\* What the nodes accept of a question
isValid(q) == q.MinN <= q.MaxN /\ q.MaxN <= Len(q.Choices)

-----------------------------------------------------------------------------
\* The results r of a question are what the voter answered. Those of a rank say
\* for each choice where it stood.
Means(q, r, a) ==
    IF q.Type = "rank"
    THEN DOMAIN r = Places(q) /\ \A i \in DOMAIN a : a[i] # Undefined => r[a[i]] = i - 1
    ELSE r = a
=============================================================================
