----------------------------- MODULE Questions -----------------------------
(***************************************************************************)
(* The questions of a form as the web frontend sees them: the choices of a *)
(* question in the two shapes it converts between (types/getObjectType.ts, *)
(* types/JSONparser.ts) and what the schema accepts of each kind of        *)
(* question (schema/configurationValidation.ts).                           *)
(*                                                                         *)
(* A form that is stored or exported has Choices: one record per choice,   *)
(* its text a JSON object from languages to labels. The editor and the     *)
(* ballot work on a ChoicesMap: one list of labels per language, and one   *)
(* list of URLs. A label is a model value or "", the empty one; the text   *)
(* of a choice is a function whose domain is the languages it has.         *)
(***************************************************************************)
EXTENDS Integers, Sequences, SequencesExt

CONSTANT availableLanguages   \* the languages of the frontend, in their order

ASSUME LanguagesAssumption ==
    /\ availableLanguages \in Seq(STRING)
    /\ \E i \in DOMAIN availableLanguages : availableLanguages[i] = "en"

Languages == {availableLanguages[i] : i \in DOMAIN availableLanguages}

Empty == ""
NoURL == "undefined"     \* an entry beyond the end of the list of URLs

-----------------------------------------------------------------------------
(* Conversions *)

\* The languages that have a label for some choice
usedBy(choices) == UNION {DOMAIN choices[i].Choice : i \in DOMAIN choices}

\* The labels of the choices that have one in lg, in the order of the choices
labelsIn(choices, lg) ==
    LET having == {i \in DOMAIN choices : lg \in DOMAIN choices[i].Choice}
    IN  [k \in 1 .. Cardinality(having) |->
            choices[CHOOSE i \in having : Cardinality(having \cap 1 .. i) = k].Choice[lg]]

\* Mutant: the URLs are forgotten
choicesWithoutURLs(choices) ==
    [ChoicesMap |-> [lg \in usedBy(choices) |-> labelsIn(choices, lg)], URLs |-> <<>>]

\* A choice without a label in lg leaves no hole in the list of lg.
choicesToChoicesMap(choices) ==
    [ChoicesMap |-> [lg \in usedBy(choices) |-> labelsIn(choices, lg)],
     URLs |-> [i \in DOMAIN choices |-> choices[i].URL]]

\* As many choices as there are in English. Empty labels are left out, and
\* so are those beyond the end of a list: JSON.stringify drops undefined.
choicesMapToChoices(map) ==
    [i \in DOMAIN map.ChoicesMap["en"] |->
        [Choice |-> [lg \in {k \in DOMAIN map.ChoicesMap :
                                /\ i \in DOMAIN map.ChoicesMap[k]
                                /\ map.ChoicesMap[k][i] # Empty} |-> map.ChoicesMap[lg][i]],
         URL |-> IF i \in DOMAIN map.URLs THEN map.URLs[i] ELSE NoURL]]

\* A marshalled question has its Choices from its ChoicesMap
toArraysOfSubjectElement(q) == [q EXCEPT !.Choices = choicesMapToChoices(q.ChoicesMap)]

\* The question of a file or of the chain gets its ChoicesMap
unmarshal(q) == [q EXCEPT !.ChoicesMap = choicesToChoicesMap(q.Choices)]

-----------------------------------------------------------------------------
(* A question just created: one empty choice in every language *)

newQuestion(type, max, min) ==
    [Type |-> type, titled |-> FALSE, MaxN |-> max, MinN |-> min, MaxLength |-> 50,
     Choices |-> <<>>,
     ChoicesMap |-> [ChoicesMap |-> [lg \in Languages |-> <<Empty>>], URLs |-> <<Empty>>]]
newSelect == newQuestion("select", 1, 1)
newRank == newQuestion("rank", 2, 2)
newText == newQuestion("text", 1, 0)

-----------------------------------------------------------------------------
(* The schema. Numbers are integers here; a Choice is a JSON object, which *)
(* is never the empty string that the schema looks for.                    *)

titleSchema(q) == q.titled

selectsSchema(q) ==
    /\ titleSchema(q)
    /\ q.MaxN >= 1 /\ q.MinN >= 0 /\ q.MinN <= q.MaxN
    /\ q.MaxN <= Len(q.Choices)

ranksSchema(q) ==
    /\ titleSchema(q)
    /\ q.MaxN >= 2 /\ q.MinN = q.MaxN
    /\ Len(q.Choices) = q.MaxN

MaxTextLength == 1000

textsSchema(q) ==
    /\ titleSchema(q)
    /\ q.MaxN >= 1 /\ q.MinN >= 0 /\ q.MinN <= q.MaxN
    /\ q.MaxLength >= 1 /\ q.MaxLength <= MaxTextLength
    /\ Len(q.Choices) = q.MaxN

schema(q) == CASE q.Type = "select" -> selectsSchema(q)
               [] q.Type = "rank" -> ranksSchema(q)
               [] q.Type = "text" -> textsSchema(q)
=============================================================================
