---------------------------- MODULE QuestionForm ----------------------------
(***************************************************************************)
(* The dialog in which a question is written                               *)
(* (pages/form/components/AddQuestionModal.tsx, utils/useQuestionForm.ts). *)
(* The dialog keeps a draft, and saving hands the draft to the subject. A  *)
(* question comes from the menu of a subject, where its dialog is mounted  *)
(* again whenever the subject is drawn, or from a file; once it is in the  *)
(* form it has a dialog of its own, which keeps the draft when it closes.  *)
(*                                                                         *)
(* Deleting a choice changes the ChoicesMap of the draft in place, and the *)
(* draft may share it, or the Map of lists in it, with the question it was *)
(* mounted with: that is what "alias" records.                             *)
(***************************************************************************)
EXTENDS Questions, FiniteSets, FiniteSetsExt

CONSTANTS
    Types,       \* kinds of questions to write
    Labels,      \* labels that are typed in
    URLs,        \* URLs that are typed in
    Files,       \* the Choices of questions in files that may be uploaded
    MaxChoices,  \* bound: entries of a list
    MaxEdits     \* bound: changes of the draft

ASSUME QuestionFormAssumption ==
    /\ Types \subseteq {"select", "rank", "text"}
    /\ MaxChoices \in Nat \ {0} /\ MaxEdits \in Nat
    /\ \A f \in Files : Len(f) \in Nat /\ DOMAIN f = 1 .. Len(f)

VARIABLES
    prop,        \* the question that the dialog was mounted with
    inForm,      \* that question is in the form
    draft,       \* state of useQuestionForm
    alias,       \* what the draft and the question share: "all" of the ChoicesMap,
                 \* its "lists", or "none" of it
    typed,       \* history: the lists were typed in since the last addition or removal
    uploaded,    \* history: the Choices in the file, <<>> for a new question
    edits

dialogVars == <<prop, inForm, draft, alias, typed, uploaded, edits>>

map == draft.ChoicesMap.ChoicesMap
urls == draft.ChoicesMap.URLs
longest(m) == Max({Len(m[lg]) : lg \in DOMAIN m})
shortest(m) == Min({Len(m[lg]) : lg \in DOMAIN m})

\* What the form in which the question is saved makes of it
published == toArraysOfSubjectElement(prop).Choices

fromMenu(type) == CASE type = "select" -> newSelect [] type = "rank" -> newRank
                    [] type = "text" -> newText

\* A question of a file
fromFile(type, choices) ==
    unmarshal([newQuestion(type, Len(choices), IF type = "rank" THEN Len(choices) ELSE 0)
                  EXCEPT !.titled = TRUE, !.Choices = choices])

mount(q) == draft' = q /\ alias' = "all" /\ typed' = FALSE

DialogInit ==
    /\ \E t \in Types : prop = fromMenu(t)
    /\ inForm = FALSE /\ uploaded = <<>> /\ edits = 0
    /\ draft = prop /\ alias = "all" /\ typed = FALSE

\* A file replaces the form. (A question without any English label is left
\* out: the page fails to draw it.)
handleDrop(t, f) ==
    /\ ~inForm /\ edits = 0
    /\ schema(fromFile(t, f)) /\ "en" \in usedBy(f)
    /\ prop' = fromFile(t, f) /\ inForm' = TRUE /\ uploaded' = f /\ mount(prop')
    /\ UNCHANGED edits

-----------------------------------------------------------------------------
(* Changes of the draft *)

edit == edits < MaxEdits /\ edits' = edits + 1 /\ UNCHANGED <<inForm, uploaded>>

\* handleChange reads the lists of every language before anything else, and
\* throws when one is missing.
readable == DOMAIN map = Languages
handleChange == edit /\ readable

\* The draft with lists of its own
renew(q) == draft' = q /\ alias' = "none" /\ UNCHANGED prop

\* A field that is not a list. The ChoicesMap remains the same object.
setField(q) == draft' = q /\ UNCHANGED <<prop, alias, typed>>

Title == /\ readable /\ UNCHANGED <<inForm, uploaded, edits>>
         /\ setField([draft EXCEPT !.titled = ~@])

Number == /\ handleChange /\ draft.Type # "rank"
          /\ \E n \in 0..MaxChoices :
                \/ setField([draft EXCEPT !.MaxN = n])
                \/ setField([draft EXCEPT !.MinN = n])

TextMaxLength == /\ handleChange /\ draft.Type = "text"
                 /\ \E n \in {0, 50, MaxTextLength + 1} :
                        n >= 1 /\ setField([draft EXCEPT !.MaxLength = n])

addChoiceRank ==
    /\ handleChange /\ draft.Type = "rank" /\ longest(map) < MaxChoices
    /\ renew([draft EXCEPT !.ChoicesMap = [ChoicesMap |-> [lg \in DOMAIN map |->
                                                              Append(map[lg], Empty)],
                                           URLs |-> Append(urls, Empty)],
                           !.MaxN = longest(map) + 1, !.MinN = shortest(map) + 1])
    /\ typed' = FALSE

\* A ChoicesMap changed in place is changed in the question as well
inPlace(choicesMap, max, min) ==
    /\ draft' = [draft EXCEPT !.ChoicesMap = choicesMap, !.MaxN = max, !.MinN = min]
    /\ prop' = [prop EXCEPT !.ChoicesMap = CASE alias = "all" -> choicesMap
                              [] alias = "lists" -> [@ EXCEPT !.ChoicesMap = choicesMap.ChoicesMap]
                              [] alias = "none" -> @]
    /\ UNCHANGED alias

filter(list, i) == IF i \in DOMAIN list THEN RemoveAt(list, i) ELSE list

\* The places that the dialog shows: a button to remove one is there when
\* there are several.
shown(lg) == IF lg \in DOMAIN map THEN map[lg] ELSE map["en"]
removable(i) == \E lg \in Languages : i \in DOMAIN shown(lg) /\ Len(shown(lg)) > 1

\* Mutant: the bounds are left alone
deleteChoiceRankKeepsN(i) ==
    /\ handleChange /\ draft.Type = "rank" /\ removable(i)
    /\ inPlace([ChoicesMap |-> [lg \in DOMAIN map |-> filter(map[lg], i)],
                URLs |-> filter(urls, i)], draft.MaxN, draft.MinN)
    /\ typed' = FALSE

\* Mutant: the last URL goes, whichever choice does
deleteChoiceRankLastURL(i) ==
    LET left == [lg \in DOMAIN map |-> filter(map[lg], i)] IN
    /\ handleChange /\ draft.Type = "rank" /\ removable(i)
    /\ inPlace([ChoicesMap |-> left, URLs |-> filter(urls, Len(urls))],
               Len(left["en"]), Len(left["en"]))
    /\ typed' = FALSE

deleteChoiceRank(i) ==
    LET left == [lg \in DOMAIN map |-> filter(map[lg], i)] IN
    /\ handleChange /\ draft.Type = "rank" /\ removable(i)
    /\ inPlace([ChoicesMap |-> left, URLs |-> filter(urls, i)], Len(left["en"]), Len(left["en"]))
    /\ typed' = FALSE

\* A place in the language of the dialog only
addChoice(lg) ==
    /\ edit /\ draft.Type # "rank"
    /\ lg \in DOMAIN map /\ Len(map[lg]) < MaxChoices
    /\ renew([draft EXCEPT !.ChoicesMap = [ChoicesMap |-> [map EXCEPT ![lg] = Append(@, Empty)],
                                           URLs |-> Append(urls, Empty)],
                           !.MaxN = Len(map[lg]) + 1])
    /\ typed' = FALSE

\* The URL at i is removed once for every language that loses a choice. A
\* language that is missing throws: the ones before it have been changed.
deleteChoice(i) ==
    LET reached == {n \in DOMAIN availableLanguages :
                        \A m \in 1..n : availableLanguages[m] \in DOMAIN map}
        losing == {lg \in {availableLanguages[n] : n \in reached} : Len(map[lg]) > draft.MinN}
        removed == [ChoicesMap |-> [lg \in DOMAIN map |->
                                       IF lg \in losing THEN filter(map[lg], i) ELSE map[lg]],
                    URLs |-> FoldFunction(LAMBDA lg, list : filter(list, i), urls,
                                          [lg \in losing |-> lg])]
    IN  /\ edit /\ draft.Type # "rank" /\ removable(i)
        /\ inPlace(removed, IF DOMAIN map = Languages THEN longest(removed.ChoicesMap) + 1
                                                      ELSE draft.MaxN, draft.MinN)
        /\ typed' = FALSE

updateChoice(i, lg, label) ==
    LET new == [ChoicesMap |-> [map EXCEPT ![lg][i] = label], URLs |-> urls] IN
    /\ edit /\ lg \in DOMAIN map /\ i \in DOMAIN map[lg]
    /\ renew([draft EXCEPT !.ChoicesMap = new, !.Choices = choicesMapToChoices(new)])
    /\ typed' = TRUE

\* The buttons beside the choices
handleAddChoice == addChoiceRank \/ \E lg \in Languages : addChoice(lg)
handleDeleteChoice(i) == deleteChoiceRank(i) \/ deleteChoice(i)

\* slice up to the place, the URL, and what follows
replaceURL(list, i, u) == SubSeq(list, 1, IF i <= Len(list) THEN i - 1 ELSE Len(list)) \o <<u>>
                            \o SubSeq(list, i + 1, Len(list))

\* A ChoicesMap of its own, with the Map of lists of the old one
updatesURL(q) ==
    /\ draft' = q /\ alias' = (IF alias = "none" THEN "none" ELSE "lists")
    /\ typed' = TRUE /\ UNCHANGED prop

updateURL(i, u) ==
    LET new == [ChoicesMap |-> map, URLs |-> replaceURL(urls, i, u)] IN
    /\ edit /\ \E lg \in Languages : i \in DOMAIN shown(lg)
    /\ updatesURL([draft EXCEPT !.ChoicesMap = new, !.Choices = choicesMapToChoices(new)])

-----------------------------------------------------------------------------
(* The dialog *)

\* handleSave: the draft is checked with the Choices it has, and the question
\* of the form is the draft.
handleSave ==
    /\ schema(draft)
    /\ prop' = draft /\ inForm' = TRUE /\ alias' = "all"
    /\ UNCHANGED <<draft, typed, uploaded, edits>>

\* The subject is drawn while its dialog for a new question is open, or is
\* folded and unfolded: the dialog is mounted again.
QuestionModal == mount(prop) /\ UNCHANGED <<prop, inForm, uploaded, edits>>

\* A new question is given up; the next one starts afresh. The dialog of a
\* question in the form only closes.
handleClose ==
    /\ ~inForm /\ prop' = fromMenu(prop.Type) /\ mount(prop')
    /\ UNCHANGED <<inForm, uploaded, edits>>

DialogNext ==
    \/ \E t \in Types, f \in Files : handleDrop(t, f)
    \/ Title \/ Number \/ TextMaxLength
    \/ handleAddChoice \/ \E i \in 1..MaxChoices : handleDeleteChoice(i)
    \/ \E i \in 1..MaxChoices, lg \in Languages, l \in Labels \cup {Empty} : updateChoice(i, lg, l)
    \/ \E i \in 1..MaxChoices, u \in URLs \cup {Empty} : updateURL(i, u)
    \/ handleSave \/ QuestionModal \/ handleClose

DialogSpec == DialogInit /\ [][DialogNext]_dialogVars

-----------------------------------------------------------------------------
(* Properties *)

\* A new rank question that handleSave accepts is published with MaxN = MinN
\* choices, which createHandler and the contract ask for: the check is made on
\* Choices, which additions and removals leave alone.
SavedRankFits ==
    [][handleSave /\ draft.Type = "rank" /\ ~inForm =>
            Len(published') = draft.MaxN /\ draft.MinN = draft.MaxN]_dialogVars

\* Removing a choice of a rank question written here removes that choice, its
\* URL and nothing else from what the draft would publish.
RankDeleteExact ==
    [][\A i \in 1..MaxChoices : deleteChoiceRank(i) /\ uploaded = <<>> =>
            choicesMapToChoices(draft'.ChoicesMap)
                = filter(choicesMapToChoices(draft.ChoicesMap), i)]_dialogVars

Uniform(choices) ==
    \A i, j \in DOMAIN choices : DOMAIN choices[i].Choice = DOMAIN choices[j].Choice

\* A published question whose choices all have the same languages, English
\* among them, comes back from a file as it was.
UniformRoundTrip ==
    inForm /\ Uniform(published) /\ "en" \in usedBy(published)
           /\ (\A i \in DOMAIN published : published[i].URL # NoURL) =>
        choicesMapToChoices(choicesToChoicesMap(published)) = published
=============================================================================
