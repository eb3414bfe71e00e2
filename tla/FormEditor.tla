----------------------------- MODULE FormEditor -----------------------------
(***************************************************************************)
(* The page on which a form is written and created                         *)
(* (pages/form/components/FormForm.tsx, SubjectComponent.tsx,              *)
(* UploadFile.tsx). A form is a list of subjects, which hold questions and *)
(* subjects of their own. Every subject on the page is a component with a  *)
(* state of its own, taken from its parent when it is mounted; a change is *)
(* passed up until it reaches the configuration that is sent to the nodes. *)
(* React runs the effects of one change before the next event.             *)
(*                                                                         *)
(* The page draws its editor twice, for wide and for small windows, and    *)
(* hides one of them: each subject has a component in both, and a change   *)
(* in one of them does not reach the other.                                *)
(*                                                                         *)
(* What a question holds is in QuestionForm: here it is only whether the   *)
(* schema accepts what will be published of it.                            *)
(***************************************************************************)
EXTENDS Integers, Sequences, SequencesExt, FiniteSets, FiniteSetsExt

CONSTANTS
    MaxEdits,   \* bound: changes of the form and of what the window shows, and exports
    MaxPosts,   \* bound: presses of the button that creates the form
    Files       \* the lists of subjects of the files that users have

VARIABLES
    Scaffold,   \* the subjects of conf
    titled,     \* conf has a title in English
    subject,    \* the components of each editor, by the ID of a subject of the first level
    width,      \* the editor that is not hidden
    currentTab, \* what small windows show
    apart,      \* since the form was empty the window has changed its width, or a file
                \* was taken that has an ID of the form, or two subjects of one ID
    ids,        \* identifiers given so far
    edits,      \* changes of the form and of what the window shows so far
    file,       \* the last export: a configuration or none
    posts,      \* creations under way, in the order of the presses
    pressed,    \* presses so far
    loading,
    showModal,  \* what the modal says: "none" when it is closed
    destination,\* navigateDestination
    authorized  \* external: the forms that the backend was asked to add rights for

creation == <<posts, pressed, loading, showModal, destination, authorized>>
vars == <<Scaffold, titled, subject, width, currentTab, apart, ids, edits, file, creation>>

None == 0
Editors == {"md", "small"}

newSubject(id) == [ID |-> id, Type |-> "subject", titled |-> FALSE, Order |-> <<>>,
                   Elements |-> [e \in {} |-> None]]
question(id, ok) == [ID |-> id, Type |-> "question", valid |-> ok]

subjectsIn(s) == {e \in DOMAIN s.Elements : s.Elements[e].Type = "subject"}
namesOf(list) == [i \in DOMAIN list |-> list[i].ID]
topLevel == Range(namesOf(Scaffold))

\* What a file or the page holds of a subject. Identifiers are numbers up to n: those
\* that the page gives are positive, those of files from elsewhere negative.
IsSubject(s, n) ==
    /\ s = [ID |-> s.ID, Type |-> "subject", titled |-> s.titled, Order |-> s.Order,
            Elements |-> s.Elements]
    /\ s.ID \in Int /\ s.ID <= n
    /\ \A e \in DOMAIN s.Elements : e \in Int /\ e <= n /\ s.Elements[e].ID = e
IsForm(list, n) ==
    /\ list = [i \in 1 .. Len(list) |-> list[i]] /\ Len(list) \in Nat
    /\ \A i \in DOMAIN list :
          IsSubject(list[i], n) /\ \A x \in subjectsIn(list[i]) : IsSubject(list[i].Elements[x], n)

\* Subjects are nested once: the menu of a nested subject adds none.
ASSUME EditorAssumption ==
    /\ MaxEdits \in Nat /\ MaxPosts \in Nat
    /\ \A f \in Files :
          /\ IsForm(f, -1)
          /\ \A i \in DOMAIN f : \A x \in subjectsIn(f[i]) : subjectsIn(f[i].Elements[x]) = {}

\* The map f with v at x, and without x
put(f, x, v) == [y \in DOMAIN f \cup {x} |-> IF y = x THEN v ELSE f[y]]
dropped(f, x) == [y \in DOMAIN f \ {x} |-> f[y]]

withElement(s, e) == [s EXCEPT !.Elements = put(s.Elements, e.ID, e)]

-----------------------------------------------------------------------------
(* Mounting. A component whose key is still there keeps its state, whatever *)
(* its parent passes to it. A nested subject is drawn while the one around  *)
(* it is open; it is mounted again with what that one holds.                *)

component(s) == [own |-> s, nested |-> [n \in subjectsIn(s) |-> s.Elements[n]]]

\* The nested components after the subject around them has become s
renested(nested, s) ==
    [n \in subjectsIn(s) |-> IF n \in DOMAIN nested THEN nested[n] ELSE s.Elements[n]]

\* The components of an editor after it is drawn with the list
mounted(components, list) ==
    [t \in Range(namesOf(list)) |->
        IF t \in DOMAIN components THEN components[t]
        ELSE component(list[CHOOSE i \in DOMAIN list : list[i].ID = t])]

drawn(v, tab) == v = "md" \/ tab = "formForm"

setConf(list, title) ==
    /\ Scaffold' = list /\ titled' = title
    /\ subject' = [v \in Editors |-> IF drawn(v, currentTab) THEN mounted(subject[v], list) ELSE <<>>]

-----------------------------------------------------------------------------
(* Changes in the editor that is shown, which a subject passes up *)

\* FormForm.notifyParent: the first subject of that ID is replaced
notifyParent(s) ==
    [i \in DOMAIN Scaffold |->
        IF Scaffold[i].ID = s.ID /\ \A j \in 1 .. i - 1 : Scaffold[j].ID # s.ID
        THEN s ELSE Scaffold[i]]

\* setSubject of a component at the first level: its effect notifies the form
setSubject(t, s) ==
    /\ Scaffold' = notifyParent(s)
    /\ subject' = [subject EXCEPT ![width][t] = [own |-> s, nested |-> renested(@.nested, s)]]
    /\ UNCHANGED <<titled, width, currentTab, apart, file, creation>>

\* Mutant: the change of a nested subject stops at the subject around it
setNestedHalfway(t, s) ==
    /\ subject' = [subject EXCEPT ![width][t] = [own |-> withElement(@.own, s),
                                                 nested |-> put(@.nested, s.ID, s)]]
    /\ UNCHANGED <<Scaffold, titled, width, currentTab, apart, file, creation>>

\* setSubject of a nested one: localNotifyParent of the subject around it, whose
\* effect notifies the form
setNested(t, s) ==
    LET up == withElement(subject[width][t].own, s) IN
    /\ Scaffold' = notifyParent(up)
    /\ subject' = [subject EXCEPT ![width][t] = [own |-> up, nested |-> put(@.nested, s.ID, s)]]
    /\ UNCHANGED <<titled, width, currentTab, apart, file, creation>>

\* The state of a component, and its change: n is its ID in the subject t, or None
stateOf(t, n) == IF n = None THEN subject[width][t].own ELSE subject[width][t].nested[n]
change(t, n, s) == IF n = None THEN setSubject(t, s) ELSE setNested(t, s)

SubjectTitle(t, n) == change(t, n, [stateOf(t, n) EXCEPT !.titled = ~@]) /\ UNCHANGED ids

\* The subject s with the new element e
added(s, e) == [withElement(s, e) EXCEPT !.Order = Append(@, e.ID)]

\* addSubject in a subject, which its menu has at the first level only
\* (MAX_NESTED_SUBJECT is 1)
addNested(t) ==
    /\ ids' = ids + 1
    /\ setSubject(t, added(subject[width][t].own, newSubject(ids + 1)))

\* Mutant: identifiers are unique in their subject only
addQuestionNumbered(t, n, ok) ==
    /\ ids' = ids + 1
    /\ change(t, n, added(stateOf(t, n), question(Len(stateOf(t, n).Order) + 1, ok)))

addQuestion(t, n, ok) ==
    /\ ids' = ids + 1
    /\ change(t, n, added(stateOf(t, n), question(ids + 1, ok)))

\* A question saved again
notifySubject(t, n, e) ==
    /\ stateOf(t, n).Elements[e].Type # "subject"
    /\ change(t, n, withElement(stateOf(t, n), question(e, ~stateOf(t, n).Elements[e].valid)))
    /\ UNCHANGED ids

\* handleConfirmRemoveElement, with localRemoveSubject or removeChildQuestion
removed(s, e) == [s EXCEPT !.Elements = dropped(s.Elements, e),
                           !.Order = SelectSeq(@, LAMBDA x : x # e)]
removeElement(t, n, e) == change(t, n, removed(stateOf(t, n), e)) /\ UNCHANGED ids

-----------------------------------------------------------------------------
(* Changes of the configuration *)

Title ==
    /\ titled' = ~titled
    /\ UNCHANGED <<Scaffold, subject, width, currentTab, apart, ids, file, creation>>

addSubject ==
    /\ ids' = ids + 1
    /\ setConf(Append(Scaffold, newSubject(ids + 1)), titled)
    /\ UNCHANGED <<width, currentTab, apart, file, creation>>

\* The elements of a list at the indexes I, in their order
elementsAt(list, I) ==
    [k \in 1 .. Cardinality(I) |-> list[CHOOSE i \in I : Cardinality(I \cap 1 .. i) = k]]

handleConfirmRemoveSubject(id) ==
    LET list == elementsAt(Scaffold, {i \in DOMAIN Scaffold : Scaffold[i].ID # id}) IN
    /\ setConf(list, titled) /\ apart' = (apart /\ list # <<>>)
    /\ UNCHANGED <<width, currentTab, ids, file, creation>>

emptyConf == setConf(<<>>, FALSE) /\ apart' = FALSE /\ UNCHANGED <<width, currentTab, ids, file>>
clearForm == emptyConf /\ UNCHANGED creation

\* The window gets wider or smaller: the other editor is shown
Resize ==
    /\ width' \in Editors \ {width} /\ apart' = (Scaffold # <<>>)
    /\ UNCHANGED <<Scaffold, titled, subject, currentTab, ids, file, creation>>

\* Tabs of a small window: its editor is unmounted, and mounted again with conf
setCurrentTab ==
    /\ width = "small" /\ currentTab' \in {"formForm", "previewForm"} \ {currentTab}
    /\ subject' = [subject EXCEPT !["small"] = IF currentTab = "formForm" THEN <<>>
                                               ELSE mounted(<<>>, Scaffold)]
    /\ UNCHANGED <<Scaffold, titled, width, apart, ids, file, creation>>

-----------------------------------------------------------------------------
(* The schema of a configuration, in its marshalled shape *)

\* The test of Order: no identifier twice, and exactly those of the elements
orderIsCoherent(s) ==
    /\ IsInjective(s.Order)
    /\ Range(s.Order) = DOMAIN s.Elements

subjectIsValid(s) ==
    /\ s.titled /\ orderIsCoherent(s)
    /\ \A e \in DOMAIN s.Elements \ subjectsIn(s) : s.Elements[e].valid

subjectSchema(s) ==
    subjectIsValid(s) /\ \A e \in subjectsIn(s) : subjectIsValid(s.Elements[e])

configurationSchema(list, title) == title /\ \A i \in DOMAIN list : subjectSchema(list[i])

\* Where the form has an identifier, which is the last of the path
places(s) == {<<s.ID>>} \cup {<<s.ID, e>> : e \in DOMAIN s.Elements}
             \cup UNION {{<<s.ID, n, x>> : x \in DOMAIN s.Elements[n].Elements} : n \in subjectsIn(s)}
twice(list) ==
    {Last(p) : p \in {p \in UNION {places(list[i]) : i \in DOMAIN list} :
        \E i, j \in DOMAIN list : \E q \in places(list[j]) :
            p \in places(list[i]) /\ Last(p) = Last(q) /\ <<i, p>> # <<j, q>>}}

\* Configuration.IsValid of the contract: no identifier twice in the whole form,
\* and those of Order have been met. Questions that the schema accepts are valid.
IsValid(list) ==
    LET met(i) == UNION {{Last(p) : p \in places(list[j])} : j \in 1 .. i}
    IN  /\ twice(list) = {}
        /\ \A i \in DOMAIN list : Range(list[i].Order) \subseteq met(i)

\* marshalConfig takes conf; what the user sees are the components
marshalConfig == Scaffold
displayed == [i \in DOMAIN Scaffold |-> subject[width][Scaffold[i].ID].own]

exportData ==
    /\ IF configurationSchema(marshalConfig, titled)
       THEN file' = marshalConfig /\ UNCHANGED showModal
       ELSE showModal' = "schema" /\ UNCHANGED file
    /\ UNCHANGED <<Scaffold, titled, subject, width, currentTab, apart, ids, posts, pressed,
                   loading, destination, authorized>>

\* handleDrop: a file that passes the schema replaces the configuration. Subjects
\* of one ID have one key, and React leaves open what it draws of them.
handleDrop(f) ==
    /\ IF configurationSchema(f, TRUE)
       THEN /\ setConf(f, TRUE)
            /\ apart' = (topLevel \cap Range(namesOf(f)) # {} \/ ~IsInjective(namesOf(f)))
            /\ UNCHANGED showModal
       ELSE showModal' = "file" /\ UNCHANGED <<Scaffold, titled, subject, apart>>
    /\ UNCHANGED <<width, currentTab, ids, file, posts, pressed, loading, destination, authorized>>

-----------------------------------------------------------------------------
(* Creation. The button is not disabled while a creation is under way. *)

createHandler ==
    /\ pressed < MaxPosts
    /\ IF configurationSchema(marshalConfig, titled)
       THEN /\ posts' = Append(posts, [form |-> pressed + 1, valid |-> IsValid(marshalConfig),
                                       phase |-> "post"])
            /\ pressed' = pressed + 1 /\ loading' = TRUE /\ UNCHANGED showModal
       ELSE showModal' = "schema" /\ UNCHANGED <<posts, pressed, loading>>
    /\ UNCHANGED <<Scaffold, titled, subject, width, currentTab, apart, ids, edits, file, destination,
                   authorized>>

without(p) == SelectSeq(posts, LAMBDA x : x # p)
theForm == <<Scaffold, titled, subject, width, currentTab, apart, ids, edits, file>>
broken == showModal = "broken"

reached(p, phase) ==
    posts' = [i \in DOMAIN posts |-> IF posts[i] = p THEN [p EXCEPT !.phase = phase] ELSE posts[i]]

\* External: the answer to the request, and what the nodes make of the transaction
Answered(p) ==
    /\ p.phase = "post"
    /\ reached(p, "poll")
    /\ UNCHANGED <<theForm, pressed, loading, showModal, destination, authorized>>
Accepted(p) ==
    /\ p.phase = "poll" /\ p.valid
    /\ reached(p, "accepted")
    /\ UNCHANGED <<theForm, pressed, loading, showModal, destination, authorized>>

\* The request is refused: the spinner stays
Refused(p) ==
    /\ p.phase = "post" /\ posts' = without(p)
    /\ showModal' = IF broken THEN showModal ELSE "refused"
    /\ UNCHANGED <<theForm, pressed, loading, destination, authorized>>

\* The request fails
Failed(p) ==
    /\ p.phase = "post" /\ posts' = without(p)
    /\ showModal' = IF broken THEN showModal ELSE "failed"
    /\ loading' = FALSE
    /\ UNCHANGED <<theForm, pressed, destination, authorized>>

\* A request of the poll fails: the error is given to the modal as it is, which
\* cannot draw it, and React takes the whole page down
PollFails(p) ==
    /\ p.phase # "post" /\ posts' = without(p) /\ showModal' = "broken"
    /\ emptyConf /\ UNCHANGED <<edits, pressed, loading, destination, authorized>>

\* The poll sees the transaction: AuthorizationUpdate, and the form is left for
\* the one created
Polled(p) ==
    /\ p.phase = "accepted"
    /\ posts' = without(p) /\ authorized' = authorized \cup {p.form}
    /\ IF broken THEN UNCHANGED <<theForm, showModal, loading, destination>>
       ELSE /\ emptyConf /\ UNCHANGED edits
            /\ showModal' = "created" /\ loading' = FALSE /\ destination' = p.form
    /\ UNCHANGED pressed

\* The transaction is rejected, the poll is refused or has had its attempts:
\* an exception of a callback, that settles nothing
PollThrows(p) ==
    /\ p.phase # "post" /\ posts' = without(p)
    /\ UNCHANGED <<theForm, pressed, loading, showModal, destination, authorized>>

\* The page is loaded again: what it was waiting for is forgotten
reload ==
    /\ Scaffold' = <<>> /\ titled' = FALSE /\ subject' = [v \in Editors |-> <<>>]
    /\ currentTab' = "formForm" /\ apart' = FALSE
    /\ posts' = <<>> /\ loading' = FALSE /\ showModal' = "none" /\ destination' = None
    /\ UNCHANGED <<width, ids, edits, file, pressed, authorized>>

\* closeModal: the page is left for the form created, and loaded again
closeModal ==
    /\ showModal # "none" /\ ~broken
    /\ IF destination # None THEN reload
       ELSE showModal' = "none" /\ UNCHANGED <<theForm, posts, pressed, loading, destination,
                                               authorized>>

-----------------------------------------------------------------------------
Init ==
    /\ Scaffold = <<>> /\ titled = FALSE /\ subject = [v \in Editors |-> <<>>] /\ ids = 0 /\ file = <<>>
    /\ edits = 0
    /\ width \in Editors /\ currentTab = "formForm" /\ apart = FALSE
    /\ posts = <<>> /\ pressed = 0 /\ loading = FALSE /\ showModal = "none"
    /\ destination = None /\ authorized = {}

SubjectEdits(t, n) ==
    \/ SubjectTitle(t, n) \/ \E ok \in BOOLEAN : addQuestion(t, n, ok)
    \/ \E e \in DOMAIN stateOf(t, n).Elements : notifySubject(t, n, e) \/ removeElement(t, n, e)

Edits ==
    \/ \E t \in DOMAIN subject[width] :
        addNested(t) \/ \E n \in {None} \cup DOMAIN subject[width][t].nested : SubjectEdits(t, n)
    \/ Title \/ addSubject \/ clearForm \/ \E id \in topLevel : handleConfirmRemoveSubject(id)

edit == edits < MaxEdits /\ edits' = edits + 1

\* The modal covers the page
Next ==
    \/ showModal = "none" /\ edit /\ (setCurrentTab \/ \E f \in Files \cup {file} : handleDrop(f))
    \/ showModal = "none" /\ drawn(width, currentTab) /\ ((edit /\ (Edits \/ exportData)) \/ createHandler)
    \/ ~broken /\ edit /\ Resize
    \/ closeModal \/ reload
    \/ \E i \in DOMAIN posts : LET p == posts[i] IN
        \/ Answered(p) \/ Accepted(p) \/ Refused(p) \/ Failed(p)
        \/ PollFails(p) \/ Polled(p) \/ PollThrows(p)

Spec == Init /\ [][Next]_vars

-----------------------------------------------------------------------------
(* Properties *)

\* The copies of a subject agree: the state of its component in the editor that is
\* shown, the copy that the subject around it holds, and conf, which is what
\* createHandler sends. The page shows the form that would be created, unless the
\* window has changed its width, or a file was taken onto a form that has one of
\* its subjects, since the form was last empty.
CopiesAgree ==
    ~apart /\ drawn(width, currentTab) =>
        /\ displayed = Scaffold
        /\ \A t \in topLevel : \A n \in subjectsIn(subject[width][t].own) :
              subject[width][t].nested[n] = subject[width][t].own.Elements[n]

\* The contract takes the forms that the schema of the page accepts, whatever is
\* added, removed, exported, uploaded again, and written back by an editor that was
\* hidden: the schema looks at one subject at a time, the contract at the whole
\* form. Only a file from elsewhere can bring an identifier twice.
NodesTakeForms ==
    configurationSchema(Scaffold, titled) => IsValid(Scaffold) \/ \E x \in twice(Scaffold) : x < 0
=============================================================================
