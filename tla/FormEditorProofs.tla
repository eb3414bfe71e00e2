-------------------------- MODULE FormEditorProofs --------------------------
(***************************************************************************)
(* Theorems about the page on which a form is written, for any number of   *)
(* subjects, questions, files, uploads and changes of the window.          *)
(***************************************************************************)
EXTENDS FormEditor, ListLemmas

-----------------------------------------------------------------------------
(***************************************************************************)
(* The inductive invariant. Whatever the copies hold, they are subjects    *)
(* with identifiers that were given, each editor that is drawn has the     *)
(* components of the subjects of conf, and a nested component has what the *)
(* component around it holds. Unless the copies are apart, the subjects of *)
(* conf have different identifiers and their components in the editor      *)
(* shown have what conf holds.                                             *)
(***************************************************************************)

WholeSubject(s, n) ==
    IsSubject(s, n) /\ \A x \in subjectsIn(s) : IsSubject(s.Elements[x], n)

ComponentOK(c, t, n) == c = component(c.own) /\ c.own.ID = t /\ WholeSubject(c.own, n)

ComponentsOK(comps, n) == \A t \in DOMAIN comps : ComponentOK(comps[t], t, n)

EditorOK(v) ==
    /\ DOMAIN subject[v] = IF drawn(v, currentTab) THEN topLevel ELSE {}
    /\ ComponentsOK(subject[v], ids)

Together ==
    /\ \A i, j \in DOMAIN Scaffold : Scaffold[i].ID = Scaffold[j].ID => i = j
    /\ drawn(width, currentTab) =>
          \A i \in DOMAIN Scaffold : subject[width][Scaffold[i].ID].own = Scaffold[i]

EditorInv ==
    /\ ids \in Nat /\ width \in Editors /\ currentTab \in {"formForm", "previewForm"}
    /\ DOMAIN subject = Editors
    /\ IsForm(Scaffold, ids) /\ IsForm(file, ids)
    /\ \A v \in Editors : EditorOK(v)
    /\ ~apart => Together

-----------------------------------------------------------------------------
(* Parts of the invariant. *)

\* The identifiers of a list.
LEMMA Names ==
    ASSUME NEW list
    PROVE  /\ DOMAIN namesOf(list) = DOMAIN list
           /\ \A i \in DOMAIN list : namesOf(list)[i] = list[i].ID
           /\ Range(namesOf(list)) = {list[i].ID : i \in DOMAIN list}
  BY DEF namesOf, Range

\* More identifiers have been given.
LEMMA Weaken ==
    ASSUME NEW n \in Int, NEW m \in Int, n <= m
    PROVE  /\ \A s : IsSubject(s, n) => IsSubject(s, m)
           /\ \A s : WholeSubject(s, n) => WholeSubject(s, m)
           /\ \A list : IsForm(list, n) => IsForm(list, m)
           /\ \A c, t : ComponentOK(c, t, n) => ComponentOK(c, t, m)
           /\ \A comps : ComponentsOK(comps, n) => ComponentsOK(comps, m)
  <1>1. \A s : IsSubject(s, n) => IsSubject(s, m)
    BY DEF IsSubject
  <1>2. \A s : WholeSubject(s, n) => WholeSubject(s, m)
    BY <1>1 DEF WholeSubject
  <1>3. \A list : IsForm(list, n) => IsForm(list, m)
    BY <1>1 DEF IsForm
  <1>4. \A c, t : ComponentOK(c, t, n) => ComponentOK(c, t, m)
    BY <1>2 DEF ComponentOK
  <1>. QED
    BY <1>1, <1>2, <1>3, <1>4 DEF ComponentsOK

\* A component that is mounted with a subject.
LEMMA Fresh ==
    ASSUME NEW n, NEW s, WholeSubject(s, n)
    PROVE  component(s).own = s /\ ComponentOK(component(s), s.ID, n)
  BY DEF component, ComponentOK

\* A component of M was there before, or has a subject of the list.
MountedFrom(M, comps, list) ==
    \A i \in DOMAIN list :
        \/ list[i].ID \in DOMAIN comps /\ M[list[i].ID] = comps[list[i].ID]
        \/ \E j \in DOMAIN list : list[j].ID = list[i].ID /\ M[list[i].ID].own = list[j]

\* An editor that is drawn with a list.
LEMMA MountedOK ==
    ASSUME NEW n \in Int, NEW m \in Int, n <= m, NEW list, IsForm(list, m), NEW comps,
           ComponentsOK(comps, n)
    PROVE  /\ DOMAIN mounted(comps, list) = Range(namesOf(list))
           /\ ComponentsOK(mounted(comps, list), m)
           /\ MountedFrom(mounted(comps, list), comps, list)
  <1>. DEFINE M == mounted(comps, list)
              Pick(t) == CHOOSE i \in DOMAIN list : list[i].ID = t
  <1>1. /\ DOMAIN M = {list[i].ID : i \in DOMAIN list}
        /\ \A t \in DOMAIN M : M[t] = IF t \in DOMAIN comps THEN comps[t] ELSE component(list[Pick(t)])
    BY Names DEF mounted
  <1>2. \A t \in DOMAIN M : Pick(t) \in DOMAIN list /\ list[Pick(t)].ID = t
    BY <1>1
  <1>. HIDE DEF M, Pick
  <1>3. \A i \in DOMAIN list : WholeSubject(list[i], m)
    BY DEF IsForm, WholeSubject
  <1>4. ASSUME NEW t \in DOMAIN M
        PROVE  /\ ComponentOK(M[t], t, m)
               /\ t \notin DOMAIN comps => M[t].own = list[Pick(t)]
    <2>1. CASE t \in DOMAIN comps
      BY <1>1, <2>1, Weaken DEF ComponentsOK
    <2>2. CASE t \notin DOMAIN comps
      <3>1. M[t] = component(list[Pick(t)]) /\ WholeSubject(list[Pick(t)], m) /\ list[Pick(t)].ID = t
        BY <1>1, <1>2, <1>3, <2>2
      <3>. QED BY <3>1, Fresh
    <2>. QED BY <2>1, <2>2
  <1>5. ASSUME NEW i \in DOMAIN list
        PROVE  \/ list[i].ID \in DOMAIN comps /\ M[list[i].ID] = comps[list[i].ID]
               \/ \E j \in DOMAIN list : list[j].ID = list[i].ID /\ M[list[i].ID].own = list[j]
    <2>1. list[i].ID \in DOMAIN M
      BY <1>1
    <2>. QED BY <1>1, <1>2, <1>4, <2>1
  <1>. QED
    BY <1>1, <1>4, <1>5, Names DEF M, ComponentsOK, MountedFrom

\* The configuration is replaced: components whose key is there are kept.
LEMMA SetConf ==
    ASSUME EditorInv, NEW list, NEW title, setConf(list, title), UNCHANGED <<width, currentTab, file>>,
           ids' \in Nat, ids <= ids', IsForm(list, ids'),
           ~apart' => /\ \A i, j \in DOMAIN list : list[i].ID = list[j].ID => i = j
                      /\ drawn(width, currentTab) =>
                            \A i \in DOMAIN list : list[i].ID \in topLevel =>
                                subject[width][list[i].ID].own = list[i]
    PROVE  EditorInv'
  <1>1. /\ Scaffold' = list
        /\ subject' = [v \in Editors |-> IF drawn(v, currentTab) THEN mounted(subject[v], list) ELSE <<>>]
    BY DEF setConf
  <1>2. topLevel' = Range(namesOf(list))
    BY <1>1 DEF topLevel
  <1>3. IsForm(file, ids')
    BY Weaken DEF EditorInv
  <1>5. PICK n, m : n = ids /\ m = ids'
    OBVIOUS
  <1>6. n \in Int /\ m \in Int /\ n <= m /\ IsForm(list, m)
    BY <1>5 DEF EditorInv
  <1>4. ASSUME NEW v \in Editors PROVE EditorOK(v)'
    <2>1. CASE drawn(v, currentTab)
      <3>0. PICK comps : comps = subject[v]
        OBVIOUS
      <3>1. ComponentsOK(comps, n)
        BY <1>5, <3>0 DEF EditorInv, EditorOK
      <3>2. subject'[v] = mounted(comps, list)
        BY <1>1, <2>1, <3>0
      <3>3. /\ DOMAIN mounted(comps, list) = topLevel'
            /\ ComponentsOK(mounted(comps, list), m)
        BY <1>2, <1>6, <3>1, MountedOK
      <3>. QED BY <1>5, <2>1, <3>2, <3>3 DEF EditorOK, drawn
    <2>2. CASE ~drawn(v, currentTab)
      <3>1. subject'[v] = <<>>
        BY <1>1, <2>2
      <3>. QED BY <2>2, <3>1 DEF EditorOK, ComponentsOK, drawn
    <2>. QED BY <2>1, <2>2
  <1>7. ASSUME ~apart' PROVE Together'
    <2>1. \A i, j \in DOMAIN list : list[i].ID = list[j].ID => i = j
      BY <1>7
    <2>2. ASSUME drawn(width, currentTab), NEW i \in DOMAIN list
          PROVE  subject'[width][list[i].ID].own = list[i]
      <3>0. PICK comps : comps = subject[width]
        OBVIOUS
      <3>1. /\ subject'[width] = mounted(comps, list) /\ DOMAIN comps = topLevel
            /\ ComponentsOK(comps, n)
        BY <1>1, <1>5, <2>2, <3>0 DEF EditorInv, EditorOK
      <3>2. \/ list[i].ID \in DOMAIN comps /\ mounted(comps, list)[list[i].ID] = comps[list[i].ID]
            \/ \E j \in DOMAIN list : /\ list[j].ID = list[i].ID
                                      /\ mounted(comps, list)[list[i].ID].own = list[j]
        <4>1. MountedFrom(mounted(comps, list), comps, list)
          BY <1>6, <3>1, MountedOK
        <4>. QED BY <2>2, <4>1 DEF MountedFrom
      <3>3. CASE list[i].ID \in DOMAIN comps /\ mounted(comps, list)[list[i].ID] = comps[list[i].ID]
        BY <1>7, <2>2, <3>0, <3>1, <3>3
      <3>4. CASE \E j \in DOMAIN list : /\ list[j].ID = list[i].ID
                                        /\ mounted(comps, list)[list[i].ID].own = list[j]
        BY <2>1, <3>1, <3>4
      <3>. QED BY <3>2, <3>3, <3>4
    <2>. QED BY <1>1, <2>1, <2>2 DEF Together, drawn
  <1>. QED
    BY <1>1, <1>3, <1>4, <1>7 DEF EditorInv

\* A list of the page is a sequence.
LEMMA Lists ==
    ASSUME NEW list, NEW n, IsForm(list, n)
    PROVE  /\ list \in Seq({list[i] : i \in DOMAIN list})
           /\ DOMAIN list = 1 .. Len(list) /\ Len(list) \in Nat
  <1>1. DOMAIN list = 1 .. Len(list) /\ Len(list) \in Nat
    BY DEF IsForm
  <1>2. \A i \in 1 .. Len(list) : list[i] \in {list[j] : j \in DOMAIN list}
    BY <1>1
  <1>. QED
    BY <1>1, <1>2, IsASeq DEF IsForm

\* What makes a list a form.
LEMMA MakesForm ==
    ASSUME NEW list, NEW N \in Nat, NEW m, DOMAIN list = 1 .. N, list = [i \in 1 .. N |-> list[i]],
           \A i \in 1 .. N : WholeSubject(list[i], m)
    PROVE  IsForm(list, m)
  <1>1. list \in Seq({list[i] : i \in 1 .. N})
    <2>1. \A i \in 1 .. N : list[i] \in {list[j] : j \in 1 .. N}
      OBVIOUS
    <2>. QED BY <2>1, IsASeq
  <1>2. Len(list) = N
    BY <1>1, LenProperties
  <1>. QED
    BY <1>2 DEF IsForm, WholeSubject

\* A component of the editor that is shown, and the subject of that ID in conf,
\* become s.
LEMMA Changed ==
    ASSUME EditorInv, NEW t \in DOMAIN subject[width], NEW s, s.ID = t, WholeSubject(s, ids'),
           Scaffold' = notifyParent(s), subject' = [subject EXCEPT ![width][t] = component(s)],
           UNCHANGED <<width, currentTab, apart, file>>, ids' \in Nat, ids <= ids'
    PROVE  EditorInv'
  <1>1. PICK n, m : n = ids /\ m = ids'
    OBVIOUS
  <1>2. n \in Int /\ m \in Int /\ n <= m
    BY <1>1 DEF EditorInv
  <1>3. /\ DOMAIN Scaffold = 1 .. Len(Scaffold) /\ Len(Scaffold) \in Nat
        /\ \A i \in DOMAIN Scaffold : WholeSubject(Scaffold[i], n)
    BY <1>1 DEF EditorInv, IsForm, WholeSubject
  <1>4. /\ DOMAIN Scaffold' = DOMAIN Scaffold
        /\ Scaffold' = [i \in 1 .. Len(Scaffold) |-> Scaffold'[i]]
        /\ \A i \in DOMAIN Scaffold :
              \/ Scaffold[i].ID = t /\ Scaffold'[i] = s
              \/ Scaffold'[i] = Scaffold[i]
        /\ \A i \in DOMAIN Scaffold :
              Scaffold[i].ID = t /\ (\A j \in 1 .. i - 1 : Scaffold[j].ID # t) => Scaffold'[i] = s
    BY <1>3 DEF notifyParent
  <1>5. \A i \in DOMAIN Scaffold : Scaffold'[i].ID = Scaffold[i].ID
    BY <1>4
  <1>6. topLevel' = topLevel
    <2>1. namesOf(Scaffold') = namesOf(Scaffold)
      BY <1>4, <1>5 DEF namesOf
    <2>. QED BY <2>1 DEF topLevel
  <1>7. IsForm(Scaffold', m)
    <2>1. \A i \in DOMAIN Scaffold : WholeSubject(Scaffold[i], m)
      BY <1>2, <1>3, Weaken
    <2>2. \A i \in DOMAIN Scaffold : WholeSubject(Scaffold'[i], m)
      BY <1>1, <1>4, <2>1
    <2>. QED BY <1>3, <1>4, <2>2, MakesForm
  <1>8. IsForm(file, m)
    BY <1>1, <1>2, Weaken DEF EditorInv
  <1>9. subject'[width] = [subject[width] EXCEPT ![t] = component(s)]
    <2>1. width \in DOMAIN subject
      BY DEF EditorInv
    <2>. QED BY <2>1, Zenon
  <1>10. ASSUME NEW v \in Editors PROVE EditorOK(v)'
    <2>1. EditorOK(v)
      BY DEF EditorInv
    <2>2. ComponentsOK(subject[v], m)
      BY <1>1, <1>2, <2>1, Weaken DEF EditorOK
    <2>3. CASE v # width
      <3>1. subject'[v] = subject[v]
        BY <2>3 DEF EditorInv
      <3>. QED BY <1>1, <1>6, <2>1, <2>2, <3>1 DEF EditorOK, drawn
    <2>4. CASE v = width
      <3>1. ComponentOK(component(s), t, m)
        BY <1>1, Fresh
      <3>2. ComponentsOK(subject'[v], m) /\ DOMAIN subject'[v] = DOMAIN subject[v]
        BY <1>9, <2>2, <2>4, <3>1 DEF ComponentsOK
      <3>. QED BY <1>1, <1>6, <2>1, <3>2 DEF EditorOK, drawn
    <2>. QED BY <2>3, <2>4
  <1>11. ASSUME ~apart' PROVE Together'
    <2>1. Together
      BY <1>11 DEF EditorInv
    <2>2. \A i, j \in DOMAIN Scaffold : Scaffold'[i].ID = Scaffold'[j].ID => i = j
      BY <1>5, <2>1 DEF Together
    <2>3. ASSUME drawn(width, currentTab), NEW i \in DOMAIN Scaffold
          PROVE  subject'[width][Scaffold[i].ID].own = Scaffold'[i]
      <3>1. Scaffold[i].ID \in DOMAIN subject[width]
        BY <2>3, Names DEF EditorInv, EditorOK, topLevel
      <3>2. CASE Scaffold[i].ID = t
        <4>1. \A j \in 1 .. i - 1 : j \in DOMAIN Scaffold /\ j # i
          BY <1>3
        <4>2. Scaffold'[i] = s
          BY <1>4, <2>1, <3>2, <4>1 DEF Together
        <4>. QED BY <1>9, <3>1, <3>2, <4>2 DEF component
      <3>3. CASE Scaffold[i].ID # t
        BY <1>4, <1>9, <2>1, <2>3, <3>1, <3>3 DEF Together
      <3>. QED BY <3>2, <3>3
    <2>. QED BY <1>4, <1>5, <2>2, <2>3 DEF Together, drawn
  <1>. QED
    BY <1>1, <1>7, <1>8, <1>10, <1>11 DEF EditorInv

-----------------------------------------------------------------------------
(* Changes in a component. *)

\* s is the subject old after an edit: the subjects it holds are those that it
\* held, or are new.
Edited(s, old, m) ==
    /\ IsSubject(s, m) /\ s.ID = old.ID
    /\ \A x \in subjectsIn(s) :
          \/ x \in subjectsIn(old) /\ s.Elements[x] = old.Elements[x]
          \/ x \notin DOMAIN old.Elements /\ IsSubject(s.Elements[x], m)

\* A subject with another state of one that it holds.
LEMMA WithElement ==
    ASSUME NEW m, NEW own, WholeSubject(own, m), NEW x \in subjectsIn(own), NEW s,
           IsSubject(s, m), s.ID = x
    PROVE  /\ WholeSubject(withElement(own, s), m) /\ withElement(own, s).ID = own.ID
           /\ component(withElement(own, s)) =
                 [own |-> withElement(own, s), nested |-> put(component(own).nested, x, s)]
  <1>. DEFINE up == withElement(own, s)
  <1>1. /\ own = [ID |-> own.ID, Type |-> "subject", titled |-> own.titled, Order |-> own.Order,
                  Elements |-> own.Elements]
        /\ x \in DOMAIN own.Elements /\ s.Type = "subject" /\ own.Elements[x].Type = "subject"
    BY DEF WholeSubject, IsSubject, subjectsIn
  <1>2. /\ up = [ID |-> own.ID, Type |-> "subject", titled |-> own.titled, Order |-> own.Order,
                 Elements |-> put(own.Elements, x, s)]
    BY <1>1 DEF withElement
  <1>. HIDE DEF up
  <1>3. /\ DOMAIN up.Elements = DOMAIN own.Elements
        /\ \A e \in DOMAIN own.Elements : up.Elements[e] = IF e = x THEN s ELSE own.Elements[e]
    BY <1>1, <1>2 DEF put
  <1>4. subjectsIn(up) = subjectsIn(own)
    BY <1>1, <1>3 DEF subjectsIn
  <1>5. \A e \in subjectsIn(own) : e \in DOMAIN own.Elements
    BY DEF subjectsIn
  <1>6. IsSubject(up, m)
    BY <1>2, <1>3 DEF WholeSubject, IsSubject
  <1>7. \A e \in subjectsIn(up) : IsSubject(up.Elements[e], m)
    BY <1>3, <1>4, <1>5 DEF WholeSubject
  <1>8. component(up).nested = put(component(own).nested, x, s)
    <2>1. DOMAIN component(own).nested = subjectsIn(own)
      BY DEF component
    <2>2. DOMAIN put(component(own).nested, x, s) = subjectsIn(own)
      BY <2>1 DEF put
    <2>3. \A e \in subjectsIn(own) :
              put(component(own).nested, x, s)[e] = IF e = x THEN s ELSE own.Elements[e]
      BY <2>1 DEF put, component
    <2>4. component(up).nested = [e \in subjectsIn(own) |-> up.Elements[e]]
      BY <1>4 DEF component
    <2>5. put(component(own).nested, x, s) =
              [e \in subjectsIn(own) |-> put(component(own).nested, x, s)[e]]
      BY <2>2 DEF put
    <2>. QED BY <1>3, <1>5, <2>3, <2>4, <2>5
  <1>. QED
    BY <1>2, <1>6, <1>7, <1>8 DEF up, WholeSubject, component

LEMMA ChangeStep ==
    ASSUME EditorInv, NEW t \in DOMAIN subject[width],
           NEW n \in {None} \cup DOMAIN subject[width][t].nested, NEW s,
           Edited(s, stateOf(t, n), ids'), change(t, n, s), ids' \in Nat, ids <= ids'
    PROVE  EditorInv'
  <1>1. PICK own, k, m : own = subject[width][t].own /\ k = ids /\ m = ids'
    OBVIOUS
  <1>2. k \in Int /\ m \in Int /\ k <= m
    BY <1>1 DEF EditorInv
  <1>3. subject[width][t] = component(own) /\ own.ID = t /\ WholeSubject(own, k)
    BY <1>1 DEF EditorInv, EditorOK, ComponentsOK, ComponentOK
  <1>4. WholeSubject(own, m)
    BY <1>2, <1>3, Weaken
  <1>5. /\ component(own).own = own
        /\ component(own).nested = [x \in subjectsIn(own) |-> own.Elements[x]]
    BY DEF component
  <1>6. \A x \in subjectsIn(own) : x \in DOMAIN own.Elements /\ own.Elements[x].ID = x
    BY <1>4 DEF WholeSubject, IsSubject, subjectsIn
  <1>7. CASE n = None
    <2>1. Edited(s, own, m)
      BY <1>1, <1>7 DEF stateOf
    <2>2. WholeSubject(s, m) /\ s.ID = t
      BY <1>3, <1>4, <2>1 DEF Edited, WholeSubject
    <2>3. renested(component(own).nested, s) = component(s).nested
      <3>1. ASSUME NEW x \in subjectsIn(s)
            PROVE  (IF x \in subjectsIn(own) THEN own.Elements[x] ELSE s.Elements[x]) = s.Elements[x]
        BY <1>6, <2>1 DEF Edited
      <3>2. renested(component(own).nested, s) =
                [x \in subjectsIn(s) |-> IF x \in subjectsIn(own) THEN own.Elements[x] ELSE s.Elements[x]]
        BY <1>5 DEF renested
      <3>. QED BY <3>1, <3>2 DEF component
    <2>4. component(s) = [own |-> s, nested |-> renested(component(own).nested, s)]
      BY <2>3 DEF component
    <2>5. /\ Scaffold' = notifyParent(s) /\ subject' = [subject EXCEPT ![width][t] = component(s)]
          /\ UNCHANGED <<width, currentTab, apart, file>>
      BY <1>3, <1>7, <2>4 DEF change, setSubject
    <2>. QED BY <1>1, <2>2, <2>5, Changed
  <1>8. CASE n # None
    <2>1. n \in subjectsIn(own) /\ stateOf(t, n) = own.Elements[n]
      BY <1>3, <1>5, <1>8 DEF stateOf
    <2>2. IsSubject(s, m) /\ s.ID = n
      BY <1>1, <1>6, <2>1 DEF Edited
    <2>3. PICK up : up = withElement(own, s)
      OBVIOUS
    <2>4. /\ WholeSubject(up, m) /\ up.ID = t
          /\ component(up) = [own |-> up, nested |-> put(component(own).nested, n, s)]
      BY <1>3, <1>4, <2>1, <2>2, <2>3, WithElement
    <2>5. /\ Scaffold' = notifyParent(up) /\ subject' = [subject EXCEPT ![width][t] = component(up)]
          /\ UNCHANGED <<width, currentTab, apart, file>>
      BY <1>1, <1>3, <1>8, <2>2, <2>3, <2>4 DEF change, setNested
    <2>. QED BY <1>1, <2>4, <2>5, Changed
  <1>. QED
    BY <1>7, <1>8

\* What a component holds is a subject.
LEMMA StateOK ==
    ASSUME EditorInv, NEW t \in DOMAIN subject[width],
           NEW n \in {None} \cup DOMAIN subject[width][t].nested
    PROVE  IsSubject(stateOf(t, n), ids)
  <1>1. PICK own : own = subject[width][t].own
    OBVIOUS
  <1>2. subject[width][t] = component(own) /\ WholeSubject(own, ids)
    BY <1>1 DEF EditorInv, EditorOK, ComponentsOK, ComponentOK
  <1>3. component(own).own = own /\ component(own).nested = [x \in subjectsIn(own) |-> own.Elements[x]]
    BY DEF component
  <1>4. CASE n = None
    BY <1>1, <1>2, <1>4 DEF stateOf, WholeSubject
  <1>5. CASE n # None
    BY <1>2, <1>3, <1>5 DEF stateOf, WholeSubject
  <1>. QED
    BY <1>4, <1>5

\* Subjects that differ in their title and their order only.
LEMMA EditedFields ==
    ASSUME NEW m, NEW old, NEW s, Edited(s, old, m), NEW b, NEW o
    PROVE  Edited([s EXCEPT !.titled = b], old, m) /\ Edited([s EXCEPT !.Order = o], old, m)
  <1>1. s = [ID |-> s.ID, Type |-> "subject", titled |-> s.titled, Order |-> s.Order,
             Elements |-> s.Elements]
    BY DEF Edited, IsSubject
  <1>2. /\ [s EXCEPT !.titled = b] = [ID |-> s.ID, Type |-> "subject", titled |-> b,
                                      Order |-> s.Order, Elements |-> s.Elements]
        /\ [s EXCEPT !.Order = o] = [ID |-> s.ID, Type |-> "subject", titled |-> s.titled,
                                     Order |-> o, Elements |-> s.Elements]
    BY <1>1
  <1>3. ASSUME NEW r, r = [ID |-> s.ID, Type |-> "subject", titled |-> r.titled,
                           Order |-> r.Order, Elements |-> s.Elements]
        PROVE  Edited(r, old, m)
    <2>1. r.Elements = s.Elements /\ r.ID = s.ID
      BY <1>3
    <2>2. subjectsIn(r) = subjectsIn(s)
      BY <2>1 DEF subjectsIn
    <2>3. IsSubject(r, m)
      BY <1>3, <2>1 DEF Edited, IsSubject
    <2>. QED BY <2>1, <2>2, <2>3 DEF Edited
  <1>. QED
    BY <1>2, <1>3

\* Elements are put into a subject, or taken from it.
LEMMA EditedElements ==
    ASSUME NEW k \in Int, NEW m \in Int, k <= m, NEW old, IsSubject(old, k), NEW elements,
           \A e \in DOMAIN elements :
              \/ e \in DOMAIN old.Elements /\ elements[e] = old.Elements[e]
              \/ /\ e \in Int /\ e <= m /\ elements[e].ID = e
                 /\ \/ elements[e].Type # "subject"
                    \/ e \notin DOMAIN old.Elements /\ IsSubject(elements[e], m)
    PROVE  Edited([old EXCEPT !.Elements = elements], old, m)
  <1>1. old = [ID |-> old.ID, Type |-> "subject", titled |-> old.titled, Order |-> old.Order,
               Elements |-> old.Elements]
    BY DEF IsSubject
  <1>2. PICK s : s = [old EXCEPT !.Elements = elements]
    OBVIOUS
  <1>3. s = [ID |-> old.ID, Type |-> "subject", titled |-> old.titled, Order |-> old.Order,
             Elements |-> elements]
    BY <1>1, <1>2
  <1>4. IsSubject(old, m)
    BY Weaken
  <1>5. IsSubject(s, m)
    BY <1>3, <1>4 DEF IsSubject
  <1>6. s.Elements = elements /\ s.ID = old.ID
    BY <1>3
  <1>7. \A x \in subjectsIn(s) : x \in DOMAIN elements /\ elements[x].Type = "subject"
    BY <1>6 DEF subjectsIn
  <1>8. \A x \in subjectsIn(s) :
          \/ x \in subjectsIn(old) /\ s.Elements[x] = old.Elements[x]
          \/ x \notin DOMAIN old.Elements /\ IsSubject(s.Elements[x], m)
    BY <1>6, <1>7 DEF subjectsIn
  <1>. QED
    BY <1>2, <1>5, <1>6, <1>8 DEF Edited

\* One element is put into a subject, or taken from it.
LEMMA EditedOne ==
    ASSUME NEW k \in Int, NEW m \in Int, k <= m, NEW old, IsSubject(old, k)
    PROVE  /\ Edited(old, old, m)
           /\ \A e : /\ e.ID \in Int /\ e.ID <= m
                     /\ e.Type # "subject" \/ (e.ID \notin DOMAIN old.Elements /\ IsSubject(e, m))
                     => Edited(withElement(old, e), old, m)
           /\ \A x : Edited([old EXCEPT !.Elements = dropped(old.Elements, x)], old, m)
  <1>1. Edited(old, old, m)
    BY Weaken DEF Edited
  <1>2. ASSUME NEW e, e.ID \in Int, e.ID <= m,
               e.Type # "subject" \/ (e.ID \notin DOMAIN old.Elements /\ IsSubject(e, m))
        PROVE  Edited(withElement(old, e), old, m)
    <2>1. PICK elements : elements = put(old.Elements, e.ID, e)
      OBVIOUS
    <2>2. /\ DOMAIN elements = DOMAIN old.Elements \cup {e.ID} /\ elements[e.ID] = e
          /\ \A x \in DOMAIN old.Elements : x # e.ID => elements[x] = old.Elements[x]
      BY <2>1 DEF put
    <2>3. \A x \in DOMAIN elements :
              \/ x \in DOMAIN old.Elements /\ elements[x] = old.Elements[x]
              \/ /\ x \in Int /\ x <= m /\ elements[x].ID = x
                 /\ \/ elements[x].Type # "subject"
                    \/ x \notin DOMAIN old.Elements /\ IsSubject(elements[x], m)
      BY <1>2, <2>2
    <2>. QED BY <2>1, <2>3, EditedElements DEF withElement
  <1>3. ASSUME NEW x PROVE Edited([old EXCEPT !.Elements = dropped(old.Elements, x)], old, m)
    <2>1. PICK elements : elements = dropped(old.Elements, x)
      OBVIOUS
    <2>2. \A e \in DOMAIN elements : e \in DOMAIN old.Elements /\ elements[e] = old.Elements[e]
      BY <2>1 DEF dropped
    <2>. QED BY <2>1, <2>2, EditedElements
  <1>. QED
    BY <1>1, <1>2, <1>3

\* The menu of a component, and the dialogs that it opens.
LEMMA SubjectStep ==
    ASSUME EditorInv, NEW t \in DOMAIN subject[width],
           NEW n \in {None} \cup DOMAIN subject[width][t].nested, SubjectEdits(t, n)
    PROVE  EditorInv'
  <1>1. PICK old, k : old = stateOf(t, n) /\ k = ids
    OBVIOUS
  <1>2. k \in Nat /\ k \in Int /\ IsSubject(old, k)
    BY <1>1, StateOK DEF EditorInv
  <1>3. CASE SubjectTitle(t, n)
    <2>1. PICK b : b = ~old.titled
      OBVIOUS
    <2>2. change(t, n, [old EXCEPT !.titled = b]) /\ ids' = ids
      BY <1>1, <1>3, <2>1 DEF SubjectTitle
    <2>3. Edited([old EXCEPT !.titled = b], old, k)
      <3>1. Edited(old, old, k)
        BY <1>2, EditedOne
      <3>. QED BY <3>1, EditedFields
    <2>. QED BY <1>1, <1>2, <2>2, <2>3, ChangeStep
  <1>4. ASSUME NEW ok, addQuestion(t, n, ok) PROVE EditorInv'
    <2>1. PICK e, s, o, m : /\ e = question(k + 1, ok) /\ s = withElement(old, e)
                            /\ o = Append(s.Order, e.ID) /\ m = k + 1
      OBVIOUS
    <2>2. change(t, n, [s EXCEPT !.Order = o]) /\ ids' = m
      BY <1>1, <1>4, <2>1 DEF addQuestion, added
    <2>3. e.ID = m /\ e.Type # "subject" /\ m \in Int /\ m \in Nat /\ k <= m
      BY <1>2, <2>1 DEF question
    <2>4. Edited(s, old, m)
      BY <1>2, <2>1, <2>3, EditedOne
    <2>5. Edited([s EXCEPT !.Order = o], old, m)
      BY <2>4, EditedFields
    <2>. QED BY <1>1, <2>2, <2>3, <2>5, ChangeStep
  <1>5. ASSUME NEW x \in DOMAIN old.Elements, notifySubject(t, n, x) PROVE EditorInv'
    <2>1. PICK e, s : e = question(x, ~old.Elements[x].valid) /\ s = withElement(old, e)
      OBVIOUS
    <2>2. change(t, n, s) /\ ids' = ids
      BY <1>1, <1>5, <2>1 DEF notifySubject
    <2>3. e.ID = x /\ e.Type # "subject"
      BY <2>1 DEF question
    <2>4. x \in Int /\ x <= k
      BY <1>2, <1>5 DEF IsSubject
    <2>5. Edited(s, old, k)
      BY <1>2, <2>1, <2>3, <2>4, EditedOne
    <2>. QED BY <1>1, <1>2, <2>2, <2>5, ChangeStep
  <1>6. ASSUME NEW x, removeElement(t, n, x) PROVE EditorInv'
    <2>1. PICK s, o : /\ s = [old EXCEPT !.Elements = dropped(old.Elements, x)]
                      /\ o = SelectSeq(old.Order, LAMBDA y : y # x)
      OBVIOUS
    <2>2. old = [ID |-> old.ID, Type |-> "subject", titled |-> old.titled, Order |-> old.Order,
                 Elements |-> old.Elements]
      BY <1>2 DEF IsSubject
    <2>3. removed(old, x) = [s EXCEPT !.Order = o]
      BY <2>1, <2>2 DEF removed
    <2>4. change(t, n, [s EXCEPT !.Order = o]) /\ ids' = ids
      BY <1>1, <1>6, <2>3 DEF removeElement
    <2>5. Edited(s, old, k)
      BY <1>2, <2>1, EditedOne
    <2>6. Edited([s EXCEPT !.Order = o], old, k)
      BY <2>5, EditedFields
    <2>. QED BY <1>1, <1>2, <2>4, <2>6, ChangeStep
  <1>. QED
    BY <1>1, <1>3, <1>4, <1>5, <1>6 DEF SubjectEdits

\* A subject is added to one of the first level.
LEMMA NestedStep ==
    ASSUME EditorInv, NEW t \in DOMAIN subject[width], addNested(t)
    PROVE  EditorInv'
  <1>1. PICK old, k, m, e, s, o :
            /\ old = subject[width][t].own /\ k = ids /\ m = k + 1 /\ e = newSubject(m)
            /\ s = withElement(old, e) /\ o = Append(s.Order, e.ID)
    OBVIOUS
  <1>2. old = stateOf(t, None) /\ change(t, None, [s EXCEPT !.Order = o]) /\ ids' = m
    BY <1>1 DEF addNested, stateOf, change, added
  <1>3. k \in Int /\ m \in Int /\ m \in Nat /\ k <= m /\ IsSubject(old, k)
    BY <1>1, <1>2, StateOK DEF EditorInv
  <1>4. e = [ID |-> m, Type |-> "subject", titled |-> FALSE, Order |-> <<>>,
             Elements |-> [x \in {} |-> None]]
    BY <1>1 DEF newSubject
  <1>5. e.ID = m /\ IsSubject(e, m)
    BY <1>3, <1>4 DEF IsSubject
  <1>6. m \notin DOMAIN old.Elements
    BY <1>1, <1>3 DEF IsSubject
  <1>7. Edited(s, old, m)
    BY <1>1, <1>3, <1>5, <1>6, EditedOne
  <1>8. Edited([s EXCEPT !.Order = o], old, m)
    BY <1>7, EditedFields
  <1>. QED
    BY <1>1, <1>2, <1>3, <1>8, ChangeStep
-----------------------------------------------------------------------------
(* The list changes. *)

\* h enumerates the indexes of a list that were selected.
Enumerates(h, selected, list, I) ==
    /\ Cardinality(I) \in Nat /\ h \in [1 .. Cardinality(I) -> I]
    /\ selected = [k \in 1 .. Cardinality(I) |-> list[h[k]]]
    /\ \A j, k \in 1 .. Cardinality(I) : j # k => h[j] # h[k]

\* elementsAt takes no index twice.
LEMMA ElementsAt ==
    ASSUME NEW list, NEW N \in Nat, NEW I \in SUBSET (1 .. N)
    PROVE  \E h : Enumerates(h, elementsAt(list, I), list, I)
  <1>. DEFINE Below(i) == I \cap 1 .. i
              C == Cardinality(I)
              r == [i \in I |-> Cardinality(Below(i))]
  <1>1. IsFiniteSet(I) /\ C \in Nat
    <2>1. IsFiniteSet(1 .. N) /\ I \in SUBSET (1 .. N)
      BY FS_Interval
    <2>2. IsFiniteSet(I)
      BY <2>1, FS_Subset
    <2>. QED BY <2>2, FS_CardinalityType
  <1>2. \A i \in I : Below(i) \in SUBSET I /\ i \in Below(i)
    OBVIOUS
  <1>3. \A i \in I : IsFiniteSet(Below(i)) /\ Cardinality(Below(i)) \in 1 .. C
    <2>. SUFFICES ASSUME NEW i \in I PROVE IsFiniteSet(Below(i)) /\ Cardinality(Below(i)) \in 1 .. C
      OBVIOUS
    <2>. HIDE DEF Below
    <2>1. IsFiniteSet(Below(i)) /\ Cardinality(Below(i)) <= C
      BY <1>1, <1>2, FS_Subset
    <2>2. Cardinality(Below(i)) \in Nat /\ Cardinality(Below(i)) # 0
      BY <1>2, <2>1, FS_CardinalityType, FS_EmptySet
    <2>. QED BY <1>1, <2>1, <2>2
  <1>4. ASSUME NEW i \in I, NEW j \in I, i < j PROVE Cardinality(Below(i)) # Cardinality(Below(j))
    <2>1. Below(i) \in SUBSET Below(j) /\ j \in Below(j) /\ j \notin Below(i)
      BY <1>4
    <2>. HIDE DEF Below
    <2>. QED BY <1>3, <2>1, FS_Subset
  <1>5. r \in Injection(I, 1 .. C)
    <2>. HIDE DEF Below
    <2>1. r \in [I -> 1 .. C]
      BY <1>3
    <2>2. ASSUME NEW i \in I, NEW j \in I, r[i] = r[j] PROVE i = j
      BY <1>4, <2>2
    <2>. QED BY <2>1, <2>2 DEF Injection, IsInjective
  <1>. HIDE DEF C
  <1>6. r \in Surjection(I, 1 .. C)
    <2>1. IsFiniteSet(1 .. C) /\ Cardinality(1 .. C) = C
      BY <1>1, FS_Interval
    <2>. HIDE DEF r
    <2>. QED BY <1>5, <2>1, FS_Injection DEF C
  <1>. DEFINE h == [k \in 1 .. C |-> CHOOSE i \in I : Cardinality(I \cap 1 .. i) = k]
  <1>7. ASSUME NEW k \in 1 .. C PROVE h[k] \in I /\ r[h[k]] = k
    <2>1. \E i \in I : Cardinality(I \cap 1 .. i) = k
      BY <1>6 DEF Surjection
    <2>. QED BY <2>1
  <1>9. elementsAt(list, I) = [k \in 1 .. C |-> list[h[k]]]
    BY DEF elementsAt, C
  <1>. HIDE DEF h, r
  <1>10. h \in [1 .. C -> I]
    BY <1>7 DEF h
  <1>11. \A j, k \in 1 .. C : j # k => h[j] # h[k]
    BY <1>7
  <1>. QED
    BY <1>1, <1>9, <1>10, <1>11 DEF C, Enumerates

\* A subject is added at the end.
LEMMA AddStep ==
    ASSUME EditorInv, addSubject
    PROVE  EditorInv'
  <1>1. PICK n, new, list :
            n = ids /\ new = newSubject(n + 1) /\ list = Append(Scaffold, new)
    OBVIOUS
  <1>2. /\ n \in Nat /\ n + 1 \in Nat /\ n <= n + 1 /\ ids' = n + 1
        /\ setConf(list, titled) /\ UNCHANGED <<width, currentTab, apart, file>>
    BY <1>1 DEF addSubject, EditorInv
  <1>3. /\ DOMAIN Scaffold = 1 .. Len(Scaffold) /\ Len(Scaffold) \in Nat
        /\ \A i \in DOMAIN Scaffold : WholeSubject(Scaffold[i], n)
    BY <1>1 DEF EditorInv, IsForm, WholeSubject
  <1>4. /\ new.ID = n + 1 /\ WholeSubject(new, n + 1)
    <2>1. new = [ID |-> n + 1, Type |-> "subject", titled |-> FALSE, Order |-> <<>>,
                 Elements |-> [e \in {} |-> None]]
      BY <1>1 DEF newSubject
    <2>. QED BY <1>2, <2>1 DEF WholeSubject, IsSubject, subjectsIn
  <1>5. /\ DOMAIN list = 1 .. (Len(Scaffold) + 1)
        /\ list[Len(Scaffold) + 1] = new
        /\ \A i \in DOMAIN Scaffold : list[i] = Scaffold[i]
        /\ list = [i \in 1 .. (Len(Scaffold) + 1) |-> list[i]]
    <2>. DEFINE S == {Scaffold[i] : i \in DOMAIN Scaffold} \cup {new}
    <2>1. Scaffold \in Seq(S) /\ new \in S
      <3>1. Scaffold \in Seq({Scaffold[i] : i \in DOMAIN Scaffold})
        BY Lists DEF EditorInv
      <3>. QED BY <3>1, SeqMonotonic
    <2>. HIDE DEF S
    <2>2. /\ list \in Seq(S) /\ Len(list) = Len(Scaffold) + 1
          /\ list[Len(Scaffold) + 1] = new
          /\ \A i \in 1 .. Len(Scaffold) : list[i] = Scaffold[i]
      BY <1>1, <2>1, AppendProperties
    <2>3. DOMAIN list = 1 .. Len(list) /\ list = [i \in 1 .. Len(list) |-> list[i]]
      BY <2>2, LenProperties
    <2>. QED BY <1>3, <2>2, <2>3
  <1>6. \A i \in DOMAIN list : i \in DOMAIN Scaffold \/ i = Len(Scaffold) + 1
    BY <1>3, <1>5
  <1>7. IsForm(list, n + 1)
    <2>1. \A i \in DOMAIN Scaffold : WholeSubject(Scaffold[i], n + 1)
      BY <1>2, <1>3, Weaken
    <2>2. \A i \in DOMAIN list : WholeSubject(list[i], n + 1)
      BY <1>4, <1>5, <1>6, <2>1
    <2>3. Len(Scaffold) + 1 \in Nat
      BY <1>3
    <2>. QED BY <1>5, <2>2, <2>3, MakesForm
  <1>8. \A i \in DOMAIN Scaffold : Scaffold[i].ID # n + 1
    BY <1>2, <1>3 DEF WholeSubject, IsSubject
  <1>9. n + 1 \notin topLevel
    BY <1>8, Names DEF topLevel
  <1>10. ASSUME ~apart'
         PROVE  /\ \A i, j \in DOMAIN list : list[i].ID = list[j].ID => i = j
                /\ drawn(width, currentTab) =>
                      \A i \in DOMAIN list : list[i].ID \in topLevel =>
                          subject[width][list[i].ID].own = list[i]
    <2>1. Together
      BY <1>2, <1>10 DEF EditorInv
    <2>2. \A i, j \in DOMAIN list : list[i].ID = list[j].ID => i = j
      BY <1>4, <1>5, <1>6, <1>8, <2>1 DEF Together
    <2>3. \A i \in DOMAIN list : list[i].ID \in topLevel => i \in DOMAIN Scaffold
      BY <1>4, <1>5, <1>6, <1>9
    <2>. QED BY <1>5, <2>1, <2>2, <2>3 DEF Together
  <1>. QED
    BY <1>1, <1>2, <1>7, <1>10, SetConf

\* A subject is removed with its component.
LEMMA FilterStep ==
    ASSUME EditorInv, NEW id, handleConfirmRemoveSubject(id)
    PROVE  EditorInv'
  <1>1. PICK n, I, list : /\ n = ids /\ I = {i \in DOMAIN Scaffold : Scaffold[i].ID # id}
                          /\ list = elementsAt(Scaffold, I)
    OBVIOUS
  <1>2. /\ n \in Nat /\ ids' = n /\ setConf(list, titled) /\ apart' = (apart /\ list # <<>>)
        /\ UNCHANGED <<width, currentTab, file>>
    BY <1>1 DEF handleConfirmRemoveSubject, EditorInv
  <1>3. /\ DOMAIN Scaffold = 1 .. Len(Scaffold) /\ Len(Scaffold) \in Nat
        /\ \A i \in DOMAIN Scaffold : WholeSubject(Scaffold[i], n)
        /\ I \in SUBSET (1 .. Len(Scaffold))
    BY <1>1 DEF EditorInv, IsForm, WholeSubject
  <1>4. PICK h : Enumerates(h, list, Scaffold, I)
    BY <1>1, <1>3, ElementsAt
  <1>5. PICK C \in Nat : C = Cardinality(I)
    BY <1>4 DEF Enumerates
  <1>6. /\ DOMAIN list = 1 .. C /\ list = [k \in 1 .. C |-> list[k]]
        /\ \A k \in 1 .. C : h[k] \in DOMAIN Scaffold /\ list[k] = Scaffold[h[k]]
        /\ \A j, k \in 1 .. C : j # k => h[j] # h[k]
    BY <1>3, <1>4, <1>5 DEF Enumerates
  <1>7. IsForm(list, n)
    <2>1. \A k \in 1 .. C : WholeSubject(list[k], n)
      BY <1>3, <1>6
    <2>. QED BY <1>6, <2>1, MakesForm
  <1>8. ASSUME ~apart'
         PROVE  /\ \A i, j \in DOMAIN list : list[i].ID = list[j].ID => i = j
                /\ drawn(width, currentTab) =>
                      \A i \in DOMAIN list : list[i].ID \in topLevel =>
                          subject[width][list[i].ID].own = list[i]
    <2>1. CASE list = <<>>
      BY <2>1
    <2>2. CASE list # <<>>
      <3>1. Together
        BY <1>2, <1>8, <2>2 DEF EditorInv
      <3>. QED BY <1>6, <3>1 DEF Together
    <2>. QED BY <2>1, <2>2
  <1>. QED
    BY <1>1, <1>2, <1>7, <1>8, SetConf

\* The form is cleared: no component is left.
LEMMA ClearStep ==
    ASSUME EditorInv, emptyConf
    PROVE  EditorInv'
  <1>1. /\ setConf(<<>>, FALSE) /\ ids' = ids /\ ids \in Nat
        /\ UNCHANGED <<width, currentTab, file>>
    BY DEF emptyConf, EditorInv
  <1>2. IsForm(<<>>, ids)
    BY DEF IsForm
  <1>3. PICK list, title : list = <<>> /\ title = FALSE
    OBVIOUS
  <1>4. /\ \A i, j \in DOMAIN list : list[i].ID = list[j].ID => i = j
        /\ drawn(width, currentTab) =>
              \A i \in DOMAIN list : list[i].ID \in topLevel => subject[width][list[i].ID].own = list[i]
    BY <1>3
  <1>5. setConf(list, title)
    BY <1>1, <1>3, Zenon
  <1>6. IsForm(list, ids') /\ ids' \in Nat /\ ids <= ids'
    BY <1>1, <1>2, <1>3
  <1>. QED
    BY <1>1, <1>4, <1>5, <1>6, SetConf

\* A file is taken, or refused.
LEMMA DropStep ==
    ASSUME EditorInv, NEW f \in Files \cup {file}, handleDrop(f)
    PROVE  EditorInv'
  <1>1. IsForm(f, ids) /\ ids \in Nat /\ ids' = ids /\ UNCHANGED <<width, currentTab, file>>
    <2>1. CASE f \in Files
      <3>1. IsForm(f, -1) /\ ids \in Int /\ -1 <= ids /\ -1 \in Int
        BY <2>1, EditorAssumption DEF EditorInv
      <3>2. IsForm(f, ids)
        BY <3>1, Weaken
      <3>. QED BY <3>2 DEF handleDrop, EditorInv
    <2>2. CASE f = file
      BY <2>2 DEF handleDrop, EditorInv
    <2>. QED BY <2>1, <2>2
  <1>2. CASE configurationSchema(f, TRUE)
    <2>0. PICK title : title = TRUE
      OBVIOUS
    <2>1. setConf(f, title)
      BY <1>2, <2>0, Zenon DEF handleDrop
    <2>2. ASSUME ~apart'
          PROVE  /\ \A i, j \in DOMAIN f : f[i].ID = f[j].ID => i = j
                 /\ drawn(width, currentTab) =>
                       \A i \in DOMAIN f : f[i].ID \in topLevel => subject[width][f[i].ID].own = f[i]
      <3>1. topLevel \cap Range(namesOf(f)) = {} /\ IsInjective(namesOf(f))
        BY <1>2, <2>2 DEF handleDrop
      <3>2. \A i, j \in DOMAIN f : f[i].ID = f[j].ID => i = j
        BY <3>1, Names DEF IsInjective
      <3>3. \A i \in DOMAIN f : f[i].ID \notin topLevel
        BY <3>1, Names
      <3>. QED BY <3>2, <3>3
    <2>3. IsForm(f, ids') /\ ids' \in Nat /\ ids <= ids'
      BY <1>1
    <2>. QED BY <1>1, <2>1, <2>2, <2>3, SetConf
  <1>3. CASE ~configurationSchema(f, TRUE)
    <2>1. UNCHANGED <<Scaffold, subject, apart>>
      BY <1>3 DEF handleDrop
    <2>. QED BY <1>1, <2>1 DEF EditorInv, EditorOK, Together, topLevel
  <1>. QED
    BY <1>2, <1>3

\* A small window shows its editor again: it is mounted with conf.
LEMMA TabStep ==
    ASSUME EditorInv, setCurrentTab
    PROVE  EditorInv'
  <1>1. /\ width = "small" /\ width' = width /\ UNCHANGED <<Scaffold, apart, ids, file>>
        /\ currentTab' \in {"formForm", "previewForm"} /\ currentTab' # currentTab
        /\ subject' = [subject EXCEPT !["small"] =
                          IF currentTab = "formForm" THEN <<>> ELSE mounted(<<>>, Scaffold)]
    BY DEF setCurrentTab
  <1>2. DOMAIN subject' = Editors /\ topLevel' = topLevel
    BY <1>1 DEF EditorInv, topLevel
  <1>3. EditorOK("md")'
    <2>1. subject'["md"] = subject["md"] /\ EditorOK("md")
      BY <1>1 DEF EditorInv, Editors
    <2>. QED BY <1>1, <1>2, <2>1 DEF EditorOK, drawn
  <1>4. CASE currentTab = "formForm"
    <2>1. currentTab' # "formForm" /\ subject'["small"] = <<>>
      BY <1>1, <1>4 DEF EditorInv, Editors
    <2>2. EditorOK("small")'
      BY <2>1 DEF EditorOK, ComponentsOK, drawn
    <2>3. Together => Together'
      BY <1>1, <2>1 DEF Together, drawn
    <2>. QED BY <1>1, <1>2, <1>3, <2>2, <2>3 DEF EditorInv, Editors
  <1>5. CASE currentTab # "formForm"
    <2>1. PICK n, comps, list : n = ids /\ comps = <<>> /\ list = Scaffold
      OBVIOUS
    <2>2. currentTab' = "formForm" /\ subject'["small"] = mounted(comps, list)
      BY <1>1, <1>5, <2>1 DEF EditorInv, Editors
    <2>3. n \in Int /\ n <= n /\ IsForm(list, n) /\ DOMAIN comps = {} /\ ComponentsOK(comps, n)
      BY <2>1 DEF EditorInv, ComponentsOK
    <2>4. /\ DOMAIN mounted(comps, list) = Range(namesOf(list))
          /\ ComponentsOK(mounted(comps, list), n)
          /\ MountedFrom(mounted(comps, list), comps, list)
      BY <2>3, MountedOK
    <2>5. EditorOK("small")'
      BY <1>1, <2>1, <2>2, <2>4 DEF EditorOK, drawn, topLevel
    <2>6. Together => Together'
      <3>. SUFFICES ASSUME Together, NEW i \in DOMAIN list
                    PROVE  mounted(comps, list)[list[i].ID].own = list[i]
        BY <1>1, <2>1, <2>2 DEF Together
      <3>1. PICK j \in DOMAIN list :
                list[j].ID = list[i].ID /\ mounted(comps, list)[list[i].ID].own = list[j]
        BY <2>3, <2>4 DEF MountedFrom
      <3>. QED BY <2>1, <3>1 DEF Together
    <2>. QED BY <1>1, <1>2, <1>3, <2>5, <2>6 DEF EditorInv, Editors
  <1>. QED
    BY <1>4, <1>5

\* The other editor is shown: its components have whatever they had.
LEMMA ResizeStep ==
    ASSUME EditorInv, Resize
    PROVE  EditorInv'
  <1>1. /\ width' \in Editors /\ apart' = (Scaffold # <<>>)
        /\ UNCHANGED <<Scaffold, subject, currentTab, ids, file>>
    BY DEF Resize
  <1>2. \A v \in Editors : EditorOK(v)'
    BY <1>1 DEF EditorInv, EditorOK, topLevel
  <1>3. ASSUME ~apart' PROVE Together'
    <2>1. Scaffold = <<>>
      BY <1>1, <1>3, Zenon
    <2>. QED BY <1>1, <2>1 DEF Together
  <1>. QED
    BY <1>1, <1>2, <1>3 DEF EditorInv

\* The page is loaded again.
LEMMA ReloadStep ==
    ASSUME EditorInv, reload
    PROVE  EditorInv'
  <1>1. /\ Scaffold' = <<>> /\ subject' = [v \in Editors |-> <<>>] /\ currentTab' = "formForm"
        /\ UNCHANGED <<width, ids, file>>
    BY DEF reload
  <1>2. topLevel' = {} /\ IsForm(Scaffold', ids)
    BY <1>1, Names DEF topLevel, IsForm
  <1>3. \A v \in Editors : EditorOK(v)'
    BY <1>1, <1>2 DEF EditorOK, ComponentsOK
  <1>4. Together'
    BY <1>1 DEF Together
  <1>. QED
    BY <1>1, <1>2, <1>3, <1>4 DEF EditorInv

-----------------------------------------------------------------------------
(* The steps of the page. *)

LEMMA EditsStep ==
    ASSUME EditorInv, Edits
    PROVE  EditorInv'
  <1>1. ASSUME NEW t \in DOMAIN subject[width],
               \/ addNested(t)
               \/ \E n \in {None} \cup DOMAIN subject[width][t].nested : SubjectEdits(t, n)
        PROVE  EditorInv'
    BY <1>1, NestedStep, SubjectStep
  <1>2. CASE Title
    <2>1. UNCHANGED <<Scaffold, subject, width, currentTab, apart, ids, file>>
      BY <1>2 DEF Title
    <2>. QED BY <2>1 DEF EditorInv, EditorOK, Together, topLevel
  <1>3. CASE clearForm
    BY <1>3, ClearStep DEF clearForm
  <1>. QED
    BY <1>1, <1>2, <1>3, AddStep, FilterStep DEF Edits

\* What an answer, the poll, or the modal does to the form: nothing, or it is
\* cleared, or the page is loaded again.
LEMMA CreationStep ==
    ASSUME EditorInv,
           \/ closeModal
           \/ \E i \in DOMAIN posts : LET p == posts[i] IN
                \/ Answered(p) \/ Accepted(p) \/ Refused(p) \/ Failed(p)
                \/ PollFails(p) \/ Polled(p) \/ PollThrows(p)
    PROVE  EditorInv'
  <1>1. UNCHANGED theForm \/ emptyConf \/ reload
    <2>1. CASE closeModal
      BY <2>1 DEF closeModal
    <2>2. ASSUME NEW p,
                 \/ Answered(p) \/ Accepted(p) \/ Refused(p) \/ Failed(p)
                 \/ PollFails(p) \/ Polled(p) \/ PollThrows(p)
          PROVE  UNCHANGED theForm \/ emptyConf
      BY <2>2 DEF Answered, Accepted, Refused, Failed, PollFails, Polled, PollThrows
    <2>. QED BY <2>1, <2>2
  <1>2. CASE UNCHANGED theForm
    BY <1>2 DEF theForm, EditorInv, EditorOK, Together, topLevel
  <1>. QED
    BY <1>1, <1>2, ClearStep, ReloadStep

-----------------------------------------------------------------------------
(* Theorems *)

\* EditorInv holds in every state of the page, for any number of subjects and
\* questions and any files.
THEOREM EditorHolds == Spec => []EditorInv
  <1>1. Init => EditorInv
    <2>. SUFFICES ASSUME Init PROVE EditorInv
      OBVIOUS
    <2>1. topLevel = {} /\ IsForm(<<>>, ids)
      BY Names DEF Init, topLevel, IsForm
    <2>2. \A v \in Editors : EditorOK(v)
      BY <2>1 DEF Init, EditorOK, ComponentsOK
    <2>. QED BY <2>1, <2>2 DEF Init, EditorInv, Together
  <1>2. EditorInv /\ [Next]_vars => EditorInv'
    <2>. SUFFICES ASSUME EditorInv, [Next]_vars PROVE EditorInv'
      OBVIOUS
    <2>1. CASE Edits
      BY <2>1, EditsStep
    <2>2. CASE exportData
      <3>1. /\ UNCHANGED <<Scaffold, subject, width, currentTab, apart, ids>>
            /\ file' = file \/ file' = Scaffold
        BY <2>2 DEF exportData, marshalConfig
      <3>. QED BY <3>1 DEF EditorInv, EditorOK, Together, topLevel
    <2>3. CASE \E f \in Files \cup {file} : handleDrop(f)
      BY <2>3, DropStep
    <2>4. CASE createHandler
      <3>1. UNCHANGED <<Scaffold, subject, width, currentTab, apart, ids, file>>
        BY <2>4 DEF createHandler
      <3>. QED BY <3>1 DEF EditorInv, EditorOK, Together, topLevel
    <2>5. CASE \/ closeModal
               \/ \E i \in DOMAIN posts : LET p == posts[i] IN
                    \/ Answered(p) \/ Accepted(p) \/ Refused(p) \/ Failed(p)
                    \/ PollFails(p) \/ Polled(p) \/ PollThrows(p)
      BY <2>5, CreationStep
    <2>6. CASE UNCHANGED vars
      BY <2>6 DEF vars, EditorInv, EditorOK, Together, topLevel
    <2>. QED BY <2>1, <2>2, <2>3, <2>4, <2>5, <2>6, TabStep, ResizeStep, ReloadStep DEF Next
  <1>. QED
    BY <1>1, <1>2, PTL DEF Spec

LEMMA CopiesFollow == EditorInv => CopiesAgree
  <1>. SUFFICES ASSUME EditorInv, ~apart, drawn(width, currentTab)
                PROVE  /\ displayed = Scaffold
                       /\ \A t \in topLevel : \A n \in subjectsIn(subject[width][t].own) :
                            subject[width][t].nested[n] = subject[width][t].own.Elements[n]
    BY DEF CopiesAgree
  <1>1. /\ Together /\ DOMAIN subject[width] = topLevel
        /\ \A t \in topLevel : subject[width][t] = component(subject[width][t].own)
    BY DEF EditorInv, EditorOK, ComponentsOK, ComponentOK
  <1>2. displayed = Scaffold
    <2>1. Scaffold = [i \in DOMAIN Scaffold |-> Scaffold[i]]
      BY DEF EditorInv, IsForm
    <2>. QED BY <1>1, <2>1 DEF displayed, Together
  <1>3. ASSUME NEW t \in topLevel, NEW n \in subjectsIn(subject[width][t].own)
        PROVE  subject[width][t].nested[n] = subject[width][t].own.Elements[n]
    <2>1. PICK own : own = subject[width][t].own
      OBVIOUS
    <2>2. component(own).nested = [x \in subjectsIn(own) |-> own.Elements[x]]
      BY DEF component
    <2>. QED BY <1>1, <1>3, <2>1, <2>2
  <1>. QED
    BY <1>2, <1>3

\* Whatever is added, changed, removed, exported, cleared and taken from files in
\* a window that keeps its width, the editor shown has the form that createHandler
\* would send, although the hidden editor has not (notifyParent of FormForm.tsx,
\* localNotifyParent of SubjectComponent.tsx).
THEOREM PageShowsForm == Spec => []CopiesAgree
  BY EditorHolds, CopiesFollow, PTL
=============================================================================
