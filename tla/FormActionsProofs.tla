-------------------------- MODULE FormActionsProofs --------------------------
(***************************************************************************)
(* Theorems about the page of a form, for any number of nodes, requests    *)
(* and visits.                                                             *)
(***************************************************************************)
EXTENDS FormActions, TLAPS

-----------------------------------------------------------------------------
(***************************************************************************)
(* The page goes back to where an action began from many places: the poll, *)
(* a refused request, one whose component is gone, the action that was     *)
(* stored. The invariant says of each that the form has been there.        *)
(***************************************************************************)

\* The form has had the status from which the action k begins.
Begun(k) == From[k] \in visited

FormInv ==
    /\ chain \in visited /\ onChain(chain) \in visited
    /\ "Setup" \in visited /\ "Initial" \in visited

\* What is displayed, and what the page would display after the poll.
ShownInv ==
    /\ status \in visited
    /\ \/ poll = NoPoll
       \/ \E k \in Kinds : Begun(k) /\ poll.prev = From[k] /\ poll.next = To[k]
    /\ ongoing \in Kinds => Begun(ongoing)
    /\ stored \in Kinds => Begun(stored)

\* Requests are for actions that have begun, and so is a dialog. A mounted Action
\* waits for a confirmed request at most once, while its flag is set.
RequestsOK(p, c) ==
    /\ p \in [Requests -> Nat] /\ c \in [Confirmable -> BOOLEAN]
    /\ \A k \in Kinds : p[k] > 0 => Begun(k)
    /\ \A k \in Confirmable : p[k] <= 1 /\ (p[k] = 1 => c[k])

LocalInv ==
    /\ RequestsOK(posts, confirmed)
    /\ orphans \in [Requests -> Nat]
    /\ \A k \in Kinds : orphans[k] > 0 => Begun(k)
    /\ dialog \in Confirmable => Begun(dialog)

PageInv == FormInv /\ ShownInv /\ LocalInv

\* Where actions begin and end
LEMMA Ends ==
    /\ \A k \in Confirmable : k \in Kinds /\ From[k] = "Open"
    /\ \A k \in Kinds : k \in Requests /\ k # "none" /\ k # "addVoters" /\ k # "delete"
    /\ "addVoters" \in Requests /\ "delete" \in Requests
    /\ "addVoters" \notin Confirmable /\ "delete" \notin Confirmable
  BY DEF Confirmable, Kinds, From, Requests

\* A button is there only for what begins at the status on display.
LEMMA Buttons ==
    ASSUME NEW k \in Kinds, getAction[k]
    PROVE  status = From[k]
  <1>1. CASE k = "open"
    BY <1>1 DEF getAction, OpenButton, ActionButton, From
  <1>2. CASE k = "close"
    BY <1>2 DEF getAction, CloseButton, ActionButton, From
  <1>3. CASE k = "cancel"
    BY <1>3 DEF getAction, CancelButton, ActionButton, From
  <1>4. CASE k = "shuffle"
    BY <1>4 DEF getAction, ShuffleButton, ActionButton, From
  <1>5. CASE k = "decrypt"
    BY <1>5 DEF getAction, DecryptButton, ActionButton, From
  <1>6. CASE k = "combine"
    BY <1>6 DEF getAction, CombineButton, ActionButton, From
  <1>. QED
    BY <1>1, <1>2, <1>3, <1>4, <1>5, <1>6 DEF Kinds

\* What is displayed, polled for and stored after a new status and a new action.
LEMMA Becomes ==
    ASSUME PageInv, UNCHANGED visited, NEW s \in visited, NEW a,
           a \in Kinds => Begun(a), become(s, a)
    PROVE  ShownInv'
  <1>1. status' \in visited'
    BY DEF become
  <1>2. ongoing' \in Kinds => Begun(ongoing)'
    BY DEF become, Begun
  <1>3. stored' \in Kinds => Begun(stored)'
    BY Ends DEF become, Begun
  <1>4. \/ poll' = NoPoll
        \/ \E k \in Kinds : From[k] \in visited' /\ poll'.prev = From[k] /\ poll'.next = To[k]
    <2>1. CASE a = ongoing
      BY <2>1 DEF become, PageInv, ShownInv, Begun
    <2>2. CASE a # ongoing /\ a \in Kinds
      BY <2>2 DEF become, pollFormStatus, Begun
    <2>3. CASE a # ongoing /\ a \notin Kinds
      BY <2>3 DEF become
    <2>. QED BY <2>1, <2>2, <2>3
  <1>. QED
    BY <1>1, <1>2, <1>3, <1>4 DEF ShownInv, Begun

LEMMA ShownSame ==
    ASSUME PageInv, UNCHANGED shown, visited \subseteq visited'
    PROVE  ShownInv'
  BY DEF PageInv, ShownInv, shown, Begun

LEMMA FormSame ==
    ASSUME PageInv, UNCHANGED form
    PROVE  FormInv' /\ UNCHANGED visited
  BY DEF PageInv, FormInv, form, onChain

LEMMA LocalSame ==
    ASSUME PageInv, UNCHANGED <<posts, orphans, confirmed>>, visited \subseteq visited',
           dialog' \in Confirmable => Begun(dialog)'
    PROVE  LocalInv'
  BY DEF PageInv, LocalInv, RequestsOK, Begun

\* A request is sent. One that is confirmed is sent when its flag was not set.
LEMMA Sends ==
    ASSUME PageInv, NEW r \in Requests, send(r), r \in Kinds => Begun(r),
           \/ r \notin Confirmable /\ UNCHANGED confirmed
           \/ r \in Confirmable /\ ~confirmed[r] /\ confirmed' = [confirmed EXCEPT ![r] = TRUE],
           UNCHANGED <<visited, orphans>>, dialog' \in {dialog, "none"}
    PROVE  LocalInv'
  <1>1. posts' = [posts EXCEPT ![r] = posts[r] + 1]
    BY DEF send
  <1>2. posts \in [Requests -> Nat] /\ confirmed \in [Confirmable -> BOOLEAN]
    BY DEF PageInv, LocalInv, RequestsOK
  <1>3. posts' \in [Requests -> Nat] /\ confirmed' \in [Confirmable -> BOOLEAN]
    <2>1. posts' \in [Requests -> Nat]
      BY <1>1, <1>2
    <2>2. CASE r \notin Confirmable
      BY <1>2, <2>1, <2>2
    <2>3. CASE r \in Confirmable
      BY <1>2, <2>1, <2>3
    <2>. QED BY <2>2, <2>3
  <1>4. \A k \in Kinds : posts'[k] > 0 => Begun(k)'
    BY <1>1, <1>2, Ends DEF PageInv, LocalInv, RequestsOK, Begun
  <1>5. ASSUME NEW k \in Confirmable
        PROVE  posts'[k] <= 1 /\ (posts'[k] = 1 => confirmed'[k])
    <2>1. k \in Requests /\ posts[k] \in Nat /\ posts[k] <= 1 /\ (posts[k] = 1 => confirmed[k])
      BY <1>2, Ends DEF PageInv, LocalInv, RequestsOK
    <2>2. CASE k = r
      <3>1. posts[k] = 0
        BY <2>1, <2>2
      <3>. QED BY <1>1, <1>2, <2>1, <2>2, <3>1
    <2>3. CASE k # r
      BY <1>1, <1>2, <2>1, <2>3
    <2>. QED BY <2>2, <2>3
  <1>6. \A k \in Kinds : orphans'[k] > 0 => Begun(k)'
    BY DEF PageInv, LocalInv, Begun
  <1>7. dialog' \in Confirmable => Begun(dialog)'
    BY Ends DEF PageInv, LocalInv, Begun, Confirmable
  <1>. QED
    BY <1>3, <1>4, <1>5, <1>6, <1>7 DEF PageInv, LocalInv, RequestsOK

\* After an answer there is one request less, and its flag may be reset.
LEMMA AnsweredOK ==
    ASSUME PageInv, NEW r \in Requests, posts[r] > 0
    PROVE  RequestsOK(answered(r), unconfirmed(r)) /\ RequestsOK(answered(r), confirmed)
  <1>1. /\ posts \in [Requests -> Nat] /\ confirmed \in [Confirmable -> BOOLEAN]
        /\ \A k \in Kinds : posts[k] > 0 => Begun(k)
        /\ \A k \in Confirmable : posts[k] <= 1 /\ (posts[k] = 1 => confirmed[k])
    BY DEF PageInv, LocalInv, RequestsOK
  <1>2. answered(r) = [posts EXCEPT ![r] = posts[r] - 1]
    BY DEF answered
  <1>3. answered(r) \in [Requests -> Nat]
    BY <1>1, <1>2
  <1>4. \A k \in Requests : answered(r)[k] = IF k = r THEN posts[k] - 1 ELSE posts[k]
    BY <1>1, <1>2
  <1>5. \A k \in Kinds : answered(r)[k] > 0 => Begun(k)
    BY <1>1, <1>4, Ends
  <1>6. unconfirmed(r) \in [Confirmable -> BOOLEAN]
    <2>1. \A k \in Confirmable : (confirmed[k] /\ k # r) \in BOOLEAN
      BY Zenon
    <2>. QED BY <2>1 DEF unconfirmed
  <1>7. ASSUME NEW k \in Confirmable
        PROVE  /\ answered(r)[k] <= 1
               /\ answered(r)[k] = 1 => confirmed[k] /\ k # r
    BY <1>1, <1>4, Ends
  <1>8. ASSUME NEW k \in Confirmable, answered(r)[k] = 1
        PROVE  unconfirmed(r)[k]
    BY <1>7, <1>8 DEF unconfirmed
  <1>. QED
    BY <1>1, <1>3, <1>5, <1>6, <1>7, <1>8 DEF RequestsOK

\* The component keeps its requests p and flags c, or is gone and leaves them behind.
LEMMA Keeps ==
    ASSUME PageInv, NEW p, NEW c, RequestsOK(p, c), keep(p, c), UNCHANGED visited
    PROVE  LocalInv'
  <1>0. /\ p \in [Requests -> Nat] /\ \A k \in Kinds : p[k] > 0 => Begun(k)
    BY DEF RequestsOK
  <1>1. CASE unmounts
    <2>1. /\ posts' = NoRequests /\ orphans' = [r \in Requests |-> orphans[r] + p[r]]
          /\ confirmed' = [k \in Confirmable |-> FALSE] /\ dialog' = "none"
      BY <1>1 DEF keep
    <2>2. /\ posts' \in [Requests -> Nat] /\ \A r \in Requests : posts'[r] = 0
      BY <2>1 DEF NoRequests
    <2>3. RequestsOK(posts, confirmed)'
      BY <2>1, <2>2, Ends DEF RequestsOK
    <2>4. orphans \in [Requests -> Nat] /\ \A k \in Kinds : orphans[k] > 0 => Begun(k)
      BY DEF PageInv, LocalInv
    <2>5. orphans' \in [Requests -> Nat] /\ \A k \in Kinds : orphans'[k] > 0 => Begun(k)
      BY <1>0, <2>1, <2>4, Ends
    <2>. QED
      BY <2>1, <2>3, <2>5 DEF LocalInv, Begun, Confirmable
  <1>2. CASE ~unmounts
    <2>1. posts' = p /\ confirmed' = c /\ UNCHANGED <<orphans, dialog>>
      BY <1>2 DEF keep
    <2>. QED
      BY <2>1 DEF PageInv, LocalInv, RequestsOK, Begun
  <1>. QED
    BY <1>1, <1>2

-----------------------------------------------------------------------------
(* Every step keeps the invariant. *)

LEMMA UserSteps ==
    ASSUME PageInv, User
    PROVE  PageInv'
  <1>0. status \in visited /\ FormInv
    BY DEF PageInv, ShownInv
  <1>1. ASSUME Visit PROVE PageInv'
    <2>1. FormInv' /\ UNCHANGED visited
      BY <1>1, FormSame DEF Visit
    <2>2. LocalInv'
      <3>1. UNCHANGED <<posts, orphans, confirmed, dialog>>
        BY <1>1 DEF Visit, local
      <3>2. dialog' \in Confirmable => Begun(dialog)'
        BY <2>1, <3>1 DEF PageInv, LocalInv, Begun
      <3>. QED BY <2>1, <3>1, <3>2, LocalSame
    <2>3. stored \in Kinds => Begun(stored)
      BY DEF PageInv, ShownInv
    <2>4. ShownInv'
      <3>1. status' \in visited'
        BY <1>0, <1>1, <2>1 DEF Visit, FormInv
      <3>2. \/ poll' = NoPoll
            \/ \E k \in Kinds : /\ From[k] \in visited' /\ poll'.prev = From[k]
                                /\ poll'.next = To[k]
        BY <1>1, <2>1, <2>3 DEF Visit, pollFormStatus, Begun
      <3>3. /\ ongoing' \in Kinds => Begun(ongoing)'
            /\ stored' \in Kinds => Begun(stored)'
        BY <1>1, <2>1, <2>3, Ends DEF Visit, Begun
      <3>. QED BY <3>1, <3>2, <3>3 DEF ShownInv, Begun
    <2>. QED BY <2>1, <2>2, <2>4 DEF PageInv
  <1>2. ASSUME Leave PROVE PageInv'
    <2>1. FormInv' /\ UNCHANGED visited
      BY <1>2, FormSame DEF Leave
    <2>2. ShownInv'
      <3>1. UNCHANGED stored /\ status' = "Initial" /\ ongoing' = "none" /\ poll' = NoPoll
        BY <1>2 DEF Leave
      <3>. QED BY <1>0, <2>1, <3>1, Ends DEF PageInv, ShownInv, FormInv, Begun
    <2>3. LocalInv'
      <3>1. /\ posts' = NoRequests /\ orphans' = NoRequests
            /\ confirmed' = [k \in Confirmable |-> FALSE] /\ dialog' = "none"
        BY <1>2 DEF Leave
      <3>2. NoRequests \in [Requests -> Nat] /\ \A r \in Requests : NoRequests[r] = 0
        BY DEF NoRequests
      <3>3. RequestsOK(posts, confirmed)'
        BY <3>1, <3>2, Ends DEF RequestsOK
      <3>. QED BY <3>1, <3>2, <3>3, Ends DEF LocalInv, Begun
    <2>. QED BY <2>1, <2>2, <2>3 DEF PageInv
  <1>3. ASSUME CloseDialog \/ \E d \in Requests : OpenDialog(d) PROVE PageInv'
    <2>1. UNCHANGED <<form, shown, posts, orphans, confirmed>>
      BY <1>3 DEF CloseDialog, OpenDialog
    <2>2. FormInv' /\ UNCHANGED visited
      BY <2>1, FormSame
    <2>3. ShownInv'
      BY <2>1, <2>2, ShownSame
    <2>4. dialog' \in Confirmable => Begun(dialog)'
      <3>1. CASE CloseDialog
        BY <3>1, Ends DEF CloseDialog, leaveDialog
      <3>2. ASSUME NEW d \in Requests, OpenDialog(d), dialog' \in Confirmable
            PROVE  Begun(dialog)'
        <4>1. dialog' = d /\ getAction[d] /\ d \in Kinds
          BY <3>2, Ends DEF OpenDialog
        <4>2. status = From[d]
          BY <4>1, Buttons
        <4>. QED BY <1>0, <2>2, <4>1, <4>2 DEF Begun
      <3>. QED BY <1>3, <3>1, <3>2
    <2>5. LocalInv'
      BY <2>1, <2>2, <2>4, LocalSame
    <2>. QED BY <2>2, <2>3, <2>5 DEF PageInv
  <1>4. ASSUME ConfirmDelete PROVE PageInv'
    <2>1. UNCHANGED <<form, shown, orphans, confirmed>> /\ send("delete") /\ dialog' = "none"
      BY <1>4 DEF ConfirmDelete, leaveDialog
    <2>2. FormInv' /\ UNCHANGED visited
      BY <2>1, FormSame
    <2>3. ShownInv'
      BY <2>1, <2>2, ShownSame
    <2>4. LocalInv'
      BY <2>1, <2>2, Sends, Ends
    <2>. QED BY <2>2, <2>3, <2>4 DEF PageInv
  <1>5. ASSUME NEW k \in Kinds, Handle(k) PROVE PageInv'
    <2>1. /\ UNCHANGED <<form, orphans, confirmed, dialog>> /\ send(k) /\ become(status, k)
          /\ k \notin Confirmable /\ getAction[k]
      BY <1>5 DEF Handle
    <2>2. FormInv' /\ UNCHANGED visited
      BY <2>1, FormSame
    <2>3. Begun(k)
      BY <1>0, <2>1, Buttons DEF Begun
    <2>4. ShownInv'
      BY <1>0, <2>1, <2>2, <2>3, Becomes
    <2>5. LocalInv'
      BY <2>1, <2>2, <2>3, Sends, Ends
    <2>. QED BY <2>2, <2>4, <2>5 DEF PageInv
  <1>6. ASSUME NEW k \in Kinds, Confirm(k) PROVE PageInv'
    <2>1. /\ UNCHANGED <<form, orphans>> /\ k \in Confirmable /\ dialog = k /\ dialog' = "none"
      BY <1>6 DEF Confirm, leaveDialog
    <2>2. FormInv' /\ UNCHANGED visited
      BY <2>1, FormSame
    <2>3. Begun(k)
      BY <2>1 DEF PageInv, LocalInv
    <2>4. CASE /\ ~confirmed[k] /\ confirmed' = [confirmed EXCEPT ![k] = TRUE]
               /\ become(status, k) /\ send(k)
      <3>1. ShownInv'
        BY <1>0, <2>2, <2>3, <2>4, Becomes
      <3>2. LocalInv'
        BY <2>1, <2>2, <2>3, <2>4, Sends, Ends
      <3>. QED BY <2>2, <3>1, <3>2 DEF PageInv
    <2>5. CASE UNCHANGED <<confirmed, shown, posts>>
      <3>1. ShownInv'
        BY <2>2, <2>5, ShownSame
      <3>2. LocalInv'
        BY <2>1, <2>2, <2>5, LocalSame, Ends
      <3>. QED BY <2>2, <3>1, <3>2 DEF PageInv
    <2>. QED BY <1>6, <2>4, <2>5 DEF Confirm
  <1>7. ASSUME NEW b \in BOOLEAN, ConfirmAddVoters(b) PROVE PageInv'
    <2>1. UNCHANGED <<form, orphans, confirmed>> /\ dialog' = "none"
      BY <1>7 DEF ConfirmAddVoters, leaveDialog
    <2>2. FormInv' /\ UNCHANGED visited
      BY <2>1, FormSame
    <2>3. CASE become(status, "addVoters") /\ send("addVoters")
      <3>1. ShownInv'
        BY <1>0, <2>2, <2>3, Becomes, Ends
      <3>2. LocalInv'
        BY <2>1, <2>2, <2>3, Sends, Ends
      <3>. QED BY <2>2, <3>1, <3>2 DEF PageInv
    <2>4. CASE UNCHANGED <<shown, posts>>
      <3>1. ShownInv'
        BY <2>2, <2>4, ShownSame
      <3>2. LocalInv'
        BY <2>1, <2>2, <2>4, LocalSame, Ends
      <3>. QED BY <2>2, <3>1, <3>2 DEF PageInv
    <2>. QED BY <1>7, <2>3, <2>4 DEF ConfirmAddVoters
  <1>. QED
    BY <1>1, <1>2, <1>3, <1>4, <1>5, <1>6, <1>7 DEF User

\* What the page learns of the form and of its nodes, and the poll.
LEMMA LoadingSteps ==
    ASSUME PageInv, Loading \/ TransactionPollThrows \/ PollAgain
    PROVE  PageInv'
  <1>0. status \in visited /\ FormInv
    BY DEF PageInv, ShownInv
  <1>1. UNCHANGED form /\ UNCHANGED local
    BY DEF Loading, AddressKnown, RowLoaded, NodeIsSetup, GetResults, TransactionPollThrows,
           PollAgain
  <1>2. FormInv' /\ UNCHANGED visited
    BY <1>1, FormSame
  <1>3. LocalInv'
    <2>1. UNCHANGED <<posts, orphans, confirmed, dialog>>
      BY <1>1 DEF local
    <2>2. dialog' \in Confirmable => Begun(dialog)'
      BY <1>2, <2>1 DEF PageInv, LocalInv, Begun
    <2>. QED BY <1>2, <2>1, <2>2, LocalSame
  <1>4. ShownInv'
    <2>1. CASE UNCHANGED shown
      BY <1>2, <2>1, ShownSame
    <2>2. CASE become(status, "none")
      BY <1>0, <1>2, <2>2, Becomes, Ends
    <2>3. CASE become("Setup", ongoing)
      <3>1. ongoing \in Kinds => Begun(ongoing)
        BY DEF PageInv, ShownInv
      <3>. QED BY <1>0, <1>2, <2>3, <3>1, Becomes DEF FormInv
    <2>4. CASE AddressKnown \/ PollAgain
      <3>1. /\ UNCHANGED <<status, ongoing, stored>>
            /\ poll' = poll \/ \E i : poll' = [poll EXCEPT !.attempts = i] /\ polling
        BY <2>4 DEF AddressKnown, PollAgain
      <3>2. \/ poll' = NoPoll
            \/ \E k \in Kinds : /\ From[k] \in visited' /\ poll'.prev = From[k]
                                /\ poll'.next = To[k]
        <4>1. CASE poll' = poll
          BY <1>2, <4>1 DEF PageInv, ShownInv, Begun
        <4>2. CASE poll' # poll
          <5>1. PICK k \in Kinds : Begun(k) /\ poll.prev = From[k] /\ poll.next = To[k]
            BY <3>1, <4>2 DEF PageInv, ShownInv, polling
          <5>2. PICK i : poll' = [poll EXCEPT !.attempts = i]
            BY <3>1, <4>2
          <5>. QED BY <1>2, <5>1, <5>2 DEF Begun
        <4>. QED BY <4>1, <4>2
      <3>. QED BY <1>2, <3>1, <3>2 DEF PageInv, ShownInv, Begun
    <2>. QED
      BY <2>1, <2>2, <2>3, <2>4
      DEF Loading, AddressKnown, RowLoaded, NodeIsSetup, GetResults, TransactionPollThrows
  <1>. QED
    BY <1>2, <1>3, <1>4 DEF PageInv

\* Answers that come in time, late, or for a component that is gone.
LEMMA AnswerSteps ==
    ASSUME PageInv, Answers
    PROVE  PageInv'
  <1>0. /\ status \in visited
        /\ RequestsOK(posts, confirmed)
    BY DEF PageInv, ShownInv, LocalInv
  <1>1. ASSUME NEW r \in Requests, posts[r] > 0, UNCHANGED <<form, shown, orphans, dialog>>,
               posts' = answered(r), confirmed' = unconfirmed(r) \/ UNCHANGED confirmed
        PROVE  PageInv'
    <2>1. FormInv' /\ UNCHANGED visited
      BY <1>1, FormSame
    <2>2. ShownInv'
      BY <1>1, <2>1, ShownSame
    <2>3. RequestsOK(answered(r), unconfirmed(r)) /\ RequestsOK(answered(r), confirmed)
      BY <1>1, AnsweredOK
    <2>4. LocalInv'
      BY <1>1, <2>1, <2>3 DEF PageInv, LocalInv, RequestsOK, Begun
    <2>. QED BY <2>1, <2>2, <2>4 DEF PageInv
  <1>2. ASSUME NEW k \in Kinds, Accepted(k) \/ AnswerLost(k) PROVE PageInv'
    BY <1>1, <1>2, Ends DEF Accepted, AnswerLost
  <1>3. ASSUME DeleteAnswered PROVE PageInv'
    BY <1>1, <1>3, Ends DEF DeleteAnswered
  <1>4. ASSUME NEW k \in Kinds, Refused(k) PROVE PageInv'
    <2>1. /\ UNCHANGED form /\ posts[k] > 0
          /\ become(From[k], "none") /\ keep(answered(k), unconfirmed(k))
      BY <1>4 DEF Refused
    <2>2. FormInv' /\ UNCHANGED visited
      BY <2>1, FormSame
    <2>3. From[k] \in visited
      BY <1>0, <2>1 DEF RequestsOK, Begun
    <2>4. ShownInv'
      BY <2>1, <2>2, <2>3, Becomes, Ends
    <2>5. RequestsOK(answered(k), unconfirmed(k))
      BY <2>1, AnsweredOK, Ends
    <2>6. LocalInv'
      BY <2>1, <2>2, <2>5, Keeps
    <2>. QED BY <2>2, <2>4, <2>6 DEF PageInv
  <1>5. ASSUME NEW b \in BOOLEAN, VotersAdded(b) PROVE PageInv'
    <2>1. /\ UNCHANGED form /\ posts["addVoters"] > 0 /\ become(status, "none")
          /\ keep(answered("addVoters"), confirmed)
      BY <1>5 DEF VotersAdded
    <2>2. FormInv' /\ UNCHANGED visited
      BY <2>1, FormSame
    <2>3. ShownInv'
      BY <1>0, <2>1, <2>2, Becomes, Ends
    <2>4. RequestsOK(answered("addVoters"), confirmed)
      BY <2>1, AnsweredOK, Ends
    <2>5. LocalInv'
      BY <2>1, <2>2, <2>4, Keeps
    <2>. QED BY <2>2, <2>3, <2>5 DEF PageInv
  <1>6. ASSUME NEW r \in Requests, NEW b \in BOOLEAN, OrphanAnswered(r, b) PROVE PageInv'
    <2>1. /\ UNCHANGED <<form, posts, confirmed, dialog>> /\ orphans[r] > 0
          /\ orphans' = [orphans EXCEPT ![r] = orphans[r] - 1]
      BY <1>6 DEF OrphanAnswered
    <2>2. FormInv' /\ UNCHANGED visited
      BY <2>1, FormSame
    <2>3. orphans \in [Requests -> Nat] /\ \A k \in Kinds : orphans[k] > 0 => Begun(k)
      BY DEF PageInv, LocalInv
    <2>4. orphans' \in [Requests -> Nat] /\ \A k \in Kinds : orphans'[k] > 0 => Begun(k)
      BY <2>1, <2>3, Ends
    <2>5. LocalInv'
      BY <2>1, <2>2, <2>4 DEF PageInv, LocalInv, RequestsOK, Begun
    <2>6. CASE r \in Kinds /\ become(From[r], "none")
      <3>1. From[r] \in visited
        BY <2>1, <2>3, <2>6 DEF Begun
      <3>2. ShownInv'
        BY <2>2, <2>6, <3>1, Becomes, Ends
      <3>. QED BY <2>2, <2>5, <3>2 DEF PageInv
    <2>7. CASE become(status, "none")
      <3>1. ShownInv'
        BY <1>0, <2>2, <2>7, Becomes, Ends
      <3>. QED BY <2>2, <2>5, <3>1 DEF PageInv
    <2>8. CASE UNCHANGED shown
      <3>1. ShownInv'
        BY <2>2, <2>8, ShownSame
      <3>. QED BY <2>2, <2>5, <3>1 DEF PageInv
    <2>. QED BY <1>6, <2>6, <2>7, <2>8 DEF OrphanAnswered
  <1>. QED
    BY <1>2, <1>3, <1>4, <1>5, <1>6, LoadingSteps DEF Answers

LEMMA PollSteps ==
    ASSUME PageInv, Poll
    PROVE  PageInv'
  <1>1. RequestsOK(posts, confirmed)
    BY DEF PageInv, LocalInv
  <1>2. CASE PollMatches \/ PollRejected
    <2>1. UNCHANGED form /\ polling /\ keep(posts, confirmed)
      BY <1>2 DEF PollMatches, PollRejected
    <2>2. FormInv' /\ UNCHANGED visited
      BY <2>1, FormSame
    <2>3. LocalInv'
      BY <1>1, <2>1, <2>2, Keeps
    <2>4. PICK s \in visited : become(s, "none")
      <3>1. CASE PollMatches
        BY <3>1 DEF PollMatches, PageInv, FormInv
      <3>2. CASE PollRejected
        BY <2>1, <3>2 DEF PollRejected, PageInv, ShownInv, Begun, polling
      <3>. QED BY <1>2, <3>1, <3>2
    <2>5. ShownInv'
      BY <2>2, <2>4, Becomes, Ends
    <2>. QED BY <2>2, <2>3, <2>5 DEF PageInv
  <1>3. CASE PollAgain
    BY <1>3, LoadingSteps
  <1>. QED
    BY <1>2, <1>3 DEF Poll

LEMMA ChainSteps ==
    ASSUME PageInv, NEW k \in Kinds, ChainMoves(k)
    PROVE  PageInv'
  <1>1. /\ UNCHANGED <<shown, local>> /\ chain' = To[k] /\ visited' = visited \cup {To[k]}
    BY DEF ChainMoves
  <1>2. To[k] # "Setup"
    BY DEF Kinds, To
  <1>3. FormInv'
    BY <1>1, <1>2 DEF PageInv, FormInv, onChain
  <1>4. ShownInv'
    BY <1>1, ShownSame
  <1>5. LocalInv'
    <2>1. UNCHANGED <<posts, orphans, confirmed, dialog>>
      BY <1>1 DEF local
    <2>2. dialog' \in Confirmable => Begun(dialog)'
      BY <1>1, <2>1 DEF PageInv, LocalInv, Begun
    <2>. QED BY <1>1, <2>1, <2>2, LocalSame
  <1>. QED
    BY <1>3, <1>4, <1>5 DEF PageInv

-----------------------------------------------------------------------------
(* Theorems *)

\* PageInv holds in every state of the page.
THEOREM PageHolds == Spec => []PageInv
  <1>1. Init => PageInv
    <2>. SUFFICES ASSUME Init PROVE PageInv
      OBVIOUS
    <2>1. FormInv /\ ShownInv
      BY Ends DEF Init, FormInv, ShownInv, onChain
    <2>2. NoRequests \in [Requests -> Nat] /\ \A r \in Requests : NoRequests[r] = 0
      BY DEF NoRequests
    <2>3. LocalInv
      BY <2>2, Ends DEF Init, LocalInv, RequestsOK
    <2>. QED BY <2>1, <2>3 DEF PageInv
  <1>2. PageInv /\ [Next]_vars => PageInv'
    <2>. SUFFICES ASSUME PageInv, [Next]_vars PROVE PageInv'
      OBVIOUS
    <2>1. CASE UNCHANGED vars
      <3>1. UNCHANGED <<form, shown, posts, orphans, confirmed, dialog>>
        BY <2>1 DEF vars, local
      <3>2. FormInv' /\ UNCHANGED visited
        BY <3>1, FormSame
      <3>3. ShownInv'
        BY <3>1, <3>2, ShownSame
      <3>4. dialog' \in Confirmable => Begun(dialog)'
        BY <3>1, <3>2 DEF PageInv, LocalInv, Begun
      <3>5. LocalInv'
        BY <3>1, <3>2, <3>4, LocalSame
      <3>. QED BY <3>2, <3>3, <3>5 DEF PageInv
    <2>. QED
      BY <2>1, UserSteps, LoadingSteps, AnswerSteps, PollSteps, ChainSteps DEF Next
  <1>. QED
    BY <1>1, <1>2, PTL DEF Spec

\* The page never displays a status that the form has not had, nor would go
\* back to one (onFullFilled, onRejected and the handlers of useChangeAction.tsx).
THEOREM StatusNotAhead == Spec => []NeverAhead
  <1>1. PageInv => NeverAhead
    BY DEF PageInv, ShownInv, NeverAhead, polling, Begun
  <1>. QED
    BY <1>1, PageHolds, PTL

-----------------------------------------------------------------------------
(***************************************************************************)
(* Requests left behind. An Action is unmounted only while rows load, and  *)
(* none is mounted again before they have loaded, after which nothing      *)
(* unmounts it: so there are two of them in a visit at most, and only the  *)
(* first one leaves requests.                                              *)
(***************************************************************************)

Idle(p) == \A r \in Requests : p[r] = 0

ActionInv ==
    /\ rows \in Nat /\ addresses \in Nat
    /\ page # "show" => rows = 0
    /\ ~mounted => Idle(posts) /\ dialog = "none"
    /\ page # "show" \/ (rows > 0 /\ ongoing # "none") => Idle(orphans)
    /\ \A k \in Confirmable : orphans[k] <= 1

\* Nothing but the requests and the dialog of a mounted Action changes.
LEMMA MountedSteps ==
    ASSUME ActionInv, mounted, UNCHANGED <<rows, addresses, page, orphans>>,
           ongoing' = ongoing \/ ongoing' # "none"
    PROVE  ActionInv'
  BY DEF ActionInv, mounted, Idle

\* Requests are answered, and nothing else changes but the dialog that is closed.
LEMMA FewerRequests ==
    ASSUME PageInv, ActionInv, UNCHANGED <<rows, addresses, page, ongoing, orphans>>,
           dialog' \in {dialog, "none"}, NEW r \in Requests, posts[r] > 0, posts' = answered(r)
    PROVE  ActionInv'
  <1>1. mounted
    BY DEF ActionInv, Idle
  <1>. QED
    BY <1>1, MountedSteps

\* The action under way ends.
LEMMA ActionEnds ==
    ASSUME PageInv, ActionInv, NEW p, NEW c, p \in [Requests -> Nat],
           \A r \in Requests : p[r] <= posts[r],
           keep(p, c), ongoing' = "none", UNCHANGED <<rows, addresses, page>>
    PROVE  ActionInv'
  <1>1. posts \in [Requests -> Nat] /\ orphans \in [Requests -> Nat]
    BY DEF PageInv, LocalInv, RequestsOK
  <1>2. CASE rows > 0
    <2>1. /\ posts' = NoRequests /\ orphans' = [r \in Requests |-> orphans[r] + p[r]]
          /\ dialog' = "none" /\ page = "show"
      BY <1>2 DEF keep, unmounts, ActionInv
    <2>2. Idle(posts)'
      BY <2>1 DEF Idle, NoRequests
    <2>3. ASSUME NEW k \in Confirmable PROVE orphans'[k] <= 1
      <3>1. k \in Requests /\ posts[k] \in Nat /\ orphans[k] \in Nat /\ p[k] \in Nat
        BY <1>1, Ends
      <3>2. posts[k] <= 1 /\ orphans[k] <= 1 /\ p[k] <= posts[k]
        BY <3>1 DEF PageInv, LocalInv, RequestsOK, ActionInv
      <3>3. orphans[k] = 0 \/ posts[k] = 0
        BY <1>2, <2>1, <3>1 DEF ActionInv, mounted, Idle
      <3>4. orphans'[k] = orphans[k] + p[k]
        BY <2>1, <3>1
      <3>. QED BY <3>1, <3>2, <3>3, <3>4
    <2>. QED
      BY <1>2, <2>1, <2>2, <2>3 DEF ActionInv
  <1>3. CASE ~(rows > 0)
    <2>1. posts' = p /\ UNCHANGED <<orphans, dialog>>
      BY <1>3 DEF keep, unmounts
    <2>2. rows = 0
      BY <1>3 DEF ActionInv
    <2>3. Idle(posts) => Idle(posts)'
      BY <1>1, <2>1 DEF Idle
    <2>4. mounted' <=> page = "show"
      BY <2>2 DEF mounted
    <2>5. ~mounted' => Idle(posts)' /\ dialog' = "none"
      BY <2>1, <2>3, <2>4 DEF ActionInv, mounted
    <2>. QED
      BY <2>1, <2>2, <2>5 DEF ActionInv, Idle
  <1>. QED
    BY <1>2, <1>3

LEMMA ActionUserSteps ==
    ASSUME PageInv, ActionInv, User
    PROVE  ActionInv'
  <1>1. ASSUME Visit PROVE ActionInv'
    <2>1. /\ UNCHANGED <<posts, orphans, dialog>> /\ page # "show" /\ page' = "show"
          /\ rows' \in Nat /\ addresses' \in Nat
      BY <1>1, PageAssumption DEF Visit, local
    <2>. QED BY <2>1 DEF ActionInv, mounted, Idle
  <1>2. ASSUME Leave PROVE ActionInv'
    <2>1. /\ posts' = NoRequests /\ orphans' = NoRequests /\ dialog' = "none"
          /\ rows' = 0 /\ addresses' = 0 /\ page' = "index"
      BY <1>2 DEF Leave
    <2>2. \A r \in Requests : NoRequests[r] = 0
      BY DEF NoRequests
    <2>. QED BY <2>1, <2>2, Ends DEF ActionInv, Idle
  <1>3. ASSUME \/ CloseDialog \/ ConfirmDelete
               \/ \E k \in Kinds : Confirm(k)
               \/ \E b \in BOOLEAN : ConfirmAddVoters(b)
        PROVE  ActionInv'
    <2>1. mounted
      BY <1>3, Ends DEF CloseDialog, ConfirmDelete, Confirm, ConfirmAddVoters, leaveDialog, ActionInv
    <2>2. UNCHANGED <<rows, addresses, page, orphans>>
      BY <1>3 DEF CloseDialog, ConfirmDelete, Confirm, ConfirmAddVoters, table, visit
    <2>3. ongoing' = ongoing \/ ongoing' # "none"
      BY <1>3, Ends DEF CloseDialog, ConfirmDelete, Confirm, ConfirmAddVoters, shown, become
    <2>. QED BY <2>1, <2>2, <2>3, MountedSteps
  <1>4. ASSUME NEW d \in Requests, getAction[d] PROVE mounted
    <2>1. getAction[d] = CASE d = "open" -> OpenButton [] d = "close" -> CloseButton
                           [] d = "cancel" -> CancelButton [] d = "shuffle" -> ShuffleButton
                           [] d = "decrypt" -> DecryptButton [] d = "combine" -> CombineButton
                           [] d = "delete" -> DeleteButton [] d = "addVoters" -> AddVotersButton
      BY DEF Requests, Kinds, getAction
    <2>2. \/ OpenButton \/ CloseButton \/ CancelButton \/ ShuffleButton
          \/ DecryptButton \/ CombineButton \/ DeleteButton \/ AddVotersButton
      BY <1>4, <2>1 DEF Requests, Kinds
    <2>. QED
      BY <2>2 DEF OpenButton, CloseButton, CancelButton, ShuffleButton, DecryptButton,
                  CombineButton, DeleteButton, AddVotersButton, ActionButton, clickable
  <1>5. ASSUME \/ \E k \in Kinds : Handle(k)
               \/ \E d \in Requests : OpenDialog(d)
        PROVE  ActionInv'
    <2>1. mounted
      BY <1>4, <1>5, Ends DEF Handle, OpenDialog
    <2>2. UNCHANGED <<rows, addresses, page, orphans>>
      BY <1>5 DEF Handle, OpenDialog, table, visit
    <2>3. ongoing' = ongoing \/ ongoing' # "none"
      BY <1>5, Ends DEF Handle, OpenDialog, shown, become
    <2>. QED BY <2>1, <2>2, <2>3, MountedSteps
  <1>. QED
    BY <1>1, <1>2, <1>3, <1>5 DEF User

LEMMA ActionSteps ==
    ASSUME PageInv, ActionInv, [Next]_vars
    PROVE  ActionInv'
  <1>0. posts \in [Requests -> Nat] /\ orphans \in [Requests -> Nat]
    BY DEF PageInv, LocalInv, RequestsOK
  <1>1. ASSUME UNCHANGED <<rows, addresses, page, ongoing, posts, orphans, dialog>>
        PROVE  ActionInv'
    BY <1>1 DEF ActionInv, mounted, Idle
  <1>2. ASSUME Loading PROVE ActionInv'
    <2>1. CASE AddressKnown
      <3>1. /\ UNCHANGED <<rows, page, ongoing, posts, orphans, dialog>>
            /\ addresses' = addresses - 1 /\ addresses > 0
        BY <2>1 DEF AddressKnown, local, visit
      <3>2. addresses' \in Nat
        BY <3>1 DEF ActionInv
      <3>. QED BY <3>1, <3>2 DEF ActionInv, mounted, Idle
    <2>2. CASE RowLoaded
      <3>1. /\ UNCHANGED <<addresses, page, posts, orphans, dialog>> /\ page = "show"
            /\ rows' = rows - 1 /\ rows > addresses
            /\ rows' = 0 \/ UNCHANGED ongoing
        BY <2>2 DEF RowLoaded, local, visit, shown
      <3>2. rows \in Nat /\ rows > 0 /\ rows' \in Nat
        BY <3>1 DEF ActionInv
      <3>. QED BY <3>1, <3>2 DEF ActionInv, mounted, Idle
    <2>3. CASE NodeIsSetup \/ GetResults
      BY <1>1, <2>3 DEF NodeIsSetup, GetResults, become, table, local, visit, shown
    <2>. QED BY <1>2, <2>1, <2>2, <2>3 DEF Loading
  <1>3. ASSUME NEW r \in Requests, posts[r] > 0
        PROVE  /\ answered(r) \in [Requests -> Nat]
               /\ \A q \in Requests : answered(r)[q] <= posts[q]
    BY <1>0, <1>3 DEF answered
  <1>4. ASSUME Answers PROVE ActionInv'
    <2>1. ASSUME NEW k \in Kinds, Accepted(k) \/ AnswerLost(k) PROVE ActionInv'
      BY <2>1, FewerRequests, Ends DEF Accepted, AnswerLost, table, visit, shown
    <2>2. ASSUME DeleteAnswered PROVE ActionInv'
      BY <2>2, FewerRequests, Ends DEF DeleteAnswered, table, visit, shown
    <2>3. ASSUME NEW k \in Kinds, Refused(k) PROVE ActionInv'
      <3>1. /\ posts[k] > 0 /\ ongoing' = "none" /\ UNCHANGED <<rows, addresses, page>>
            /\ keep(answered(k), unconfirmed(k)) /\ k \in Requests
        BY <2>3, Ends DEF Refused, become, table, visit
      <3>. QED BY <1>3, <3>1, ActionEnds
    <2>4. ASSUME NEW b \in BOOLEAN, VotersAdded(b) PROVE ActionInv'
      <3>1. /\ posts["addVoters"] > 0 /\ ongoing' = "none" /\ UNCHANGED <<rows, addresses, page>>
            /\ keep(answered("addVoters"), confirmed) /\ "addVoters" \in Requests
        BY <2>4, Ends DEF VotersAdded, become, table, visit
      <3>. QED BY <1>3, <3>1, ActionEnds
    <2>5. ASSUME NEW r \in Requests, NEW b \in BOOLEAN, OrphanAnswered(r, b) PROVE ActionInv'
      <3>1. /\ orphans[r] > 0 /\ orphans' = [orphans EXCEPT ![r] = orphans[r] - 1]
            /\ UNCHANGED <<rows, addresses, page, posts, dialog>>
            /\ ongoing' = "none" \/ UNCHANGED ongoing
        BY <2>5 DEF OrphanAnswered, become, table, visit, shown
      <3>2. page = "show" /\ ~(rows > 0 /\ ongoing # "none")
        BY <1>0, <3>1 DEF ActionInv, Idle
      <3>3. mounted' <=> mounted
        BY <3>1, <3>2 DEF ActionInv, mounted
      <3>4. \A k \in Confirmable : orphans'[k] <= 1
        BY <1>0, <3>1, Ends DEF ActionInv
      <3>. QED BY <3>1, <3>2, <3>3, <3>4 DEF ActionInv, Idle
    <2>6. ASSUME TransactionPollThrows PROVE ActionInv'
      BY <1>1, <2>6 DEF TransactionPollThrows, shown, table, local, visit
    <2>. QED BY <1>4, <2>1, <2>2, <2>3, <2>4, <2>5, <2>6 DEF Answers
  <1>5. ASSUME Poll PROVE ActionInv'
    <2>1. CASE PollMatches \/ PollRejected
      <3>1. keep(posts, confirmed) /\ ongoing' = "none" /\ UNCHANGED <<rows, addresses, page>>
        BY <2>1 DEF PollMatches, PollRejected, become, table, visit
      <3>2. \A r \in Requests : posts[r] <= posts[r]
        BY <1>0
      <3>. QED BY <1>0, <3>1, <3>2, ActionEnds
    <2>2. CASE PollAgain
      BY <1>1, <2>2 DEF PollAgain, table, local, visit
    <2>. QED BY <1>5, <2>1, <2>2 DEF Poll
  <1>6. ASSUME NEW k \in Kinds, ChainMoves(k) PROVE ActionInv'
    BY <1>1, <1>6 DEF ChainMoves, shown, table, local, visit
  <1>7. CASE UNCHANGED vars
    BY <1>1, <1>7 DEF vars, shown, table, local, visit
  <1>. QED
    BY <1>2, <1>4, <1>5, <1>6, <1>7, ActionUserSteps DEF Next

\* ActionInv holds in every state of the page.
THEOREM ActionsHold == Spec => []ActionInv
  <1>1. Init => ActionInv
    <2>1. \A r \in Requests : NoRequests[r] = 0
      BY DEF NoRequests
    <2>. QED BY <2>1, Ends DEF Init, ActionInv, Idle
  <1>2. PageInv /\ ActionInv /\ [Next]_vars => ActionInv'
    BY ActionSteps
  <1>. QED
    BY <1>1, <1>2, PageHolds, PTL DEF Spec

\* An Action waits for one request at most of a kind that is confirmed, and the
\* one that it replaced during the visit left at most one (userConfirmedClosing
\* and userConfirmedCanceling of useChangeAction.tsx).
THEOREM ConfirmedOnceOnly == Spec => []ConfirmedOnce
  <1>1. PageInv /\ ActionInv => ConfirmedOnce
    BY DEF PageInv, LocalInv, RequestsOK, ActionInv, ConfirmedOnce
  <1>. QED
    BY <1>1, PageHolds, ActionsHold, PTL
=============================================================================
