---------------------------- MODULE FormActions ----------------------------
(***************************************************************************)
(* The page of a form from the moment its keys are set up (pages/form/     *)
(* Show.tsx, components/utils/useChangeAction.tsx): buttons post a request *)
(* and the page polls the form until the status it hopes for appears, the  *)
(* poll times out or the request is refused. The action under way is kept  *)
(* in the local storage and taken up when the page is opened again. What   *)
(* happens before, on the nodes, is in DKGTable.                           *)
(*                                                                         *)
(* The form itself moves on its own: by these requests, by those of other  *)
(* managers and by the nodes.                                              *)
(***************************************************************************)
EXTENDS Integers, FiniteSetsExt

CONSTANTS
    Rows,          \* nodes of the roster, each a row that loads when the page opens
    IsManager,     \* isManager: the user may create forms and owns this one
    MAX_ATTEMPTS,  \* how often the status of the form is polled
    MaxPosts,      \* bound: requests under way
    MaxVisits      \* bound: how often the page is opened

ASSUME PageAssumption ==
    /\ Rows \in Nat \ {0} /\ MAX_ATTEMPTS \in Nat \ {0} /\ MaxPosts \in Nat /\ MaxVisits \in Nat
    /\ IsManager \in BOOLEAN

VARIABLES
    chain,         \* the status of the form on the chain
    visited,       \* history: the statuses it has had
    page,          \* "show" while the page is open
    status,        \* the status displayed
    ongoing,       \* ongoingAction
    stored,        \* ongoingAction in the local storage
    rows,          \* rows that have not loaded: DKGLoading while there are any
    addresses,     \* rows whose proxy is not known yet
    poll,          \* the poll that the signal of the last render leaves running
    posts,         \* requests whose answer the mounted Action waits for
    orphans,       \* requests whose answer an Action of this visit waits for that was unmounted
    confirmed,     \* userConfirmedClosing, userConfirmedCanceling
    dialog,        \* the confirmation on display
    error,         \* the error on display, which can only be closed by leaving the page
    resultFlag,    \* isResultAvailable
    result,        \* the result in the state of the page
    visits

form == <<chain, visited>>
shown == <<status, ongoing, stored, poll, resultFlag>>
table == <<rows, addresses>>
local == <<posts, orphans, confirmed, dialog>>   \* state of the Action component
visit == <<page, visits>>
vars == <<form, shown, table, local, visit, error, result>>

-----------------------------------------------------------------------------
(* The actions that a form goes through. *)

Kinds == {"open", "close", "cancel", "shuffle", "decrypt", "combine"}
From == [open |-> "Setup", close |-> "Open", cancel |-> "Open", shuffle |-> "Closed",
         decrypt |-> "Shuffled", combine |-> "PubShares"]
To == [open |-> "Open", close |-> "Closed", cancel |-> "Canceled", shuffle |-> "Shuffled",
       decrypt |-> "PubShares", combine |-> "Result"]
Confirmable == {"close", "cancel"}
Requests == Kinds \cup {"addVoters", "delete"}
NoRequests == [r \in Requests |-> 0]
OngoingActions == Kinds \cup {"none", "addVoters"}

\* The order of the status timeline. Initial is what the chain says of a form
\* whose keys are set up.
Steps == <<"Initial", "Setup", "Open", "Canceled", "Closed", "Shuffled", "PubShares", "Result">>
rank(s) == CHOOSE i \in DOMAIN Steps : Steps[i] = s
Statuses == {Steps[i] : i \in DOMAIN Steps}
onChain(s) == IF s = "Setup" THEN "Initial" ELSE s

NoPoll == [prev |-> "none", next |-> "none", attempts |-> 0]
pollFormStatus(k) == [prev |-> From[k], next |-> To[k], attempts |-> 0]
polling == poll # NoPoll

\* What the effects of a new status and a new ongoing action do: the poll of
\* the old action is aborted, the new one is polled for, and both are stored.
become(s, a) ==
    /\ status' = s
    /\ ongoing' = a
    /\ stored' = IF s = "Result" THEN "none" ELSE a
    /\ poll' = IF a = ongoing THEN poll ELSE IF a \in Kinds THEN pollFormStatus(a) ELSE NoPoll
    /\ resultFlag' = (resultFlag \/ (a = "combine" /\ a # ongoing))

-----------------------------------------------------------------------------
(* Opening and leaving the page. *)

Init ==
    /\ chain = "Setup" /\ visited = {"Initial", "Setup"}
    /\ page = "index" /\ status = "Initial" /\ ongoing = "none" /\ stored = "none"
    /\ rows = 0 /\ addresses = 0 /\ poll = NoPoll /\ posts = NoRequests /\ orphans = NoRequests
    /\ confirmed = [k \in Confirmable |-> FALSE] /\ dialog = "none" /\ error = FALSE
    /\ resultFlag = FALSE /\ result = FALSE /\ visits = 0

\* The form is fetched, and the stored action is taken up.
Visit ==
    /\ page = "index" /\ visits < MaxVisits
    /\ page' = "show" /\ visits' = visits + 1
    /\ status' = onChain(chain)
    /\ ongoing' = stored
    /\ stored' = IF chain = "Result" THEN "none" ELSE stored
    /\ poll' = IF stored \in Kinds THEN pollFormStatus(stored) ELSE NoPoll
    /\ resultFlag' = (stored = "combine")
    /\ result' = (chain = "Result")
    /\ rows' = Rows /\ addresses' = Rows
    /\ UNCHANGED <<form, local, error>>

\* The user leaves, closes an error, or was led away after a deletion.
Leave ==
    /\ page = "show"
    /\ page' = "index"
    /\ status' = "Initial" /\ ongoing' = "none" /\ poll' = NoPoll /\ rows' = 0 /\ addresses' = 0
    /\ posts' = NoRequests /\ orphans' = NoRequests
    /\ confirmed' = [k \in Confirmable |-> FALSE] /\ dialog' = "none" /\ error' = FALSE
    /\ resultFlag' = FALSE /\ result' = FALSE
    /\ UNCHANGED <<form, stored, visits>>

\* A row learns the proxy of its node: the poll starts anew, since it may now
\* go through another proxy.
AddressKnown ==
    /\ page = "show" /\ addresses > 0
    /\ addresses' = addresses - 1
    /\ poll' = IF polling THEN [poll EXCEPT !.attempts = 0] ELSE poll
    /\ UNCHANGED <<form, status, ongoing, stored, resultFlag, rows, local, visit, error, result>>

\* A row has loaded. After the last one no action counts as under way any more.
RowLoaded ==
    /\ page = "show" /\ rows > addresses
    /\ rows' = rows - 1
    /\ IF rows' = 0 THEN become(status, "none") ELSE UNCHANGED shown
    /\ UNCHANGED <<form, addresses, local, visit, error, result>>

\* notifyDKGState: a node says that it is set up.
NodeIsSetup ==
    /\ page = "show" /\ status = "Initial" /\ addresses < Rows
    /\ become("Setup", ongoing)
    /\ UNCHANGED <<form, table, local, visit, error, result>>

-----------------------------------------------------------------------------
(* Buttons and dialogs. Action is mounted while there is something to show. *)

mounted == page = "show" /\ (rows = 0 \/ ongoing # "none")
clickable == mounted /\ dialog = "none" /\ ~error /\ IsManager

\* A button is hidden only while its own action is under way.
ActionButton(k, s) == clickable /\ status = s /\ ongoing # k
OpenButton == ActionButton("open", "Setup")
CloseButton == ActionButton("close", "Open")
CancelButton == ActionButton("cancel", "Open")
ShuffleButton == ActionButton("shuffle", "Closed")
DecryptButton == ActionButton("decrypt", "Shuffled")
CombineButton == ActionButton("combine", "PubShares")
DeleteButton == clickable
AddVotersButton == \E s \in {"Setup", "Open"} : ActionButton("addVoters", s)

getAction ==
    [open |-> OpenButton, close |-> CloseButton, cancel |-> CancelButton,
     shuffle |-> ShuffleButton, decrypt |-> DecryptButton, combine |-> CombineButton,
     delete |-> DeleteButton, addVoters |-> AddVotersButton]

send(r) ==
    /\ MapThenSumSet(LAMBDA q : posts[q] + orphans[q], Requests) < MaxPosts
    /\ posts' = [posts EXCEPT ![r] = @ + 1]

\* handleOpen, handleShuffle, handleDecrypt and handleCombine.
Handle(k) ==
    /\ k \notin Confirmable /\ getAction[k]
    /\ become(status, k)
    /\ send(k)
    /\ UNCHANGED <<form, table, orphans, confirmed, dialog, visit, error, result>>

\* handleClose, handleCancel, handleDelete and handleAddVoters.
OpenDialog(d) ==
    /\ d \in Confirmable \cup {"delete", "addVoters"} /\ getAction[d]
    /\ dialog' = d
    /\ UNCHANGED <<form, shown, table, posts, orphans, confirmed, visit, error, result>>

leaveDialog(d) == dialog = d /\ ~error /\ dialog' = "none"

CloseDialog ==
    /\ dialog # "none" /\ leaveDialog(dialog)
    /\ UNCHANGED <<form, shown, table, posts, orphans, confirmed, visit, error, result>>

\* Mutant: every confirmation sends a request.
ConfirmAgain(k) ==
    /\ k \in Confirmable /\ leaveDialog(k)
    /\ send(k) /\ become(status, k) /\ confirmed' = [confirmed EXCEPT ![k] = TRUE]
    /\ UNCHANGED <<form, table, orphans, visit, error, result>>

\* The flag of the dialog is set, which has an effect only when it was not.
Confirm(k) ==
    /\ k \in Confirmable /\ leaveDialog(k)
    /\ \/ /\ ~confirmed[k]
          /\ confirmed' = [confirmed EXCEPT ![k] = TRUE]
          /\ become(status, k) /\ send(k)
       \/ confirmed[k] /\ UNCHANGED <<confirmed, shown, posts>>
    /\ UNCHANGED <<form, table, orphans, visit, error, result>>

ConfirmDelete ==
    /\ leaveDialog("delete")
    /\ send("delete")
    /\ UNCHANGED <<form, shown, table, orphans, confirmed, visit, error, result>>

\* The list of voters is checked first: one that is not a SCIPER is an error.
ConfirmAddVoters(valid) ==
    /\ leaveDialog("addVoters")
    /\ \/ valid /\ become(status, "addVoters") /\ send("addVoters") /\ UNCHANGED error
       \/ ~valid /\ error' = TRUE /\ UNCHANGED <<shown, posts>>
    /\ UNCHANGED <<form, table, orphans, confirmed, visit, result>>

-----------------------------------------------------------------------------
(* Answers to the requests. When the rows are still loading, the end of an  *)
(* action unmounts the component that began it: its dialogs and flags are   *)
(* gone, and its handlers can no longer report an error.                    *)

unmounts == ongoing' = "none" /\ rows > 0

\* The state of the component after posts and flags became p and c.
keep(p, c) ==
    IF unmounts
      THEN /\ posts' = NoRequests /\ orphans' = [r \in Requests |-> orphans[r] + p[r]]
           /\ confirmed' = [k \in Confirmable |-> FALSE] /\ dialog' = "none"
      ELSE posts' = p /\ confirmed' = c /\ UNCHANGED <<orphans, dialog>>

answered(r) == [posts EXCEPT ![r] = @ - 1]
unconfirmed(r) == [k \in Confirmable |-> confirmed[k] /\ k # r]

\* Mutant: an accepted request is taken for one that is done.
AcceptedIsDone(k) ==
    /\ posts[k] > 0
    /\ become(To[k], "none")
    /\ keep(answered(k), unconfirmed(k))
    /\ UNCHANGED <<form, table, visit, error, result>>

Accepted(k) ==
    /\ posts[k] > 0
    /\ posts' = answered(k) /\ confirmed' = unconfirmed(k)
    /\ UNCHANGED <<form, shown, table, orphans, dialog, visit, error, result>>

\* usePostCall reports the answer, and the handler sets the status back,
\* whatever action is under way by then.
Refused(k) ==
    /\ posts[k] > 0
    /\ become(From[k], "none")
    /\ keep(answered(k), unconfirmed(k))
    /\ error' = TRUE
    /\ UNCHANGED <<form, table, visit, result>>

\* fetch throws: the rest of the handler is not executed.
AnswerLost(k) ==
    /\ posts[k] > 0
    /\ posts' = answered(k)
    /\ UNCHANGED <<form, shown, table, orphans, confirmed, dialog, visit, error, result>>

\* The chunks of voters are sent one after the other; a refusal is displayed and
\* the next one is sent, an exception ends the loop.
VotersAdded(failed) ==
    /\ posts["addVoters"] > 0
    /\ become(status, "none")
    /\ keep(answered("addVoters"), confirmed)
    /\ error' = (error \/ failed)
    /\ UNCHANGED <<form, table, visit, result>>

\* A deletion that is refused or lost leaves the page as it is; Leave follows another one.
DeleteAnswered ==
    /\ posts["delete"] > 0
    /\ posts' = answered("delete")
    /\ UNCHANGED <<form, shown, table, orphans, confirmed, dialog, visit, error, result>>

\* The handler of an unmounted component still sets status and action of the page.
OrphanAnswered(r, refused) ==
    /\ orphans[r] > 0
    /\ orphans' = [orphans EXCEPT ![r] = @ - 1]
    /\ \/ r \in Kinds /\ refused /\ become(From[r], "none")
       \/ r = "addVoters" /\ become(status, "none")
       \/ ~refused /\ UNCHANGED shown
    /\ UNCHANGED <<form, table, posts, confirmed, dialog, visit, error, result>>

\* pollTransaction reports a call that threw. It does not report a transaction
\* that was rejected or takes too long: the exception is lost in its executor.
TransactionPollThrows ==
    /\ mounted /\ ~error
    /\ error' = TRUE
    /\ UNCHANGED <<form, shown, table, local, visit, result>>

-----------------------------------------------------------------------------
(* The poll of the form. *)

\* onFullFilled
PollMatches ==
    /\ polling /\ chain = poll.next
    /\ become(poll.next, "none")
    /\ keep(posts, confirmed)
    /\ UNCHANGED <<form, table, visit, error, result>>

\* Mutant: the attempts are not counted.
PollAgainForever ==
    /\ polling /\ onChain(chain) # poll.next
    /\ poll' = [poll EXCEPT !.attempts = (@ + 1) % MAX_ATTEMPTS]
    /\ UNCHANGED <<form, status, ongoing, stored, resultFlag, table, local, visit, error, result>>

PollAgain ==
    /\ polling /\ onChain(chain) # poll.next
    /\ poll.attempts + 1 < MAX_ATTEMPTS
    /\ poll' = [poll EXCEPT !.attempts = @ + 1]
    /\ UNCHANGED <<form, status, ongoing, stored, resultFlag, table, local, visit, error, result>>

\* onRejected: the attempts are over, or one of them failed.
PollRejected ==
    /\ polling
    /\ become(poll.prev, "none")
    /\ keep(posts, confirmed)
    /\ error' = TRUE
    /\ UNCHANGED <<form, table, visit, result>>

\* getResults, once the page has polled for the result and found it.
GetResults ==
    /\ page = "show" /\ status = "Result" /\ resultFlag /\ ~result
    /\ result' = (chain = "Result")
    /\ UNCHANGED <<form, shown, table, local, visit, error>>

-----------------------------------------------------------------------------
\* The contract moves, as Evoting describes.
ChainMoves(k) ==
    /\ chain = From[k]
    /\ chain' = To[k]
    /\ visited' = visited \cup {To[k]}
    /\ UNCHANGED <<shown, table, local, visit, error, result>>

User ==
    \/ Visit \/ Leave \/ CloseDialog \/ ConfirmDelete
    \/ \E k \in Kinds : Handle(k) \/ Confirm(k)
    \/ \E d \in Requests : OpenDialog(d)
    \/ \E b \in BOOLEAN : ConfirmAddVoters(b)
Loading == AddressKnown \/ RowLoaded \/ NodeIsSetup \/ GetResults
Answers ==
    \/ \E k \in Kinds : Accepted(k) \/ Refused(k) \/ AnswerLost(k)
    \/ \E b \in BOOLEAN : VotersAdded(b)
    \/ \E r \in Requests, b \in BOOLEAN : OrphanAnswered(r, b)
    \/ DeleteAnswered \/ TransactionPollThrows
Poll == PollMatches \/ PollAgain \/ PollRejected

Next == User \/ Loading \/ Answers \/ Poll \/ \E k \in Kinds : ChainMoves(k)

\* Rows load or time out, requests are answered or fail, and a poll goes on.
\* The user has to do nothing, and the form may never move.
Spec ==
    /\ Init /\ [][Next]_vars
    /\ WF_vars(AddressKnown) /\ WF_vars(RowLoaded) /\ WF_vars(Poll)
    /\ WF_vars(\E b \in BOOLEAN : VotersAdded(b))

-----------------------------------------------------------------------------
\* The page never displays a status that the form has not had, nor would go back
\* to one, whatever answers come late and whatever action was taken up from the
\* storage (onFullFilled, onRejected and the handlers of useChangeAction.tsx).
NeverAhead ==
    /\ status \in visited
    /\ polling => poll.prev \in visited

\* An Action component waits for one request at most of a kind that is confirmed,
\* although its button comes back as soon as another action begins
\* (userConfirmedClosing). During a visit at most one more is left behind, by
\* the component of an action that was taken up and ended before the rows had
\* loaded: the component that replaces it knows nothing of that request.
ConfirmedOnce == \A k \in Confirmable : posts[k] <= 1 /\ orphans[k] <= 1

\* No action stays under way for ever, also when its answer is lost, when the
\* page was reloaded in between: it ends, or the user begins another one.
OngoingEnds == \A a \in OngoingActions \ {"none"} : ongoing = a ~> ongoing # a
=============================================================================
