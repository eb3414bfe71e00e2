----------------------------- MODULE BallotPage -----------------------------
(***************************************************************************)
(* The page on which a voter fills in a ballot and casts it                *)
(* (pages/ballot/Show.tsx and its components), one voter's requests on     *)
(* their way to the nodes, and what the nodes make of them.                *)
(*                                                                         *)
(* The page takes the form once, when it is opened. A click on "Cast vote" *)
(* checks the answers, encodes them, posts the ballot and disables the     *)
(* button; the answer to the request is shown in a dialog whose only way   *)
(* out leads away from the page. A voter may leave at any time, open the   *)
(* page again and vote again, with the requests of before still on their   *)
(* way. The proxy answers once the transaction is in the pool; the nodes   *)
(* execute it later.                                                       *)
(***************************************************************************)
EXTENDS Ballots

CONSTANTS
    Forms,        \* the forms the voter may be shown, each a sequence of questions
    Inputs,       \* what is typed in a text field
    MaxRequests   \* bound: the ballots that are sent, for each form

ASSUME FormsAssumption ==
    \A f \in Forms : \A q \in DOMAIN f :
        /\ f[q].Type \in {"select", "rank", "text"}
        /\ f[q].MinN \in Nat /\ f[q].MaxN \in Nat /\ Len(f[q].Choices) \in Nat
        /\ schema(f[q]) /\ isValid(f[q])

\* A UTF-16 unit is at most three bytes of UTF-8, and a space is one of each.
ASSUME TextAssumption ==
    /\ \A f \in Forms : /\ Len(f) \in Nat /\ DOMAIN f = 1 .. Len(f)
                        /\ \A q \in DOMAIN f : f[q].MaxLength \in Nat
    /\ \A t \in Inputs :
           /\ t \in [units : Nat, bytes : Nat, spaces : Nat, matches : BOOLEAN]
           /\ t.spaces <= t.units /\ t.spaces <= t.bytes
           /\ t.bytes - t.spaces <= 3 * (t.units - t.spaces)

VARIABLES
    form, language,
    page,         \* "ballot" or "away"
    answers, errors, userErrors,
    boxes,        \* what the text areas show, which are not controlled by answers
    disabled, castVoteLoading,
    modal,
    requests,     \* the ballots posted, in the order of the clicks
    pool,         \* the transactions of this voter that wait for a block
    status,       \* of the form, on the nodes
    cast          \* the ballot of this voter that counts: an index of requests, or 0

filled == <<answers, errors, userErrors, boxes>>
vars == <<form, language, page, filled, disabled, castVoteLoading, modal, requests, pool,
          status, cast>>

Asked == DOMAIN form
Of(type) == {q \in Asked : form[q].Type = type}

-----------------------------------------------------------------------------
(* What the page shows *)

\* The labels of a question, in the list of the language or in English
labels(q, lg) == LET map == choicesToChoicesMap(form[q].Choices).ChoicesMap
                 IN  map[IF lg \in DOMAIN map THEN lg ELSE "en"]

\* The text areas have their labels for keys: one that has no label of before
\* is a new one, and empty.
redrawn(q, lg) ==
    LET old == labels(q, language)
        new == labels(q, lg)
    IN  [i \in DOMAIN new |->
            IF \E j \in DOMAIN old : old[j] = new[i]
            THEN boxes[q][CHOOSE j \in DOMAIN old : old[j] = new[i]] ELSE NoText]

-----------------------------------------------------------------------------
(* Opening the page *)

noAnswer(f) == [q \in DOMAIN f |->
    CASE f[q].Type = "select" -> [i \in 1..Len(f[q].Choices) |-> FALSE]
      [] f[q].Type = "rank" -> [i \in 1..Len(f[q].Choices) |-> i]
      [] f[q].Type = "text" -> [i \in 1..Len(f[q].Choices) |-> NoText]]

noErrors(f) == [q \in DOMAIN f |-> ""]

Init ==
    /\ form \in Forms
    /\ language = "en"
    /\ page = "away" /\ modal = "none"
    /\ answers = noAnswer(form) /\ errors = noErrors(form) /\ userErrors = ""
    /\ boxes = [q \in Asked |-> [i \in DOMAIN labels(q, "en") |-> NoText]]
    /\ disabled = FALSE /\ castVoteLoading = FALSE
    /\ requests = <<>> /\ pool = <<>> /\ status = "open" /\ cast = 0

\* The ballot is displayed if the form is open when it is fetched.
Visit ==
    /\ page = "away" /\ status = "open" /\ Len(requests) < MaxRequests[form]
    /\ page' = "ballot"
    /\ answers' = noAnswer(form) /\ errors' = noErrors(form) /\ userErrors' = ""
    /\ boxes' = [q \in Asked |-> [i \in DOMAIN labels(q, language) |-> NoText]]
    /\ disabled' = FALSE /\ castVoteLoading' = FALSE /\ modal' = "none"
    /\ UNCHANGED <<form, language, requests, pool, status, cast>>

changeLanguage(lg) ==
    /\ lg # language
    /\ language' = lg
    /\ boxes' = [q \in Asked |-> redrawn(q, lg)]
    /\ UNCHANGED <<form, page, answers, errors, userErrors, disabled, castVoteLoading, modal,
                   requests, pool, status, cast>>

-----------------------------------------------------------------------------
(* Filling it in *)

\* The page can be used: its dialog is not open.
Usable == page = "ballot" /\ modal = "none"

Untouched == UNCHANGED <<form, language, page, userErrors, disabled, castVoteLoading, modal,
                         requests, pool, status, cast>>

\* Mutant: one answer too many is not noticed
checkErrorLate(q, a, error) ==
    LET n == numAnswer(q, a)
    IN  CASE q.MinN <= n /\ n < q.MaxN + 1 -> ""
          [] n > q.MaxN + 1 -> "max"
          [] OTHER -> error

\* The error after a check. One that says "too few" stays while that is so.
checkError(q, a, error) ==
    LET n == numAnswer(q, a)
    IN  CASE q.MinN <= n /\ n < q.MaxN + 1 -> ""
          [] n >= q.MaxN + 1 -> "max"
          [] OTHER -> error

\* With one answer at most, a check replaces the one before.
checked(q, a, i) ==
    [(IF q.MaxN = 1 THEN [j \in DOMAIN a |-> FALSE] ELSE a) EXCEPT ![i] = ~ a[i]]

handleChecks(q, i) ==
    /\ Usable
    /\ LET a == checked(form[q], answers[q], i)
       IN  /\ answers' = [answers EXCEPT ![q] = a]
           /\ errors' = [errors EXCEPT ![q] = checkError(form[q], a, @)]
    /\ UNCHANGED boxes /\ Untouched

\* The entry at a place is taken out, if there is one, and put in at another or
\* at the end.
moved(a, from, to) ==
    LET there == from \in DOMAIN a
        rest == IF there THEN RemoveAt(a, from) ELSE a
    IN  InsertAt(rest, IF to > Len(rest) THEN Len(rest) + 1 ELSE to,
                 IF there THEN a[from] ELSE Undefined)

\* An entry is dragged from a place of one rank to a place of the rank q. It is
\* the list of q that changes, at both places, whichever list the entry is from.
handleOnDragEnd(from, q, to) ==
    /\ Usable
    /\ answers' = [answers EXCEPT ![q] = moved(@, from, to)]
    /\ UNCHANGED <<errors, boxes>> /\ Untouched

trim(t) == IF t.units = t.spaces THEN NoText
           ELSE [t EXCEPT !.units = @ - t.spaces, !.bytes = @ - t.spaces, !.spaces = 0]

\* The regular expression of the question does not accept a text
badText(t) == ~ t.matches /\ t # NoText
textRefused(q, a) == \E i \in DOMAIN a : badText(a[i])

\* Mutant: an error of before stays
inputErrorKept(q, a, error) ==
    IF textRefused(q, a) THEN "regexp" ELSE error

\* The error after an input: only the regular expression is checked.
inputError(q, a, error) ==
    IF textRefused(q, a) THEN "regexp" ELSE ""

handleTextInput(q, i, t) ==
    /\ Usable
    /\ i \in DOMAIN labels(q, language)
    /\ LET a == [answers[q] EXCEPT ![i] = trim(t)]
       IN  /\ answers' = [answers EXCEPT ![q] = a]
           /\ errors' = [errors EXCEPT ![q] = inputError(form[q], a, @)]
    /\ boxes' = [boxes EXCEPT ![q] = [@ EXCEPT ![i] = trim(t)]]
    /\ Untouched

-----------------------------------------------------------------------------
(* Casting it *)

\* Each check of a question, and the error it leaves. More answers to a select
\* than allowed are refused without an error of their own.
selectTooFew(q, a) == numAnswer(q, a) < q.MinN
selectTooMany(q, a) == numAnswer(q, a) > q.MaxN
textTooLong(q, a) == \E i \in DOMAIN a : a[i].units > q.MaxLength

answerIsValid(q, a) ==
    CASE q.Type = "select" -> ~ selectTooFew(q, a) /\ ~ selectTooMany(q, a)
      [] q.Type = "rank" -> TRUE
      [] q.Type = "text" -> ~ textTooLong(q, a) /\ ~ textRefused(q, a) /\ numAnswer(q, a) >= q.MinN

\* The error of the last field that is too long or refused
fieldError(q, a) ==
    LET last == Max({i \in DOMAIN a : a[i].units > q.MaxLength \/ badText(a[i])})
    IN  IF badText(a[last]) THEN "regexp" ELSE "chars"

\* The error a click leaves
clickError(q, a, error) ==
    CASE q.Type # "rank" /\ numAnswer(q, a) < q.MinN -> "min"
      [] q.Type = "text" /\ (textTooLong(q, a) \/ textRefused(q, a)) -> fieldError(q, a)
      [] OTHER -> error

ballotIsValid == \A q \in Asked : answerIsValid(form[q], answers[q])

\* A ballot that cannot be encoded is not sent, and said so.
sendBallot ==
    IF Throws(form, answers)
    THEN modal' = "ballotFailure" /\ castVoteLoading' = FALSE /\ UNCHANGED requests
    ELSE /\ castVoteLoading' = TRUE
         /\ requests' = Append(requests,
                [ballot |-> encodeBallot(form, answers), shown |-> answers,
                 at |-> "sent", told |-> "nothing", fate |-> "none"])
         /\ UNCHANGED modal

buttonDisabled == TRUE

handleClick ==
    /\ Usable /\ ~ disabled /\ Len(requests) < MaxRequests[form]
    /\ errors' = [q \in Asked |-> clickError(form[q], answers[q], errors[q])]
    /\ IF ballotIsValid
       THEN userErrors' = "" /\ disabled' = buttonDisabled /\ sendBallot
       ELSE userErrors' = "incompleteBallot" /\ UNCHANGED <<disabled, castVoteLoading, modal, requests>>
    /\ UNCHANGED <<form, language, page, answers, boxes, pool, status, cast>>

-----------------------------------------------------------------------------
(* On the way *)

\* The request reaches the proxy, which submits the transaction, or does not
\* get that far. The page may have given up on it before.
Arrive(k, outcome) ==
    /\ requests[k].at = "sent"
    /\ requests' = [requests EXCEPT ![k].at = outcome]
    /\ pool' = IF outcome = "pooled" THEN Append(pool, k) ELSE pool
    /\ UNCHANGED <<form, language, page, filled, disabled, castVoteLoading, modal, status, cast>>

\* What the page says: it waits for the last request, if it is still open.
Says(k, text) ==
    IF page = "ballot" /\ k = Len(requests) /\ castVoteLoading
    THEN /\ modal' = text /\ castVoteLoading' = FALSE
         /\ requests' = [requests EXCEPT ![k].told = text]
    ELSE /\ requests' = [requests EXCEPT ![k].told = "unheard"]
         /\ UNCHANGED <<modal, castVoteLoading>>

\* Mutant: a failure is shown to nobody
SaysNothing(k) ==
    /\ requests[k].told = "nothing"
    /\ requests' = [requests EXCEPT ![k].told = "unheard"]
    /\ UNCHANGED <<form, language, page, filled, disabled, castVoteLoading, modal, pool, status, cast>>

\* The fetch fails, wherever the request is, or its answer is an error.
AnsweredError(k) ==
    /\ requests[k].told = "nothing"
    /\ \E text \in {"voteFailure", "errorServerDown"} : Says(k, text)
    /\ UNCHANGED <<form, language, page, filled, disabled, pool, status, cast>>

\* Mutant: the proxy answers before the transaction is in the pool
AnsweredEarly(k) ==
    /\ requests[k].told = "nothing"
    /\ Says(k, "voteSuccess")
    /\ UNCHANGED <<form, language, page, filled, disabled, pool, status, cast>>

AnsweredOK(k) ==
    /\ requests[k].told = "nothing" /\ requests[k].at = "pooled"
    /\ Says(k, "voteSuccess")
    /\ UNCHANGED <<form, language, page, filled, disabled, pool, status, cast>>

\* Closing the dialog and the Back button both lead to the page before.
Leave ==
    /\ page = "ballot"
    /\ page' = "away" /\ modal' = "none" /\ castVoteLoading' = FALSE
    /\ UNCHANGED <<form, language, filled, disabled, requests, pool, status, cast>>

-----------------------------------------------------------------------------
(* The nodes *)

replaces(k) == k

\* A ballot of a voter replaces the one before, while the form is open.
Execute ==
    /\ pool # <<>>
    /\ LET k == Head(pool)
       IN  IF status = "open"
           THEN cast' = replaces(k) /\ requests' = [requests EXCEPT ![k].fate = "counted"]
           ELSE requests' = [requests EXCEPT ![k].fate = "refused"] /\ UNCHANGED cast
    /\ pool' = Tail(pool)
    /\ UNCHANGED <<form, language, page, filled, disabled, castVoteLoading, modal, status>>

\* The form stops being open; when that is allowed is for module Evoting.
closeForm ==
    /\ status = "open" /\ status' = "closed"
    /\ UNCHANGED <<form, language, page, filled, disabled, castVoteLoading, modal, requests, pool, cast>>

-----------------------------------------------------------------------------
Next ==
    \/ Visit \/ Leave \/ handleClick \/ Execute \/ closeForm
    \/ \E lg \in Languages : changeLanguage(lg)
    \/ \E q \in Of("select") : \E i \in Places(form[q]) : handleChecks(q, i)
    \/ \E source, q \in Of("rank") :
          \E from \in DOMAIN answers[source], to \in 1..(Len(answers[q]) + 1) :
             handleOnDragEnd(from, q, to)
    \/ \E q \in Of("text") : \E i \in Places(form[q]), t \in Inputs : handleTextInput(q, i, t)
    \/ \E k \in DOMAIN requests :
          \/ \E outcome \in {"pooled", "refused"} : Arrive(k, outcome)
          \/ AnsweredError(k)
          \/ AnsweredOK(k)

\* A request ends: it arrives or fails, and the browser gives up on an answer
\* that does not come.
Fairness == \A k \in UNION {1..MaxRequests[f] : f \in Forms} :
    /\ WF_vars(k \in DOMAIN requests /\ \E outcome \in {"pooled", "refused"} : Arrive(k, outcome))
    /\ WF_vars(k \in DOMAIN requests /\ (AnsweredError(k) \/ AnsweredOK(k)))

Spec == Init /\ [][Next]_vars
FairSpec == Spec /\ Fairness

-----------------------------------------------------------------------------
(* Properties *)

\* A blank entry stands before a choice.
Gaps(a) == \E i, j \in DOMAIN a : i < j /\ a[i] = Undefined /\ a[j] # Undefined

\* A ballot that is posted is accepted by the nodes once it is decrypted unless a
\* rank has a blank entry before a choice, which only a drag from a longer rank
\* puts there (handleOnDragEnd): what ballotIsValid lets through,
\* unmarshalAnswers does too. From a ballot that they accept they read what the
\* voter answered, and the inversion of a rank is the right one. A ballot that is
\* refused then is lost, long after the form was closed.
RequestsDecode ==
    \A k \in DOMAIN requests :
        LET r == requests[k]
        IN  /\ Accepted(form, r.ballot) <=> \A q \in Of("rank") : ~ Gaps(r.shown[q])
            /\ Accepted(form, r.ballot) =>
                  \A q \in Asked : Means(form[q], Unmarshal(form, r.ballot)[q], r.shown[q])

\* A ballot that ballotIsValid accepts fits the chunks that the nodes reserve:
\* sendBallot never fails at encoding.
FitsChunks == modal # "ballotFailure"

\* An error that is shown is true of the answers shown.
ErrorsAreCurrent ==
    \A q \in Asked : errors[q] # "" => ~ answerIsValid(form[q], answers[q])

\* A click that is refused leaves an error at every question that needs another
\* answer and at no other: handleChecks has left the one that ballotIsValid
\* does not set.
RefusalIsExplained ==
    [][handleClick /\ ~ ballotIsValid =>
          \A q \in Asked : errors'[q] # "" <=> ~ answerIsValid(form[q], answers[q])]_vars

\* A vote of which the voter was told that it succeeded does not take the place of
\* a later one, however many requests are on their way together and whichever
\* fetches fail meanwhile: the proxy answers when the transaction is in the pool
\* (NewFormVote), and the page shows the answer before another vote is cast. Of
\* votes that failed, or that the voter did not wait for, nothing is said: they may
\* arrive late, and count.
LastVoteCounts ==
    cast # 0 /\ requests[cast].told = "voteSuccess" =>
        \A k \in DOMAIN requests : requests[k].fate = "counted" => k <= cast

\* A vote that is sent ends in a dialog, unless the voter leaves.
CastEnds == castVoteLoading ~> ~ castVoteLoading
=============================================================================
