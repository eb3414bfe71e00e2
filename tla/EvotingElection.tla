-------------------------- MODULE EvotingElection --------------------------
(***************************************************************************)
(* The contract implements the abstract election of module Election. The   *)
(* abstract box is kept apart from the contract's blocks of ballots, in a  *)
(* history variable.                                                       *)
(***************************************************************************)
EXTENDS Evoting

VARIABLE ballotBox   \* the latest vote accepted from each voter, by form

CastInit == Init /\ ballotBox = [f \in FormIDs |-> <<>>]

Casts(f, v, b) ==
    /\ CastVote(f, v, b)
    /\ ballotBox' = [ballotBox EXCEPT ![f] = Put(@, v, b)]

\* The other commands count no ballot.
CastsNothing ==
    /\ Next
    /\ \A f \in DOMAIN forms \cap DOMAIN forms' :
           forms'[f].ballotCount = forms[f].ballotCount
    /\ UNCHANGED ballotBox

CastNext ==
    \/ \E f \in FormIDs, v \in UserIDs, b \in Ciphervotes : Casts(f, v, b)
    \/ CastsNothing

CastSpec == CastInit /\ [][CastNext]_<<vars, ballotBox>>

-----------------------------------------------------------------------------
\* The phase of a form's election: from the close to the result, shuffles and
\* shares come and go under one phase.
PhaseAt(status) ==
    CASE status = Initial -> "setup"
      [] status = Open -> "voting"
      [] status \in Closed .. PubSharesSubmitted -> "tallying"
      [] status = ResultAvailable -> "published"
      [] status = Canceled -> "canceled"

PhaseOf(f) ==
    IF Stored(f) THEN PhaseAt(forms[f].status)
    ELSE IF f \in formsMetadata THEN "deleted" ELSE "none"

\* A form that is deleted takes its box along.
BoxOf(f) == IF Stored(f) THEN ballotBox[f] ELSE <<>>

ResultOf(f) == IF Stored(f) THEN forms[f].decryptedBallots ELSE EmptyBag

\* The ballots in a box, one for each of its voters.
CountOf(b) == BagOfAll(LAMBDA v : Plaintext[b[v]], SetToBag(DOMAIN b))

E == INSTANCE Election WITH
        Elections <- FormIDs,
        Voters <- UserIDs,
        Votes <- Ciphervotes,
        Count <- CountOf,
        NoResult <- EmptyBag,
        phase <- [f \in FormIDs |-> PhaseOf(f)],
        box <- [f \in FormIDs |-> BoxOf(f)],
        result <- [f \in FormIDs |-> ResultOf(f)]

\* Every behaviour of the contract is one of an election: the latest vote of a
\* voter counts although votes are spread over blocks (Form.CastVote and
\* Form.Suffragia), none is accepted after closeForm, the shuffles and the
\* decryption keep every ballot once, and a result is over at least two ballots
\* and never changes.
RefinesElection == E!Spec
=============================================================================
