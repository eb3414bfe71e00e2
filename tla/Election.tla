------------------------------ MODULE Election ------------------------------
(***************************************************************************)
(* What the e-voting contract promises of an election, whatever the blocks *)
(* of ballots, shuffles and shares it is made of: voters put ballots in a  *)
(* box, which keeps the latest ballot of each; the box is frozen when the  *)
(* voting ends; the result counts every ballot of the frozen box once, and *)
(* is final. An election may be canceled at any time, or be deleted.       *)
(***************************************************************************)
CONSTANTS
    Elections,       \* election IDs, each used at most once
    Voters,          \* who may appear in the box
    Votes,           \* encrypted votes
    Count(_),        \* the bag of the ballots in a box
    NoResult         \* the result before there is one

VARIABLES
    phase,           \* where each election stands
    box,             \* the latest vote of each voter
    result           \* the bag of ballots published

electionVars == <<phase, box, result>>

EmptyBox == <<>>

InPhase(e, p) == phase[e] = p
Exists(e) == phase[e] \notin {"none", "deleted"}

Init ==
    /\ phase = [e \in Elections |-> "none"]
    /\ box = [e \in Elections |-> EmptyBox]
    /\ result = [e \in Elections |-> NoResult]

Create(e) ==
    /\ InPhase(e, "none")
    /\ phase' = [phase EXCEPT ![e] = "setup"]
    /\ UNCHANGED <<box, result>>

OpenVoting(e) ==
    /\ InPhase(e, "setup")
    /\ phase' = [phase EXCEPT ![e] = "voting"]
    /\ UNCHANGED <<box, result>>

Vote(e, v, c) ==
    /\ InPhase(e, "voting")
    /\ box' = [box EXCEPT ![e] =
                   [w \in DOMAIN box[e] \cup {v} |-> IF w = v THEN c ELSE box[e][w]]]
    /\ UNCHANGED <<phase, result>>

EndVoting(e) ==
    /\ InPhase(e, "voting")
    /\ DOMAIN box[e] # {}
    /\ phase' = [phase EXCEPT ![e] = "tallying"]
    /\ UNCHANGED <<box, result>>

\* A result always hides a vote among others.
Publish(e) ==
    /\ InPhase(e, "tallying")
    /\ \E v, w \in DOMAIN box[e] : v # w
    /\ result' = [result EXCEPT ![e] = Count(box[e])]
    /\ phase' = [phase EXCEPT ![e] = "published"]
    /\ UNCHANGED box

Cancel(e) ==
    /\ Exists(e)
    /\ phase' = [phase EXCEPT ![e] = "canceled"]
    /\ UNCHANGED <<box, result>>

Remove(e) ==
    /\ Exists(e)
    /\ phase' = [phase EXCEPT ![e] = "deleted"]
    /\ box' = [box EXCEPT ![e] = EmptyBox]
    /\ result' = [result EXCEPT ![e] = NoResult]

Next == \E e \in Elections :
    \/ Create(e) \/ OpenVoting(e) \/ EndVoting(e) \/ Publish(e)
    \/ Cancel(e) \/ Remove(e)
    \/ \E v \in Voters, c \in Votes : Vote(e, v, c)

Spec == Init /\ [][Next]_electionVars
=============================================================================
