------------------------------- MODULE MCAuth -------------------------------
(***************************************************************************)
(* Small instances of the backend's rights for TLC.                        *)
(***************************************************************************)
EXTENDS AuthManager

CONSTANTS a, b, f1

\* An administrator and a second user
TwoUserIDs == {a, b}
MCSciper == [u \in {a, b} |-> IF u = a THEN 111111 ELSE 222222]

\* The administrator may do everything, and owns the form.
AdminDB == {<<a, g[1], g[2]>> : g \in AdminRights}
OwnerDB == AdminDB \cup {<<a, f1, "own">>}

VoteGrants == {<<f1, "vote">>}
=============================================================================
