------------------------------- MODULE MCNeff -------------------------------
(***************************************************************************)
(* Small instances of the shuffle for TLC.                                 *)
(***************************************************************************)
EXTENDS NeffShuffle, MCEvoting

\* Two owners, and a vote of each in a block of its own.
ClosedBy(nodes) ==
    [status           |-> Closed,
     pubkey           |-> CHOOSE k \in PubKeys : TRUE,
     ballotSize       |-> 29,
     suffragia        |-> <<Put(<<>>, "111111", c1), Put(<<>>, "222222", c2)>>,
     ballotCount      |-> 2,
     shuffleInstances |-> <<>>,
     shuffleThreshold |-> ByzantineThreshold(Cardinality(nodes)),
     pubsharesUnits   |-> <<>>,
     decryptedBallots |-> EmptyBag,
     roster           |-> nodes,
     owners           |-> <<111111, 222222>>,
     voters           |-> <<111111, 222222>>]

TwoNodesForm == ClosedBy({n1, n2})

Rosters2 == {{n1, n2}}
=============================================================================
