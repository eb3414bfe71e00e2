--------------------------- MODULE EvotingProofs ---------------------------
(***************************************************************************)
(* Theorems about the e-voting contract, for all sets of forms, users,     *)
(* nodes, rosters and ballots.                                             *)
(***************************************************************************)
EXTENDS EvotingElection, ListLemmas

-----------------------------------------------------------------------------
(***************************************************************************)
(* The inductive invariant. combineShares takes the last shuffle of a form *)
(* whose status says that there is one, so that the type of the store does *)
(* not carry over a step by itself: what the statuses stand for does.      *)
(***************************************************************************)

\* The shufflers of a form are different nodes of its roster, and the status
\* tells whether they are a threshold.
ShuffleInv(form) ==
    /\ form.shuffleThreshold = ByzantineThreshold(Cardinality(form.roster))
    /\ \A i \in 1 .. Len(form.shuffleInstances) :
           form.shuffleInstances[i].shuffler \in form.roster
    /\ \A i, j \in 1 .. Len(form.shuffleInstances) :
           form.shuffleInstances[i].shuffler = form.shuffleInstances[j].shuffler => i = j
    /\ form.status \in {Initial, Open} => form.shuffleInstances = <<>>
    /\ form.status = Closed => Len(form.shuffleInstances) < form.shuffleThreshold
    /\ IsShuffled(form) => Len(form.shuffleInstances) >= form.shuffleThreshold

\* The same of the nodes that submitted shares, and of their indexes.
SharesInv(form) ==
    /\ \A i \in 1 .. Len(form.pubsharesUnits) :
           form.pubsharesUnits[i].pubKey \in form.roster
    /\ \A i, j \in 1 .. Len(form.pubsharesUnits) :
           \/ form.pubsharesUnits[i].pubKey = form.pubsharesUnits[j].pubKey
           \/ form.pubsharesUnits[i].index = form.pubsharesUnits[j].index
           => i = j
    /\ form.status \in {Initial, Open, Closed} => form.pubsharesUnits = <<>>
    /\ form.status = ShuffledBallots => Len(form.pubsharesUnits) < form.shuffleThreshold
    /\ form.status \in {PubSharesSubmitted, ResultAvailable} =>
           Len(form.pubsharesUnits) >= form.shuffleThreshold

FormInv(form) == ShuffleInv(form) /\ SharesInv(form) /\ form.owners # <<>>

FormsInv == \A f \in DOMAIN forms : FormInv(forms[f])

\* No user is an admin twice, and someone is an admin.
AdminInv ==
    adminList # NoList =>
        /\ adminList # <<>>
        /\ \A i, j \in 1 .. Len(adminList) : adminList[i] = adminList[j] => i = j

IInv ==
    /\ TypeOK
    /\ FormsInv
    /\ AdminInv
    /\ StoredFormsListed

-----------------------------------------------------------------------------
(* Facts about the parts of the contract. *)

\* The names of types/election.go are statuses.
LEMMA StatusNames ==
    /\ Initial \in Statuses /\ Open \in Statuses /\ Closed \in Statuses
    /\ ShuffledBallots \in Statuses /\ PubSharesSubmitted \in Statuses
    /\ ResultAvailable \in Statuses /\ Canceled \in Statuses
  BY DEF Initial, Open, Closed, ShuffledBallots, PubSharesSubmitted,
         ResultAvailable, Canceled, Statuses

\* A threshold of a roster is some of its nodes, and not more than there are.
LEMMA ThresholdRange ==
    ASSUME NEW r \in Rosters
    PROVE  /\ Cardinality(r) \in Nat
           /\ ByzantineThreshold(Cardinality(r)) \in 1 .. Cardinality(r)
  <1>1. Cardinality(r) \in Nat /\ Cardinality(r) # 0
    BY RosterAssumption, FS_CardinalityType, FS_EmptySet
  <1>. QED
    BY <1>1 DEF ByzantineThreshold

\* The lists of users stay lists of SCIPERs.
LEMMA MemberLists ==
    ASSUME NEW list \in Seq(Scipers), NEW u
    PROVE  /\ CanAddMember(list, u) =>
                 /\ AddMember(list, u) \in Seq(Scipers)
                 /\ AddMember(list, u) # <<>>
           /\ IsRole(list, u) =>
                 /\ RemoveMember(list, u) \in Seq(Scipers)
                 /\ Len(RemoveMember(list, u)) = Len(list) - 1
  <1>1. ASSUME CanAddMember(list, u)
        PROVE  AddMember(list, u) \in Seq(Scipers) /\ AddMember(list, u) # <<>>
    <2>1. SciperToInt(u) \in Scipers
      BY <1>1 DEF CanAddMember, IsSciper, SciperToInt
    <2>. QED BY <2>1, AppendProperties, EmptySeq DEF AddMember
  <1>2. ASSUME IsRole(list, u)
        PROVE  /\ RemoveMember(list, u) \in Seq(Scipers)
               /\ Len(RemoveMember(list, u)) = Len(list) - 1
    <2>1. Contains(list, SciperToInt(u))
      BY <1>2 DEF IsRole
    <2>2. PICK i \in 1 .. Len(list) :
             RemoveFirst(list, SciperToInt(u)) = RemoveAt(list, i)
      BY <2>1, RemoveFirstProperties
    <2>. QED BY <2>2, RemoveAtType DEF RemoveMember
  <1>. QED
    BY <1>1, <1>2

-----------------------------------------------------------------------------
(* Type correctness. *)

\* A cast puts a ballot of the voter in a block.
LEMMA CastInBlockType ==
    ASSUME NEW blocks \in Seq(Blocks), NEW count \in Nat,
           NEW v \in UserIDs, NEW b \in Ciphervotes
    PROVE  CastInBlock(blocks, count, v, b) \in Seq(Blocks)
  <1>1. ASSUME NEW block \in Blocks PROVE Put(block, v, b) \in Blocks
    <2>1. PICK S \in SUBSET UserIDs : block \in [S -> Ciphervotes]
      BY DEF Blocks
    <2>2. Put(block, v, b) \in [S \cup {v} -> Ciphervotes]
      BY <2>1 DEF Put
    <2>. QED BY <2>1, <2>2 DEF Blocks
  <1>2. <<>> \in Blocks
    <2>1. <<>> \in [{} -> Ciphervotes]
      OBVIOUS
    <2>. QED BY <2>1 DEF Blocks
  <1>3. CASE count % BallotsPerBlock = 0
    BY <1>1, <1>2, <1>3 DEF CastInBlock
  <1>4. CASE ~(count % BallotsPerBlock = 0)
    <2>. DEFINE k == Len(blocks)
                new == [blocks EXCEPT ![k] = Put(blocks[k], v, b)]
    <2>1. CASE k = 0
      <3>1. new = blocks
        BY <2>1
      <3>. QED BY <1>4, <3>1 DEF CastInBlock
    <2>2. CASE k # 0
      <3>1. k \in 1 .. Len(blocks) /\ blocks[k] \in Blocks
        BY <2>2
      <3>2. Put(blocks[k], v, b) \in Blocks
        BY <1>1, <3>1
      <3>3. new \in Seq(Blocks)
        BY <3>1, <3>2, ExceptSeq
      <3>. QED BY <1>4, <3>3 DEF CastInBlock
    <2>. QED BY <2>1, <2>2
  <1>. QED
    BY <1>3, <1>4

\* The fields of a form have their types, and may be given new values of them.
LEMMA FormUpdate ==
    ASSUME TypeOK, NEW f, Stored(f), NEW form \in Form,
           forms' = [forms EXCEPT ![f] = form],
           UNCHANGED <<adminList, formsMetadata>>
    PROVE  TypeOK'
  BY DEF TypeOK, Stored

\* No command on a form breaks the types of the store.
LEMMA LifecycleType ==
    ASSUME TypeOK, FormsInv, NEW f \in FormIDs, Lifecycle(f)
    PROVE  TypeOK'
  <1>1. ASSUME NEW u \in UserIDs, NEW r \in Rosters, NEW size \in BallotSizes,
               CreateForm(f, u, r, size)
        PROVE  TypeOK'
    <2>. DEFINE new == [status |-> Initial, pubkey |-> NoKey, ballotSize |-> size,
                        suffragia |-> <<>>, ballotCount |-> 0, shuffleInstances |-> <<>>,
                        shuffleThreshold |-> ByzantineThreshold(Cardinality(r)),
                        pubsharesUnits |-> <<>>, decryptedBallots |-> EmptyBag,
                        roster |-> r, owners |-> <<SciperToInt(u)>>, voters |-> <<>>]
    <2>1. ByzantineThreshold(Cardinality(r)) \in Nat
      BY ThresholdRange
    <2>2. SciperToInt(u) \in Scipers
      BY <1>1 DEF CreateForm, IsAdmin, IsRole, IsSciper, SciperToInt
    <2>3. new \in Form
      BY <2>1, <2>2, BallotAssumption, StatusNames DEF Form, Results
    <2>4. forms' = Put(forms, f, new) /\ formsMetadata' = formsMetadata \cup {f}
          /\ adminList' = adminList
      BY <1>1 DEF CreateForm, Listed
    <2>. HIDE DEF new
    <2>. QED BY <2>3, <2>4 DEF TypeOK, Put
  <1>2. ASSUME NEW u \in UserIDs, NEW key \in PubKeys, OpenForm(f, u, key)
        PROVE  TypeOK'
    <2>. DEFINE new == [forms[f] EXCEPT !.status = Open, !.pubkey = key]
    <2>1. /\ Stored(f) /\ forms[f] \in Form
          /\ forms' = [forms EXCEPT ![f] = new]
          /\ UNCHANGED <<adminList, formsMetadata>>
      BY <1>2 DEF TypeOK, OpenForm, Stored
    <2>2. new \in Form
      BY <2>1, StatusNames DEF Form
    <2>. HIDE DEF new
    <2>. QED BY <2>1, <2>2, FormUpdate
  <1>3. ASSUME NEW v \in UserIDs, NEW b \in Ciphervotes, CastVote(f, v, b)
        PROVE  TypeOK'
    <2>. DEFINE blocks == CastInBlock(forms[f].suffragia, forms[f].ballotCount, v, b)
                new == [forms[f] EXCEPT !.suffragia = blocks,
                                        !.ballotCount = forms[f].ballotCount + 1]
    <2>1. forms[f] \in Form
      BY <1>3 DEF TypeOK, CastVote, Stored
    <2>2. forms[f].suffragia \in Seq(Blocks) /\ forms[f].ballotCount \in Nat
      BY <2>1 DEF Form
    <2>3. blocks \in Seq(Blocks)
      BY <2>2, CastInBlockType
    <2>4. forms[f].ballotCount + 1 \in 0 .. MaxBallots
      BY <1>3, <2>2, BallotAssumption DEF CastVote
    <2>5. forms' = [forms EXCEPT ![f] = new] /\ UNCHANGED <<adminList, formsMetadata>>
      BY <1>3 DEF CastVote
    <2>. HIDE DEF blocks
    <2>6. new \in Form
      BY <2>1, <2>3, <2>4 DEF Form
    <2>. HIDE DEF new
    <2>. QED BY <1>3, <2>5, <2>6, FormUpdate DEF CastVote
  <1>4. ASSUME NEW u \in UserIDs, CloseForm(f, u)
        PROVE  TypeOK'
    <2>. DEFINE new == [forms[f] EXCEPT !.status = Closed]
    <2>1. /\ Stored(f) /\ forms[f] \in Form
          /\ forms' = [forms EXCEPT ![f] = new]
          /\ UNCHANGED <<adminList, formsMetadata>>
      BY <1>4 DEF TypeOK, CloseForm, Stored
    <2>2. new \in Form
      BY <2>1, StatusNames DEF Form
    <2>. HIDE DEF new
    <2>. QED BY <2>1, <2>2, FormUpdate
  <1>5. ASSUME NEW u \in UserIDs, NEW n \in Nodes, NEW round \in 0 .. Cardinality(Nodes),
               NEW proved \in Reencryptions, NEW output \in ShuffleOutputs,
               ShuffleBallots(f, u, n, round, proved, output)
        PROVE  TypeOK'
    <2>. DEFINE shuffles == Append(forms[f].shuffleInstances, [ballots |-> output, shuffler |-> n])
                next == IF ReachesThreshold(forms[f], Len(forms[f].shuffleInstances) + 1)
                        THEN ShuffledBallots ELSE forms[f].status
                new == [forms[f] EXCEPT !.shuffleInstances = shuffles, !.status = next]
    <2>1. /\ Stored(f) /\ forms[f] \in Form
          /\ forms' = [forms EXCEPT ![f] = new]
          /\ UNCHANGED <<adminList, formsMetadata>>
      BY <1>5 DEF TypeOK, ShuffleBallots, Stored
    <2>2. shuffles \in Seq([ballots : ShuffleOutputs, shuffler : Nodes]) /\ next \in Statuses
      BY <2>1, StatusNames DEF Form
    <2>. HIDE DEF shuffles, next
    <2>3. new \in Form
      BY <2>1, <2>2 DEF Form
    <2>. HIDE DEF new
    <2>. QED BY <2>1, <2>3, FormUpdate
  <1>6. ASSUME NEW n \in Nodes, NEW index \in Indexes, RegisterPubshares(f, n, index)
        PROVE  TypeOK'
    <2>. DEFINE units == Append(forms[f].pubsharesUnits, [pubKey |-> n, index |-> index])
                next == IF ReachesThreshold(forms[f], Len(forms[f].pubsharesUnits) + 1)
                        THEN PubSharesSubmitted ELSE forms[f].status
                new == [forms[f] EXCEPT !.pubsharesUnits = units, !.status = next]
    <2>1. /\ Stored(f) /\ forms[f] \in Form
          /\ forms' = [forms EXCEPT ![f] = new]
          /\ UNCHANGED <<adminList, formsMetadata>>
      BY <1>6 DEF TypeOK, RegisterPubshares, Stored
    <2>2. units \in Seq([pubKey : Nodes, index : Nat]) /\ next \in Statuses
      BY <2>1, RosterAssumption, StatusNames DEF Form
    <2>. HIDE DEF units, next
    <2>3. new \in Form
      BY <2>1, <2>2 DEF Form
    <2>. HIDE DEF new
    <2>. QED BY <2>1, <2>3, FormUpdate
  <1>7. ASSUME NEW u \in UserIDs, CombineShares(f, u)
        PROVE  TypeOK'
    <2>. DEFINE result == Decrypted(Last(forms[f].shuffleInstances).ballots)
                new == [forms[f] EXCEPT !.decryptedBallots = result, !.status = ResultAvailable]
    <2>1. /\ Stored(f) /\ forms[f] \in Form
          /\ forms' = [forms EXCEPT ![f] = new]
          /\ UNCHANGED <<adminList, formsMetadata>>
      BY <1>7 DEF TypeOK, CombineShares, Stored
    <2>2. Len(forms[f].shuffleInstances) \in Nat \ {0}
      <3>1. IsShuffled(forms[f])
        BY <1>7 DEF CombineShares, IsShuffled, ShuffledBallots, PubSharesSubmitted,
                    ResultAvailable
      <3>2. forms[f].roster \in Rosters /\ Len(forms[f].shuffleInstances) \in Nat
        BY <2>1 DEF Form
      <3>. QED BY <2>1, <3>1, <3>2, ThresholdRange DEF Stored, FormsInv, FormInv, ShuffleInv
    <2>3. result \in Results
      <3>1. forms[f].shuffleInstances \in Seq([ballots : ShuffleOutputs, shuffler : Nodes])
        BY <2>1 DEF Form
      <3>2. Last(forms[f].shuffleInstances) \in [ballots : ShuffleOutputs, shuffler : Nodes]
        BY <2>2, <3>1, LastType
      <3>3. Last(forms[f].shuffleInstances).ballots \in ShuffleOutputs
        BY <3>2
      <3>. QED BY <3>3 DEF Results
    <2>. HIDE DEF result
    <2>4. new \in Form
      BY <2>1, <2>3, StatusNames DEF Form
    <2>. HIDE DEF new
    <2>. QED BY <2>1, <2>4, FormUpdate
  <1>8. ASSUME NEW u \in UserIDs, CancelForm(f, u)
        PROVE  TypeOK'
    <2>. DEFINE new == [forms[f] EXCEPT !.status = Canceled]
    <2>1. /\ Stored(f) /\ forms[f] \in Form
          /\ forms' = [forms EXCEPT ![f] = new]
          /\ UNCHANGED <<adminList, formsMetadata>>
      BY <1>8 DEF TypeOK, CancelForm, Stored
    <2>2. new \in Form
      BY <2>1, StatusNames DEF Form
    <2>. HIDE DEF new
    <2>. QED BY <2>1, <2>2, FormUpdate
  <1>9. ASSUME NEW u \in UserIDs, DeleteForm(f, u)
        PROVE  TypeOK'
    BY <1>9 DEF TypeOK, DeleteForm, Delete, Listed
  <1>. QED
    BY <1>1, <1>2, <1>3, <1>4, <1>5, <1>6, <1>7, <1>8, <1>9 DEF Lifecycle

\* No command on admins, owners and voters does either.
LEMMA PermissionsType ==
    ASSUME TypeOK, Permissions
    PROVE  TypeOK'
  <1>1. ASSUME NEW t \in UserIDs, InitializeAdminList(t)
        PROVE  TypeOK'
    BY <1>1 DEF TypeOK, InitializeAdminList, IsSciper, SciperToInt, Listed
  <1>2. ASSUME NEW u \in UserIDs, NEW t \in UserIDs, AddAdmin(u, t)
        PROVE  TypeOK'
    BY <1>2, MemberLists DEF TypeOK, AddAdmin, IsAdmin
  <1>3. ASSUME NEW u \in UserIDs, NEW t \in UserIDs, RemoveAdmin(u, t)
        PROVE  TypeOK'
    BY <1>3, MemberLists DEF TypeOK, RemoveAdmin, IsAdmin
  <1>4. ASSUME NEW f \in FormIDs, NEW u \in UserIDs, NEW t \in UserIDs, AddVoter(f, u, t)
        PROVE  TypeOK'
    <2>. DEFINE list == AddMember(forms[f].voters, t)
                new == [forms[f] EXCEPT !.voters = list]
    <2>1. /\ Stored(f) /\ forms[f] \in Form
          /\ forms' = [forms EXCEPT ![f] = new]
          /\ UNCHANGED <<adminList, formsMetadata>>
      BY <1>4 DEF TypeOK, AddVoter, Stored
    <2>2. forms[f].voters \in Seq(Scipers)
      BY <2>1 DEF Form
    <2>3. list \in Seq(Scipers)
      BY <1>4, <2>2, MemberLists DEF AddVoter
    <2>. HIDE DEF list
    <2>4. new \in Form
      BY <2>1, <2>3 DEF Form
    <2>. HIDE DEF new
    <2>. QED BY <2>1, <2>4, FormUpdate
  <1>5. ASSUME NEW f \in FormIDs, NEW u \in UserIDs, NEW t \in UserIDs, RemoveVoter(f, u, t)
        PROVE  TypeOK'
    <2>. DEFINE list == RemoveMember(forms[f].voters, t)
                new == [forms[f] EXCEPT !.voters = list]
    <2>1. /\ Stored(f) /\ forms[f] \in Form
          /\ forms' = [forms EXCEPT ![f] = new]
          /\ UNCHANGED <<adminList, formsMetadata>>
      BY <1>5 DEF TypeOK, RemoveVoter, Stored
    <2>2. forms[f].voters \in Seq(Scipers)
      BY <2>1 DEF Form
    <2>3. list \in Seq(Scipers)
      BY <1>5, <2>2, MemberLists DEF RemoveVoter
    <2>. HIDE DEF list
    <2>4. new \in Form
      BY <2>1, <2>3 DEF Form
    <2>. HIDE DEF new
    <2>. QED BY <2>1, <2>4, FormUpdate
  <1>6. ASSUME NEW f \in FormIDs, NEW u \in UserIDs, NEW t \in UserIDs, AddOwner(f, u, t)
        PROVE  TypeOK'
    <2>. DEFINE list == AddMember(forms[f].owners, t)
                new == [forms[f] EXCEPT !.owners = list]
    <2>1. /\ Stored(f) /\ forms[f] \in Form
          /\ forms' = [forms EXCEPT ![f] = new]
          /\ UNCHANGED <<adminList, formsMetadata>>
      BY <1>6 DEF TypeOK, AddOwner, Stored
    <2>2. forms[f].owners \in Seq(Scipers)
      BY <2>1 DEF Form
    <2>3. list \in Seq(Scipers)
      BY <1>6, <2>2, MemberLists DEF AddOwner
    <2>. HIDE DEF list
    <2>4. new \in Form
      BY <2>1, <2>3 DEF Form
    <2>. HIDE DEF new
    <2>. QED BY <2>1, <2>4, FormUpdate
  <1>7. ASSUME NEW f \in FormIDs, NEW u \in UserIDs, NEW t \in UserIDs, RemoveOwner(f, u, t)
        PROVE  TypeOK'
    <2>. DEFINE list == RemoveMember(forms[f].owners, t)
                new == [forms[f] EXCEPT !.owners = list]
    <2>1. /\ Stored(f) /\ forms[f] \in Form
          /\ forms' = [forms EXCEPT ![f] = new]
          /\ UNCHANGED <<adminList, formsMetadata>>
      BY <1>7 DEF TypeOK, RemoveOwner, Stored
    <2>2. forms[f].owners \in Seq(Scipers)
      BY <2>1 DEF Form
    <2>3. list \in Seq(Scipers)
      BY <1>7, <2>2, MemberLists DEF RemoveOwner
    <2>. HIDE DEF list
    <2>4. new \in Form
      BY <2>1, <2>3 DEF Form
    <2>. HIDE DEF new
    <2>. QED BY <2>1, <2>4, FormUpdate
  <1>. QED
    BY <1>1, <1>2, <1>3, <1>4, <1>5, <1>6, <1>7 DEF Permissions

-----------------------------------------------------------------------------
(* What the statuses stand for is kept by every command. *)

\* A form that is replaced by one that satisfies FormInv.
LEMMA FormsInvUpdate ==
    ASSUME FormsInv, NEW f, NEW form, FormInv(form),
           forms' = [forms EXCEPT ![f] = form]
    PROVE  FormsInv'
  BY DEF FormsInv

\* FormInv is about the status, the roster, the shuffles, the shares and the
\* owners of a form, and nothing else.
LEMMA SameProgress ==
    ASSUME NEW old, NEW new, FormInv(old), new.owners # <<>>,
           new.status = old.status, new.roster = old.roster,
           new.shuffleThreshold = old.shuffleThreshold,
           new.shuffleInstances = old.shuffleInstances,
           new.pubsharesUnits = old.pubsharesUnits
    PROVE  FormInv(new)
  BY DEF FormInv, ShuffleInv, SharesInv, IsShuffled

\* A status with the same demands, or fewer, on shuffles and shares.
LEMMA StatusStep ==
    ASSUME NEW old \in Form, NEW new, FormInv(old), new.owners = old.owners,
           new.roster = old.roster,
           new.shuffleThreshold = old.shuffleThreshold,
           new.shuffleInstances = old.shuffleInstances,
           new.pubsharesUnits = old.pubsharesUnits,
           \/ old.status = Initial /\ new.status = Open
           \/ old.status = Open /\ new.status = Closed
           \/ old.status = PubSharesSubmitted /\ new.status = ResultAvailable
           \/ new.status = Canceled
    PROVE  FormInv(new)
  <1>1. old.shuffleThreshold \in Nat \ {0}
    <2>1. old.roster \in Rosters
      BY DEF Form
    <2>. QED BY <2>1, ThresholdRange DEF FormInv, ShuffleInv
  <1>2. ShuffleInv(new)
    BY <1>1 DEF FormInv, ShuffleInv, IsShuffled, Initial, Open, Closed,
            ShuffledBallots, PubSharesSubmitted, ResultAvailable, Canceled
  <1>3. SharesInv(new)
    BY <1>1 DEF FormInv, SharesInv, Initial, Open, Closed,
            ShuffledBallots, PubSharesSubmitted, ResultAvailable, Canceled
  <1>. QED
    BY <1>2, <1>3 DEF FormInv

\* One more shuffle, by a node that had not shuffled.
LEMMA ShuffleStep ==
    ASSUME NEW old \in Form, NEW new, FormInv(old), old.status = Closed,
           NEW n \in Nodes, NEW output \in ShuffleOutputs,
           CanShuffle(old, n, Len(old.shuffleInstances)),
           new.owners = old.owners, new.roster = old.roster,
           new.shuffleThreshold = old.shuffleThreshold,
           new.shuffleInstances =
               Append(old.shuffleInstances, [ballots |-> output, shuffler |-> n]),
           new.pubsharesUnits = old.pubsharesUnits,
           new.status = IF ReachesThreshold(old, Len(old.shuffleInstances) + 1)
                        THEN ShuffledBallots ELSE old.status
    PROVE  FormInv(new)
  <1>. DEFINE k == Len(old.shuffleInstances)
  <1>1. /\ old.shuffleThreshold \in Nat \ {0}
        /\ old.shuffleInstances \in Seq([ballots : ShuffleOutputs, shuffler : Nodes])
    <2>1. old.roster \in Rosters
      BY DEF Form
    <2>. QED BY <2>1, ThresholdRange DEF Form, FormInv, ShuffleInv
  <1>2. /\ k \in Nat /\ Len(new.shuffleInstances) = k + 1
        /\ \A i \in 1 .. k : new.shuffleInstances[i] = old.shuffleInstances[i]
        /\ new.shuffleInstances[k + 1].shuffler = n
    BY <1>1
  <1>3. /\ n \in old.roster
        /\ \A i \in 1 .. k : old.shuffleInstances[i].shuffler # n
    BY DEF CanShuffle
  <1>4. /\ old.shuffleThreshold = ByzantineThreshold(Cardinality(old.roster))
        /\ \A i \in 1 .. k : old.shuffleInstances[i].shuffler \in old.roster
        /\ \A i, j \in 1 .. k :
               old.shuffleInstances[i].shuffler = old.shuffleInstances[j].shuffler => i = j
        /\ old.pubsharesUnits = <<>>
    BY DEF FormInv, ShuffleInv, SharesInv
  <1>5. \/ new.status = Closed /\ k + 1 < new.shuffleThreshold
        \/ new.status = ShuffledBallots /\ k + 1 >= new.shuffleThreshold
    BY <1>1, <1>2 DEF ReachesThreshold
  <1>. HIDE DEF k
  <1>6. /\ \A i \in 1 .. k + 1 : new.shuffleInstances[i].shuffler \in new.roster
        /\ \A i, j \in 1 .. k + 1 :
               new.shuffleInstances[i].shuffler = new.shuffleInstances[j].shuffler => i = j
    BY <1>2, <1>3, <1>4
  <1>7. ShuffleInv(new)
    BY <1>1, <1>2, <1>4, <1>5, <1>6 DEF ShuffleInv, IsShuffled, Initial, Open, Closed,
            ShuffledBallots, PubSharesSubmitted, ResultAvailable, Canceled
  <1>8. SharesInv(new)
    BY <1>1, <1>4, <1>5 DEF SharesInv, Initial, Open, Closed,
            ShuffledBallots, PubSharesSubmitted, ResultAvailable, Canceled
  <1>. QED
    BY <1>7, <1>8 DEF FormInv

\* One more submission of shares, by a node that had not submitted.
LEMMA SharesStep ==
    ASSUME NEW old \in Form, NEW new, FormInv(old), old.status = ShuffledBallots,
           NEW n \in Nodes, NEW index \in Indexes, CanSubmitShares(old, n, index),
           new.owners = old.owners, new.roster = old.roster,
           new.shuffleThreshold = old.shuffleThreshold,
           new.shuffleInstances = old.shuffleInstances,
           new.pubsharesUnits =
               Append(old.pubsharesUnits, [pubKey |-> n, index |-> index]),
           new.status = IF ReachesThreshold(old, Len(old.pubsharesUnits) + 1)
                        THEN PubSharesSubmitted ELSE old.status
    PROVE  FormInv(new)
  <1>. DEFINE k == Len(old.pubsharesUnits)
  <1>1. /\ old.shuffleThreshold \in Nat \ {0}
        /\ old.pubsharesUnits \in Seq([pubKey : Nodes, index : Nat])
    <2>1. old.roster \in Rosters
      BY DEF Form
    <2>. QED BY <2>1, ThresholdRange DEF Form, FormInv, ShuffleInv
  <1>2. /\ k \in Nat /\ Len(new.pubsharesUnits) = k + 1
        /\ \A i \in 1 .. k : new.pubsharesUnits[i] = old.pubsharesUnits[i]
        /\ new.pubsharesUnits[k + 1].pubKey = n
        /\ new.pubsharesUnits[k + 1].index = index
    BY <1>1, RosterAssumption
  <1>3. /\ n \in old.roster
        /\ \A i \in 1 .. k : /\ old.pubsharesUnits[i].pubKey # n
                             /\ old.pubsharesUnits[i].index # index
    BY DEF CanSubmitShares
  <1>4. /\ \A i \in 1 .. k : old.pubsharesUnits[i].pubKey \in old.roster
        /\ \A i, j \in 1 .. k :
               \/ old.pubsharesUnits[i].pubKey = old.pubsharesUnits[j].pubKey
               \/ old.pubsharesUnits[i].index = old.pubsharesUnits[j].index
               => i = j
    BY DEF FormInv, SharesInv
  <1>5. \/ new.status = ShuffledBallots /\ k + 1 < new.shuffleThreshold
        \/ new.status = PubSharesSubmitted /\ k + 1 >= new.shuffleThreshold
    BY <1>1, <1>2 DEF ReachesThreshold
  <1>. HIDE DEF k
  <1>6. /\ \A i \in 1 .. k + 1 : new.pubsharesUnits[i].pubKey \in new.roster
        /\ \A i, j \in 1 .. k + 1 :
               \/ new.pubsharesUnits[i].pubKey = new.pubsharesUnits[j].pubKey
               \/ new.pubsharesUnits[i].index = new.pubsharesUnits[j].index
               => i = j
    BY <1>2, <1>3, <1>4
  <1>7. ShuffleInv(new)
    BY <1>5 DEF FormInv, ShuffleInv, IsShuffled, Initial, Open, Closed,
            ShuffledBallots, PubSharesSubmitted, ResultAvailable, Canceled
  <1>8. SharesInv(new)
    BY <1>1, <1>2, <1>5, <1>6 DEF SharesInv, Initial, Open, Closed,
            ShuffledBallots, PubSharesSubmitted, ResultAvailable, Canceled
  <1>. QED
    BY <1>7, <1>8 DEF FormInv

\* Every command on a form keeps what its status stands for.
LEMMA LifecycleForms ==
    ASSUME TypeOK, FormsInv, NEW f \in FormIDs, Lifecycle(f)
    PROVE  FormsInv'
  <1>0. ASSUME Stored(f) PROVE forms[f] \in Form /\ FormInv(forms[f])
    BY <1>0 DEF TypeOK, FormsInv, Stored
  <1>1. ASSUME NEW u \in UserIDs, NEW r \in Rosters, NEW size \in BallotSizes,
               CreateForm(f, u, r, size)
        PROVE  FormsInv'
    <2>. DEFINE new == [status |-> Initial, pubkey |-> NoKey, ballotSize |-> size,
                        suffragia |-> <<>>, ballotCount |-> 0, shuffleInstances |-> <<>>,
                        shuffleThreshold |-> ByzantineThreshold(Cardinality(r)),
                        pubsharesUnits |-> <<>>, decryptedBallots |-> EmptyBag,
                        roster |-> r, owners |-> <<SciperToInt(u)>>, voters |-> <<>>]
    <2>1. /\ new.status = Initial /\ new.roster = r
          /\ new.shuffleThreshold = ByzantineThreshold(Cardinality(r))
          /\ new.shuffleInstances = <<>> /\ new.pubsharesUnits = <<>>
          /\ new.owners # <<>>
      OBVIOUS
    <2>2. forms' = Put(forms, f, new)
      BY <1>1 DEF CreateForm
    <2>. HIDE DEF new
    <2>3. FormInv(new)
      BY <2>1 DEF FormInv, ShuffleInv, SharesInv, IsShuffled, Initial, Closed,
              ShuffledBallots, PubSharesSubmitted, ResultAvailable
    <2>. QED BY <2>2, <2>3 DEF FormsInv, Put
  <1>2. ASSUME NEW u \in UserIDs, NEW key \in PubKeys, OpenForm(f, u, key)
        PROVE  FormsInv'
    <2>. DEFINE new == [forms[f] EXCEPT !.status = Open, !.pubkey = key]
    <2>1. Stored(f) /\ forms[f].status = Initial /\ forms' = [forms EXCEPT ![f] = new]
      BY <1>2 DEF OpenForm
    <2>2. /\ new.status = Open /\ new.roster = forms[f].roster
          /\ new.shuffleThreshold = forms[f].shuffleThreshold
          /\ new.shuffleInstances = forms[f].shuffleInstances
          /\ new.pubsharesUnits = forms[f].pubsharesUnits
          /\ new.owners = forms[f].owners
      BY <1>0, <2>1 DEF Form
    <2>. HIDE DEF new
    <2>3. FormInv(new)
      BY <1>0, <2>1, <2>2, StatusStep
    <2>. QED BY <2>1, <2>3, FormsInvUpdate
  <1>3. ASSUME NEW v \in UserIDs, NEW b \in Ciphervotes, CastVote(f, v, b)
        PROVE  FormsInv'
    <2>. DEFINE blocks == CastInBlock(forms[f].suffragia, forms[f].ballotCount, v, b)
                new == [forms[f] EXCEPT !.suffragia = blocks,
                                        !.ballotCount = forms[f].ballotCount + 1]
    <2>1. Stored(f) /\ forms' = [forms EXCEPT ![f] = new]
      BY <1>3 DEF CastVote
    <2>. HIDE DEF blocks
    <2>2. /\ new.status = forms[f].status /\ new.roster = forms[f].roster
          /\ new.shuffleThreshold = forms[f].shuffleThreshold
          /\ new.shuffleInstances = forms[f].shuffleInstances
          /\ new.pubsharesUnits = forms[f].pubsharesUnits
          /\ new.owners = forms[f].owners
      BY <1>0, <2>1 DEF Form
    <2>. HIDE DEF new
    <2>3. FormInv(new)
      BY <1>0, <2>1, <2>2, SameProgress DEF FormInv
    <2>. QED BY <2>1, <2>3, FormsInvUpdate
  <1>4. ASSUME NEW u \in UserIDs, CloseForm(f, u)
        PROVE  FormsInv'
    <2>. DEFINE new == [forms[f] EXCEPT !.status = Closed]
    <2>1. Stored(f) /\ forms[f].status = Open /\ forms' = [forms EXCEPT ![f] = new]
      BY <1>4 DEF CloseForm
    <2>2. /\ new.status = Closed /\ new.roster = forms[f].roster
          /\ new.shuffleThreshold = forms[f].shuffleThreshold
          /\ new.shuffleInstances = forms[f].shuffleInstances
          /\ new.pubsharesUnits = forms[f].pubsharesUnits
          /\ new.owners = forms[f].owners
      BY <1>0, <2>1 DEF Form
    <2>. HIDE DEF new
    <2>3. FormInv(new)
      BY <1>0, <2>1, <2>2, StatusStep
    <2>. QED BY <2>1, <2>3, FormsInvUpdate
  <1>5. ASSUME NEW u \in UserIDs, NEW n \in Nodes, NEW round \in 0 .. Cardinality(Nodes),
               NEW proved \in Reencryptions, NEW output \in ShuffleOutputs,
               ShuffleBallots(f, u, n, round, proved, output)
        PROVE  FormsInv'
    <2>. DEFINE shuffles == Append(forms[f].shuffleInstances, [ballots |-> output, shuffler |-> n])
                next == IF ReachesThreshold(forms[f], Len(forms[f].shuffleInstances) + 1)
                        THEN ShuffledBallots ELSE forms[f].status
                new == [forms[f] EXCEPT !.shuffleInstances = shuffles, !.status = next]
    <2>1. /\ Stored(f) /\ forms[f].status = Closed
          /\ CanShuffle(forms[f], n, Len(forms[f].shuffleInstances))
          /\ forms' = [forms EXCEPT ![f] = new]
      BY <1>5 DEF ShuffleBallots, TakesShuffle, CanShuffle
    <2>2. /\ new.status = next /\ new.roster = forms[f].roster
          /\ new.shuffleThreshold = forms[f].shuffleThreshold
          /\ new.shuffleInstances = shuffles
          /\ new.pubsharesUnits = forms[f].pubsharesUnits
          /\ new.owners = forms[f].owners
      <3>. HIDE DEF next, shuffles
      <3>. QED BY <1>0, <2>1 DEF Form
    <2>. HIDE DEF new
    <2>3. FormInv(new)
      BY <1>0, <2>1, <2>2, ShuffleStep
    <2>. QED BY <2>1, <2>3, FormsInvUpdate
  <1>6. ASSUME NEW n \in Nodes, NEW index \in Indexes, RegisterPubshares(f, n, index)
        PROVE  FormsInv'
    <2>. DEFINE units == Append(forms[f].pubsharesUnits, [pubKey |-> n, index |-> index])
                next == IF ReachesThreshold(forms[f], Len(forms[f].pubsharesUnits) + 1)
                        THEN PubSharesSubmitted ELSE forms[f].status
                new == [forms[f] EXCEPT !.pubsharesUnits = units, !.status = next]
    <2>1. /\ Stored(f) /\ forms[f].status = ShuffledBallots
          /\ CanSubmitShares(forms[f], n, index)
          /\ forms' = [forms EXCEPT ![f] = new]
      BY <1>6 DEF RegisterPubshares
    <2>2. /\ new.status = next /\ new.roster = forms[f].roster
          /\ new.shuffleThreshold = forms[f].shuffleThreshold
          /\ new.shuffleInstances = forms[f].shuffleInstances
          /\ new.pubsharesUnits = units
          /\ new.owners = forms[f].owners
      <3>. HIDE DEF next, units
      <3>. QED BY <1>0, <2>1 DEF Form
    <2>. HIDE DEF new
    <2>3. FormInv(new)
      BY <1>0, <2>1, <2>2, SharesStep
    <2>. QED BY <2>1, <2>3, FormsInvUpdate
  <1>7. ASSUME NEW u \in UserIDs, CombineShares(f, u)
        PROVE  FormsInv'
    <2>. DEFINE result == Decrypted(Last(forms[f].shuffleInstances).ballots)
                new == [forms[f] EXCEPT !.decryptedBallots = result, !.status = ResultAvailable]
    <2>1. /\ Stored(f) /\ forms[f].status = PubSharesSubmitted
          /\ forms' = [forms EXCEPT ![f] = new]
      BY <1>7 DEF CombineShares
    <2>. HIDE DEF result
    <2>2. /\ new.status = ResultAvailable /\ new.roster = forms[f].roster
          /\ new.shuffleThreshold = forms[f].shuffleThreshold
          /\ new.shuffleInstances = forms[f].shuffleInstances
          /\ new.pubsharesUnits = forms[f].pubsharesUnits
          /\ new.owners = forms[f].owners
      BY <1>0, <2>1 DEF Form
    <2>. HIDE DEF new
    <2>3. FormInv(new)
      BY <1>0, <2>1, <2>2, StatusStep
    <2>. QED BY <2>1, <2>3, FormsInvUpdate
  <1>8. ASSUME NEW u \in UserIDs, CancelForm(f, u)
        PROVE  FormsInv'
    <2>. DEFINE new == [forms[f] EXCEPT !.status = Canceled]
    <2>1. Stored(f) /\ forms' = [forms EXCEPT ![f] = new]
      BY <1>8 DEF CancelForm
    <2>2. /\ new.status = Canceled /\ new.roster = forms[f].roster
          /\ new.shuffleThreshold = forms[f].shuffleThreshold
          /\ new.shuffleInstances = forms[f].shuffleInstances
          /\ new.pubsharesUnits = forms[f].pubsharesUnits
          /\ new.owners = forms[f].owners
      BY <1>0, <2>1 DEF Form
    <2>. HIDE DEF new
    <2>3. FormInv(new)
      BY <1>0, <2>1, <2>2, StatusStep
    <2>. QED BY <2>1, <2>3, FormsInvUpdate
  <1>9. ASSUME NEW u \in UserIDs, DeleteForm(f, u)
        PROVE  FormsInv'
    BY <1>9 DEF FormsInv, DeleteForm, Delete
  <1>. QED
    BY <1>1, <1>2, <1>3, <1>4, <1>5, <1>6, <1>7, <1>8, <1>9 DEF Lifecycle

\* The commands on owners and voters leave shuffles and shares alone, and leave
\* an owner.
LEMMA PermissionsForms ==
    ASSUME TypeOK, FormsInv, Permissions
    PROVE  FormsInv'
  <1>0. ASSUME NEW f, Stored(f) PROVE forms[f] \in Form /\ FormInv(forms[f])
    BY <1>0 DEF TypeOK, FormsInv, Stored
  <1>1. ASSUME UNCHANGED forms PROVE FormsInv'
    BY <1>1 DEF FormsInv
  <1>2. ASSUME NEW f \in FormIDs, NEW u \in UserIDs, NEW t \in UserIDs, AddVoter(f, u, t)
        PROVE  FormsInv'
    <2>. DEFINE list == AddMember(forms[f].voters, t)
                new == [forms[f] EXCEPT !.voters = list]
    <2>1. Stored(f) /\ forms' = [forms EXCEPT ![f] = new]
      BY <1>2 DEF AddVoter
    <2>. HIDE DEF list
    <2>3. /\ new.status = forms[f].status /\ new.roster = forms[f].roster
          /\ new.shuffleThreshold = forms[f].shuffleThreshold
          /\ new.shuffleInstances = forms[f].shuffleInstances
          /\ new.pubsharesUnits = forms[f].pubsharesUnits
          /\ new.owners = forms[f].owners
      BY <1>0, <2>1 DEF Form
    <2>. HIDE DEF new
    <2>4. FormInv(new)
      BY <1>0, <2>1, <2>3, SameProgress DEF FormInv
    <2>. QED BY <2>1, <2>4, FormsInvUpdate
  <1>3. ASSUME NEW f \in FormIDs, NEW u \in UserIDs, NEW t \in UserIDs, RemoveVoter(f, u, t)
        PROVE  FormsInv'
    <2>. DEFINE list == RemoveMember(forms[f].voters, t)
                new == [forms[f] EXCEPT !.voters = list]
    <2>1. Stored(f) /\ forms' = [forms EXCEPT ![f] = new]
      BY <1>3 DEF RemoveVoter
    <2>. HIDE DEF list
    <2>3. /\ new.status = forms[f].status /\ new.roster = forms[f].roster
          /\ new.shuffleThreshold = forms[f].shuffleThreshold
          /\ new.shuffleInstances = forms[f].shuffleInstances
          /\ new.pubsharesUnits = forms[f].pubsharesUnits
          /\ new.owners = forms[f].owners
      BY <1>0, <2>1 DEF Form
    <2>. HIDE DEF new
    <2>4. FormInv(new)
      BY <1>0, <2>1, <2>3, SameProgress DEF FormInv
    <2>. QED BY <2>1, <2>4, FormsInvUpdate
  <1>4. ASSUME NEW f \in FormIDs, NEW u \in UserIDs, NEW t \in UserIDs, AddOwner(f, u, t)
        PROVE  FormsInv'
    <2>. DEFINE list == AddMember(forms[f].owners, t)
                new == [forms[f] EXCEPT !.owners = list]
    <2>1. Stored(f) /\ forms' = [forms EXCEPT ![f] = new]
      BY <1>4 DEF AddOwner
    <2>2. list # <<>>
      <3>1. forms[f].owners \in Seq(Scipers)
        BY <1>0, <2>1 DEF Form
      <3>. QED BY <1>4, <3>1, MemberLists DEF AddOwner
    <2>. HIDE DEF list
    <2>3. /\ new.status = forms[f].status /\ new.roster = forms[f].roster
          /\ new.shuffleThreshold = forms[f].shuffleThreshold
          /\ new.shuffleInstances = forms[f].shuffleInstances
          /\ new.pubsharesUnits = forms[f].pubsharesUnits
          /\ new.owners = list
      BY <1>0, <2>1 DEF Form
    <2>. HIDE DEF new
    <2>4. FormInv(new)
      BY <1>0, <2>1, <2>2, <2>3, SameProgress
    <2>. QED BY <2>1, <2>4, FormsInvUpdate
  <1>5. ASSUME NEW f \in FormIDs, NEW u \in UserIDs, NEW t \in UserIDs, RemoveOwner(f, u, t)
        PROVE  FormsInv'
    <2>. DEFINE list == RemoveMember(forms[f].owners, t)
                new == [forms[f] EXCEPT !.owners = list]
    <2>1. Stored(f) /\ forms' = [forms EXCEPT ![f] = new]
      BY <1>5 DEF RemoveOwner
    <2>2. list # <<>>
      <3>1. forms[f].owners \in Seq(Scipers)
        BY <1>0, <2>1 DEF Form
      <3>. QED BY <1>5, <3>1, MemberLists DEF RemoveOwner, CanRemoveLast
    <2>. HIDE DEF list
    <2>3. /\ new.status = forms[f].status /\ new.roster = forms[f].roster
          /\ new.shuffleThreshold = forms[f].shuffleThreshold
          /\ new.shuffleInstances = forms[f].shuffleInstances
          /\ new.pubsharesUnits = forms[f].pubsharesUnits
          /\ new.owners = list
      BY <1>0, <2>1 DEF Form
    <2>. HIDE DEF new
    <2>4. FormInv(new)
      BY <1>0, <2>1, <2>2, <2>3, SameProgress
    <2>. QED BY <2>1, <2>4, FormsInvUpdate
  <1>. QED
    BY <1>1, <1>2, <1>3, <1>4, <1>5
    DEF Permissions, InitializeAdminList, AddAdmin, RemoveAdmin

-----------------------------------------------------------------------------
(* The admin list and the list of forms. *)

\* The admin list keeps someone and gets no duplicates.
LEMMA AdminListStep ==
    ASSUME TypeOK, AdminInv, [Next]_vars
    PROVE  AdminInv'
  <1>1. ASSUME UNCHANGED adminList PROVE AdminInv'
    BY <1>1 DEF AdminInv
  <1>2. ASSUME NEW t \in UserIDs, InitializeAdminList(t)
        PROVE  AdminInv'
    BY <1>2 DEF AdminInv, InitializeAdminList
  <1>3. ASSUME NEW u \in UserIDs, NEW t \in UserIDs, AddAdmin(u, t)
        PROVE  AdminInv'
    <2>1. adminList \in Seq(Scipers) /\ SciperToInt(t) \in Scipers
      BY <1>3 DEF TypeOK, AddAdmin, IsAdmin, CanAddMember, IsSciper, SciperToInt
    <2>2. /\ \A i, j \in 1 .. Len(adminList) : adminList[i] = adminList[j] => i = j
          /\ \A i \in 1 .. Len(adminList) : adminList[i] # SciperToInt(t)
          /\ adminList' = Append(adminList, SciperToInt(t))
      BY <1>3 DEF AdminInv, AddAdmin, IsAdmin, AddMember, Contains
    <2>. HIDE DEF Scipers
    <2>. QED BY <2>1, <2>2 DEF AdminInv
  <1>4. ASSUME NEW u \in UserIDs, NEW t \in UserIDs, RemoveAdmin(u, t)
        PROVE  AdminInv'
    <2>1. /\ adminList \in Seq(Scipers) /\ IsRole(adminList, t) /\ Len(adminList) > 1
          /\ adminList' = RemoveMember(adminList, t)
          /\ \A i, j \in 1 .. Len(adminList) : adminList[i] = adminList[j] => i = j
      BY <1>4 DEF TypeOK, AdminInv, RemoveAdmin, IsAdmin, CanRemoveLast
    <2>2. adminList' # <<>>
      BY <2>1, MemberLists
    <2>3. \A i, j \in 1 .. Len(adminList') : adminList'[i] = adminList'[j] => i = j
      BY <2>1, RemoveFirstDistinct DEF IsRole, RemoveMember
    <2>. QED BY <2>2, <2>3 DEF AdminInv
  <1>5. ASSUME NEW f \in FormIDs, Lifecycle(f)
        PROVE  AdminInv'
    BY <1>1, <1>5
    DEF Lifecycle, CreateForm, OpenForm, CastVote, CloseForm, ShuffleBallots,
        RegisterPubshares, CombineShares, CancelForm, DeleteForm
  <1>6. ASSUME Permissions
        PROVE  AdminInv'
    BY <1>1, <1>2, <1>3, <1>4, <1>6
    DEF Permissions, AddVoter, RemoveVoter, AddOwner, RemoveOwner
  <1>. QED
    BY <1>1, <1>5, <1>6 DEF Next, vars

\* What is stored is listed.
LEMMA ListedStep ==
    ASSUME TypeOK, TypeOK', StoredFormsListed, [Next]_vars
    PROVE  StoredFormsListed'
  <1>1. ASSUME DOMAIN forms' = DOMAIN forms, UNCHANGED formsMetadata,
               adminList' # NoList <=> adminList # NoList
        PROVE  StoredFormsListed'
    BY <1>1 DEF StoredFormsListed
  <1>2. ASSUME NEW t \in UserIDs, InitializeAdminList(t)
        PROVE  StoredFormsListed'
    <2>1. adminList' # NoList
      <3>1. SciperToInt(t) \in Scipers /\ adminList' = <<SciperToInt(t)>>
        BY <1>2 DEF InitializeAdminList, IsSciper, SciperToInt
      <3>2. adminList' \in Seq(Scipers)
        BY <3>1
      <3>. QED BY <3>2, StoreAssumption
    <2>. QED BY <1>2, <2>1 DEF StoredFormsListed, InitializeAdminList, Listed
  <1>3. ASSUME NEW u \in UserIDs, NEW t \in UserIDs, AddAdmin(u, t) \/ RemoveAdmin(u, t)
        PROVE  StoredFormsListed'
    <2>1. adminList \in Seq(Scipers)
      BY <1>3 DEF TypeOK, AddAdmin, RemoveAdmin, IsAdmin
    <2>2. adminList' \in Seq(Scipers)
      BY <1>3, <2>1, MemberLists DEF AddAdmin, RemoveAdmin
    <2>3. adminList' # NoList /\ adminList # NoList
      BY <2>1, <2>2, StoreAssumption
    <2>. QED BY <1>1, <1>3, <2>3 DEF AddAdmin, RemoveAdmin
  <1>4. ASSUME NEW f \in FormIDs, NEW u \in UserIDs, NEW r \in Rosters, NEW size \in BallotSizes,
               CreateForm(f, u, r, size)
        PROVE  StoredFormsListed'
    <2>1. DOMAIN forms' = DOMAIN forms \cup {f}
      BY <1>4 DEF CreateForm, Put
    <2>. QED
      BY <1>4, <2>1, StoreAssumption DEF StoredFormsListed, CreateForm, Listed
  <1>5. ASSUME NEW f \in FormIDs, NEW u \in UserIDs, DeleteForm(f, u)
        PROVE  StoredFormsListed'
    BY <1>5, StoreAssumption DEF StoredFormsListed, DeleteForm, Delete, Listed
  <1>6. ASSUME NEW f \in FormIDs, Lifecycle(f)
        PROVE  StoredFormsListed'
    BY <1>1, <1>4, <1>5, <1>6
    DEF Lifecycle, OpenForm, CastVote, CloseForm, ShuffleBallots, RegisterPubshares,
        CombineShares, CancelForm
  <1>7. ASSUME Permissions
        PROVE  StoredFormsListed'
    BY <1>1, <1>2, <1>3, <1>7
    DEF Permissions, AddVoter, RemoveVoter, AddOwner, RemoveOwner
  <1>8. ASSUME UNCHANGED vars
        PROVE  StoredFormsListed'
    BY <1>1, <1>8 DEF vars
  <1>. QED
    BY <1>6, <1>7, <1>8 DEF Next

-----------------------------------------------------------------------------
(* The theorems. *)

\* The invariant holds at the start and every command of the contract keeps it.
THEOREM InvariantHolds == Spec => []IInv
  <1>1. Init => IInv
    <2>. SUFFICES ASSUME Init PROVE IInv
      OBVIOUS
    <2>1. DOMAIN forms = {} /\ forms \in [DOMAIN forms -> Form]
      BY DEF Init
    <2>. QED
      BY <2>1 DEF Init, IInv, TypeOK, FormsInv, AdminInv, StoredFormsListed
  <1>2. IInv /\ [Next]_vars => IInv'
    <2>. SUFFICES ASSUME IInv, [Next]_vars PROVE IInv'
      OBVIOUS
    <2>. USE DEF IInv
    <2>1. TypeOK' /\ FormsInv'
      <3>1. ASSUME NEW f \in FormIDs, Lifecycle(f) PROVE TypeOK' /\ FormsInv'
        BY <3>1, LifecycleType, LifecycleForms
      <3>2. ASSUME Permissions PROVE TypeOK' /\ FormsInv'
        BY <3>2, PermissionsType, PermissionsForms
      <3>3. ASSUME UNCHANGED vars PROVE TypeOK' /\ FormsInv'
        BY <3>3 DEF vars, TypeOK, FormsInv
      <3>. QED BY <3>1, <3>2, <3>3 DEF Next
    <2>2. AdminInv'
      BY AdminListStep
    <2>3. StoredFormsListed'
      BY <2>1, ListedStep
    <2>. QED BY <2>1, <2>2, <2>3
  <1>. QED
    BY <1>1, <1>2, PTL DEF Spec

\* The contract's store keeps its types (types/election.go, types/admin.go).
THEOREM TypeCorrect == Spec => []TypeOK
  <1>1. IInv => TypeOK
    BY DEF IInv
  <1>. QED
    BY <1>1, InvariantHolds, PTL

\* The shufflers of a form that satisfies FormInv, as a list.
LEMMA ShufflerList ==
    ASSUME NEW form \in Form, FormInv(form)
    PROVE  LET s == [i \in 1 .. Len(form.shuffleInstances) |->
                         form.shuffleInstances[i].shuffler]
           IN  /\ s \in Seq(form.roster) /\ Len(s) = Len(form.shuffleInstances)
               /\ Len(s) \in Nat
               /\ \A i \in 1 .. Len(s) : s[i] = form.shuffleInstances[i].shuffler
               /\ \A i, j \in 1 .. Len(s) : s[i] = s[j] => i = j
  <1>. DEFINE k == Len(form.shuffleInstances)
              s == [i \in 1 .. k |-> form.shuffleInstances[i].shuffler]
  <1>1. k \in Nat
    BY DEF Form
  <1>2. /\ \A i \in 1 .. k : form.shuffleInstances[i].shuffler \in form.roster
        /\ \A i, j \in 1 .. k :
               form.shuffleInstances[i].shuffler = form.shuffleInstances[j].shuffler => i = j
    BY DEF FormInv, ShuffleInv
  <1>. HIDE DEF k
  <1>3. s \in Seq(form.roster) /\ Len(s) = k
    BY <1>1, <1>2
  <1>. QED
    BY <1>1, <1>2, <1>3 DEF k

\* Ballots are not decrypted before a threshold of the form's nodes has
\* shuffled them (shuffleBallots, registerPubshares, combineShares).
THEOREM ShuffleBeforeDecryption == Spec => []DecryptOnlyAfterShuffle
  <1>1. IInv => DecryptOnlyAfterShuffle
    <2>. SUFFICES ASSUME IInv, NEW f \in DOMAIN forms
                  PROVE  LET shufflers == {forms[f].shuffleInstances[i].shuffler :
                                               i \in 1 .. Len(forms[f].shuffleInstances)}
                         IN  /\ shufflers \subseteq forms[f].roster
                             /\ IsShuffled(forms[f]) =>
                                    Cardinality(shufflers) >=
                                        ByzantineThreshold(Cardinality(forms[f].roster))
                             /\ ~IsShuffled(forms[f]) /\ forms[f].status # Canceled =>
                                    forms[f].pubsharesUnits = <<>>
      BY DEF DecryptOnlyAfterShuffle
    <2>. DEFINE form == forms[f]
                s == [i \in 1 .. Len(form.shuffleInstances) |->
                          form.shuffleInstances[i].shuffler]
                shufflers == {form.shuffleInstances[i].shuffler :
                                  i \in 1 .. Len(form.shuffleInstances)}
    <2>1. form \in Form /\ FormInv(form)
      BY DEF IInv, TypeOK, FormsInv
    <2>. HIDE DEF form
    <2>2. /\ s \in Seq(form.roster) /\ Len(s) = Len(form.shuffleInstances)
          /\ \A i \in 1 .. Len(s) : s[i] = form.shuffleInstances[i].shuffler
          /\ \A i, j \in 1 .. Len(s) : s[i] = s[j] => i = j
      BY <2>1, ShufflerList
    <2>. HIDE DEF s
    <2>3. shufflers = {s[i] : i \in 1 .. Len(s)}
      BY <2>2
    <2>4. Cardinality(shufflers) = Len(form.shuffleInstances)
      BY <2>2, <2>3, DistinctEntries
    <2>5. shufflers \subseteq form.roster
      BY <2>2, <2>3
    <2>. HIDE DEF shufflers
    <2>6. IsShuffled(form) =>
              Cardinality(shufflers) >= ByzantineThreshold(Cardinality(form.roster))
      BY <2>1, <2>4 DEF FormInv, ShuffleInv
    <2>7. ~IsShuffled(form) /\ form.status # Canceled => form.pubsharesUnits = <<>>
      <3>1. form.status \in Statuses
        BY <2>1 DEF Form
      <3>. QED
        BY <2>1, <3>1 DEF FormInv, SharesInv, IsShuffled, Statuses, Initial, Open, Closed,
                ShuffledBallots, PubSharesSubmitted, ResultAvailable, Canceled
    <2>. QED
      BY <2>5, <2>6, <2>7 DEF shufflers, form
  <1>. QED
    BY <1>1, InvariantHolds, PTL

\* The submissions that combineShares interpolates with are a threshold of
\* different points (registerPubshares).
THEOREM SharesSuffice == Spec => []SharesRecoverSecret
  <1>1. IInv => SharesRecoverSecret
    <2>. SUFFICES ASSUME IInv, NEW f \in DOMAIN forms
                  PROVE  LET units == {forms[f].pubsharesUnits[i] :
                                           i \in 1 .. Len(forms[f].pubsharesUnits)}
                         IN  /\ \A x, y \in units : x.index = y.index => x = y
                             /\ \A x \in units : x.pubKey \in forms[f].roster
                             /\ Cardinality(units) = Len(forms[f].pubsharesUnits)
                             /\ forms[f].status \in {PubSharesSubmitted, ResultAvailable} =>
                                    Cardinality(units) >=
                                        ByzantineThreshold(Cardinality(forms[f].roster))
      BY DEF SharesRecoverSecret
    <2>. DEFINE form == forms[f]
                s == form.pubsharesUnits
                units == {s[i] : i \in 1 .. Len(s)}
    <2>1. form \in Form /\ FormInv(form)
      BY DEF IInv, TypeOK, FormsInv
    <2>. HIDE DEF form
    <2>2. /\ s \in Seq([pubKey : Nodes, index : Nat]) /\ form.roster \subseteq Nodes
      BY <2>1, RosterAssumption DEF Form
    <2>3. /\ \A i \in 1 .. Len(s) : s[i].pubKey \in form.roster
          /\ \A i, j \in 1 .. Len(s) : s[i].pubKey = s[j].pubKey \/ s[i].index = s[j].index => i = j
          /\ form.status \in {PubSharesSubmitted, ResultAvailable} =>
                 Len(s) >= ByzantineThreshold(Cardinality(form.roster))
      BY <2>1 DEF FormInv, ShuffleInv, SharesInv
    <2>. HIDE DEF s
    <2>4. \A i, j \in 1 .. Len(s) : s[i].index = s[j].index => i = j
      BY <2>3
    <2>5. Cardinality(units) = Len(s)
      <3>1. \A i, j \in 1 .. Len(s) : s[i] = s[j] => i = j
        BY <2>3
      <3>. QED BY <2>2, <3>1, DistinctEntries
    <2>6. \A x, y \in units : x.index = y.index => x = y
      BY <2>4
    <2>7. \A x \in units : x.pubKey \in form.roster
      BY <2>3
    <2>. HIDE DEF units
    <2>. QED
      BY <2>3, <2>5, <2>6, <2>7 DEF units, s, form
  <1>. QED
    BY <1>1, InvariantHolds, PTL

\* No sequence of additions and removals leaves the contract without admin, or
\* a form without owner (RemoveAdmin, RemoveOwner).
THEOREM AdministrationRemains == Spec => []SomeoneInCharge
  <1>1. IInv => SomeoneInCharge
    BY DEF IInv, AdminInv, FormsInv, FormInv, SomeoneInCharge
  <1>. QED
    BY <1>1, InvariantHolds, PTL

\* A stored form is listed (updateFormMetadataStore).
THEOREM FormsListed == Spec => []StoredFormsListed
  <1>1. IInv => StoredFormsListed
    BY DEF IInv
  <1>. QED
    BY <1>1, InvariantHolds, PTL

\* An admin who is removed is not an admin (AddAdmin, RemoveAdmin).
THEOREM AdminRemoval == Spec => RemovedAdminHasNoRights
  <1>1. IInv /\ [Next]_vars =>
            [\A u, t \in UserIDs : RemoveAdmin(u, t) => ~IsAdmin(t)']_vars
    <2>. SUFFICES ASSUME IInv, NEW u \in UserIDs, NEW t \in UserIDs, RemoveAdmin(u, t)
                  PROVE  ~IsAdmin(t)'
      OBVIOUS
    <2>1. /\ adminList \in Seq(Scipers) /\ Contains(adminList, SciperToInt(t))
          /\ \A i, j \in 1 .. Len(adminList) : adminList[i] = adminList[j] => i = j
          /\ adminList' = RemoveFirst(adminList, SciperToInt(t))
      BY DEF IInv, TypeOK, AdminInv, RemoveAdmin, IsAdmin, IsRole, RemoveMember
    <2>2. ~Contains(adminList', SciperToInt(t))
      BY <2>1, RemoveFirstDistinct
    <2>. QED BY <2>2 DEF IsAdmin, IsRole
  <1>. QED
    BY <1>1, InvariantHolds, PTL DEF Spec, RemovedAdminHasNoRights

-----------------------------------------------------------------------------
(***************************************************************************)
(* The blocks of ballots. Form.CastVote decides by the count of casts      *)
(* whether to open a block, and the count grows with every cast, also with *)
(* one that replaces a vote: the last block has never more voters than the *)
(* casts since it was opened.                                              *)
(***************************************************************************)

\* The blocks that count casts fill.
Filled(blocks, count) ==
    /\ Len(blocks) * BallotsPerBlock >= count
    /\ (Len(blocks) - 1) * BallotsPerBlock < count
    /\ \A i \in 1 .. Len(blocks) :
           /\ IsFiniteSet(DOMAIN blocks[i])
           /\ Cardinality(DOMAIN blocks[i]) \in 1 .. BallotsPerBlock
    /\ blocks # <<>> =>
           Cardinality(DOMAIN blocks[Len(blocks)]) <=
               count - (Len(blocks) - 1) * BallotsPerBlock

BlocksInv ==
    \A f \in DOMAIN forms : Filled(forms[f].suffragia, forms[f].ballotCount)

\* Between two multiples of B that follow each other there is one multiple.
LEMMA Multiples ==
    ASSUME NEW B \in Nat \ {0}, NEW k \in Nat, NEW q \in Int,
           (k - 1) * B < q * B, q * B <= k * B
    PROVE  q = k
  <1>1. ASSUME q <= k - 1 PROVE FALSE
    <2>1. PICK d \in Nat : k - 1 = q + d
      BY <1>1
    <2>2. (k - 1) * B = q * B + d * B /\ d * B \in Nat
      BY <2>1
    <2>. QED BY <2>2
  <1>2. ASSUME q >= k + 1 PROVE FALSE
    <2>1. PICK d \in Nat : q = (k + 1) + d
      BY <1>2
    <2>2. q * B = k * B + B + d * B /\ d * B \in Nat /\ k * B \in Nat
      BY <2>1
    <2>. QED BY <2>2
  <1>. QED
    BY <1>1, <1>2

\* A cast finds the last block full exactly when the count is a multiple of
\* the size of the blocks.
LEMMA RoomInBlock ==
    ASSUME NEW k \in Nat, NEW count \in Nat,
           k * BallotsPerBlock >= count, (k - 1) * BallotsPerBlock < count
    PROVE  /\ count % BallotsPerBlock = 0 => count = k * BallotsPerBlock
           /\ count % BallotsPerBlock # 0 => count < k * BallotsPerBlock /\ k # 0
  <1>. DEFINE B == BallotsPerBlock
              q == count \div B
  <1>1. B \in Nat \ {0}
    BY BallotAssumption
  <1>. HIDE DEF B
  <1>2. q \in Int /\ count = (q * B) + (count % B) /\ count % B \in Nat
    BY <1>1
  <1>. HIDE DEF q
  <1>3. ASSUME count % B = 0 PROVE count = k * B
    <2>1. count = q * B
      BY <1>1, <1>2, <1>3
    <2>2. (k - 1) * B < q * B /\ q * B <= k * B
      BY <1>1, <2>1 DEF B
    <2>3. q = k
      BY <1>1, <1>2, <2>2, Multiples
    <2>. QED BY <2>1, <2>3
  <1>4. ASSUME count % B # 0 PROVE count < k * B /\ k # 0
    <2>1. (k * B) % B = 0
      BY <1>1
    <2>2. count # k * B
      BY <1>4, <2>1
    <2>3. k # 0
      BY <1>1, <2>2 DEF B
    <2>. QED BY <1>1, <2>2, <2>3 DEF B
  <1>. QED
    BY <1>3, <1>4 DEF B

\* A ballot put in a block adds at most its voter.
LEMMA PutVoters ==
    ASSUME NEW block, IsFiniteSet(DOMAIN block), NEW v, NEW b
    PROVE  /\ DOMAIN Put(block, v, b) = DOMAIN block \cup {v}
           /\ IsFiniteSet(DOMAIN Put(block, v, b))
           /\ Cardinality(DOMAIN Put(block, v, b)) \in Nat \ {0}
           /\ Cardinality(DOMAIN Put(block, v, b)) <= Cardinality(DOMAIN block) + 1
  <1>1. DOMAIN Put(block, v, b) = DOMAIN block \cup {v}
    BY DEF Put
  <1>2. /\ IsFiniteSet(DOMAIN block \cup {v})
        /\ Cardinality(DOMAIN block) \in Nat
        /\ Cardinality(DOMAIN block \cup {v}) =
               IF v \in DOMAIN block THEN Cardinality(DOMAIN block)
                                     ELSE Cardinality(DOMAIN block) + 1
    BY FS_AddElement, FS_CardinalityType
  <1>3. Cardinality(DOMAIN block \cup {v}) \in Nat
    BY <1>2, FS_CardinalityType
  <1>4. Cardinality(DOMAIN block \cup {v}) # 0
    BY <1>2, FS_EmptySet
  <1>. QED
    BY <1>1, <1>2, <1>3, <1>4

\* Form.CastVote fills the blocks up to the new count.
LEMMA CastFills ==
    ASSUME NEW blocks \in Seq(Blocks), NEW count \in Nat,
           NEW v, NEW b, Filled(blocks, count)
    PROVE  Filled(CastInBlock(blocks, count, v, b), count + 1)
  <1>. DEFINE k == Len(blocks)
              B == BallotsPerBlock
              new == CastInBlock(blocks, count, v, b)
  <1>1. k \in Nat /\ B \in Nat \ {0}
    BY BallotAssumption
  <1>2. /\ k * B >= count /\ (k - 1) * B < count
        /\ \A i \in 1 .. k : /\ IsFiniteSet(DOMAIN blocks[i])
                             /\ Cardinality(DOMAIN blocks[i]) \in 1 .. B
        /\ blocks # <<>> => Cardinality(DOMAIN blocks[k]) <= count - (k - 1) * B
    BY DEF Filled
  <1>3. /\ count % B = 0 => count = k * B
        /\ count % B # 0 => count < k * B /\ k # 0
    BY <1>1, <1>2, RoomInBlock
  <1>4. CASE count % B = 0
    <2>. DEFINE block == Put(<<>>, v, b)
    <2>1. /\ IsFiniteSet(DOMAIN block) /\ Cardinality(DOMAIN block) = 1
      <3>1. DOMAIN block = {v}
        BY DEF Put
      <3>. QED BY <3>1, FS_Singleton
    <2>. HIDE DEF block
    <2>2. new = Append(blocks, block)
      BY <1>4 DEF CastInBlock, block
    <2>3. /\ Len(new) = k + 1 /\ new[k + 1] = block /\ new # <<>>
          /\ \A i \in 1 .. k : new[i] = blocks[i]
      BY <2>2
    <2>4. (k + 1) * B = k * B + B /\ ((k + 1) - 1) * B = k * B /\ k * B \in Nat
      BY <1>1
    <2>5. /\ Len(new) * B >= count + 1
          /\ (Len(new) - 1) * B < count + 1
          /\ Cardinality(DOMAIN new[Len(new)]) <= (count + 1) - (Len(new) - 1) * B
      BY <1>1, <1>3, <1>4, <2>1, <2>3, <2>4
    <2>6. ASSUME NEW i \in 1 .. Len(new)
          PROVE  IsFiniteSet(DOMAIN new[i]) /\ Cardinality(DOMAIN new[i]) \in 1 .. B
      <3>1. CASE i = k + 1
        BY <1>1, <2>1, <2>3, <3>1
      <3>2. CASE i \in 1 .. k
        BY <1>2, <2>3, <3>2
      <3>. QED BY <1>1, <2>3, <2>6, <3>1, <3>2
    <2>. HIDE DEF new
    <2>. QED BY <2>5, <2>6 DEF Filled, new
  <1>5. CASE count % B # 0
    <2>. DEFINE block == Put(blocks[k], v, b)
    <2>1. k \in 1 .. k /\ blocks # <<>> /\ count < k * B
      BY <1>1, <1>3, <1>5
    <2>2. /\ IsFiniteSet(DOMAIN blocks[k]) /\ Cardinality(DOMAIN blocks[k]) \in 1 .. B
          /\ Cardinality(DOMAIN blocks[k]) <= count - (k - 1) * B
      BY <1>2, <2>1
    <2>3. /\ IsFiniteSet(DOMAIN block)
          /\ Cardinality(DOMAIN block) \in Nat \ {0}
          /\ Cardinality(DOMAIN block) <= Cardinality(DOMAIN blocks[k]) + 1
      BY <2>2, PutVoters
    <2>. HIDE DEF block
    <2>4. new = [blocks EXCEPT ![k] = block]
      BY <1>5 DEF CastInBlock, block
    <2>5. /\ Len(new) = k /\ new[k] = block
          /\ \A i \in 1 .. k : i # k => new[i] = blocks[i]
      BY <1>1, <2>1, <2>4
    <2>6. (k - 1) * B = k * B - B /\ k * B \in Nat
      BY <1>1
    <2>7. Cardinality(DOMAIN block) <= (count + 1) - (k - 1) * B
      BY <1>1, <2>2, <2>3, <2>6
    <2>8. Cardinality(DOMAIN block) \in 1 .. B
      BY <1>1, <2>1, <2>3, <2>6, <2>7
    <2>9. k * B >= count + 1 /\ (k - 1) * B < count + 1
      BY <1>1, <1>2, <2>1, <2>6
    <2>10. ASSUME NEW i \in 1 .. k
           PROVE  IsFiniteSet(DOMAIN new[i]) /\ Cardinality(DOMAIN new[i]) \in 1 .. B
      BY <1>2, <2>3, <2>5, <2>8
    <2>. HIDE DEF new
    <2>. QED BY <2>5, <2>7, <2>9, <2>10 DEF Filled, new
  <1>. QED
    BY <1>4, <1>5

\* A step either casts a vote in a form or leaves its blocks and its count;
\* a new form has none.
LEMMA OnlyCastsCount ==
    ASSUME TypeOK, StoredFormsListed, Next, NEW g \in DOMAIN forms'
    PROVE  \/ \E v \in UserIDs, b \in Ciphervotes : CastVote(g, v, b)
           \/ /\ g \in DOMAIN forms
              /\ forms'[g].suffragia = forms[g].suffragia
              /\ forms'[g].ballotCount = forms[g].ballotCount
           \/ /\ g \notin DOMAIN forms
              /\ \E u \in UserIDs, r \in Rosters, size \in BallotSizes :
                     CreateForm(g, u, r, size)
              /\ forms'[g].suffragia = <<>>
              /\ forms'[g].ballotCount = 0
  <1>. DEFINE Same == /\ g \in DOMAIN forms
                      /\ forms'[g].suffragia = forms[g].suffragia
                      /\ forms'[g].ballotCount = forms[g].ballotCount
              New == /\ g \notin DOMAIN forms
                     /\ \E u \in UserIDs, r \in Rosters, size \in BallotSizes :
                            CreateForm(g, u, r, size)
                     /\ forms'[g].suffragia = <<>>
                     /\ forms'[g].ballotCount = 0
              Cast == \E v \in UserIDs, b \in Ciphervotes : CastVote(g, v, b)
  <1>0. /\ DOMAIN forms \subseteq FormIDs
        /\ forms \in [DOMAIN forms -> Form]
    BY DEF TypeOK
  <1>1. ASSUME Permissions PROVE Same
    <2>1. ASSUME UNCHANGED forms PROVE Same
      BY <2>1
    <2>2. ASSUME NEW f \in FormIDs, NEW u \in UserIDs, NEW t \in UserIDs,
                 AddVoter(f, u, t) \/ RemoveVoter(f, u, t)
          PROVE  Same
      <3>1. f \in DOMAIN forms /\ \E list : forms' = [forms EXCEPT ![f].voters = list]
        BY <2>2 DEF AddVoter, RemoveVoter, Stored
      <3>2. PICK list : forms' = [forms EXCEPT ![f].voters = list]
        BY <3>1
      <3>. QED BY <1>0, <3>1, <3>2 DEF Form
    <2>3. ASSUME NEW f \in FormIDs, NEW u \in UserIDs, NEW t \in UserIDs,
                 AddOwner(f, u, t) \/ RemoveOwner(f, u, t)
          PROVE  Same
      <3>1. f \in DOMAIN forms /\ \E list : forms' = [forms EXCEPT ![f].owners = list]
        BY <2>3 DEF AddOwner, RemoveOwner, Stored
      <3>2. PICK list : forms' = [forms EXCEPT ![f].owners = list]
        BY <3>1
      <3>. QED BY <1>0, <3>1, <3>2 DEF Form
    <2>4. ASSUME NEW u \in UserIDs, NEW t \in UserIDs,
                 InitializeAdminList(t) \/ AddAdmin(u, t) \/ RemoveAdmin(u, t)
          PROVE  UNCHANGED forms
      BY <2>4 DEF InitializeAdminList, AddAdmin, RemoveAdmin
    <2>. HIDE DEF Same
    <2>. QED BY <1>1, <2>1, <2>2, <2>3, <2>4 DEF Permissions
  <1>2. ASSUME NEW f \in FormIDs, NEW u \in UserIDs, NEW r \in Rosters,
               NEW size \in BallotSizes, CreateForm(f, u, r, size), g # f
        PROVE  Same
    BY <1>2 DEF CreateForm, Put
  <1>3. ASSUME NEW u \in UserIDs, NEW r \in Rosters, NEW size \in BallotSizes,
               CreateForm(g, u, r, size)
        PROVE  New
    BY <1>3 DEF CreateForm, Put, Unlisted, StoredFormsListed
  <1>4. ASSUME NEW f \in FormIDs, NEW u \in UserIDs, NEW key \in PubKeys,
               OpenForm(f, u, key)
        PROVE  Same
    BY <1>0, <1>4 DEF OpenForm, Form
  <1>5. ASSUME NEW f \in FormIDs, NEW v \in UserIDs, NEW b \in Ciphervotes,
               CastVote(f, v, b), g # f
        PROVE  Same
    BY <1>0, <1>5 DEF CastVote
  <1>6. ASSUME NEW f \in FormIDs, NEW u \in UserIDs, CloseForm(f, u)
        PROVE  Same
    BY <1>0, <1>6 DEF CloseForm, Form
  <1>7. ASSUME NEW f \in FormIDs, NEW u \in UserIDs, NEW n \in Nodes,
               NEW round \in 0 .. Cardinality(Nodes), NEW proved \in Reencryptions,
               NEW output \in ShuffleOutputs, ShuffleBallots(f, u, n, round, proved, output)
        PROVE  Same
    BY <1>0, <1>7 DEF ShuffleBallots, Form
  <1>8. ASSUME NEW f \in FormIDs, NEW n \in Nodes, NEW index \in Indexes, RegisterPubshares(f, n, index)
        PROVE  Same
    BY <1>0, <1>8 DEF RegisterPubshares, Form
  <1>9. ASSUME NEW f \in FormIDs, NEW u \in UserIDs, CombineShares(f, u)
        PROVE  Same
    BY <1>0, <1>9 DEF CombineShares, Form
  <1>10. ASSUME NEW f \in FormIDs, NEW u \in UserIDs, CancelForm(f, u)
        PROVE  Same
    BY <1>0, <1>10 DEF CancelForm, Form
  <1>11. ASSUME NEW f \in FormIDs, NEW u \in UserIDs, DeleteForm(f, u)
        PROVE  Same
    BY <1>0, <1>11 DEF DeleteForm, Delete
  <1>. HIDE DEF Same, New
  <1>12. ASSUME NEW f \in FormIDs, Lifecycle(f) PROVE Cast \/ Same \/ New
    BY <1>2, <1>3, <1>4, <1>5, <1>6, <1>7, <1>8, <1>9, <1>10, <1>11, <1>12 DEF Lifecycle
  <1>13. Cast \/ Same \/ New
    BY <1>1, <1>12 DEF Next
  <1>. QED
    BY <1>13 DEF Same, New

\* The blocks are filled in every reachable state.
THEOREM BlocksHold == Spec => []BlocksInv
  <1>1. Init => BlocksInv
    BY DEF Init, BlocksInv
  <1>2. IInv /\ BlocksInv /\ [Next]_vars => BlocksInv'
    <2>. SUFFICES ASSUME IInv, BlocksInv, [Next]_vars PROVE BlocksInv'
      OBVIOUS
    <2>1. CASE UNCHANGED vars
      BY <2>1 DEF vars, BlocksInv
    <2>2. CASE Next
      <3>. SUFFICES ASSUME NEW g \in DOMAIN forms'
                    PROVE  Filled(forms'[g].suffragia, forms'[g].ballotCount)
        BY DEF BlocksInv
      <3>1. ASSUME NEW v \in UserIDs, NEW b \in Ciphervotes, CastVote(g, v, b)
            PROVE  Filled(forms'[g].suffragia, forms'[g].ballotCount)
        <4>. DEFINE form == forms[g]
        <4>1. /\ form \in Form /\ g \in DOMAIN forms
              /\ Filled(form.suffragia, form.ballotCount)
          BY <3>1 DEF CastVote, Stored, IInv, TypeOK, BlocksInv
        <4>2. form.suffragia \in Seq(Blocks) /\ form.ballotCount \in Nat
          BY <4>1 DEF Form
        <4>3. /\ forms'[g].suffragia =
                     CastInBlock(form.suffragia, form.ballotCount, v, b)
              /\ forms'[g].ballotCount = form.ballotCount + 1
          BY <3>1, <4>1 DEF CastVote, IInv, TypeOK, Form
        <4>. QED BY <4>1, <4>2, <4>3, CastFills
      <3>2. Filled(<<>>, 0)
        BY BallotAssumption DEF Filled
      <3>. QED BY <2>2, <3>1, <3>2, OnlyCastsCount DEF IInv, BlocksInv
    <2>. QED BY <2>1, <2>2
  <1>. QED
    BY <1>1, <1>2, InvariantHolds, PTL DEF Spec

\* No block outgrows its size, and there are as many as the casts need.
THEOREM BlocksAreFilled == Spec => []BlocksMatchCount
  <1>1. BlocksInv => BlocksMatchCount
    BY DEF BlocksInv, Filled, BlocksMatchCount
  <1>. QED
    BY <1>1, BlocksHold, PTL

-----------------------------------------------------------------------------
(* What a cast does to the votes that the blocks hold. *)

\* Form.Suffragia gives each voter a ballot of theirs, and the voters of all
\* the blocks have one.
LEMMA SuffragiaVoters ==
    ASSUME NEW blocks \in Seq(Blocks), NEW v
    PROVE  /\ v \in DOMAIN Suffragia(blocks) <=> HasVotedIn(blocks, v) # {}
           /\ v \in DOMAIN Suffragia(blocks) =>
                 /\ Max(HasVotedIn(blocks, v)) \in HasVotedIn(blocks, v)
                 /\ \A i \in HasVotedIn(blocks, v) : Max(HasVotedIn(blocks, v)) >= i
                 /\ Suffragia(blocks)[v] = blocks[Max(HasVotedIn(blocks, v))][v]
  <1>. DEFINE H == HasVotedIn(blocks, v)
  <1>1. H \subseteq 1 .. Len(blocks)
    BY DEF HasVotedIn
  <1>2. H \subseteq Int /\ IsFiniteSet(H)
    <2>1. IsFiniteSet(1 .. Len(blocks))
      BY FS_Interval
    <2>. QED BY <1>1, <2>1, FS_Subset
  <1>3. v \in DOMAIN Suffragia(blocks) <=> H # {}
    BY DEF Suffragia, HasVotedIn
  <1>4. H # {} => Max(H) \in H /\ \A i \in H : Max(H) >= i
    <2>. HIDE DEF H
    <2>. QED BY <1>2, GreatestElement
  <1>5. v \in DOMAIN Suffragia(blocks) => Suffragia(blocks)[v] = blocks[Max(H)][v]
    BY DEF Suffragia
  <1>. QED
    BY <1>3, <1>4, <1>5

\* Replayed after a cast, the blocks give the voter the new ballot and the
\* others what they had (Form.CastVote, Form.Suffragia).
LEMMA CastReplaces ==
    ASSUME NEW blocks \in Seq(Blocks), NEW count \in Nat,
           NEW v \in UserIDs, NEW b \in Ciphervotes, Filled(blocks, count)
    PROVE  Suffragia(CastInBlock(blocks, count, v, b)) = Put(Suffragia(blocks), v, b)
  <1>. DEFINE k == Len(blocks)
              new == CastInBlock(blocks, count, v, b)
              m == Len(new)
  <1>0. new \in Seq(Blocks)
    BY CastInBlockType
  <1>1. k \in Nat /\ new \in Seq(Blocks) /\ m \in Nat
    <2>. HIDE DEF new
    <2>. QED BY <1>0
  <1>2. count % BallotsPerBlock # 0 => k # 0
    BY RoomInBlock DEF Filled
  <1>3. /\ k <= m /\ m >= 1 /\ v \in DOMAIN new[m] /\ new[m][v] = b
        /\ \A w : w # v => \A i \in 1 .. m :
              /\ w \in DOMAIN new[i] <=> i \in 1 .. k /\ w \in DOMAIN blocks[i]
              /\ w \in DOMAIN new[i] => new[i][w] = blocks[i][w]
    <2>1. CASE count % BallotsPerBlock = 0
      <3>1. new = Append(blocks, Put(<<>>, v, b))
        BY <2>1 DEF CastInBlock
      <3>2. /\ m = k + 1 /\ new[m] = Put(<<>>, v, b)
            /\ \A i \in 1 .. k : new[i] = blocks[i]
        BY <3>1
      <3>3. DOMAIN Put(<<>>, v, b) = {v} /\ Put(<<>>, v, b)[v] = b
        BY DEF Put
      <3>. HIDE DEF new, m
      <3>. QED BY <1>1, <3>2, <3>3
    <2>2. CASE count % BallotsPerBlock # 0
      <3>. DEFINE last == Put(blocks[k], v, b)
      <3>1. new = [blocks EXCEPT ![k] = last]
        BY <2>2 DEF CastInBlock
      <3>2. /\ DOMAIN last = DOMAIN blocks[k] \cup {v} /\ last[v] = b
            /\ \A w : w # v /\ w \in DOMAIN last => last[w] = blocks[k][w]
        BY DEF Put
      <3>. HIDE DEF last
      <3>3. /\ m = k /\ k >= 1 /\ new[k] = last
            /\ \A i \in 1 .. k : i # k => new[i] = blocks[i]
        BY <1>1, <1>2, <2>2, <3>1
      <3>. HIDE DEF new, m
      <3>. QED BY <1>1, <3>2, <3>3
    <2>. QED BY <2>1, <2>2
  <1>. HIDE DEF new, m
  <1>4. \A w : w # v => HasVotedIn(new, w) = HasVotedIn(blocks, w)
    BY <1>1, <1>3 DEF HasVotedIn, m
  <1>5. HasVotedIn(new, v) # {} /\ Max(HasVotedIn(new, v)) = m
    <2>1. m \in HasVotedIn(new, v) /\ HasVotedIn(new, v) \subseteq 1 .. m
      BY <1>1, <1>3 DEF HasVotedIn, m
    <2>2. HasVotedIn(new, v) # {}
      BY <2>1
    <2>3. Max(HasVotedIn(new, v)) \in HasVotedIn(new, v)
          /\ \A i \in HasVotedIn(new, v) : Max(HasVotedIn(new, v)) >= i
      BY <1>1, <2>2, SuffragiaVoters
    <2>. QED BY <1>1, <2>1, <2>3
  <1>6. DOMAIN Suffragia(new) = DOMAIN Suffragia(blocks) \cup {v}
    <2>. SUFFICES ASSUME NEW w PROVE w \in DOMAIN Suffragia(new) <=>
                                     w \in DOMAIN Suffragia(blocks) \/ w = v
      OBVIOUS
    <2>. QED BY <1>1, <1>4, <1>5, SuffragiaVoters
  <1>7. Suffragia(new)[v] = b
    BY <1>1, <1>3, <1>5, SuffragiaVoters
  <1>8. ASSUME NEW w \in DOMAIN Suffragia(new), w # v
        PROVE  Suffragia(new)[w] = Suffragia(blocks)[w]
    <2>1. w \in DOMAIN Suffragia(blocks) /\ HasVotedIn(new, w) = HasVotedIn(blocks, w)
      BY <1>4, <1>6, <1>8
    <2>. DEFINE i == Max(HasVotedIn(blocks, w))
    <2>2. /\ i \in HasVotedIn(new, w)
          /\ Suffragia(new)[w] = new[i][w] /\ Suffragia(blocks)[w] = blocks[i][w]
      BY <1>1, <1>8, <2>1, SuffragiaVoters
    <2>. HIDE DEF i
    <2>3. i \in 1 .. m /\ w \in DOMAIN new[i]
      BY <2>2 DEF HasVotedIn, m
    <2>. QED BY <1>3, <1>8, <2>2, <2>3
  <1>9. Suffragia(new) = [w \in DOMAIN Suffragia(new) |-> Suffragia(new)[w]]
    BY DEF Suffragia
  <1>10. Suffragia(new) = Put(Suffragia(blocks), v, b)
    BY <1>6, <1>7, <1>8, <1>9 DEF Put
  <1>. QED
    BY <1>10 DEF new

-----------------------------------------------------------------------------
(***************************************************************************)
(* The refinement. The blocks of a form, replayed, are the box that the    *)
(* history variable keeps, and every shuffle of the form is the bag of the *)
(* ballots in it: what combineShares decrypts is the box when the form was *)
(* closed, and the decrypted bag counts each of its voters once.           *)
(***************************************************************************)
\* The blocks of a form hold the votes of the box, and so do its shuffles.
Holds(form, box) ==
    /\ box = Suffragia(form.suffragia)
    /\ \A i \in 1 .. Len(form.shuffleInstances) :
           form.shuffleInstances[i].ballots = BallotsOf(box)
    /\ form.shuffleInstances # <<>> => BagCardinality(BallotsOf(box)) >= 2

\* The box of every form, and none of an ID that no form had.
BoxInv ==
    /\ ballotBox \in [FormIDs -> Blocks]
    /\ \A f \in FormIDs : IsFiniteSet(DOMAIN ballotBox[f])
    /\ \A f \in FormIDs \ formsMetadata : ballotBox[f] = <<>>
    /\ \A f \in DOMAIN forms : Holds(forms[f], ballotBox[f])

\* The empty box.
LEMMA NoVotes == /\ <<>> \in Blocks /\ IsFiniteSet(DOMAIN <<>>)
                 /\ Suffragia(<<>>) = <<>>
  <1>1. <<>> \in [{} -> Ciphervotes]
    OBVIOUS
  <1>2. <<>> \in Blocks
    BY <1>1 DEF Blocks
  <1>3. DOMAIN <<>> = {}
    OBVIOUS
  <1>4. IsFiniteSet(DOMAIN <<>>)
    BY <1>3, FS_EmptySet
  <1>5. Suffragia(<<>>) = <<>>
    <2>1. DOMAIN Suffragia(<<>>) = {}
      BY DEF Suffragia
    <2>2. Suffragia(<<>>) = [x \in DOMAIN Suffragia(<<>>) |-> Suffragia(<<>>)[x]]
      BY DEF Suffragia
    <2>. QED BY <2>1, <2>2
  <1>. QED
    BY <1>2, <1>4, <1>5

\* A command on one form leaves the others.
LEMMA OtherForms ==
    ASSUME TypeOK, NEW f \in FormIDs, Lifecycle(f), NEW g \in FormIDs, g # f
    PROVE  /\ g \in DOMAIN forms' <=> g \in DOMAIN forms
           /\ g \in DOMAIN forms => forms'[g] = forms[g]
           /\ g \in formsMetadata' <=> g \in formsMetadata
  <1>1. ASSUME NEW u \in UserIDs, NEW r \in Rosters, NEW size \in BallotSizes,
               CreateForm(f, u, r, size)
        PROVE  \E new : forms' = Put(forms, f, new) /\ formsMetadata' = formsMetadata \cup {f}
    BY <1>1 DEF CreateForm, Listed
  <1>2. ASSUME NEW u \in UserIDs, DeleteForm(f, u)
        PROVE  /\ forms' = forms \/ forms' = Delete(forms, f)
               /\ formsMetadata' = formsMetadata \cup {f}
    BY <1>2 DEF DeleteForm, Listed
  <1>3. \/ \E new : forms' = Put(forms, f, new) /\ formsMetadata' = formsMetadata \cup {f}
        \/ /\ forms' = forms \/ forms' = Delete(forms, f)
           /\ formsMetadata' = formsMetadata \cup {f}
        \/ \E new : forms' = [forms EXCEPT ![f] = new] /\ formsMetadata' = formsMetadata
    <2>1. ASSUME NEW u \in UserIDs, NEW key \in PubKeys, OpenForm(f, u, key)
          PROVE  \E new : forms' = [forms EXCEPT ![f] = new] /\ formsMetadata' = formsMetadata
      BY <2>1 DEF OpenForm
    <2>2. ASSUME NEW v \in UserIDs, NEW b \in Ciphervotes, CastVote(f, v, b)
          PROVE  \E new : forms' = [forms EXCEPT ![f] = new] /\ formsMetadata' = formsMetadata
      BY <2>2 DEF CastVote
    <2>3. ASSUME NEW u \in UserIDs, CloseForm(f, u)
          PROVE  \E new : forms' = [forms EXCEPT ![f] = new] /\ formsMetadata' = formsMetadata
      BY <2>3 DEF CloseForm
    <2>4. ASSUME NEW u \in UserIDs, NEW n \in Nodes, NEW round \in 0 .. Cardinality(Nodes),
                 NEW proved \in Reencryptions, NEW output \in ShuffleOutputs,
               ShuffleBallots(f, u, n, round, proved, output)
          PROVE  \E new : forms' = [forms EXCEPT ![f] = new] /\ formsMetadata' = formsMetadata
      BY <2>4 DEF ShuffleBallots
    <2>5. ASSUME NEW n \in Nodes, NEW index \in Indexes, RegisterPubshares(f, n, index)
          PROVE  \E new : forms' = [forms EXCEPT ![f] = new] /\ formsMetadata' = formsMetadata
      BY <2>5 DEF RegisterPubshares
    <2>6. ASSUME NEW u \in UserIDs, CombineShares(f, u)
          PROVE  \E new : forms' = [forms EXCEPT ![f] = new] /\ formsMetadata' = formsMetadata
      BY <2>6 DEF CombineShares
    <2>7. ASSUME NEW u \in UserIDs, CancelForm(f, u)
          PROVE  \E new : forms' = [forms EXCEPT ![f] = new] /\ formsMetadata' = formsMetadata
      BY <2>7 DEF CancelForm
    <2>. QED BY <1>1, <1>2, <2>1, <2>2, <2>3, <2>4, <2>5, <2>6, <2>7 DEF Lifecycle
  <1>. QED
    BY <1>3 DEF TypeOK, Put, Delete

\* A step that is no cast leaves the shuffles of a form, or adds one to them.
LEMMA OnlyShufflesAppend ==
    ASSUME TypeOK, StoredFormsListed, Next, NEW g \in DOMAIN forms, g \in DOMAIN forms'
    PROVE  \/ \E u \in UserIDs, n \in Nodes, round \in 0 .. Cardinality(Nodes),
                 proved \in Reencryptions, output \in ShuffleOutputs :
                     ShuffleBallots(g, u, n, round, proved, output)
           \/ forms'[g].shuffleInstances = forms[g].shuffleInstances
  <1>. DEFINE Same == forms'[g].shuffleInstances = forms[g].shuffleInstances
              Shuffled == \E u \in UserIDs, n \in Nodes, round \in 0 .. Cardinality(Nodes),
                             proved \in Reencryptions, output \in ShuffleOutputs :
                                 ShuffleBallots(g, u, n, round, proved, output)
  <1>0. /\ g \in FormIDs
        /\ forms \in [DOMAIN forms -> Form]
    BY DEF TypeOK
  <1>1. ASSUME Permissions PROVE Same
    <2>1. ASSUME UNCHANGED forms PROVE Same
      BY <2>1
    <2>2. ASSUME NEW f \in FormIDs, NEW u \in UserIDs, NEW t \in UserIDs,
                 AddVoter(f, u, t) \/ RemoveVoter(f, u, t)
          PROVE  Same
      <3>1. f \in DOMAIN forms /\ \E list : forms' = [forms EXCEPT ![f].voters = list]
        BY <2>2 DEF AddVoter, RemoveVoter, Stored
      <3>2. PICK list : forms' = [forms EXCEPT ![f].voters = list]
        BY <3>1
      <3>. QED BY <1>0, <3>1, <3>2 DEF Form
    <2>3. ASSUME NEW f \in FormIDs, NEW u \in UserIDs, NEW t \in UserIDs,
                 AddOwner(f, u, t) \/ RemoveOwner(f, u, t)
          PROVE  Same
      <3>1. f \in DOMAIN forms /\ \E list : forms' = [forms EXCEPT ![f].owners = list]
        BY <2>3 DEF AddOwner, RemoveOwner, Stored
      <3>2. PICK list : forms' = [forms EXCEPT ![f].owners = list]
        BY <3>1
      <3>. QED BY <1>0, <3>1, <3>2 DEF Form
    <2>4. ASSUME NEW u \in UserIDs, NEW t \in UserIDs,
                 InitializeAdminList(t) \/ AddAdmin(u, t) \/ RemoveAdmin(u, t)
          PROVE  UNCHANGED forms
      BY <2>4 DEF InitializeAdminList, AddAdmin, RemoveAdmin
    <2>. HIDE DEF Same
    <2>. QED BY <1>1, <2>1, <2>2, <2>3, <2>4 DEF Permissions
  <1>2. ASSUME Lifecycle(g) PROVE Same \/ Shuffled
    <2>1. ASSUME NEW u \in UserIDs, NEW r \in Rosters, NEW size \in BallotSizes,
                 CreateForm(g, u, r, size)
          PROVE  FALSE
      BY <2>1 DEF CreateForm, Unlisted, StoredFormsListed
    <2>2. ASSUME NEW u \in UserIDs, NEW key \in PubKeys, OpenForm(g, u, key) PROVE Same
      BY <1>0, <2>2 DEF OpenForm, Form
    <2>3. ASSUME NEW v \in UserIDs, NEW b \in Ciphervotes, CastVote(g, v, b) PROVE Same
      BY <1>0, <2>3 DEF CastVote, Form
    <2>4. ASSUME NEW u \in UserIDs, CloseForm(g, u) PROVE Same
      BY <1>0, <2>4 DEF CloseForm, Form
    <2>5. ASSUME NEW n \in Nodes, NEW index \in Indexes, RegisterPubshares(g, n, index) PROVE Same
      BY <1>0, <2>5 DEF RegisterPubshares, Form
    <2>6. ASSUME NEW u \in UserIDs, CombineShares(g, u) PROVE Same
      BY <1>0, <2>6 DEF CombineShares, Form
    <2>7. ASSUME NEW u \in UserIDs, CancelForm(g, u) PROVE Same
      BY <1>0, <2>7 DEF CancelForm, Form
    <2>8. ASSUME NEW u \in UserIDs, DeleteForm(g, u) PROVE Same
      BY <1>0, <2>8 DEF DeleteForm, Delete
    <2>. HIDE DEF Same
    <2>. QED BY <1>2, <2>1, <2>2, <2>3, <2>4, <2>5, <2>6, <2>7, <2>8 DEF Lifecycle
  <1>3. ASSUME NEW f \in FormIDs, Lifecycle(f), f # g PROVE Same
    BY <1>0, <1>3, OtherForms
  <1>. HIDE DEF Same, Shuffled
  <1>4. Same \/ Shuffled
    BY <1>1, <1>2, <1>3 DEF Next
  <1>. QED
    BY <1>4 DEF Same, Shuffled

\* No ID is ever taken off the list of forms.
LEMMA ListGrows ==
    ASSUME Next
    PROVE  formsMetadata \subseteq formsMetadata'
  <1>1. ASSUME Permissions PROVE formsMetadata \subseteq formsMetadata'
    BY <1>1 DEF Permissions, InitializeAdminList, AddAdmin, RemoveAdmin, AddVoter,
       RemoveVoter, AddOwner, RemoveOwner, Listed
  <1>2. ASSUME NEW f \in FormIDs, Lifecycle(f) PROVE formsMetadata \subseteq formsMetadata'
    BY <1>2 DEF Lifecycle, CreateForm, OpenForm, CastVote, CloseForm, ShuffleBallots,
       RegisterPubshares, CombineShares, CancelForm, DeleteForm, Listed
  <1>. QED
    BY <1>1, <1>2 DEF Next

\* The contract with its history is the contract.
THEOREM CastSpecIsSpec == CastSpec => Spec
  <1>1. CastInit => Init
    BY DEF CastInit
  <1>2. [CastNext]_<<vars, ballotBox>> => [Next]_vars
    <2>1. ASSUME NEW f \in FormIDs, NEW v \in UserIDs, NEW b \in Ciphervotes, Casts(f, v, b)
          PROVE  Next
      BY <2>1 DEF Casts, Next, Lifecycle
    <2>2. CastsNothing => Next
      BY DEF CastsNothing
    <2>. QED BY <2>1, <2>2 DEF CastNext
  <1>. QED
    BY <1>1, <1>2, PTL DEF CastSpec, Spec

\* The box of a form is what its blocks hold, and what its shuffles hold.
THEOREM BoxHolds == CastSpec => []BoxInv
  <1>1. CastInit => BoxInv
    BY NoVotes DEF CastInit, Init, BoxInv
  <1>2. IInv /\ IInv' /\ BlocksInv /\ BoxInv /\ [CastNext]_<<vars, ballotBox>> => BoxInv'
    <2>. SUFFICES ASSUME IInv, IInv', BlocksInv, BoxInv, [CastNext]_<<vars, ballotBox>>
                  PROVE  BoxInv'
      OBVIOUS
    <2>0. TypeOK /\ StoredFormsListed
      BY DEF IInv
    <2>1. CASE UNCHANGED <<vars, ballotBox>>
      BY <2>1 DEF vars, BoxInv
    <2>2. ASSUME NEW f \in FormIDs, NEW v \in UserIDs, NEW b \in Ciphervotes, Casts(f, v, b)
          PROVE  BoxInv'
      <3>. DEFINE form == forms[f]
                  box == ballotBox[f]
      <3>1. /\ f \in DOMAIN forms /\ form.status = Open
            /\ forms' = [forms EXCEPT
                    ![f].suffragia = CastInBlock(form.suffragia, form.ballotCount, v, b),
                    ![f].ballotCount = form.ballotCount + 1]
            /\ UNCHANGED formsMetadata
            /\ ballotBox' = [ballotBox EXCEPT ![f] = Put(box, v, b)]
        BY <2>2 DEF Casts, CastVote, Stored
      <3>2. /\ form \in Form /\ FormInv(form) /\ Filled(form.suffragia, form.ballotCount)
            /\ Holds(form, box)
        BY <3>1 DEF IInv, TypeOK, FormsInv, BlocksInv, BoxInv
      <3>3. form.suffragia \in Seq(Blocks) /\ form.ballotCount \in Nat
        BY <3>2 DEF Form
      <3>4. Suffragia(CastInBlock(form.suffragia, form.ballotCount, v, b)) = Put(box, v, b)
        BY <3>2, <3>3, CastReplaces DEF Holds
      <3>5. form.shuffleInstances = <<>>
        BY <3>1, <3>2 DEF FormInv, ShuffleInv
      <3>6. /\ forms'[f].suffragia = CastInBlock(form.suffragia, form.ballotCount, v, b)
            /\ forms'[f].shuffleInstances = <<>>
        BY <3>1, <3>2, <3>5 DEF Form, IInv, TypeOK
      <3>7. Put(box, v, b) \in Blocks /\ IsFiniteSet(DOMAIN Put(box, v, b))
        <4>1. box \in Blocks /\ IsFiniteSet(DOMAIN box)
          BY DEF BoxInv
        <4>2. PICK S \in SUBSET UserIDs : box \in [S -> Ciphervotes]
          BY <4>1 DEF Blocks
        <4>3. Put(box, v, b) \in [S \cup {v} -> Ciphervotes]
          BY <4>2 DEF Put
        <4>4. S \cup {v} \in SUBSET UserIDs
          OBVIOUS
        <4>. HIDE DEF box
        <4>5. Put(box, v, b) \in Blocks
          BY <4>3, <4>4 DEF Blocks
        <4>6. IsFiniteSet(DOMAIN Put(box, v, b))
          BY <4>1, PutVoters
        <4>. QED BY <4>5, <4>6
      <3>8. ballotBox'[f] = Put(box, v, b) /\ \A g \in FormIDs : g # f => ballotBox'[g] = ballotBox[g]
        BY <3>1 DEF BoxInv
      <3>9. ballotBox' \in [FormIDs -> Blocks]
        BY <3>1, <3>7 DEF BoxInv
      <3>10. \A g \in FormIDs : IsFiniteSet(DOMAIN ballotBox'[g])
        BY <3>7, <3>8 DEF BoxInv
      <3>11. \A g \in FormIDs \ formsMetadata' : ballotBox'[g] = <<>>
        BY <2>0, <3>1, <3>8 DEF BoxInv, StoredFormsListed
      <3>12. ASSUME NEW g \in DOMAIN forms' PROVE Holds(forms'[g], ballotBox'[g])
        <4>1. CASE g = f
          BY <3>4, <3>6, <3>8, <4>1 DEF Holds
        <4>2. CASE g # f
          <5>1. g \in DOMAIN forms /\ g \in FormIDs /\ forms'[g] = forms[g]
            BY <2>0, <3>1, <4>2 DEF TypeOK
          <5>. QED BY <3>8, <4>2, <5>1 DEF BoxInv
        <4>. QED BY <4>1, <4>2
      <3>. QED BY <3>9, <3>10, <3>11, <3>12 DEF BoxInv
    <2>3. ASSUME CastsNothing PROVE BoxInv'
      <3>1. /\ Next /\ UNCHANGED ballotBox
            /\ \A g \in DOMAIN forms \cap DOMAIN forms' :
                   forms'[g].ballotCount = forms[g].ballotCount
        BY <2>3 DEF CastsNothing
      <3>2. formsMetadata \subseteq formsMetadata'
        BY <3>1, ListGrows
      <3>3. ASSUME NEW g \in DOMAIN forms', NEW v \in UserIDs, NEW b \in Ciphervotes,
                   CastVote(g, v, b)
            PROVE  FALSE
        <4>1. g \in DOMAIN forms /\ forms[g] \in Form
          BY <2>0, <3>3 DEF TypeOK, CastVote, Stored
        <4>2. forms'[g].ballotCount = forms[g].ballotCount + 1
          BY <2>0, <3>3, <4>1 DEF CastVote, TypeOK, Form
        <4>3. forms[g].ballotCount \in Nat
          BY <4>1 DEF Form
        <4>. QED BY <3>1, <4>1, <4>2, <4>3
      <3>4. ASSUME NEW g \in DOMAIN forms' PROVE Holds(forms'[g], ballotBox'[g])
        <4>1. CASE g \in DOMAIN forms
          <5>. DEFINE form == forms[g]
                      box == ballotBox[g]
          <5>1. /\ form \in Form /\ FormInv(form) /\ Holds(form, box)
                /\ forms'[g].suffragia = form.suffragia
            BY <2>0, <3>1, <3>3, <4>1, OnlyCastsCount DEF IInv, TypeOK, FormsInv, BoxInv
          <5>2. CASE forms'[g].shuffleInstances = form.shuffleInstances
            BY <3>1, <5>1, <5>2 DEF Holds
          <5>3. ASSUME NEW u \in UserIDs, NEW n \in Nodes, NEW round \in 0 .. Cardinality(Nodes),
                       NEW proved \in Reencryptions, NEW output \in ShuffleOutputs,
                       ShuffleBallots(g, u, n, round, proved, output)
                PROVE  Holds(forms'[g], ballotBox'[g])
            <6>1. /\ ShuffleInput(form) = output
                  /\ BagCardinality(ShuffleInput(form)) >= 2
                  /\ forms'[g].shuffleInstances =
                         Append(form.shuffleInstances, [ballots |-> output, shuffler |-> n])
              BY <2>0, <4>1, <5>3 DEF ShuffleBallots, TakesShuffle, ShuffleVerifies, TypeOK, Form
            <6>2. form.shuffleInstances \in Seq([ballots : ShuffleOutputs, shuffler : Nodes])
              BY <5>1 DEF Form
            <6>3. ShuffleInput(form) = BallotsOf(box)
              BY <5>1, <6>2 DEF ShuffleInput, Holds, Last
            <6>. DEFINE s == form.shuffleInstances
                        new == forms'[g].shuffleInstances
            <6>4. /\ Len(new) = Len(s) + 1 /\ new[Len(s) + 1].ballots = output
                  /\ \A i \in 1 .. Len(s) : new[i] = s[i]
              BY <6>1, <6>2
            <6>5. \A i \in 1 .. Len(new) : new[i].ballots = BallotsOf(box)
              BY <5>1, <6>1, <6>2, <6>3, <6>4 DEF Holds
            <6>. QED BY <3>1, <5>1, <6>1, <6>3, <6>5 DEF Holds
          <5>. QED BY <2>0, <3>1, <4>1, <5>2, <5>3, OnlyShufflesAppend
        <4>2. CASE g \notin DOMAIN forms
          <5>1. PICK u \in UserIDs, r \in Rosters, size \in BallotSizes :
                    CreateForm(g, u, r, size)
            BY <2>0, <3>1, <3>3, <4>2, OnlyCastsCount
          <5>2. /\ g \notin formsMetadata
                /\ forms'[g].suffragia = <<>> /\ forms'[g].shuffleInstances = <<>>
            BY <5>1 DEF CreateForm, Put, Unlisted
          <5>3. g \in FormIDs
            BY DEF IInv, TypeOK
          <5>4. ballotBox[g] = <<>>
            BY <5>2, <5>3 DEF BoxInv
          <5>. QED BY <3>1, <5>2, <5>4, NoVotes DEF Holds
        <4>. QED BY <4>1, <4>2
      <3>. QED BY <3>1, <3>2, <3>4 DEF BoxInv
    <2>. QED BY <2>1, <2>2, <2>3 DEF CastNext
  <1>. QED
    BY <1>1, <1>2, CastSpecIsSpec, InvariantHolds, BlocksHold, PTL DEF CastSpec

\* What the abstract election sees of a form does not change.
SameView(g) ==
    /\ PhaseOf(g)' = PhaseOf(g)
    /\ BoxOf(g)' = BoxOf(g)
    /\ ResultOf(g)' = ResultOf(g)

\* A step that changes the view of one form only, as the abstract election
\* describes such steps.
LEMMA OneFormMoves ==
    ASSUME NEW f \in FormIDs, \A g \in FormIDs \ {f} : SameView(g)
    PROVE  /\ [g \in FormIDs |-> PhaseOf(g)]' =
                  [[g \in FormIDs |-> PhaseOf(g)] EXCEPT ![f] = PhaseOf(f)']
           /\ [g \in FormIDs |-> BoxOf(g)]' =
                  [[g \in FormIDs |-> BoxOf(g)] EXCEPT ![f] = BoxOf(f)']
           /\ [g \in FormIDs |-> ResultOf(g)]' =
                  [[g \in FormIDs |-> ResultOf(g)] EXCEPT ![f] = ResultOf(f)']
  BY DEF SameView

\* Nothing changes at all.
LEMMA NoFormMoves ==
    ASSUME \A g \in FormIDs : SameView(g)
    PROVE  UNCHANGED E!electionVars
  BY DEF SameView, E!electionVars

\* The phase each status stands for.
LEMMA Phases ==
    /\ PhaseAt(Initial) = "setup"
    /\ PhaseAt(Open) = "voting"
    /\ PhaseAt(Closed) = "tallying"
    /\ PhaseAt(ShuffledBallots) = "tallying"
    /\ PhaseAt(PubSharesSubmitted) = "tallying"
    /\ PhaseAt(ResultAvailable) = "published"
    /\ PhaseAt(Canceled) = "canceled"
    /\ \A status \in Statuses : PhaseAt(status) \notin {"none", "deleted"}
  BY DEF PhaseAt, Statuses, Initial, Open, Closed, ShuffledBallots, PubSharesSubmitted,
         ResultAvailable, Canceled

\* A command on admins, owners and voters shows nothing of itself.
LEMMA PermissionsStutter ==
    ASSUME TypeOK, Permissions, UNCHANGED ballotBox
    PROVE  UNCHANGED E!electionVars
  <1>. SUFFICES ASSUME NEW g \in FormIDs PROVE SameView(g)
    BY NoFormMoves
  <1>1. /\ g \in DOMAIN forms' <=> g \in DOMAIN forms
        /\ g \in formsMetadata' <=> g \in formsMetadata
        /\ g \in DOMAIN forms =>
              /\ forms'[g].status = forms[g].status
              /\ forms'[g].decryptedBallots = forms[g].decryptedBallots
    <2>0. forms \in [DOMAIN forms -> Form] /\ g # AdminListID
      BY StoreAssumption DEF TypeOK
    <2>1. ASSUME NEW u \in UserIDs, NEW t \in UserIDs,
                 InitializeAdminList(t) \/ AddAdmin(u, t) \/ RemoveAdmin(u, t)
          PROVE  <1>1!:
      BY <2>0, <2>1 DEF InitializeAdminList, AddAdmin, RemoveAdmin, Listed
    <2>2. ASSUME NEW f \in FormIDs, NEW u \in UserIDs, NEW t \in UserIDs,
                 AddVoter(f, u, t) \/ RemoveVoter(f, u, t)
          PROVE  <1>1!:
      <3>1. f \in DOMAIN forms /\ UNCHANGED formsMetadata
            /\ \E list : forms' = [forms EXCEPT ![f].voters = list]
        BY <2>2 DEF AddVoter, RemoveVoter, Stored
      <3>2. PICK list : forms' = [forms EXCEPT ![f].voters = list]
        BY <3>1
      <3>. QED BY <2>0, <3>1, <3>2 DEF Form
    <2>3. ASSUME NEW f \in FormIDs, NEW u \in UserIDs, NEW t \in UserIDs,
                 AddOwner(f, u, t) \/ RemoveOwner(f, u, t)
          PROVE  <1>1!:
      <3>1. f \in DOMAIN forms /\ UNCHANGED formsMetadata
            /\ \E list : forms' = [forms EXCEPT ![f].owners = list]
        BY <2>3 DEF AddOwner, RemoveOwner, Stored
      <3>2. PICK list : forms' = [forms EXCEPT ![f].owners = list]
        BY <3>1
      <3>. QED BY <2>0, <3>1, <3>2 DEF Form
    <2>. QED BY <2>1, <2>2, <2>3 DEF Permissions
  <1>. QED
    BY <1>1 DEF SameView, PhaseOf, BoxOf, ResultOf, Stored

\* A step on one form implements a step of its election.
LEMMA ElectionStep ==
    ASSUME NEW f \in FormIDs, \A g \in FormIDs \ {f} : SameView(g)
    PROVE  /\ PhaseOf(f) = "none" /\ PhaseOf(f)' = "setup" /\ UNCHANGED <<BoxOf(f), ResultOf(f)>>
                  => E!Create(f)
           /\ PhaseOf(f) = "setup" /\ PhaseOf(f)' = "voting" /\ UNCHANGED <<BoxOf(f), ResultOf(f)>>
                  => E!OpenVoting(f)
           /\ \A v, b :
                PhaseOf(f) = "voting" /\ BoxOf(f)' = Put(BoxOf(f), v, b)
                    /\ UNCHANGED <<PhaseOf(f), ResultOf(f)>>
                  => E!Vote(f, v, b)
           /\ PhaseOf(f) = "voting" /\ PhaseOf(f)' = "tallying" /\ DOMAIN BoxOf(f) # {}
                    /\ UNCHANGED <<BoxOf(f), ResultOf(f)>>
                  => E!EndVoting(f)
           /\ PhaseOf(f) = "tallying" /\ PhaseOf(f)' = "published"
                    /\ (\E v, w \in DOMAIN BoxOf(f) : v # w)
                    /\ ResultOf(f)' = CountOf(BoxOf(f)) /\ UNCHANGED BoxOf(f)
                  => E!Publish(f)
           /\ PhaseOf(f) \notin {"none", "deleted"} /\ PhaseOf(f)' = "canceled"
                    /\ UNCHANGED <<BoxOf(f), ResultOf(f)>>
                  => E!Cancel(f)
           /\ PhaseOf(f) \notin {"none", "deleted"} /\ PhaseOf(f)' = "deleted"
                    /\ BoxOf(f)' = <<>> /\ ResultOf(f)' = EmptyBag
                  => E!Remove(f)
           /\ UNCHANGED <<PhaseOf(f), BoxOf(f), ResultOf(f)>> => UNCHANGED E!electionVars
  <1>. DEFINE ph == [g \in FormIDs |-> PhaseOf(g)]
              bx == [g \in FormIDs |-> BoxOf(g)]
              rs == [g \in FormIDs |-> ResultOf(g)]
  <1>1. /\ ph' = [ph EXCEPT ![f] = PhaseOf(f)']
        /\ bx' = [bx EXCEPT ![f] = BoxOf(f)']
        /\ rs' = [rs EXCEPT ![f] = ResultOf(f)']
    BY OneFormMoves
  <1>2. /\ ph[f] = PhaseOf(f) /\ bx[f] = BoxOf(f) /\ rs[f] = ResultOf(f)
        /\ DOMAIN ph = FormIDs /\ DOMAIN bx = FormIDs /\ DOMAIN rs = FormIDs
    OBVIOUS
  <1>3. /\ UNCHANGED BoxOf(f) => bx' = bx
        /\ UNCHANGED PhaseOf(f) => ph' = ph
        /\ UNCHANGED ResultOf(f) => rs' = rs
    BY <1>1, <1>2
  <1>. QED
    BY <1>1, <1>2, <1>3 DEF E!Create, E!OpenVoting, E!Vote, E!EndVoting, E!Publish, E!Cancel,
       E!Remove, E!electionVars, E!InPhase, E!Exists, E!EmptyBox, Put

\* A cast puts the voter's ballot in the box.
LEMMA CastRefines ==
    ASSUME IInv, BoxInv, NEW f \in FormIDs, NEW v \in UserIDs, NEW b \in Ciphervotes,
           Casts(f, v, b)
    PROVE  E!Vote(f, v, b)
  <1>1. /\ TypeOK /\ Lifecycle(f) /\ f \in DOMAIN forms
        /\ forms[f].status = Open
        /\ ballotBox' = [ballotBox EXCEPT ![f] = Put(ballotBox[f], v, b)]
    BY DEF IInv, Casts, CastVote, Lifecycle, Stored
  <1>2. ballotBox'[f] = Put(ballotBox[f], v, b)
    BY <1>1 DEF BoxInv
  <1>3. ASSUME NEW g \in FormIDs \ {f} PROVE SameView(g)
    <2>1. ballotBox'[g] = ballotBox[g]
      BY <1>1 DEF BoxInv
    <2>. QED BY <1>1, <2>1, OtherForms DEF SameView, PhaseOf, BoxOf, ResultOf, Stored
  <1>4. /\ f \in DOMAIN forms' /\ forms'[f].status = forms[f].status
        /\ forms'[f].decryptedBallots = forms[f].decryptedBallots
    BY <1>1 DEF Casts, CastVote, TypeOK, Form
  <1>5. PhaseOf(f) = "voting" /\ BoxOf(f)' = Put(BoxOf(f), v, b)
        /\ UNCHANGED <<PhaseOf(f), ResultOf(f)>>
    BY <1>1, <1>2, <1>4, Phases DEF PhaseOf, BoxOf, ResultOf, Stored
  <1>. QED
    BY <1>3, <1>5, ElectionStep

\* The box of ballots holds each ciphervote as often as voters have cast it.
LEMMA BallotsOfBox ==
    ASSUME NEW b, IsFiniteSet(DOMAIN b)
    PROVE  BallotsOf(b) = [c \in {b[v] : v \in DOMAIN b} |-> Cardinality({v \in DOMAIN b : b[v] = c})]
  <1>. DEFINE D == DOMAIN b
              h == [v \in D |-> b[v]]
  <1>1. BallotsOf(b) = [x \in {b[v] : v \in DOMAIN b} |->
            BagCardinality([v \in DOMAIN b |-> IF b[v] = x THEN SetToBag(DOMAIN b)[v] ELSE 0])]
    BY DEF BallotsOf, BagOfAll, BagCardinality, BagToSet, SetToBag
  <1>2. ASSUME NEW x
        PROVE  BagCardinality([v \in DOMAIN b |-> IF b[v] = x THEN SetToBag(DOMAIN b)[v] ELSE 0])
                   = Cardinality({v \in DOMAIN b : b[v] = x})
    <2>1. /\ {v \in D : h[v] = x} = {v \in D : b[v] = x}
          /\ [v \in D |-> IF h[v] = x THEN SetToBag(D)[v] ELSE 0]
                = [v \in D |-> IF b[v] = x THEN SetToBag(D)[v] ELSE 0]
      OBVIOUS
    <2>. HIDE DEF h
    <2>. QED BY <2>1, BagOfImages
  <1>. QED BY <1>1, <1>2

\* The count of a box has each plaintext as often as voters have chosen it.
LEMMA CountOfBox ==
    ASSUME NEW b, IsFiniteSet(DOMAIN b)
    PROVE  CountOf(b) = [p \in {Plaintext[b[v]] : v \in DOMAIN b} |->
                            Cardinality({v \in DOMAIN b : Plaintext[b[v]] = p})]
  <1>. DEFINE D == DOMAIN b
              h == [v \in D |-> Plaintext[b[v]]]
  <1>1. CountOf(b) = [x \in {Plaintext[b[v]] : v \in D} |->
            BagCardinality([v \in D |-> IF Plaintext[b[v]] = x THEN SetToBag(D)[v] ELSE 0])]
    BY DEF CountOf, BagOfAll, BagCardinality, BagToSet, SetToBag
  <1>2. ASSUME NEW x
        PROVE  BagCardinality([v \in D |-> IF Plaintext[b[v]] = x THEN SetToBag(D)[v] ELSE 0])
                   = Cardinality({v \in D : Plaintext[b[v]] = x})
    <2>1. /\ {v \in D : h[v] = x} = {v \in D : Plaintext[b[v]] = x}
          /\ [v \in D |-> IF h[v] = x THEN SetToBag(D)[v] ELSE 0]
                = [v \in D |-> IF Plaintext[b[v]] = x THEN SetToBag(D)[v] ELSE 0]
      OBVIOUS
    <2>. HIDE DEF h
    <2>. QED BY <2>1, BagOfImages
  <1>. QED BY <1>1, <1>2

\* Decrypting the ballots of a box counts it: the voters of a plaintext are those
\* of the ciphervotes that hide it. A bag of two ballots has two voters.
LEMMA BoxIsCounted ==
    ASSUME NEW b, IsFiniteSet(DOMAIN b)
    PROVE  /\ Decrypted(BallotsOf(b)) = CountOf(b)
           /\ BagCardinality(BallotsOf(b)) >= 2 <=> \E v, w \in DOMAIN b : v # w
  <1>. DEFINE D == DOMAIN b
              R == {b[v] : v \in D}
              B == BallotsOf(b)
  <1>1. DOMAIN B = R /\ \A c \in R : B[c] = Cardinality({v \in D : b[v] = c})
    <2>1. B = [c \in R |-> Cardinality({v \in D : b[v] = c})]
      BY BallotsOfBox
    <2>. HIDE DEF B
    <2>. QED BY <2>1
  <1>2. IsFiniteSet(R)
    BY FiniteImage
  <1>. HIDE DEF B, R
  <1>3. Decrypted(B) = CountOf(b)
    <2>. DEFINE hits(p) == [c \in R |-> IF Plaintext[c] = p THEN B[c] ELSE 0]
    <2>1. Decrypted(B) = [p \in {Plaintext[c] : c \in R} |-> BagCardinality(hits(p))]
      BY <1>1 DEF Decrypted, BagOfAll, BagCardinality, BagToSet
    <2>2. {Plaintext[c] : c \in R} = {Plaintext[b[v]] : v \in D}
      BY DEF R
    <2>3. ASSUME NEW p PROVE BagCardinality(hits(p)) = Cardinality({v \in D : Plaintext[b[v]] = p})
      <3>. DEFINE T == {v \in D : Plaintext[b[v]] = p}
      <3>1. IsFiniteSet(T)
        BY FS_Subset
      <3>2. ASSUME NEW c \in R PROVE hits(p)[c] = Cardinality({v \in T : b[v] = c})
        <4>1. CASE Plaintext[c] = p
          <5>1. {v \in T : b[v] = c} = {v \in D : b[v] = c}
            BY <4>1
          <5>. QED BY <1>1, <4>1, <5>1
        <4>2. CASE Plaintext[c] # p
          <5>1. {v \in T : b[v] = c} = {}
            BY <4>2
          <5>. QED BY <4>2, <5>1, FS_EmptySet
        <4>. QED BY <4>1, <4>2
      <3>3. {v \in T : b[v] \in R} = T
        BY DEF R
      <3>4. DOMAIN hits(p) = R
        OBVIOUS
      <3>. HIDE DEF hits, T
      <3>5. Total(hits(p)) = Cardinality(T)
        BY <1>2, <3>1, <3>2, <3>3, <3>4, FibresAddUp
      <3>. QED BY <3>5, BagTotal DEF T
    <2>4. CountOf(b) = [p \in {Plaintext[b[v]] : v \in D} |->
                            Cardinality({v \in D : Plaintext[b[v]] = p})]
      BY CountOfBox
    <2>. HIDE DEF hits
    <2>. QED BY <2>1, <2>2, <2>3, <2>4
  <1>4. BagCardinality(B) = Cardinality(D)
    <2>1. {v \in D : b[v] \in R} = D
      BY DEF R
    <2>2. Total(B) = Cardinality(D)
      BY <1>1, <1>2, <2>1, FibresAddUp
    <2>. QED BY <2>2, BagTotal
  <1>5. ASSUME Cardinality(D) >= 2 PROVE \E v, w \in D : v # w
    <2>1. D # {}
      BY <1>5, FS_EmptySet
    <2>2. PICK v \in D : TRUE
      BY <2>1
    <2>3. D # {v}
      BY <1>5, FS_Singleton
    <2>. QED BY <2>2, <2>3
  <1>6. ASSUME NEW v \in D, NEW w \in D, v # w PROVE Cardinality(D) >= 2
    <2>1. Cardinality({v, w}) = 2
      <3>1. IsFiniteSet({v}) /\ Cardinality({v}) = 1 /\ {v, w} = {v} \cup {w}
        BY FS_Singleton
      <3>. QED BY <1>6, <3>1, FS_AddElement
    <2>2. Cardinality({v, w}) <= Cardinality(D)
      <3>. DEFINE T == {v, w}
      <3>1. T \subseteq D /\ IsFiniteSet(D)
        OBVIOUS
      <3>. HIDE DEF D, T
      <3>2. Cardinality(T) <= Cardinality(D)
        BY <3>1, FS_Subset
      <3>. QED BY <3>2 DEF T
    <2>. QED BY <2>1, <2>2, FS_CardinalityType
  <1>. QED BY <1>3, <1>4, <1>5, <1>6 DEF B

-----------------------------------------------------------------------------
(***************************************************************************)
(* No form with two voters is ever locked. Every shuffle of a form holds   *)
(* the ballots of its voters, so that the next one starts from as many.    *)
(***************************************************************************)
ShufflesInv ==
    \A f \in DOMAIN forms : \A i \in 1 .. Len(forms[f].shuffleInstances) :
        forms[f].shuffleInstances[i].ballots = BallotsOf(Suffragia(forms[f].suffragia))

\* The ballots a round starts from are those of the voters.
LEMMA EveryRoundStartsFromBox ==
    ASSUME TypeOK, ShufflesInv, NEW f \in DOMAIN forms
    PROVE  ShuffleInput(forms[f]) = BallotsOf(Suffragia(forms[f].suffragia))
  <1>. DEFINE form == forms[f]
  <1>1. form.shuffleInstances \in Seq([ballots : ShuffleOutputs, shuffler : Nodes])
    BY DEF TypeOK, Form
  <1>2. \A i \in 1 .. Len(form.shuffleInstances) :
            form.shuffleInstances[i].ballots = BallotsOf(Suffragia(form.suffragia))
    BY DEF ShufflesInv
  <1>. QED
    BY <1>1, <1>2 DEF ShuffleInput, Last

\* The shuffles keep the ballots (shuffleBallots).
THEOREM ShufflesHold == Spec => []ShufflesInv
  <1>1. Init => ShufflesInv
    BY DEF Init, ShufflesInv
  <1>2. IInv /\ ShufflesInv /\ [Next]_vars => ShufflesInv'
    <2>. SUFFICES ASSUME IInv, ShufflesInv, [Next]_vars PROVE ShufflesInv'
      OBVIOUS
    <2>0. TypeOK /\ StoredFormsListed
      BY DEF IInv
    <2>1. CASE UNCHANGED vars
      BY <2>1 DEF vars, ShufflesInv
    <2>2. CASE Next
      <3>. SUFFICES ASSUME NEW g \in DOMAIN forms', NEW i \in 1 .. Len(forms'[g].shuffleInstances)
                    PROVE  forms'[g].shuffleInstances[i].ballots =
                               BallotsOf(Suffragia(forms'[g].suffragia))
        BY DEF ShufflesInv
      <3>. DEFINE form == forms[g]
                  s == form.shuffleInstances
                  new == forms'[g].shuffleInstances
      <3>1. ASSUME NEW v \in UserIDs, NEW b \in Ciphervotes, CastVote(g, v, b) PROVE FALSE
        <4>1. g \in DOMAIN forms /\ form \in Form /\ FormInv(form) /\ form.status = Open
          BY <3>1 DEF CastVote, Stored, IInv, TypeOK, FormsInv
        <4>2. s = <<>>
          BY <4>1 DEF FormInv, ShuffleInv
        <4>3. new = s
          BY <2>0, <3>1, <4>1 DEF CastVote, TypeOK, Form
        <4>. QED BY <4>2, <4>3
      <3>2. ASSUME NEW u \in UserIDs, NEW r \in Rosters, NEW size \in BallotSizes,
                   CreateForm(g, u, r, size)
            PROVE  FALSE
        <4>1. new = <<>>
          BY <3>2 DEF CreateForm, Put
        <4>. QED BY <4>1
      <3>3. g \in DOMAIN forms /\ forms'[g].suffragia = form.suffragia
        BY <2>0, <2>2, <3>1, <3>2, OnlyCastsCount
      <3>4. CASE new = s
        BY <3>3, <3>4 DEF ShufflesInv
      <3>5. ASSUME NEW u \in UserIDs, NEW n \in Nodes, NEW round \in 0 .. Cardinality(Nodes),
                   NEW proved \in Reencryptions, NEW output \in ShuffleOutputs,
                   ShuffleBallots(g, u, n, round, proved, output)
            PROVE  new[i].ballots = BallotsOf(Suffragia(form.suffragia))
        <4>1. /\ ShuffleInput(form) = output
              /\ new = Append(s, [ballots |-> output, shuffler |-> n])
          BY <2>0, <3>3, <3>5 DEF ShuffleBallots, TakesShuffle, ShuffleVerifies, TypeOK, Form
        <4>2. s \in Seq([ballots : ShuffleOutputs, shuffler : Nodes])
          BY <2>0, <3>3 DEF TypeOK, Form
        <4>3. output = BallotsOf(Suffragia(form.suffragia))
          BY <2>0, <3>3, <4>1, EveryRoundStartsFromBox
        <4>4. CASE i = Len(s) + 1
          BY <4>1, <4>2, <4>3, <4>4
        <4>5. CASE i # Len(s) + 1
          <5>1. i \in 1 .. Len(s) /\ new[i] = s[i]
            BY <4>1, <4>2, <4>5
          <5>. QED BY <3>3, <5>1 DEF ShufflesInv
        <4>. QED BY <4>4, <4>5
      <3>. QED BY <2>0, <2>2, <3>3, <3>4, <3>5, OnlyShufflesAppend
    <2>. QED BY <2>1, <2>2
  <1>. QED
    BY <1>1, <1>2, InvariantHolds, PTL DEF Spec

\* The voters of a form are finitely many: a block has BallotsPerBlock at most.
LEMMA VotersFinite ==
    ASSUME BlocksInv, NEW f \in DOMAIN forms, forms[f].suffragia \in Seq(Blocks)
    PROVE  IsFiniteSet(VotersOf(forms[f]))
  <1>. DEFINE s == forms[f].suffragia
              I == 1 .. Len(s)
              h == [i \in I |-> DOMAIN s[i]]
              T == {h[i] : i \in I}
  <1>1. IsFiniteSet(I)
    BY FS_Interval
  <1>2. IsFiniteSet(T)
    <2>. HIDE DEF h, I
    <2>. QED BY <1>1, FiniteImage
  <1>3. \A i \in I : IsFiniteSet(h[i])
    BY DEF BlocksInv, Filled
  <1>4. VotersOf(forms[f]) = UNION T
    BY DEF VotersOf, Suffragia
  <1>. HIDE DEF T
  <1>5. \A x \in T : IsFiniteSet(x)
    BY <1>3 DEF T
  <1>. QED
    BY <1>2, <1>4, <1>5, FS_UNION

\* A form that waits for shuffles takes one from some node just if two voters voted
\* on it; one that waits for shares takes them from some node: the thresholds are
\* never more than the roster (createForm).
THEOREM FormsNeverLocked == Spec => []NodesRemain
  <1>1. IInv /\ BlocksInv /\ ShufflesInv => NodesRemain
    <2>. SUFFICES ASSUME IInv, BlocksInv, ShufflesInv, NEW f \in DOMAIN forms
                  PROVE  /\ forms[f].status = Closed =>
                                ((\E v, w \in VotersOf(forms[f]) : v # w) <=>
                                 \E n \in forms[f].roster :
                                    TakesShuffle(forms[f], n, Len(forms[f].shuffleInstances),
                                                 ReencryptedBy(forms[f]), ShuffleInput(forms[f])))
                         /\ forms[f].status = ShuffledBallots =>
                                \E n, m \in forms[f].roster :
                                    CanSubmitShares(forms[f], n, DkgIndex[m])
      BY DEF NodesRemain
    <2>. DEFINE form == forms[f]
    <2>1. form \in Form /\ FormInv(form)
      BY DEF IInv, TypeOK, FormsInv
    <2>0. (\E v, w \in VotersOf(form) : v # w) <=> BagCardinality(ShuffleInput(form)) >= 2
      <3>1. form.suffragia \in Seq(Blocks)
        BY <2>1 DEF Form
      <3>2. IsFiniteSet(DOMAIN Suffragia(form.suffragia))
        BY <3>1, VotersFinite DEF VotersOf
      <3>3. ShuffleInput(form) = BallotsOf(Suffragia(form.suffragia))
        BY EveryRoundStartsFromBox DEF IInv
      <3>. QED BY <3>2, <3>3, BoxIsCounted DEF VotersOf
    <2>. HIDE DEF form
    <2>2. /\ IsFiniteSet(form.roster) /\ form.roster \subseteq Nodes
          /\ Cardinality(form.roster) \in Nat
          /\ form.shuffleThreshold \in 1 .. Cardinality(form.roster)
      <3>1. form.roster \in Rosters
        BY <2>1 DEF Form
      <3>. QED
        BY <2>1, <3>1, RosterAssumption, ThresholdRange DEF FormInv, ShuffleInv
    <2>3. ASSUME form.status = Closed
          PROVE  \E n \in form.roster : CanShuffle(form, n, Len(form.shuffleInstances))
      <3>. DEFINE s == [i \in 1 .. Len(form.shuffleInstances) |->
                            form.shuffleInstances[i].shuffler]
      <3>1. /\ s \in Seq(form.roster) /\ Len(s) = Len(form.shuffleInstances)
            /\ Len(s) \in Nat
            /\ \A i \in 1 .. Len(s) : s[i] = form.shuffleInstances[i].shuffler
            /\ \A i, j \in 1 .. Len(s) : s[i] = s[j] => i = j
        BY <2>1, ShufflerList
      <3>. HIDE DEF s
      <3>2. Len(s) < Cardinality(form.roster)
        <4>1. Len(form.shuffleInstances) < form.shuffleThreshold
          BY <2>1, <2>3 DEF FormInv, ShuffleInv
        <4>. QED BY <2>2, <3>1, <4>1
      <3>3. PICK n \in form.roster : \A i \in 1 .. Len(s) : s[i] # n
        BY <2>2, <3>1, <3>2, DistinctWithin
      <3>. QED BY <3>1, <3>3 DEF CanShuffle
    <2>4. ASSUME form.status = ShuffledBallots
          PROVE  \E n, m \in form.roster : CanSubmitShares(form, n, DkgIndex[m])
      <3>. DEFINE units == form.pubsharesUnits
                  k == Len(units)
                  s == [i \in 1 .. k |-> units[i].pubKey]
                  t == [i \in 1 .. k |-> units[i].index]
                  used == {t[i] : i \in 1 .. Len(t)}
      <3>1. /\ k \in Nat
            /\ \A i \in 1 .. k : units[i].pubKey \in form.roster /\ units[i].index \in Nat
            /\ \A i, j \in 1 .. k : units[i].pubKey = units[j].pubKey => i = j
            /\ \A i, j \in 1 .. k : units[i].index = units[j].index => i = j
            /\ k < form.shuffleThreshold
        <4>1. units \in Seq([pubKey : Nodes, index : Nat])
          BY <2>1 DEF Form
        <4>2. k \in Nat /\ \A i \in 1 .. k : units[i] \in [pubKey : Nodes, index : Nat]
          <5>. HIDE DEF units
          <5>1. k \in Nat
            BY <4>1
          <5>2. ASSUME NEW i \in 1 .. Len(units) PROVE units[i] \in [pubKey : Nodes, index : Nat]
            BY <4>1, ElementOfSeq
          <5>. QED BY <5>1, <5>2
        <4>3. /\ \A i \in 1 .. k : units[i].pubKey \in form.roster
              /\ \A i, j \in 1 .. k :
                     units[i].pubKey = units[j].pubKey \/ units[i].index = units[j].index => i = j
              /\ k < form.shuffleThreshold
          BY <2>1, <2>4 DEF FormInv, SharesInv
        <4>. QED BY <4>1, <4>2, <4>3
      <3>. HIDE DEF units, k
      <3>2. /\ s \in Seq(form.roster) /\ Len(s) = k
            /\ \A i \in 1 .. k : s[i] = units[i].pubKey
            /\ t \in Seq(Nat) /\ Len(t) = k
            /\ \A i \in 1 .. k : t[i] = units[i].index
        BY <3>1
      <3>. HIDE DEF s, t
      <3>3. k < Cardinality(form.roster)
        BY <2>2, <3>1
      <3>4. PICK n \in form.roster : \A i \in 1 .. k : units[i].pubKey # n
        <4>1. \A i, j \in 1 .. Len(s) : s[i] = s[j] => i = j
          BY <3>1, <3>2
        <4>2. PICK n \in form.roster : \A i \in 1 .. Len(s) : s[i] # n
          BY <2>2, <3>2, <3>3, <4>1, DistinctWithin
        <4>. QED BY <3>2, <4>2
      <3>5. IsFiniteSet(used) /\ Cardinality(used) = k
        <4>1. \A i, j \in 1 .. Len(t) : t[i] = t[j] => i = j
          BY <3>1, <3>2
        <4>. QED BY <3>2, <4>1, DistinctEntries
      <3>6. \E m \in form.roster : DkgIndex[m] \notin used
        <4>. DEFINE g == [m \in form.roster |-> DkgIndex[m]]
        <4>1. ASSUME \A m \in form.roster : DkgIndex[m] \in used PROVE FALSE
          <5>. HIDE DEF used
          <5>1. g \in [form.roster -> used]
            BY <4>1
          <5>2. \E x, y \in form.roster : x # y /\ g[x] = g[y]
            <6>. HIDE DEF g
            <6>. QED BY <2>2, <3>3, <3>5, <5>1, FS_PigeonHole
          <5>. QED BY <2>2, <5>2, RosterAssumption
        <4>. QED BY <4>1
      <3>7. PICK m \in form.roster : DkgIndex[m] \notin used
        BY <3>6
      <3>8. \A i \in 1 .. k : units[i].index # DkgIndex[m]
        BY <3>2, <3>7
      <3>. QED BY <3>4, <3>8 DEF CanSubmitShares, units, k
    <2>5. ASSUME form.status = Closed, \E v, w \in VotersOf(form) : v # w
          PROVE  \E n \in form.roster :
                     TakesShuffle(form, n, Len(form.shuffleInstances),
                                  ReencryptedBy(form), ShuffleInput(form))
      BY <2>0, <2>3, <2>5 DEF TakesShuffle, ShuffleVerifies
    <2>6. ASSUME NEW n \in form.roster,
                 TakesShuffle(form, n, Len(form.shuffleInstances),
                              ReencryptedBy(form), ShuffleInput(form))
          PROVE  \E v, w \in VotersOf(form) : v # w
      BY <2>0, <2>6 DEF TakesShuffle
    <2>. QED
      BY <2>4, <2>5, <2>6 DEF form
  <1>. QED
    BY <1>1, InvariantHolds, BlocksHold, ShufflesHold, PTL

-----------------------------------------------------------------------------
(* The refinement, command by command. *)

\* Every other command on a form is a step of its election, or none.
LEMMA LifecycleRefines ==
    ASSUME IInv, BlocksInv, BoxInv, NEW f \in FormIDs, Lifecycle(f),
           UNCHANGED ballotBox,
           \A v \in UserIDs, b \in Ciphervotes : ~CastVote(f, v, b)
    PROVE  \/ E!Create(f) \/ E!OpenVoting(f) \/ E!EndVoting(f) \/ E!Publish(f)
           \/ E!Cancel(f) \/ E!Remove(f)
           \/ UNCHANGED E!electionVars
  <1>. DEFINE form == forms[f]
              Step == \/ E!Create(f) \/ E!OpenVoting(f) \/ E!EndVoting(f) \/ E!Publish(f)
                      \/ E!Cancel(f) \/ E!Remove(f)
                      \/ UNCHANGED E!electionVars
  <1>0. TypeOK /\ StoredFormsListed
    BY DEF IInv
  <1>1. \A g \in FormIDs \ {f} : SameView(g)
    BY <1>0, OtherForms DEF SameView, PhaseOf, BoxOf, ResultOf, Stored
  <1>2. ASSUME f \in DOMAIN forms
        PROVE  /\ form \in Form /\ FormInv(form) /\ Filled(form.suffragia, form.ballotCount)
               /\ Holds(form, ballotBox[f]) /\ form.status \in Statuses
               /\ forms \in [DOMAIN forms -> Form]
               /\ PhaseOf(f) = PhaseAt(form.status) /\ BoxOf(f) = ballotBox[f]
               /\ ResultOf(f) = form.decryptedBallots
    BY <1>0, <1>2 DEF IInv, TypeOK, FormsInv, BlocksInv, BoxInv, Form, PhaseOf, BoxOf,
       ResultOf, Stored
  <1>3. ASSUME f \in DOMAIN forms'
        PROVE  /\ PhaseOf(f)' = PhaseAt(forms'[f].status) /\ BoxOf(f)' = ballotBox[f]
               /\ ResultOf(f)' = forms'[f].decryptedBallots
    BY <1>3 DEF PhaseOf, BoxOf, ResultOf, Stored
  <1>4. ASSUME NEW u \in UserIDs, NEW r \in Rosters, NEW size \in BallotSizes,
               CreateForm(f, u, r, size)
        PROVE  E!Create(f)
    <2>1. /\ f \notin formsMetadata /\ f \in DOMAIN forms'
          /\ forms'[f].status = Initial /\ forms'[f].decryptedBallots = EmptyBag
      BY <1>4 DEF CreateForm, Put, Unlisted
    <2>2. f \notin DOMAIN forms /\ ballotBox[f] = <<>>
      BY <1>0, <2>1 DEF StoredFormsListed, BoxInv
    <2>3. PhaseOf(f) = "none" /\ BoxOf(f) = <<>> /\ ResultOf(f) = EmptyBag
      BY <2>1, <2>2 DEF PhaseOf, BoxOf, ResultOf, Stored
    <2>4. PhaseOf(f)' = "setup" /\ BoxOf(f)' = <<>> /\ ResultOf(f)' = EmptyBag
      BY <1>3, <2>1, <2>2, Phases
    <2>. QED BY <1>1, <2>3, <2>4, ElectionStep
  <1>5. ASSUME NEW u \in UserIDs, NEW key \in PubKeys, OpenForm(f, u, key)
        PROVE  E!OpenVoting(f)
    <2>1. f \in DOMAIN forms /\ form.status = Initial
      BY <1>5 DEF OpenForm, Stored
    <2>2. /\ f \in DOMAIN forms' /\ forms'[f].status = Open
          /\ forms'[f].decryptedBallots = form.decryptedBallots
      BY <1>2, <1>5, <2>1 DEF OpenForm, Form
    <2>. QED BY <1>1, <1>2, <1>3, <2>1, <2>2, Phases, ElectionStep
  <1>6. ASSUME NEW u \in UserIDs, CloseForm(f, u)
        PROVE  E!EndVoting(f)
    <2>1. f \in DOMAIN forms /\ form.status = Open /\ form.ballotCount > 1
      BY <1>6 DEF CloseForm, Stored
    <2>2. /\ f \in DOMAIN forms' /\ forms'[f].status = Closed
          /\ forms'[f].decryptedBallots = form.decryptedBallots
      BY <1>2, <1>6, <2>1 DEF CloseForm, Form
    <2>3. DOMAIN ballotBox[f] # {}
      <3>1. form.suffragia \in Seq(Blocks) /\ form.ballotCount \in Nat
        BY <1>2, <2>1 DEF Form
      <3>2. Len(form.suffragia) # 0
        BY <1>2, <2>1, <3>1, BallotAssumption DEF Filled
      <3>3. 1 \in 1 .. Len(form.suffragia)
        BY <3>1, <3>2
      <3>4. /\ IsFiniteSet(DOMAIN form.suffragia[1])
            /\ Cardinality(DOMAIN form.suffragia[1]) \in 1 .. BallotsPerBlock
        BY <1>2, <2>1, <3>3 DEF Filled
      <3>5. DOMAIN form.suffragia[1] # {}
        BY <3>4, FS_EmptySet, BallotAssumption
      <3>6. PICK v : v \in DOMAIN form.suffragia[1]
        BY <3>5
      <3>7. 1 \in HasVotedIn(form.suffragia, v)
        BY <3>3, <3>6 DEF HasVotedIn
      <3>. QED BY <1>2, <2>1, <3>1, <3>7, SuffragiaVoters DEF Holds
    <2>. QED BY <1>1, <1>2, <1>3, <2>1, <2>2, <2>3, Phases, ElectionStep
  <1>7. ASSUME NEW u \in UserIDs, NEW n \in Nodes, NEW round \in 0 .. Cardinality(Nodes),
               NEW proved \in Reencryptions, NEW output \in ShuffleOutputs,
               ShuffleBallots(f, u, n, round, proved, output)
        PROVE  UNCHANGED E!electionVars
    <2>1. f \in DOMAIN forms /\ form.status = Closed
      BY <1>7 DEF ShuffleBallots, Stored
    <2>2. /\ f \in DOMAIN forms' /\ forms'[f].status \in {Closed, ShuffledBallots}
          /\ forms'[f].decryptedBallots = form.decryptedBallots
      BY <1>2, <1>7, <2>1 DEF ShuffleBallots, Form
    <2>. QED BY <1>1, <1>2, <1>3, <2>1, <2>2, Phases, ElectionStep
  <1>8. ASSUME NEW n \in Nodes, NEW index \in Indexes, RegisterPubshares(f, n, index)
        PROVE  UNCHANGED E!electionVars
    <2>1. f \in DOMAIN forms /\ form.status = ShuffledBallots
      BY <1>8 DEF RegisterPubshares, Stored
    <2>2. /\ f \in DOMAIN forms' /\ forms'[f].status \in {ShuffledBallots, PubSharesSubmitted}
          /\ forms'[f].decryptedBallots = form.decryptedBallots
      BY <1>2, <1>8, <2>1 DEF RegisterPubshares, Form
    <2>. QED BY <1>1, <1>2, <1>3, <2>1, <2>2, Phases, ElectionStep
  <1>9. ASSUME NEW u \in UserIDs, CombineShares(f, u)
        PROVE  E!Publish(f)
    <2>. DEFINE last == Last(form.shuffleInstances).ballots
    <2>1. f \in DOMAIN forms /\ form.status = PubSharesSubmitted /\ CanDecrypt(last)
      BY <1>9 DEF CombineShares, Stored
    <2>2. /\ f \in DOMAIN forms' /\ forms'[f].status = ResultAvailable
          /\ forms'[f].decryptedBallots = Decrypted(last)
      BY <1>2, <1>9, <2>1 DEF CombineShares, Form
    <2>3. form.shuffleInstances \in Seq([ballots : ShuffleOutputs, shuffler : Nodes])
          /\ form.roster \in Rosters
      BY <1>2, <2>1 DEF Form
    <2>4. Len(form.shuffleInstances) \in Nat \ {0}
      <3>1. IsShuffled(form)
        BY <2>1 DEF IsShuffled, ShuffledBallots, PubSharesSubmitted, ResultAvailable
      <3>. QED BY <1>2, <2>1, <2>3, <3>1, ThresholdRange DEF FormInv, ShuffleInv
    <2>5. last = BallotsOf(ballotBox[f]) /\ BagCardinality(BallotsOf(ballotBox[f])) >= 2
      BY <1>2, <2>1, <2>3, <2>4 DEF Holds, Last
    <2>. HIDE DEF last
    <2>6. ballotBox[f] \in Blocks /\ IsFiniteSet(DOMAIN ballotBox[f])
      BY DEF BoxInv
    <2>7. /\ Decrypted(last) = CountOf(ballotBox[f])
          /\ \E v, w \in DOMAIN ballotBox[f] : v # w
      BY <2>1, <2>5, <2>6, BoxIsCounted
    <2>. QED BY <1>1, <1>2, <1>3, <2>1, <2>2, <2>7, Phases, ElectionStep
  <1>10. ASSUME NEW u \in UserIDs, CancelForm(f, u)
         PROVE  E!Cancel(f)
    <2>1. f \in DOMAIN forms
      BY <1>10 DEF CancelForm, Stored
    <2>2. /\ f \in DOMAIN forms' /\ forms'[f].status = Canceled
          /\ forms'[f].decryptedBallots = form.decryptedBallots
      BY <1>2, <1>10, <2>1 DEF CancelForm, Form
    <2>. QED BY <1>1, <1>2, <1>3, <2>1, <2>2, Phases, ElectionStep
  <1>11. ASSUME NEW u \in UserIDs, DeleteForm(f, u)
         PROVE  E!Remove(f) \/ UNCHANGED E!electionVars
    <2>1. f \in DOMAIN forms /\ f \in formsMetadata'
          /\ (forms' = forms \/ forms' = Delete(forms, f))
      BY <1>11 DEF DeleteForm, Stored, Listed
    <2>2. CASE forms' = forms
      BY <1>1, <1>2, <1>3, <2>1, <2>2, ElectionStep
    <2>3. CASE forms' = Delete(forms, f)
      <3>1. f \notin DOMAIN forms'
        BY <2>3 DEF Delete
      <3>2. PhaseOf(f)' = "deleted" /\ BoxOf(f)' = <<>> /\ ResultOf(f)' = EmptyBag
        BY <2>1, <3>1 DEF PhaseOf, BoxOf, ResultOf, Stored
      <3>. QED BY <1>1, <1>2, <2>1, <3>2, Phases, ElectionStep
    <2>. QED BY <2>1, <2>2, <2>3
  <1>. HIDE DEF Step
  <1>12. Step
    BY <1>4, <1>5, <1>6, <1>7, <1>8, <1>9, <1>10, <1>11 DEF Lifecycle, Step
  <1>. QED
    BY <1>12 DEF Step

\* The contract implements the abstract election: every step of it is a step
\* of one form's election, or none (all the commands, Form.Suffragia).
THEOREM Refinement == CastSpec => RefinesElection
  <1>1. CastInit => E!Init
    BY DEF CastInit, Init, E!Init, E!EmptyBox, PhaseOf, BoxOf, ResultOf, Stored
  <1>2. IInv /\ BlocksInv /\ BoxInv /\ [CastNext]_<<vars, ballotBox>>
            => [E!Next]_(E!electionVars)
    <2>. SUFFICES ASSUME IInv, BlocksInv, BoxInv, [CastNext]_<<vars, ballotBox>>
                  PROVE  [E!Next]_(E!electionVars)
      OBVIOUS
    <2>1. CASE UNCHANGED <<vars, ballotBox>>
      <3>1. \A g \in FormIDs : SameView(g)
        BY <2>1 DEF vars, SameView, PhaseOf, BoxOf, ResultOf, Stored
      <3>. QED BY <3>1, NoFormMoves
    <2>2. ASSUME NEW f \in FormIDs, NEW v \in UserIDs, NEW b \in Ciphervotes, Casts(f, v, b)
          PROVE  E!Next
      BY <2>2, CastRefines DEF E!Next
    <2>3. ASSUME CastsNothing PROVE [E!Next]_(E!electionVars)
      <3>1. /\ Next /\ UNCHANGED ballotBox /\ TypeOK
            /\ \A g \in DOMAIN forms \cap DOMAIN forms' :
                   forms'[g].ballotCount = forms[g].ballotCount
        BY <2>3 DEF CastsNothing, IInv
      <3>2. CASE Permissions
        BY <3>1, <3>2, PermissionsStutter
      <3>3. ASSUME NEW f \in FormIDs, Lifecycle(f) PROVE [E!Next]_(E!electionVars)
        <4>1. ASSUME NEW v \in UserIDs, NEW b \in Ciphervotes, CastVote(f, v, b) PROVE FALSE
          <5>1. f \in DOMAIN forms /\ forms[f] \in Form /\ f \in DOMAIN forms'
            BY <3>1, <4>1 DEF TypeOK, CastVote, Stored
          <5>2. forms'[f].ballotCount = forms[f].ballotCount + 1
            BY <3>1, <4>1, <5>1 DEF CastVote, TypeOK, Form
          <5>3. forms[f].ballotCount \in Nat
            BY <5>1 DEF Form
          <5>. QED BY <3>1, <5>1, <5>2, <5>3
        <4>2. \/ E!Create(f) \/ E!OpenVoting(f) \/ E!EndVoting(f) \/ E!Publish(f)
              \/ E!Cancel(f) \/ E!Remove(f)
              \/ UNCHANGED E!electionVars
          BY <3>1, <3>3, <4>1, LifecycleRefines
        <4>. QED BY <4>2 DEF E!Next
      <3>. QED BY <3>1, <3>2, <3>3 DEF Next
    <2>. QED BY <2>1, <2>2, <2>3 DEF CastNext
  <1>. QED
    BY <1>1, <1>2, CastSpecIsSpec, InvariantHolds, BlocksHold, BoxHolds, PTL
       DEF CastSpec, RefinesElection, E!Spec
=============================================================================
