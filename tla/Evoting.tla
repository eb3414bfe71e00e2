------------------------------- MODULE Evoting -------------------------------
(***************************************************************************)
(* The e-voting smart contract (contracts/evoting): the forms, the admin   *)
(* list and the list of form IDs it keeps in the blockchain's store, with  *)
(* one action per command of Contract.Execute.                             *)
(*                                                                         *)
(* A transaction the contract rejects leaves the store alone, so it is an  *)
(* action that is not enabled: every early return of a command is a guard. *)
(* deleteForm is the exception, it writes and is rejected afterwards.      *)
(*                                                                         *)
(* A shuffle permutes and re-encrypts. A ciphervote stands for its class   *)
(* under re-encryption and a list of shuffled ballots is a bag; which      *)
(* ciphertexts a list is made of is told by the nodes that re-encrypted    *)
(* it, in their order, since each used randomness of its own.              *)
(***************************************************************************)
EXTENDS Integers, Sequences, FiniteSets, Bags, SequencesExt

CONSTANTS
    FormIDs,         \* IDs a CREATE_FORM transaction can produce (SHA256 of its txID)
    AdminListID,     \* the key of the admin list, listed among the form IDs
    NoList,          \* the admin list before anyone initialised it
    UserIDs,         \* user ID strings carried by transactions
    Atoi,            \* strconv.Atoi: defined on the strings that are numbers
    Nodes,           \* public keys of the nodes
    Rosters,         \* the rosters the chain may have when a form is created
    DkgIndex,        \* index of each node's DKG share
    Indexes,         \* indexes that REGISTER_PUB_SHARES transactions carry
    PubKeys,         \* distributed keys that DKG setups produce
    NoKey,           \* a nil Pubkey
    Ciphervotes,     \* encrypted ballots
    Chunks,          \* number of ElGamal pairs of each ciphervote
    Plaintext,       \* ballot decoded from a ciphervote whose points embed data
    BallotSizes,     \* MaxBallotSize() of the valid configurations
    ShuffleOutputs,  \* ballot bags that shuffle transactions carry
    Reencryptions,   \* re-encryptions of the ciphertexts their proofs are about
    BallotsPerBlock, \* casts stored per block of ballots
    RollbackRejected,\* the chain undoes what a rejected transaction wrote
    MaxBallots,      \* bound: casts per form
    MaxMembers       \* bound: length of the admin, owner and voter lists

\* Status of a form.
Initial == 0
Open == 1
Closed == 2
ShuffledBallots == 3
PubSharesSubmitted == 4
ResultAvailable == 5
Canceled == 6
Statuses == Initial .. Canceled

\* SciperToInt accepts six-digit numbers only.
MinSciper == 100000
MaxSciper == 999999
Scipers == MinSciper .. MaxSciper

ASSUME StoreAssumption ==
    /\ AdminListID \notin FormIDs
    /\ NoList \notin Seq(Scipers)
    /\ RollbackRejected \in BOOLEAN

ASSUME UserAssumption == \A u \in DOMAIN Atoi : Atoi[u] \in Int

ASSUME RosterAssumption ==
    /\ \A r \in Rosters : r \subseteq Nodes /\ IsFiniteSet(r) /\ r # {}
    /\ Indexes \subseteq Nat
    /\ \A n \in Nodes : DkgIndex[n] \in Indexes
    /\ \A m, n \in Nodes : DkgIndex[m] = DkgIndex[n] => m = n

ASSUME BallotAssumption ==
    /\ NoKey \notin PubKeys
    /\ \A c \in Ciphervotes : Chunks[c] \in Nat
    /\ BallotSizes \subseteq Nat
    /\ BallotsPerBlock \in Nat \ {0}
    /\ MaxBallots \in Nat
    /\ MaxMembers \in Nat

VARIABLES
    forms,           \* the stored forms, by form ID
    adminList,       \* the stored admin list, or NoList
    formsMetadata    \* FormsMetadata.FormsIDs, which has no duplicates

vars == <<forms, adminList, formsMetadata>>

-----------------------------------------------------------------------------
(* The store. *)

\* snap.Set and snap.Delete on the forms.
Put(store, k, v) == [x \in DOMAIN store \cup {k} |-> IF x = k THEN v ELSE store[x]]
Delete(store, k) == [x \in DOMAIN store \ {k} |-> store[x]]

\* Every command but createForm starts with getForm, which needs a stored form.
Stored(f) == f \in DOMAIN forms

\* FormIDs.Add as updateFormMetadataStore calls it: an error if it is listed.
Unlisted(id) == id \notin formsMetadata

\* Variant: the list with the new ID is not saved.
ListedUnsaved(id) == formsMetadata

Listed(id) == formsMetadata \cup {id}

-----------------------------------------------------------------------------
(* Users and roles. *)

\* Variant: any number is a SCIPER.
AnyNumberIsSciper(u) == u \in DOMAIN Atoi

IsSciper(u) == u \in DOMAIN Atoi /\ Atoi[u] \in Scipers
SciperToInt(u) == Atoi[u]

\* isRole, GetAdminIndex: a user whose ID does not convert has no role.
IsRole(list, u) == IsSciper(u) /\ Contains(list, SciperToInt(u))
IsOwner(f, u) == IsRole(forms[f].owners, u)
IsVoter(f, u) == IsRole(forms[f].voters, u)

\* fetchAdmin: there is a list and it holds the user.
IsAdmin(u) == adminList # NoList /\ IsRole(adminList, u)

\* append(list, sciper), under the bound on the length of lists.
AddMember(list, u) == Append(list, SciperToInt(u))
CanAddMember(list, u) == IsSciper(u) /\ Len(list) < MaxMembers

\* RemoveAdmin, RemoveVoter, RemoveOwner drop the first entry of the user.
RemoveMember(list, u) == RemoveFirst(list, SciperToInt(u))

\* Variant: the last one may be removed.
CanAlwaysRemove(list) == TRUE

\* RemoveAdmin and RemoveOwner refuse to empty the list.
CanRemoveLast(list) == Len(list) > 1

-----------------------------------------------------------------------------
(* Ballots. *)

ChunksPerBallot(form) ==
    IF form.ballotSize % 29 = 0 THEN form.ballotSize \div 29
                                ELSE form.ballotSize \div 29 + 1

\* Variant: a full block is not followed by a new one.
CastInFirstBlock(blocks, count, v, b) ==
    IF blocks = <<>>
    THEN Append(blocks, Put(<<>>, v, b))
    ELSE [blocks EXCEPT ![Len(blocks)] = Put(@, v, b)]

\* Form.CastVote: a new block every BallotsPerBlock casts, else the last block;
\* in a block (Suffragia.CastVote) a user's vote replaces the earlier one.
CastInBlock(blocks, count, v, b) ==
    IF count % BallotsPerBlock = 0
    THEN Append(blocks, Put(<<>>, v, b))
    ELSE [blocks EXCEPT ![Len(blocks)] = Put(@, v, b)]

\* Form.Suffragia: the blocks are replayed in order, so that a voter has the
\* ballot of the last block with a ballot of theirs.
HasVotedIn(blocks, v) == {i \in 1 .. Len(blocks) : v \in DOMAIN blocks[i]}

\* Variant: the first vote of a voter stays.
SuffragiaFirstWins(blocks) ==
    [v \in UNION {DOMAIN blocks[i] : i \in 1 .. Len(blocks)} |->
        blocks[Min(HasVotedIn(blocks, v))][v]]

Suffragia(blocks) ==
    [v \in UNION {DOMAIN blocks[i] : i \in 1 .. Len(blocks)} |->
        blocks[Max(HasVotedIn(blocks, v))][v]]

\* The ciphervotes of a ballot box, without the voters.
BallotsOf(box) == BagOfAll(LAMBDA v : box[v], SetToBag(DOMAIN box))

\* The ballots that round Len(shuffleInstances) of the shuffle starts from.
ShuffleInput(form) ==
    IF form.shuffleInstances = <<>>
    THEN BallotsOf(Suffragia(form.suffragia))
    ELSE Last(form.shuffleInstances).ballots

\* The nodes that have re-encrypted those ballots.
ReencryptedBy(form) ==
    [i \in 1 .. Len(form.shuffleInstances) |-> form.shuffleInstances[i].shuffler]

\* verifier (proof.HashVerify): the proof is about the ciphertexts the round
\* starts from, and the output is a permutation of them.
ShuffleVerifies(form, proved, output) ==
    /\ proved = ReencryptedBy(form)
    /\ output = ShuffleInput(form)

\* threshold.ByzantineThreshold(n)
ByzantineThreshold(n) == n - (n - 1) \div 3

\* Variant: one more than the threshold is waited for.
ExceedsThreshold(form, count) == count > form.shuffleThreshold

\* Enough shuffles, or enough submissions of shares, for the next status.
ReachesThreshold(form, count) == count >= form.shuffleThreshold

\* decrypt: the chunks of every ballot must embed data; Ballot.Unmarshal then
\* gives the ballot, or an invalidated one which is kept in the result.
CanDecrypt(bag) == DOMAIN bag \subseteq DOMAIN Plaintext
Decrypted(bag) == BagOfAll(LAMBDA c : Plaintext[c], bag)

-----------------------------------------------------------------------------
Init ==
    /\ forms = <<>>
    /\ adminList = NoList
    /\ formsMetadata = {}

\* createForm. The form ID is the hash of a transaction ID, hence new.
CreateForm(f, u, roster, size) ==
    /\ IsAdmin(u)
    /\ Unlisted(f)
    /\ forms' = Put(forms, f,
         [status           |-> Initial,
          pubkey           |-> NoKey,
          ballotSize       |-> size,
          suffragia        |-> <<>>,
          ballotCount      |-> 0,
          shuffleInstances |-> <<>>,
          shuffleThreshold |-> ByzantineThreshold(Cardinality(roster)),
          pubsharesUnits   |-> <<>>,
          decryptedBallots |-> EmptyBag,
          roster           |-> roster,
          owners           |-> <<SciperToInt(u)>>,
          voters           |-> <<>>])
    /\ formsMetadata' = Listed(f)
    /\ UNCHANGED adminList

\* openForm. key is what the local DKG actor of the form answers.
OpenForm(f, u, key) ==
    /\ Stored(f)
    /\ IsOwner(f, u)
    /\ forms[f].status = Initial
    /\ forms[f].pubkey = NoKey
    /\ forms' = [forms EXCEPT ![f].status = Open, ![f].pubkey = key]
    /\ UNCHANGED <<adminList, formsMetadata>>

\* castVote, in the order of its checks.
CastVote(f, v, b) ==
    /\ Stored(f)
    /\ forms[f].status = Open
    /\ IsVoter(f, v)
    /\ Chunks[b] = ChunksPerBallot(forms[f])
    /\ forms[f].ballotCount < MaxBallots
    /\ forms' = [forms EXCEPT
                    ![f].suffragia = CastInBlock(@, forms[f].ballotCount, v, b),
                    ![f].ballotCount = @ + 1]
    /\ UNCHANGED <<adminList, formsMetadata>>

\* closeForm: two casts are needed, by however many voters.
CloseForm(f, u) ==
    /\ Stored(f)
    /\ forms[f].status = Open
    /\ IsOwner(f, u)
    /\ forms[f].ballotCount > 1
    /\ forms' = [forms EXCEPT ![f].status = Closed]
    /\ UNCHANGED <<adminList, formsMetadata>>

\* Variant: a node may shuffle again.
CanShuffleAgain(form, n, round) ==
    round = Len(form.shuffleInstances) /\ n \in form.roster

\* A node shuffles once, and only for the round the form is at.
CanShuffle(form, n, round) ==
    /\ round = Len(form.shuffleInstances)
    /\ n \in form.roster
    /\ \A i \in 1 .. Len(form.shuffleInstances) :
           form.shuffleInstances[i].shuffler # n

\* Variant: the proof is checked against the ballots of the transaction's round,
\* whichever that is.
TakesEarlierShuffle(form, n, round, proved, output) ==
    /\ CanShuffle(form, n, Len(form.shuffleInstances))
    /\ BagCardinality(ShuffleInput(form)) >= 2
    /\ round <= Len(form.shuffleInstances)
    /\ proved = SubSeq(ReencryptedBy(form), 1, round)
    /\ output = ShuffleInput(form)

\* What the contract asks of a shuffle of a closed form: there are two ballots
\* to hide among each other, and the proof verifies.
TakesShuffle(form, n, round, proved, output) ==
    /\ CanShuffle(form, n, round)
    /\ BagCardinality(ShuffleInput(form)) >= 2
    /\ ShuffleVerifies(form, proved, output)

\* shuffleBallots. n signed the transaction, the output and its proof are n's.
ShuffleBallots(f, u, n, round, proved, output) ==
    /\ Stored(f)
    /\ forms[f].status = Closed
    /\ IsOwner(f, u)
    /\ TakesShuffle(forms[f], n, round, proved, output)
    /\ forms' = [forms EXCEPT
                    ![f].shuffleInstances = Append(@, [ballots |-> output, shuffler |-> n]),
                    ![f].status = IF ReachesThreshold(forms[f],
                                          Len(forms[f].shuffleInstances) + 1)
                                  THEN ShuffledBallots ELSE @]
    /\ UNCHANGED <<adminList, formsMetadata>>

\* Variant: the index is not compared.
CanSubmitSharesAnyIndex(form, n, index) ==
    /\ n \in form.roster
    /\ \A i \in 1 .. Len(form.pubsharesUnits) : form.pubsharesUnits[i].pubKey # n

\* A node submits its shares once, and no two nodes submit for one index.
CanSubmitShares(form, n, index) ==
    /\ n \in form.roster
    /\ \A i \in 1 .. Len(form.pubsharesUnits) :
           /\ form.pubsharesUnits[i].pubKey # n
           /\ form.pubsharesUnits[i].index # index

\* registerPubshares. n signed the transaction; its shares match the ballots in
\* number. The index is what the transaction says.
RegisterPubshares(f, n, index) ==
    /\ Stored(f)
    /\ forms[f].status = ShuffledBallots
    /\ CanSubmitShares(forms[f], n, index)
    /\ forms' = [forms EXCEPT
                    ![f].pubsharesUnits = Append(@, [pubKey |-> n, index |-> index]),
                    ![f].status = IF ReachesThreshold(forms[f],
                                          Len(forms[f].pubsharesUnits) + 1)
                                  THEN PubSharesSubmitted ELSE @]
    /\ UNCHANGED <<adminList, formsMetadata>>

\* decrypt interpolates at the indexes: with an index that is not of its node's
\* share the result is some other point, taken for one that embeds no data.
Interpolates(form) ==
    \A i \in 1 .. Len(form.pubsharesUnits) :
        form.pubsharesUnits[i].index = DkgIndex[form.pubsharesUnits[i].pubKey]

\* combineShares: every ballot is decrypted, or the transaction is rejected.
CombineShares(f, u) ==
    /\ Stored(f)
    /\ forms[f].status = PubSharesSubmitted
    /\ IsOwner(f, u)
    /\ Interpolates(forms[f])
    /\ CanDecrypt(Last(forms[f].shuffleInstances).ballots)
    /\ forms' = [forms EXCEPT
                    ![f].decryptedBallots =
                        Decrypted(Last(forms[f].shuffleInstances).ballots),
                    ![f].status = ResultAvailable]
    /\ UNCHANGED <<adminList, formsMetadata>>

\* cancelForm: an owner may cancel in every status.
CancelForm(f, u) ==
    /\ Stored(f)
    /\ IsOwner(f, u)
    /\ forms' = [forms EXCEPT ![f].status = Canceled]
    /\ UNCHANGED <<adminList, formsMetadata>>

\* deleteForm: after the form is deleted, updateFormMetadataStore adds its ID
\* to the list instead of removing it. The ID is there since the creation, so
\* the transaction is rejected with the deletion in the snapshot.
DeleteForm(f, u) ==
    /\ Stored(f)
    /\ IsOwner(f, u)
    /\ forms' = IF RollbackRejected /\ ~Unlisted(f) THEN forms ELSE Delete(forms, f)
    /\ formsMetadata' = Listed(f)
    /\ UNCHANGED adminList

\* manageAdminList, AddAdmin without a list: trust on first use, whoever
\* performs it makes the target the first admin.
InitializeAdminList(target) ==
    /\ adminList = NoList
    /\ IsSciper(target)
    /\ Unlisted(AdminListID)
    /\ adminList' = <<SciperToInt(target)>>
    /\ formsMetadata' = Listed(AdminListID)
    /\ UNCHANGED forms

\* Variant: an admin may be added again.
AddAdminAgain(u, target) ==
    /\ IsAdmin(u)
    /\ CanAddMember(adminList, target)
    /\ adminList' = AddMember(adminList, target)
    /\ UNCHANGED <<forms, formsMetadata>>

\* manageAdminList, AddAdmin and RemoveAdmin with a list.
AddAdmin(u, target) ==
    /\ IsAdmin(u)
    /\ CanAddMember(adminList, target)
    /\ ~Contains(adminList, SciperToInt(target))
    /\ adminList' = AddMember(adminList, target)
    /\ UNCHANGED <<forms, formsMetadata>>

RemoveAdmin(u, target) ==
    /\ IsAdmin(u)
    /\ IsRole(adminList, target)
    /\ CanRemoveLast(adminList)
    /\ adminList' = RemoveMember(adminList, target)
    /\ UNCHANGED <<forms, formsMetadata>>

\* manageOwnersVotersForm, by the transaction's type. The status is not read,
\* and an addition does not look for an entry of the same user.
AddVoter(f, u, target) ==
    /\ Stored(f)
    /\ IsOwner(f, u)
    /\ CanAddMember(forms[f].voters, target)
    /\ forms' = [forms EXCEPT ![f].voters = AddMember(@, target)]
    /\ UNCHANGED <<adminList, formsMetadata>>

RemoveVoter(f, u, target) ==
    /\ Stored(f)
    /\ IsOwner(f, u)
    /\ IsRole(forms[f].voters, target)
    /\ forms' = [forms EXCEPT ![f].voters = RemoveMember(@, target)]
    /\ UNCHANGED <<adminList, formsMetadata>>

AddOwner(f, u, target) ==
    /\ Stored(f)
    /\ IsOwner(f, u)
    /\ CanAddMember(forms[f].owners, target)
    /\ forms' = [forms EXCEPT ![f].owners = AddMember(@, target)]
    /\ UNCHANGED <<adminList, formsMetadata>>

RemoveOwner(f, u, target) ==
    /\ Stored(f)
    /\ IsOwner(f, u)
    /\ IsRole(forms[f].owners, target)
    /\ CanRemoveLast(forms[f].owners)
    /\ forms' = [forms EXCEPT ![f].owners = RemoveMember(@, target)]
    /\ UNCHANGED <<adminList, formsMetadata>>

-----------------------------------------------------------------------------
\* The commands by which a form goes through its life.
Lifecycle(f) ==
    \/ \E u \in UserIDs, r \in Rosters, size \in BallotSizes : CreateForm(f, u, r, size)
    \/ \E u \in UserIDs, key \in PubKeys : OpenForm(f, u, key)
    \/ \E v \in UserIDs, b \in Ciphervotes : CastVote(f, v, b)
    \/ \E u \in UserIDs : CloseForm(f, u)
    \/ \E u \in UserIDs, n \in Nodes, round \in 0 .. Cardinality(Nodes),
          proved \in Reencryptions, output \in ShuffleOutputs :
              ShuffleBallots(f, u, n, round, proved, output)
    \/ \E n \in Nodes, index \in Indexes : RegisterPubshares(f, n, index)
    \/ \E u \in UserIDs : CombineShares(f, u)
    \/ \E u \in UserIDs : CancelForm(f, u)
    \/ \E u \in UserIDs : DeleteForm(f, u)

\* The commands that change who may do what.
Permissions ==
    \/ \E t \in UserIDs : InitializeAdminList(t)
    \/ \E u, t \in UserIDs : AddAdmin(u, t)
    \/ \E u, t \in UserIDs : RemoveAdmin(u, t)
    \/ \E f \in FormIDs, u, t \in UserIDs : AddVoter(f, u, t)
    \/ \E f \in FormIDs, u, t \in UserIDs : RemoveVoter(f, u, t)
    \/ \E f \in FormIDs, u, t \in UserIDs : AddOwner(f, u, t)
    \/ \E f \in FormIDs, u, t \in UserIDs : RemoveOwner(f, u, t)

Next == Permissions \/ \E f \in FormIDs : Lifecycle(f)

Spec == Init /\ [][Next]_vars
-----------------------------------------------------------------------------
(* Properties. *)

IsShuffled(form) == form.status \in ShuffledBallots .. ResultAvailable

\* A block of ballots, and what combineShares may leave in a form.
Blocks == UNION {[S -> Ciphervotes] : S \in SUBSET UserIDs}
Results == {EmptyBag} \cup {Decrypted(bag) : bag \in ShuffleOutputs}

Form == [status           : Statuses,
         pubkey           : PubKeys \cup {NoKey},
         ballotSize       : BallotSizes,
         suffragia        : Seq(Blocks),
         ballotCount      : 0 .. MaxBallots,
         shuffleInstances : Seq([ballots : ShuffleOutputs, shuffler : Nodes]),
         shuffleThreshold : Nat,
         pubsharesUnits   : Seq([pubKey : Nodes, index : Nat]),
         decryptedBallots : Results,
         roster           : Rosters,
         owners           : Seq(Scipers),
         voters           : Seq(Scipers)]

\* The type of the contract's store: forms under their IDs, and lists of
\* six-digit numbers wherever the contract keeps users (types/election.go).
TypeOK ==
    /\ DOMAIN forms \subseteq FormIDs
    /\ forms \in [DOMAIN forms -> Form]
    /\ adminList \in Seq(Scipers) \cup {NoList}
    /\ formsMetadata \subseteq FormIDs \cup {AdminListID}

\* What the README says of shuffling: the ballots of a form are not decrypted,
\* nor are shares of them accepted, before a threshold of different nodes of
\* the form's roster has shuffled them, each exactly once (shuffleBallots).
DecryptOnlyAfterShuffle ==
    \A f \in DOMAIN forms :
        LET shufflers == {forms[f].shuffleInstances[i].shuffler :
                              i \in 1 .. Len(forms[f].shuffleInstances)}
        IN  /\ shufflers \subseteq forms[f].roster
            /\ IsShuffled(forms[f]) =>
                   Cardinality(shufflers) >= ByzantineThreshold(Cardinality(forms[f].roster))
            /\ ~IsShuffled(forms[f]) /\ forms[f].status # Canceled =>
                   forms[f].pubsharesUnits = <<>>

\* combineShares interpolates with all the shares of the form: there is a
\* threshold of them, from different nodes of the roster and at different
\* indexes (registerPubshares).
SharesRecoverSecret ==
    \A f \in DOMAIN forms :
        LET units == {forms[f].pubsharesUnits[i] : i \in 1 .. Len(forms[f].pubsharesUnits)}
        IN  /\ \A x, y \in units : x.index = y.index => x = y
            /\ \A x \in units : x.pubKey \in forms[f].roster
            /\ Cardinality(units) = Len(forms[f].pubsharesUnits)
            /\ forms[f].status \in {PubSharesSubmitted, ResultAvailable} =>
                   Cardinality(units) >= ByzantineThreshold(Cardinality(forms[f].roster))

\* The voters of a form, however often and in whichever blocks they voted.
VotersOf(form) == DOMAIN Suffragia(form.suffragia)

\* A closed form is locked just if one voter cast all its ballots, which
\* closeForm does not see (it counts casts) and shuffleBallots refuses. Any other
\* is not: while it waits for shuffles the contract takes one of its ballots from
\* some node of the roster, whatever was shuffled before; and while it waits for
\* shares, it takes them from some node at an index of the roster, whatever
\* indexes the others gave (registerPubshares).
NodesRemain ==
    \A f \in DOMAIN forms :
        /\ forms[f].status = Closed =>
               ((\E v, w \in VotersOf(forms[f]) : v # w) <=>
                \E n \in forms[f].roster :
                   TakesShuffle(forms[f], n, Len(forms[f].shuffleInstances),
                                ReencryptedBy(forms[f]), ShuffleInput(forms[f])))
        /\ forms[f].status = ShuffledBallots =>
               \E n, m \in forms[f].roster : CanSubmitShares(forms[f], n, DkgIndex[m])

\* Form.CastVote: BallotCount casts fill exactly the blocks they need, and no
\* block outgrows BallotsPerBlock (the last block is indexed by len - 1).
BlocksMatchCount ==
    \A f \in DOMAIN forms :
        /\ Len(forms[f].suffragia) * BallotsPerBlock >= forms[f].ballotCount
        /\ (Len(forms[f].suffragia) - 1) * BallotsPerBlock < forms[f].ballotCount
        /\ \A i \in 1 .. Len(forms[f].suffragia) :
               Cardinality(DOMAIN forms[f].suffragia[i]) \in 1 .. BallotsPerBlock

\* Administration is never lost: once initialised the admin list has someone
\* in it, and every stored form has an owner (RemoveAdmin, RemoveOwner).
SomeoneInCharge ==
    /\ adminList # NoList => adminList # <<>>
    /\ \A f \in DOMAIN forms : forms[f].owners # <<>>

\* An accepted REMOVE_ADMIN takes the admin's rights away: the list has no
\* second entry of the same user (AdminList.AddAdmin).
RemovedAdminHasNoRights ==
    [][\A u, t \in UserIDs : RemoveAdmin(u, t) => ~IsAdmin(t)']_vars

\* A form that is stored is listed (updateFormMetadataStore): the proxies serve
\* only listed forms. The admin list is listed with them.
StoredFormsListed ==
    /\ DOMAIN forms \subseteq formsMetadata
    /\ adminList # NoList <=> AdminListID \in formsMetadata
=============================================================================
