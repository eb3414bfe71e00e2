# TLA+ specifications of D-Voting

D-Voting runs elections ("forms") on a Byzantine fault tolerant blockchain.
Voters cast encrypted ballots, the nodes shuffle them one after the other with
verifiable shuffles, then publish shares of the decryption, and the contract
combines the shares into a result. This directory holds TLA+ modules of the
parts of the program that decide something, the TLC configurations that check
them on small instances, and TLAPS proofs of what holds on all instances.
Paths below are relative to the repository.

## The system

| Component | State | Operations | Talks to |
| --- | --- | --- | --- |
| E-voting contract: forms (`contracts/evoting`, `types/election.go`, `types/suffragia.go`) | the stored forms (status, key, blocks of ballots, shuffles, shares, result, roster, owners, voters), the list of form IDs | one command per transaction: create, open, cast, close, shuffle, register shares, combine, cancel, delete | the blockchain executes it; `openForm` asks the node's own DKG actor |
| E-voting contract: rights (`types/admin.go`, `types/election.go`) | admin list, owners and voters of each form | add and remove admins, owners, voters | the same |
| Neff shuffle (`services/shuffle/neff`) | a handler loop per node and call, its pending transaction | `Actor.Shuffle`, `StartShuffle`, loop: read, shuffle, submit, watch | reads the store between blocks, sends transactions, sees block events |
| Pedersen DKG (`services/dkg/pedersen`) | actor per form: status, keys, private share, saved state | `Setup`, deals, responses, `ComputePubshares`, the loop that submits shares, restart | streams between nodes; transactions |
| Ballots (`types/ballots.go`, `types/ciphervote.go`) | none | validation of configurations and answers, size of a ballot, decoding | called by the contract |
| Proxy (`proxy`, `proxy/txnmanager`) | none, but for the polling tokens | check a signature, send a transaction or call an actor, poll a transaction | HTTP clients, the node |
| Web backend (`web/backend`) | sessions, casbin policies in memory and in Postgres, proxies | login, logout, add and remove roles and owners, command line, restart; relay of requests to a proxy under a policy check | browsers, proxies, the database |
| Web frontend: shell (`index.tsx`, `layout`) | a tab's copy of the session and the rights, flash messages | load, route, log in and out | backend |
| Web frontend: page of a form (`pages/form/Show.tsx`, `useChangeAction.tsx`, `DKGStatusRow.tsx`) | status displayed, action under way (also in the local storage), what is known of each node | initialize, set up, open, close, shuffle, decrypt, combine, cancel, delete; polls | backend, proxies |
| Web frontend: editor (`FormForm.tsx`, `SubjectComponent.tsx`, `useQuestionForm.ts`) | the configuration, copies of each subject in two editors, the draft of a question | add, change, move, remove, upload, export, create | backend |
| Web frontend: ballot (`pages/ballot`) | answers, errors, the request under way | check, drag, type, cast | backend; the nodes decode what it sends |
| Serialisation, controllers, metrics, deployment | none | | |
| dela and kyber | external: ordering of transactions, cryptography | | |

What is hard about it:

* **Thresholds over a sequence of transactions.** Which nodes shuffled, and
  which submitted shares, is enforced one transaction at a time; that a form
  is never decrypted too early, and never locked, are facts about sequences.
* **Ballots in blocks.** A voter's votes may lie in several blocks of ballots
  and are merged when they are read; the number of casts is not the number of
  ballots.
* **Races of the nodes.** All nodes send a shuffle of the same round, from
  what they read a block ago; transactions are rejected, refused by the pool,
  outlive the watch that waits for them, and are retried in a loop without a
  bound, by two handlers of a node if the shuffle is triggered twice.
* **Partial failure.** `deleteForm` writes before it fails, one undecodable
  ballot makes `combineShares` fail, a node may never get `StartShuffle`.
* **Two keys for a user.** Rights are lists of numbers, with duplicates for
  voters and owners; transactions carry strings.
* **The DKG**: deals and responses that come before `Start`, all nodes waiting
  for all others, a crash between reporting and saving, a second `Setup`,
  goroutines that outlive their stream, contracts that read state of their node.
* **Await and effects.** A handler of the backend reloads the policies between
  two awaits of another one; React components copy maps from the render they
  belong to, keep copies of each other's state, and poll for a status that
  others change.
* **Two encoders.** A ballot is checked and written in TypeScript, and sized,
  read and checked again in Go, months later and after decryption.

`PROJECT.json` lists these at their lines under `hazards`, with the properties
that are about them.

What makes each component correct: for the contract, that it is an election
(module `Election`), that thresholds of different nodes are behind each status,
and that rights are never lost nor left behind; for the shuffle, that handlers
end, that what they report is so, and that what they read is not used stale;
for the DKG, that all nodes that report a key hold a share of it, after a
restart too; for ballots, that what is encoded decodes to itself and fits; for
the backend, that the policies in force are the stored ones, whatever handlers
overlap; for the pages, that they never show or do what the forms and the
nodes have not, and that no action stays under way for ever.

## Modules

| Module | Models |
| --- | --- |
| `Evoting` | the contract: one action per command |
| `Election` | what a contract promises: the abstract specification |
| `EvotingElection` | the refinement mapping from `Evoting` to `Election` |
| `NeffShuffle` | the shuffle service, composed with `Evoting` and an external ordering service |
| `Pedersen` | the distributed key generation of a form: actors, `Setup`, streams, goroutines, crashes |
| `AuthManager` | sessions and policies of the backend |
| `AppShell` | a browser tab's copy of the session, composed with `AuthManager` |
| `DKGTable` | the page of a form until its keys are set up |
| `FormActions` | the page of a form from then on |
| `Questions` | the two shapes of a question's choices, and the schema (operators) |
| `QuestionForm` | the dialog of a question |
| `FormEditor` | the page on which a form is written and created |
| `Ballots` | writing a ballot in the browser, sizing and reading it on the nodes (operators) |
| `BallotPage` | the page on which a ballot is filled in and cast, with the way of the request to the chain |
| `MCEvoting`, `MCElection`, `MCNeff`, `MCAuth`, `MCShell`, `MCQuestionForm`, `MCFormEditor`, `MCBallotPage` | instances for TLC |
| `ListLemmas` | facts about sequences, sums and bags the proofs rest on |
| `EvotingProofs`, `NeffProofs`, `PedersenProofs`, `AuthProofs`, `FormActionsProofs`, `FormEditorProofs`, `BallotProofs` | theorems about `EvotingElection` and `Evoting`, `NeffShuffle`, `Pedersen` and `DKGTable`, `AppShell` and `AuthManager`, `FormActions`, `FormEditor`, `BallotPage` and `QuestionForm` |

### Evoting

The variables are the three kinds of records the contract stores: `forms`
(`types.Form` by form ID), `adminList` (`types.AdminList`) and `formsMetadata`
(`types.FormsMetadata`). An action is the whole command of `Contract.Execute`;
its guards are the early returns in their order, as a rejected transaction
leaves no trace.

`deleteForm` is the exception. It deletes the form from the snapshot, then
calls `updateFormMetadataStore`, which *adds* the form's ID to the list and
fails since it is there. Whether the deletion stays depends on what the chain
does with the writes of a rejected transaction, which is not this repository's
code, so it is a constant: `RollbackRejected`. The runs have it FALSE, the
harder case; the proofs are for both.

What is abstracted:

* A ciphervote is a model value that stands for all its re-encryptions, and a
  list of shuffled ballots is a bag of them. Which ciphertexts such a list is
  made of is told by the nodes that re-encrypted it, in their order
  (`ReencryptedBy`): each shuffle uses randomness of its own, and a node's
  shuffle is accepted once. A shuffle transaction carries any bag of
  `ShuffleOutputs` and a proof about ciphertexts with any of `Reencryptions`; the
  verifier (kyber) accepts it if these are the ciphertexts the round starts
  from and the bag is theirs (`ShuffleVerifies`).
* `Chunks` gives the number of ElGamal pairs of a ciphervote, which `castVote`
  compares with `ChunksPerBallot`. `Plaintext` is what decryption and
  `Ballot.Unmarshal` make of it, and is undefined for a ciphervote whose points
  embed no data: for such a ballot `combineShares` fails as a whole.
* `Atoi` is defined on strings that are numbers; `IsSciper` keeps the range
  check of `SciperToInt`. A form ID is new at each creation, since it is a hash
  of the transaction's ID.
* `DkgIndex` is the index of the share that the DKG gave to a node, under which
  `handleDecryptRequest` submits. The contract takes any index of `Indexes` from
  a node, as long as no node and no index comes twice. Interpolated at a wrong
  index the shares give arbitrary points, on which `Data()` fails for seven of
  eight; the model takes it to fail on one of them (`Interpolates`). That
  all look like data by chance, which would publish blank ballots, and shares
  that are wrong at the right index, which nobody can tell, are left out. The key that
  `openForm` reads from the local DKG actor is any of `PubKeys`; an actor that
  is not ready rejects the command.
* Signatures of the nodes and proofs in the transactions are checked by kyber
  and dela: `n` in `ShuffleBallots` and `RegisterPubshares` is the node whose
  signature verified.

`checkPreviousTransactions` is meant to find an earlier shuffle in the same
block, but it compares the value of the command argument with the name of the
form argument, so it never finds one and has no counterpart here. That one
shuffle per block gets through all the same is a property of `NeffShuffle`.

### Election and EvotingElection

`Election` knows phases, a box with the latest vote of each voter, and a
result. Shuffles, shares and blocks of ballots are invisible: they are stutters
of the phase "tallying". `EvotingElection` adds a history variable,
`ballotBox`, to the contract: the latest vote that was accepted from each voter,
written down when it is cast and not read back from the blocks of ballots. The
abstract box is that record, and the result the decrypted ballots, so that a
vote which the blocks, `Form.Suffragia`, a shuffle or the decryption loses shows
as a result that does not count the box.

### NeffShuffle

`Evoting` with the nodes that send its shuffle transactions, for one form that
was just closed. `Shuffle` is `Actor.Shuffle` (`EditShuffle` when the HTTP
proxy calls it), `StartShuffle` the receipt of the message by
`Handler.Stream`; then `handleStartShuffle`:

| Code | Here |
| --- | --- |
| read the form; leave if it is absent, if the threshold is reached, if it is not closed | `LeaveLoop` |
| `makeTx`, `getShuffledBallots`, `pool.Add` | `SubmitShuffle` |
| `pool.Add` fails, the manager syncs | `SubmitRefused` |
| `watchTx` sees the transaction in a block | `EndBlock` |
| `watchTx` ends with its context | `WatchTimeout` |
| sync fails, or the node stops | `StopHandler` |

A transaction that nobody watches any more stays in the pool and can still be
executed. The ordering service is external: `ExecuteTx` runs a transaction of
the pool against the contract in any order and `EndBlock` stores the block and
delivers its events. Between the two handlers take no step. This loses
nothing: during a block they see neither its writes nor its verdicts, so that a
step of theirs commutes with the execution of transactions. `OwnerCommand` lets
an owner cancel or delete the form or remove an owner in the middle.

### Pedersen

| Code | Here |
| --- | --- |
| `Listen`, `NewActor` | `Listen` |
| process stops; `ReadActors` | `Crash` |
| `Setup`: key already there; roster and streams; all keys received; an error; all `StartDone` | `SetupAgain`, `Setup`, `SendStart`, `GiveUp`, `SetupReturns` |
| `Handler.Stream`: checks and `GetPeerPubKey`; return with the deferred reset | `Open`, `EndStream` |
| `start`, then `doDKG` as a goroutine: `deal`, `respond` with `handleDeal`, `certify`, key, share, `StartDone`, `saveState` | `start`, `deal`, `handleDeal`, `certify`, `SetDistKey`, `SetPrivShare`, `SendStartDone` or `StartDoneLost`, `Save` |

A call has one stream per node with lists of its own; all streams of a node
share its handler. A generator is named by the call that made it, and a key is
the deal of each node that it was computed from, so that a key that mixes two
calls is a different key. What kyber accepts is external: one deal per dealer,
responses to the deal that the node has, and a key once every deal is approved
by every node, which is the threshold too for up to three nodes. `Timeouts`
says whether a call may give up although all answers would still come; without
it, a call fails when a stream was refused or is gone before `StartDone`. The
times are 10 s and 200 s against a protocol of a few messages. Not modelled:
`handleDecryptRequest` and `ComputePubshares`, and the form that `Listen` and
`Setup` look up.

### AuthManager and AppShell

`mem` is what the casbin enforcer has in memory, `db` the rows of Postgres. A
handler runs to its first await in one step and is a task from then on, whose
steps (store a row, fail, empty the memory, read the rows, add them)
interleave with those of other tasks. The command line writes the database of a
running backend; a restart ends all tasks and loads the rows. `removed` and
`outOfBand` are history. The sets of sessions by user (`sciper2sess`) are left
out: the backend keeps them and decides nothing by them. `AppShell` adds tabs
that ask `/personal_info` once and go by the answer. A login or a logout whose
fetch fails changes nothing in the tab, and its request may have been executed,
be lost, or be on its way still (`late`).

### DKGTable and FormActions

Both are the page `Show.tsx`, before and after the keys are set up; in between
there is no way back. `DKGTable` has the rows of the table with their fetches
and polls, and the maps of the page, which rows overwrite from the render they
belong to: of rows that write in one commit the last one wins (`written`). A row
that acts before it knows its proxy calls `null` (`nowhere`). `FormActions` has
the buttons, dialogs, posts, the one poll of the page, the local storage from
which an action is taken up, and the form, which moves on its own
(`ChainMoves`).

### Questions, QuestionForm and FormEditor

`Questions` converts between `Choices` and `ChoicesMap` as `getObjectType.ts`
and `JSONparser.ts` do, and has the schema. `QuestionForm` is one dialog; the
variable `alias` says what of its `ChoicesMap` the draft shares with the
question, since `deleteChoice` changes it in place.

`FormEditor` has the configuration and, since `FormForm` draws its editor twice
and hides one by the width of the window, two sets of components (`subject`, by
editor and ID of the subject): the state of each subject of the first level
with the states of those nested in it. A change in the editor that is shown is
passed up to the configuration; nothing is passed down, so that components keep
what they were mounted with. `apart` remembers, until the form is empty again,
that the window has changed its width (`Resize`) or that a file brought an ID
that the form had, or one twice: then components and configuration may
differ. A question is what the schema says of it. Files are any lists of
subjects with IDs of their own (negative numbers), or the page's last export. A
creation is a request, then a poll; `IsValid` is the test of the contract, on
which the transaction depends.

### Ballots and BallotPage

A text is its length in UTF-16 units and in bytes, the spaces around it, and
whether the regular expression accepts it; a line of a ballot is its kind, its
question and its list of answers. `Throws` is the failure of `voteEncode` when
the ballot is longer than the chunks that `MaxEncodedSize` and
`ChunksPerBallot` reserved. Subjects are left out (they add to the size
reserved only); a form has at least one question; encryption and decryption are
the identity on ballots. All ranks of a page are in one `DragDropContext`:
`handleOnDragEnd` takes the rank that an entry comes from as well as the one it
is dropped in, and `moved` uses the index of the first in the list of the
second, where it may be that of no entry; what is then inserted is blank
(`Undefined`). In `BallotPage` a voter may leave the page and vote again while
requests are on their way. A request arrives at any time, after later ones too, or
never; its fetch may fail wherever the request is, and `told` is what the voter
heard of it. The nodes execute the transactions in the order of the pool while
the form is open: all of them are signed by one proxy, with increasing nonces.
Whether the user may vote is the contract's question and is assumed.

## Runs

`tlc -workers 2 -config X.cfg M`, three minutes or less each.

| Run | Config, module | Checks |
| --- | --- | --- |
| `lifecycle` | `Lifecycle.cfg`, `MCElection` | `TypeOK`, `BlocksMatchCount`, `DecryptOnlyAfterShuffle`, `SharesRecoverSecret`, `NodesRemain`, `RefinesElection` |
| `permissions` | `Permissions.cfg`, `MCEvoting` | `SomeoneInCharge`, `StoredFormsListed`, `RemovedAdminHasNoRights` |
| `shuffle_ends` | `ShuffleEnds.cfg`, `MCNeff` | `OneShufflePerBlock`, `CurrentShuffleVerifies`, `AcceptedHandlersContributed`, `ShuffleEnds` |
| `dkg` | `Pedersen.cfg`, `Pedersen` | `SavedTogether`, `ReturnedKeyIsHeld`, `SetupEnds`, `KeyIsSaved` |
| `auth` | `Auth.cfg`, `MCAuth` | `NoUnsavedRight`, `StoredIsInForce`, `LockoutEnds` |
| `shell` | `Shell.cfg`, `MCShell` | `PagesWereGranted` |
| `dkg_table` | `DKGTable.cfg`, `DKGTable` | `StatusesAgree`, `SetupIsReachable`, `SettingUpEnds` |
| `form_page` | `FormActions.cfg`, `FormActions` | `NeverAhead`, `ConfirmedOnce`, `OngoingEnds` |
| `question_dialog` | `QuestionForm.cfg`, `MCQuestionForm` | `UniformRoundTrip`, `SavedRankFits`, `RankDeleteExact` |
| `form_editor` | `FormEditor.cfg`, `MCFormEditor` | `CopiesAgree`, `NodesTakeForms` |
| `ballot_page` | `BallotPage.cfg`, `MCBallotPage` | `RequestsDecode`, `FitsChunks`, `ErrorsAreCurrent`, `LastVoteCounts`, `RefusalIsExplained`, `CastEnds` |
| `second_setup` | `SecondSetup.cfg`, `Pedersen` | `ReturnedKeyIsHeld`: violated |

**lifecycle** takes one form from its creation to its result, with two voters,
four casts and blocks of two ballots: enough for a voter whose votes are in two
blocks, for a double vote within a block, and for a block that is full because
of one. A third ciphervote is too long for the form. Rosters of one and of two
nodes need one and two shuffles and submissions; thresholds that leave a node
out begin at four nodes, where the proofs take over. Nodes send public shares
with the index of another node too, and shuffles that were made of an earlier
round.

**permissions** changes who administers, owns and votes in a form at every
point of its life, up to its result with two ballots, with two users besides
the IDs "99999" (a number that is no SCIPER) and "" (no number). Lists of two
entries are where a user is listed twice, or is the last.

**shuffle_ends** has two nodes that both must shuffle, so that one of them
loses the race of a round and tries again, a handler that stops, a command of
an owner at any time, and a call by an owner or through the proxy. A second
call, or a third node, takes the liveness check beyond a few minutes.

**dkg** has three nodes, the smallest roster in which a node needs the responses
of others (with two, dealer and node itself are everybody), one call, and one
crash at any step, of the caller too. A node may listen before, during or after
the call. `ReturnedKeyIsHeld` and `KeyIsSaved` count the nodes without share
against the crashes, since a node that crashes between `StartDone` and
`saveState` does lose its share. **second_setup** has two calls on two nodes,
without timeouts and crashes.

**auth** has two handlers at a time, an administrator who owns a form and a
second user, lists of two users, and either a call of the database that fails
or a command of the command line, at any step. **shell** has one tab, the
command line, restarts, and logins and logouts whose answer is lost, comes from
something before the backend, or which arrive late.

**dkg_table** and **form_page** have two nodes, which is where rows overwrite
each other, two clicks or requests under way, and two visits of the page;
a status is polled twice instead of `MAX_ATTEMPTS` times.

**question_dialog** writes questions of every kind with up to three choices in
two languages in up to four edits, or starts from files with the languages
of one, of both, and of only some choices.

**form_editor** makes up to five changes, in which a subject, a nested one and
questions in both, exports, uploads and changes of the window come in every
order, with one creation. The files are one that the schema refuses, one that
the nodes take, and two that only the schema takes, with an ID twice in
different subjects.

**ballot_page** has a form for every relation of the bounds of a question
(`MinN` below, at `MaxN`, zero), one with all three kinds, and texts that are
as long as allowed in three-byte characters, too long, refused, and blank. One
form has ranks of three and of two choices, the smallest lists between which a
drag leaves a blank entry. One form is voted on twice, with both requests on
their way together, in either order; the others once.

The bounds are named in the modules (`MaxBallots`, `MaxMembers`,
`MaxShuffleCalls`, `MaxFailures`, `MaxCommands`, `MaxSetups`, `MaxCrashes`,
`MaxEvents`, `MaxPosts`, `MaxVisits`, `MaxClicks`, `MaxChoices`, `MaxEdits`,
`MaxRequests`). All runs have `CHECK_DEADLOCK FALSE`: a form that is
deleted, a shuffle or a setup that is over, a page that is left have nothing
left to do. No run uses symmetry: indexes and strings tell the members of the
sets apart, and most runs check liveness.

### Fairness

`NeffFairness` asks for

* blocks (`EndBlock`), and blocks that at some time contain a transaction of
  each node that has some in the pool (`ExecuteTxOf`): what the ordering
  service is for;
* the steps of a running handler, `LeaveLoop`, `SubmitShuffle`,
  `WatchTimeout`: it is a goroutine, its watch has a timeout, and a pool that
  refused a transaction because of its nonce takes one after the sync. These
  are strong because `BetweenBlocks` switches them on and off, where the code's
  steps are always possible.

Calls, the receipt of `StartShuffle`, failures and commands are not fair: they
may never happen. `ShuffleEnds` therefore says that the shuffle ends unless
there are for ever fewer than a threshold of nodes that have shuffled or have a
handler at it for an owner of the form. `Spec`, of the contract alone, has no
fairness: nobody must send a transaction.

`Pedersen` asks that something of a begun call goes on (`Proceed`): goroutines
are scheduled, waits are bounded. That is the weakest fairness there is, and
enough since all steps of a call are finitely many. Nobody has to call `Listen`
or `Setup`. `AuthManager` asks that the tasks of the event loop proceed, with
a database that answers or fails; `DKGTable` and `FormActions` that fetches are
answered or time out and that polls, which count their attempts, go on;
`BallotPage` that a request arrives or fails and that the browser settles a
fetch. Users, other managers and the nodes need do nothing.

### Where the code differs from what it says

`second_setup`: `services/dkg/mod.go` says of `Setup` "Returns an error if Setup
was already done", and `Handler.Stream` has "We make sure not additional request
is accepted if a setup is in progress". `Setup` looks for a key when it is
called, and `Stream` refuses a stream only as long as there is none. Of two
calls on two nodes the streams of the second are accepted once the first has
made its key; `start` makes new generators, and the key that the first call
returned, which `openForm` may have stored with the form, is replaced on the
nodes: ballots encrypted with it cannot be decrypted.

The models keep the following behaviour, which a reader of the code's comments
and messages would not expect; no run is about it, but some properties say
where they stop because of it.

* `closeForm` refuses a form with "at least two ballots are required", but it
  counts casts. A voter who votes twice makes two casts and one ballot: the form
  closes, and every shuffle of it is rejected with "not enough votes". By
  `NodesRemain` these are the only forms that are locked.
* The page of a ballot says "Only your last vote will be taken into account". A
  vote whose fetch failed, or that the voter did not wait for, may still be on its
  way when the voter casts another one, is told that it succeeded and has it
  counted. The first then arrives and replaces it. `LastVoteCounts` says what is
  true: a vote that was reported as successful never takes the place of a later
  one.
* `RemoveVoter` removes one entry of a voter, and `AddVoter`, other than
  `AddAdmin`, adds a second one. The same holds of owners.
* `deleteForm` leaves the form's ID in the list of forms, and is rejected.
* A shuffle started over HTTP takes the user from a variable that its route does
  not have. The contract rejects the shuffles of an empty user ID, and the nodes
  retry them without end; `ShuffleEnds` is about calls for owners.
* A second `Setup` on a node that has its key sets the status to failed although
  the key is usable.
* `add_role` answers a refusal and goes on to store the right; removals on the
  command line reach the enforcer of a running backend only after a reload.
* A tab shows that nobody is logged in after any answer to a logout, an error of
  a proxy before the backend included, and after a login of a developer whose
  fetch failed although the backend had opened the session.
* The page of a form takes a status from an incomplete map of nodes; a row that
  is not ready when an initialization begins does not take part; of rows
  that begin to load, or give up, in one commit only the last is noted. A setup
  taken up from the storage makes every row poll before it knows its proxy:
  the calls fail, all rows show a failure, and none asks for its status until
  the page is loaded again. When a poll for a
  creation gives up, nobody is told.
* `deleteChoice` changes the question although the dialog is cancelled, and
  filters the URLs once per language. A file whose choices are translated in
  part comes back with labels at other choices.
* The page of the editor draws it twice, for wide and for small windows. The
  hidden one keeps the subjects as they were when they were added; after a change
  of width it is shown, differs from what would be created, and its next change
  writes its subject over the one in the configuration. `CopiesAgree` is about
  windows that keep their width. A file that has a subject which is on the page
  leaves its component as it was.
* A file with one ID in two subjects passes the schema, which looks at one
  subject at a time, and the form is refused by the contract: `NodesTakeForms`
  excepts it.
* A poll for a creation that fails hands an `Error` to the modal as its text,
  which React cannot draw: the page goes blank. When one of two
  creations succeeds, the page is left, and nobody asks for the authorization of
  the other.
* The ballot page calls a vote successful when it is in the pool; the form may
  close before it is executed. An entry of a rank that is dropped in another
  moves the entry of that rank with the same index instead, or inserts a blank
  one, which the page accepts; a blank before a choice makes the nodes refuse the
  whole ballot (`RequestsDecode`). A rank of more than 128 choices does
  not decode, as places are `int8`. Text fields that lose their label when the
  language changes are drawn empty while their answers stay.

## Proofs

`tlapm M.tla` checks the proofs of a module `M`, which are `ListLemmas` and the
seven modules below. The theorems are about all values of the constants under
the assumptions that the modules name: any number of forms, users, nodes, ballots,
requests, clicks and failures, where a run has two or three. Hypotheses of a
theorem that are not assumptions of the module are in its statement.

| Theorem | States |
| --- | --- |
| `EvotingProofs`: `TypeCorrect` | `Spec => []TypeOK` |
| `ShuffleBeforeDecryption` | `Spec => []DecryptOnlyAfterShuffle` |
| `SharesSuffice` | `Spec => []SharesRecoverSecret` |
| `FormsNeverLocked` | `Spec => []NodesRemain` |
| `AdministrationRemains` | `Spec => []SomeoneInCharge` |
| `FormsListed` | `Spec => []StoredFormsListed` |
| `AdminRemoval` | `Spec => RemovedAdminHasNoRights` |
| `BlocksAreFilled` | `Spec => []BlocksMatchCount` |
| `Refinement` | `CastSpec => RefinesElection` |
| `NeffProofs`: `OneShuffleAccepted` | `NeffSpec => []OneShufflePerBlock` |
| `ShufflesVerify` | `NeffSpec => []CurrentShuffleVerifies` |
| `AcceptedContributed` | `NeffSpec => []AcceptedHandlersContributed` |
| `PedersenProofs`: `KeysStoredWithShares` | `Spec => []SavedTogether`, if `MaxSetups = 1` |
| `ReturnedKeyHeld` | `Spec => []ReturnedKeyIsHeld`, if `MaxSetups = 1` |
| `StatusesHold` | `TableSpec => []StatusesAgree` |
| `SetupReachable` | `TableSpec => SetupIsReachable` |
| `AuthProofs`: `RightsAreStored` | `AuthSpec => []NoUnsavedRight` |
| `StoredRightsInForce` | `AuthSpec => []StoredIsInForce` |
| `PagesGranted` | `ShellSpec => []PagesWereGranted` |
| `FormActionsProofs`: `StatusNotAhead` | `Spec => []NeverAhead` |
| `ConfirmedOnceOnly` | `Spec => []ConfirmedOnce` |
| `FormEditorProofs`: `PageShowsForm` | `Spec => []CopiesAgree` |
| `BallotProofs`: `BallotsDecode` | `Spec => []RequestsDecode`, if `ShortRanks` |
| `ErrorsAreTrue` | `Spec => []ErrorsAreCurrent` |
| `RefusalsExplained` | `Spec => RefusalIsExplained` |
| `LastVoteHolds` | `Spec => []LastVoteCounts` |
| `BallotsFit` | `Spec => []FitsChunks`, if `ShortRanks` and `FormsAsk` |
| `RoundTrips` | `DialogSpec => []UniformRoundTrip` |
| `SavedRanksFit` | `DialogSpec => SavedRankFits` |
| `RankDeletesExactly` | `DialogSpec => RankDeleteExact` |

These are all the properties that the runs check, but for liveness and
`NodesTakeForms`.

### Sums

The provers have no induction over data, but two results are about sums over
finite sets: the number of ballots in a bag, and the length of a ballot.
`ListLemmas` gets by without. A sum is determined by its recursion
(`SumIsUnique`): of two functions that add up the same numbers, a smallest
set of arguments on which they differ, which exists as strict inclusion of
finite sets is well-founded, would give a smaller one. So `Total(f)` is known
as soon as some function is shown to follow the recursion, and the cardinality
of the disjoint union of as many copies of each argument as `f` says (`Copies`)
does (`TotalCopies`): a sum of natural numbers is a cardinality. Monotonicity and
bounds are then facts about subsets and products of finite sets, and the bag
of the images of a set counts its members by their image (`FibresAddUp`,
`BagOfImages`).

### The contract

Assumptions: the key of the admin list is no form ID, and `NoList` is not a
list (`StoreAssumption`); `Atoi` gives integers (`UserAssumption`); rosters are
finite, not empty, and of nodes, and a DKG index belongs to one node
(`RosterAssumption`); types and positive sizes (`BallotAssumption`).

The theorems up to `AdminRemoval` follow from one inductive invariant, `IInv`
(`InvariantHolds`): `TypeOK`, `FormsInv`, `AdminInv` and `StoredFormsListed`.
Even `TypeOK` is not inductive alone: `combineShares` decrypts the last of a
form's shuffles, which is of a type only if there is one, and that follows from
its status. `FormInv` says what a status stands for: `shuffleThreshold` is the
Byzantine threshold of the roster, the shufflers (and the submitters of shares)
are different nodes of it, and their number is below the threshold while the
form is closed (or shuffled) and reaches it afterwards. As entries are different
nodes, the length of a list is a number of nodes, so that the threshold is met by
nodes, and as the threshold is at most the size of the roster
(`ThresholdRange`) a node remains as long as it is not met, and among the indexes
of the roster one that nobody used. `AdminInv` says that
no admin is listed twice, without which a removal does not remove.

`FormsNeverLocked` also has to show that the contract finds two ballots to
shuffle in every round just if there are two voters: `ShufflesInv`
(`ShufflesHold`) says that each shuffle holds the ballots of the blocks, and
`BoxIsCounted` that these are as many as there are voters.

`BlocksAreFilled` needs more than the property. Whether a cast opens a block is
decided by the count of casts, but a block has an entry per voter; `BlocksInv`
(`BlocksHold`) therefore adds that the last block has no more voters than there
were casts since it was opened. The step is arithmetic on quotients
(`Multiples`).

`Refinement` rests on `BoxInv` (`BoxHolds`): the blocks of a form, merged as
`Form.Suffragia` does, are the box that the history variable keeps, and every
shuffle of the form is the bag of the ballots in the box, so that what
`combineShares` decrypts is the box of the time the form was closed. Each
command is then a step of one election or a stutter. That what is decrypted is
the count of the box, and that a bag has two ballots exactly if the box has two
voters, are `BoxIsCounted` and `BallotsOfBox`: both count the voters by their
ballot, as the section above does. That `ballotBox` is only history is
`CastSpecIsSpec`.

### Shuffles

`NeffInv` (`NeffInvariant`) relates the store at the end of the last block,
which handlers read, to the store in the middle of a block, which transactions
change. `StoreInv`: of the form only status, owners and shuffles change, and a
shuffle holds the ballots of the closed form. `PoolInv`: a transaction is for a
round that the last block had reached, and its proof is about the ciphertexts of
that round, which are told by the shufflers of the rounds before it: rounds are
only added. `BlockInv`: within a block the form
has the shuffles it had, or one more, by the only transaction accepted. A second
one would have to be of the round after, which nobody could read yet: this is
what stands in for `checkPreviousTransactions`. That a handler which was told its
transaction is accepted has its node among the shufflers needs `VerdictInv`
besides, as the verdict reaches it only with the end of the block.

### Keys

`SetupInv` (`OneSetup`) is for one call of `Setup`, any roster, and crashes at any
step. `StartInv`: nothing is generated without `Start`, and a stream starts one
generation. `KeyInv`: key and share of a handler belong together but for the
moment between the two assignments. `SentInv`: a node that sent
`StartDone` reported its key and sets no other. `CrashInv` counts the nodes that
reported a key and do not hold it: every step but a crash leaves the set as it
is, and a crash adds one node at most. `MaxSetups = 1` is needed: with two calls
the run `second_setup` violates `ReturnedKeyIsHeld`. That a `Setup` is called
once for a form is what `services/dkg/mod.go` asks of its callers.
`PedersenAssumption` asks for a finite roster, and that `None` is none of the
records.

### The table of nodes

`TableInv` (in `PedersenProofs`, for any number of rows). A row that changes its
status hands the page a new map of all of them: `StatusesAgree` is kept
because that map differs from the last one at the row only (`NotedAgrees`), and
because a row whose status stays hands over none. Rows without proxy give up
together, and all but one of their entries are lost: the page is left with their
former statuses, which are bad as well. `SetupIsReachable` needs to
know where the node for the setup comes from. What the storage had may name
any node; but once the form is beyond its initial status, the node chosen is
one whose proxy answered (`ChoiceInv`). The form gets there when a node is found
set up, whose proxy then answered, or when no row loads and none has a bad
status, and a row without proxy is bad or still loading (`RowInv`); for the polls
it has that the form is initialized only when every row has looked for its proxy.

### Rights

`AuthInv` (`RightsHold`). That the memory has nothing which was never stored
(`NoUnsavedRight`) is inductive only with `TasksInv`: what the handlers hold, to
add to the memory after their await, was stored too. `StoredIsInForce` says
where a stored right is when no handler runs; the invariant `DueInv` says it
at all times: a right that the backend stored and that nobody removed is in
memory, or a running handler will put it there (`Delivers`), be it one that has
emptied the memory and not yet read the rows. `ShellInv` (`TabsHold`) adds
what the tabs hold: every right in the copy of a tab is or was stored for the
user that it asked for (`CopyInv`).

### Pages

`PageInv` (`PageHolds`) says of every place from which the page of a form can
take a status (the display, the poll, requests under way, requests of a page
that was left, the open dialog, the action in the local storage) that the form
has had the status in which that action begins. `NeverAhead` alone is not
inductive, as the page goes back to such a status when an action fails.
`ConfirmedOnce` counts the requests of the page and those that a visit left
behind. `ActionInv` says where they come from: while an action is in the storage
a visit shows its own copy of it, whose flags are not set, so that only the
copy that was confirmed has a request, and leaves at most that one behind.

`EditorInv` (`EditorHolds`) says of both editors, whatever they show, that they
have a component for each subject of the configuration when they are drawn, and
that a nested component has what the one around it holds (`EditorOK`). While
nothing is `apart`, the subjects of the configuration have different IDs, and the
editor that is shown has each of them (`Together`). `CopiesAgree` alone is not
inductive: `notifyParent` replaces the first subject with the ID of the one that
changed, and a new subject must not get the ID of a component that is there, for
which identifiers are bounded by those given (`IsForm`). The changes of a
component are all of one kind (`Edited`): the subjects that it holds are those
that it held, or new. Hence `ChangeStep`, for a subject and for a nested one.

### Ballots

`FormsAssumption` asks that the schema accepts the questions of a form; the
number of requests is arbitrary. `TextAssumption` says what a text is in
JavaScript: at most three bytes for a UTF-16 unit, of which trimming takes away
spaces of a byte at least.

`ShortRanks` says that rank questions have at most 128 choices, without which
`BallotsDecode` is false. Its invariant has two parts. `Fitting`: the answers
have the shape of their questions, and a rank lists every choice once, with
blank entries or without; that dragging keeps it so, from whichever rank, is
lemma `MovedLists` (`MovedPermutes` within a rank, `BlankDraggedIn` from a longer
one). `Posted`: every request has been as `RequestsDecode` says since it was
posted. The step that matters is `handleClick`: `LineDecodes` shows, kind by
kind, that what `answerIsValid` lets through `unmarshalAnswers` accepts and reads
as what was shown. For ranks `PlacesOfChoices` has the inverse of the list, and
that its places are all below the number of choices just when no blank
stands before a choice, by counting: the `n` choices have `n` places, so
these are the first `n` or one of them is beyond. `ErrorsInv` adds to
`Fitting` that every error is true of its answers; `handleChecks`, the text
handler and the click each keep it.

For `RefusalsExplained`, a select with too many choices is the hard case: the
click finds it and sets no error. `TooManyNoted` says that there is one at all
times, since the check that selected one too many left it.

`LastVoteHolds` has `VotesInv`. A request whose success was told has left
"sent" (`RequestsKnown`). While it is in the pool, all later votes are behind it
and none of them has been counted (`PoolOrdered`): it was told before they were
cast. `PoolOrdered` says nothing of votes that failed or were not waited for,
which come in any order.

For `BallotsFit` the answers in text fields stay texts (`TextsInv`), and every
line that the page accepts is no longer than what `MaxEncodedSize` reserves for
its question (`LineFits`): the entries of a line, and the lines of a ballot, are
compared one by one and summed. `FormsAsk` excludes the form without questions,
for which nothing is reserved and the encoding of even the empty ballot fails.

### The dialog of a question

`DialogInv` (`DialogHolds`, in `BallotProofs`). `ListsInv`: question and
draft are of one type and have a list in English, whatever they share. With it,
`RoundTrips` is a fact about the two conversions (`ComesBack`): a language that
every choice has keeps its places (`LabelsOfAll`). `WrittenInv`: the lists of a
rank question that did not come from a file are of one length in all languages,
in the draft and, since a removal changes the question in place, in the question
as well. `RankDeletesExactly` follows with `RemovalExact`; it is false of files,
where a language may lack a label. `NewRankInv`: until it is saved, a rank
question asks for as many answers as it has choices, but for the one choice that
it starts with; `handleSave` checks `Choices`, which is then too short, so that
the schema refuses it. `QuestionFormAssumption` asks that the choices in a
file are a list.

### Only model-checked

Liveness: `ShuffleEnds`, `SetupEnds`, `KeyIsSaved`, `LockoutEnds`,
`SettingUpEnds`, `OngoingEnds`, `CastEnds`. It is out of the prover's reach.
All seven are checked on the instances above only. So is `NodesTakeForms`: its
invariant would have to follow every identifier through both copies of each
subject, the hidden ones and those out of date included.

## Not modelled

* **The loop for public shares** (`handleDecryptRequest`). It has the shape of the
  shuffle's; the transactions it sends are actions of `Evoting`.
* **Replicas**: `openForm` executed by nodes whose DKG actors differ, which
  needs the store of each node as a variable.
* **The proxy**: handlers check a signature and send one transaction or call one
  actor. The polling tokens of the transaction manager are signed values without
  state on the node.
* **The backend's relay** (`controllers/dela.ts`): one check of a right and one
  request per route; the rights it checks, stores and removes are in
  `AuthManager`.
* **Flash messages, lists, results and administration pages** of the frontend:
  they show what they fetched.
* **Serialisation** (field by field, without decisions), node controllers,
  command line and metrics (wiring), deployment scripts and tests, the mock
  service worker of the frontend, and the internals of dela and kyber, which
  appear as the ordering of transactions and as verifiers.
