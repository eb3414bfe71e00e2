---------------------------- MODULE NeffShuffle ----------------------------
(***************************************************************************)
(* The shuffle of a closed form (services/shuffle/neff) on top of the      *)
(* contract: a Shuffle call tells the nodes of the roster to start, and a  *)
(* handler on each of them reads the form, shuffles its ballots, sends the *)
(* result as a transaction and watches the blocks for it, until it is      *)
(* accepted or enough shuffles are.                                        *)
(*                                                                         *)
(* The ordering service is external. A block is the transactions executed  *)
(* before an EndBlock step; what a handler reads is the store at the end   *)
(* of the last block, and it learns the verdict on its transaction at the  *)
(* end of the block, unless its watch times out before. Since handlers see *)
(* nothing of a block in between, they take no step in between: what they  *)
(* do during a block might as well happen just before or after it.         *)
(***************************************************************************)
EXTENDS Evoting

CONSTANTS
    form,            \* ID of the form that is shuffled
    ClosedForm,      \* the form when it was closed
    Callers,         \* user IDs that callers of Actor.Shuffle pass on
    NoVar,           \* the one the proxy passes on, a variable its route lacks
    NoHandler,       \* the watcher of a transaction nobody watches any more
    MaxShuffleCalls, \* bound: calls of Actor.Shuffle
    MaxFailures,     \* bound: handlers that end with their node, or at a failed sync
    MaxCommands      \* bound: commands of the owners meanwhile

ASSUME NeffAssumption ==
    /\ form \in FormIDs
    /\ ClosedForm \in Form /\ ClosedForm.status = Closed
    /\ ClosedForm.shuffleInstances = <<>>
    /\ MaxShuffleCalls \in Nat /\ MaxFailures \in Nat /\ MaxCommands \in Nat

\* A handler for every node and call: a node has several after a second call.
Handlers == ClosedForm.roster \X (1 .. MaxShuffleCalls)

ASSUME NoHandlerAssumption == NoHandler \notin Handlers

VARIABLES
    calls,           \* the user of each call of Actor.Shuffle so far
    pc,              \* where each handler is
    pool,            \* transactions that wait for a block
    block,           \* the verdicts of the block being executed
    head,            \* the forms at the end of the last block
    failures,        \* handlers that ended early
    commands         \* commands of the owners

neffVars == <<calls, pc, pool, block, head, failures, commands>>
allVars == <<vars, neffVars>>

NodeOf(h) == h[1]
UserOf(h) == calls[h[2]]

\* No block is being executed.
BetweenBlocks == block = {} /\ head = forms

Running(h) == pc[h] \in {"loop", "watch"}

-----------------------------------------------------------------------------
(* Starting a shuffle. *)

\* Actor.Shuffle: the form is read and StartShuffle is sent to its roster. A
\* failed send is but a warning. The caller then polls the form, a while, for
\* the threshold; the actor's lock does not exclude calls on other nodes.
Shuffle(u) ==
    /\ BetweenBlocks
    /\ Len(calls) < MaxShuffleCalls
    /\ form \in DOMAIN head
    /\ calls' = Append(calls, u)
    /\ UNCHANGED <<vars, pc, pool, block, head, failures, commands>>

\* The proxy's EditShuffle takes the user from the route, which has the form ID
\* only.
EditShuffle == NoVar \in Callers /\ Shuffle(NoVar)

\* Handler.Stream receives StartShuffle, some time or never.
StartShuffle(h) ==
    /\ BetweenBlocks
    /\ h[2] <= Len(calls)
    /\ pc[h] = "idle"
    /\ pc' = [pc EXCEPT ![h] = "loop"]
    /\ UNCHANGED <<vars, calls, pool, block, head, failures, commands>>

-----------------------------------------------------------------------------
(* The loop of Handler.handleStartShuffle. *)

\* The checks on the form it reads, in their order.
NoForm == form \notin DOMAIN head
Reached == Len(head[form].shuffleInstances) >= head[form].shuffleThreshold

\* Variant: the status is not looked at.
StatusIgnored == FALSE

NotClosed == head[form].status # Closed

LeaveLoop(h) ==
    /\ BetweenBlocks
    /\ pc[h] = "loop"
    /\ \/ NoForm /\ pc' = [pc EXCEPT ![h] = "failed"]
       \/ ~NoForm /\ Reached /\ pc' = [pc EXCEPT ![h] = "reached"]
       \/ ~NoForm /\ ~Reached /\ NotClosed /\ pc' = [pc EXCEPT ![h] = "failed"]
    /\ UNCHANGED <<vars, calls, pool, block, head, failures, commands>>

\* Variant: every round starts from the ballots as they were cast.
ShufflesCastBallots(fm) ==
    [ballots |-> BallotsOf(Suffragia(fm.suffragia)), proved |-> <<>>]

\* getShuffledBallots: a permutation of the ballots the round starts from, with
\* a proof about their ciphertexts.
GetShuffledBallots(fm) == [ballots |-> ShuffleInput(fm), proved |-> ReencryptedBy(fm)]

\* makeTx: the shuffle, for the round the form is at.
MakeTx(h) ==
    [watcher |-> h, node |-> NodeOf(h), user |-> UserOf(h),
     round   |-> Len(head[form].shuffleInstances),
     shuffle |-> GetShuffledBallots(head[form])]

Shuffles(h) ==
    /\ BetweenBlocks
    /\ pc[h] = "loop"
    /\ ~NoForm /\ ~Reached /\ ~NotClosed
    /\ pc' = [pc EXCEPT ![h] = "watch"]
    /\ UNCHANGED <<vars, calls, block, head, failures, commands>>

\* The transaction is made and added to the pool, and watched from before.
SubmitShuffle(h) == Shuffles(h) /\ pool' = pool \cup {MakeTx(h)}

\* The pool refuses it, its nonce is off: after a sync the handler watches all
\* the same, and retries when the watch times out.
SubmitRefused(h) == Shuffles(h) /\ UNCHANGED pool

\* The handler's transaction in the pool, if any, is left to itself.
Unwatched(h) == {IF t.watcher = h THEN [t EXCEPT !.watcher = NoHandler] ELSE t : t \in pool}

\* watchTx: the events end with the context; the transaction stays in the pool.
WatchTimeout(h) ==
    /\ BetweenBlocks
    /\ pc[h] = "watch"
    /\ pc' = [pc EXCEPT ![h] = "loop"]
    /\ pool' = Unwatched(h)
    /\ UNCHANGED <<vars, calls, block, head, failures, commands>>

\* A handler ends with its node, or because the nonce cannot be synced.
StopHandler(h) ==
    /\ BetweenBlocks
    /\ Running(h)
    /\ failures < MaxFailures
    /\ failures' = failures + 1
    /\ pc' = [pc EXCEPT ![h] = "failed"]
    /\ pool' = Unwatched(h)
    /\ UNCHANGED <<vars, calls, block, head, commands>>

-----------------------------------------------------------------------------
(* The ordering service, as the handlers use it. *)

Executes(t) ==
    ShuffleBallots(form, t.user, t.node, t.round, t.shuffle.proved, t.shuffle.ballots)

\* One of the contract's checks fails.
Rejected(t) == ~ENABLED Executes(t)

Verdict(t, accepted) == [watcher |-> t.watcher, node |-> t.node, accepted |-> accepted]

ExecuteTx(t) ==
    /\ \/ /\ Executes(t)
          /\ block' = block \cup {Verdict(t, TRUE)}
       \/ /\ Rejected(t)
          /\ block' = IF t.watcher = NoHandler THEN block ELSE block \cup {Verdict(t, FALSE)}
          /\ UNCHANGED vars
    /\ pool' = pool \ {t}
    /\ UNCHANGED <<calls, pc, head, failures, commands>>

ExecuteTxOf(n) == \E t \in pool : t.node = n /\ ExecuteTx(t)

\* Commands on the form by its owners, in a block as well.
OwnerCommand ==
    /\ commands < MaxCommands
    /\ commands' = commands + 1
    /\ \E u \in UserIDs : \/ CancelForm(form, u)
                          \/ DeleteForm(form, u)
                          \/ \E t \in UserIDs : RemoveOwner(form, u, t)
    /\ UNCHANGED <<calls, pc, pool, block, head, failures>>

\* Variant: the verdict on any transaction is taken for the handler's.
VerdictOfAny(h) == block

\* watchTx compares the transaction IDs.
VerdictOf(h) == {r \in block : r.watcher = h}

\* The block is stored and its events reach the handlers that watch: the loop
\* is left, or goes on after a sync.
EndBlock ==
    /\ block # {} \/ head # forms
    /\ head' = forms
    /\ block' = {}
    /\ pc' = [h \in Handlers |->
                IF pc[h] # "watch" \/ VerdictOf(h) = {} THEN pc[h]
                ELSE IF \E r \in VerdictOf(h) : r.accepted THEN "accepted" ELSE "loop"]
    /\ UNCHANGED <<vars, calls, pool, failures, commands>>

-----------------------------------------------------------------------------
NeffInit ==
    /\ forms = [f \in {form} |-> ClosedForm]
    /\ adminList = ClosedForm.owners
    /\ formsMetadata = {AdminListID, form}
    /\ calls = <<>>
    /\ pc = [h \in Handlers |-> "idle"]
    /\ pool = {}
    /\ block = {}
    /\ head = forms
    /\ failures = 0
    /\ commands = 0

NeffNext ==
    \/ \E u \in Callers \ {NoVar} : Shuffle(u)
    \/ EditShuffle
    \/ \E h \in Handlers :
          \/ StartShuffle(h) \/ LeaveLoop(h) \/ SubmitShuffle(h) \/ SubmitRefused(h)
          \/ WatchTimeout(h) \/ StopHandler(h)
    \/ \E n \in ClosedForm.roster : ExecuteTxOf(n)
    \/ OwnerCommand
    \/ EndBlock

\* A handler that runs goes on, and its watch is over some time; a pool that
\* refuses transactions takes one after a sync; blocks come, with transactions
\* of every node that has some. Strong fairness of the handlers makes up for
\* the steps BetweenBlocks forbids. Calls, starts, failures and commands may
\* never happen.
NeffFairness ==
    /\ WF_allVars(EndBlock)
    /\ \A n \in ClosedForm.roster : WF_allVars(ExecuteTxOf(n))
    /\ \A h \in Handlers :
          /\ SF_allVars(LeaveLoop(h))
          /\ SF_allVars(SubmitShuffle(h))
          /\ SF_allVars(WatchTimeout(h))

NeffSpec == NeffInit /\ [][NeffNext]_allVars /\ NeffFairness

-----------------------------------------------------------------------------
(* Properties. *)

Shufflers(fm) ==
    {fm.shuffleInstances[i].shuffler : i \in 1 .. Len(fm.shuffleInstances)}

\* A handler that leaves because its contribution was accepted left a shuffle of
\* its node in the form, whatever other transactions, of this node or of
\* others, the block had (watchTx).
AcceptedHandlersContributed ==
    \A h \in Handlers : pc[h] = "accepted" /\ Stored(form) =>
        NodeOf(h) \in Shufflers(forms[form])

\* "The smart contract will accept only one shuffling step per block": although
\* several nodes send a shuffle of the same round, and a node several.
OneShufflePerBlock == Cardinality({r \in block : r.accepted}) <= 1

\* What a handler read is still what the contract starts from when the
\* transaction of the round is executed, to the ciphertext: a shuffle is refused
\* for its round or its node, never for its proof (makeTx, shuffleBallots).
CurrentShuffleVerifies ==
    \A t \in pool : Stored(form) /\ t.round = Len(forms[form].shuffleInstances) =>
        ShuffleVerifies(forms[form], t.shuffle.proved, t.shuffle.ballots)

\* Nodes that have shuffled, or have a handler at it for a user that P allows.
AtWork(P(_)) ==
    {n \in ClosedForm.roster :
        \/ Stored(form) /\ n \in Shufflers(forms[form])
        \/ \E h \in Handlers : NodeOf(h) = n /\ Running(h) /\ P(UserOf(h))}

Enough(P(_)) ==
    Cardinality(AtWork(P)) >= ByzantineThreshold(Cardinality(ClosedForm.roster))

\* The form waits for no shuffle, and no handler is at it.
Settled ==
    /\ Stored(form) => forms[form].status # Closed
    /\ \A h \in Handlers : ~Running(h)

\* Nodes re-try until enough of them have shuffled: as long as a threshold of
\* nodes have shuffled or are at it, for an owner of the form, the shuffle and
\* all its handlers end, however transactions of different nodes race, whatever
\* the pool refuses and whenever watches time out (handleStartShuffle).
ShuffleEnds ==
    []<>(Settled \/ ~Enough(LAMBDA u : Stored(form) => IsOwner(form, u)))
=============================================================================
