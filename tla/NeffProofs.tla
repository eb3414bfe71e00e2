----------------------------- MODULE NeffProofs -----------------------------
(***************************************************************************)
(* Theorems about the shuffle of a closed form, for every roster, every    *)
(* number of calls, of failures and of commands of the owners, and         *)
(* whichever ballots the form has.                                         *)
(***************************************************************************)
EXTENDS NeffShuffle, ListLemmas

-----------------------------------------------------------------------------
(***************************************************************************)
(* The inductive invariant. A handler works on the store at the end of a   *)
(* block, its transaction meets the store within a later one: the rounds   *)
(* of the form there and here, and the verdicts of the block being         *)
(* executed, tell how far the two are apart.                               *)
(***************************************************************************)

\* The ballots of the closed form, which every shuffle permutes.
Input == BallotsOf(Suffragia(ClosedForm.suffragia))

Instances == Seq([ballots : {Input}, shuffler : ClosedForm.roster])

\* The closed form after some shuffles and commands of its owners.
ShuffledForm(fm) ==
    /\ fm = [ClosedForm EXCEPT !.status = fm.status, !.owners = fm.owners,
                               !.shuffleInstances = fm.shuffleInstances]
    /\ fm.shuffleInstances \in Instances

StoreInv(store) ==
    /\ store = [f \in DOMAIN store |-> store[f]]
    /\ DOMAIN store \subseteq {form}
    /\ form \in DOMAIN store => ShuffledForm(store[form])

Accepted == {r \in block : r.accepted}

\* The form is stored only if it was at the end of the last block. It has the
\* shuffles it had then, or one more, which is of the node whose transaction
\* is the only one that the block accepts.
BlockInv ==
    /\ \A r1, r2 \in Accepted : r1 = r2
    /\ form \in DOMAIN forms =>
          /\ form \in DOMAIN head
          /\ Accepted = {} => forms[form].shuffleInstances = head[form].shuffleInstances
          /\ \A r \in Accepted : \E ballots :
                 forms[form].shuffleInstances =
                     Append(head[form].shuffleInstances,
                            [ballots |-> ballots, shuffler |-> r.node])

\* The nodes of the first rounds of a form.
FirstShufflers(fm, rounds) == [i \in 1 .. rounds |-> fm.shuffleInstances[i].shuffler]

\* A transaction is for a round that the last block had reached, and its proof
\* is about the ciphertexts of that round.
TxInv(t, store) ==
    /\ t = [watcher |-> t.watcher, node |-> t.node, user |-> t.user,
            round |-> t.round, shuffle |-> t.shuffle]
    /\ t.node \in ClosedForm.roster
    /\ t.watcher \in Handlers => t.node = NodeOf(t.watcher)
    /\ t.shuffle.ballots = Input
    /\ t.round \in Nat
    /\ form \in DOMAIN store =>
           /\ t.round <= Len(store[form].shuffleInstances)
           /\ t.shuffle.proved = FirstShufflers(store[form], t.round)

PoolInv == \A t \in pool : TxInv(t, head)

VerdictInv ==
    \A r \in block : r.watcher \in Handlers => r.node = NodeOf(r.watcher)

NeffInv ==
    /\ StoreInv(forms)
    /\ StoreInv(head)
    /\ BlockInv
    /\ PoolInv
    /\ VerdictInv
    /\ DOMAIN pc = Handlers
    /\ AcceptedHandlersContributed

-----------------------------------------------------------------------------
(* Facts about the parts. *)

\* Whatever its round, a shuffle starts from the ballots of the closed form.
LEMMA InputOfRounds ==
    ASSUME NEW fm, ShuffledForm(fm)
    PROVE  /\ ShuffleInput(fm) = Input
           /\ fm.roster = ClosedForm.roster
           /\ Len(fm.shuffleInstances) \in Nat
  <1>1. fm.suffragia = ClosedForm.suffragia /\ fm.roster = ClosedForm.roster
    <2>1. PICK a, b, c : fm = [ClosedForm EXCEPT !.status = a, !.owners = b,
                                                 !.shuffleInstances = c]
      BY DEF ShuffledForm
    <2>. QED BY <2>1, NeffAssumption DEF Form
  <1>2. fm.shuffleInstances \in Instances
    BY DEF ShuffledForm
  <1>3. Len(fm.shuffleInstances) \in Nat
    BY <1>2 DEF Instances
  <1>4. ASSUME fm.shuffleInstances # <<>> PROVE Last(fm.shuffleInstances).ballots = Input
    <2>1. Last(fm.shuffleInstances) \in [ballots : {Input}, shuffler : ClosedForm.roster]
      BY <1>2, <1>4, LastType, EmptySeq DEF Instances
    <2>. QED BY <2>1
  <1>. QED
    BY <1>1, <1>3, <1>4 DEF ShuffleInput, Input

\* What the contract does with an accepted shuffle.
LEMMA AcceptedShuffle ==
    ASSUME StoreInv(forms), NEW u, NEW n, NEW round, NEW proved, NEW ballots,
           ShuffleBallots(form, u, n, round, proved, ballots)
    PROVE  /\ form \in DOMAIN forms /\ DOMAIN forms' = DOMAIN forms
           /\ round = Len(forms[form].shuffleInstances)
           /\ n \in ClosedForm.roster /\ ballots = Input
           /\ forms'[form].shuffleInstances =
                  Append(forms[form].shuffleInstances, [ballots |-> ballots, shuffler |-> n])
           /\ StoreInv(forms')
  <1>. DEFINE fm == forms[form]
              s == Append(fm.shuffleInstances, [ballots |-> ballots, shuffler |-> n])
              next == IF ReachesThreshold(fm, Len(fm.shuffleInstances) + 1)
                      THEN ShuffledBallots ELSE fm.status
              new == [fm EXCEPT !.shuffleInstances = s, !.status = next]
  <1>1. /\ form \in DOMAIN forms /\ ShuffledForm(fm)
        /\ forms' = [forms EXCEPT ![form] = new]
        /\ round = Len(fm.shuffleInstances) /\ n \in fm.roster
        /\ ShuffleInput(fm) = ballots
    BY DEF ShuffleBallots, TakesShuffle, Stored, CanShuffle, ShuffleVerifies, StoreInv
  <1>2. n \in ClosedForm.roster /\ ballots = Input
    BY <1>1, InputOfRounds
  <1>3. s \in Instances
    BY <1>1, <1>2 DEF ShuffledForm, Instances
  <1>. HIDE DEF s, next
  <1>4. ShuffledForm(new) /\ new.shuffleInstances = s
    BY <1>1, <1>3, NeffAssumption DEF ShuffledForm, Form
  <1>. HIDE DEF new
  <1>5. DOMAIN forms' = DOMAIN forms /\ forms'[form] = new /\ StoreInv(forms')
    BY <1>1, <1>4 DEF StoreInv
  <1>. QED
    BY <1>1, <1>2, <1>4, <1>5 DEF s

\* What a command of an owner leaves of the form.
LEMMA OwnerLeaves ==
    ASSUME StoreInv(forms), OwnerCommand
    PROVE  /\ StoreInv(forms') /\ DOMAIN forms' \subseteq DOMAIN forms
           /\ form \in DOMAIN forms' =>
                  forms'[form].shuffleInstances = forms[form].shuffleInstances
  <1>. DEFINE fm == forms[form]
  <1>1. \/ forms' = forms \/ forms' = Delete(forms, form)
        \/ \E status : form \in DOMAIN forms /\ forms' = [forms EXCEPT ![form].status = status]
        \/ \E owners : form \in DOMAIN forms /\ forms' = [forms EXCEPT ![form].owners = owners]
    <2>1. PICK u \in UserIDs : \/ CancelForm(form, u)
                               \/ DeleteForm(form, u)
                               \/ \E t \in UserIDs : RemoveOwner(form, u, t)
      BY DEF OwnerCommand
    <2>2. CASE CancelForm(form, u)
      BY <2>2 DEF CancelForm, Stored
    <2>3. CASE DeleteForm(form, u)
      BY <2>3 DEF DeleteForm
    <2>4. ASSUME NEW t \in UserIDs, RemoveOwner(form, u, t)
          PROVE  \E owners : form \in DOMAIN forms
                             /\ forms' = [forms EXCEPT ![form].owners = owners]
      BY <2>4 DEF RemoveOwner, Stored
    <2>. QED BY <2>1, <2>2, <2>3, <2>4
  <1>2. CASE forms' = forms
    BY <1>2
  <1>3. CASE forms' = Delete(forms, form)
    BY <1>3 DEF Delete, StoreInv
  <1>4. ASSUME form \in DOMAIN forms, NEW new, ShuffledForm(new),
               new.shuffleInstances = fm.shuffleInstances,
               forms' = [forms EXCEPT ![form] = new]
        PROVE  /\ StoreInv(forms') /\ DOMAIN forms' \subseteq DOMAIN forms
               /\ forms'[form].shuffleInstances = fm.shuffleInstances
    BY <1>4 DEF StoreInv
  <1>5. ASSUME form \in DOMAIN forms, NEW status,
               forms' = [forms EXCEPT ![form].status = status]
        PROVE  /\ StoreInv(forms') /\ DOMAIN forms' \subseteq DOMAIN forms
               /\ forms'[form].shuffleInstances = fm.shuffleInstances
    <2>. DEFINE new == [fm EXCEPT !.status = status]
    <2>1. ShuffledForm(fm)
      BY <1>5 DEF StoreInv
    <2>2. ShuffledForm(new) /\ new.shuffleInstances = fm.shuffleInstances
      BY <2>1, NeffAssumption DEF ShuffledForm, Form
    <2>3. forms' = [forms EXCEPT ![form] = new]
      BY <1>5
    <2>. HIDE DEF new
    <2>. QED BY <1>4, <1>5, <2>2, <2>3
  <1>6. ASSUME form \in DOMAIN forms, NEW owners,
               forms' = [forms EXCEPT ![form].owners = owners]
        PROVE  /\ StoreInv(forms') /\ DOMAIN forms' \subseteq DOMAIN forms
               /\ forms'[form].shuffleInstances = fm.shuffleInstances
    <2>. DEFINE new == [fm EXCEPT !.owners = owners]
    <2>1. ShuffledForm(fm)
      BY <1>6 DEF StoreInv
    <2>2. ShuffledForm(new) /\ new.shuffleInstances = fm.shuffleInstances
      BY <2>1, NeffAssumption DEF ShuffledForm, Form
    <2>3. forms' = [forms EXCEPT ![form] = new]
      BY <1>6
    <2>. HIDE DEF new
    <2>. QED BY <1>4, <1>6, <2>2, <2>3
  <1>. QED
    BY <1>1, <1>2, <1>3, <1>5, <1>6

\* The initial state.
LEMMA NeffInitInv == NeffInit => NeffInv
  <1>. SUFFICES ASSUME NeffInit PROVE NeffInv
    OBVIOUS
  <1>1. /\ forms = [f \in {form} |-> ClosedForm] /\ head = forms
        /\ pool = {} /\ block = {} /\ pc = [h \in Handlers |-> "idle"]
    BY DEF NeffInit
  <1>2. ShuffledForm(ClosedForm)
    <2>1. <<>> \in Instances
      BY DEF Instances
    <2>. QED BY <2>1, NeffAssumption DEF ShuffledForm, Form
  <1>3. StoreInv(forms) /\ StoreInv(head)
    BY <1>1, <1>2 DEF StoreInv
  <1>4. Accepted = {}
    BY <1>1 DEF Accepted
  <1>. QED
    BY <1>1, <1>3, <1>4 DEF NeffInv, BlockInv, PoolInv, VerdictInv, AcceptedHandlersContributed

\* A handler's own step leaves the store and the block.
LEMMA HandlerStep ==
    ASSUME NeffInv, UNCHANGED <<forms, head, block>>, PoolInv',
           DOMAIN pc' = Handlers,
           \A h \in Handlers : pc'[h] = "accepted" => pc[h] = "accepted"
    PROVE  NeffInv'
  BY DEF NeffInv, BlockInv, VerdictInv, AcceptedHandlersContributed, Accepted, Stored

\* So does one that leaves its transaction unwatched.
LEMMA UnwatchedStep ==
    ASSUME NeffInv, NEW h \in Handlers, pool' = Unwatched(h), UNCHANGED head
    PROVE  PoolInv'
  <1>. SUFFICES ASSUME NEW x \in pool' PROVE TxInv(x, head)
    BY DEF PoolInv
  <1>1. PICK t \in pool : x = IF t.watcher = h THEN [t EXCEPT !.watcher = NoHandler] ELSE t
    BY DEF Unwatched
  <1>2. TxInv(t, head)
    BY DEF NeffInv, PoolInv
  <1>3. CASE t.watcher # h
    BY <1>1, <1>2, <1>3
  <1>4. CASE t.watcher = h
    <2>1. x = [watcher |-> NoHandler, node |-> t.node, user |-> t.user,
               round |-> t.round, shuffle |-> t.shuffle]
      BY <1>1, <1>2, <1>4 DEF TxInv
    <2>. QED BY <1>2, <2>1, NoHandlerAssumption DEF TxInv
  <1>. QED
    BY <1>3, <1>4

\* A transaction that a handler makes is one of the pool.
LEMMA SubmitStep ==
    ASSUME NeffInv, NEW h \in Handlers, SubmitShuffle(h)
    PROVE  PoolInv'
  <1>1. /\ form \in DOMAIN head /\ pool' = pool \cup {MakeTx(h)} /\ UNCHANGED head
        /\ ShuffledForm(head[form])
    BY DEF SubmitShuffle, Shuffles, NoForm, NeffInv, StoreInv
  <1>. DEFINE x == MakeTx(h)
  <1>2. /\ x = [watcher |-> h, node |-> NodeOf(h), user |-> UserOf(h),
                round |-> Len(head[form].shuffleInstances),
                shuffle |-> [ballots |-> Input, proved |-> ReencryptedBy(head[form])]]
        /\ Len(head[form].shuffleInstances) \in Nat
    BY <1>1, InputOfRounds DEF MakeTx, GetShuffledBallots
  <1>3. NodeOf(h) \in ClosedForm.roster
    BY DEF Handlers, NodeOf
  <1>. HIDE DEF x
  <1>4. TxInv(x, head)
    <2>. DEFINE k == Len(head[form].shuffleInstances)
                p == ReencryptedBy(head[form])
    <2>1. p = FirstShufflers(head[form], k)
      BY DEF ReencryptedBy, FirstShufflers
    <2>. HIDE DEF k, p
    <2>2. /\ x.watcher = h /\ x.node = NodeOf(h) /\ x.round = k
          /\ x.shuffle = [ballots |-> Input, proved |-> p]
          /\ x = [watcher |-> x.watcher, node |-> x.node, user |-> x.user,
                  round |-> x.round, shuffle |-> x.shuffle]
      BY <1>2 DEF k, p
    <2>3. x.shuffle.ballots = Input /\ x.shuffle.proved = p
      BY <2>2
    <2>4. k \in Nat /\ k <= Len(head[form].shuffleInstances)
      BY <1>2 DEF k
    <2>. QED BY <1>3, <2>1, <2>2, <2>3, <2>4 DEF TxInv
  <1>. QED
    BY <1>1, <1>4 DEF NeffInv, PoolInv, x

\* An executed transaction: a shuffle is accepted when the block has accepted
\* none, since it is for a round that the last block had reached.
LEMMA ExecuteStep ==
    ASSUME NeffInv, NEW t \in pool, ExecuteTx(t)
    PROVE  NeffInv'
  <1>0. UNCHANGED <<pc, head>> /\ pool' = pool \ {t}
    BY DEF ExecuteTx
  <1>1. PoolInv'
    BY <1>0 DEF NeffInv, PoolInv
  <1>2. /\ t.node \in ClosedForm.roster
        /\ t.watcher \in Handlers => t.node = NodeOf(t.watcher)
        /\ t.round \in Nat
        /\ form \in DOMAIN head => t.round <= Len(head[form].shuffleInstances)
    BY DEF NeffInv, PoolInv, TxInv
  <1>3. CASE UNCHANGED vars /\ (block' = block \/ block' = block \cup {Verdict(t, FALSE)})
    <2>1. UNCHANGED forms /\ Accepted' = Accepted
      BY <1>3 DEF vars, Accepted, Verdict
    <2>2. VerdictInv'
      BY <1>2, <1>3 DEF NeffInv, VerdictInv, Verdict
    <2>. QED
      BY <1>0, <1>1, <2>1, <2>2 DEF NeffInv, BlockInv, AcceptedHandlersContributed, Stored
  <1>4. CASE Executes(t) /\ block' = block \cup {Verdict(t, TRUE)}
    <2>. DEFINE s == forms[form].shuffleInstances
                hs == head[form].shuffleInstances
                v == Verdict(t, TRUE)
                entry == [ballots |-> t.shuffle.ballots, shuffler |-> t.node]
    <2>1. /\ form \in DOMAIN forms /\ DOMAIN forms' = DOMAIN forms
          /\ t.round = Len(s) /\ forms'[form].shuffleInstances = Append(s, entry)
          /\ StoreInv(forms')
      BY <1>4, AcceptedShuffle DEF Executes, NeffInv
    <2>2. form \in DOMAIN head /\ s \in Instances /\ hs \in Instances
      BY <2>1 DEF NeffInv, BlockInv, StoreInv, ShuffledForm
    <2>3. Accepted = {}
      <3>. SUFFICES ASSUME NEW r \in Accepted PROVE FALSE
        OBVIOUS
      <3>1. PICK ballots : s = Append(hs, [ballots |-> ballots, shuffler |-> r.node])
        BY <2>1 DEF NeffInv, BlockInv
      <3>2. Len(s) = Len(hs) + 1
        BY <2>2, <3>1 DEF Instances
      <3>3. Len(hs) \in Nat
        BY <2>2 DEF Instances
      <3>. QED BY <1>2, <2>1, <2>2, <3>2, <3>3
    <2>4. s = hs
      BY <2>1, <2>3 DEF NeffInv, BlockInv
    <2>5. v.node = t.node /\ v.watcher = t.watcher /\ v.accepted = TRUE
      BY DEF Verdict
    <2>. HIDE DEF v
    <2>6. Accepted' = {v}
      BY <1>4, <2>3, <2>5 DEF Accepted, v
    <2>7. BlockInv'
      BY <1>0, <2>1, <2>2, <2>4, <2>5, <2>6 DEF BlockInv
    <2>8. VerdictInv'
      BY <1>2, <1>4, <2>5 DEF NeffInv, VerdictInv, v
    <2>9. AcceptedHandlersContributed'
      <3>. SUFFICES ASSUME NEW h \in Handlers, pc[h] = "accepted"
                    PROVE  NodeOf(h) \in Shufflers(forms'[form])
        BY <1>0 DEF AcceptedHandlersContributed
      <3>1. NodeOf(h) \in Shufflers(forms[form])
        BY <2>1 DEF NeffInv, AcceptedHandlersContributed, Stored
      <3>2. PICK i \in 1 .. Len(s) : NodeOf(h) = s[i].shuffler
        BY <3>1 DEF Shufflers
      <3>3. i \in 1 .. Len(Append(s, entry)) /\ Append(s, entry)[i] = s[i]
        BY <2>2 DEF Instances
      <3>. QED BY <2>1, <3>2, <3>3 DEF Shufflers
    <2>. QED BY <1>0, <1>1, <2>1, <2>7, <2>8, <2>9 DEF NeffInv
  <1>. QED
    BY <1>3, <1>4 DEF ExecuteTx

\* A command of an owner.
LEMMA OwnerStep ==
    ASSUME NeffInv, OwnerCommand
    PROVE  NeffInv'
  <1>1. UNCHANGED <<pc, pool, block, head>>
    BY DEF OwnerCommand
  <1>2. /\ StoreInv(forms') /\ DOMAIN forms' \subseteq DOMAIN forms
        /\ form \in DOMAIN forms' =>
               forms'[form].shuffleInstances = forms[form].shuffleInstances
    BY OwnerLeaves DEF NeffInv
  <1>3. Accepted' = Accepted
    BY <1>1 DEF Accepted
  <1>4. BlockInv'
    BY <1>1, <1>2, <1>3 DEF NeffInv, BlockInv
  <1>5. AcceptedHandlersContributed'
    BY <1>1, <1>2 DEF NeffInv, AcceptedHandlersContributed, Stored, Shufflers
  <1>. QED
    BY <1>1, <1>2, <1>4, <1>5 DEF NeffInv, PoolInv, VerdictInv

\* The end of a block: a handler whose transaction is accepted finds the shuffle
\* of its node last in the form.
LEMMA EndBlockStep ==
    ASSUME NeffInv, EndBlock
    PROVE  NeffInv'
  <1>1. /\ head' = forms /\ block' = {} /\ UNCHANGED <<forms, pool>>
        /\ pc' = [h \in Handlers |->
                    IF pc[h] # "watch" \/ VerdictOf(h) = {} THEN pc[h]
                    ELSE IF \E r \in VerdictOf(h) : r.accepted THEN "accepted" ELSE "loop"]
    BY DEF EndBlock, vars
  <1>2. StoreInv(forms') /\ StoreInv(head')
    BY <1>1 DEF NeffInv
  <1>3. BlockInv'
    BY <1>1 DEF BlockInv, Accepted
  <1>4. ASSUME form \in DOMAIN forms
        PROVE  /\ form \in DOMAIN head
               /\ Len(head[form].shuffleInstances) \in Nat
               /\ Len(forms[form].shuffleInstances) \in Nat
               /\ Len(head[form].shuffleInstances) <= Len(forms[form].shuffleInstances)
               /\ \A i \in 1 .. Len(head[form].shuffleInstances) :
                      forms[form].shuffleInstances[i] = head[form].shuffleInstances[i]
    <2>. DEFINE s == forms[form].shuffleInstances
                hs == head[form].shuffleInstances
    <2>1. form \in DOMAIN head /\ s \in Instances /\ hs \in Instances
      BY <1>4 DEF NeffInv, BlockInv, StoreInv, ShuffledForm
    <2>2. CASE Accepted = {}
      <3>1. s = hs
        BY <1>4, <2>2 DEF NeffInv, BlockInv
      <3>. QED BY <2>1, <3>1 DEF Instances
    <2>3. CASE Accepted # {}
      <3>1. PICK r \in Accepted : \E ballots :
                s = Append(hs, [ballots |-> ballots, shuffler |-> r.node])
        BY <1>4, <2>3 DEF NeffInv, BlockInv
      <3>. QED BY <2>1, <3>1 DEF Instances
    <2>. QED BY <2>2, <2>3
  <1>5. PoolInv'
    <2>. SUFFICES ASSUME NEW t \in pool, form \in DOMAIN forms
                  PROVE  /\ t.round <= Len(forms[form].shuffleInstances)
                         /\ t.shuffle.proved = FirstShufflers(forms[form], t.round)
      BY <1>1 DEF NeffInv, PoolInv, TxInv
    <2>1. /\ t.round \in Nat /\ t.round <= Len(head[form].shuffleInstances)
          /\ t.shuffle.proved = FirstShufflers(head[form], t.round)
      BY <1>4 DEF NeffInv, PoolInv, TxInv
    <2>2. FirstShufflers(forms[form], t.round) = FirstShufflers(head[form], t.round)
      BY <1>4, <2>1 DEF FirstShufflers
    <2>. QED BY <1>4, <2>1, <2>2
  <1>6. AcceptedHandlersContributed'
    <2>. SUFFICES ASSUME NEW h \in Handlers, pc'[h] = "accepted", form \in DOMAIN forms
                  PROVE  NodeOf(h) \in Shufflers(forms[form])
      BY <1>1 DEF AcceptedHandlersContributed, Stored
    <2>1. CASE pc[h] = "accepted"
      BY <2>1 DEF NeffInv, AcceptedHandlersContributed, Stored
    <2>2. CASE pc[h] # "accepted"
      <3>. DEFINE s == forms[form].shuffleInstances
                  hs == head[form].shuffleInstances
      <3>1. PICK r \in VerdictOf(h) : r.accepted
        BY <1>1, <2>2
      <3>2. r \in Accepted /\ r.node = NodeOf(h)
        BY <3>1 DEF VerdictOf, Accepted, NeffInv, VerdictInv
      <3>3. PICK ballots : s = Append(hs, [ballots |-> ballots, shuffler |-> r.node])
        BY <3>2 DEF NeffInv, BlockInv
      <3>4. hs \in Instances
        BY <1>4 DEF NeffInv, StoreInv, ShuffledForm
      <3>5. Len(s) = Len(hs) + 1 /\ Len(hs) \in Nat /\ s[Len(s)].shuffler = r.node
        BY <3>3, <3>4 DEF Instances
      <3>6. Len(s) \in 1 .. Len(s)
        BY <3>5
      <3>. QED BY <3>2, <3>5, <3>6 DEF Shufflers
    <2>. QED BY <2>1, <2>2
  <1>. QED
    BY <1>1, <1>2, <1>3, <1>5, <1>6 DEF NeffInv, VerdictInv

\* The invariant holds in every reachable state.
THEOREM NeffInvariant == NeffSpec => []NeffInv
  <1>1. NeffInv /\ [NeffNext]_allVars => NeffInv'
    <2>. SUFFICES ASSUME NeffInv, [NeffNext]_allVars PROVE NeffInv'
      OBVIOUS
    <2>0. DOMAIN pc = Handlers
      BY DEF NeffInv
    <2>1. CASE UNCHANGED allVars
      BY <2>1 DEF allVars, vars, neffVars, NeffInv, BlockInv, PoolInv, VerdictInv, Accepted,
         AcceptedHandlersContributed, Stored
    <2>2. ASSUME NEW u, Shuffle(u) PROVE NeffInv'
      BY <2>0, <2>2, HandlerStep DEF Shuffle, vars, NeffInv, PoolInv
    <2>3. ASSUME NEW h \in Handlers, StartShuffle(h) PROVE NeffInv'
      BY <2>0, <2>3, HandlerStep DEF StartShuffle, vars, NeffInv, PoolInv
    <2>4. ASSUME NEW h \in Handlers, LeaveLoop(h) PROVE NeffInv'
      BY <2>0, <2>4, HandlerStep DEF LeaveLoop, vars, NeffInv, PoolInv
    <2>5. ASSUME NEW h \in Handlers, SubmitShuffle(h) PROVE NeffInv'
      BY <2>0, <2>5, HandlerStep, SubmitStep DEF SubmitShuffle, Shuffles, vars
    <2>6. ASSUME NEW h \in Handlers, SubmitRefused(h) PROVE NeffInv'
      BY <2>0, <2>6, HandlerStep DEF SubmitRefused, Shuffles, vars, NeffInv, PoolInv
    <2>7. ASSUME NEW h \in Handlers, WatchTimeout(h) PROVE NeffInv'
      BY <2>0, <2>7, HandlerStep, UnwatchedStep DEF WatchTimeout, vars
    <2>8. ASSUME NEW h \in Handlers, StopHandler(h) PROVE NeffInv'
      BY <2>0, <2>8, HandlerStep, UnwatchedStep DEF StopHandler, vars
    <2>9. ASSUME NEW n \in ClosedForm.roster, ExecuteTxOf(n) PROVE NeffInv'
      BY <2>9, ExecuteStep DEF ExecuteTxOf
    <2>. QED BY <2>1, <2>2, <2>3, <2>4, <2>5, <2>6, <2>7, <2>8, <2>9, OwnerStep, EndBlockStep
                DEF NeffNext, EditShuffle
  <1>. QED
    BY <1>1, NeffInitInv, PTL DEF NeffSpec

-----------------------------------------------------------------------------
(* The safety properties. *)

\* A handler whose shuffle was accepted did shuffle (watchTx).
THEOREM AcceptedContributed == NeffSpec => []AcceptedHandlersContributed
  <1>1. NeffInv => AcceptedHandlersContributed
    BY DEF NeffInv
  <1>. QED
    BY <1>1, NeffInvariant, PTL

\* A block accepts at most one shuffle, however many nodes send one
\* (shuffleBallots).
THEOREM OneShuffleAccepted == NeffSpec => []OneShufflePerBlock
  <1>1. NeffInv => OneShufflePerBlock
    <2>. SUFFICES ASSUME NeffInv PROVE Cardinality(Accepted) <= 1
      BY DEF OneShufflePerBlock, Accepted
    <2>1. CASE Accepted = {}
      BY <2>1, FS_EmptySet
    <2>2. CASE Accepted # {}
      <3>1. PICK r \in Accepted : Accepted = {r}
        BY <2>2 DEF NeffInv, BlockInv
      <3>2. Cardinality({r}) = 1
        BY FS_Singleton
      <3>. QED BY <3>1, <3>2
    <2>. QED BY <2>1, <2>2
  <1>. QED
    BY <1>1, NeffInvariant, PTL

\* No shuffle of the current round is refused for its proof (makeTx,
\* shuffleBallots).
THEOREM ShufflesVerify == NeffSpec => []CurrentShuffleVerifies
  <1>1. NeffInv => CurrentShuffleVerifies
    <2>. SUFFICES ASSUME NeffInv, NEW t \in pool, form \in DOMAIN forms,
                         t.round = Len(forms[form].shuffleInstances)
                  PROVE  ShuffleVerifies(forms[form], t.shuffle.proved, t.shuffle.ballots)
      BY DEF CurrentShuffleVerifies, Stored
    <2>. DEFINE s == forms[form].shuffleInstances
                hs == head[form].shuffleInstances
    <2>1. /\ form \in DOMAIN head /\ ShuffledForm(forms[form]) /\ ShuffledForm(head[form])
          /\ Accepted = {} => s = hs
          /\ \A r \in Accepted : \E ballots :
                 s = Append(hs, [ballots |-> ballots, shuffler |-> r.node])
      BY DEF NeffInv, BlockInv, StoreInv
    <2>2. /\ t.shuffle.ballots = Input /\ t.round <= Len(hs)
          /\ t.shuffle.proved = FirstShufflers(head[form], t.round)
      BY <2>1 DEF NeffInv, PoolInv, TxInv
    <2>3. hs \in Instances /\ Len(hs) \in Nat
      BY <2>1 DEF ShuffledForm, Instances
    <2>4. s = hs
      <3>. SUFFICES ASSUME NEW r \in Accepted PROVE FALSE
        BY <2>1
      <3>1. PICK ballots : s = Append(hs, [ballots |-> ballots, shuffler |-> r.node])
        BY <2>1
      <3>2. Len(s) = Len(hs) + 1
        BY <2>3, <3>1 DEF Instances
      <3>. QED BY <2>2, <2>3, <3>2
    <2>5. t.shuffle.proved = ReencryptedBy(forms[form])
      BY <2>2, <2>4 DEF FirstShufflers, ReencryptedBy
    <2>6. ShuffleInput(forms[form]) = Input
      BY <2>1, InputOfRounds
    <2>. QED BY <2>2, <2>5, <2>6 DEF ShuffleVerifies
  <1>. QED
    BY <1>1, NeffInvariant, PTL
=============================================================================
