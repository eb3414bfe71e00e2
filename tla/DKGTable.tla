------------------------------ MODULE DKGTable ------------------------------
(***************************************************************************)
(* The page of a form until its keys are set up (pages/form/Show.tsx, with *)
(* components/DKGStatusTable.tsx, DKGStatusRow.tsx, ChooseProxyModal.tsx): *)
(* each node has a row that finds out the proxy and the DKG actor of the   *)
(* node, initializes it and polls it. The page keeps a copy of what the    *)
(* rows tell it, and decides from the copy.                                *)
(*                                                                         *)
(* A row copies the maps of the page as they were when it was drawn, adds  *)
(* its own entry and hands the copy back. Rows that do so in one commit    *)
(* write copies of the same map, and the last row wins (written). An       *)
(* answer changes one row; React runs the effects of a commit before it    *)
(* renders again, so the next row to change is drawn with the new map.     *)
(***************************************************************************)
EXTENDS Integers, Sequences, FiniteSetsExt

CONSTANTS
    N,             \* nodes of the roster
    MaxClicks      \* bound: initializations and setups, begun or taken up from the storage

ASSUME TableAssumption == N \in Nat \ {0} /\ MaxClicks \in Nat

VARIABLES
    actor,         \* external: the DKG actor of each node
    proxy,         \* each row's proxy: null, empty (not found) or known
    rowStatus,     \* each row's status
    rowLoading,    \* each row's DKGLoading
    fetching,      \* the fetch of each row that is under way: proxy, status or none
    initializing,  \* rows whose initialization is under way
    nowhere,       \* rows that call a proxy they do not know yet, in vain
    polls,         \* polls of each row that are under way, by expected status
    statuses,      \* DKGStatuses of the page
    nodeLoading,   \* nodeLoading of the page
    DKGLoading,    \* DKGLoading of the page
    addresses,     \* nodeProxyAddresses of the page: the rows with a proxy, in the order they came
    nodeToSetup,   \* the row chosen for the setup, or 0
    status,        \* the status of the form
    ongoing,       \* ongoingAction
    setupPosts,    \* setup requests under way: userConfirmedProxySetup
    clicks

rowVars == <<proxy, rowStatus, rowLoading, fetching, initializing, nowhere, polls>>
pageVars == <<statuses, nodeLoading, DKGLoading, addresses, nodeToSetup, status, ongoing>>
tableVars == <<actor, rowVars, pageVars, setupPosts, clicks>>

Rows == 1 .. N
ActorStatuses == {"NotInitialized", "Initialized", "Dealing", "Certified", "Setup", "Failed"}
\* The statuses that a row initializes from, and that keep a form from being initialized.
Bad == {"NotInitialized", "Unreachable", "Failed"}
Expected == {"Certified", "Setup"}

-----------------------------------------------------------------------------
(* What the effects of the page make of the copies. *)

\* Mutant: unreachable nodes are not waited for.
formStatusReachable(fs, st, loading) ==
    IF fs = "Initial" /\ ~loading /\ DOMAIN st = Rows
       /\ \A r \in Rows : st[r] \notin Bad \ {"Unreachable"}
      THEN "Initialized" ELSE fs

\* All nodes have an entry, and none of them is bad.
formStatus(fs, st, loading) ==
    IF fs = "Initial" /\ ~loading /\ DOMAIN st = Rows /\ \A r \in Rows : st[r] \notin Bad
      THEN "Initialized" ELSE fs

\* What is left when the rows S write the entry v in one commit.
written(map, S, v) ==
    IF S = {} THEN map ELSE [q \in DOMAIN map \cup {Max(S)} |-> IF q = Max(S) THEN v ELSE map[q]]

\* Mutant: the first entry of a row stays.
notedOnce(st, S, s) == written(st, S \ DOMAIN st, s)
\* notifyDKGState: the rows that become s in one commit are noted, and a setup
\* node ends the setup.
noted(st, S, s) == written(st, {r \in S : rowStatus[r] # s}, s)
seen(fs, r, s) ==
    IF s = "Setup" /\ rowStatus[r] # s /\ fs \in {"Initial", "Initialized"} THEN "Setup" ELSE fs

\* The default choice, whenever addresses or status of the form change.
defaultNode(fs, ads) ==
    IF fs \in {"Initialized", "Setup"} /\ ads # << >> /\ <<fs, ads>> # <<status, addresses>>
      THEN Head(ads) ELSE nodeToSetup

\* The page after the rows have handed over the maps st and nl. When the loading
\* map is a new one and nobody loads in it, nothing is under way any more.
Page(fs, st, nl, newMap, ads, action) ==
    LET loading == IF newMap THEN \E r \in Rows : nl[r] ELSE DKGLoading
        next == formStatus(fs, st, loading)
    IN  /\ statuses' = st /\ nodeLoading' = nl /\ DKGLoading' = loading
        /\ ongoing' = IF newMap /\ ~loading THEN "none" ELSE action
        /\ status' = next
        /\ addresses' = ads
        /\ nodeToSetup' = defaultNode(next, ads)

\* Mutant: the row does not tell the page that it stops loading.
RowSettlesQuietly(r, s, ads) ==
    /\ rowStatus' = [rowStatus EXCEPT ![r] = s]
    /\ rowLoading' = [rowLoading EXCEPT ![r] = FALSE]
    /\ Page(seen(status, r, s), noted(statuses, {r}, s), nodeLoading, FALSE, ads, ongoing)

\* One row changes status and stops loading.
RowSettles(r, s, ads) ==
    /\ rowStatus' = [rowStatus EXCEPT ![r] = s]
    /\ rowLoading' = [rowLoading EXCEPT ![r] = FALSE]
    /\ Page(seen(status, r, s), noted(statuses, {r}, s),
            IF rowLoading[r] THEN [nodeLoading EXCEPT ![r] = FALSE] ELSE nodeLoading,
            rowLoading[r], ads, ongoing)

-----------------------------------------------------------------------------
(* Loading a row. *)

\* Each row has told the page that its status is null and that it loads. The
\* action and the choice of a node come from the storage. A setup that is taken
\* up makes each row poll at once, and it does not know its proxy yet.
TableInit ==
    /\ actor \in [Rows -> {"NotInitialized", "Initialized"}]
    /\ proxy = [r \in Rows |-> "null"] /\ rowStatus = [r \in Rows |-> "null"]
    /\ rowLoading = [r \in Rows |-> TRUE] /\ fetching = [r \in Rows |-> "proxy"]
    /\ initializing = {} /\ polls = [r \in Rows |-> [e \in Expected |-> 0]]
    /\ statuses = written(<<>>, Rows, "null")
    /\ nodeLoading = [r \in Rows |-> TRUE] /\ DKGLoading = TRUE
    /\ addresses = << >> /\ nodeToSetup \in 0 .. N
    /\ status = "Initial" /\ ongoing \in {"none", "initializing", "settingUp"}
    /\ nowhere = IF ongoing = "settingUp" /\ nodeToSetup # 0 THEN Rows ELSE {}
    /\ setupPosts = 0 /\ clicks = IF ongoing = "none" THEN 0 ELSE 1

\* fetchNodeProxy: the row stops loading before it has asked for its status,
\* which it does unless a call in vain has given it one.
ProxyKnown(r) ==
    /\ fetching[r] = "proxy"
    /\ proxy' = [proxy EXCEPT ![r] = "known"]
    /\ fetching' = [fetching EXCEPT ![r] = IF rowStatus[r] = "null" THEN "status" ELSE "none"]
    /\ RowSettles(r, rowStatus[r], Append(addresses, r))
    /\ UNCHANGED <<actor, initializing, nowhere, polls, setupPosts, clicks>>

\* It fails or takes longer than TIMEOUT.
ProxyUnreachable(r) ==
    /\ fetching[r] = "proxy"
    /\ proxy' = [proxy EXCEPT ![r] = "empty"]
    /\ fetching' = [fetching EXCEPT ![r] = "none"]
    /\ RowSettles(r, "Unreachable", addresses)
    /\ UNCHANGED <<actor, initializing, nowhere, polls, setupPosts, clicks>>

\* fetchDKGStatus
StatusKnown(r, ok) ==
    /\ fetching[r] = "status"
    /\ fetching' = [fetching EXCEPT ![r] = "none"]
    /\ RowSettles(r, IF ok THEN actor[r] ELSE "Failed", addresses)
    /\ UNCHANGED <<actor, proxy, initializing, nowhere, polls, setupPosts, clicks>>

\* A call in vain fails: a poll or an initialization.
NowhereFails(r) ==
    /\ r \in nowhere
    /\ nowhere' = nowhere \ {r}
    /\ RowSettles(r, "Failed", addresses)
    /\ UNCHANGED <<actor, proxy, fetching, initializing, polls, setupPosts, clicks>>

-----------------------------------------------------------------------------
(* Initializing and setting up. The rows begin in one commit: of the rows   *)
(* that then tell the page that they load, it notes the last one.           *)

mounted == ~DKGLoading \/ ongoing # "none"
InitializeButton == mounted /\ status = "Initial" /\ ongoing # "initializing"
SetupButton == mounted /\ status = "Initialized" /\ ongoing # "settingUp"
click == clicks < MaxClicks /\ clicks' = clicks + 1

\* handleInitialize, and the rows' effects. Rows without proxy give up at once,
\* in one commit; a row whose proxy is not known yet calls in vain.
Initialize ==
    /\ InitializeButton
    /\ click
    /\ LET begin == {r \in Rows : rowStatus[r] \in Bad /\ ~rowLoading[r]}
           giveUp == {r \in begin : proxy[r] = "empty"}
           inVain == {r \in begin : proxy[r] = "null"}
       IN  /\ initializing' = initializing \cup (begin \ (giveUp \cup inVain))
           /\ nowhere' = nowhere \cup inVain
           /\ rowStatus' = [r \in Rows |-> IF r \in giveUp THEN "Unreachable" ELSE rowStatus[r]]
           /\ rowLoading' = [r \in Rows |-> rowLoading[r] \/ r \in begin \ giveUp]
           /\ Page(status, noted(statuses, giveUp, "Unreachable"),
                   written(written(nodeLoading, begin, TRUE), giveUp, FALSE),
                   begin # {}, addresses, "initializing")
    /\ UNCHANGED <<actor, proxy, fetching, polls, setupPosts>>

\* initializeNode: a node that has an actor already refuses.
InitializeAnswered(r, ok) ==
    /\ r \in initializing
    /\ initializing' = initializing \ {r}
    /\ actor' = [actor EXCEPT ![r] = IF @ = "NotInitialized" /\ ok THEN "Initialized" ELSE @]
    /\ RowSettles(r, IF actor[r] = "NotInitialized" /\ ok THEN "Initialized" ELSE "Failed",
                  addresses)
    /\ UNCHANGED <<proxy, fetching, nowhere, polls, setupPosts, clicks>>

\* handleCheck of the dialog.
ChooseNode(r) ==
    /\ mounted /\ status = "Initialized" /\ proxy[r] = "known"
    /\ nodeToSetup' = r
    /\ UNCHANGED <<actor, rowVars, statuses, nodeLoading, DKGLoading, addresses, status, ongoing,
                   setupPosts, clicks>>

\* The setup is confirmed: the request goes out, and every row polls. A request
\* whose answer is lost is under way for ever, and a later confirmation is ignored.
SetUp ==
    /\ SetupButton /\ setupPosts = 0
    /\ click
    /\ setupPosts' = 1
    /\ LET begin == {r \in Rows : ~rowLoading[r] /\ nodeToSetup # 0}
           expected(r) == IF r = nodeToSetup THEN "Setup" ELSE "Certified"
       IN  /\ rowLoading' = [r \in Rows |-> rowLoading[r] \/ r \in begin]
           /\ polls' = [r \in Rows |->
                  IF r \in begin THEN [polls[r] EXCEPT ![expected(r)] = @ + 1] ELSE polls[r]]
           /\ Page(status, statuses, written(nodeLoading, begin, TRUE), begin # {}, addresses,
                   "settingUp")
    /\ UNCHANGED <<actor, proxy, rowStatus, fetching, initializing, nowhere>>

SetUpAnswered ==
    /\ setupPosts > 0 /\ setupPosts' = 0
    /\ UNCHANGED <<actor, rowVars, pageVars, clicks>>

\* The form goes back to initialized.
SetUpRefused ==
    /\ setupPosts > 0 /\ setupPosts' = 0
    /\ status' = "Initialized" /\ ongoing' = "none"
    /\ nodeToSetup' = defaultNode("Initialized", addresses)
    /\ UNCHANGED <<actor, rowVars, statuses, nodeLoading, DKGLoading, addresses, clicks>>

pollEnds(r, e) == polls' = [polls EXCEPT ![r][e] = @ - 1]

\* pollDKG: the row follows the status of the actor until it is the expected one.
PollDKG(r, e) ==
    /\ polls[r][e] > 0 /\ proxy[r] = "known" /\ actor[r] \notin {"NotInitialized", e, "Failed"}
    /\ rowStatus' = [rowStatus EXCEPT ![r] = actor[r]]
    /\ Page(seen(status, r, actor[r]), noted(statuses, {r}, actor[r]), nodeLoading, FALSE,
            addresses, ongoing)
    /\ UNCHANGED <<actor, proxy, rowLoading, fetching, initializing, nowhere, polls, setupPosts,
                   clicks>>

\* The expected status, or a failure because the setup was called already.
PollResolved(r, e) ==
    /\ polls[r][e] > 0 /\ proxy[r] = "known" /\ actor[r] \in {e, "Failed"}
    /\ pollEnds(r, e)
    /\ RowSettles(r, actor[r], addresses)
    /\ UNCHANGED <<actor, proxy, fetching, initializing, nowhere, setupPosts, clicks>>

\* MAX_ATTEMPTS, an error of the call, or a failed actor.
PollFails(r, e) ==
    /\ polls[r][e] > 0
    /\ pollEnds(r, e)
    /\ RowSettles(r, "Failed", addresses)
    /\ UNCHANGED <<actor, proxy, fetching, initializing, nowhere, setupPosts, clicks>>

-----------------------------------------------------------------------------
\* The actors of the nodes move on, also for other managers.
ActorMoves(r) ==
    /\ \E s \in ActorStatuses :
          /\ <<actor[r], s>> \in {<<"NotInitialized", "Initialized">>, <<"Initialized", "Dealing">>,
                                 <<"Initialized", "Failed">>, <<"Dealing", "Certified">>,
                                 <<"Dealing", "Failed">>, <<"Certified", "Setup">>}
          /\ actor' = [actor EXCEPT ![r] = s]
    /\ UNCHANGED <<rowVars, pageVars, setupPosts, clicks>>

Loads(r) ==
    \/ ProxyKnown(r) \/ ProxyUnreachable(r) \/ NowhereFails(r)
    \/ \E ok \in BOOLEAN : StatusKnown(r, ok) \/ InitializeAnswered(r, ok)
Polls(r, e) == PollDKG(r, e) \/ PollResolved(r, e) \/ PollFails(r, e)

TableNext ==
    \/ Initialize \/ SetUp \/ SetUpAnswered \/ SetUpRefused
    \/ \E r \in Rows : ChooseNode(r) \/ Loads(r) \/ ActorMoves(r) \/ \E e \in Expected : Polls(r, e)

\* Every fetch is answered or times out, and every poll ends after MAX_ATTEMPTS.
TableSpec ==
    /\ TableInit /\ [][TableNext]_tableVars
    /\ \A r \in Rows : WF_tableVars(Loads(r)) /\
                       \A e \in Expected : WF_tableVars(PollResolved(r, e) \/ PollFails(r, e))

-----------------------------------------------------------------------------
\* What the page knows of the status of a row is the status of the row, although
\* each row writes the whole map (notifyDKGState of Show.tsx). The one entry
\* that may be lost is of a row that gives up with others: the page then takes it
\* to be in another of the statuses that keep a form from being initialized.
StatusesAgree ==
    \A r \in DOMAIN statuses :
        statuses[r] # rowStatus[r] => statuses[r] \in Bad /\ rowStatus[r] = "Unreachable"

\* The request for the setup goes to a node whose proxy answered, whatever choice
\* was found in the storage and although rows may be unreachable (ChooseProxyModal).
SetupIsReachable ==
    [][setupPosts' > setupPosts => nodeToSetup # 0 /\ proxy[nodeToSetup] = "known"]_tableVars

\* A setup does not stay under way: the row that the page takes for loading, if
\* only the last one, comes to an end and with it the setup.
SettingUpEnds == (ongoing = "settingUp") ~> (ongoing # "settingUp")
=============================================================================
