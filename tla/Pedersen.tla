------------------------------ MODULE Pedersen ------------------------------
(***************************************************************************)
(* The distributed key generation of a form (services/dkg/pedersen): the   *)
(* actors of the nodes, Setup calls on any of them, the streams that a     *)
(* call opens to all nodes, the goroutine that each Start message starts,  *)
(* and what survives a crash.                                              *)
(*                                                                         *)
(* A call has a stream of its own on every node, with lists of deals and   *)
(* responses of its own, but all share the handler of the node: h.dkg,     *)
(* the key, the share, the flag running and the status. A goroutine goes   *)
(* on when its stream is over.                                             *)
(*                                                                         *)
(* Cryptography is external (kyber). A generator of a node is named by the *)
(* call that made it, and so are its deals; a distributed key, and a share *)
(* of it, is the deal of each node that it was computed from. A message to *)
(* an open stream is in its list at once, from where it is taken at any    *)
(* time; deals and responses sent to other streams are lost. The statuses  *)
(* of doDKG, from Dealing to Certified, are "Ongoing". With up to three    *)
(* nodes, the threshold of DistKeyShare is all of them.                    *)
(***************************************************************************)
EXTENDS Integers, FiniteSets

CONSTANTS
    Nodes,       \* the roster of the form
    None,        \* nil
    Asked,       \* the nodes that are asked for a Setup
    Timeouts,    \* whether a Setup call may give up on answers that still come
    MaxSetups,   \* bound: Setup calls that open streams
    MaxCrashes   \* bound: nodes that crash

Calls == 1 .. MaxSetups

\* A generator or its deals; a distributed key, or a share of it
Generators == Calls \cup {None}
Keys == [Nodes -> Generators] \cup {None}

\* What is stored for an actor, and the Handler in memory
HandlerDatas == [distKey : Keys, privShare : Keys]
Handlers ==
    [distKey : Keys, privShare : Keys, running : BOOLEAN,
     status : {"Initialized", "Ongoing", "Setup", "Failed"},
     dkg : Generators, deals : [Nodes -> Generators], approved : SUBSET (Nodes \X Nodes)]

ASSUME PedersenAssumption ==
    /\ IsFiniteSet(Nodes) /\ Nodes # {} /\ Asked \subseteq Nodes
    /\ MaxSetups \in Nat /\ MaxCrashes \in Nat
    /\ None \notin Calls /\ None \notin [Nodes -> Calls] /\ None \notin Nodes
    /\ None \notin HandlerDatas /\ None \notin Handlers

VARIABLES
    saved,       \* the HandlerData in the database of each node, or None
    handler,     \* the Handler of each node that has an actor, or None
    call,        \* the Setup calls
    stream,      \* Handler.Stream of each call on each node, and its goroutine
    crashes      \* crashes so far

vars == <<saved, handler, call, stream, crashes>>

NoDeals == [m \in Nodes |-> None]

\* NewHandler, from what was saved
newHandler(data) ==
    [distKey |-> data.distKey, privShare |-> data.privShare, running |-> FALSE,
     status |-> "Initialized", dkg |-> None, deals |-> NoDeals, approved |-> {}]

\* Mutant: the share is left out
KeyOnly(h) == [distKey |-> h.distKey, privShare |-> None]

\* Handler.MarshalJSON
HandlerData(h) == [distKey |-> h.distKey, privShare |-> h.privShare]
NewHandlerData == [distKey |-> None, privShare |-> None]

\* state.Done; participants are set before the key.
Done(h) == h.distKey # None

Waiting(s) == call[s].phase \in {"keys", "start"}

-----------------------------------------------------------------------------
(* Actors *)

\* Pedersen.Listen: the actor is stored with new keys.
Listen(n) ==
    /\ saved[n] = None
    /\ saved' = [saved EXCEPT ![n] = NewHandlerData]
    /\ handler' = [handler EXCEPT ![n] = newHandler(NewHandlerData)]
    /\ UNCHANGED <<call, stream, crashes>>

\* A node stops and is started again: ReadActors makes its actors from what is
\* stored. Its streams, goroutines and calls are gone.
Crash(n) ==
    /\ crashes < MaxCrashes /\ crashes' = crashes + 1
    /\ saved[n] # None
    /\ handler' = [handler EXCEPT ![n] = newHandler(saved[n])]
    /\ stream' = [s \in Calls |->
                     IF stream[s][n].at = "none" THEN stream[s]
                     ELSE [stream[s] EXCEPT ![n].at = "closed", ![n].pc = "ended"]]
    /\ call' = [s \in Calls |-> IF call[s].by = n /\ Waiting(s)
                                THEN [call[s] EXCEPT !.phase = "failed"] ELSE call[s]]
    /\ UNCHANGED saved

-----------------------------------------------------------------------------
(* Actor.Setup *)

setErr(n) == handler' = [handler EXCEPT ![n].status = "Failed"]

\* "setup() was already called, only one call is allowed"
SetupAgain(n) ==
    /\ handler[n] # None /\ Done(handler[n])
    /\ setErr(n)
    /\ UNCHANGED <<saved, call, stream, crashes>>

\* The roster is read, streams are opened and GetPeerPubKey is sent to all.
Setup(n) ==
    /\ handler[n] # None /\ ~ Done(handler[n])
    /\ \E s \in Calls :
          /\ call[s].phase = "unused"
          /\ \A r \in 1 .. (s - 1) : call[r].phase # "unused"
          /\ call' = [call EXCEPT ![s].phase = "keys", ![s].by = n]
    /\ UNCHANGED <<saved, handler, stream, crashes>>

\* All have answered: Start is sent. The send may fail when a stream is gone.
SendStart(s) ==
    /\ call[s].phase = "keys"
    /\ \A m \in Nodes : stream[s][m].answered
    /\ call' = [call EXCEPT ![s].phase = "start"]
    /\ stream' = [stream EXCEPT ![s] = [m \in Nodes |-> [@[m] EXCEPT !.start = TRUE]]]
    /\ UNCHANGED <<saved, handler, crashes>>

\* A message does not come, or not in time, cannot be sent, or the keys that the
\* nodes report are not the same.
GiveUp(s) ==
    /\ Waiting(s)
    /\ \/ Timeouts
       \/ Cardinality(call[s].done) > 1
       \/ \E m \in Nodes : stream[s][m].at = "closed" /\ ~ stream[s][m].sent
    /\ call' = [call EXCEPT ![s].phase = "failed"]
    /\ setErr(call[s].by)
    /\ UNCHANGED <<saved, stream, crashes>>

\* Mutant: one StartDone is enough
someDone(s) == \E m \in Nodes : stream[s][m].sent

allDone(s) == \A m \in Nodes : stream[s][m].sent

\* Every node has sent StartDone, with the same key.
SetupReturns(s) ==
    /\ call[s].phase = "start"
    /\ allDone(s)
    /\ Cardinality(call[s].done) = 1
    /\ call' = [call EXCEPT ![s].phase = "returned"]
    /\ handler' = [handler EXCEPT ![call[s].by].status = "Setup"]
    /\ saved' = [saved EXCEPT ![call[s].by] = HandlerData(handler[call[s].by])]
    /\ UNCHANGED <<stream, crashes>>

-----------------------------------------------------------------------------
(* Handler.Stream *)

accept(h) == Done(h) \/ ~ h.running

\* The stream of a call reaches a node, with GetPeerPubKey, and is refused while
\* the first setup is running on another stream or the node has no actor.
Open(s, n) ==
    /\ call[s].phase = "keys"
    /\ stream[s][n].at = "none"
    /\ IF handler[n] # None /\ accept(handler[n])
       THEN /\ stream' = [stream EXCEPT ![s][n].at = "open", ![s][n].answered = TRUE,
                                        ![s][n].first = ~ Done(handler[n])]
            /\ handler' = [handler EXCEPT ![n].running = @ \/ ~ Done(handler[n])]
       ELSE /\ stream' = [stream EXCEPT ![s][n].at = "closed"]
            /\ UNCHANGED handler
    /\ UNCHANGED <<saved, call, crashes>>

\* Mutant: the flag stays
keepsRunning(h, first) == h

\* The deferred function of the stream that set the flag
stopsRunning(h, first) == [h EXCEPT !.running = IF first THEN FALSE ELSE @]

\* The stream ends with the call, or at a timeout once the key is there.
EndStream(s, n) ==
    /\ stream[s][n].at = "open"
    /\ ~ Waiting(s) \/ Done(handler[n])
    /\ stream' = [stream EXCEPT ![s][n].at = "closed"]
    /\ handler' = [handler EXCEPT ![n] = stopsRunning(@, stream[s][n].first)]
    /\ UNCHANGED <<saved, call, crashes>>

\* start: a new generator takes the place of any other, and doDKG begins.
start(s, n) ==
    /\ stream[s][n].at = "open" /\ stream[s][n].start
    /\ handler' = [handler EXCEPT ![n].dkg = s, ![n].deals = NoDeals, ![n].approved = {},
                                  ![n].status = "Ongoing"]
    /\ stream' = [stream EXCEPT ![s][n].start = FALSE, ![s][n].pc = "deal"]
    /\ UNCHANGED <<saved, call, crashes>>

-----------------------------------------------------------------------------
(* doDKG *)

at(s, n, pc) == stream[s][n].pc = pc

\* Deals and responses wait in the lists of the stream r; doDKG takes a deal from there.
putDeal(r, d) == [r EXCEPT !.deals = @ \cup {d}]
putResponse(r, p) == [r EXCEPT !.responses = @ \cup {p}]
takeDeal(r, d) == [r EXCEPT !.deals = @ \ {d}, !.received = @ + 1]

\* deal: one for every other node. Sends are not checked.
deal(s, n) ==
    /\ at(s, n, "deal")
    /\ handler' = [handler EXCEPT ![n].deals[n] = handler[n].dkg, ![n].status = "Ongoing"]
    /\ stream' = [stream EXCEPT ![s] =
                     [m \in Nodes |->
                        IF m = n THEN [@[m] EXCEPT !.pc = "respond"]
                        ELSE IF @[m].at = "open"
                        THEN putDeal(@[m], [from |-> n, of |-> handler[n].dkg])
                        ELSE @[m]]]
    /\ UNCHANGED <<saved, call, crashes>>

\* ProcessDeal takes one deal per dealer. It may or may not take a deal of
\* another call: the two lists of nodes are in the same order or are not.
processes(h, d) == h.deals[d.from] = None

allReceived(k) == k >= Cardinality(Nodes) - 1

\* handleDeal: the response goes to the others, until a send fails. A deal that
\* is refused counts as received all the same.
handleDeal(s, n, d) ==
    LET others == Nodes \ {n}
        reached == {m \in others : stream[s][m].at = "open"}
        r == [dealer |-> d.from, verifier |-> n, of |-> d.of]
    IN  /\ at(s, n, "respond") /\ ~ allReceived(stream[s][n].received)
        /\ d \in stream[s][n].deals
        /\ \E taken \in BOOLEAN, to \in SUBSET reached :
              /\ taken => processes(handler[n], d)
              /\ ~ taken => ~ processes(handler[n], d) \/ d.of # handler[n].dkg
              /\ IF taken THEN reached = others => to = others ELSE to = {}
              /\ handler' = IF taken THEN [handler EXCEPT ![n].deals[d.from] = d.of] ELSE handler
              /\ stream' = [stream EXCEPT ![s] =
                     [m \in Nodes |->
                        IF m = n THEN takeDeal(@[m], d)
                        ELSE IF m \in to THEN putResponse(@[m], r)
                        ELSE @[m]]]
        /\ UNCHANGED <<saved, call, crashes>>

\* Certified: every deal is approved by every node; the dealer and the node
\* itself need no response.
Certified(h, n) ==
    \A j \in Nodes : /\ h.deals[j] # None
                     /\ \A i \in Nodes \ {j, n} : <<j, i>> \in h.approved

\* ProcessResponse counts a response for the deal that the node has. Which of
\* the responses in the list comes first makes no difference.
certify(s, n) ==
    /\ at(s, n, "respond") /\ allReceived(stream[s][n].received)
    /\ ~ Certified(handler[n], n)
    /\ stream[s][n].responses # {}
    /\ handler' = [handler EXCEPT ![n].status = "Ongoing", ![n].approved = @ \cup
                      {<<r.dealer, r.verifier>> :
                          r \in {q \in stream[s][n].responses :
                                     q.of = handler[n].deals[q.dealer]}}]
    /\ stream' = [stream EXCEPT ![s][n].responses = {}]
    /\ UNCHANGED <<saved, call, crashes>>

\* Certified, DistKeyShare and SetDistKey
SetDistKey(s, n) ==
    /\ at(s, n, "respond") /\ allReceived(stream[s][n].received)
    /\ Certified(handler[n], n)
    /\ handler' = [handler EXCEPT ![n].distKey = handler[n].deals, ![n].status = "Ongoing"]
    /\ stream' = [stream EXCEPT ![s][n].pc = "share", ![s][n].key = handler[n].deals]
    /\ UNCHANGED <<saved, call, crashes>>

SetPrivShare(s, n) ==
    /\ at(s, n, "share")
    /\ handler' = [handler EXCEPT ![n].privShare = stream[s][n].key]
    /\ stream' = [stream EXCEPT ![s][n].pc = "reply"]
    /\ UNCHANGED <<saved, call, crashes>>

\* StartDone arrives while the call waits for it and the stream is there.
SendStartDone(s, n) ==
    /\ at(s, n, "reply")
    /\ call[s].phase = "start"
    /\ stream' = [stream EXCEPT ![s][n].pc = "save", ![s][n].sent = TRUE]
    /\ call' = [call EXCEPT ![s].done = @ \cup {stream[s][n].key}]
    /\ UNCHANGED <<saved, handler, crashes>>

\* Otherwise the send fails and nothing is saved, or it fails unnoticed.
StartDoneLost(s, n) ==
    /\ at(s, n, "reply")
    /\ ~ Waiting(s) \/ stream[s][n].at = "closed"
    /\ \E pc \in {"save", "ended"} : stream' = [stream EXCEPT ![s][n].pc = pc]
    /\ UNCHANGED <<saved, handler, call, crashes>>

\* Mutant: what was saved before is kept
saveNothing(n) == saved[n]

saveState(n) == HandlerData(handler[n])

Save(s, n) ==
    /\ at(s, n, "save")
    /\ saved' = [saved EXCEPT ![n] = saveState(n)]
    /\ stream' = [stream EXCEPT ![s][n].pc = "ended"]
    /\ UNCHANGED <<handler, call, crashes>>

-----------------------------------------------------------------------------
Init ==
    /\ saved = [n \in Nodes |-> None]
    /\ handler = [n \in Nodes |-> None]
    /\ call = [s \in Calls |-> [phase |-> "unused", by |-> None, done |-> {}]]
    /\ stream = [s \in Calls |-> [n \in Nodes |->
                    [at |-> "none", first |-> FALSE, answered |-> FALSE, start |-> FALSE,
                     sent |-> FALSE, deals |-> {}, responses |-> {}, pc |-> "none",
                     received |-> 0, key |-> None]]]
    /\ crashes = 0

doDKG(s, n) ==
    \/ deal(s, n)
    \/ \E d \in stream[s][n].deals : handleDeal(s, n, d)
    \/ certify(s, n)
    \/ SetDistKey(s, n) \/ SetPrivShare(s, n)
    \/ SendStartDone(s, n) \/ StartDoneLost(s, n) \/ Save(s, n)

Proceed ==
    \/ \E s \in Calls : SendStart(s) \/ GiveUp(s) \/ SetupReturns(s)
    \/ \E s \in Calls, n \in Nodes :
          Open(s, n) \/ EndStream(s, n) \/ start(s, n) \/ doDKG(s, n)

Next ==
    \/ \E n \in Nodes : Listen(n) \/ Crash(n)
    \/ \E n \in Asked : Setup(n) \/ SetupAgain(n)
    \/ Proceed

Spec == Init /\ [][Next]_vars

\* What a call or a stream has begun goes on: Go schedules every goroutine, the
\* waits of Setup and Recv are bounded, and a node is not down for ever. It is
\* enough that something goes on, as all steps of a call are finitely many.
\* Nobody has to call Listen or Setup.
Fairness == WF_vars(Proceed)

FairSpec == Spec /\ Fairness

-----------------------------------------------------------------------------
(* Properties *)

\* Whatever is stored when a node crashes, a key is stored with a share of that
\* key: a restarted node is Done only if it can decrypt.
SavedTogether ==
    \A n \in Nodes : saved[n] # None => saved[n].privShare = saved[n].distKey

\* When Setup has returned a key, every node has a share of it in use, but for
\* the nodes that crashed between StartDone and saveState.
ReturnedKeyIsHeld ==
    \A s \in Calls : call[s].phase = "returned" =>
        Cardinality({n \in Nodes : handler[n].privShare \notin call[s].done
                                     \/ handler[n].distKey \notin call[s].done}) <= crashes

\* A call of Setup ends, whether nodes listen, refuse the stream or crash: no
\* node waits for a deal or a response that cannot come while all others wait
\* for that node. And the flag that keeps other setups away is reset, so that a
\* failed setup can be called again.
SetupEnds ==
    \A s \in Calls : (call[s].phase = "keys") ~>
        /\ ~ Waiting(s)
        /\ \A n \in Nodes : handler[n] # None => ~ handler[n].running

\* In the end the key that Setup returned is stored, with a share, on every node
\* that did not crash.
KeyIsSaved ==
    \A s \in Calls : (call[s].phase = "returned") ~>
        Cardinality({n \in Nodes : saved[n] # None => saved[n].privShare \notin call[s].done})
            <= crashes
=============================================================================
