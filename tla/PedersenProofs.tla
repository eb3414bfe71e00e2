--------------------------- MODULE PedersenProofs ---------------------------
(***************************************************************************)
(* Theorems about the distributed key generation of a form, for any roster *)
(* and any number of crashes, and about the page that sets it up.          *)
(***************************************************************************)
EXTENDS Pedersen, DKGTable, ListLemmas

-----------------------------------------------------------------------------
(* Types, for any number of Setup calls. *)

Deals == [from : Nodes, of : Generators]
Responses == [dealer : Nodes, verifier : Nodes, of : Generators]
Points == {"none", "deal", "respond", "share", "reply", "save", "ended"}
Phases == {"unused", "keys", "start", "failed", "returned"}

Streams ==
    [at : {"none", "open", "closed"}, first : BOOLEAN, answered : BOOLEAN, start : BOOLEAN,
     sent : BOOLEAN, deals : SUBSET Deals, responses : SUBSET Responses, pc : Points,
     received : Nat, key : Keys]

SetupCalls == [phase : Phases, by : Nodes \cup {None}, done : SUBSET Keys]

SavedOK == saved \in [Nodes -> HandlerDatas \cup {None}]
HandlersOK == handler \in [Nodes -> Handlers \cup {None}]
StreamsOK == stream \in [Calls -> [Nodes -> Streams]]
CallsOK == call \in [Calls -> SetupCalls]

\* A node has a handler when it has stored an actor; before that it has no
\* stream, no goroutine and no call.
ActorsOK ==
    /\ \A n \in Nodes : handler[n] = None <=> saved[n] = None
    /\ \A s \in Calls, n \in Nodes :
          saved[n] = None => /\ stream[s][n].at # "open"
                             /\ stream[s][n].pc \in {"none", "ended"}
                             /\ ~stream[s][n].sent
    /\ \A s \in Calls : call[s].phase # "unused" => call[s].by \in Nodes /\ saved[call[s].by] # None

TypeOK == SavedOK /\ HandlersOK /\ StreamsOK /\ CallsOK /\ ActorsOK /\ crashes \in Nat

LEMMA Constants ==
    /\ IsFiniteSet(Nodes) /\ Asked \subseteq Nodes /\ None \notin Nodes
    /\ None \notin HandlerDatas /\ None \notin Handlers
  BY PedersenAssumption

\* All streams of a call change, to those of the function f.
LEMMA PutStreams ==
    ASSUME StreamsOK, NEW s \in Calls, NEW f \in [Nodes -> Streams],
           stream' = [stream EXCEPT ![s] = f]
    PROVE  /\ StreamsOK'
           /\ stream'[s] = f
           /\ \A q \in Calls : q # s => stream'[q] = stream[q]
  BY DEF StreamsOK

\* The handler of a node changes to h.
LEMMA PutHandler ==
    ASSUME HandlersOK, NEW n \in Nodes, NEW h \in Handlers, handler' = [handler EXCEPT ![n] = h]
    PROVE  /\ HandlersOK'
           /\ handler'[n] = h /\ h # None
           /\ \A m \in Nodes : m # n => handler'[m] = handler[m]
  BY Constants DEF HandlersOK

-----------------------------------------------------------------------------
(* The invariant of one Setup call. *)

\* Nothing is generated before Start was sent or without a stream, and a stream
\* starts one generation.
StartInv ==
    \A s \in Calls, n \in Nodes :
        /\ call[s].phase \in {"unused", "keys"} =>
              /\ ~stream[s][n].start /\ ~stream[s][n].sent
              /\ stream[s][n].pc \in {"none", "ended"}
        /\ stream[s][n].start => ~stream[s][n].sent /\ stream[s][n].pc \in {"none", "ended"}
        /\ stream[s][n].at = "none" => stream[s][n].pc \in {"none", "ended"}

\* The key and the share of a handler belong together, but for the moment in
\* which its goroutine has set one and not yet the other.
KeyInv ==
    \A s \in Calls, n \in Nodes : handler[n] # None =>
        /\ stream[s][n].pc # "share" => handler[n].privShare = handler[n].distKey
        /\ stream[s][n].pc \in {"share", "reply"} => handler[n].distKey = stream[s][n].key

\* A node that has sent StartDone has reported its key, and sets no other.
SentInv ==
    \A s \in Calls, n \in Nodes : stream[s][n].sent =>
        stream[s][n].pc \in {"save", "ended"} /\ stream[s][n].key \in call[s].done

ReturnInv == \A s \in Calls : call[s].phase = "returned" => allDone(s)

\* The nodes that have reported a key and hold another one, or none.
Without(s) ==
    {n \in Nodes : stream[s][n].sent /\ ~(/\ handler[n].privShare = stream[s][n].key
                                          /\ handler[n].distKey = stream[s][n].key)}

CrashInv == \A s \in Calls : Cardinality(Without(s)) <= crashes

SetupInv ==
    /\ TypeOK /\ StartInv /\ KeyInv /\ SentInv /\ ReturnInv /\ SavedTogether /\ CrashInv

-----------------------------------------------------------------------------
(* What the steps do to handlers and streams. *)

\* The keys and shares in the memory of the nodes stay what they are.
SameKeys ==
    \A m \in Nodes : /\ handler'[m] = None <=> handler[m] = None
                     /\ handler[m] # None => /\ handler'[m].distKey = handler[m].distKey
                                             /\ handler'[m].privShare = handler[m].privShare

\* Streams and goroutines other than the one of call s on node n stay where they are.
SameOthers(s, n) ==
    \A q \in Calls, m \in Nodes : q # s \/ m # n =>
        /\ stream'[q][m].pc = stream[q][m].pc /\ stream'[q][m].key = stream[q][m].key
        /\ stream'[q][m].sent = stream[q][m].sent /\ stream'[q][m].start = stream[q][m].start
        /\ stream'[q][m].at = stream[q][m].at

\* The handler of a node changes in other fields than its key and its share.
LEMMA TouchHandler ==
    ASSUME HandlersOK, NEW n \in Nodes, handler[n] # None,
           NEW h \in Handlers, h.distKey = handler[n].distKey, h.privShare = handler[n].privShare,
           handler' = [handler EXCEPT ![n] = h]
    PROVE  HandlersOK' /\ SameKeys
  BY PutHandler DEF SameKeys

LEMMA SetErr ==
    ASSUME HandlersOK, NEW n \in Nodes, handler[n] # None, setErr(n)
    PROVE  HandlersOK' /\ SameKeys
  <1>1. PICK h \in Handlers : /\ h.distKey = handler[n].distKey
                              /\ h.privShare = handler[n].privShare
                              /\ handler' = [handler EXCEPT ![n] = h]
    <2>. DEFINE new == [handler[n] EXCEPT !.status = "Failed"]
    <2>1. handler[n] \in Handlers
      BY DEF HandlersOK
    <2>2. /\ new \in Handlers /\ new.distKey = handler[n].distKey
          /\ new.privShare = handler[n].privShare
      BY <2>1 DEF Handlers
    <2>3. handler' = [handler EXCEPT ![n] = new]
      BY <2>1 DEF setErr, HandlersOK
    <2>. HIDE DEF new
    <2>. QED BY <2>2, <2>3
  <1>. QED BY <1>1, TouchHandler

\* What the invariant says of node n, for the only call c.
NodeInv(c, n) ==
    /\ handler[n] # None =>
          /\ stream[c][n].pc # "share" => handler[n].privShare = handler[n].distKey
          /\ stream[c][n].pc \in {"share", "reply"} => handler[n].distKey = stream[c][n].key
    /\ stream[c][n].sent =>
          stream[c][n].pc \in {"save", "ended"} /\ stream[c][n].key \in call[c].done

\* One call, and a step that touches the goroutine of one node: no other node
\* loses its key, and this one only by a crash.
LEMMA OneNodeStep ==
    ASSUME SetupInv, TypeOK', StartInv', ReturnInv', SavedTogether',
           NEW c \in Calls, Calls = {c}, NEW n \in Nodes,
           \A m \in Nodes \ {n} :
               /\ stream'[c][m].pc = stream[c][m].pc /\ stream'[c][m].key = stream[c][m].key
               /\ stream'[c][m].sent = stream[c][m].sent
               /\ handler'[m] = None <=> handler[m] = None
               /\ handler[m] # None => /\ handler'[m].distKey = handler[m].distKey
                                       /\ handler'[m].privShare = handler[m].privShare,
           call[c].done \subseteq call'[c].done,
           NodeInv(c, n)',
           \/ crashes' = crashes /\ (n \in Without(c)' => n \in Without(c))
           \/ crashes' = crashes + 1
    PROVE  SetupInv'
  <1>1. \A m \in Nodes : NodeInv(c, m)'
    <2>. SUFFICES ASSUME NEW m \in Nodes, m # n PROVE NodeInv(c, m)'
      OBVIOUS
    <2>1. NodeInv(c, m)
      BY DEF SetupInv, KeyInv, SentInv, NodeInv
    <2>. QED BY <2>1 DEF NodeInv
  <1>2. KeyInv' /\ SentInv'
    BY <1>1 DEF KeyInv, SentInv, NodeInv
  <1>3. CrashInv'
    <2>1. ASSUME NEW m \in Without(c)', m # n PROVE m \in Without(c)
      <3>1. m \in Nodes /\ stream[c][m].sent /\ stream'[c][m].sent
        BY <2>1 DEF Without
      <3>2. handler[m] # None
        BY <3>1 DEF SetupInv, TypeOK, ActorsOK
      <3>. QED BY <2>1, <3>1, <3>2 DEF Without
    <2>2. IsFiniteSet(Nodes) /\ Without(c) \subseteq Nodes /\ Without(c)' \subseteq Nodes
      BY Constants DEF Without
    <2>3. /\ IsFiniteSet(Without(c)) /\ IsFiniteSet(Without(c)')
          /\ IsFiniteSet(Without(c) \cup {n})
      BY <2>2, FS_Subset, FS_AddElement
    <2>4. /\ Cardinality(Without(c)) \in Nat /\ Cardinality(Without(c)') \in Nat
          /\ Cardinality(Without(c) \cup {n}) <= Cardinality(Without(c)) + 1
      BY <2>3, FS_AddElement, FS_CardinalityType
    <2>5. Cardinality(Without(c)) <= crashes /\ crashes \in Nat
      BY DEF SetupInv, CrashInv, TypeOK
    <2>6. CASE n \in Without(c)' => n \in Without(c)
      <3>1. Without(c)' \subseteq Without(c)
        BY <2>1, <2>6
      <3>2. Cardinality(Without(c)') <= Cardinality(Without(c))
        BY <2>3, <3>1, FS_Subset
      <3>. QED BY <2>4, <2>5, <3>2 DEF CrashInv
    <2>7. CASE crashes' = crashes + 1
      <3>1. Without(c)' \subseteq Without(c) \cup {n}
        BY <2>1
      <3>2. Cardinality(Without(c)') <= Cardinality(Without(c) \cup {n})
        BY <2>3, <3>1, FS_Subset
      <3>3. Cardinality(Without(c)') <= crashes'
        BY <2>3, <2>4, <2>5, <2>7, <3>2, FS_CardinalityType
      <3>. QED BY <3>3 DEF CrashInv
    <2>. QED BY <2>6, <2>7
  <1>. QED
    BY <1>2, <1>3 DEF SetupInv

\* A step that leaves keys, shares and goroutines alone.
LEMMA QuietStep ==
    ASSUME SetupInv, TypeOK', StartInv', ReturnInv', SavedTogether',
           NEW c \in Calls, Calls = {c}, SameKeys,
           \A m \in Nodes :
               /\ stream'[c][m].pc = stream[c][m].pc /\ stream'[c][m].key = stream[c][m].key
               /\ stream'[c][m].sent = stream[c][m].sent,
           call[c].done \subseteq call'[c].done, crashes' = crashes
    PROVE  SetupInv'
  <1>1. CASE Nodes = {}
    BY <1>1, PedersenAssumption
  <1>2. CASE Nodes # {}
    <2>1. PICK n \in Nodes : TRUE
      BY <1>2
    <2>2. NodeInv(c, n)
      BY DEF SetupInv, KeyInv, SentInv, NodeInv
    <2>3. NodeInv(c, n)'
      BY <2>2 DEF NodeInv, SameKeys
    <2>4. n \in Without(c)' => n \in Without(c)
      <3>1. stream[c][n].sent => handler[n] # None
        BY DEF SetupInv, TypeOK, ActorsOK
      <3>. QED BY <3>1 DEF Without, SameKeys
    <2>. QED BY <2>3, <2>4, OneNodeStep DEF SameKeys
  <1>. QED BY <1>1, <1>2

-----------------------------------------------------------------------------
(* Steps of the actors and of the Setup calls. *)

LEMMA StoredOfActor ==
    ASSUME TypeOK, NEW n \in Nodes, saved[n] # None \/ handler[n] # None
    PROVE  /\ saved[n] # None /\ saved[n] \in HandlerDatas
           /\ handler[n] # None /\ handler[n] \in Handlers
  BY DEF TypeOK, SavedOK, HandlersOK, ActorsOK

\* A handler that is made from stored data has its key and its share.
LEMMA NewHandler ==
    ASSUME NEW data \in HandlerDatas
    PROVE  /\ newHandler(data) \in Handlers
           /\ newHandler(data).distKey = data.distKey
           /\ newHandler(data).privShare = data.privShare
  <1>1. NoDeals \in [Nodes -> Generators] /\ None \in Generators
    BY DEF NoDeals, Generators
  <1>2. data.distKey \in Keys /\ data.privShare \in Keys
    BY DEF HandlerDatas
  <1>. QED
    BY <1>1, <1>2 DEF newHandler, Handlers

LEMMA ListenStep ==
    ASSUME SetupInv, NEW c \in Calls, Calls = {c}, NEW n \in Nodes, Listen(n)
    PROVE  SetupInv'
  <1>1. TypeOK /\ saved[n] = None /\ UNCHANGED <<call, stream, crashes>>
    BY DEF Listen, SetupInv
  <1>2. NewHandlerData \in HandlerDatas /\ NewHandlerData.distKey = NewHandlerData.privShare
    BY DEF NewHandlerData, HandlerDatas, Keys
  <1>3. PICK h \in Handlers : /\ handler' = [handler EXCEPT ![n] = h]
                              /\ h.privShare = h.distKey
    BY <1>2, NewHandler DEF Listen
  <1>4. PICK d \in HandlerDatas : saved' = [saved EXCEPT ![n] = d] /\ d.privShare = d.distKey
    BY <1>2 DEF Listen
  <1>5. /\ HandlersOK' /\ handler'[n] = h /\ h # None
        /\ \A m \in Nodes : m # n => handler'[m] = handler[m]
    BY <1>1, <1>3, PutHandler DEF TypeOK
  <1>6. /\ SavedOK' /\ saved'[n] = d /\ d # None
        /\ \A m \in Nodes : m # n => saved'[m] = saved[m]
    BY <1>1, <1>4, Constants DEF TypeOK, SavedOK
  <1>7. StreamsOK' /\ CallsOK' /\ crashes' \in Nat
    BY <1>1 DEF TypeOK, StreamsOK, CallsOK
  <1>8. ActorsOK'
    BY <1>1, <1>5, <1>6 DEF TypeOK, ActorsOK
  <1>9. StartInv' /\ ReturnInv'
    BY <1>1 DEF SetupInv, StartInv, ReturnInv, allDone
  <1>10. SavedTogether'
    BY <1>4, <1>6 DEF SetupInv, SavedTogether
  <1>11. stream[c][n].pc \in {"none", "ended"} /\ ~stream[c][n].sent
    BY <1>1 DEF TypeOK, ActorsOK
  <1>12. NodeInv(c, n)' /\ n \notin Without(c)'
    BY <1>1, <1>3, <1>5, <1>11 DEF NodeInv, Without
  <1>. QED
    BY <1>1, <1>5, <1>6, <1>7, <1>8, <1>9, <1>10, <1>12, OneNodeStep DEF TypeOK

\* After a crash the goroutine is gone, and the handler is what was stored.
LEMMA CrashStep ==
    ASSUME SetupInv, NEW c \in Calls, Calls = {c}, NEW n \in Nodes, Crash(n)
    PROVE  SetupInv'
  <1>1. TypeOK /\ saved[n] # None /\ UNCHANGED saved /\ crashes' = crashes + 1
    BY DEF Crash, SetupInv
  <1>2. saved[n] \in HandlerDatas /\ saved[n].privShare = saved[n].distKey
    BY <1>1, StoredOfActor DEF SetupInv, SavedTogether
  <1>3. PICK h \in Handlers : /\ handler' = [handler EXCEPT ![n] = h]
                              /\ h.privShare = h.distKey
    BY <1>2, NewHandler DEF Crash
  <1>4. /\ HandlersOK' /\ handler'[n] = h /\ h # None
        /\ \A m \in Nodes : m # n => handler'[m] = handler[m]
    BY <1>1, <1>3, PutHandler DEF TypeOK
  <1>5. /\ StreamsOK'
        /\ \A q \in Calls, m \in Nodes : m # n => stream'[q][m] = stream[q][m]
        /\ \A q \in Calls : /\ stream'[q][n].at # "open"
                            /\ stream'[q][n].key = stream[q][n].key
                            /\ stream'[q][n].sent = stream[q][n].sent
                            /\ stream'[q][n].start = stream[q][n].start
                            /\ \/ stream'[q][n].at = "closed" /\ stream'[q][n].pc = "ended"
                               \/ stream[q][n].at = "none" /\ stream'[q][n] = stream[q][n]
    <2>. SUFFICES ASSUME NEW q \in Calls
                  PROVE  /\ DOMAIN stream' = Calls /\ stream' = [x \in Calls |-> stream'[x]]
                         /\ stream'[q] \in [Nodes -> Streams]
                         /\ \A m \in Nodes : m # n => stream'[q][m] = stream[q][m]
                         /\ stream'[q][n].at # "open"
                         /\ stream'[q][n].key = stream[q][n].key
                         /\ stream'[q][n].sent = stream[q][n].sent
                         /\ stream'[q][n].start = stream[q][n].start
                         /\ \/ stream'[q][n].at = "closed" /\ stream'[q][n].pc = "ended"
                            \/ stream[q][n].at = "none" /\ stream'[q][n] = stream[q][n]
      BY DEF StreamsOK
    <2>0. stream[q] \in [Nodes -> Streams] /\ stream[q][n] \in Streams
      BY <1>1 DEF TypeOK, StreamsOK
    <2>1. /\ DOMAIN stream' = Calls /\ stream' = [x \in Calls |-> stream'[x]]
          /\ stream'[q] = IF stream[q][n].at = "none" THEN stream[q]
                          ELSE [stream[q] EXCEPT ![n].at = "closed", ![n].pc = "ended"]
      BY DEF Crash
    <2>2. CASE stream[q][n].at = "none"
      BY <2>0, <2>1, <2>2
    <2>3. CASE stream[q][n].at # "none"
      <3>. DEFINE r == [stream[q][n] EXCEPT !.at = "closed", !.pc = "ended"]
      <3>1. /\ r \in Streams /\ r.at = "closed" /\ r.key = stream[q][n].key
            /\ r.sent = stream[q][n].sent /\ r.start = stream[q][n].start /\ r.pc = "ended"
        BY <2>0 DEF Streams, Points
      <3>2. stream'[q] = [stream[q] EXCEPT ![n] = r]
        BY <2>0, <2>1, <2>3
      <3>. HIDE DEF r
      <3>3. /\ stream'[q] \in [Nodes -> Streams] /\ stream'[q][n] = r
            /\ \A m \in Nodes : m # n => stream'[q][m] = stream[q][m]
        BY <2>0, <3>1, <3>2
      <3>. QED BY <2>1, <3>1, <3>3
    <2>. QED BY <2>2, <2>3
  <1>6. /\ CallsOK'
        /\ \A q \in Calls : /\ call'[q].by = call[q].by /\ call'[q].done = call[q].done
                            /\ \/ call'[q].phase = call[q].phase
                               \/ Waiting(q) /\ call'[q].phase = "failed"
    <2>1. call \in [Calls -> SetupCalls]
      BY <1>1 DEF TypeOK, CallsOK
    <2>2. call' = [q \in Calls |-> IF call[q].by = n /\ Waiting(q)
                                   THEN [call[q] EXCEPT !.phase = "failed"] ELSE call[q]]
      BY DEF Crash
    <2>3. ASSUME NEW r \in SetupCalls
          PROVE  /\ [r EXCEPT !.phase = "failed"] \in SetupCalls
                 /\ [r EXCEPT !.phase = "failed"].by = r.by
                 /\ [r EXCEPT !.phase = "failed"].done = r.done
                 /\ [r EXCEPT !.phase = "failed"].phase = "failed"
      BY DEF SetupCalls, Phases
    <2>. QED BY <2>1, <2>2, <2>3 DEF CallsOK
  <1>7. ActorsOK'
    BY <1>1, <1>4, <1>5, <1>6 DEF TypeOK, ActorsOK, Waiting
  <1>8. TypeOK'
    BY <1>1, <1>4, <1>5, <1>6, <1>7 DEF TypeOK, SavedOK
  <1>9. StartInv'
    BY <1>5, <1>6 DEF SetupInv, StartInv
  <1>10. ReturnInv'
    BY <1>5, <1>6 DEF SetupInv, ReturnInv, allDone
  <1>11. SavedTogether'
    BY <1>1 DEF SetupInv, SavedTogether
  <1>12. NodeInv(c, n)'
    <2>1. stream'[c][n].pc \in {"none", "ended"}
      BY <1>5 DEF SetupInv, StartInv
    <2>2. stream[c][n].sent => /\ stream'[c][n].pc = "ended"
                               /\ stream[c][n].key \in call[c].done
      BY <1>5 DEF SetupInv, SentInv, StartInv
    <2>. QED BY <1>3, <1>4, <1>5, <1>6, <2>1, <2>2 DEF NodeInv
  <1>. QED
    BY <1>1, <1>4, <1>5, <1>6, <1>8, <1>9, <1>10, <1>11, <1>12, OneNodeStep

\* The record of a call changes to r.
LEMMA PutCall ==
    ASSUME CallsOK, NEW s \in Calls, NEW r \in SetupCalls, call' = [call EXCEPT ![s] = r]
    PROVE  CallsOK' /\ call'[s] = r /\ \A q \in Calls : q # s => call'[q] = call[q]
  BY DEF CallsOK

\* A step that neither opens a stream nor moves a goroutine: a call goes on.
LEMMA CallStep ==
    ASSUME SetupInv, NEW c \in Calls, Calls = {c}, NEW r \in SetupCalls,
           call' = [call EXCEPT ![c] = r],
           r.done = call[c].done, r.by \in Nodes, saved[r.by] # None,
           r.phase # "unused", r.phase = "keys" => call[c].phase \in {"unused", "keys"},
           r.phase = "returned" => allDone(c),
           HandlersOK', SameKeys, SavedOK', SavedTogether',
           \A m \in Nodes : saved'[m] = None <=> saved[m] = None,
           UNCHANGED <<stream, crashes>>
    PROVE  SetupInv'
  <1>1. CallsOK' /\ call'[c] = r
    BY PutCall DEF SetupInv, TypeOK
  <1>2. ActorsOK'
    BY <1>1 DEF SetupInv, TypeOK, ActorsOK, SameKeys
  <1>3. TypeOK'
    BY <1>1, <1>2 DEF SetupInv, TypeOK, StreamsOK
  <1>4. StartInv'
    BY <1>1 DEF SetupInv, StartInv
  <1>5. ReturnInv'
    BY <1>1 DEF ReturnInv, allDone
  <1>. QED
    BY <1>1, <1>3, <1>4, <1>5, QuietStep

LEMMA SameHandlers ==
    ASSUME UNCHANGED handler
    PROVE  SameKeys
  BY DEF SameKeys

LEMMA SetupStep ==
    ASSUME SetupInv, NEW c \in Calls, Calls = {c}, NEW n \in Nodes, Setup(n)
    PROVE  SetupInv'
  <1>1. TypeOK /\ UNCHANGED <<saved, handler, stream, crashes>> /\ handler[n] # None
        /\ call[c].phase = "unused" /\ call' = [call EXCEPT ![c].phase = "keys", ![c].by = n]
    BY DEF Setup, SetupInv
  <1>2. PICK r \in SetupCalls : /\ call' = [call EXCEPT ![c] = r] /\ r.done = call[c].done
                                /\ r.phase = "keys" /\ r.by = n
    <2>. DEFINE new == [call[c] EXCEPT !.phase = "keys", !.by = n]
    <2>1. /\ new \in SetupCalls /\ new.done = call[c].done /\ new.phase = "keys" /\ new.by = n
      BY <1>1 DEF TypeOK, CallsOK, SetupCalls, Phases
    <2>2. call' = [call EXCEPT ![c] = new]
      BY <1>1 DEF TypeOK, CallsOK, SetupCalls
    <2>. HIDE DEF new
    <2>. QED BY <2>1, <2>2
  <1>3. saved[n] # None
    BY <1>1, StoredOfActor
  <1>4. HandlersOK' /\ SavedOK' /\ SavedTogether'
    BY <1>1 DEF SetupInv, TypeOK, HandlersOK, SavedOK, SavedTogether
  <1>. QED
    BY <1>1, <1>2, <1>3, <1>4, CallStep, SameHandlers

LEMMA SetupAgainStep ==
    ASSUME SetupInv, NEW c \in Calls, Calls = {c}, NEW n \in Nodes, SetupAgain(n)
    PROVE  SetupInv'
  <1>1. TypeOK /\ UNCHANGED <<saved, call, stream, crashes>> /\ handler[n] # None /\ setErr(n)
    BY DEF SetupAgain, SetupInv
  <1>2. HandlersOK' /\ SameKeys
    BY <1>1, SetErr DEF TypeOK
  <1>3. TypeOK'
    BY <1>1, <1>2 DEF TypeOK, SavedOK, StreamsOK, CallsOK, ActorsOK, SameKeys
  <1>4. StartInv' /\ ReturnInv' /\ SavedTogether'
    BY <1>1 DEF SetupInv, StartInv, ReturnInv, allDone, SavedTogether
  <1>. QED
    BY <1>1, <1>2, <1>3, <1>4, QuietStep

\* The phase of a call changes, and nothing else of it.
LEMMA PhaseChange ==
    ASSUME CallsOK, NEW s \in Calls, NEW phase \in Phases,
           call' = [call EXCEPT ![s].phase = phase]
    PROVE  \E r \in SetupCalls : /\ call' = [call EXCEPT ![s] = r] /\ r.done = call[s].done
                                 /\ r.by = call[s].by /\ r.phase = phase
  <1>. DEFINE new == [call[s] EXCEPT !.phase = phase]
  <1>1. /\ new \in SetupCalls /\ new.done = call[s].done
        /\ new.by = call[s].by /\ new.phase = phase
    BY DEF CallsOK, SetupCalls
  <1>2. call' = [call EXCEPT ![s] = new]
    BY DEF CallsOK, SetupCalls
  <1>. HIDE DEF new
  <1>. QED BY <1>1, <1>2

LEMMA GiveUpStep ==
    ASSUME SetupInv, NEW c \in Calls, Calls = {c}, GiveUp(c)
    PROVE  SetupInv'
  <1>1. TypeOK /\ UNCHANGED <<saved, stream, crashes>> /\ Waiting(c) /\ setErr(call[c].by)
        /\ call' = [call EXCEPT ![c].phase = "failed"]
    BY DEF GiveUp, SetupInv
  <1>2. call[c].by \in Nodes /\ saved[call[c].by] # None
    BY <1>1 DEF TypeOK, ActorsOK, Waiting
  <1>3. handler[call[c].by] # None
    BY <1>1, <1>2, StoredOfActor
  <1>4. HandlersOK' /\ SameKeys
    BY <1>1, <1>2, <1>3, SetErr DEF TypeOK
  <1>5. SavedOK' /\ SavedTogether'
    BY <1>1 DEF SetupInv, TypeOK, SavedOK, SavedTogether
  <1>6. PICK r \in SetupCalls : /\ call' = [call EXCEPT ![c] = r] /\ r.done = call[c].done
                                /\ r.by = call[c].by /\ r.phase = "failed"
    BY <1>1, PhaseChange DEF TypeOK, Phases
  <1>. QED
    BY <1>1, <1>2, <1>4, <1>5, <1>6, CallStep

\* The node that was asked stores the key it has, with its share.
LEMMA SetupReturnsStep ==
    ASSUME SetupInv, NEW c \in Calls, Calls = {c}, SetupReturns(c)
    PROVE  SetupInv'
  <1>. DEFINE n == call[c].by
  <1>1. TypeOK /\ UNCHANGED <<stream, crashes>> /\ call[c].phase = "start" /\ allDone(c)
        /\ call' = [call EXCEPT ![c].phase = "returned"]
        /\ handler' = [handler EXCEPT ![n].status = "Setup"]
        /\ saved' = [saved EXCEPT ![n] = HandlerData(handler[n])]
    BY DEF SetupReturns, SetupInv
  <1>2. n \in Nodes /\ saved[n] # None
    BY <1>1 DEF TypeOK, ActorsOK
  <1>3. handler[n] # None /\ handler[n] \in Handlers
    BY <1>1, <1>2, StoredOfActor
  <1>4. handler[n].privShare = handler[n].distKey
    <2>1. stream[c][n].pc \in {"save", "ended"}
      BY <1>1, <1>2 DEF allDone, SetupInv, SentInv
    <2>. QED BY <1>2, <1>3, <2>1 DEF SetupInv, KeyInv
  <1>5. HandlersOK' /\ SameKeys
    <2>. DEFINE new == [handler[n] EXCEPT !.status = "Setup"]
    <2>1. /\ new \in Handlers /\ new.distKey = handler[n].distKey
          /\ new.privShare = handler[n].privShare
      BY <1>3 DEF Handlers
    <2>2. handler' = [handler EXCEPT ![n] = new]
      BY <1>1, <1>2, <1>3 DEF TypeOK, HandlersOK
    <2>3. PICK m \in Nodes : m = n
      BY <1>2
    <2>4. PICK h \in Handlers : h = new
      BY <2>1
    <2>. HIDE DEF new
    <2>. HIDE DEF n
    <2>. QED BY <1>1, <1>3, <2>1, <2>2, <2>3, <2>4, TouchHandler DEF TypeOK
  <1>6. HandlerData(handler[n]) \in HandlerDatas
        /\ HandlerData(handler[n]).privShare = HandlerData(handler[n]).distKey
    BY <1>3, <1>4 DEF HandlerData, HandlerDatas, Handlers
  <1>7. SavedOK' /\ SavedTogether' /\ (\A m \in Nodes : saved'[m] = None <=> saved[m] = None)
    BY <1>1, <1>2, <1>6, Constants DEF SetupInv, TypeOK, SavedOK, SavedTogether
  <1>8. PICK r \in SetupCalls : /\ call' = [call EXCEPT ![c] = r] /\ r.done = call[c].done
                                /\ r.by = n /\ r.phase = "returned"
    BY <1>1, PhaseChange DEF TypeOK, Phases
  <1>. QED
    BY <1>1, <1>2, <1>5, <1>7, <1>8, CallStep

LEMMA SendStartStep ==
    ASSUME SetupInv, NEW c \in Calls, Calls = {c}, SendStart(c)
    PROVE  SetupInv'
  <1>1. TypeOK /\ UNCHANGED <<saved, handler, crashes>> /\ call[c].phase = "keys"
        /\ call' = [call EXCEPT ![c].phase = "start"]
        /\ stream' = [stream EXCEPT ![c] = [m \in Nodes |-> [stream[c][m] EXCEPT !.start = TRUE]]]
    BY DEF SendStart, SetupInv, TypeOK, StreamsOK
  <1>2. PICK r \in SetupCalls : /\ call' = [call EXCEPT ![c] = r] /\ r.done = call[c].done
                                /\ r.by = call[c].by /\ r.phase = "start"
    BY <1>1, PhaseChange DEF TypeOK, Phases
  <1>3. CallsOK' /\ call'[c] = r
    BY <1>1, <1>2, PutCall DEF TypeOK
  <1>4. /\ StreamsOK'
        /\ \A m \in Nodes : /\ stream'[c][m].pc = stream[c][m].pc
                            /\ stream'[c][m].key = stream[c][m].key
                            /\ stream'[c][m].sent = stream[c][m].sent
                            /\ stream'[c][m].at = stream[c][m].at
    <2>. DEFINE f == [m \in Nodes |-> [stream[c][m] EXCEPT !.start = TRUE]]
    <2>1. ASSUME NEW m \in Nodes
          PROVE  /\ f[m] \in Streams /\ f[m].pc = stream[c][m].pc /\ f[m].at = stream[c][m].at
                 /\ f[m].key = stream[c][m].key /\ f[m].sent = stream[c][m].sent
      <3>1. stream[c][m] \in Streams
        BY <1>1 DEF TypeOK, StreamsOK
      <3>. QED BY <3>1 DEF Streams
    <2>2. f \in [Nodes -> Streams]
      BY <2>1
    <2>3. StreamsOK' /\ stream'[c] = f
      BY <1>1, <2>2, PutStreams DEF TypeOK
    <2>. HIDE DEF f
    <2>. QED BY <2>1, <2>3
  <1>5. TypeOK'
    BY <1>1, <1>2, <1>3, <1>4 DEF TypeOK, HandlersOK, SavedOK, ActorsOK
  <1>6. StartInv'
    BY <1>1, <1>2, <1>3, <1>4 DEF SetupInv, StartInv
  <1>7. ReturnInv' /\ SavedTogether'
    BY <1>1, <1>2, <1>3 DEF SetupInv, ReturnInv, SavedTogether
  <1>. QED
    BY <1>1, <1>2, <1>3, <1>4, <1>5, <1>6, <1>7, QuietStep, SameHandlers

-----------------------------------------------------------------------------
(* Steps of the streams and of their goroutines. *)

\* A step of the stream of the only call on node n, which ends there as r.
LEMMA GoroutineStep ==
    ASSUME SetupInv, NEW c \in Calls, Calls = {c}, NEW n \in Nodes, NEW r \in Streams,
           StreamsOK', stream'[c][n] = r, SameOthers(c, n),
           HandlersOK', \A m \in Nodes : handler'[m] = None <=> handler[m] = None,
           \A m \in Nodes \ {n} : handler'[m] = handler[m],
           SavedOK', SavedTogether', \A m \in Nodes : saved'[m] = None <=> saved[m] = None,
           CallsOK', call'[c].phase = call[c].phase, call'[c].by = call[c].by,
           call[c].done \subseteq call'[c].done, UNCHANGED crashes,
           saved[n] # None \/ (r.at # "open" /\ r.pc \in {"none", "ended"} /\ ~r.sent),
           call[c].phase \in {"unused", "keys"} =>
               ~r.start /\ ~r.sent /\ r.pc \in {"none", "ended"},
           r.start => ~r.sent /\ r.pc \in {"none", "ended"},
           r.at = "none" => r.pc \in {"none", "ended"},
           stream[c][n].sent => r.sent,
           NodeInv(c, n)', n \in Without(c)' => n \in Without(c)
    PROVE  SetupInv'
  <1>1. ActorsOK'
    <2>1. \A m \in Nodes : handler'[m] = None <=> saved'[m] = None
      BY DEF SetupInv, TypeOK, ActorsOK
    <2>2. ASSUME NEW m \in Nodes, saved'[m] = None
          PROVE  /\ stream'[c][m].at # "open"
                 /\ stream'[c][m].pc \in {"none", "ended"}
                 /\ ~stream'[c][m].sent
      <3>1. CASE m = n
        BY <2>2, <3>1
      <3>2. CASE m # n
        BY <2>2, <3>2 DEF SetupInv, TypeOK, ActorsOK, SameOthers
      <3>. QED BY <3>1, <3>2
    <2>3. call'[c].phase # "unused" => call'[c].by \in Nodes /\ saved'[call'[c].by] # None
      BY DEF SetupInv, TypeOK, ActorsOK
    <2>. QED BY <2>1, <2>2, <2>3 DEF ActorsOK
  <1>2. TypeOK'
    BY <1>1 DEF SetupInv, TypeOK
  <1>3. StartInv'
    <2>. SUFFICES ASSUME NEW m \in Nodes
                  PROVE  /\ call'[c].phase \in {"unused", "keys"} =>
                               /\ ~stream'[c][m].start /\ ~stream'[c][m].sent
                               /\ stream'[c][m].pc \in {"none", "ended"}
                         /\ stream'[c][m].start =>
                               ~stream'[c][m].sent /\ stream'[c][m].pc \in {"none", "ended"}
                         /\ stream'[c][m].at = "none" => stream'[c][m].pc \in {"none", "ended"}
      BY DEF StartInv
    <2>1. CASE m = n
      BY <2>1
    <2>2. CASE m # n
      BY <2>2 DEF SetupInv, StartInv, SameOthers
    <2>. QED BY <2>1, <2>2
  <1>4. ReturnInv'
    BY DEF SetupInv, ReturnInv, allDone, SameOthers
  <1>. QED
    BY <1>2, <1>3, <1>4, OneNodeStep DEF SameOthers

\* What is known where a goroutine takes a step.
LEMMA AtPoint ==
    ASSUME SetupInv, NEW c \in Calls, NEW n \in Nodes, stream[c][n].pc \notin {"none", "ended"}
    PROVE  /\ saved[n] # None /\ handler[n] # None /\ handler[n] \in Handlers
           /\ stream[c][n].at # "none" /\ ~stream[c][n].start
           /\ call[c].phase \notin {"unused", "keys"}
           /\ stream[c][n].pc # "save" => ~stream[c][n].sent
  <1>1. saved[n] # None
    BY DEF SetupInv, TypeOK, ActorsOK
  <1>2. handler[n] # None /\ handler[n] \in Handlers
    BY <1>1, StoredOfActor DEF SetupInv
  <1>. QED
    BY <1>1, <1>2 DEF SetupInv, StartInv, SentInv

LEMMA StreamType ==
    ASSUME SetupInv, NEW c \in Calls, NEW n \in Nodes
    PROVE  /\ stream[c][n] \in Streams /\ stream[c] \in [Nodes -> Streams]
           /\ SavedOK /\ HandlersOK /\ StreamsOK /\ CallsOK /\ crashes \in Nat
           /\ SavedTogether /\ NodeInv(c, n)
  BY DEF SetupInv, TypeOK, StreamsOK, KeyInv, SentInv, NodeInv

\* Only the stream of s on n changes.
LEMMA OneStream ==
    ASSUME StreamsOK, NEW s \in Calls, NEW n \in Nodes, NEW r \in Streams,
           stream' = [stream EXCEPT ![s][n] = r]
    PROVE  StreamsOK' /\ stream'[s][n] = r /\ SameOthers(s, n)
  <1>1. /\ StreamsOK'
        /\ stream'[s][n] = r
        /\ \A q \in Calls, m \in Nodes : q # s \/ m # n => stream'[q][m] = stream[q][m]
    BY DEF StreamsOK
  <1>2. SameOthers(s, n)
    BY <1>1 DEF SameOthers
  <1>. QED BY <1>1, <1>2

LEMMA OpenStep ==
    ASSUME SetupInv, NEW c \in Calls, Calls = {c}, NEW n \in Nodes, Open(c, n)
    PROVE  SetupInv'
  <1>0. UNCHANGED <<saved, call, crashes>> /\ stream[c][n].at = "none" /\ call[c].phase = "keys"
    BY DEF Open
  <1>1. /\ stream[c][n] \in Streams /\ stream[c] \in [Nodes -> Streams]
        /\ SavedOK /\ HandlersOK /\ StreamsOK /\ CallsOK /\ SavedTogether /\ NodeInv(c, n)
    BY StreamType
  <1>2. ~stream[c][n].start /\ ~stream[c][n].sent /\ stream[c][n].pc \in {"none", "ended"}
    BY <1>0 DEF SetupInv, StartInv
  <1>3. PICK r \in Streams :
            /\ stream' = [stream EXCEPT ![c][n] = r]
            /\ r.pc = stream[c][n].pc /\ r.key = stream[c][n].key /\ r.sent = stream[c][n].sent
            /\ r.start = stream[c][n].start
            /\ r.at = "closed" \/ (r.at = "open" /\ handler[n] # None)
    <2>1. CASE handler[n] # None /\ accept(handler[n])
      <3>1. (~Done(handler[n])) \in BOOLEAN
        BY Zenon
      <3>2. PICK b \in BOOLEAN : b = ~Done(handler[n])
        BY <3>1
      <3>. DEFINE new == [stream[c][n] EXCEPT !.at = "open", !.answered = TRUE, !.first = b]
      <3>3. stream' = [stream EXCEPT ![c][n].at = "open", ![c][n].answered = TRUE,
                                     ![c][n].first = b]
        BY <2>1, <3>2 DEF Open
      <3>4. /\ new \in Streams /\ new.pc = stream[c][n].pc /\ new.key = stream[c][n].key
            /\ new.sent = stream[c][n].sent /\ new.start = stream[c][n].start /\ new.at = "open"
        BY <1>1 DEF Streams
      <3>5. stream' = [stream EXCEPT ![c][n] = new]
        BY <1>1, <3>3 DEF StreamsOK
      <3>. HIDE DEF new
      <3>. QED BY <2>1, <3>4, <3>5
    <2>2. CASE ~(handler[n] # None /\ accept(handler[n]))
      <3>. DEFINE new == [stream[c][n] EXCEPT !.at = "closed"]
      <3>1. stream' = [stream EXCEPT ![c][n].at = "closed"]
        BY <2>2 DEF Open
      <3>2. /\ new \in Streams /\ new.pc = stream[c][n].pc /\ new.key = stream[c][n].key
            /\ new.sent = stream[c][n].sent /\ new.start = stream[c][n].start /\ new.at = "closed"
        BY <1>1 DEF Streams
      <3>3. stream' = [stream EXCEPT ![c][n] = new]
        BY <1>1, <3>1 DEF StreamsOK
      <3>. HIDE DEF new
      <3>. QED BY <3>2, <3>3
    <2>. QED BY <2>1, <2>2
  <1>4. /\ HandlersOK' /\ SameKeys
        /\ \A m \in Nodes \ {n} : handler'[m] = handler[m]
    <2>1. CASE handler[n] # None /\ accept(handler[n])
      <3>0. handler[n] \in Handlers
        BY <1>1, <2>1 DEF HandlersOK
      <3>1. (handler[n].running \/ ~Done(handler[n])) \in BOOLEAN
        BY Zenon
      <3>2. PICK b \in BOOLEAN : b = (handler[n].running \/ ~Done(handler[n]))
        BY <3>1
      <3>. DEFINE new == [handler[n] EXCEPT !.running = b]
      <3>3. handler' = [handler EXCEPT ![n].running = b]
        BY <2>1, <3>2 DEF Open
      <3>4. /\ new \in Handlers /\ new.distKey = handler[n].distKey
            /\ new.privShare = handler[n].privShare
        BY <3>0 DEF Handlers
      <3>5. handler' = [handler EXCEPT ![n] = new]
        BY <1>1, <3>0, <3>3 DEF HandlersOK
      <3>6. PICK h \in Handlers : h = new
        BY <3>4
      <3>. HIDE DEF new
      <3>. QED BY <1>1, <2>1, <3>4, <3>5, <3>6, TouchHandler, PutHandler
    <2>2. CASE ~(handler[n] # None /\ accept(handler[n]))
      <3>1. UNCHANGED handler
        BY <2>2 DEF Open
      <3>. QED BY <1>1, <3>1, SameHandlers DEF HandlersOK
    <2>. QED BY <2>1, <2>2
  <1>5. StreamsOK' /\ stream'[c][n] = r /\ SameOthers(c, n)
    BY <1>1, <1>3, OneStream
  <1>6. saved[n] # None \/ (handler[n] = None /\ ~stream[c][n].sent)
    BY DEF SetupInv, TypeOK, ActorsOK
  <1>7. NodeInv(c, n)' /\ (n \in Without(c)' => n \in Without(c))
    <2>1. stream[c][n].sent => handler[n] # None
      BY <1>6 DEF SetupInv, TypeOK, ActorsOK
    <2>. QED
      BY <1>0, <1>1, <1>3, <1>4, <1>5, <2>1 DEF NodeInv, SameKeys, Without
  <1>8. SavedOK' /\ SavedTogether' /\ CallsOK'
    BY <1>0, <1>1 DEF SavedOK, SavedTogether, CallsOK
  <1>9. \A m \in Nodes : handler'[m] = None <=> handler[m] = None
    BY <1>4 DEF SameKeys
  <1>. QED
    BY <1>0, <1>2, <1>3, <1>4, <1>5, <1>6, <1>7, <1>8, <1>9, GoroutineStep

\* The stream changes in other respects than its goroutine, which goes on
\* with the same key.
LEMMA SamePoint ==
    ASSUME SetupInv, NEW c \in Calls, Calls = {c}, NEW n \in Nodes, NEW r \in Streams,
           StreamsOK', stream'[c][n] = r, SameOthers(c, n), HandlersOK', SameKeys,
           \A m \in Nodes \ {n} : handler'[m] = handler[m],
           UNCHANGED <<saved, call, crashes>>, saved[n] # None,
           r.pc = stream[c][n].pc, r.key = stream[c][n].key, r.sent = stream[c][n].sent,
           r.start = stream[c][n].start, r.at # "none"
    PROVE  SetupInv'
  <1>1. SavedOK' /\ SavedTogether' /\ CallsOK'
    BY DEF SetupInv, TypeOK, SavedOK, SavedTogether, CallsOK
  <1>2. /\ call[c].phase \in {"unused", "keys"} =>
              ~r.start /\ ~r.sent /\ r.pc \in {"none", "ended"}
        /\ r.start => ~r.sent /\ r.pc \in {"none", "ended"}
    BY DEF SetupInv, StartInv
  <1>3. handler[n] # None /\ (\A m \in Nodes : handler'[m] = None <=> handler[m] = None)
    BY StoredOfActor DEF SameKeys, SetupInv
  <1>4. NodeInv(c, n)' /\ (n \in Without(c)' => n \in Without(c))
    BY <1>3, StreamType DEF NodeInv, SameKeys, Without
  <1>. QED
    BY <1>1, <1>2, <1>3, <1>4, GoroutineStep

\* The goroutine goes from one point to another, neither of which is between
\* the key and the share, and has not answered yet.
LEMMA NextPoint ==
    ASSUME SetupInv, NEW c \in Calls, Calls = {c}, NEW n \in Nodes, NEW r \in Streams,
           StreamsOK', stream'[c][n] = r, SameOthers(c, n), HandlersOK', SameKeys,
           \A m \in Nodes \ {n} : handler'[m] = handler[m],
           UNCHANGED <<saved, call, crashes>>, saved[n] # None,
           call[c].phase \notin {"unused", "keys"},
           stream[c][n].pc # "share", r.pc \in {"deal", "respond"}, ~stream[c][n].sent,
           r.sent = stream[c][n].sent, ~r.start, r.at # "none"
    PROVE  SetupInv'
  <1>1. SavedOK' /\ SavedTogether' /\ CallsOK'
    BY DEF SetupInv, TypeOK, SavedOK, SavedTogether, CallsOK
  <1>2. handler[n] # None /\ (\A m \in Nodes : handler'[m] = None <=> handler[m] = None)
    BY StoredOfActor DEF SameKeys, SetupInv
  <1>3. NodeInv(c, n)' /\ n \notin Without(c)'
    BY <1>2, StreamType DEF NodeInv, SameKeys, Without
  <1>. QED
    BY <1>1, <1>2, <1>3, GoroutineStep

\* How a handler changes in other fields than its key and its share.
LEMMA HandlerChange ==
    ASSUME HandlersOK, NEW n \in Nodes, handler[n] # None, NEW h,
           h \in Handlers, h.distKey = handler[n].distKey, h.privShare = handler[n].privShare,
           handler' = [handler EXCEPT ![n] = h]
    PROVE  HandlersOK' /\ SameKeys /\ \A m \in Nodes \ {n} : handler'[m] = handler[m]
  <1>1. HandlersOK' /\ SameKeys
    BY TouchHandler
  <1>. QED BY <1>1 DEF HandlersOK

LEMMA EndStreamStep ==
    ASSUME SetupInv, NEW c \in Calls, Calls = {c}, NEW n \in Nodes, EndStream(c, n)
    PROVE  SetupInv'
  <1>0. /\ UNCHANGED <<saved, call, crashes>> /\ stream[c][n].at = "open"
        /\ stream' = [stream EXCEPT ![c][n].at = "closed"]
        /\ handler' = [handler EXCEPT ![n] = stopsRunning(handler[n], stream[c][n].first)]
    BY StreamType DEF EndStream, HandlersOK
  <1>1. stream[c][n] \in Streams /\ HandlersOK /\ StreamsOK
    BY StreamType
  <1>2. saved[n] # None
    BY <1>0 DEF SetupInv, TypeOK, ActorsOK
  <1>3. handler[n] # None /\ handler[n] \in Handlers
    BY <1>2, StoredOfActor DEF SetupInv
  <1>4. PICK h \in Handlers : /\ h.distKey = handler[n].distKey
                              /\ h.privShare = handler[n].privShare
                              /\ handler' = [handler EXCEPT ![n] = h]
    <2>. DEFINE new == stopsRunning(handler[n], stream[c][n].first)
    <2>1. /\ new \in Handlers /\ new.distKey = handler[n].distKey
          /\ new.privShare = handler[n].privShare
      BY <1>3 DEF Handlers, stopsRunning
    <2>. HIDE DEF new
    <2>. QED BY <1>0, <2>1 DEF new
  <1>5. HandlersOK' /\ SameKeys /\ (\A m \in Nodes \ {n} : handler'[m] = handler[m])
    BY <1>1, <1>3, <1>4, HandlerChange
  <1>6. PICK r \in Streams :
            /\ stream' = [stream EXCEPT ![c][n] = r]
            /\ r.pc = stream[c][n].pc /\ r.key = stream[c][n].key /\ r.sent = stream[c][n].sent
            /\ r.start = stream[c][n].start /\ r.at = "closed"
    <2>. DEFINE new == [stream[c][n] EXCEPT !.at = "closed"]
    <2>1. /\ new \in Streams /\ new.pc = stream[c][n].pc /\ new.key = stream[c][n].key
          /\ new.sent = stream[c][n].sent /\ new.start = stream[c][n].start /\ new.at = "closed"
      BY <1>1 DEF Streams
    <2>2. stream' = [stream EXCEPT ![c][n] = new]
      BY <1>0, <1>1 DEF StreamsOK
    <2>. HIDE DEF new
    <2>. QED BY <2>1, <2>2
  <1>7. StreamsOK' /\ stream'[c][n] = r /\ SameOthers(c, n)
    BY <1>1, <1>6, OneStream
  <1>. QED
    BY <1>0, <1>2, <1>5, <1>6, <1>7, SamePoint

LEMMA StartStep ==
    ASSUME SetupInv, NEW c \in Calls, Calls = {c}, NEW n \in Nodes, start(c, n)
    PROVE  SetupInv'
  <1>0. /\ UNCHANGED <<saved, call, crashes>> /\ stream[c][n].at = "open" /\ stream[c][n].start
        /\ stream' = [stream EXCEPT ![c][n].start = FALSE, ![c][n].pc = "deal"]
        /\ handler' = [handler EXCEPT ![n].dkg = c, ![n].deals = NoDeals, ![n].approved = {},
                                      ![n].status = "Ongoing"]
    BY DEF start
  <1>1. stream[c][n] \in Streams /\ HandlersOK /\ StreamsOK
    BY StreamType
  <1>2. saved[n] # None
    BY <1>0 DEF SetupInv, TypeOK, ActorsOK
  <1>3. handler[n] # None /\ handler[n] \in Handlers
    BY <1>2, StoredOfActor DEF SetupInv
  <1>4. PICK h \in Handlers : /\ h.distKey = handler[n].distKey
                              /\ h.privShare = handler[n].privShare
                              /\ handler' = [handler EXCEPT ![n] = h]
    <2>. DEFINE new == [handler[n] EXCEPT !.dkg = c, !.deals = NoDeals, !.approved = {},
                                          !.status = "Ongoing"]
    <2>0. NoDeals \in [Nodes -> Generators] /\ c \in Generators
      BY DEF NoDeals, Generators
    <2>1. /\ new \in Handlers /\ new.distKey = handler[n].distKey
          /\ new.privShare = handler[n].privShare
      BY <1>3, <2>0 DEF Handlers
    <2>2. handler' = [handler EXCEPT ![n] = new]
      BY <1>0, <1>1, <1>3 DEF HandlersOK
    <2>. HIDE DEF new
    <2>. QED BY <2>1, <2>2
  <1>5. HandlersOK' /\ SameKeys /\ (\A m \in Nodes \ {n} : handler'[m] = handler[m])
    BY <1>1, <1>3, <1>4, HandlerChange
  <1>6. PICK r \in Streams :
            /\ stream' = [stream EXCEPT ![c][n] = r]
            /\ r.pc = "deal" /\ r.sent = stream[c][n].sent
            /\ ~r.start /\ r.at = "open"
    <2>. DEFINE new == [stream[c][n] EXCEPT !.start = FALSE, !.pc = "deal"]
    <2>1. /\ new \in Streams /\ new.pc = "deal"
          /\ new.sent = stream[c][n].sent /\ ~new.start /\ new.at = "open"
      BY <1>0, <1>1 DEF Streams, Points
    <2>2. stream' = [stream EXCEPT ![c][n] = new]
      BY <1>0, <1>1 DEF StreamsOK
    <2>. HIDE DEF new
    <2>. QED BY <2>1, <2>2
  <1>7. StreamsOK' /\ stream'[c][n] = r /\ SameOthers(c, n)
    BY <1>1, <1>6, OneStream
  <1>8. /\ call[c].phase \notin {"unused", "keys"} /\ ~stream[c][n].sent
        /\ stream[c][n].pc # "share"
    BY <1>0 DEF SetupInv, StartInv
  <1>. QED
    BY <1>0, <1>2, <1>5, <1>6, <1>7, <1>8, NextPoint

\* A goroutine sends to the others: their lists change, and its own stream.
LEMMA ManyStreams ==
    ASSUME StreamsOK, NEW s \in Calls, NEW n \in Nodes, NEW f,
           \A m \in Nodes : f[m] \in Streams, f = [m \in Nodes |-> f[m]],
           \A m \in Nodes \ {n} :
               /\ f[m].pc = stream[s][m].pc /\ f[m].key = stream[s][m].key
               /\ f[m].sent = stream[s][m].sent /\ f[m].start = stream[s][m].start
               /\ f[m].at = stream[s][m].at,
           stream' = [stream EXCEPT ![s] = f]
    PROVE  StreamsOK' /\ stream'[s][n] = f[n] /\ SameOthers(s, n)
  <1>1. f \in [Nodes -> Streams]
    OBVIOUS
  <1>2. StreamsOK' /\ stream'[s] = f /\ \A q \in Calls : q # s => stream'[q] = stream[q]
    BY <1>1, PutStreams
  <1>3. SameOthers(s, n)
    BY <1>2 DEF SameOthers
  <1>. QED BY <1>2, <1>3

LEMMA DealStep ==
    ASSUME SetupInv, NEW c \in Calls, Calls = {c}, NEW n \in Nodes, deal(c, n)
    PROVE  SetupInv'
  <1>. DEFINE f == [m \in Nodes |->
                      IF m = n THEN [stream[c][m] EXCEPT !.pc = "respond"]
                      ELSE IF stream[c][m].at = "open"
                      THEN putDeal(stream[c][m], [from |-> n, of |-> handler[n].dkg])
                      ELSE stream[c][m]]
  <1>0. UNCHANGED <<saved, call, crashes>> /\ stream[c][n].pc = "deal"
    BY DEF deal, at
  <1>1. stream[c][n] \in Streams /\ HandlersOK /\ StreamsOK
    BY StreamType
  <1>2. stream' = [stream EXCEPT ![c] = f]
    BY DEF deal
  <1>3. /\ saved[n] # None /\ handler[n] # None /\ handler[n] \in Handlers
        /\ stream[c][n].at # "none" /\ ~stream[c][n].start
        /\ call[c].phase \notin {"unused", "keys"} /\ ~stream[c][n].sent
    BY <1>0, AtPoint
  <1>4. PICK h \in Handlers : /\ h.distKey = handler[n].distKey
                              /\ h.privShare = handler[n].privShare
                              /\ handler' = [handler EXCEPT ![n] = h]
    <2>. DEFINE list == [handler[n].deals EXCEPT ![n] = handler[n].dkg]
                new == [handler[n] EXCEPT !.deals = list, !.status = "Ongoing"]
    <2>0. list \in [Nodes -> Generators]
      BY <1>3 DEF Handlers
    <2>1. handler' = [handler EXCEPT ![n] = new]
      BY <1>1, <1>3 DEF deal, HandlersOK, Handlers
    <2>. HIDE DEF list
    <2>2. /\ new \in Handlers /\ new.distKey = handler[n].distKey
          /\ new.privShare = handler[n].privShare
      BY <1>3, <2>0 DEF Handlers
    <2>. HIDE DEF new
    <2>. QED BY <2>1, <2>2
  <1>5. HandlersOK' /\ SameKeys /\ (\A m \in Nodes \ {n} : handler'[m] = handler[m])
    BY <1>1, <1>3, <1>4, HandlerChange
  <1>6. ASSUME NEW m \in Nodes
        PROVE  /\ f[m] \in Streams
               /\ f[m].key = stream[c][m].key /\ f[m].sent = stream[c][m].sent
               /\ f[m].start = stream[c][m].start /\ f[m].at = stream[c][m].at
               /\ f[m].pc = IF m = n THEN "respond" ELSE stream[c][m].pc
    <2>1. stream[c][m] \in Streams
      BY <1>1 DEF StreamsOK
    <2>2. [from |-> n, of |-> handler[n].dkg] \in Deals
      BY <1>3 DEF Deals, Handlers
    <2>. QED BY <2>1, <2>2 DEF Streams, Points, putDeal
  <1>7. f = [m \in Nodes |-> f[m]]
    OBVIOUS
  <1>. HIDE DEF f
  <1>8. StreamsOK' /\ stream'[c][n] = f[n] /\ SameOthers(c, n)
    <2>1. PICK g : g = f
      OBVIOUS
    <2>. QED BY <1>1, <1>2, <1>6, <1>7, <2>1, ManyStreams
  <1>9. PICK r \in Streams : r = stream'[c][n]
    BY <1>6, <1>8
  <1>10. /\ r.pc = "respond" /\ r.sent = stream[c][n].sent /\ ~r.start /\ r.at # "none"
    BY <1>3, <1>6, <1>8, <1>9
  <1>. QED
    BY <1>0, <1>3, <1>5, <1>8, <1>9, <1>10, NextPoint

LEMMA HandleDealStep ==
    ASSUME SetupInv, NEW c \in Calls, Calls = {c}, NEW n \in Nodes,
           NEW d \in stream[c][n].deals, handleDeal(c, n, d)
    PROVE  SetupInv'
  <1>. DEFINE resp == [dealer |-> d.from, verifier |-> n, of |-> d.of]
  <1>1. stream[c][n] \in Streams /\ HandlersOK /\ StreamsOK
    BY StreamType
  <1>2. PICK taken \in BOOLEAN, to \in SUBSET Nodes :
            /\ handler' = IF taken THEN [handler EXCEPT ![n].deals[d.from] = d.of] ELSE handler
            /\ stream' = [stream EXCEPT ![c] =
                   [m \in Nodes |->
                      IF m = n THEN takeDeal(stream[c][m], d)
                      ELSE IF m \in to THEN putResponse(stream[c][m], resp)
                      ELSE stream[c][m]]]
    BY DEF handleDeal
  <1>. DEFINE f == [m \in Nodes |->
                      IF m = n THEN takeDeal(stream[c][m], d)
                      ELSE IF m \in to THEN putResponse(stream[c][m], resp)
                      ELSE stream[c][m]]
  <1>0. UNCHANGED <<saved, call, crashes>> /\ stream[c][n].pc = "respond"
    BY DEF handleDeal, at
  <1>3. /\ saved[n] # None /\ handler[n] # None /\ handler[n] \in Handlers
        /\ stream[c][n].at # "none"
    BY <1>0, AtPoint
  <1>4. d \in Deals /\ d.from \in Nodes /\ d.of \in Generators
    BY <1>1 DEF Streams, Deals
  <1>5. HandlersOK' /\ SameKeys /\ (\A m \in Nodes \ {n} : handler'[m] = handler[m])
    <2>1. CASE taken
      <3>. DEFINE list == [handler[n].deals EXCEPT ![d.from] = d.of]
                  new == [handler[n] EXCEPT !.deals = list]
      <3>0. list \in [Nodes -> Generators]
        BY <1>3, <1>4 DEF Handlers
      <3>1. handler' = [handler EXCEPT ![n] = new]
        BY <1>1, <1>2, <1>3, <2>1 DEF HandlersOK, Handlers
      <3>. HIDE DEF list
      <3>2. /\ new \in Handlers /\ new.distKey = handler[n].distKey
            /\ new.privShare = handler[n].privShare
        BY <1>3, <3>0 DEF Handlers
      <3>3. PICK h \in Handlers : h = new
        BY <3>2
      <3>. HIDE DEF new
      <3>. QED BY <1>1, <1>3, <3>1, <3>2, <3>3, HandlerChange
    <2>2. CASE ~taken
      <3>1. UNCHANGED handler
        BY <1>2, <2>2
      <3>. QED BY <1>1, <3>1, SameHandlers DEF HandlersOK
    <2>. QED BY <2>1, <2>2
  <1>6. ASSUME NEW m \in Nodes
        PROVE  /\ f[m] \in Streams
               /\ f[m].key = stream[c][m].key /\ f[m].sent = stream[c][m].sent
               /\ f[m].start = stream[c][m].start /\ f[m].at = stream[c][m].at
               /\ f[m].pc = stream[c][m].pc
    <2>1. stream[c][m] \in Streams
      BY <1>1 DEF StreamsOK
    <2>2. resp \in Responses
      BY <1>4 DEF Responses
    <2>. HIDE DEF resp
    <2>3. ASSUME NEW r \in {takeDeal(stream[c][m], d), putResponse(stream[c][m], resp)}
          PROVE  /\ r \in Streams
                 /\ r.key = stream[c][m].key /\ r.sent = stream[c][m].sent
                 /\ r.start = stream[c][m].start /\ r.at = stream[c][m].at
                 /\ r.pc = stream[c][m].pc
      <3>1. CASE r = takeDeal(stream[c][m], d)
        <4>1. /\ stream[c][m].received + 1 \in Nat
              /\ stream[c][m].deals \ {d} \in SUBSET Deals
          BY <2>1 DEF Streams
        <4>2. PICK k \in Nat, ds \in SUBSET Deals : 
                  r = [stream[c][m] EXCEPT !.deals = ds, !.received = k]
          BY <3>1, <4>1 DEF takeDeal
        <4>. QED BY <2>1, <4>2 DEF Streams
      <3>2. CASE r = putResponse(stream[c][m], resp)
        BY <2>1, <2>2, <3>2 DEF Streams, putResponse
      <3>. QED BY <2>3, <3>1, <3>2
    <2>. QED BY <2>1, <2>3
  <1>7. stream' = [stream EXCEPT ![c] = f] /\ f = [m \in Nodes |-> f[m]]
    BY <1>2
  <1>. HIDE DEF f
  <1>8. StreamsOK' /\ stream'[c][n] = f[n] /\ SameOthers(c, n)
    <2>1. PICK g : g = f
      OBVIOUS
    <2>. QED BY <1>1, <1>6, <1>7, <2>1, ManyStreams
  <1>9. PICK r \in Streams : r = stream'[c][n]
    BY <1>6, <1>8
  <1>10. /\ r.pc = stream[c][n].pc /\ r.key = stream[c][n].key /\ r.sent = stream[c][n].sent
         /\ r.start = stream[c][n].start /\ r.at # "none"
    BY <1>3, <1>6, <1>8, <1>9
  <1>. QED
    BY <1>0, <1>3, <1>5, <1>8, <1>9, <1>10, SamePoint

LEMMA CertifyStep ==
    ASSUME SetupInv, NEW c \in Calls, Calls = {c}, NEW n \in Nodes, certify(c, n)
    PROVE  SetupInv'
  <1>0. /\ UNCHANGED <<saved, call, crashes>> /\ stream[c][n].pc = "respond"
        /\ stream' = [stream EXCEPT ![c][n].responses = {}]
    BY DEF certify, at
  <1>1. stream[c][n] \in Streams /\ HandlersOK /\ StreamsOK
    BY StreamType
  <1>2. /\ saved[n] # None /\ handler[n] # None /\ handler[n] \in Handlers
        /\ stream[c][n].at # "none"
    BY <1>0, AtPoint
  <1>3. PICK h \in Handlers : /\ h.distKey = handler[n].distKey
                              /\ h.privShare = handler[n].privShare
                              /\ handler' = [handler EXCEPT ![n] = h]
    <2>. DEFINE more == {<<r.dealer, r.verifier>> :
                           r \in {q \in stream[c][n].responses :
                                     q.of = handler[n].deals[q.dealer]}}
                new == [handler[n] EXCEPT !.status = "Ongoing",
                                          !.approved = handler[n].approved \cup more]
    <2>0. more \subseteq Nodes \X Nodes
      BY <1>1 DEF Streams, Responses
    <2>1. handler' = [handler EXCEPT ![n] = new]
      BY <1>1, <1>2 DEF certify, HandlersOK, Handlers
    <2>. HIDE DEF more
    <2>2. /\ new \in Handlers /\ new.distKey = handler[n].distKey
          /\ new.privShare = handler[n].privShare
      BY <1>2, <2>0 DEF Handlers
    <2>. HIDE DEF new
    <2>. QED BY <2>1, <2>2
  <1>4. HandlersOK' /\ SameKeys /\ (\A m \in Nodes \ {n} : handler'[m] = handler[m])
    BY <1>1, <1>2, <1>3, HandlerChange
  <1>5. PICK r \in Streams :
            /\ stream' = [stream EXCEPT ![c][n] = r]
            /\ r.pc = stream[c][n].pc /\ r.key = stream[c][n].key /\ r.sent = stream[c][n].sent
            /\ r.start = stream[c][n].start /\ r.at = stream[c][n].at
    <2>. DEFINE new == [stream[c][n] EXCEPT !.responses = {}]
    <2>1. /\ new \in Streams /\ new.pc = stream[c][n].pc /\ new.key = stream[c][n].key
          /\ new.sent = stream[c][n].sent /\ new.start = stream[c][n].start
          /\ new.at = stream[c][n].at
      BY <1>1 DEF Streams
    <2>2. stream' = [stream EXCEPT ![c][n] = new]
      BY <1>0, <1>1 DEF StreamsOK
    <2>. HIDE DEF new
    <2>. QED BY <2>1, <2>2
  <1>6. StreamsOK' /\ stream'[c][n] = r /\ SameOthers(c, n)
    BY <1>1, <1>5, OneStream
  <1>. QED
    BY <1>0, <1>2, <1>4, <1>5, <1>6, SamePoint

\* The key is set, and for a moment the share is not the share of that key.
LEMMA SetDistKeyStep ==
    ASSUME SetupInv, NEW c \in Calls, Calls = {c}, NEW n \in Nodes, SetDistKey(c, n)
    PROVE  SetupInv'
  <1>0. /\ UNCHANGED <<saved, call, crashes>> /\ stream[c][n].pc = "respond"
        /\ stream' = [stream EXCEPT ![c][n].pc = "share", ![c][n].key = handler[n].deals]
        /\ handler' = [handler EXCEPT ![n].distKey = handler[n].deals, ![n].status = "Ongoing"]
    BY DEF SetDistKey, at
  <1>1. /\ stream[c][n] \in Streams /\ HandlersOK /\ StreamsOK
        /\ SavedOK /\ CallsOK /\ SavedTogether
    BY StreamType
  <1>2. /\ saved[n] # None /\ handler[n] # None /\ handler[n] \in Handlers
        /\ stream[c][n].at # "none" /\ ~stream[c][n].start
        /\ call[c].phase \notin {"unused", "keys"} /\ ~stream[c][n].sent
    BY <1>0, AtPoint
  <1>3. PICK k \in Keys : k = handler[n].deals
    BY <1>2 DEF Handlers, Keys
  <1>4. PICK h \in Handlers : h.distKey = k /\ handler' = [handler EXCEPT ![n] = h]
    <2>. DEFINE new == [handler[n] EXCEPT !.distKey = k, !.status = "Ongoing"]
    <2>1. new \in Handlers /\ new.distKey = k
      BY <1>2, <1>3 DEF Handlers
    <2>2. handler' = [handler EXCEPT ![n] = new]
      BY <1>0, <1>1, <1>2, <1>3 DEF HandlersOK
    <2>. HIDE DEF new
    <2>. QED BY <2>1, <2>2
  <1>5. PICK r \in Streams :
            /\ stream' = [stream EXCEPT ![c][n] = r]
            /\ r.pc = "share" /\ r.key = k /\ r.sent = stream[c][n].sent
            /\ r.start = stream[c][n].start /\ r.at = stream[c][n].at
    <2>. DEFINE new == [stream[c][n] EXCEPT !.pc = "share", !.key = k]
    <2>1. /\ new \in Streams /\ new.pc = "share" /\ new.key = k
          /\ new.sent = stream[c][n].sent /\ new.start = stream[c][n].start
          /\ new.at = stream[c][n].at
      BY <1>1, <1>3 DEF Streams, Points
    <2>2. stream' = [stream EXCEPT ![c][n] = new]
      BY <1>0, <1>1, <1>3 DEF StreamsOK
    <2>. HIDE DEF new
    <2>. QED BY <2>1, <2>2
  <1>6. StreamsOK' /\ stream'[c][n] = r /\ SameOthers(c, n)
    BY <1>1, <1>5, OneStream
  <1>7. /\ HandlersOK' /\ handler'[n] = h /\ h # None
        /\ \A m \in Nodes : m # n => handler'[m] = handler[m]
    BY <1>1, <1>4, PutHandler
  <1>8. NodeInv(c, n)' /\ n \notin Without(c)'
    BY <1>2, <1>4, <1>5, <1>6, <1>7 DEF NodeInv, Without
  <1>9. SavedOK' /\ SavedTogether' /\ CallsOK'
    BY <1>0, <1>1 DEF SavedOK, SavedTogether, CallsOK
  <1>. QED
    BY <1>0, <1>2, <1>5, <1>6, <1>7, <1>8, <1>9, GoroutineStep

LEMMA SetPrivShareStep ==
    ASSUME SetupInv, NEW c \in Calls, Calls = {c}, NEW n \in Nodes, SetPrivShare(c, n)
    PROVE  SetupInv'
  <1>0. /\ UNCHANGED <<saved, call, crashes>> /\ stream[c][n].pc = "share"
        /\ stream' = [stream EXCEPT ![c][n].pc = "reply"]
        /\ handler' = [handler EXCEPT ![n].privShare = stream[c][n].key]
    BY DEF SetPrivShare, at
  <1>1. /\ stream[c][n] \in Streams /\ HandlersOK /\ StreamsOK
        /\ SavedOK /\ CallsOK /\ SavedTogether /\ NodeInv(c, n)
    BY StreamType
  <1>2. /\ saved[n] # None /\ handler[n] # None /\ handler[n] \in Handlers
        /\ stream[c][n].at # "none" /\ ~stream[c][n].start
        /\ call[c].phase \notin {"unused", "keys"} /\ ~stream[c][n].sent
    BY <1>0, AtPoint
  <1>3. handler[n].distKey = stream[c][n].key /\ stream[c][n].key \in Keys
    BY <1>0, <1>1, <1>2 DEF NodeInv, Streams
  <1>4. PICK h \in Handlers : /\ h.distKey = stream[c][n].key /\ h.privShare = stream[c][n].key
                              /\ handler' = [handler EXCEPT ![n] = h]
    <2>. DEFINE new == [handler[n] EXCEPT !.privShare = stream[c][n].key]
    <2>1. new \in Handlers /\ new.distKey = stream[c][n].key /\ new.privShare = stream[c][n].key
      BY <1>2, <1>3 DEF Handlers
    <2>2. handler' = [handler EXCEPT ![n] = new]
      BY <1>0, <1>1, <1>2 DEF HandlersOK
    <2>. HIDE DEF new
    <2>. QED BY <2>1, <2>2
  <1>5. PICK r \in Streams :
            /\ stream' = [stream EXCEPT ![c][n] = r]
            /\ r.pc = "reply" /\ r.key = stream[c][n].key /\ r.sent = stream[c][n].sent
            /\ r.start = stream[c][n].start /\ r.at = stream[c][n].at
    <2>. DEFINE new == [stream[c][n] EXCEPT !.pc = "reply"]
    <2>1. /\ new \in Streams /\ new.pc = "reply" /\ new.key = stream[c][n].key
          /\ new.sent = stream[c][n].sent /\ new.start = stream[c][n].start
          /\ new.at = stream[c][n].at
      BY <1>1 DEF Streams, Points
    <2>2. stream' = [stream EXCEPT ![c][n] = new]
      BY <1>0, <1>1 DEF StreamsOK
    <2>. HIDE DEF new
    <2>. QED BY <2>1, <2>2
  <1>6. StreamsOK' /\ stream'[c][n] = r /\ SameOthers(c, n)
    BY <1>1, <1>5, OneStream
  <1>7. /\ HandlersOK' /\ handler'[n] = h /\ h # None
        /\ \A m \in Nodes : m # n => handler'[m] = handler[m]
    BY <1>1, <1>4, PutHandler
  <1>8. NodeInv(c, n)' /\ n \notin Without(c)'
    BY <1>2, <1>4, <1>5, <1>6, <1>7 DEF NodeInv, Without
  <1>9. SavedOK' /\ SavedTogether' /\ CallsOK'
    BY <1>0, <1>1 DEF SavedOK, SavedTogether, CallsOK
  <1>. QED
    BY <1>0, <1>2, <1>5, <1>6, <1>7, <1>8, <1>9, GoroutineStep

\* A goroutine at its end: it answers, stores or gives up, with the handler as it is.
LEMMA LastPoints ==
    ASSUME SetupInv, NEW c \in Calls, Calls = {c}, NEW n \in Nodes,
           NEW pc \in {"save", "ended"}, NEW sent \in BOOLEAN,
           stream[c][n].pc \in {"reply", "save"}, stream[c][n].sent => sent,
           sent => stream[c][n].key \in call'[c].done,
           sent /\ ~stream[c][n].sent => stream[c][n].pc = "reply",
           stream' = [stream EXCEPT ![c][n].pc = pc, ![c][n].sent = sent],
           UNCHANGED <<handler, crashes>>,
           SavedOK', SavedTogether', \A m \in Nodes : saved'[m] = None <=> saved[m] = None,
           CallsOK', call'[c].phase = call[c].phase, call'[c].by = call[c].by,
           call[c].done \subseteq call'[c].done
    PROVE  SetupInv'
  <1>1. /\ stream[c][n] \in Streams /\ HandlersOK /\ StreamsOK /\ NodeInv(c, n)
    BY StreamType
  <1>2. /\ saved[n] # None /\ handler[n] # None
        /\ stream[c][n].at # "none" /\ ~stream[c][n].start
        /\ call[c].phase \notin {"unused", "keys"}
    BY AtPoint
  <1>3. PICK r \in Streams :
            /\ stream' = [stream EXCEPT ![c][n] = r]
            /\ r.pc = pc /\ r.key = stream[c][n].key /\ r.sent = sent
            /\ r.start = stream[c][n].start /\ r.at = stream[c][n].at
    <2>. DEFINE new == [stream[c][n] EXCEPT !.pc = pc, !.sent = sent]
    <2>1. /\ new \in Streams /\ new.pc = pc /\ new.key = stream[c][n].key
          /\ new.sent = sent /\ new.start = stream[c][n].start
          /\ new.at = stream[c][n].at
      BY <1>1 DEF Streams, Points
    <2>2. stream' = [stream EXCEPT ![c][n] = new]
      BY <1>1 DEF StreamsOK
    <2>. HIDE DEF new
    <2>. QED BY <2>1, <2>2
  <1>4. StreamsOK' /\ stream'[c][n] = r /\ SameOthers(c, n)
    BY <1>1, <1>3, OneStream
  <1>5. HandlersOK'
    BY <1>1 DEF HandlersOK
  <1>6. NodeInv(c, n)'
    BY <1>1, <1>2, <1>3, <1>4 DEF NodeInv
  <1>7. n \in Without(c)' => n \in Without(c)
    <2>1. CASE stream[c][n].sent
      BY <1>3, <1>4, <2>1 DEF Without
    <2>2. CASE ~stream[c][n].sent
      <3>. SUFFICES ASSUME n \in Without(c)' PROVE FALSE
        OBVIOUS
      <3>1. sent /\ stream[c][n].pc = "reply"
        BY <1>3, <1>4, <2>2 DEF Without
      <3>2. /\ handler[n].privShare = stream[c][n].key
            /\ handler[n].distKey = stream[c][n].key
        BY <1>1, <1>2, <3>1 DEF NodeInv
      <3>. QED BY <1>3, <1>4, <3>2 DEF Without
    <2>. QED BY <2>1, <2>2
  <1>. QED
    BY <1>2, <1>3, <1>4, <1>5, <1>6, <1>7, GoroutineStep

LEMMA SendStartDoneStep ==
    ASSUME SetupInv, NEW c \in Calls, Calls = {c}, NEW n \in Nodes, SendStartDone(c, n)
    PROVE  SetupInv'
  <1>0. /\ UNCHANGED <<saved, handler, crashes>> /\ stream[c][n].pc = "reply"
        /\ stream' = [stream EXCEPT ![c][n].pc = "save", ![c][n].sent = TRUE]
    BY DEF SendStartDone, at
  <1>1. stream[c][n] \in Streams /\ SavedOK /\ CallsOK /\ SavedTogether
    BY StreamType
  <1>2. PICK r \in SetupCalls : /\ call' = [call EXCEPT ![c] = r]
                                /\ r.phase = call[c].phase /\ r.by = call[c].by
                                /\ r.done = call[c].done \cup {stream[c][n].key}
    <2>. DEFINE new == [call[c] EXCEPT !.done = call[c].done \cup {stream[c][n].key}]
    <2>1. stream[c][n].key \in Keys /\ call[c] \in SetupCalls
      BY <1>1 DEF Streams, CallsOK
    <2>2. /\ new \in SetupCalls /\ new.phase = call[c].phase /\ new.by = call[c].by
          /\ new.done = call[c].done \cup {stream[c][n].key}
      BY <2>1 DEF SetupCalls
    <2>3. call' = [call EXCEPT ![c] = new]
      BY <1>1, <2>1 DEF SendStartDone, CallsOK
    <2>. HIDE DEF new
    <2>. QED BY <2>2, <2>3
  <1>3. CallsOK' /\ call'[c] = r
    BY <1>1, <1>2, PutCall
  <1>4. SavedOK' /\ SavedTogether'
    BY <1>0, <1>1 DEF SavedOK, SavedTogether
  <1>. QED
    BY <1>0, <1>2, <1>3, <1>4, LastPoints

LEMMA StartDoneLostStep ==
    ASSUME SetupInv, NEW c \in Calls, Calls = {c}, NEW n \in Nodes, StartDoneLost(c, n)
    PROVE  SetupInv'
  <1>0. UNCHANGED <<saved, handler, call, crashes>> /\ stream[c][n].pc = "reply"
    BY DEF StartDoneLost, at
  <1>1. stream[c][n] \in Streams /\ StreamsOK /\ SavedOK /\ CallsOK /\ SavedTogether
    BY StreamType
  <1>2. ~stream[c][n].sent
    BY <1>0, AtPoint
  <1>3. PICK pc \in {"save", "ended"} : stream' = [stream EXCEPT ![c][n].pc = pc]
    BY DEF StartDoneLost
  <1>4. stream' = [stream EXCEPT ![c][n].pc = pc, ![c][n].sent = FALSE]
    BY <1>1, <1>2, <1>3 DEF StreamsOK, Streams
  <1>5. SavedOK' /\ SavedTogether' /\ CallsOK'
    BY <1>0, <1>1 DEF SavedOK, SavedTogether, CallsOK
  <1>. QED
    BY <1>0, <1>2, <1>4, <1>5, LastPoints

LEMMA SaveStep ==
    ASSUME SetupInv, NEW c \in Calls, Calls = {c}, NEW n \in Nodes, Save(c, n)
    PROVE  SetupInv'
  <1>0. /\ UNCHANGED <<handler, call, crashes>> /\ stream[c][n].pc = "save"
        /\ saved' = [saved EXCEPT ![n] = HandlerData(handler[n])]
        /\ stream' = [stream EXCEPT ![c][n].pc = "ended"]
    BY DEF Save, saveState, at
  <1>1. /\ stream[c][n] \in Streams /\ StreamsOK /\ SavedOK /\ CallsOK /\ SavedTogether
        /\ NodeInv(c, n)
    BY StreamType
  <1>2. saved[n] # None /\ handler[n] # None /\ handler[n] \in Handlers
    BY <1>0, AtPoint
  <1>3. handler[n].privShare = handler[n].distKey
    BY <1>0, <1>1, <1>2 DEF NodeInv
  <1>4. PICK d \in HandlerDatas : saved' = [saved EXCEPT ![n] = d] /\ d.privShare = d.distKey
    <2>1. /\ HandlerData(handler[n]) \in HandlerDatas
          /\ HandlerData(handler[n]).privShare = HandlerData(handler[n]).distKey
      BY <1>2, <1>3 DEF HandlerData, HandlerDatas, Handlers
    <2>. QED BY <1>0, <2>1
  <1>5. SavedOK' /\ SavedTogether' /\ (\A m \in Nodes : saved'[m] = None <=> saved[m] = None)
    BY <1>1, <1>2, <1>4, Constants DEF SavedOK, SavedTogether
  <1>6. PICK b \in BOOLEAN : b = stream[c][n].sent
    BY <1>1 DEF Streams
  <1>7. stream' = [stream EXCEPT ![c][n].pc = "ended", ![c][n].sent = b]
    BY <1>0, <1>1, <1>6 DEF StreamsOK, Streams
  <1>8. CallsOK'
    BY <1>0, <1>1 DEF CallsOK
  <1>. QED
    BY <1>0, <1>1, <1>5, <1>6, <1>7, <1>8, LastPoints DEF NodeInv

-----------------------------------------------------------------------------
(* Theorems *)

\* With one Setup call, SetupInv holds in every state, whatever the roster, the
\* node that is asked, the timeouts and the crashes.
THEOREM OneSetup ==
    ASSUME MaxSetups = 1
    PROVE  Spec => []SetupInv
  <1>0. PICK c \in Calls : Calls = {c}
    BY DEF Calls
  <1>1. Init => SetupInv
    <2>. SUFFICES ASSUME Init PROVE SetupInv
      OBVIOUS
    <2>1. /\ \A n \in Nodes : saved[n] = None /\ handler[n] = None
          /\ \A s \in Calls : call[s] = [phase |-> "unused", by |-> None, done |-> {}]
          /\ crashes = 0
      BY DEF Init
    <2>2. \A s \in Calls, n \in Nodes :
              /\ stream[s][n].at = "none" /\ stream[s][n].pc = "none"
              /\ ~stream[s][n].sent /\ ~stream[s][n].start
      BY DEF Init
    <2>3. StreamsOK
      <3>. DEFINE r == [at |-> "none", first |-> FALSE, answered |-> FALSE, start |-> FALSE,
                        sent |-> FALSE, deals |-> {}, responses |-> {}, pc |-> "none",
                        received |-> 0, key |-> None]
      <3>1. r \in Streams
        BY DEF Streams, Points, Keys
      <3>2. stream = [s \in Calls |-> [n \in Nodes |-> r]]
        BY DEF Init
      <3>. HIDE DEF r
      <3>. QED BY <3>1, <3>2 DEF StreamsOK
    <2>4. SavedOK /\ HandlersOK
      BY DEF Init, SavedOK, HandlersOK
    <2>5. CallsOK
      BY DEF Init, CallsOK, SetupCalls, Phases
    <2>6. ActorsOK
      BY <2>1, <2>2 DEF ActorsOK
    <2>7. StartInv /\ KeyInv /\ SentInv /\ SavedTogether
      BY <2>1, <2>2 DEF StartInv, KeyInv, SentInv, SavedTogether
    <2>8. ReturnInv
      BY <2>1 DEF ReturnInv
    <2>9. CrashInv
      <3>1. ASSUME NEW s \in Calls PROVE Without(s) = {}
        BY <2>2 DEF Without
      <3>. QED BY <2>1, <3>1, FS_EmptySet DEF CrashInv
    <2>. QED
      BY <2>1, <2>3, <2>4, <2>5, <2>6, <2>7, <2>8, <2>9 DEF SetupInv, TypeOK
  <1>2. SetupInv /\ [Next]_vars => SetupInv'
    <2>. SUFFICES ASSUME SetupInv, [Next]_vars PROVE SetupInv'
      OBVIOUS
    <2>1. ASSUME NEW n \in Nodes, Listen(n) \/ Crash(n) PROVE SetupInv'
      BY <1>0, <2>1, ListenStep, CrashStep
    <2>2. ASSUME NEW n \in Asked, Setup(n) \/ SetupAgain(n) PROVE SetupInv'
      BY <1>0, <2>2, SetupStep, SetupAgainStep, Constants
    <2>3. ASSUME SendStart(c) \/ GiveUp(c) \/ SetupReturns(c) PROVE SetupInv'
      BY <1>0, <2>3, SendStartStep, GiveUpStep, SetupReturnsStep
    <2>4. ASSUME NEW n \in Nodes, Open(c, n) \/ EndStream(c, n) \/ start(c, n) PROVE SetupInv'
      BY <1>0, <2>4, OpenStep, EndStreamStep, StartStep
    <2>5. ASSUME NEW n \in Nodes, doDKG(c, n) PROVE SetupInv'
      BY <1>0, <2>5, DealStep, HandleDealStep, CertifyStep, SetDistKeyStep, SetPrivShareStep,
         SendStartDoneStep, StartDoneLostStep, SaveStep DEF doDKG
    <2>6. CASE UNCHANGED vars
      <3>1. UNCHANGED <<saved, handler, call, stream, crashes>>
        BY <2>6 DEF vars
      <3>2. TypeOK'
        BY <3>1 DEF SetupInv, TypeOK, SavedOK, HandlersOK, StreamsOK, CallsOK, ActorsOK
      <3>3. StartInv' /\ ReturnInv' /\ SavedTogether'
        BY <3>1 DEF SetupInv, StartInv, ReturnInv, allDone, SavedTogether
      <3>. QED BY <1>0, <3>1, <3>2, <3>3, QuietStep, SameHandlers
    <2>. QED
      BY <1>0, <2>1, <2>2, <2>3, <2>4, <2>5, <2>6 DEF Next, Proceed
  <1>. QED
    BY <1>1, <1>2, PTL DEF Spec

\* Whatever a node has stored when it crashes, a key is stored with a share of
\* that key (saveState, MarshalJSON of the Handler): with one Setup call.
THEOREM KeysStoredWithShares ==
    ASSUME MaxSetups = 1
    PROVE  Spec => []SavedTogether
  <1>1. SetupInv => SavedTogether
    BY DEF SetupInv
  <1>. QED
    BY <1>1, OneSetup, PTL

\* When the only Setup call has returned a key, every node has a share of that
\* key in use, but for as many as have crashed (Actor.Setup, doDKG).
THEOREM ReturnedKeyHeld ==
    ASSUME MaxSetups = 1
    PROVE  Spec => []ReturnedKeyIsHeld
  <1>1. SetupInv => ReturnedKeyIsHeld
    <2>. SUFFICES ASSUME SetupInv, NEW s \in Calls, call[s].phase = "returned"
                  PROVE  Cardinality({n \in Nodes : handler[n].privShare \notin call[s].done
                                          \/ handler[n].distKey \notin call[s].done}) <= crashes
      BY DEF ReturnedKeyIsHeld
    <2>. DEFINE B == {n \in Nodes : handler[n].privShare \notin call[s].done
                                      \/ handler[n].distKey \notin call[s].done}
    <2>1. B \subseteq Without(s)
      BY DEF SetupInv, ReturnInv, allDone, SentInv, Without
    <2>2. IsFiniteSet(Without(s))
      BY Constants, FS_Subset DEF Without
    <2>. HIDE DEF B
    <2>3. /\ IsFiniteSet(B) /\ Cardinality(B) <= Cardinality(Without(s))
          /\ Cardinality(B) \in Nat /\ Cardinality(Without(s)) \in Nat
      BY <2>1, <2>2, FS_Subset, FS_CardinalityType
    <2>4. Cardinality(Without(s)) <= crashes /\ crashes \in Nat
      BY DEF SetupInv, CrashInv, TypeOK
    <2>5. Cardinality(B) <= crashes
      BY <2>3, <2>4
    <2>. QED BY <2>5 DEF B
  <1>. QED
    BY <1>1, OneSetup, PTL

-----------------------------------------------------------------------------
(***************************************************************************)
(* The page that sets up the keys of a form, for any number of nodes. The  *)
(* invariant follows the proxies: the page waits for every row to look for *)
(* its proxy, a row without one stays bad, so that a form is initialized   *)
(* only when every proxy has answered, and a node is chosen then.          *)
(***************************************************************************)

\* The proxy of a row has answered.
Reachable(r) == r \in Rows /\ proxy[r] = "known"

RowTypes ==
    /\ actor \in [Rows -> ActorStatuses]
    /\ proxy \in [Rows -> {"null", "known", "empty"}]
    /\ fetching \in [Rows -> {"proxy", "status", "none"}]
    /\ DOMAIN rowStatus = Rows
    /\ rowLoading \in [Rows -> BOOLEAN]
    /\ initializing \subseteq Rows /\ nowhere \subseteq Rows
    /\ polls \in [Rows -> [Expected -> Nat]]
    /\ setupPosts \in {0, 1}

TableTypes ==
    /\ RowTypes
    /\ nodeLoading \in [Rows -> BOOLEAN] /\ DKGLoading \in BOOLEAN
    /\ DOMAIN statuses \subseteq Rows
    /\ addresses \in Seq(Rows)
    /\ status \in {"Initial", "Initialized", "Setup"}

\* Only a row that has its proxy goes on, and one that has none is bad.
RowProxied(r) ==
    /\ fetching[r] = "proxy" <=> proxy[r] = "null"
    /\ fetching[r] = "status" \/ r \in initializing => proxy[r] = "known"
    /\ proxy[r] = "empty" => rowStatus[r] \in Bad
    /\ \A e \in Expected : polls[r][e] > 0 => proxy[r] # "null"

\* The page waits until every row has looked for its proxy, or has failed.
RowInv(r) ==
    /\ RowProxied(r)
    /\ proxy[r] = "null" /\ rowStatus[r] \notin Bad => nodeLoading[r] /\ DKGLoading

\* The addresses are those of the proxies known, and a form beyond its initial
\* status has one of them chosen. A form is initialized, and a setup requested,
\* only when every row has looked for its proxy.
ChoiceInv ==
    /\ \A i \in 1 .. Len(addresses) : Reachable(addresses[i])
    /\ \A r \in Rows : proxy[r] = "known" => addresses # <<>>
    /\ status # "Initial" => Reachable(nodeToSetup)
    /\ setupPosts # 0 => status # "Initial"
    /\ status = "Initialized" \/ setupPosts # 0 => \A r \in Rows : proxy[r] # "null"

TableInv == TableTypes /\ StatusesAgree /\ (\A r \in Rows : RowInv(r)) /\ ChoiceInv

\* The page keeps the invariant if the rows do: a form is initialized only when
\* every row has a status that is not bad, hence a proxy.
LEMMA PageKeeps ==
    ASSUME TableInv, NEW fs, NEW st, NEW nl \in [Rows -> BOOLEAN], NEW newMap \in BOOLEAN,
           NEW ads \in Seq(Rows), NEW action, Page(fs, st, nl, newMap, ads, action),
           RowTypes', \A r \in Rows : RowProxied(r)',
           \A r \in Rows : proxy'[r] = "null" => proxy[r] = "null",
           \A r \in Rows : proxy'[r] = "null" /\ rowStatus'[r] \notin Bad
                              => rowStatus[r] \notin Bad /\ nl[r],
           \A r \in Rows : proxy[r] = "known" => proxy'[r] = "known",
           DOMAIN st \subseteq Rows,
           \A r \in DOMAIN st :
               st[r] # rowStatus'[r] => st[r] \in Bad /\ rowStatus'[r] = "Unreachable",
           \A i \in 1 .. Len(ads) : proxy'[ads[i]] = "known",
           \A r \in Rows : proxy'[r] = "known" => ads # <<>>,
           fs = status \/ (fs = "Setup" /\ ads # <<>>),
           setupPosts' # 0 => setupPosts # 0 \/ status = "Initialized"
    PROVE  TableInv'
  <1>. DEFINE loading == IF newMap THEN \E r \in Rows : nl[r] ELSE DKGLoading
              next == formStatus(fs, st, loading)
  <1>0. TableTypes /\ ChoiceInv /\ \A r \in Rows : RowInv(r)
    BY DEF TableInv
  <1>1. /\ statuses' = st /\ nodeLoading' = nl /\ DKGLoading' = loading
        /\ status' = next /\ addresses' = ads /\ nodeToSetup' = defaultNode(next, ads)
    BY DEF Page
  <1>2. loading \in BOOLEAN
    BY <1>0 DEF TableTypes, RowTypes
  <1>3. \A r \in Rows : proxy'[r] = "null" /\ rowStatus'[r] \notin Bad => loading
    BY <1>0 DEF RowInv, RowProxied
  <1>. HIDE DEF loading
  <1>4. next \in {"Initial", "Initialized", "Setup"}
    BY <1>0 DEF formStatus, TableTypes, RowTypes
  <1>5. TableTypes'
    BY <1>1, <1>2, <1>4 DEF TableTypes, RowTypes
  <1>6. StatusesAgree'
    BY <1>1 DEF StatusesAgree
  <1>7. \A r \in Rows : RowInv(r)'
    BY <1>1, <1>3 DEF RowInv, RowProxied
  <1>8. ASSUME next # "Initial", status = "Initial"
        PROVE  ads # <<>> /\ (next = "Initialized" => \A r \in Rows : proxy'[r] # "null")
    <2>1. CASE fs # status
      BY <2>1 DEF formStatus
    <2>2. CASE fs = status
      <3>1. ~ loading /\ DOMAIN st = Rows /\ \A r \in Rows : st[r] \notin Bad
        BY <1>8, <2>2 DEF formStatus
      <3>2. 1 \in Rows
        BY TableAssumption DEF Rows
      <3>3. \A r \in Rows : rowStatus'[r] \notin Bad
        BY <3>1
      <3>4. \A r \in Rows : proxy'[r] \notin {"null", "empty"}
        BY <1>3, <3>1, <3>3 DEF RowProxied
      <3>. QED BY <3>2, <3>4 DEF RowTypes
    <2>. QED BY <2>1, <2>2
  <1>9. ASSUME next # "Initial" PROVE Reachable(nodeToSetup)'
    <2>1. CASE status = "Initial"
      <3>1. ads # <<>> /\ nodeToSetup' = Head(ads)
        BY <1>1, <1>4, <1>8, <1>9, <2>1 DEF defaultNode
      <3>2. Head(ads) = ads[1] /\ 1 \in 1 .. Len(ads)
        BY <3>1
      <3>. QED BY <3>1, <3>2 DEF Reachable
    <2>2. CASE status # "Initial"
      <3>1. Reachable(nodeToSetup)
        BY <1>0, <2>2 DEF ChoiceInv
      <3>2. CASE nodeToSetup' = nodeToSetup
        BY <3>1, <3>2 DEF Reachable
      <3>3. CASE ads # <<>> /\ nodeToSetup' = Head(ads)
        <4>1. Head(ads) = ads[1] /\ 1 \in 1 .. Len(ads)
          BY <3>3
        <4>. QED BY <3>3, <4>1 DEF Reachable
      <3>. QED BY <1>1, <3>2, <3>3 DEF defaultNode
    <2>. QED BY <2>1, <2>2
  <1>10. status # "Initial" => next # "Initial"
    BY DEF formStatus
  <1>11. next = "Initialized" \/ setupPosts' # 0 => \A r \in Rows : proxy'[r] # "null"
    <2>1. next = "Initialized" => status \in {"Initial", "Initialized"}
      BY <1>0 DEF formStatus, TableTypes
    <2>2. setupPosts # 0 \/ status = "Initialized" => \A r \in Rows : proxy[r] # "null"
      BY <1>0 DEF ChoiceInv
    <2>. QED BY <1>8, <2>1, <2>2
  <1>12. setupPosts' # 0 => next # "Initial"
    BY <1>0, <1>10 DEF ChoiceInv
  <1>13. ChoiceInv'
    BY <1>1, <1>9, <1>11, <1>12 DEF ChoiceInv, Reachable
  <1>. QED BY <1>5, <1>6, <1>7, <1>13 DEF TableInv

\* What is left of the entries written in one commit is one of them.
LEMMA WrittenOne ==
    ASSUME NEW T \in SUBSET Rows, T # {}
    PROVE  Max(T) \in T
  <1>1. N \in Nat /\ T \subseteq 1 .. N
    BY TableAssumption DEF Rows
  <1>2. IsFiniteSet(Rows)
    BY <1>1, FS_Interval DEF Rows
  <1>3. IsFiniteSet(T)
    BY <1>2, FS_Subset
  <1>4. T \subseteq Int
    BY <1>1
  <1>. QED BY <1>3, <1>4, GreatestElement

\* The invariant holds when the page opens.
LEMMA TableInvInit == TableInit => TableInv
  <1>. SUFFICES ASSUME TableInit PROVE TableInv
    OBVIOUS
  <1>1. Rows # {} /\ Rows \in SUBSET Rows
    BY TableAssumption DEF Rows
  <1>2. Max(Rows) \in Rows
    BY <1>1, WrittenOne
  <1>3. DOMAIN statuses = {Max(Rows)} /\ statuses[Max(Rows)] = "null"
    BY <1>1 DEF TableInit, written
  <1>4. DOMAIN statuses \subseteq Rows /\ StatusesAgree
    BY <1>2, <1>3 DEF TableInit, StatusesAgree
  <1>5. RowTypes
    BY DEF TableInit, RowTypes, Expected, ActorStatuses
  <1>6. \A r \in Rows : RowInv(r)
    BY DEF TableInit, RowInv, RowProxied
  <1>7. ChoiceInv
    BY DEF TableInit, ChoiceInv, Reachable
  <1>. QED BY <1>4, <1>5, <1>6, <1>7 DEF TableInit, TableInv, TableTypes

\* What the page notes of a row is the status of the row.
LEMMA NotedAgrees ==
    ASSUME TableInv, NEW r \in Rows, NEW s, rowStatus' = [rowStatus EXCEPT ![r] = s]
    PROVE  /\ DOMAIN noted(statuses, {r}, s) \subseteq Rows
           /\ \A q \in DOMAIN noted(statuses, {r}, s) :
                  noted(statuses, {r}, s)[q] # rowStatus'[q]
                      => noted(statuses, {r}, s)[q] \in Bad /\ rowStatus'[q] = "Unreachable"
           /\ DOMAIN rowStatus' = Rows
           /\ seen(status, r, s) = status \/ (seen(status, r, s) = "Setup" /\ s = "Setup")
  <1>. DEFINE st == noted(statuses, {r}, s)
  <1>1. DOMAIN statuses \subseteq Rows /\ StatusesAgree /\ DOMAIN rowStatus = Rows
    BY DEF TableInv, TableTypes, RowTypes
  <1>2. CASE rowStatus[r] = s
    <2>1. {q \in {r} : rowStatus[q] # s} = {}
      BY <1>2
    <2>2. st = statuses
      BY <2>1 DEF noted, written
    <2>3. \A q \in Rows : rowStatus'[q] = rowStatus[q]
      BY <1>1, <1>2
    <2>4. \A q \in DOMAIN st : st[q] # rowStatus'[q] => st[q] \in Bad /\ rowStatus'[q] = "Unreachable"
      BY <1>1, <2>2, <2>3 DEF StatusesAgree
    <2>. HIDE DEF st
    <2>. QED BY <1>1, <2>2, <2>4 DEF st, seen
  <1>3. CASE rowStatus[r] # s
    <2>1. {q \in {r} : rowStatus[q] # s} = {r}
      BY <1>3
    <2>2. Max({r}) = r
      BY WrittenOne
    <2>3. st = [q \in DOMAIN statuses \cup {r} |-> IF q = r THEN s ELSE statuses[q]]
      BY <2>1, <2>2 DEF noted, written
    <2>4. DOMAIN st = DOMAIN statuses \cup {r} /\ st[r] = s
          /\ \A q \in DOMAIN statuses \ {r} : st[q] = statuses[q]
      BY <2>3
    <2>. HIDE DEF st
    <2>5. \A q \in DOMAIN st : st[q] # rowStatus'[q] => st[q] \in Bad /\ rowStatus'[q] = "Unreachable"
      BY <1>1, <2>4 DEF StatusesAgree
    <2>. QED BY <1>1, <2>4, <2>5 DEF st, seen
  <1>. QED BY <1>2, <1>3

\* So it is when a row changes status and stops loading.
LEMMA SettlesKeeps ==
    ASSUME TableInv, NEW r \in Rows, NEW s, NEW ads \in Seq(Rows), RowSettles(r, s, ads),
           RowTypes', \A q \in Rows : RowProxied(q)', setupPosts' = setupPosts,
           proxy'[r] = "null" => proxy[r] = "null" /\ s \in Bad,
           \A q \in Rows \ {r} : proxy'[q] = proxy[q],
           \A q \in Rows : proxy[q] = "known" => proxy'[q] = "known",
           \A i \in 1 .. Len(ads) : proxy'[ads[i]] = "known",
           \A q \in Rows : proxy'[q] = "known" => ads # <<>>,
           s = "Setup" => ads # <<>>
    PROVE  TableInv'
  <1>. DEFINE nl == IF rowLoading[r] THEN [nodeLoading EXCEPT ![r] = FALSE] ELSE nodeLoading
              fs == seen(status, r, s)
              st == noted(statuses, {r}, s)
  <1>1. /\ rowStatus' = [rowStatus EXCEPT ![r] = s]
        /\ Page(fs, st, nl, rowLoading[r], ads, ongoing)
    BY DEF RowSettles
  <1>2. nl \in [Rows -> BOOLEAN] /\ rowLoading[r] \in BOOLEAN
        /\ \A q \in Rows \ {r} : nl[q] = nodeLoading[q]
    BY DEF TableInv, TableTypes, RowTypes
  <1>3. /\ DOMAIN st \subseteq Rows
        /\ \A q \in DOMAIN st :
              st[q] # rowStatus'[q] => st[q] \in Bad /\ rowStatus'[q] = "Unreachable"
        /\ fs = status \/ (fs = "Setup" /\ ads # <<>>)
    BY <1>1, NotedAgrees
  <1>4. \A q \in Rows : rowStatus'[q] = IF q = r THEN s ELSE rowStatus[q]
    BY <1>1 DEF TableInv, TableTypes, RowTypes
  <1>5. /\ \A q \in Rows : proxy'[q] = "null" => proxy[q] = "null"
        /\ \A q \in Rows : proxy'[q] = "null" /\ rowStatus'[q] \notin Bad
                            => rowStatus[q] \notin Bad /\ nl[q]
    BY <1>2, <1>4 DEF TableInv, RowInv
  <1>. HIDE DEF nl, fs, st
  <1>. QED BY <1>1, <1>2, <1>3, <1>4, <1>5, PageKeeps

\* Every step keeps it.
LEMMA TableInvNext ==
    ASSUME TableInv, [TableNext]_tableVars
    PROVE  TableInv'
  <1>0. /\ TableTypes /\ ChoiceInv /\ RowTypes /\ \A r \in Rows : RowInv(r)
        /\ \A i \in 1 .. Len(addresses) : proxy[addresses[i]] = "known"
        /\ \A q \in Rows : proxy[q] = "known" => addresses # <<>>
    BY DEF TableInv, TableTypes, ChoiceInv, Reachable, RowTypes
  <1>1. ASSUME NEW r \in Rows, ProxyKnown(r) PROVE TableInv'
    <2>. DEFINE ads == Append(addresses, r)
    <2>1. /\ proxy' = [proxy EXCEPT ![r] = "known"]
          /\ fetching' = [fetching EXCEPT ![r] = IF rowStatus[r] = "null" THEN "status" ELSE "none"]
          /\ rowStatus' = [rowStatus EXCEPT ![r] = rowStatus[r]]
          /\ rowLoading' = [rowLoading EXCEPT ![r] = FALSE]
          /\ UNCHANGED <<actor, initializing, nowhere, polls, setupPosts>>
          /\ RowSettles(r, rowStatus[r], ads)
      BY <1>1 DEF ProxyKnown, RowSettles
    <2>2. RowTypes'
      BY <1>0, <2>1 DEF RowTypes
    <2>3. \A q \in Rows : RowProxied(q)'
      BY <1>0, <2>1 DEF RowProxied, RowInv, TableTypes, RowTypes
    <2>4. /\ ads \in Seq(Rows) /\ ads # <<>>
          /\ \A i \in 1 .. Len(ads) : proxy'[ads[i]] = "known"
      <3>1. addresses \in Seq(Rows) /\ Len(addresses) \in Nat
        BY <1>0 DEF TableTypes, RowTypes
      <3>2. /\ ads \in Seq(Rows) /\ Len(ads) = Len(addresses) + 1
            /\ \A i \in 1 .. Len(ads) : ads[i] = IF i \in 1 .. Len(addresses) THEN addresses[i] ELSE r
        BY <3>1
      <3>3. \A q \in Rows : proxy[q] = "known" \/ q = r => proxy'[q] = "known"
        BY <1>0, <2>1 DEF TableTypes, RowTypes
      <3>4. \A i \in 1 .. Len(addresses) : addresses[i] \in Rows
        BY <3>1
      <3>5. ads # <<>>
        BY <3>1, <3>2
      <3>. HIDE DEF ads
      <3>. QED BY <1>0, <3>2, <3>3, <3>4, <3>5
    <2>5. /\ proxy'[r] # "null" /\ \A q \in Rows \ {r} : proxy'[q] = proxy[q]
          /\ \A q \in Rows : proxy[q] = "known" => proxy'[q] = "known"
      BY <1>0, <2>1 DEF TableTypes, RowTypes
    <2>. HIDE DEF ads
    <2>. QED BY <2>1, <2>2, <2>3, <2>4, <2>5, SettlesKeeps
  <1>2. ASSUME NEW r \in Rows, ProxyUnreachable(r) PROVE TableInv'
    <2>1. /\ proxy' = [proxy EXCEPT ![r] = "empty"] /\ fetching' = [fetching EXCEPT ![r] = "none"]
          /\ rowStatus' = [rowStatus EXCEPT ![r] = "Unreachable"]
          /\ rowLoading' = [rowLoading EXCEPT ![r] = FALSE]
          /\ UNCHANGED <<actor, initializing, nowhere, polls, setupPosts>>
          /\ RowSettles(r, "Unreachable", addresses)
          /\ proxy[r] = "null"
      BY <1>0, <1>2 DEF ProxyUnreachable, RowSettles, RowInv, RowProxied
    <2>2. RowTypes'
      BY <1>0, <2>1 DEF RowTypes
    <2>3. \A q \in Rows : RowProxied(q)'
      BY <1>0, <2>1 DEF RowProxied, RowInv, TableTypes, RowTypes, Bad
    <2>4. /\ proxy'[r] # "null" /\ \A q \in Rows \ {r} : proxy'[q] = proxy[q]
          /\ \A q \in Rows : proxy[q] = "known" => proxy'[q] = "known"
          /\ \A q \in Rows : proxy'[q] = "known" => proxy[q] = "known"
          /\ addresses \in Seq(Rows)
      BY <1>0, <2>1 DEF TableTypes, RowTypes
    <2>5. \A i \in 1 .. Len(addresses) : proxy'[addresses[i]] = "known"
      BY <1>0, <2>4 DEF TableTypes, RowTypes
    <2>. QED BY <1>0, <2>1, <2>2, <2>3, <2>4, <2>5, SettlesKeeps
  <1>3. ASSUME NEW r \in Rows, NEW s, proxy[r] # "known" => s \in Bad, RowSettles(r, s, addresses),
               UNCHANGED <<proxy, setupPosts>>,
               \/ fetching' = fetching
               \/ fetching' = [fetching EXCEPT ![r] = "none"] /\ proxy[r] = "known",
               initializing' \subseteq initializing, nowhere' \subseteq nowhere, actor' \in [Rows -> ActorStatuses],
               polls' \in [Rows -> [Expected -> Nat]],
               \A q \in Rows, e \in Expected : polls'[q][e] > 0 => polls[q][e] > 0
        PROVE  TableInv'
    <2>1. /\ rowStatus' = [rowStatus EXCEPT ![r] = s] /\ rowLoading' = [rowLoading EXCEPT ![r] = FALSE]
      BY <1>3 DEF RowSettles
    <2>2. RowTypes'
      BY <1>0, <1>3, <2>1 DEF RowTypes
    <2>3. ASSUME NEW q \in Rows PROVE RowProxied(q)'
      <3>1. /\ RowProxied(q) /\ proxy'[q] = proxy[q] /\ polls'[q] \in [Expected -> Nat]
            /\ rowStatus'[q] = IF q = r THEN s ELSE rowStatus[q]
            /\ q \in initializing' => q \in initializing
        BY <1>0, <1>3, <2>1 DEF RowInv, RowTypes
      <3>2. proxy[q] = "empty" => rowStatus'[q] \in Bad
        BY <1>3, <3>1 DEF RowProxied
      <3>3. /\ fetching'[q] = "proxy" <=> proxy[q] = "null"
            /\ fetching'[q] = "status" => proxy[q] = "known"
        BY <1>0, <1>3, <3>1 DEF RowProxied, RowTypes
      <3>. QED BY <1>3, <3>1, <3>2, <3>3 DEF RowProxied
    <2>4. s = "Setup" => proxy[r] = "known"
      BY <1>3 DEF Bad
    <2>5. addresses \in Seq(Rows)
      BY <1>0 DEF TableTypes
    <2>. QED BY <1>0, <1>3, <2>2, <2>3, <2>4, <2>5, SettlesKeeps
  <1>4. ASSUME NEW r \in Rows, NEW ok \in BOOLEAN, StatusKnown(r, ok) PROVE TableInv'
    <2>1. proxy[r] = "known"
      BY <1>0, <1>4 DEF StatusKnown, RowInv, RowProxied
    <2>. QED BY <1>0, <1>3, <1>4, <2>1 DEF StatusKnown, TableTypes, RowTypes
  <1>5. ASSUME NEW r \in Rows, NEW ok \in BOOLEAN, InitializeAnswered(r, ok) PROVE TableInv'
    <2>1. proxy[r] = "known"
      BY <1>0, <1>5 DEF InitializeAnswered, RowInv, RowProxied
    <2>2. actor' \in [Rows -> ActorStatuses]
      BY <1>0, <1>5 DEF InitializeAnswered, TableTypes, RowTypes, ActorStatuses
    <2>. QED BY <1>0, <1>3, <1>5, <2>1, <2>2 DEF InitializeAnswered, TableTypes, RowTypes
  <1>6. ASSUME NEW r \in Rows, NEW e \in Expected, polls[r][e] > 0, pollEnds(r, e)
        PROVE  /\ polls' \in [Rows -> [Expected -> Nat]]
               /\ \A q \in Rows, d \in Expected : polls'[q][d] > 0 => polls[q][d] > 0
               /\ proxy[r] # "null"
    BY <1>0, <1>6 DEF pollEnds, TableTypes, RowTypes, RowInv, RowProxied
  <1>7. ASSUME NEW r \in Rows, NEW e \in Expected, PollResolved(r, e) PROVE TableInv'
    <2>1. proxy[r] = "known" /\ polls[r][e] > 0 /\ pollEnds(r, e)
      BY <1>7 DEF PollResolved
    <2>. QED BY <1>0, <1>3, <1>6, <1>7, <2>1 DEF PollResolved, TableTypes, RowTypes
  <1>8. ASSUME NEW r \in Rows, NEW e \in Expected, PollFails(r, e) PROVE TableInv'
    <2>1. polls[r][e] > 0 /\ pollEnds(r, e)
      BY <1>8 DEF PollFails
    <2>2. "Failed" \in Bad
      BY DEF Bad
    <2>. QED BY <1>0, <1>3, <1>6, <1>8, <2>1, <2>2 DEF PollFails, TableTypes, RowTypes
  <1>9. ASSUME NEW r \in Rows, NEW e \in Expected, PollDKG(r, e) PROVE TableInv'
    <2>. DEFINE s == actor[r]
                fs == seen(status, r, s)
                st == noted(statuses, {r}, s)
                newMap == FALSE
    <2>1. /\ rowStatus' = [rowStatus EXCEPT ![r] = s] /\ proxy[r] = "known"
          /\ UNCHANGED <<actor, proxy, rowLoading, fetching, initializing, nowhere, polls, setupPosts>>
          /\ Page(fs, st, nodeLoading, newMap, addresses, ongoing)
      BY <1>9 DEF PollDKG
    <2>2. RowTypes'
      BY <1>0, <2>1 DEF RowTypes
    <2>3. \A q \in Rows : RowProxied(q)'
      BY <1>0, <2>1 DEF RowProxied, RowInv, TableTypes, RowTypes
    <2>4. /\ DOMAIN st \subseteq Rows
          /\ \A q \in DOMAIN st :
                st[q] # rowStatus'[q] => st[q] \in Bad /\ rowStatus'[q] = "Unreachable"
          /\ fs = status \/ (fs = "Setup" /\ addresses # <<>>)
      BY <1>0, <2>1, NotedAgrees
    <2>5. \A q \in Rows : proxy'[q] = "null" /\ rowStatus'[q] \notin Bad
                             => rowStatus[q] \notin Bad /\ nodeLoading[q]
      BY <1>0, <2>1 DEF RowInv, RowTypes
    <2>6. setupPosts' # 0 => setupPosts # 0 \/ status = "Initialized"
      BY <2>1
    <2>7. nodeLoading \in [Rows -> BOOLEAN] /\ addresses \in Seq(Rows)
      BY <1>0 DEF TableTypes, RowTypes
    <2>8. newMap \in BOOLEAN
      OBVIOUS
    <2>. HIDE DEF fs, st, newMap
    <2>. QED BY <1>0, <2>1, <2>2, <2>3, <2>4, <2>5, <2>6, <2>7, <2>8, PageKeeps
  <1>18. ASSUME NEW r \in Rows, NowhereFails(r) PROVE TableInv'
    <2>1. "Failed" \in Bad
      BY DEF Bad
    <2>. QED BY <1>0, <1>3, <1>18, <2>1 DEF NowhereFails, TableTypes, RowTypes
  <1>10. ASSUME NEW T \in SUBSET Rows, NEW nl \in [Rows -> BOOLEAN], NEW b \in BOOLEAN
         PROVE  /\ written(nl, T, b) \in [Rows -> BOOLEAN]
                /\ \A q \in Rows : written(nl, T, b)[q] = nl[q] \/ q \in T
    <2>1. CASE T = {}
      <3>1. written(nl, T, b) = nl
        BY <2>1 DEF written
      <3>. QED BY <3>1
    <2>2. CASE T # {}
      <3>1. Max(T) \in T
        BY <2>2, WrittenOne
      <3>. QED BY <2>2, <3>1 DEF written
    <2>. QED BY <2>1, <2>2
  <1>11. CASE Initialize
    <2>. DEFINE begin == {r \in Rows : rowStatus[r] \in Bad /\ ~rowLoading[r]}
                giveUp == {r \in begin : proxy[r] = "empty"}
                inVain == {r \in begin : proxy[r] = "null"}
                st == noted(statuses, giveUp, "Unreachable")
                nl == written(written(nodeLoading, begin, TRUE), giveUp, FALSE)
                newMap == begin # {}
    <2>1. /\ initializing' = initializing \cup (begin \ (giveUp \cup inVain))
          /\ nowhere' = nowhere \cup inVain
          /\ rowStatus' = [r \in Rows |-> IF r \in giveUp THEN "Unreachable" ELSE rowStatus[r]]
          /\ rowLoading' = [r \in Rows |-> rowLoading[r] \/ r \in begin \ giveUp]
          /\ Page(status, st, nl, newMap, addresses, "initializing")
          /\ UNCHANGED <<actor, proxy, fetching, polls, setupPosts>>
      BY <1>11 DEF Initialize
    <2>2. /\ \A r \in begin : rowStatus[r] \in Bad
          /\ \A r \in giveUp : proxy[r] = "empty"
      OBVIOUS
    <2>3. \A r \in begin \ (giveUp \cup inVain) : proxy[r] = "known"
      BY <1>0 DEF TableTypes, RowTypes
    <2>4. /\ begin \in SUBSET Rows /\ giveUp \in SUBSET Rows /\ giveUp \subseteq begin
          /\ inVain \in SUBSET Rows
      OBVIOUS
    <2>5. nodeLoading \in [Rows -> BOOLEAN] /\ addresses \in Seq(Rows)
      BY <1>0 DEF TableTypes, RowTypes
    <2>. HIDE DEF begin, giveUp, inVain
    <2>6. /\ written(nodeLoading, begin, TRUE) \in [Rows -> BOOLEAN]
          /\ \A q \in Rows : written(nodeLoading, begin, TRUE)[q] = nodeLoading[q] \/ q \in begin
      BY <1>10, <2>4, <2>5
    <2>7. nl \in [Rows -> BOOLEAN] /\ \A q \in Rows : nl[q] = nodeLoading[q] \/ q \in begin
      <3>. DEFINE nl1 == written(nodeLoading, begin, TRUE)
      <3>. HIDE DEF nl1, begin, giveUp
      <3>1. nl1 \in [Rows -> BOOLEAN] /\ \A q \in Rows : nl1[q] = nodeLoading[q] \/ q \in begin
        BY <2>6 DEF nl1
      <3>2. /\ written(nl1, giveUp, FALSE) \in [Rows -> BOOLEAN]
            /\ \A q \in Rows : written(nl1, giveUp, FALSE)[q] = nl1[q] \/ q \in giveUp
        BY <1>10, <2>4, <3>1
      <3>. QED BY <2>4, <3>1, <3>2 DEF nl1
    <2>8. newMap \in BOOLEAN
      OBVIOUS
    <2>. HIDE DEF nl, begin, giveUp, inVain, newMap
    <2>9. RowTypes'
      BY <1>0, <2>1, <2>4 DEF RowTypes
    <2>10. ASSUME NEW q \in Rows PROVE RowProxied(q)'
      <3>1. "Unreachable" \in Bad
        BY DEF Bad
      <3>2. RowProxied(q) /\ rowStatus'[q] = IF q \in giveUp THEN "Unreachable" ELSE rowStatus[q]
        BY <1>0, <2>1 DEF RowInv
      <3>3. q \in initializing' => proxy[q] = "known"
        BY <2>1, <2>3, <3>2 DEF RowProxied
      <3>. QED BY <2>1, <3>1, <3>2, <3>3 DEF RowProxied
    <2>11. \A q \in Rows : proxy'[q] = "null" /\ rowStatus'[q] \notin Bad
                              => rowStatus[q] \notin Bad /\ nl[q]
      BY <1>0, <2>1, <2>2, <2>4, <2>7 DEF RowInv
    <2>12. /\ DOMAIN st \subseteq Rows
           /\ \A q \in DOMAIN st :
                 st[q] # rowStatus'[q] => st[q] \in Bad /\ rowStatus'[q] = "Unreachable"
      <3>. DEFINE S == {r \in giveUp : rowStatus[r] # "Unreachable"}
      <3>1. /\ DOMAIN statuses \subseteq Rows /\ StatusesAgree
            /\ \A q \in Rows : rowStatus'[q] = IF q \in giveUp THEN "Unreachable" ELSE rowStatus[q]
        BY <1>0, <2>1 DEF TableTypes, TableInv
      <3>2. \A q \in DOMAIN statuses :
              statuses[q] # rowStatus'[q] => statuses[q] \in Bad /\ rowStatus'[q] = "Unreachable"
        BY <2>2, <2>4, <3>1 DEF StatusesAgree
      <3>3. CASE S = {}
        <4>1. st = statuses
          BY <3>3 DEF noted, written
        <4>. QED BY <3>1, <3>2, <4>1
      <3>4. CASE S # {}
        <4>. DEFINE m == Max(S)
        <4>1. S \in SUBSET Rows /\ S \subseteq giveUp
          BY <2>4
        <4>2. m \in S
          BY <3>4, <4>1, WrittenOne
        <4>3. st = [q \in DOMAIN statuses \cup {m} |-> IF q = m THEN "Unreachable" ELSE statuses[q]]
          BY <3>4 DEF noted, written
        <4>. HIDE DEF m, S, st
        <4>. QED BY <3>1, <3>2, <4>1, <4>2, <4>3
      <3>. QED BY <3>3, <3>4
    <2>13. /\ \A q \in Rows : proxy'[q] = proxy[q]
           /\ setupPosts' # 0 => setupPosts # 0 \/ status = "Initialized"
           /\ \A i \in 1 .. Len(addresses) : proxy'[addresses[i]] = "known"
           /\ Page(status, st, nl, newMap, addresses, "initializing")
      BY <1>0, <2>1
    <2>. HIDE DEF st
    <2>. QED BY <1>0, <2>5, <2>7, <2>8, <2>9, <2>10, <2>11, <2>12, <2>13, PageKeeps
  <1>12. CASE SetUp
    <2>. DEFINE begin == {r \in Rows : ~rowLoading[r] /\ nodeToSetup # 0}
                expected(r) == IF r = nodeToSetup THEN "Setup" ELSE "Certified"
                nl == written(nodeLoading, begin, TRUE)
                newMap == begin # {}
    <2>1. /\ rowLoading' = [r \in Rows |-> rowLoading[r] \/ r \in begin]
          /\ polls' = [r \in Rows |->
                  IF r \in begin THEN [polls[r] EXCEPT ![expected(r)] = @ + 1] ELSE polls[r]]
          /\ Page(status, statuses, nl, newMap, addresses, "settingUp")
          /\ UNCHANGED <<actor, proxy, rowStatus, fetching, initializing, nowhere>>
          /\ setupPosts' = 1 /\ status = "Initialized"
      BY <1>12 DEF SetUp, SetupButton
    <2>2. \A r \in Rows : proxy[r] # "null"
      BY <1>0, <2>1 DEF ChoiceInv
    <2>3. begin \in SUBSET Rows
      OBVIOUS
    <2>4. nodeLoading \in [Rows -> BOOLEAN] /\ addresses \in Seq(Rows)
      BY <1>0 DEF TableTypes, RowTypes
    <2>5. nl \in [Rows -> BOOLEAN] /\ \A q \in Rows : nl[q] = nodeLoading[q] \/ q \in begin
      BY <1>10, <2>3, <2>4
    <2>6. newMap \in BOOLEAN
      OBVIOUS
    <2>7. \A r \in Rows : expected(r) \in Expected
      BY DEF Expected
    <2>. HIDE DEF nl, begin, expected, newMap
    <2>8. /\ polls' \in [Rows -> [Expected -> Nat]]
          /\ \A q \in Rows, e \in Expected : q \notin begin => polls'[q][e] = polls[q][e]
      BY <1>0, <2>1, <2>7 DEF TableTypes, RowTypes
    <2>9. RowTypes'
      BY <1>0, <2>1, <2>8 DEF RowTypes
    <2>10. ASSUME NEW q \in Rows PROVE RowProxied(q)'
      BY <1>0, <2>1, <2>2, <2>8 DEF RowProxied, RowInv, TableTypes, RowTypes
    <2>11. \A q \in Rows : proxy'[q] # "null"
      BY <2>1, <2>2
    <2>12. /\ DOMAIN statuses \subseteq Rows
           /\ \A q \in DOMAIN statuses :
                 statuses[q] # rowStatus'[q] => statuses[q] \in Bad /\ rowStatus'[q] = "Unreachable"
      BY <1>0, <2>1 DEF TableTypes, RowTypes, TableInv, StatusesAgree
    <2>. QED BY <1>0, <2>1, <2>4, <2>5, <2>6, <2>9, <2>10, <2>11, <2>12, PageKeeps
  <1>13. CASE SetUpAnswered
    BY <1>13 DEF SetUpAnswered, rowVars, pageVars, TableInv, TableTypes, RowTypes,
        RowInv, RowProxied, ChoiceInv,
        StatusesAgree, Reachable
  <1>14. CASE SetUpRefused
    <2>1. Reachable(nodeToSetup)
      BY <1>0, <1>14 DEF SetUpRefused, ChoiceInv
    <2>2. nodeToSetup' = nodeToSetup \/ (addresses # <<>> /\ nodeToSetup' = Head(addresses))
      BY <1>14 DEF SetUpRefused, defaultNode
    <2>3. Reachable(nodeToSetup)'
      <3>1. addresses # <<>> => Head(addresses) = addresses[1] /\ 1 \in 1 .. Len(addresses)
        BY <1>0 DEF TableTypes, RowTypes
      <3>2. proxy' = proxy
        BY <1>14 DEF SetUpRefused, rowVars
      <3>. QED BY <1>0, <2>1, <2>2, <3>1, <3>2 DEF Reachable, ChoiceInv
    <2>. QED BY <1>14, <2>3 DEF SetUpRefused, rowVars, TableInv, TableTypes, RowTypes,
        RowInv, RowProxied, ChoiceInv,
                StatusesAgree, Reachable
  <1>15. ASSUME NEW r \in Rows, ChooseNode(r) PROVE TableInv'
    BY <1>15 DEF ChooseNode, rowVars, TableInv, TableTypes, RowTypes,
        RowInv, RowProxied, ChoiceInv, StatusesAgree,
        Reachable
  <1>16. ASSUME NEW r \in Rows, ActorMoves(r) PROVE TableInv'
    <2>1. actor' \in [Rows -> ActorStatuses]
      BY <1>0, <1>16 DEF ActorMoves, TableTypes, RowTypes
    <2>. QED BY <1>16, <2>1 DEF ActorMoves, rowVars, pageVars, TableInv, TableTypes, RowTypes,
                RowInv, RowProxied,
                ChoiceInv, StatusesAgree, Reachable
  <1>17. CASE UNCHANGED tableVars
    BY <1>17 DEF tableVars, rowVars, pageVars, TableInv, TableTypes, RowTypes,
        RowInv, RowProxied, ChoiceInv,
        StatusesAgree, Reachable
  <1>. QED
    BY <1>1, <1>2, <1>4, <1>5, <1>7, <1>8, <1>9, <1>11, <1>12, <1>13, <1>14, <1>15, <1>16, <1>17, <1>18
       DEF TableNext, Loads, Polls

\* What the page knows of its rows is what they are (notifyDKGState).
THEOREM StatusesHold == TableSpec => []StatusesAgree
  <1>1. TableInv /\ [TableNext]_tableVars => TableInv'
    BY TableInvNext
  <1>2. TableInv => StatusesAgree
    BY DEF TableInv
  <1>. QED BY TableInvInit, <1>1, <1>2, PTL DEF TableSpec

\* The request for the setup goes to a node whose proxy answered, whatever the
\* storage of the browser held and in whatever order the rows answer.
THEOREM SetupReachable == TableSpec => SetupIsReachable
  <1>1. TableInv /\ [TableNext]_tableVars => TableInv'
    BY TableInvNext
  <1>2. TableInv /\ [TableNext]_tableVars
            => [setupPosts' > setupPosts => nodeToSetup # 0 /\ proxy[nodeToSetup] = "known"]_tableVars
    <2>. SUFFICES ASSUME TableInv, TableNext, setupPosts' > setupPosts
                  PROVE  nodeToSetup # 0 /\ proxy[nodeToSetup] = "known"
      OBVIOUS
    <2>1. setupPosts' = setupPosts \/ setupPosts' = 0 \/ SetUp
      BY DEF TableNext, Initialize, SetUpAnswered, SetUpRefused, ChooseNode, Loads, ProxyKnown,
         ProxyUnreachable, NowhereFails, StatusKnown, InitializeAnswered, ActorMoves, Polls, PollDKG,
         PollResolved, PollFails
    <2>2. SetUp
      BY <2>1 DEF TableInv, TableTypes, RowTypes
    <2>3. status # "Initial"
      BY <2>2 DEF SetUp, SetupButton
    <2>. QED BY <2>3, TableAssumption DEF TableInv, ChoiceInv, Reachable, Rows
  <1>. QED BY TableInvInit, <1>1, <1>2, PTL DEF TableSpec, SetupIsReachable
=============================================================================
