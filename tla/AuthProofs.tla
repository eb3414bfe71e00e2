----------------------------- MODULE AuthProofs -----------------------------
(***************************************************************************)
(* Theorems about the rights of users, in the backend and in the tabs of a *)
(* browser, for all users, forms, sessions, stored policies, and whatever  *)
(* number of handlers, tabs and failures.                                  *)
(***************************************************************************)
EXTENDS AppShell, TLAPS

-----------------------------------------------------------------------------
(***************************************************************************)
(* The policies of the backend. The memory of the enforcer is not what the *)
(* database holds while handlers run: the invariant says of every right    *)
(* that is in one only where it came from, or who will still put it there. *)
(***************************************************************************)

\* Policies that are or were stored: no step makes this set smaller.
Ever == db \cup removed

\* The types of the policies and of the sessions.
AuthTypeOK ==
    /\ db \subseteq Rules
    /\ mem \subseteq Rules
    /\ DOMAIN task = Tasks
    /\ \A t \in Tasks : running(t) => task[t] \in TaskRecords
    /\ DOMAIN session = Sids
    /\ \A sid \in Sids : loggedIn(sid) => \E u \in DOMAIN Sciper : session[sid] = Sciper[u]

\* What a handler holds was stored, or deleted.
TaskInv(rec) ==
    /\ rec.kind # "revoke" => rec.stored \subseteq Ever
    /\ rec.kind = "revoke" => rec.stored \subseteq removed
    /\ rec.rows \subseteq Ever

TasksInv == \A t \in Tasks : running(t) => TaskInv(task[t])

\* The handler rec will put r in force: the database has it and the memory
\* follows, or a reload is on its way.
Delivers(rec, r) ==
    \/ rec.kind # "revoke" /\ r \in rec.stored
    \/ rec.load = "cleared"
    \/ rec.load = "read" /\ r \in rec.rows

\* The rights that the backend stored, and that were never removed.
Due == db \ (outOfBand \cup removed)

DueInv ==
    ~loadFailed =>
        \A r \in Due : r \in mem \/ \E t \in Tasks : running(t) /\ Delivers(task[t], r)

AuthInv ==
    /\ AuthTypeOK
    /\ TasksInv
    /\ NoUnsavedRight
    /\ DueInv

\* A handler that has something left to deliver does not end.
LEMMA Unsettled ==
    ASSUME NEW rec, NEW r, Delivers(rec, r)
    PROVE  ~settled(rec)
  BY DEF Delivers, settled

\* The slot of a handler that goes on as rec.
LEMMA Slot ==
    ASSUME AuthInv, NEW t \in Tasks, NEW rec \in TaskRecords, become(t, rec)
    PROVE  /\ DOMAIN task' = Tasks
           /\ \A s \in Tasks : s # t => task'[s] = task[s]
           /\ task'[t] = IF settled(rec) THEN NoTask ELSE rec
           /\ rec # NoTask
           /\ \A s \in Tasks : running(s)' => task'[s] \in TaskRecords
  <1>1. /\ DOMAIN task' = Tasks
        /\ \A s \in Tasks : s # t => task'[s] = task[s]
        /\ task'[t] = IF settled(rec) THEN NoTask ELSE rec
    BY DEF become, AuthInv, AuthTypeOK
  <1>2. rec # NoTask
    BY TaskAssumption
  <1>. QED
    BY <1>1, <1>2 DEF AuthInv, AuthTypeOK, running

\* A running handler goes on as rec: what it delivered it still delivers, or
\* has put in force.
LEMMA TaskStep ==
    ASSUME AuthInv, NEW t \in Tasks, running(t), NEW rec \in TaskRecords, become(t, rec),
           TaskInv(rec)', Ever \subseteq Ever', removed \subseteq removed',
           mem' \subseteq Ever', mem' \subseteq Rules, db' \subseteq Rules,
           UNCHANGED session,
           ~loadFailed' => \A r \in Due' :
               \/ r \in mem'
               \/ Delivers(rec, r)
               \/ ~loadFailed /\ r \in Due /\ r \notin mem /\ ~Delivers(task[t], r)
    PROVE  AuthInv'
  <1>1. /\ DOMAIN task' = Tasks
        /\ \A s \in Tasks : s # t => task'[s] = task[s]
        /\ task'[t] = IF settled(rec) THEN NoTask ELSE rec
        /\ rec # NoTask
        /\ \A s \in Tasks : running(s)' => task'[s] \in TaskRecords
    BY Slot
  <1>2. TasksInv'
    <2>. SUFFICES ASSUME NEW s \in Tasks, task'[s] # NoTask PROVE TaskInv(task[s])'
      BY DEF TasksInv, running
    <2>1. CASE s = t
      BY <1>1, <2>1 DEF TaskInv
    <2>2. CASE s # t
      <3>1. task'[s] = task[s] /\ TaskInv(task[s])
        BY <1>1, <2>2 DEF AuthInv, TasksInv, running
      <3>. QED BY <3>1 DEF TaskInv
    <2>. QED BY <2>1, <2>2
  <1>3. DueInv'
    <2>. SUFFICES ASSUME ~loadFailed', NEW r \in Due', r \notin mem'
                  PROVE  \E s \in Tasks : task'[s] # NoTask /\ Delivers(task'[s], r)
      BY DEF DueInv, running, Delivers
    <2>1. CASE Delivers(rec, r)
      <3>1. ~settled(rec)
        BY <2>1, Unsettled
      <3>. QED BY <1>1, <2>1, <3>1
    <2>2. CASE ~loadFailed /\ r \in Due /\ r \notin mem /\ ~Delivers(task[t], r)
      <3>1. PICK s \in Tasks : running(s) /\ Delivers(task[s], r)
        BY <2>2 DEF AuthInv, DueInv
      <3>2. s # t
        BY <2>2, <3>1
      <3>. QED BY <1>1, <3>1, <3>2 DEF running
    <2>. QED BY <2>1, <2>2
  <1>4. AuthTypeOK'
    BY <1>1 DEF AuthInv, AuthTypeOK, loggedIn
  <1>. QED
    BY <1>2, <1>3, <1>4 DEF AuthInv, NoUnsavedRight, Ever

\* A handler starts, with nothing in its hands.
LEMMA StartStep ==
    ASSUME AuthInv, NEW t \in Tasks, NEW rec \in TaskRecords, start(t, rec),
           rec.stored = {}, rec.rows = {},
           UNCHANGED <<db, mem, session, history>>
    PROVE  AuthInv'
  <1>0. ~running(t) /\ become(t, rec)
    BY DEF start
  <1>1. /\ DOMAIN task' = Tasks
        /\ \A s \in Tasks : s # t => task'[s] = task[s]
        /\ task'[t] = IF settled(rec) THEN NoTask ELSE rec
        /\ \A s \in Tasks : running(s)' => task'[s] \in TaskRecords
    BY <1>0, Slot
  <1>2. UNCHANGED <<outOfBand, removed, loadFailed>>
    BY DEF history
  <1>3. TasksInv'
    <2>. SUFFICES ASSUME NEW s \in Tasks, task'[s] # NoTask PROVE TaskInv(task[s])'
      BY DEF TasksInv, running
    <2>1. CASE s = t
      BY <1>1, <2>1 DEF TaskInv
    <2>2. CASE s # t
      <3>1. task'[s] = task[s] /\ TaskInv(task[s])
        BY <1>1, <2>2 DEF AuthInv, TasksInv, running
      <3>. QED BY <1>2, <3>1 DEF TaskInv, Ever
    <2>. QED BY <2>1, <2>2
  <1>4. DueInv'
    <2>. SUFFICES ASSUME ~loadFailed, NEW r \in Due, r \notin mem
                  PROVE  \E s \in Tasks : task'[s] # NoTask /\ Delivers(task'[s], r)
      BY <1>2 DEF DueInv, running, Delivers, Due
    <2>1. PICK s \in Tasks : running(s) /\ Delivers(task[s], r)
      BY DEF AuthInv, DueInv
    <2>2. s # t
      BY <1>0, <2>1
    <2>. QED BY <1>1, <2>1, <2>2 DEF running
  <1>5. AuthTypeOK'
    BY <1>1 DEF AuthInv, AuthTypeOK, loggedIn
  <1>. QED
    BY <1>2, <1>3, <1>4, <1>5 DEF AuthInv, NoUnsavedRight, Ever

\* The steps of a handler that runs.
LEMMA HandlerSteps ==
    ASSUME AuthInv, NEW t \in Tasks, Progress(t) \/ Failures(t)
    PROVE  AuthInv'
  <1>0. /\ running(t) /\ task[t] \in TaskRecords /\ TaskInv(task[t])
        /\ mem \subseteq Ever /\ mem \subseteq Rules /\ db \subseteq Rules
    BY DEF Progress, Failures, StoreRow, UpdateMemory, ClearPolicy, ReadRows, FillPolicy,
           StoreFails, LoadFails, AuthInv, AuthTypeOK, TasksInv, NoUnsavedRight, Ever
  <1>1. ASSUME StoreRow(t) PROVE AuthInv'
    <2>1. PICK r \in task[t].todo :
              /\ become(t, [task[t] EXCEPT !.todo = @ \ {r}, !.stored = @ \cup {r}])
              /\ IF task[t].kind = "revoke"
                   THEN db' = db \ {r} /\ removed' = removed \cup {r}
                   ELSE db' = db \cup {r} /\ UNCHANGED removed
      BY <1>1 DEF StoreRow
    <2>2. UNCHANGED <<mem, session, outOfBand, loadFailed>>
      BY <1>1 DEF StoreRow
    <2>3. r \in Rules
      BY <1>0 DEF TaskRecords
    <2>4. PICK rec \in TaskRecords :
              /\ become(t, rec)
              /\ rec.kind = task[t].kind /\ rec.load = task[t].load /\ rec.rows = task[t].rows
              /\ rec.stored = task[t].stored \cup {r}
      <3>. DEFINE new == [task[t] EXCEPT !.todo = @ \ {r}, !.stored = @ \cup {r}]
      <3>1. /\ new \in TaskRecords
            /\ new.kind = task[t].kind /\ new.load = task[t].load /\ new.rows = task[t].rows
            /\ new.stored = task[t].stored \cup {r}
        BY <1>0 DEF TaskRecords
      <3>2. become(t, new)
        BY <2>1
      <3>. HIDE DEF new
      <3>. QED BY <3>1, <3>2
    <2>5. Ever \subseteq Ever' /\ removed \subseteq removed' /\ db' \subseteq Rules
      BY <1>0, <2>1, <2>3, <2>4 DEF Ever
    <2>6. TaskInv(rec)'
      BY <1>0, <2>1, <2>3, <2>4, <2>5 DEF TaskInv, Ever
    <2>7. ASSUME NEW q \in Due'
          PROVE  q \in mem' \/ Delivers(rec, q)
                 \/ (q \in Due /\ q \notin mem /\ ~Delivers(task[t], q))
      BY <2>1, <2>2, <2>3, <2>4, <2>7 DEF Due, Delivers
    <2>. QED
      BY <1>0, <2>2, <2>3, <2>4, <2>5, <2>6, <2>7, TaskStep
  <1>2. ASSUME UpdateMemory(t) PROVE AuthInv'
    <2>1. PICK r \in task[t].stored :
              /\ become(t, [task[t] EXCEPT !.stored = @ \ {r}])
              /\ mem' = IF task[t].kind = "revoke" THEN mem \ {r} ELSE mem \cup {r}
      BY <1>2 DEF UpdateMemory
    <2>2. UNCHANGED <<db, session, outOfBand, removed, loadFailed>>
      BY <1>2 DEF UpdateMemory, history
    <2>3. r \in Rules
      BY <1>0 DEF TaskRecords
    <2>4. PICK rec \in TaskRecords :
              /\ become(t, rec)
              /\ rec.kind = task[t].kind /\ rec.load = task[t].load /\ rec.rows = task[t].rows
              /\ rec.stored = task[t].stored \ {r}
      <3>. DEFINE new == [task[t] EXCEPT !.stored = @ \ {r}]
      <3>1. /\ new \in TaskRecords
            /\ new.kind = task[t].kind /\ new.load = task[t].load /\ new.rows = task[t].rows
            /\ new.stored = task[t].stored \ {r}
        BY <1>0 DEF TaskRecords
      <3>2. become(t, new)
        BY <2>1
      <3>. HIDE DEF new
      <3>. QED BY <3>1, <3>2
    <2>5. Ever' = Ever /\ mem' \subseteq Ever /\ mem' \subseteq Rules
      BY <1>0, <2>1, <2>2, <2>3, <2>4 DEF Ever, TaskInv
    <2>6. TaskInv(rec)'
      BY <1>0, <2>2, <2>3, <2>4, <2>5 DEF TaskInv
    <2>7. ASSUME NEW q \in Due'
          PROVE  q \in mem' \/ Delivers(rec, q)
                 \/ (q \in Due /\ q \notin mem /\ ~Delivers(task[t], q))
      BY <1>0, <2>1, <2>2, <2>3, <2>4, <2>7 DEF Due, Delivers, TaskInv
    <2>. QED
      BY <1>0, <2>2, <2>3, <2>4, <2>5, <2>6, <2>7, TaskStep
  <1>3. ASSUME ClearPolicy(t) PROVE AuthInv'
    <2>1. mem' = {} /\ become(t, [task[t] EXCEPT !.load = "cleared"])
      BY <1>3 DEF ClearPolicy
    <2>2. UNCHANGED <<db, session, outOfBand, removed, loadFailed>>
      BY <1>3 DEF ClearPolicy, history
    <2>4. PICK rec \in TaskRecords :
              /\ become(t, rec)
              /\ rec.kind = task[t].kind /\ rec.load = "cleared" /\ rec.rows = task[t].rows
              /\ rec.stored = task[t].stored
      <3>. DEFINE new == [task[t] EXCEPT !.load = "cleared"]
      <3>1. /\ new \in TaskRecords
            /\ new.kind = task[t].kind /\ new.load = "cleared" /\ new.rows = task[t].rows
            /\ new.stored = task[t].stored
        BY <1>0 DEF TaskRecords
      <3>2. become(t, new)
        BY <2>1
      <3>. HIDE DEF new
      <3>. QED BY <3>1, <3>2
    <2>5. Ever' = Ever
      BY <2>2 DEF Ever
    <2>6. TaskInv(rec)'
      BY <1>0, <2>2, <2>4, <2>5 DEF TaskInv
    <2>7. ASSUME NEW q \in Due' PROVE Delivers(rec, q)
      BY <2>4 DEF Delivers
    <2>. QED
      BY <1>0, <2>1, <2>2, <2>4, <2>5, <2>6, <2>7, TaskStep
  <1>4. ASSUME ReadRows(t) PROVE AuthInv'
    <2>1. task[t].load = "cleared" /\ become(t, [task[t] EXCEPT !.load = "read", !.rows = db])
      BY <1>4 DEF ReadRows
    <2>2. UNCHANGED <<db, mem, session, outOfBand, removed, loadFailed>>
      BY <1>4 DEF ReadRows, history
    <2>4. PICK rec \in TaskRecords :
              /\ become(t, rec)
              /\ rec.kind = task[t].kind /\ rec.load = "read" /\ rec.rows = db
              /\ rec.stored = task[t].stored
      <3>. DEFINE new == [task[t] EXCEPT !.load = "read", !.rows = db]
      <3>1. /\ new \in TaskRecords
            /\ new.kind = task[t].kind /\ new.load = "read" /\ new.rows = db
            /\ new.stored = task[t].stored
        BY <1>0 DEF TaskRecords
      <3>2. become(t, new)
        BY <2>1
      <3>. HIDE DEF new
      <3>. QED BY <3>1, <3>2
    <2>5. Ever' = Ever /\ db \subseteq Ever
      BY <2>2 DEF Ever
    <2>6. TaskInv(rec)'
      BY <1>0, <2>2, <2>4, <2>5 DEF TaskInv
    <2>7. ASSUME NEW q \in Due' PROVE Delivers(rec, q)
      BY <2>2, <2>4, <2>7 DEF Delivers, Due
    <2>. QED
      BY <1>0, <2>2, <2>4, <2>5, <2>6, <2>7, TaskStep
  <1>5. ASSUME FillPolicy(t) PROVE AuthInv'
    <2>1. /\ task[t].load = "read" /\ mem' = mem \cup task[t].rows
          /\ become(t, [task[t] EXCEPT !.load = "done", !.rows = {}])
      BY <1>5 DEF FillPolicy
    <2>2. UNCHANGED <<db, session, outOfBand, removed, loadFailed>>
      BY <1>5 DEF FillPolicy, history
    <2>3. task[t].rows \subseteq Rules
      BY <1>0 DEF TaskRecords
    <2>4. PICK rec \in TaskRecords :
              /\ become(t, rec)
              /\ rec.kind = task[t].kind /\ rec.load = "done" /\ rec.rows = {}
              /\ rec.stored = task[t].stored
      <3>. DEFINE new == [task[t] EXCEPT !.load = "done", !.rows = {}]
      <3>1. /\ new \in TaskRecords
            /\ new.kind = task[t].kind /\ new.load = "done" /\ new.rows = {}
            /\ new.stored = task[t].stored
        BY <1>0 DEF TaskRecords
      <3>2. become(t, new)
        BY <2>1
      <3>. HIDE DEF new
      <3>. QED BY <3>1, <3>2
    <2>5. Ever' = Ever /\ mem' \subseteq Ever /\ mem' \subseteq Rules
      BY <1>0, <2>1, <2>2, <2>3, <2>4 DEF Ever, TaskInv
    <2>6. TaskInv(rec)'
      BY <1>0, <2>2, <2>3, <2>4, <2>5 DEF TaskInv
    <2>7. ASSUME NEW q \in Due'
          PROVE  q \in mem' \/ Delivers(rec, q)
                 \/ (q \in Due /\ q \notin mem /\ ~Delivers(task[t], q))
      BY <2>1, <2>2, <2>3, <2>4, <2>7 DEF Due, Delivers
    <2>. QED
      BY <1>0, <2>2, <2>3, <2>4, <2>5, <2>6, <2>7, TaskStep
  <1>6. ASSUME StoreFails(t) PROVE AuthInv'
    <2>1. PICK r \in task[t].todo :
              become(t, [task[t] EXCEPT !.todo = @ \ {r}, !.failed = TRUE])
      BY <1>6 DEF StoreFails
    <2>2. UNCHANGED <<db, mem, session, outOfBand, removed, loadFailed>>
      BY <1>6 DEF StoreFails
    <2>4. PICK rec \in TaskRecords :
              /\ become(t, rec)
              /\ rec.kind = task[t].kind /\ rec.load = task[t].load /\ rec.rows = task[t].rows
              /\ rec.stored = task[t].stored
      <3>. DEFINE new == [task[t] EXCEPT !.todo = @ \ {r}, !.failed = TRUE]
      <3>1. /\ new \in TaskRecords
            /\ new.kind = task[t].kind /\ new.load = task[t].load /\ new.rows = task[t].rows
            /\ new.stored = task[t].stored
        BY <1>0 DEF TaskRecords
      <3>2. become(t, new)
        BY <2>1
      <3>. HIDE DEF new
      <3>. QED BY <3>1, <3>2
    <2>5. Ever' = Ever
      BY <2>2 DEF Ever
    <2>6. TaskInv(rec)'
      BY <1>0, <2>2, <2>4, <2>5 DEF TaskInv
    <2>7. ASSUME NEW q \in Due'
          PROVE  q \in mem' \/ Delivers(rec, q)
                 \/ (q \in Due /\ q \notin mem /\ ~Delivers(task[t], q))
      BY <2>2, <2>4, <2>7 DEF Due, Delivers
    <2>. QED
      BY <1>0, <2>2, <2>4, <2>5, <2>6, <2>7, TaskStep
  <1>7. ASSUME LoadFails(t) PROVE AuthInv'
    <2>1. become(t, [task[t] EXCEPT !.load = "failed"]) /\ loadFailed' = TRUE
      BY <1>7 DEF LoadFails
    <2>2. UNCHANGED <<db, mem, session, outOfBand, removed>>
      BY <1>7 DEF LoadFails
    <2>4. PICK rec \in TaskRecords :
              /\ become(t, rec)
              /\ rec.kind = task[t].kind /\ rec.rows = task[t].rows
              /\ rec.stored = task[t].stored
      <3>. DEFINE new == [task[t] EXCEPT !.load = "failed"]
      <3>1. /\ new \in TaskRecords
            /\ new.kind = task[t].kind /\ new.rows = task[t].rows
            /\ new.stored = task[t].stored
        BY <1>0 DEF TaskRecords
      <3>2. become(t, new)
        BY <2>1
      <3>. HIDE DEF new
      <3>. QED BY <3>1, <3>2
    <2>5. Ever' = Ever
      BY <2>2 DEF Ever
    <2>6. TaskInv(rec)'
      BY <1>0, <2>2, <2>4, <2>5 DEF TaskInv
    <2>. QED
      BY <1>0, <2>1, <2>2, <2>4, <2>5, <2>6, TaskStep
  <1>. QED
    BY <1>1, <1>2, <1>3, <1>4, <1>5, <1>6, <1>7 DEF Progress, Failures

\* The policy that a handler of a logged-in user is about.
LEMMA IdOfUser ==
    ASSUME AuthInv, NEW sid \in Sids, loggedIn(sid)
    PROVE  idOf(session[sid]) \in DOMAIN Sciper /\ Sciper[idOf(session[sid])] = session[sid]
  BY DEF AuthInv, AuthTypeOK, idOf

LEMMA UsersOfSciper ==
    \A u \in DOMAIN Sciper : u \in UserIDs /\ Sciper[u] # NoUser
  <1>1. DOMAIN Sciper \subseteq UserIDs /\ NoUser \notin Range(Sciper)
    BY BackendAssumption
  <1>. QED BY <1>1 DEF Range

\* Policies for users that requests may name.
LEMMA RuleType ==
    ASSUME NEW u \in UserIDs, NEW g \in Rights
    PROVE  <<u, g[1], g[2]>> \in Rules
  BY DEF Rules

LEMMA OwnRule ==
    ASSUME NEW u \in UserIDs, NEW f \in FormIDs, NEW p \in {"own", "vote"}
    PROVE  <<u, f, p>> \in Rules
  <1>1. <<f, p>> \in Rights /\ <<f, p>>[1] = f /\ <<f, p>>[2] = p
    BY DEF Rights
  <1>. QED BY <1>1, RuleType

\* The requests that start a handler.
LEMMA AddRoleStep ==
    ASSUME AuthInv, NEW t \in Tasks, NEW sid, NEW kind \in {"single", "list"}, NEW users,
           NEW g \in Grants, AddRole(t, sid, kind, users, g[1], g[2])
    PROVE  AuthInv'
  <1>. DEFINE isRefused == g[2] = "vote" /\ ~isAuthorized(session[sid], g[1], "own")
              rules == {<<u, g[1], g[2]>> : u \in users}
              rec == adding(kind, rules, isRefused)
  <1>1. rules \subseteq Rules
    <2>. SUFFICES ASSUME NEW u \in users PROVE <<u, g[1], g[2]>> \in Rules
      OBVIOUS
    <2>1. u \in DOMAIN Sciper
      BY DEF AddRole
    <2>2. u \in UserIDs
      BY <2>1, UsersOfSciper
    <2>3. g \in Rights
      BY DEF Rights
    <2>. QED BY <2>2, <2>3, RuleType
  <1>2. isRefused \in BOOLEAN
    BY Zenon
  <1>3. start(t, rec) /\ UNCHANGED <<db, mem, session, history>>
    BY DEF AddRole
  <1>. HIDE DEF rules, isRefused
  <1>4. rec \in TaskRecords /\ rec.stored = {} /\ rec.rows = {}
    BY <1>1, <1>2 DEF adding, TaskRecords
  <1>. HIDE DEF rec
  <1>. QED
    BY <1>3, <1>4, StartStep

LEMMA OwnerSteps ==
    ASSUME AuthInv, NEW t \in Tasks, NEW sid \in Sids, NEW f \in FormIDs,
           PutAuthorizations(t, sid, f) \/ RevokeOwner(t, sid, f)
    PROVE  AuthInv'
  <1>. DEFINE rule == <<idOf(session[sid]), f, "own">>
  <1>1. rule \in Rules
    <2>0. loggedIn(sid)
      BY DEF PutAuthorizations, RevokeOwner
    <2>1. idOf(session[sid]) \in UserIDs
      BY <2>0, IdOfUser, UsersOfSciper
    <2>. HIDE DEF rule
    <2>2. ASSUME NEW u \in UserIDs PROVE <<u, f, "own">> \in Rules
      BY OwnRule
    <2>. QED BY <2>1, <2>2 DEF rule
  <1>2. CASE PutAuthorizations(t, sid, f)
    <2>1. start(t, adding("own", {rule}, FALSE)) /\ UNCHANGED <<db, mem, session, history>>
      BY <1>2 DEF PutAuthorizations
    <2>. HIDE DEF rule
    <2>. DEFINE rec == adding("own", {rule}, FALSE)
    <2>2. rec \in TaskRecords /\ rec.stored = {} /\ rec.rows = {}
      BY <1>1 DEF adding, TaskRecords
    <2>. HIDE DEF rec
    <2>. QED BY <2>1, <2>2, StartStep DEF rec
  <1>3. CASE RevokeOwner(t, sid, f)
    <2>1. start(t, removing(rule)) /\ UNCHANGED <<db, mem, session, history>>
      BY <1>3 DEF RevokeOwner
    <2>. HIDE DEF rule
    <2>. DEFINE rec == removing(rule)
    <2>2. rec \in TaskRecords /\ rec.stored = {} /\ rec.rows = {}
      BY <1>1 DEF removing, TaskRecords
    <2>. HIDE DEF rec
    <2>. QED BY <2>1, <2>2, StartStep DEF rec
  <1>. QED
    BY <1>2, <1>3

\* Logins and logouts leave the policies alone.
LEMMA SessionSteps ==
    ASSUME AuthInv, NEW sid \in Sids, UNCHANGED <<policies, history>>,
           NEW v, v = NoUser \/ (\E u \in DOMAIN Sciper : v = Sciper[u]),
           session' = [session EXCEPT ![sid] = v]
    PROVE  AuthInv'
  <1>1. UNCHANGED <<db, mem, task, outOfBand, removed, loadFailed>>
    BY DEF policies, history
  <1>2. TasksInv' /\ NoUnsavedRight'
    BY <1>1 DEF AuthInv, TasksInv, TaskInv, NoUnsavedRight, Ever, running
  <1>3. DueInv'
    BY <1>1 DEF AuthInv, DueInv, Due, Delivers, running
  <1>4. AuthTypeOK'
    BY <1>1 DEF AuthInv, AuthTypeOK, loggedIn, running
  <1>. QED
    BY <1>2, <1>3, <1>4 DEF AuthInv

LEMMA LoginsStep ==
    ASSUME AuthInv, NEW sid \in Sids, Logins(sid)
    PROVE  AuthInv'
  <1>1. ASSUME NEW u \in DOMAIN Sciper, session' = [session EXCEPT ![sid] = Sciper[u]],
               UNCHANGED <<policies, history>>
        PROVE  AuthInv'
    BY <1>1, SessionSteps
  <1>2. ASSUME session' = [session EXCEPT ![sid] = NoUser], UNCHANGED <<policies, history>>
        PROVE  AuthInv'
    BY <1>2, SessionSteps
  <1>. QED
    BY <1>1, <1>2 DEF Logins, DevLogin, ControlKey, Logout, SessionExpires

\* The command line changes the database behind the back of the backend: what
\* it adds is not due, and what it takes away was removed.
LEMMA CommandsStep ==
    ASSUME AuthInv, CommandLine
    PROVE  AuthInv' /\ Ever \subseteq Ever'
  <1>1. UNCHANGED <<mem, task, session, loadFailed>>
    BY DEF CommandLine, addAdmin, removeAdmin, addVoters, command
  <1>2. /\ db' \subseteq Rules
        /\ removed \subseteq removed'
        /\ db \subseteq db' \cup removed'
        /\ db' \subseteq db \cup outOfBand'
        /\ outOfBand \subseteq outOfBand'
    <2>0. db \subseteq Rules
      BY DEF AuthInv, AuthTypeOK
    <2>1. ASSUME NEW rules \in SUBSET Rules, addPolicies(rules), UNCHANGED removed
          PROVE  <1>2!:
      BY <2>0, <2>1 DEF addPolicies
    <2>2. ASSUME NEW u \in UserIDs, addAdmin(u) PROVE <1>2!:
      <3>. DEFINE rules == {<<u, g[1], g[2]>> : g \in AdminRights}
      <3>1. rules \subseteq Rules
        BY RuleType DEF Rights
      <3>2. addPolicies(rules) /\ UNCHANGED removed
        BY <2>2 DEF addAdmin
      <3>. HIDE DEF rules
      <3>. QED BY <2>1, <3>1, <3>2
    <2>3. ASSUME NEW users, NEW f \in FormIDs, addVoters(users, f) PROVE <1>2!:
      <3>. DEFINE rules == {<<u, f, "vote">> : u \in users}
      <3>1. rules \subseteq Rules
        <4>. SUFFICES ASSUME NEW u \in users PROVE <<u, f, "vote">> \in Rules
          OBVIOUS
        <4>1. u \in UserIDs
          BY <2>3, UsersOfSciper DEF addVoters
        <4>. QED BY <4>1, OwnRule
      <3>2. addPolicies(rules) /\ UNCHANGED removed
        BY <2>3 DEF addVoters
      <3>. HIDE DEF rules
      <3>. QED BY <2>1, <3>1, <3>2
    <2>4. ASSUME NEW u \in UserIDs, removeAdmin(u) PROVE <1>2!:
      BY <2>0, <2>4 DEF removeAdmin
    <2>. QED BY <2>2, <2>3, <2>4 DEF CommandLine
  <1>3. Ever \subseteq Ever'
    BY <1>2 DEF Ever
  <1>4. TasksInv' /\ NoUnsavedRight'
    BY <1>1, <1>2, <1>3 DEF AuthInv, TasksInv, TaskInv, NoUnsavedRight, Ever, running
  <1>5. Due' \subseteq Due
    BY <1>2 DEF Due
  <1>6. DueInv'
    BY <1>1, <1>5 DEF AuthInv, DueInv, Delivers, running
  <1>7. AuthTypeOK'
    BY <1>1, <1>2 DEF AuthInv, AuthTypeOK, loggedIn, running
  <1>. QED
    BY <1>3, <1>4, <1>6, <1>7 DEF AuthInv

\* After a restart the memory is the database.
LEMMA RestartStep ==
    ASSUME AuthInv, Restart
    PROVE  AuthInv'
  <1>1. \A t \in Tasks : ~running(t)'
    BY DEF Restart, running
  <1>2. \A sid \in Sids : ~loggedIn(sid)'
    BY DEF Restart, loggedIn
  <1>. QED
    BY <1>1, <1>2
    DEF Restart, AuthInv, AuthTypeOK, TasksInv, NoUnsavedRight, DueInv, Due, Ever

LEMMA RightsAtStart ==
    ASSUME AuthInit
    PROVE  AuthInv
  <1>1. (\A t \in Tasks : ~running(t)) /\ (\A sid \in Sids : ~loggedIn(sid))
    BY DEF AuthInit, running, loggedIn
  <1>2. InitialDB \subseteq Rules
    BY BackendAssumption
  <1>. QED
    BY <1>1, <1>2 DEF AuthInit, AuthInv, AuthTypeOK, TasksInv, NoUnsavedRight, DueInv, Due

\* AuthInv holds in every state of the backend.
THEOREM RightsHold == AuthSpec => []AuthInv
  <1>1. AuthInit => AuthInv
    BY RightsAtStart
  <1>2. AuthInv /\ [AuthNext]_authVars => AuthInv'
    <2>. SUFFICES ASSUME AuthInv, [AuthNext]_authVars PROVE AuthInv'
      OBVIOUS
    <2>1. ASSUME NEW t \in Tasks, NEW sid \in Sids, Roles(t, sid) PROVE AuthInv'
      BY <2>1, AddRoleStep, OwnerSteps DEF Roles
    <2>2. ASSUME NEW t \in Tasks, NEW sid \in Sids, NEW f \in FormIDs, RevokeOwner(t, sid, f)
          PROVE  AuthInv'
      BY <2>2, OwnerSteps
    <2>3. CASE UNCHANGED authVars
      <3>1. UNCHANGED <<db, mem, task, session, outOfBand, removed, loadFailed>>
        BY <2>3 DEF authVars, policies, history
      <3>. QED
        BY <3>1 DEF AuthInv, AuthTypeOK, TasksInv, TaskInv, NoUnsavedRight, DueInv, Due,
                    Delivers, Ever, running, loggedIn
    <2>. QED
      BY <2>1, <2>2, <2>3, HandlerSteps, LoginsStep, CommandsStep, RestartStep DEF AuthNext
  <1>. QED
    BY <1>1, <1>2, PTL DEF AuthSpec

\* No write that failed, and no reload that crosses another addition, puts a
\* right in force that nobody stored (addPolicy, addListPolicy, authManager.ts).
THEOREM RightsAreStored == AuthSpec => []NoUnsavedRight
  <1>1. AuthInv => NoUnsavedRight
    BY DEF AuthInv
  <1>. QED
    BY <1>1, RightsHold, PTL

\* Once no handler runs, every right that the backend stored is in force: a
\* reload drops no right that another request has just added.
THEOREM StoredRightsInForce == AuthSpec => []StoredIsInForce
  <1>1. AuthInv => StoredIsInForce
    BY DEF AuthInv, DueInv, Due, StoredIsInForce
  <1>. QED
    BY <1>1, RightsHold, PTL

-----------------------------------------------------------------------------
(***************************************************************************)
(* The tabs of a browser. A tab keeps the rights it was told, and the      *)
(* login it was told or forgot: the invariant ties the copy to who was     *)
(* logged in when it was made, from the moment the answer arrived.         *)
(***************************************************************************)

Contents == {"loading", "proxy", "app", "failed"}

ShellTypeOK ==
    /\ DOMAIN content = Tabs /\ DOMAIN auth = Tabs /\ DOMAIN asked = Tabs
    /\ \A w \in Tabs : content[w] \in Contents
    /\ \A w \in Tabs : auth[w] = [isLogged |-> auth[w].isLogged,
                                  authorization |-> auth[w].authorization]

\* Every right in the copy of a tab is or was stored for the user it asked for.
CopyInv ==
    \A w \in Tabs : \A s, p :
        isAllowed(auth[w], s, p) => <<idOf(asked[w]), s, p>> \in Ever

ShellInv == AuthInv /\ ShellTypeOK /\ CopyInv

\* The context of a tab that was not told anything allows nothing.
LEMMA NothingAllowed == \A s, p : ~isAllowed(defaultAuth, s, p)
  BY DEF isAllowed, defaultAuth

\* What personal_info answers is what the enforcer holds for the user.
LEMMA AnswerIsInForce ==
    ASSUME mem \subseteq Rules, NEW user, NEW s, NEW p, NEW ctx,
           ctx.authorization = setMapAuthorization(user), isAllowed(ctx, s, p)
    PROVE  <<idOf(user), s, p>> \in mem
  <1>. DEFINE mine == {r \in mem : r[1] = idOf(user)}
              Of(x) == {r[3] : r \in {q \in mine : q[2] = x}}
  <1>1. setMapAuthorization(user) = [x \in {r[2] : r \in mine} |-> Of(x)]
    BY DEF setMapAuthorization
  <1>2. s \in {r[2] : r \in mine} /\ p \in Of(s)
    <2>. HIDE DEF mine, Of
    <2>. QED BY <1>1 DEF isAllowed
  <1>3. PICK q \in mine : q[2] = s /\ p = q[3]
    BY <1>2
  <1>4. q \in mem /\ q[1] = idOf(user)
    BY <1>3
  <1>5. PICK u \in UserIDs, g \in Rights : q = <<u, g[1], g[2]>>
    BY <1>4 DEF Rules
  <1>6. q = <<q[1], q[2], q[3]>>
    BY <1>5
  <1>. QED
    BY <1>3, <1>4, <1>6

\* What the steps of the browser do to the backend.
LEMMA BackendSteps ==
    ASSUME AuthInv, [ShellNext]_allVars
    PROVE  AuthInv' /\ Ever \subseteq Ever'
  <1>1. ASSUME UNCHANGED authVars PROVE AuthInv' /\ Ever \subseteq Ever'
    <2>1. UNCHANGED <<db, mem, task, session, outOfBand, removed, loadFailed>>
      BY <1>1 DEF authVars, policies, history
    <2>. QED
      BY <2>1 DEF AuthInv, AuthTypeOK, TasksInv, TaskInv, NoUnsavedRight, DueInv, Due,
                  Delivers, Ever, running, loggedIn
  <1>2. ASSUME \/ \E u \in UserIDs : DevLogin(Browser, u) \/ ControlKey(Browser, u)
               \/ Logout(Browser) \/ SessionExpires(Browser)
        PROVE  AuthInv' /\ Ever \subseteq Ever'
    <2>1. Logins(Browser)
      BY <1>2 DEF Logins
    <2>2. UNCHANGED <<policies, history>>
      BY <1>2 DEF DevLogin, ControlKey, Logout, SessionExpires
    <2>3. Ever' = Ever
      BY <2>2 DEF policies, history, Ever
    <2>. QED
      BY <2>1, <2>3, LoginsStep, BrowserAssumption
  <1>3. ASSUME NEW w \in Tabs, Tab(w) PROVE AuthInv' /\ Ever \subseteq Ever'
    <2>1. \/ UNCHANGED authVars
          \/ \E u \in UserIDs : DevLogin(Browser, u) \/ ControlKey(Browser, u)
          \/ Logout(Browser)
      BY <1>3 DEF Tab, OpenPage, Navigate, DefaultProxy, PersonalInfo, LoadingFails,
                  ConfirmLogout, LogoutAnswerLost, HandleDevLogin, DevLoginAnswerLost,
                  HandleLogin, TequilaRefuses
    <2>. QED BY <1>1, <1>2, <2>1
  <1>4. ASSUME Restart PROVE Ever' = Ever
    BY <1>4 DEF Restart, Ever
  <1>5. ASSUME UNCHANGED allVars PROVE UNCHANGED authVars
    BY <1>5 DEF allVars
  <1>6. ASSUME NEW q \in UserIDs \cup {"logout"}, Arrives(q) PROVE AuthInv' /\ Ever \subseteq Ever'
    <2>1. UNCHANGED authVars \/ Logout(Browser) \/ \E u \in UserIDs : DevLogin(Browser, u)
      BY <1>6 DEF Arrives
    <2>. QED BY <1>1, <1>2, <2>1
  <1>. QED
    BY <1>1, <1>2, <1>3, <1>4, <1>5, <1>6, CommandsStep, RestartStep DEF ShellNext

\* A step of one tab keeps the invariant when what the tab holds afterwards does.
LEMMA TabStep ==
    ASSUME ShellInv, AuthInv', Ever \subseteq Ever', NEW w \in Tabs,
           DOMAIN content' = Tabs, DOMAIN auth' = Tabs, DOMAIN asked' = Tabs,
           \A v \in Tabs : v # w => content'[v] = content[v] /\ auth'[v] = auth[v]
                                    /\ asked'[v] = asked[v],
           content'[w] \in Contents,
           auth'[w] = [isLogged |-> auth'[w].isLogged, authorization |-> auth'[w].authorization],
           \A s, p : isAllowed(auth'[w], s, p) => <<idOf(asked'[w]), s, p>> \in Ever'
    PROVE  ShellInv'
  <1>1. ShellTypeOK'
    BY DEF ShellInv, ShellTypeOK
  <1>2. CopyInv'
    <2>. SUFFICES ASSUME NEW v \in Tabs, NEW s, NEW p, isAllowed(auth'[v], s, p)
                  PROVE  <<idOf(asked'[v]), s, p>> \in Ever'
      BY DEF CopyInv, isAllowed, idOf
    <2>1. CASE v = w
      BY <2>1
    <2>2. CASE v # w
      <3>1. auth'[v] = auth[v] /\ asked'[v] = asked[v]
        BY <2>2
      <3>2. <<idOf(asked[v]), s, p>> \in Ever
        BY <3>1 DEF ShellInv, CopyInv
      <3>. QED BY <3>1, <3>2
    <2>. QED BY <2>1, <2>2
  <1>. QED
    BY <1>1, <1>2 DEF ShellInv

\* A tab that is loaded again holds nothing.
LEMMA LoadStep ==
    ASSUME ShellInv, AuthInv', Ever \subseteq Ever', NEW w \in Tabs, load(w), UNCHANGED asked
    PROVE  ShellInv'
  <1>1. /\ DOMAIN content' = Tabs /\ DOMAIN auth' = Tabs /\ DOMAIN asked' = Tabs
        /\ \A v \in Tabs : v # w => content'[v] = content[v] /\ auth'[v] = auth[v]
                                    /\ asked'[v] = asked[v]
        /\ content'[w] = "loading" /\ auth'[w] = defaultAuth
    BY DEF load, ShellInv, ShellTypeOK
  <1>2. content'[w] \in Contents
    BY <1>1 DEF Contents
  <1>3. auth'[w] = [isLogged |-> auth'[w].isLogged, authorization |-> auth'[w].authorization]
    BY <1>1 DEF defaultAuth
  <1>4. \A s, p : ~isAllowed(auth'[w], s, p)
    BY <1>1, NothingAllowed
  <1>. QED
    BY <1>1, <1>2, <1>3, <1>4, TabStep

\* The answer of personal_info is a copy of what the enforcer holds.
LEMMA PersonalInfoStep ==
    ASSUME ShellInv, AuthInv', Ever \subseteq Ever', NEW w \in Tabs, PersonalInfo(w)
    PROVE  ShellInv'
  <1>. DEFINE told == [isLogged |-> TRUE, authorization |-> setMapAuthorization(session[Browser])]
  <1>1. /\ DOMAIN content' = Tabs /\ DOMAIN auth' = Tabs /\ DOMAIN asked' = Tabs
        /\ \A v \in Tabs : v # w => content'[v] = content[v] /\ auth'[v] = auth[v]
                                    /\ asked'[v] = asked[v]
        /\ content'[w] = "proxy" /\ asked'[w] = session[Browser]
        /\ auth'[w] = IF loggedIn(Browser) THEN told ELSE defaultAuth
    <2>. HIDE DEF told
    <2>. QED BY DEF PersonalInfo, ShellInv, ShellTypeOK, told
  <1>3. content'[w] \in Contents
    BY <1>1 DEF Contents
  <1>4. CASE loggedIn(Browser)
    <2>1. /\ auth'[w].isLogged
          /\ auth'[w].authorization = setMapAuthorization(session[Browser])
          /\ auth'[w] = [isLogged |-> auth'[w].isLogged,
                         authorization |-> auth'[w].authorization]
      BY <1>1, <1>4
    <2>2. mem \subseteq Rules /\ mem \subseteq Ever
      BY DEF ShellInv, AuthInv, AuthTypeOK, NoUnsavedRight, Ever
    <2>3. ASSUME NEW s, NEW p, isAllowed(auth'[w], s, p)
          PROVE  <<idOf(asked'[w]), s, p>> \in Ever'
      <3>1. <<idOf(session[Browser]), s, p>> \in mem
        BY <2>1, <2>2, <2>3, AnswerIsInForce
      <3>. QED BY <1>1, <2>2, <3>1
    <2>. QED
      BY <1>1, <1>3, <2>1, <2>3, TabStep
  <1>5. CASE ~loggedIn(Browser)
    <2>1. auth'[w] = [isLogged |-> auth'[w].isLogged, authorization |-> auth'[w].authorization]
      BY <1>1, <1>5 DEF defaultAuth
    <2>2. \A s, p : ~isAllowed(auth'[w], s, p)
      BY <1>1, <1>5, NothingAllowed
    <2>. QED
      BY <1>1, <1>3, <2>1, <2>2, TabStep
  <1>. QED
    BY <1>4, <1>5

\* The tab goes on with the copy it has.
LEMMA KeepsCopy ==
    ASSUME ShellInv, AuthInv', Ever \subseteq Ever', NEW w \in Tabs, UNCHANGED asked,
           DOMAIN content' = Tabs, DOMAIN auth' = Tabs,
           \A v \in Tabs : v # w => content'[v] = content[v] /\ auth'[v] = auth[v],
           content'[w] \in Contents,
           auth'[w].authorization = auth[w].authorization,
           auth'[w] = [isLogged |-> auth'[w].isLogged, authorization |-> auth'[w].authorization]
    PROVE  ShellInv'
  <1>1. \A s, p : isAllowed(auth'[w], s, p) => isAllowed(auth[w], s, p)
    BY DEF isAllowed
  <1>2. \A s, p : isAllowed(auth'[w], s, p) => <<idOf(asked'[w]), s, p>> \in Ever'
    BY <1>1 DEF ShellInv, CopyInv
  <1>3. DOMAIN asked' = Tabs /\ (\A v \in Tabs : asked'[v] = asked[v])
    BY DEF ShellInv, ShellTypeOK
  <1>. QED
    BY <1>2, <1>3, TabStep

LEMMA TabSteps ==
    ASSUME ShellInv, AuthInv', Ever \subseteq Ever', NEW w \in Tabs, Tab(w)
    PROVE  ShellInv'
  <1>0. /\ DOMAIN content = Tabs /\ DOMAIN auth = Tabs /\ content[w] \in Contents
        /\ auth[w] = [isLogged |-> auth[w].isLogged, authorization |-> auth[w].authorization]
    BY DEF ShellInv, ShellTypeOK
  <1>1. ASSUME NEW r, OpenPage(w, r) PROVE ShellInv'
    BY <1>1, LoadStep DEF OpenPage
  <1>2. ASSUME NEW u, HandleDevLogin(w, u) \/ HandleLogin(w, u) PROVE ShellInv'
    BY <1>2, LoadStep DEF HandleDevLogin, HandleLogin
  <1>3. ASSUME UNCHANGED <<content, auth, asked>> PROVE ShellInv'
    BY <1>0, <1>3, KeepsCopy
  <1>4. ASSUME NEW r, Navigate(w, r) \/ DevLoginAnswerLost(w, r) \/ LogoutAnswerLost(w)
        PROVE  UNCHANGED <<content, auth, asked>>
    BY <1>4 DEF Navigate, DevLoginAnswerLost, LogoutAnswerLost
  <1>5. ASSUME NEW c \in Contents, content' = [content EXCEPT ![w] = c], UNCHANGED <<auth, asked>>
        PROVE  ShellInv'
    <2>1. /\ DOMAIN content' = Tabs /\ content'[w] \in Contents
          /\ \A v \in Tabs : v # w => content'[v] = content[v]
      BY <1>0, <1>5
    <2>. QED BY <1>0, <1>5, <2>1, KeepsCopy
  <1>6. ASSUME NEW r, DefaultProxy(w, r) \/ LoadingFails(w) \/ TequilaRefuses(w) PROVE ShellInv'
    BY <1>5, <1>6 DEF DefaultProxy, LoadingFails, TequilaRefuses, Contents
  <1>7. ASSUME ConfirmLogout(w) PROVE ShellInv'
    <2>1. /\ UNCHANGED <<content, asked>>
          /\ auth' = [auth EXCEPT ![w].isLogged = FALSE]
      BY <1>7 DEF ConfirmLogout, loggedOut
    <2>2. /\ DOMAIN auth' = Tabs
          /\ auth'[w] = [isLogged |-> FALSE, authorization |-> auth[w].authorization]
          /\ \A v \in Tabs : v # w => auth'[v] = auth[v]
      BY <1>0, <2>1
    <2>3. /\ auth'[w].authorization = auth[w].authorization
          /\ auth'[w] = [isLogged |-> auth'[w].isLogged,
                         authorization |-> auth'[w].authorization]
      BY <2>2
    <2>. QED BY <1>0, <2>1, <2>2, <2>3, KeepsCopy
  <1>8. ASSUME PersonalInfo(w) PROVE ShellInv'
    BY <1>8, PersonalInfoStep
  <1>. QED
    BY <1>1, <1>2, <1>3, <1>4, <1>6, <1>7, <1>8 DEF Tab

\* ShellInv holds in every state of a browser and the backend.
THEOREM TabsHold == ShellSpec => []ShellInv
  <1>1. ShellInit => ShellInv
    <2>. SUFFICES ASSUME ShellInit PROVE ShellInv
      OBVIOUS
    <2>1. AuthInv
      BY RightsAtStart DEF ShellInit
    <2>2. \A w \in Tabs : content[w] = "loading" /\ auth[w] = defaultAuth
      BY DEF ShellInit
    <2>3. ShellTypeOK
      BY DEF ShellInit, ShellTypeOK, Contents, defaultAuth
    <2>4. CopyInv
      BY <2>2, NothingAllowed DEF CopyInv
    <2>. QED BY <2>1, <2>3, <2>4 DEF ShellInv
  <1>2. ShellInv /\ [ShellNext]_allVars => ShellInv'
    <2>. SUFFICES ASSUME ShellInv, [ShellNext]_allVars PROVE ShellInv'
      OBVIOUS
    <2>1. AuthInv' /\ Ever \subseteq Ever'
      BY BackendSteps DEF ShellInv
    <2>2. ASSUME UNCHANGED <<content, auth, asked>> PROVE ShellInv'
      <3>1. ShellTypeOK'
        BY <2>2 DEF ShellInv, ShellTypeOK
      <3>2. CopyInv'
        BY <2>1, <2>2 DEF ShellInv, CopyInv, isAllowed, idOf
      <3>. QED BY <2>1, <3>1, <3>2 DEF ShellInv
    <2>3. ASSUME UNCHANGED shellVars PROVE UNCHANGED <<content, auth, asked>>
      BY <2>3 DEF shellVars
    <2>4. CASE UNCHANGED allVars
      BY <2>2, <2>3, <2>4 DEF allVars
    <2>5. CASE ShellNext
      BY <2>1, <2>2, <2>3, <2>5, TabSteps DEF ShellNext, Arrives
    <2>. QED BY <2>4, <2>5
  <1>. QED
    BY <1>1, <1>2, PTL DEF ShellSpec

\* A page that needs a right is displayed only to a tab whose user was stored
\* with that right (RequireAuth of App.tsx), however many tabs are open and
\* however old their copies are.
THEOREM PagesGranted == ShellSpec => []PagesWereGranted
  <1>1. ShellInv => PagesWereGranted
    <2>. SUFFICES ASSUME ShellInv, NEW w \in Tabs, displayed(w) \in DOMAIN Required
                  PROVE  /\ auth[w].isLogged
                         /\ <<idOf(asked[w]), Required[displayed(w)][1],
                              Required[displayed(w)][2]>> \in db \cup removed
      BY DEF PagesWereGranted
    <2>1. DOMAIN Required = {"form_create", "form_show", "admin"}
      BY DEF Required
    <2>2. content[w] \in {"loading", "proxy", "app", "failed"}
      BY DEF ShellInv, ShellTypeOK, Contents
    <2>3. content[w] = "app" /\ displayed(w) = RequireAuth(auth[w], route[w])
      BY <2>1, <2>2 DEF displayed
    <2>4. /\ auth[w].isLogged
          /\ isAllowed(auth[w], Required[displayed(w)][1], Required[displayed(w)][2])
      <3>1. route[w] \notin Public
        BY <2>1, <2>3 DEF RequireAuth, Public
      <3>2. auth[w].isLogged
        BY <2>1, <2>3, <3>1 DEF RequireAuth
      <3>3. route[w] \in DOMAIN Required
        BY <2>3, <3>1, <3>2 DEF RequireAuth
      <3>. QED
        BY <2>1, <2>3, <3>1, <3>2, <3>3 DEF RequireAuth
    <2>. QED
      BY <2>4 DEF ShellInv, CopyInv, Ever
  <1>. QED
    BY <1>1, TabsHold, PTL
=============================================================================
