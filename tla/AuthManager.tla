---------------------------- MODULE AuthManager ----------------------------
(***************************************************************************)
(* The rights of users in the web backend (web/backend): the sessions of   *)
(* the browsers, and the casbin policies kept in memory and in Postgres.   *)
(*                                                                         *)
(* A handler runs without interruption up to its first await. What it does *)
(* afterwards is a task of the event loop, whose steps interleave with     *)
(* those of the other tasks. A request that is refused changes nothing and *)
(* is an action that is not enabled; add_role answers a refusal and goes   *)
(* on, and its task is marked as refused.                                  *)
(***************************************************************************)
EXTENDS Integers, Sequences, FiniteSets, Functions

CONSTANTS
    UserIDs,       \* user ID strings that requests carry
    Sciper,        \* readSCIPER: the number of each ID string that it accepts
    FormIDs,       \* IDs of forms
    Grants,        \* <<subject, permission>> pairs that admins ask for
    Sids,          \* session IDs
    Tasks,         \* slots for handlers that run concurrently
    NoTask,        \* a free slot
    NoUser,        \* a session in which nobody is logged in
    DEV_LOGIN,     \* REACT_APP_DEV_LOGIN === 'true'
    InitialDB,     \* the policies stored when the backend starts
    MaxEvents      \* bound: failing database calls and commands of the command line, together

\* A policy <<ID string, subject, permission>>, e.g. <<u, "roles", "add">>.
AdminRights ==
    {<<"roles", "add">>, <<"roles", "list">>, <<"roles", "remove">>, <<"proxies", "post">>,
     <<"proxies", "put">>, <<"proxies", "delete">>, <<"election", "create">>}
Rights == AdminRights \cup Grants \cup (FormIDs \X {"own", "vote"})
Rules == {<<u, g[1], g[2]>> : u \in UserIDs, g \in Rights}

\* The numbers that readSCIPER accepts
Numbers == 100000 .. 999999

ASSUME BackendAssumption ==
    /\ DOMAIN Sciper \subseteq UserIDs
    /\ \A u \in DOMAIN Sciper : Sciper[u] \in Numbers
    /\ NoUser \notin Range(Sciper)
    /\ InitialDB \subseteq Rules
    /\ MaxEvents \in Nat

\* A running handler: the policies it still has to store (or delete), the ones
\* the memory has yet to follow in, and its reload.
TaskRecords ==
    [kind : {"single", "list", "own", "revoke"}, todo : SUBSET Rules, stored : SUBSET Rules,
     failed : BOOLEAN, load : {"none", "cleared", "read", "done", "failed"},
     rows : SUBSET Rules, refused : BOOLEAN]

ASSUME TaskAssumption == NoTask \notin TaskRecords

VARIABLES
    db,            \* the policies in the database
    mem,           \* the policies of the enforcer, which is what requests are checked against
    task,          \* what each running handler still has to do
    session,       \* req.session.userId of each session ID (nothing reads sciper2sess)
    outOfBand,     \* history: policies the command line stored since the last restart
    removed,       \* history: policies that were deleted from the database
    loadFailed,    \* history: a reload has failed since the last restart
    events         \* failing database calls and commands of the command line so far

policies == <<db, mem, task>>
history == <<outOfBand, removed, loadFailed, events>>
authVars == <<policies, session, history>>

-----------------------------------------------------------------------------
(* Authorization. *)

\* Policies name users by string and sessions by number: the matcher of
\* model.conf compares them with ==, which converts the string.
isAuthorized(user, subject, permission) ==
    \E u \in DOMAIN Sciper : Sciper[u] = user /\ <<u, subject, permission>> \in mem

loggedIn(sid) == session[sid] # NoUser

\* String(req.session.userId)
idOf(user) == CHOOSE u \in DOMAIN Sciper : Sciper[u] = user

\* What personal_info answers: the subjects of the user's policies, each with
\* its permissions.
setMapAuthorization(user) ==
    LET mine == {r \in mem : r[1] = idOf(user)}
    IN  [s \in {r[2] : r \in mine} |-> {r[3] : r \in {q \in mine : q[2] = s}}]

-----------------------------------------------------------------------------
(* The enforcer: addPolicy and removePolicy look at the memory, await the   *)
(* database and then update the memory; loadPolicy empties the memory,      *)
(* awaits the rows of the database and adds them to the memory.             *)

\* Starts the calls of addPolicy for rules, which do nothing for the ones in memory.
adding(kind, rules, isRefused) ==
    [kind |-> kind, todo |-> rules \ mem, stored |-> {}, failed |-> FALSE,
     load |-> "none", rows |-> {}, refused |-> isRefused]

\* Starts removePolicy, whose check of the memory precedes the first await.
removing(rule) ==
    [kind |-> "revoke", todo |-> {rule} \cap mem, stored |-> {}, failed |-> FALSE,
     load |-> "none", rows |-> {}, refused |-> FALSE]

\* The single addition reloads after it succeeded, the list only after a
\* failure, and at once: Promise.all does not wait for the other additions.
reloads(t) ==
    \/ t.kind = "single" /\ t.todo = {} /\ t.stored = {} /\ ~t.failed
    \/ t.kind = "list" /\ t.failed

\* A handler that has nothing left to do frees its slot.
settled(t) ==
    /\ t.todo = {} /\ t.stored = {}
    /\ t.load \in {"done", "failed"} \/ (t.load = "none" /\ ~reloads(t))
become(t, rec) == task' = [task EXCEPT ![t] = IF settled(rec) THEN NoTask ELSE rec]

running(t) == task[t] # NoTask
event == events < MaxEvents /\ events' = events + 1

\* One of the database writes of a task succeeds.
StoreRow(t) ==
    /\ running(t)
    /\ \E r \in task[t].todo :
          /\ become(t, [task[t] EXCEPT !.todo = @ \ {r}, !.stored = @ \cup {r}])
          /\ IF task[t].kind = "revoke"
               THEN db' = db \ {r} /\ removed' = removed \cup {r}
               ELSE db' = db \cup {r} /\ UNCHANGED removed
    /\ UNCHANGED <<mem, session, outOfBand, loadFailed, events>>

\* Mutant: a failing write is taken for a successful one.
StoreFailsUnnoticed(t) ==
    /\ running(t)
    /\ event
    /\ \E r \in task[t].todo :
          become(t, [task[t] EXCEPT !.todo = @ \ {r}, !.stored = @ \cup {r}])
    /\ UNCHANGED <<db, mem, session, outOfBand, removed, loadFailed>>

\* One of them fails, and the memory is not updated for it.
StoreFails(t) ==
    /\ running(t)
    /\ event
    /\ \E r \in task[t].todo :
          become(t, [task[t] EXCEPT !.todo = @ \ {r}, !.failed = TRUE])
    /\ UNCHANGED <<db, mem, session, outOfBand, removed, loadFailed>>

\* The memory follows the database.
UpdateMemory(t) ==
    /\ running(t)
    /\ \E r \in task[t].stored :
          /\ become(t, [task[t] EXCEPT !.stored = @ \ {r}])
          /\ mem' = IF task[t].kind = "revoke" THEN mem \ {r} ELSE mem \cup {r}
    /\ UNCHANGED <<db, session, history>>

\* loadPolicy begins: nobody is authorized for anything.
ClearPolicy(t) ==
    /\ running(t)
    /\ task[t].load = "none" /\ reloads(task[t])
    /\ mem' = {}
    /\ become(t, [task[t] EXCEPT !.load = "cleared"])
    /\ UNCHANGED <<db, session, history>>

\* The database answers with its rows.
ReadRows(t) ==
    /\ running(t)
    /\ task[t].load = "cleared"
    /\ become(t, [task[t] EXCEPT !.load = "read", !.rows = db])
    /\ UNCHANGED <<db, mem, session, history>>

\* Mutant: the rows replace the memory.
FillPolicyAnew(t) ==
    /\ running(t)
    /\ task[t].load = "read"
    /\ mem' = task[t].rows
    /\ become(t, [task[t] EXCEPT !.load = "done", !.rows = {}])
    /\ UNCHANGED <<db, session, history>>

\* Mutant: a reload waits for the handlers that run at the same time.
FillPolicyAlone(t) ==
    /\ running(t)
    /\ task[t].load = "read"
    /\ \A s \in Tasks \ {t} : ~running(s)
    /\ mem' = mem \cup task[t].rows
    /\ become(t, [task[t] EXCEPT !.load = "done", !.rows = {}])
    /\ UNCHANGED <<db, session, history>>

\* The rows arrive and are added to whatever the memory holds by then.
FillPolicy(t) ==
    /\ running(t)
    /\ task[t].load = "read"
    /\ mem' = mem \cup task[t].rows
    /\ become(t, [task[t] EXCEPT !.load = "done", !.rows = {}])
    /\ UNCHANGED <<db, session, history>>

\* The rows cannot be read: the memory stays as the clearing left it.
LoadFails(t) ==
    /\ running(t)
    /\ task[t].load = "cleared"
    /\ event
    /\ loadFailed' = TRUE
    /\ become(t, [task[t] EXCEPT !.load = "failed"])
    /\ UNCHANGED <<db, mem, session, outOfBand, removed>>

start(t, rec) == ~running(t) /\ become(t, rec)

-----------------------------------------------------------------------------
(* Roles. *)

\* POST /add_role with userId or userIds. One ID that readSCIPER rejects
\* refuses the whole list. That the user does not own the form is answered
\* with 400, and the handler goes on.
AddRole(t, sid, kind, users, subject, permission) ==
    /\ isAuthorized(session[sid], "roles", "add")
    /\ users \subseteq DOMAIN Sciper
    /\ LET isRefused == permission = "vote" /\ ~isAuthorized(session[sid], subject, "own")
       IN  start(t, adding(kind, {<<u, subject, permission>> : u \in users}, isRefused))
    /\ UNCHANGED <<db, mem, session, history>>

\* PUT /authorizations: the creator of a form becomes its owner. The handler
\* does not wait for the policy, and never answers.
PutAuthorizations(t, sid, f) ==
    /\ loggedIn(sid)
    /\ isAuthorized(session[sid], "election", "create")
    /\ start(t, adding("own", {<<idOf(session[sid]), f, "own">>}, FALSE))
    /\ UNCHANGED <<db, mem, session, history>>

\* DELETE /forms/:formID: the user stops being the owner, without waiting for
\* what the node answers to the request.
RevokeOwner(t, sid, f) ==
    /\ loggedIn(sid)
    /\ isAuthorized(session[sid], f, "own")
    /\ start(t, removing(<<idOf(session[sid]), f, "own">>))
    /\ UNCHANGED <<db, mem, session, history>>

-----------------------------------------------------------------------------
(* Sessions. *)

\* GET /get_dev_login/:userId
DevLogin(sid, u) ==
    /\ DEV_LOGIN
    /\ u \in DOMAIN Sciper
    /\ session' = [session EXCEPT ![sid] = Sciper[u]]
    /\ UNCHANGED <<policies, history>>

\* GET /control_key, when Tequila leads back
ControlKey(sid, u) ==
    /\ u \in DOMAIN Sciper
    /\ session' = [session EXCEPT ![sid] = Sciper[u]]
    /\ UNCHANGED <<policies, history>>

\* POST /logout, or the cookie expires and the session is pruned.
Logout(sid) ==
    /\ loggedIn(sid)
    /\ session' = [session EXCEPT ![sid] = NoUser]
    /\ UNCHANGED <<policies, history>>

SessionExpires(sid) ==
    /\ loggedIn(sid)
    /\ session' = [session EXCEPT ![sid] = NoUser]
    /\ UNCHANGED <<policies, history>>

-----------------------------------------------------------------------------
(* The command line works on the database of a running backend. *)

\* Adds all of the rules, or none when one of them is stored already.
addPolicies(rules) ==
    LET new == IF rules \cap db = {} THEN rules ELSE {}
    IN  db' = db \cup new /\ outOfBand' = outOfBand \cup new

command ==
    /\ event
    /\ UNCHANGED <<mem, task, session, loadFailed>>

addAdmin(u) ==
    /\ command
    /\ addPolicies({<<u, g[1], g[2]>> : g \in AdminRights})
    /\ UNCHANGED removed

addVoters(users, f) ==
    /\ command
    /\ users \subseteq DOMAIN Sciper
    /\ addPolicies({<<u, f, "vote">> : u \in users})
    /\ UNCHANGED removed

removeAdmin(u) ==
    /\ command
    /\ db' = {r \in db : r[1] # u}
    /\ removed' = removed \cup (db \ db')
    /\ UNCHANGED outOfBand

\* The process dies and is started again: running handlers and sessions are
\* lost, and the enforcer loads what is stored.
Restart ==
    /\ mem' = db
    /\ task' = [t \in Tasks |-> NoTask]
    /\ session' = [sid \in Sids |-> NoUser]
    /\ outOfBand' = {}
    /\ loadFailed' = FALSE
    /\ UNCHANGED <<db, removed, events>>

-----------------------------------------------------------------------------
AuthInit ==
    /\ db = InitialDB
    /\ mem = InitialDB
    /\ task = [t \in Tasks |-> NoTask]
    /\ session = [sid \in Sids |-> NoUser]
    /\ outOfBand = {} /\ removed = {} /\ loadFailed = FALSE
    /\ events = 0

Progress(t) ==
    \/ StoreRow(t) \/ UpdateMemory(t)
    \/ ClearPolicy(t) \/ ReadRows(t) \/ FillPolicy(t)

Failures(t) == StoreFails(t) \/ LoadFails(t)

\* Lists of users that requests and files carry: the smallest of which a part
\* can fail
pairs == {us \in SUBSET UserIDs : Cardinality(us) = 2}

Roles(t, sid) ==
    \/ \E u \in UserIDs, g \in Grants : AddRole(t, sid, "single", {u}, g[1], g[2])
    \/ \E us \in pairs, g \in Grants : AddRole(t, sid, "list", us, g[1], g[2])
    \/ \E f \in FormIDs : PutAuthorizations(t, sid, f)

Logins(sid) ==
    \/ \E u \in UserIDs : DevLogin(sid, u) \/ ControlKey(sid, u)
    \/ Logout(sid) \/ SessionExpires(sid)

CommandLine ==
    \/ \E u \in UserIDs : addAdmin(u) \/ removeAdmin(u)
    \/ \E us \in pairs, f \in FormIDs : addVoters(us, f)

AuthNext ==
    \/ \E t \in Tasks : Progress(t) \/ Failures(t)
    \/ \E t \in Tasks, sid \in Sids : Roles(t, sid) \/ \E f \in FormIDs : RevokeOwner(t, sid, f)
    \/ \E sid \in Sids : Logins(sid)
    \/ CommandLine
    \/ Restart

\* The event loop and the database keep going.
AuthSpec == AuthInit /\ [][AuthNext]_authVars /\ \A t \in Tasks : WF_authVars(Progress(t))

-----------------------------------------------------------------------------
\* A right that requests are checked against is a stored one, or one that was
\* stored and has been removed: neither a write that failed nor a reload that
\* crosses another addition puts a right in force that nobody stored
\* (addPolicy, addListPolicy, the assignment and the reload of authManager.ts).
NoUnsavedRight == mem \subseteq db \cup removed

\* Once no handler runs, every right the backend stored is in force, whatever
\* additions, failing additions and reloads ran at the same time: a reload
\* drops no right that another request has just added. Left out are rights
\* stored by the command line, rights that were removed, and a reload that failed.
StoredIsInForce ==
    ((\A t \in Tasks : ~running(t)) /\ ~loadFailed) => db \ (outOfBand \cup removed) \subseteq mem

\* However often reloads empty the memory, again and again all that the backend
\* stored is in force: the window in which nobody is authorized always ends,
\* unless the reload fails.
LockoutEnds == []<>(loadFailed \/ db \ (outOfBand \cup removed) \subseteq mem)
=============================================================================
