------------------------------ MODULE AppShell ------------------------------
(***************************************************************************)
(* The frame of the web frontend (index.tsx, layout/, pages/session/): a   *)
(* tab asks the backend once, when it loads, who is logged in and what he  *)
(* may do, and routes, menus and buttons go by that copy until the tab is  *)
(* loaded again. All tabs of a browser share one session of AuthManager.   *)
(***************************************************************************)
EXTENDS AuthManager

CONSTANTS
    Tabs,          \* tabs of the browser
    Browser        \* the session ID in the cookie of the browser

ASSUME BrowserAssumption == Browser \in Sids

VARIABLES
    content,       \* AppContainer's content: loading, proxy (personal info known), app, failed
    auth,          \* the AuthContext of each tab
    route,         \* the route each tab is on
    late,          \* requests whose fetch failed and which are still on their way: "logout", or a login
    asked          \* history: who was logged in when each tab asked

shellVars == <<content, auth, route, late, asked>>
allVars == <<authVars, shellVars>>

defaultAuth == [isLogged |-> FALSE, authorization |-> << >>]

isAllowed(ctx, subject, action) ==
    subject \in DOMAIN ctx.authorization /\ action \in ctx.authorization[subject]

\* The routes, and what RequireAuth asks for: nothing, a login, or a login and a right.
Public == {"home", "index", "result", "about", "logged"}
Required == [form_create |-> <<"election", "create">>, form_show |-> <<"election", "create">>,
             admin |-> <<"roles", "list">>]
AllRoutes == Public \cup DOMAIN Required \cup {"ballot"}

\* Mutant: whoever is logged in may open every page.
RequireAuthLogin(ctx, r) == IF r \in Public \/ ctx.isLogged THEN r ELSE "login"

RequireAuth(ctx, r) ==
    CASE r \in Public -> r
      [] r \notin Public /\ ~ctx.isLogged -> "login"
      [] r \in DOMAIN Required /\ ctx.isLogged ->
            IF isAllowed(ctx, Required[r][1], Required[r][2]) THEN r ELSE "unauthorized"
      [] OTHER -> r

\* The page a tab displays.
displayed(w) == IF content[w] = "app" THEN RequireAuth(auth[w], route[w]) ELSE content[w]

\* The links of the navigation bar; the menu for small screens asks for another
\* right before it offers the administration.
NavLinks(ctx) ==
    {"home", "index", "about"}
    \cup (IF ctx.isLogged /\ isAllowed(ctx, "election", "create") THEN {"form_create"} ELSE {})
    \cup (IF ctx.isLogged /\ (isAllowed(ctx, "roles", "list") \/ isAllowed(ctx, "roles", "add"))
            THEN {"admin"} ELSE {})

-----------------------------------------------------------------------------
(* Loading a tab. *)

load(w) ==
    /\ content' = [content EXCEPT ![w] = "loading"]
    /\ auth' = [auth EXCEPT ![w] = defaultAuth]

\* The user opens a page, by its address.
OpenPage(w, r) ==
    /\ load(w)
    /\ route' = [route EXCEPT ![w] = r]
    /\ UNCHANGED <<authVars, asked, late>>

\* fetchData: personal_info answers 200 or 401.
PersonalInfo(w) ==
    /\ content[w] = "loading"
    /\ auth' = [auth EXCEPT ![w] =
                   IF loggedIn(Browser)
                     THEN [isLogged |-> TRUE,
                           authorization |-> setMapAuthorization(session[Browser])]
                     ELSE defaultAuth]
    /\ asked' = [asked EXCEPT ![w] = session[Browser]]
    /\ content' = [content EXCEPT ![w] = "proxy"]
    /\ UNCHANGED <<authVars, route, late>>

\* setDefaultProxy has its answer, or it had it in the session storage. The
\* page /logged leads on to where the user came from.
DefaultProxy(w, from) ==
    /\ content[w] = "proxy"
    /\ content' = [content EXCEPT ![w] = "app"]
    /\ route' = [route EXCEPT ![w] = IF @ = "logged" THEN from ELSE @]
    /\ UNCHANGED <<authVars, auth, asked, late>>

\* The backend does not answer, or answers something else.
LoadingFails(w) ==
    /\ content[w] \in {"loading", "proxy"}
    /\ content' = [content EXCEPT ![w] = "failed"]
    /\ UNCHANGED <<authVars, auth, route, asked, late>>

-----------------------------------------------------------------------------
(* The application. *)

Navigate(w, r) ==
    /\ content[w] = "app"
    /\ r \in NavLinks(auth[w])
    /\ route' = [route EXCEPT ![w] = r]
    /\ UNCHANGED <<authVars, content, auth, asked, late>>

loggedOut(w) ==
    /\ auth' = [auth EXCEPT ![w].isLogged = FALSE]
    /\ route' = [route EXCEPT ![w] = "home"]
    /\ UNCHANGED <<content, asked>>

\* The user confirms the warning, and there is an answer: of the backend, which
\* closes the session or says that there was none, or of something before it,
\* which does not. The tab forgets the login whatever it is, and keeps the rights.
ConfirmLogout(w) ==
    /\ content[w] = "app" /\ auth[w].isLogged
    /\ Logout(Browser) \/ UNCHANGED authVars
    /\ loggedOut(w)
    /\ UNCHANGED late

\* There is no answer, and the tab stays as it is. The session is closed, or
\* the request is still on its way.
LogoutAnswerLost(w) ==
    /\ content[w] = "app" /\ auth[w].isLogged
    /\ \/ Logout(Browser) /\ UNCHANGED late
       \/ UNCHANGED authVars /\ late' = late \cup {"logout"}
    /\ UNCHANGED <<content, auth, route, asked>>

\* handleLogin for developers, from the login button or after the logout of
\* the dialog that changes the ID: after an answer, be it a refusal, the tab is
\* loaded again.
HandleDevLogin(w, u) ==
    /\ content[w] = "app" /\ ~auth[w].isLogged
    /\ DevLogin(Browser, u) \/ UNCHANGED authVars
    /\ load(w)
    /\ UNCHANGED <<route, asked, late>>

\* There is no answer, and the tab only shows a message. The session is open,
\* or the request is still on its way.
DevLoginAnswerLost(w, u) ==
    /\ content[w] = "app" /\ ~auth[w].isLogged
    /\ \/ DevLogin(Browser, u) /\ UNCHANGED late
       \/ UNCHANGED authVars /\ late' = late \cup {u}
    /\ UNCHANGED <<content, auth, route, asked>>

\* A request whose answer nobody waits for reaches the backend, which may refuse it.
Arrives(q) ==
    /\ q \in late
    /\ late' = late \ {q}
    /\ \/ q = "logout" /\ Logout(Browser)
       \/ q # "logout" /\ DevLogin(Browser, q)
       \/ UNCHANGED authVars
    /\ UNCHANGED <<content, auth, route, asked>>

\* handleLogin: the tab leaves for Tequila, which leads back to /logged.
HandleLogin(w, u) ==
    /\ content[w] = "app" /\ ~auth[w].isLogged
    /\ ControlKey(Browser, u)
    /\ load(w)
    /\ route' = [route EXCEPT ![w] = "logged"]
    /\ UNCHANGED <<asked, late>>

\* Or to an error of the backend, when Tequila does not confirm the login.
TequilaRefuses(w) ==
    /\ content[w] = "app" /\ ~auth[w].isLogged
    /\ content' = [content EXCEPT ![w] = "failed"]
    /\ UNCHANGED <<authVars, auth, route, asked, late>>

-----------------------------------------------------------------------------
ShellInit ==
    /\ AuthInit
    /\ content = [w \in Tabs |-> "loading"]
    /\ auth = [w \in Tabs |-> defaultAuth]
    /\ route = [w \in Tabs |-> "home"]
    /\ asked = [w \in Tabs |-> NoUser]
    /\ late = {}

Tab(w) ==
    \/ \E r \in AllRoutes : OpenPage(w, r) \/ Navigate(w, r) \/ DefaultProxy(w, r)
    \/ PersonalInfo(w) \/ LoadingFails(w)
    \/ ConfirmLogout(w) \/ LogoutAnswerLost(w) \/ TequilaRefuses(w)
    \/ \E u \in UserIDs : HandleDevLogin(w, u) \/ DevLoginAnswerLost(w, u) \/ HandleLogin(w, u)

ShellNext ==
    \/ \E w \in Tabs : Tab(w)
    \/ \E q \in UserIDs \cup {"logout"} : Arrives(q)
    \/ /\ SessionExpires(Browser) \/ CommandLine \/ Restart
       /\ UNCHANGED shellVars

ShellSpec == ShellInit /\ [][ShellNext]_allVars

-----------------------------------------------------------------------------
\* A page that needs a right is displayed only to a tab whose user was stored
\* with that right, through two copies of the rights that age on their own: the
\* enforcer's and the tab's (RequireAuth of App.tsx, isAllowed of index.tsx).
PagesWereGranted ==
    \A w \in Tabs :
        displayed(w) \in DOMAIN Required =>
            /\ auth[w].isLogged
            /\ <<idOf(asked[w]), Required[displayed(w)][1], Required[displayed(w)][2]>>
                  \in db \cup removed
=============================================================================
