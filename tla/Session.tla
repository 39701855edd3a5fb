------------------------------- MODULE Session -------------------------------
(***************************************************************************)
(* Sessions: the read API checks a password and signs a token; the         *)
(* dashboard keeps it in a cookie, routes every page by it (middleware),   *)
(* and forwards it as a bearer; the API checks it again on every call.     *)
(*                                                                         *)
(* The token is checked by two programs: the API compares fractions of     *)
(* seconds, the dashboard whole ones, and each has a SESSION_SECRET of its *)
(* own, set when it is deployed.  Accounts change while tokens that name   *)
(* their old role are still good.  One browser is followed through its     *)
(* visits; time passes between any two steps.                              *)
(***************************************************************************)
EXTENDS Naturals

CONSTANTS
  None,
  Users,         \* the accounts
  Guest,         \* the account of GUEST_USER
  Secrets,       \* values of SESSION_SECRET
  FirstSecret,   \* the one both services are first deployed with
  TTL,           \* seconds that a token and its cookie live
  Sub,           \* instants that are told apart within a second
  MaxSecond,     \* bound: the clock stops there
  MaxRotations   \* bound: how often a secret is changed

ASSUME SessionAssumption ==
  /\ Guest \in Users
  /\ FirstSecret \in Secrets
  /\ None \notin Users \cup Secrets
  /\ TTL \in Nat /\ MaxSecond \in Nat /\ MaxRotations \in Nat
  /\ Sub \in Nat \ {0}

Role == {"user", "dbre"}
Services == {"api", "dash"}

\* A user's page, the page of a DBRE (which stands for every page outside the
\* console), and the two that need no session.
Path == {"console", "dbre", "login", "guest"}

\* Time: a whole second and an instant within it.
Instant == [s : Nat, f : 0 .. Sub - 1]
Start == [s |-> 0, f |-> 0]
NotAfter(a, b) == a.s < b.s \/ (a.s = b.s /\ a.f <= b.f)

Token == [sub : Users, role : Role, exp : Nat, key : Secrets,
          read : Instant]          \* history: when the role was read
NoToken == [sub |-> None]

-----------------------------------------------------------------------------
VARIABLES
  clock,
  users,      \* the users collection: each account's role, None if it is absent
  had,        \* history: the last instant at which an account had a role
  keys,       \* the secret of the API and of the dashboard, None when unset
  rotations,  \* how often they changed
  jar,        \* the browser's session cookie
  login,      \* the login the API is handling
  page        \* the browser's page

vars == <<clock, users, had, keys, rotations, jar, login, page>>

\* A deleted cookie and one that ran out are the same.
Jar == [token : Token \cup {NoToken}, until : Instant]
NoJar == [token |-> NoToken, until |-> Start]

Login == [pc : {"read"}, who : Users, role : Role, read : Instant]
NoLogin == [pc |-> "idle", who |-> None, role |-> None, read |-> Start]

\* A page is "going" while middleware has yet to route its request, "calling"
\* while its server component asks the API, "waiting" for a login.
Page == [pc    : {"idle", "going", "calling", "waiting", "shown", "failed"},
         path  : Path,
         token : Token \cup {NoToken},            \* what its request carried
         call  : {"none", "ok", "401", "403", "503"},  \* what the API answered its server component
         hops  : Nat]       \* redirects since the visit began or a cookie or secret was set

-----------------------------------------------------------------------------
(* The two checks of a token.                                              *)

\* Mutation: the token never expires for the API.
ApiAccepts_Forever(t) ==
  /\ t # NoToken
  /\ t.key = keys.api

\* decode_jwt rejects when time.time() > exp.
ApiAccepts(t) ==
  /\ t # NoToken
  /\ t.key = keys.api
  /\ clock.s < t.exp \/ (clock.s = t.exp /\ clock.f = 0)

\* Mutation: the dashboard tolerates the second in which the token expires.
DashAccepts_Tolerant(t) ==
  /\ t # NoToken
  /\ t.key = keys.dash
  /\ clock.s <= t.exp

\* jwtVerify compares exp with the whole second.
DashAccepts(t) ==
  /\ t # NoToken
  /\ t.key = keys.dash
  /\ clock.s < t.exp

\* require_role: a bearer is looked for before the secret that checks it, and the
\* session is checked before the role.
ApiSays(t, roles) ==
  CASE t = NoToken -> "401"
    [] t # NoToken /\ keys.api = None -> "503"
    [] t # NoToken /\ keys.api # None ->
         IF ~ApiAccepts(t) THEN "401" ELSE IF t.role \notin roles THEN "403" ELSE "ok"

\* The roles the first call of each page requires: presets, slow queries.
CallRoles(path) == IF path = "console" THEN Role ELSE {"dbre"}

-----------------------------------------------------------------------------
(* Routing.                                                                *)

RoleHome(role) == IF role = "user" THEN "console" ELSE "dbre"

\* Mutations: /login looks at the cookie only; a user may open a DBRE's page.
Route_AnyCookie(path, t) ==
  CASE path = "guest" -> path
    [] path = "login" -> IF t # NoToken THEN RoleHome(t.role) ELSE path
    [] path \in {"console", "dbre"} -> IF DashAccepts(t) THEN RoleHome(t.role) ELSE "login"

Route_OpenPages(path, t) ==
  CASE path = "guest" -> path
    [] path = "login" -> IF DashAccepts(t) THEN RoleHome(t.role) ELSE path
    [] path = "console" -> IF DashAccepts(t) THEN RoleHome(t.role) ELSE "login"
    [] path = "dbre" -> IF DashAccepts(t) THEN path ELSE "login"

\* Where middleware sends a request for the path: there, or elsewhere.
Route(path, t) ==
  CASE path = "guest" -> path
    [] path = "login" -> IF DashAccepts(t) THEN RoleHome(t.role) ELSE path
    [] path \in {"console", "dbre"} -> IF DashAccepts(t) THEN RoleHome(t.role) ELSE "login"

\* The cookie a request carries.
Carried == IF jar.token # NoToken /\ ~NotAfter(jar.until, clock) THEN jar.token ELSE NoToken

\* What the proxies answer to what is done on a page, forwarding the cookie of
\* the moment: a guided query needs a user's session, a diagnosis a DBRE's, unless
\* the API has no secret.
QuerySays == IF Carried = NoToken THEN "401" ELSE ApiSays(Carried, {"user"})
OptionalDbre(t) == IF keys.api = None THEN "ok" ELSE ApiSays(t, {"dbre"})
DiagnoseSays == IF Carried = NoToken THEN "401" ELSE OptionalDbre(Carried)

ActSays(path) == IF path = "console" THEN QuerySays ELSE DiagnoseSays

LoginForm == [pc |-> "shown", path |-> "login", token |-> NoToken, call |-> "none", hops |-> 0]

GoTo(path, hops) ==
  [pc |-> "going", path |-> path, token |-> Carried, call |-> "none", hops |-> hops]

-----------------------------------------------------------------------------
Init ==
  /\ clock = Start
  /\ users \in [Users -> Role \cup {None}]
  /\ had = [u \in Users |-> [r \in Role |-> Start]]
  /\ keys = [service \in Services |-> FirstSecret]
  /\ rotations = 0
  /\ jar = NoJar
  /\ login = NoLogin
  /\ page = [LoginForm EXCEPT !.pc = "idle"]

\* The environment: time passes, an account is created, changed or removed, and
\* a service is deployed with another secret.
Tick ==
  /\ clock.s < MaxSecond
  /\ clock' = IF clock.f + 1 < Sub THEN [clock EXCEPT !.f = clock.f + 1]
                                   ELSE [s |-> clock.s + 1, f |-> 0]
  /\ had' = [u \in Users |-> [r \in Role |-> IF users[u] = r THEN clock' ELSE had[u][r]]]
  /\ UNCHANGED <<users, keys, rotations, jar, login, page>>

ChangeUser(u, role) ==
  /\ users' = [users EXCEPT ![u] = role]
  /\ had' = [had EXCEPT ![u] = [r \in Role |-> IF role = r THEN clock ELSE had[u][r]]]
  /\ UNCHANGED <<clock, keys, rotations, jar, login, page>>

Rotate(service, secret) ==
  /\ rotations < MaxRotations
  /\ rotations' = rotations + 1
  /\ keys' = [keys EXCEPT ![service] = secret]
  /\ page' = [page EXCEPT !.hops = 0]
  /\ UNCHANGED <<clock, users, had, jar, login>>

\* The browser asks for a page, by its address or a link.
Visit(path) ==
  /\ page.pc \notin {"going", "calling"}
  /\ page' = GoTo(path, 0)
  /\ UNCHANGED <<clock, users, had, keys, rotations, jar, login>>

\* Middleware redirects: the browser asks for the other page.
Redirect ==
  LET to == Route(page.path, page.token) IN
  /\ page.pc = "going"
  /\ to # page.path
  /\ page' = GoTo(to, page.hops + 1)
  /\ UNCHANGED <<clock, users, had, keys, rotations, jar, login>>

\* Middleware lets the request pass to the login form or to a page's server
\* component.
Pass ==
  /\ page.pc = "going"
  /\ page.path # "guest"
  /\ Route(page.path, page.token) = page.path
  /\ page' = IF page.path = "login" THEN LoginForm ELSE [page EXCEPT !.pc = "calling", !.hops = 0]
  /\ UNCHANGED <<clock, users, had, keys, rotations, jar, login>>

\* Mutation: a page that is refused its data never comes.
CallApi_Throws ==
  /\ page.pc = "calling"
  /\ ApiSays(page.token, CallRoles(page.path)) = "ok"
  /\ page' = [page EXCEPT !.pc = "shown", !.call = "ok"]
  /\ UNCHANGED <<clock, users, had, keys, rotations, jar, login>>

\* The server component forwards the cookie its request carried.
CallApi ==
  /\ page.pc = "calling"
  /\ page' = [page EXCEPT !.pc = "shown", !.call = ApiSays(page.token, CallRoles(page.path))]
  /\ UNCHANGED <<clock, users, had, keys, rotations, jar, login>>

\* POST /auth/login reads the account and checks the password.
LoginReads(u) ==
  /\ login.pc = "idle"
  /\ \/ page.pc = "shown" /\ page.path = "login"
     \/ page.pc = "going" /\ page.path = "guest" /\ u = Guest
  /\ users[u] # None
  /\ login' = [pc |-> "read", who |-> u, role |-> users[u], read |-> clock]
  /\ page' = [LoginForm EXCEPT !.pc = "waiting", !.path = page.path]
  /\ UNCHANGED <<clock, users, had, keys, rotations, jar>>

\* Wrong credentials, no secret, no answer: the form says so, /guest is an error.
LoginFails ==
  /\ login.pc = "read"
  /\ login' = NoLogin
  /\ page' = IF page.pc # "waiting" THEN page
             ELSE IF page.path = "login" THEN LoginForm
             ELSE [LoginForm EXCEPT !.pc = "failed", !.path = "guest"]
  /\ UNCHANGED <<clock, users, had, keys, rotations, jar>>

\* /guest without a guest account, or without an answer.
GuestFails ==
  /\ page.pc = "going"
  /\ page.path = "guest"
  /\ page' = [LoginForm EXCEPT !.pc = "failed", !.path = "guest"]
  /\ UNCHANGED <<clock, users, had, keys, rotations, jar, login>>

TokenOf == [sub |-> login.who, role |-> login.role, exp |-> clock.s + TTL, key |-> keys.api,
            read |-> login.read]

\* The token is signed, the dashboard sets the cookie, and the browser goes to
\* the role's home, unless it has gone elsewhere in the meantime.
LoginSucceeds ==
  /\ login.pc = "read"
  /\ keys.api # None
  /\ login' = NoLogin
  /\ jar' = [token |-> TokenOf, until |-> [clock EXCEPT !.s = clock.s + TTL]]
  /\ page' = IF page.pc = "waiting"
             THEN [pc |-> "going", path |-> RoleHome(login.role), token |-> TokenOf,
                   call |-> "none", hops |-> 0]
             ELSE [page EXCEPT !.hops = 0]
  /\ UNCHANGED <<clock, users, had, keys, rotations>>

\* POST /api/auth/logout drops the cookie; the browser goes to the login form
\* even if the call fails.
Logout(dropped) ==
  /\ page.pc = "shown"
  /\ page.path \in {"console", "dbre"}
  /\ jar' = IF dropped THEN NoJar ELSE jar
  /\ page' = [pc |-> "going", path |-> "login",
              token |-> IF dropped THEN NoToken ELSE Carried,
              call |-> "none", hops |-> 0]
  /\ UNCHANGED <<clock, users, had, keys, rotations, login>>

Next ==
  \/ Tick
  \/ \E u \in Users, role \in Role \cup {None} : ChangeUser(u, role)
  \/ \E service \in Services, secret \in Secrets \cup {None} : Rotate(service, secret)
  \/ \E path \in Path : Visit(path)
  \/ Redirect
  \/ Pass
  \/ CallApi
  \/ \E u \in Users : LoginReads(u)
  \/ LoginFails
  \/ GuestFails
  \/ LoginSucceeds
  \/ \E dropped \in BOOLEAN : Logout(dropped)

Spec == Init /\ [][Next]_vars

\* Requests are handled: middleware, the server component and the login handler
\* always come to an end.
Fairness ==
  /\ WF_vars(Redirect)
  /\ WF_vars(Pass)
  /\ WF_vars(CallApi)
  /\ WF_vars(LoginFails \/ LoginSucceeds)
  /\ WF_vars(GuestFails)

FairSpec == Spec /\ Fairness

-----------------------------------------------------------------------------
(* Properties.                                                             *)

\* The type invariant of the sessions.
TypeOK ==
  /\ clock \in Instant
  /\ users \in [Users -> Role \cup {None}]
  /\ had \in [Users -> [Role -> Instant]]
  /\ keys \in [Services -> Secrets \cup {None}]
  /\ rotations \in 0 .. MaxRotations
  /\ jar \in Jar
  /\ login \in Login \cup {NoLogin}
  /\ page \in Page

\* What the dashboard lets in, the API serves: while both have the secret that
\* signed the token, there is no instant at which the browser is kept on a page
\* whose calls are refused (verifyToken, decode_jwt).
DashboardIsStricter ==
  keys.api = keys.dash /\ DashAccepts(jar.token) => ApiAccepts(jar.token)

\* A page is shown to the role it is for: the call that fills it is never refused
\* for the role, and for the session only when the token ran out since or a
\* secret was changed or unset; what is done on it is refused for the role only after the
\* cookie was replaced (middleware, require_role, optional_dbre_identity, the
\* proxies).
PagesFitRoles ==
  /\ page.call # "403"
  /\ page.call \in {"401", "503"} => page.token.exp <= clock.s \/ rotations > 0
  /\ page.pc = "shown" /\ page.path # "login" /\ Carried = page.token =>
       ActSays(page.path) # "403"

\* A role that an account lost is good for the API for at most the life of a
\* token after the login that read it was answered; that login had read the role
\* while the account had it (login, require_role).
BoundedRevocation ==
  ApiAccepts(jar.token) =>
    /\ NotAfter(jar.token.read, had[jar.token.sub][jar.token.role])
    /\ NotAfter(clock, jar.until)

\* While cookie and secrets stay, no visit is redirected more than three times: off
\* a page that the old cookie did not open, home, and off that when the session
\* runs out (middleware).
RedirectsEnd == page.hops <= 3

\* Every visit ends with a page, an error or a login, and every login with an
\* answer.
EveryVisitEnds ==
  /\ page.pc \in {"going", "calling"} ~> page.pc \in {"shown", "failed", "waiting"}
  /\ login.pc = "read" ~> login.pc = "idle"
=============================================================================
