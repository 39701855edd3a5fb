-------------------------- MODULE SessionInvariant --------------------------
(***************************************************************************)
(* The inductive invariant behind the safety properties of Session.        *)
(***************************************************************************)
EXTENDS Session

\* What the history says of the accounts, and of the login that is handled.
HistoryInv ==
  /\ \A u \in Users, r \in Role :
       /\ NotAfter(had[u][r], clock)
       /\ users[u] = r => had[u][r] = clock
  /\ login # NoLogin => NotAfter(login.read, had[login.who][login.role])

\* A token in the jar was signed by the API at an instant that its cookie
\* outlives, for a role its account had when that was read.
JarInv ==
  jar.token # NoToken =>
    /\ jar.token.exp <= jar.until.s
    /\ NotAfter(jar.token.read, had[jar.token.sub][jar.token.role])

\* Until a secret is changed, there is one.
OneSecret ==
  rotations = 0 =>
    /\ keys = [service \in Services |-> FirstSecret]
    /\ jar.token # NoToken => jar.token.key = FirstSecret
    /\ page.token # NoToken => page.token.key = FirstSecret

\* The browser's cookie opens no page, and never will while the secret stays.
Dead == ~DashAccepts(jar.token)

\* A request that middleware has redirected carries the cookie of the jar, and
\* each further redirect leaves it less to be sent away for.
RedirectInv ==
  /\ page.pc # "going" => page.hops = 0
  /\ page.pc = "going" /\ page.hops > 0 =>
       /\ page.path # "guest"
       /\ page.token # NoToken => page.token = jar.token
       /\ page.token = NoToken /\ jar.token # NoToken => NotAfter(jar.until, clock)
       /\ page.hops = 2 => \/ page.path = "login" /\ Dead
                           \/ jar.token # NoToken /\ page.path = RoleHome(jar.token.role)
       /\ page.hops > 2 => page.path = "login" /\ Dead

\* A page that is filled or shown is the home of the role it was routed for.
PageInv ==
  /\ page.pc \in {"calling", "shown"} =>
       \/ page.pc = "shown" /\ page.path = "login"
       \/ page.token # NoToken /\ page.path = RoleHome(page.token.role)
  /\ page.call # "403"
  /\ page.call \in {"401", "503"} =>
       page.token # NoToken /\ (page.token.exp <= clock.s \/ rotations > 0)

SessionInv ==
  /\ TypeOK
  /\ HistoryInv
  /\ JarInv
  /\ OneSecret
  /\ RedirectInv
  /\ PageInv
  /\ RedirectsEnd
=============================================================================
