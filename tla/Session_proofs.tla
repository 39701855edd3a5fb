--------------------------- MODULE Session_proofs ---------------------------
(***************************************************************************)
(* The safety properties of Session, for any accounts, secrets, life of a  *)
(* token, granularity of the clock, and however long it runs.              *)
(***************************************************************************)
EXTENDS SessionInvariant, TLAPS

USE SessionAssumption

-----------------------------------------------------------------------------
(* Time and tokens.                                                        *)

\* The clock only moves forward.
LEMMA TimeIsOrdered ==
  /\ \A a \in Instant : NotAfter(a, a)
  /\ \A a, b, c \in Instant : NotAfter(a, b) /\ NotAfter(b, c) => NotAfter(a, c)
BY DEF Instant, NotAfter

LEMMA StartIsInstant == Start \in Instant
BY DEF Start, Instant

LEMMA NoTokenIsNone == NoToken \notin Token
<1>1. \A t \in Token : t.sub # None
  BY DEF Token
<1>2. NoToken.sub = None
  BY DEF NoToken
<1> QED
  BY <1>1, <1>2

\* What a request carries is the token of the jar, or nothing.
LEMMA CarriedIsTheJars ==
  ASSUME TypeOK
  PROVE  /\ Carried \in {jar.token, NoToken}
         /\ Carried \in Token \cup {NoToken}
         /\ Carried = NoToken /\ jar.token # NoToken => NotAfter(jar.until, clock)
BY DEF TypeOK, Jar, Carried

LEMMA RouteIsAPath ==
  ASSUME NEW path \in Path, NEW t \in Token \cup {NoToken}
  PROVE  Route(path, t) \in Path
BY DEF Route, Path, RoleHome

LEMMA PagesGoneTo ==
  ASSUME TypeOK, NEW path \in Path, NEW hops \in Nat
  PROVE  GoTo(path, hops) \in Page
BY CarriedIsTheJars DEF GoTo, Page

LEMMA LoginFormIsAPage == LoginForm \in Page
BY DEF LoginForm, Page, Path

-----------------------------------------------------------------------------
(* Types.                                                                  *)

LEMMA TypeInit == Init => TypeOK
BY StartIsInstant, LoginFormIsAPage, SMT
   DEF Init, TypeOK, NoJar, Jar, NoLogin, Login, LoginForm, Page, Path, Services, Role

LEMMA TypeNext == TypeOK /\ [Next]_vars => TypeOK'
<1> SUFFICES ASSUME TypeOK, [Next]_vars
             PROVE  TypeOK'
  OBVIOUS
<1>1. CASE Tick
  <2>1. clock' \in Instant
    <3>1. clock.s \in Nat /\ clock.f \in 0 .. Sub - 1 /\ clock \in [s : Nat, f : 0 .. Sub - 1]
      BY DEF TypeOK, Instant
    <3>2. CASE clock.f + 1 < Sub
      <4>1. clock.f + 1 \in 0 .. Sub - 1
        BY <3>1, <3>2
      <4>2. clock' = [clock EXCEPT !.f = clock.f + 1]
        BY <1>1, <3>2 DEF Tick
      <4> QED
        BY <3>1, <4>1, <4>2 DEF Instant
    <3>3. CASE ~(clock.f + 1 < Sub)
      <4>1. clock' = [s |-> clock.s + 1, f |-> 0]
        BY <1>1, <3>3 DEF Tick
      <4>2. 0 \in 0 .. Sub - 1
        OBVIOUS
      <4> QED
        BY <3>1, <4>1, <4>2 DEF Instant
    <3> QED
      BY <3>2, <3>3
  <2>2. had' \in [Users -> [Role -> Instant]]
    BY <1>1, <2>1 DEF Tick, TypeOK
  <2> QED
    BY <1>1, <2>1, <2>2 DEF Tick, TypeOK
<1>2. ASSUME NEW u \in Users, NEW role \in Role \cup {None}, ChangeUser(u, role)
      PROVE  TypeOK'
  <2>1. had' \in [Users -> [Role -> Instant]]
    BY <1>2 DEF ChangeUser, TypeOK
  <2> QED
    BY <1>2, <2>1 DEF ChangeUser, TypeOK
<1>3. ASSUME NEW service \in Services, NEW secret \in Secrets \cup {None}, Rotate(service, secret)
      PROVE  TypeOK'
  <2>1. page' \in Page
    BY <1>3 DEF Rotate, TypeOK, Page
  <2> QED
    BY <1>3, <2>1 DEF Rotate, TypeOK
<1>4. ASSUME NEW path \in Path, Visit(path)
      PROVE  TypeOK'
  <2>1. page' \in Page
    BY <1>4, PagesGoneTo DEF Visit
  <2> QED
    BY <1>4, <2>1 DEF Visit, TypeOK
<1>5. CASE Redirect
  <2>1. /\ page.path \in Path
        /\ page.token \in Token \cup {NoToken}
        /\ page.hops + 1 \in Nat
    BY DEF TypeOK, Page
  <2>2. page' \in Page
    BY <1>5, <2>1, PagesGoneTo, RouteIsAPath DEF Redirect
  <2> QED
    BY <1>5, <2>2 DEF Redirect, TypeOK
<1>6. CASE Pass
  <2>1. page' \in Page
    BY <1>6, LoginFormIsAPage DEF Pass, TypeOK, Page
  <2> QED
    BY <1>6, <2>1 DEF Pass, TypeOK
<1>7. CASE CallApi
  <2>1. page' \in Page
    BY <1>7 DEF CallApi, ApiSays, TypeOK, Page
  <2> QED
    BY <1>7, <2>1 DEF CallApi, TypeOK
<1>8. ASSUME NEW u \in Users, LoginReads(u)
      PROVE  TypeOK'
  <2>1. page' \in Page
    BY <1>8, LoginFormIsAPage DEF LoginReads, TypeOK, Page
  <2>2. login' \in Login
    BY <1>8 DEF LoginReads, TypeOK, Login
  <2> QED
    BY <1>8, <2>1, <2>2 DEF LoginReads, TypeOK
<1>9. CASE LoginFails
  <2>1. [LoginForm EXCEPT !.pc = "failed", !.path = "guest"] \in Page
    BY DEF LoginForm, Page, Path
  <2>2. page' \in Page
    BY <1>9, <2>1, LoginFormIsAPage DEF LoginFails, TypeOK
  <2> QED
    BY <1>9, <2>2 DEF LoginFails, TypeOK
<1>10. CASE GuestFails
  <2>1. page' \in Page
    BY <1>10, LoginFormIsAPage DEF GuestFails, Page, Path
  <2> QED
    BY <1>10, <2>1 DEF GuestFails, TypeOK
<1>11. CASE LoginSucceeds
  <2>1. login \in Login /\ keys.api \in Secrets /\ clock.s + TTL \in Nat
    BY <1>11 DEF LoginSucceeds, NoLogin, TypeOK, Instant, Services
  <2>2. TokenOf \in Token
    BY <2>1 DEF TokenOf, Token, Login
  <2>3. [clock EXCEPT !.s = clock.s + TTL] \in Instant
    BY <2>1 DEF TypeOK, Instant
  <2>4. jar' \in Jar
    BY <1>11, <2>2, <2>3 DEF LoginSucceeds, Jar
  <2>5. RoleHome(login.role) \in Path
    BY DEF RoleHome, Path
  <2>6. page' \in Page
    BY <1>11, <2>2, <2>5 DEF LoginSucceeds, TypeOK, Page
  <2> QED
    BY <1>11, <2>4, <2>6 DEF LoginSucceeds, TypeOK
<1>12. ASSUME NEW dropped \in BOOLEAN, Logout(dropped)
       PROVE  TypeOK'
  <2>1. jar' \in Jar
    BY <1>12, StartIsInstant DEF Logout, TypeOK, NoJar, Jar
  <2>2. page' \in Page
    BY <1>12, CarriedIsTheJars DEF Logout, Page, Path
  <2> QED
    BY <1>12, <2>1, <2>2 DEF Logout, TypeOK
<1>13. CASE UNCHANGED vars
  BY <1>13 DEF vars, TypeOK
<1> QED
  BY <1>1, <1>2, <1>3, <1>4, <1>5, <1>6, <1>7, <1>8, <1>9, <1>10, <1>11, <1>12, <1>13 DEF Next

-----------------------------------------------------------------------------
(* The history.                                                            *)

\* Time passes, and the last instant of a role is never moved back.
LEMMA TimePasses ==
  ASSUME TypeOK, TypeOK', [Next]_vars
  PROVE  NotAfter(clock, clock')
<1>1. CASE Tick
  BY <1>1 DEF Tick, TypeOK, Instant, NotAfter
<1>2. CASE ~Tick
  <2>1. clock' = clock
    BY <1>2 DEF Next, vars, ChangeUser, Rotate, Visit, Redirect, Pass, CallApi, LoginReads,
                LoginFails, GuestFails, LoginSucceeds, Logout
  <2> QED
    BY <2>1, TimeIsOrdered DEF TypeOK
<1> QED
  BY <1>1, <1>2

LEMMA HadGrows ==
  ASSUME TypeOK, TypeOK', HistoryInv, [Next]_vars, NEW u \in Users, NEW r \in Role
  PROVE  /\ NotAfter(had[u][r], had'[u][r])
         /\ NotAfter(had'[u][r], clock')
         /\ users'[u] = r => had'[u][r] = clock'
<1>1. /\ had[u][r] \in Instant /\ had'[u][r] \in Instant
      /\ clock \in Instant /\ clock' \in Instant
  BY DEF TypeOK
<1>2. /\ NotAfter(had[u][r], clock)
      /\ users[u] = r => had[u][r] = clock
  BY DEF HistoryInv
<1>3. NotAfter(had[u][r], clock') /\ NotAfter(clock, clock')
  BY <1>1, <1>2, TimePasses, TimeIsOrdered
<1>4. CASE Tick
  <2>1. had'[u][r] = IF users[u] = r THEN clock' ELSE had[u][r]
    BY <1>4 DEF Tick
  <2>2. users' = users
    BY <1>4 DEF Tick
  <2> QED
    BY <2>1, <2>2, <1>1, <1>3, TimeIsOrdered
<1>5. ASSUME NEW v \in Users, NEW role \in Role \cup {None}, ChangeUser(v, role)
      PROVE  /\ NotAfter(had[u][r], had'[u][r])
             /\ NotAfter(had'[u][r], clock')
             /\ users'[u] = r => had'[u][r] = clock'
  <2>1. clock' = clock
    BY <1>5 DEF ChangeUser
  <2>2. CASE u = v
    <3>1. had'[u][r] = IF role = r THEN clock ELSE had[u][r]
      BY <1>5, <2>2 DEF ChangeUser, TypeOK
    <3>2. users'[u] = role
      BY <1>5, <2>2 DEF ChangeUser, TypeOK
    <3> QED
      BY <2>1, <3>1, <3>2, <1>1, <1>2, TimeIsOrdered
  <2>3. CASE u # v
    <3>1. had'[u][r] = had[u][r] /\ users'[u] = users[u]
      BY <1>5, <2>3 DEF ChangeUser, TypeOK
    <3> QED
      BY <2>1, <3>1, <1>1, <1>2, TimeIsOrdered
  <2> QED
    BY <2>2, <2>3
<1>6. CASE UNCHANGED <<clock, users, had>>
  BY <1>6, <1>1, <1>2, TimeIsOrdered
<1> QED
  BY <1>4, <1>5, <1>6
     DEF Next, vars, Rotate, Visit, Redirect, Pass, CallApi, LoginReads,
         LoginFails, GuestFails, LoginSucceeds, Logout

LEMMA HistoryNext ==
  ASSUME TypeOK, TypeOK', HistoryInv, [Next]_vars
  PROVE  HistoryInv'
<1>1. \A u \in Users, r \in Role : NotAfter(had'[u][r], clock') /\ (users'[u] = r => had'[u][r] = clock')
  BY HadGrows
<1>2. ASSUME login' # NoLogin
      PROVE  NotAfter(login'.read, had'[login'.who][login'.role])
  <2>1. CASE login' = login
    <3>1. login \in Login
      BY <1>2, <2>1 DEF TypeOK
    <3>2. /\ login.who \in Users /\ login.role \in Role /\ login.read \in Instant
          /\ NotAfter(login.read, had[login.who][login.role])
      BY <1>2, <2>1, <3>1 DEF Login, HistoryInv
    <3>3. NotAfter(had[login.who][login.role], had'[login.who][login.role])
      BY <3>2, HadGrows
    <3>4. had[login.who][login.role] \in Instant /\ had'[login.who][login.role] \in Instant
      BY <3>2 DEF TypeOK
    <3> QED
      BY <2>1, <3>2, <3>3, <3>4, TimeIsOrdered
  <2>2. ASSUME NEW u \in Users, LoginReads(u)
        PROVE  NotAfter(login'.read, had'[login'.who][login'.role])
    <3>1. /\ login'.who = u /\ login'.role = users[u] /\ login'.read = clock
          /\ users[u] \in Role /\ had' = had
      BY <2>2 DEF LoginReads, TypeOK
    <3>2. had[u][users[u]] = clock
      BY <3>1 DEF HistoryInv
    <3> QED
      BY <3>1, <3>2, TimeIsOrdered DEF TypeOK
  <2> QED
    BY <1>2, <2>1, <2>2 DEF Next, vars, Tick, ChangeUser, Rotate, Visit, Redirect, Pass, CallApi,
       LoginFails, GuestFails, LoginSucceeds, Logout
<1> QED
  BY <1>1, <1>2 DEF HistoryInv

-----------------------------------------------------------------------------
(* Tokens keep what they were signed with.                                 *)

LEMMA JarNext ==
  ASSUME TypeOK, TypeOK', HistoryInv, JarInv, [Next]_vars
  PROVE  JarInv'
<1> SUFFICES ASSUME jar'.token # NoToken
             PROVE  /\ jar'.token.exp <= jar'.until.s
                    /\ NotAfter(jar'.token.read, had'[jar'.token.sub][jar'.token.role])
  BY DEF JarInv
<1>1. CASE jar' = jar
  <2>1. /\ jar.token \in Token
        /\ jar.token.sub \in Users /\ jar.token.role \in Role /\ jar.token.read \in Instant
    BY <1>1 DEF TypeOK, Jar, Token
  <2>2. /\ jar.token.exp <= jar.until.s
        /\ NotAfter(jar.token.read, had[jar.token.sub][jar.token.role])
    BY <1>1 DEF JarInv
  <2>3. NotAfter(had[jar.token.sub][jar.token.role], had'[jar.token.sub][jar.token.role])
    BY <2>1, HadGrows
  <2>4. /\ had[jar.token.sub][jar.token.role] \in Instant
        /\ had'[jar.token.sub][jar.token.role] \in Instant
    BY <2>1 DEF TypeOK
  <2> QED
    BY <1>1, <2>1, <2>2, <2>3, <2>4, TimeIsOrdered
<1>2. CASE LoginSucceeds
  <2>1. jar' = [token |-> TokenOf, until |-> [clock EXCEPT !.s = clock.s + TTL]]
    BY <1>2 DEF LoginSucceeds
  <2>2. login # NoLogin
    BY <1>2 DEF LoginSucceeds, NoLogin
  <2>3. clock.s + TTL \in Nat /\ jar'.until.s = clock.s + TTL
    BY <2>1 DEF TypeOK, Instant
  <2>4. /\ jar'.token.exp = clock.s + TTL /\ jar'.token.read = login.read
        /\ jar'.token.sub = login.who /\ jar'.token.role = login.role
    BY <2>1 DEF TokenOf
  <2>5. had' = had
    BY <1>2 DEF LoginSucceeds
  <2> QED
    BY <2>2, <2>3, <2>4, <2>5 DEF HistoryInv
<1>3. ASSUME NEW dropped \in BOOLEAN, Logout(dropped)
      PROVE  jar' = jar
  BY <1>3 DEF Logout, NoJar
<1> QED
  BY <1>1, <1>2, <1>3 DEF Next, vars, Tick, ChangeUser, Rotate, Visit, Redirect, Pass, CallApi,
     LoginReads, LoginFails, GuestFails

\* Until a secret is changed, every token there is was signed with it.
LEMMA OneSecretNext ==
  ASSUME TypeOK, TypeOK', OneSecret, [Next]_vars
  PROVE  OneSecret'
<1> SUFFICES ASSUME rotations' = 0
             PROVE  /\ keys' = [service \in Services |-> FirstSecret]
                    /\ jar'.token # NoToken => jar'.token.key = FirstSecret
                    /\ page'.token # NoToken => page'.token.key = FirstSecret
  BY DEF OneSecret
<1>1. \A service \in Services, secret \in Secrets \cup {None} : ~Rotate(service, secret)
  BY DEF Rotate, TypeOK
<1>2. rotations = 0 /\ keys' = keys
  BY <1>1 DEF Next, vars, Tick, ChangeUser, Visit, Redirect, Pass, CallApi, LoginReads,
              LoginFails, GuestFails, LoginSucceeds, Logout
<1>3. /\ keys = [service \in Services |-> FirstSecret]
      /\ jar.token # NoToken => jar.token.key = FirstSecret
      /\ page.token # NoToken => page.token.key = FirstSecret
  BY <1>2 DEF OneSecret
<1>4. Carried # NoToken => Carried.key = FirstSecret
  BY <1>3, CarriedIsTheJars
<1>5. CASE LoginSucceeds
  <2>1. TokenOf.key = FirstSecret
    BY <1>3 DEF TokenOf, Services
  <2>2. jar'.token = TokenOf /\ page'.token \in {TokenOf, page.token}
    BY <1>5 DEF LoginSucceeds, TypeOK, Page
  <2> QED
    BY <1>2, <1>3, <2>1, <2>2
<1>6. ASSUME NEW dropped \in BOOLEAN, Logout(dropped)
      PROVE  /\ jar'.token \in {jar.token, NoToken}
             /\ page'.token \in {NoToken, Carried}
  BY <1>6 DEF Logout, NoJar
<1>7. CASE Redirect
  BY <1>2, <1>3, <1>4, <1>7 DEF Redirect, GoTo
<1>8. ASSUME NEW path \in Path, Visit(path)
      PROVE  page'.token = Carried /\ jar' = jar
  BY <1>8 DEF Visit, GoTo
<1>9. CASE Pass \/ CallApi \/ LoginFails \/ GuestFails \/ Tick \/ UNCHANGED vars
  <2>1. jar' = jar /\ page'.token \in {page.token, NoToken}
    <3>1. /\ LoginForm.token = NoToken
          /\ [LoginForm EXCEPT !.pc = "failed", !.path = "guest"].token = NoToken
      BY DEF LoginForm
    <3>2. page \in Page
      BY DEF TypeOK
    <3>3. CASE LoginFails
      BY <3>1, <3>3 DEF LoginFails
    <3>4. CASE Pass \/ CallApi \/ GuestFails \/ Tick \/ UNCHANGED vars
      BY <3>1, <3>2, <3>4 DEF Pass, CallApi, GuestFails, Tick, vars, Page
    <3> QED
      BY <1>9, <3>3, <3>4
  <2> QED
    BY <1>2, <1>3, <2>1
<1>10. ASSUME NEW u \in Users, LoginReads(u)
       PROVE  jar' = jar /\ page'.token = NoToken
  BY <1>10 DEF LoginReads, LoginForm
<1>11. ASSUME NEW u \in Users, NEW role \in Role \cup {None}, ChangeUser(u, role)
       PROVE  jar' = jar /\ page' = page
  BY <1>11 DEF ChangeUser
<1> QED
  BY <1>1, <1>2, <1>3, <1>4, <1>5, <1>6, <1>7, <1>8, <1>9, <1>10, <1>11 DEF Next

-----------------------------------------------------------------------------
(* Redirects.                                                              *)

\* A cookie that opens no page stays so while it and the secret are kept.
LEMMA DeadStaysDead ==
  ASSUME TypeOK, TypeOK', Dead, [Next]_vars, jar' = jar, keys' = keys
  PROVE  Dead'
<1>1. clock \in Instant /\ clock' \in Instant
  BY DEF TypeOK
<1>2. NotAfter(clock, clock')
  BY TimePasses
<1>3. CASE jar.token = NoToken
  BY <1>3 DEF Dead, DashAccepts
<1>4. CASE jar.token # NoToken
  <2>1. jar.token \in Token
    BY <1>4 DEF TypeOK, Jar
  <2> QED
    BY <1>1, <1>2, <2>1 DEF Dead, DashAccepts, NotAfter, Instant, Token
<1> QED
  BY <1>3, <1>4

\* One redirect: the three facts of RedirectInv hold of the request it leads to.
LEMMA RedirectStep ==
  ASSUME TypeOK, JarInv, RedirectInv, RedirectsEnd, Redirect
  PROVE  RedirectInv' /\ RedirectsEnd'
<1> DEFINE to == Route(page.path, page.token)
<1>1. /\ page.pc = "going" /\ to # page.path /\ page' = GoTo(to, page.hops + 1)
      /\ jar' = jar /\ keys' = keys /\ clock' = clock
  BY DEF Redirect
<1>2. /\ page'.pc = "going" /\ page'.path = to /\ page'.token = Carried
      /\ page'.hops = page.hops + 1
  BY <1>1 DEF GoTo
<1>3. page.hops \in Nat /\ page.path \in Path /\ page.token \in Token \cup {NoToken}
  BY DEF TypeOK, Page
<1>4. to # "guest"
  BY <1>1, <1>3 DEF Route, RoleHome, Path
<1>5. Dead' <=> Dead
  BY <1>1 DEF Dead, DashAccepts
<1>6. CASE DashAccepts(page.token)
  <2>1. to = RoleHome(page.token.role) /\ page.token # NoToken
    BY <1>1, <1>3, <1>6 DEF Route, DashAccepts, Path
  <2>2. page.hops > 0 => page.token = jar.token
    BY <1>1, <2>1 DEF RedirectInv
  <2>3. ASSUME page.hops >= 2
        PROVE  FALSE
    <3>1. page.token = jar.token /\ ~Dead
      BY <1>3, <1>6, <2>2, <2>3 DEF Dead
    <3>2. page.hops = 2 /\ page.path = RoleHome(jar.token.role)
      BY <1>1, <1>3, <2>3, <3>1 DEF RedirectInv, RedirectsEnd
    <3> QED
      BY <1>1, <2>1, <3>1, <3>2
  <2> QED
    BY <1>1, <1>2, <1>3, <1>4, <2>1, <2>2, <2>3, CarriedIsTheJars DEF RedirectInv, RedirectsEnd
<1>7. CASE ~DashAccepts(page.token)
  <2>1. to = "login" /\ page.path # "login"
    BY <1>1, <1>3, <1>7 DEF Route, Path
  <2>2. page.hops > 0 => Dead
    <3>1. jar.token # NoToken /\ NotAfter(jar.until, clock) => Dead
      BY DEF JarInv, Dead, DashAccepts, NotAfter, TypeOK, Jar, Instant, Token
    <3>2. jar.token = NoToken => Dead
      BY DEF Dead, DashAccepts
    <3> QED
      BY <1>1, <1>7, <3>1, <3>2 DEF RedirectInv, Dead
  <2>3. page.hops <= 2
    BY <1>1, <1>3, <2>1 DEF RedirectInv
  <2> QED
    BY <1>1, <1>2, <1>3, <1>4, <1>5, <2>1, <2>2, <2>3, CarriedIsTheJars DEF RedirectInv, RedirectsEnd
<1> QED
  BY <1>6, <1>7

LEMMA RedirectNext ==
  ASSUME TypeOK, TypeOK', JarInv, RedirectInv, RedirectsEnd, [Next]_vars
  PROVE  RedirectInv' /\ RedirectsEnd'
<1>1. CASE Redirect
  BY <1>1, RedirectStep
<1>2. CASE page'.hops = 0
  BY <1>2 DEF RedirectInv, RedirectsEnd
<1>3. CASE page' = page /\ jar' = jar /\ keys' = keys
  <2>1. page.hops \in Nat /\ jar \in Jar
    BY DEF TypeOK, Page
  <2>2. Dead => Dead'
    BY <1>3, DeadStaysDead
  <2>3. NotAfter(jar.until, clock) => NotAfter(jar.until, clock')
    BY <2>1, TimePasses, TimeIsOrdered DEF TypeOK, Jar
  <2> QED
    BY <1>3, <2>1, <2>2, <2>3 DEF RedirectInv, RedirectsEnd
<1>4. page \in Page
  BY DEF TypeOK
<1>5. CASE Pass \/ CallApi \/ LoginFails \/ GuestFails \/ LoginSucceeds
  <2>1. page.pc # "going" => page.hops = 0
    BY DEF RedirectInv
  <2>2. LoginForm.hops = 0 /\ [LoginForm EXCEPT !.pc = "failed", !.path = "guest"].hops = 0
    BY DEF LoginForm
  <2>3. CASE Pass \/ CallApi \/ GuestFails
    BY <1>2, <1>4, <2>1, <2>2, <2>3 DEF Pass, CallApi, GuestFails, Page
  <2>4. CASE LoginFails
    BY <1>2, <1>3, <2>2, <2>4 DEF LoginFails
  <2>5. CASE LoginSucceeds
    BY <1>2, <1>4, <2>5 DEF LoginSucceeds, Page
  <2> QED
    BY <1>5, <2>3, <2>4, <2>5
<1>6. ASSUME NEW u \in Users, LoginReads(u)
      PROVE  page'.hops = 0
  BY <1>6 DEF LoginReads, LoginForm
<1>7. ASSUME NEW path \in Path, Visit(path)
      PROVE  page'.hops = 0
  BY <1>7 DEF Visit, GoTo
<1>8. ASSUME NEW dropped \in BOOLEAN, Logout(dropped)
      PROVE  page'.hops = 0
  BY <1>8 DEF Logout
<1>9. ASSUME NEW service \in Services, NEW secret \in Secrets \cup {None}, Rotate(service, secret)
      PROVE  page'.hops = 0
  BY <1>4, <1>9 DEF Rotate, Page
<1>10. ASSUME NEW u \in Users, NEW role \in Role \cup {None}, ChangeUser(u, role)
       PROVE  page' = page /\ jar' = jar /\ keys' = keys
  BY <1>10 DEF ChangeUser
<1>11. CASE Tick \/ UNCHANGED vars
  BY <1>3, <1>11 DEF Tick, vars
<1> QED
  BY <1>1, <1>2, <1>3, <1>5, <1>6, <1>7, <1>8, <1>9, <1>10, <1>11 DEF Next

-----------------------------------------------------------------------------
(* Pages.                                                                  *)

\* The call that fills a page is refused for no role, and for the session only
\* when that ran out or the secret is another.
LEMMA CallsFitPages ==
  ASSUME TypeOK, OneSecret, page.token # NoToken, page.path = RoleHome(page.token.role)
  PROVE  LET answer == ApiSays(page.token, CallRoles(page.path)) IN
         /\ answer # "403"
         /\ answer \in {"401", "503"} => page.token.exp <= clock.s \/ rotations > 0
<1>1. page.token \in Token /\ page.token.role \in Role /\ page.token.exp \in Nat
  BY DEF TypeOK, Page, Token
<1>2. page.token.role \in CallRoles(page.path)
  BY <1>1 DEF RoleHome, CallRoles, Role
<1>3. ~ApiAccepts(page.token) => page.token.exp <= clock.s \/ rotations > 0
  <2>1. page.token.key = keys.api \/ rotations > 0
    BY DEF OneSecret, TypeOK, Services
  <2> QED
    BY <1>1, <2>1 DEF ApiAccepts, TypeOK, Instant
<1>4. keys.api = None => rotations > 0
  BY SessionAssumption DEF OneSecret, TypeOK, Services
<1> QED
  BY <1>2, <1>3, <1>4 DEF ApiSays

LEMMA PageNext ==
  ASSUME TypeOK, TypeOK', OneSecret, PageInv, [Next]_vars
  PROVE  PageInv'
<1>1. page \in Page /\ page.path \in Path /\ page.token \in Token \cup {NoToken}
  BY DEF TypeOK, Page
<1>2. CASE /\ page'.pc \notin {"calling", "shown"} \/ (page'.pc = "shown" /\ page'.path = "login")
           /\ page'.call = "none"
  BY <1>2 DEF PageInv
<1>3. CASE Pass
  <2>1. CASE page.path = "login"
    BY <1>2, <1>3, <2>1 DEF Pass, LoginForm
  <2>2. CASE page.path # "login"
    <3>1. page.token # NoToken /\ page.path = RoleHome(page.token.role)
      BY <1>1, <1>3, <2>2 DEF Pass, Route, DashAccepts, Path
    <3>2. /\ page'.pc = "calling" /\ page'.path = page.path /\ page'.token = page.token
          /\ page'.call = page.call /\ clock' = clock /\ rotations' = rotations
      BY <1>1, <1>3, <2>2 DEF Pass, Page
    <3> QED
      BY <3>1, <3>2 DEF PageInv
  <2> QED
    BY <2>1, <2>2
<1>4. CASE CallApi
  <2>1. page.token # NoToken /\ page.path = RoleHome(page.token.role)
    BY <1>4 DEF CallApi, PageInv
  <2>2. /\ page'.pc = "shown" /\ page'.path = page.path /\ page'.token = page.token
        /\ page'.call = ApiSays(page.token, CallRoles(page.path))
        /\ clock' = clock /\ rotations' = rotations
    BY <1>1, <1>4 DEF CallApi, Page
  <2> QED
    BY <2>1, <2>2, CallsFitPages DEF PageInv
<1>5. CASE Tick
  <2>1. clock.s <= clock'.s
    BY <1>5, TimePasses DEF NotAfter, TypeOK, Instant
  <2>2. page.token # NoToken => page.token.exp \in Nat
    BY <1>1 DEF Token
  <2> QED
    BY <1>5, <2>1, <2>2 DEF Tick, PageInv, TypeOK, Instant
<1>6. ASSUME NEW service \in Services, NEW secret \in Secrets \cup {None}, Rotate(service, secret)
      PROVE  PageInv'
  BY <1>1, <1>6 DEF Rotate, PageInv, TypeOK, Page
<1>7. ASSUME NEW u \in Users, NEW role \in Role \cup {None}, ChangeUser(u, role)
      PROVE  PageInv'
  BY <1>7 DEF ChangeUser, PageInv
<1>8. CASE UNCHANGED vars
  BY <1>8 DEF vars, PageInv
<1>9. CASE Redirect
  BY <1>2, <1>9 DEF Redirect, GoTo
<1>10. ASSUME NEW path \in Path, Visit(path)
       PROVE  PageInv'
  BY <1>2, <1>10 DEF Visit, GoTo
<1>11. ASSUME NEW u \in Users, LoginReads(u)
       PROVE  PageInv'
  BY <1>2, <1>11 DEF LoginReads, LoginForm
<1>12. CASE LoginFails \/ GuestFails
  <2>1. CASE page' = page
    BY <1>12, <2>1 DEF LoginFails, GuestFails, PageInv
  <2>2. CASE page' \in {LoginForm, [LoginForm EXCEPT !.pc = "failed", !.path = "guest"]}
    <3>1. LoginForm.pc = "shown" /\ LoginForm.path = "login" /\ LoginForm.call = "none"
      BY DEF LoginForm
    <3>2. /\ [LoginForm EXCEPT !.pc = "failed", !.path = "guest"].pc = "failed"
          /\ [LoginForm EXCEPT !.pc = "failed", !.path = "guest"].call = "none"
      BY DEF LoginForm
    <3> QED
      BY <1>2, <2>2, <3>1, <3>2
  <2> QED
    BY <1>12, <2>1, <2>2 DEF LoginFails, GuestFails
<1>13. CASE LoginSucceeds
  <2>1. CASE page.pc = "waiting"
    BY <1>2, <1>13, <2>1 DEF LoginSucceeds
  <2>2. CASE page.pc # "waiting"
    BY <1>1, <1>13, <2>2 DEF LoginSucceeds, PageInv, Page
  <2> QED
    BY <2>1, <2>2
<1>14. ASSUME NEW dropped \in BOOLEAN, Logout(dropped)
       PROVE  PageInv'
  BY <1>2, <1>14 DEF Logout
<1> QED
  BY <1>3, <1>4, <1>5, <1>6, <1>7, <1>8, <1>9, <1>10, <1>11, <1>12, <1>13, <1>14 DEF Next

-----------------------------------------------------------------------------
(* The invariant, and what follows from it.                                *)

LEMMA InvInit == Init => SessionInv
<1> SUFFICES ASSUME Init
             PROVE  SessionInv
  OBVIOUS
<1>1. TypeOK
  BY TypeInit
<1>2. HistoryInv
  BY <1>1, StartIsInstant, TimeIsOrdered DEF Init, HistoryInv
<1>3. JarInv
  BY DEF Init, NoJar, JarInv
<1>4. OneSecret
  BY DEF Init, NoJar, LoginForm, OneSecret
<1>5. RedirectInv /\ RedirectsEnd
  BY DEF Init, LoginForm, RedirectInv, RedirectsEnd
<1>6. PageInv
  BY DEF Init, LoginForm, PageInv
<1> QED
  BY <1>1, <1>2, <1>3, <1>4, <1>5, <1>6 DEF SessionInv

LEMMA InvNext == SessionInv /\ [Next]_vars => SessionInv'
<1> SUFFICES ASSUME SessionInv, [Next]_vars
             PROVE  SessionInv'
  OBVIOUS
<1>1. TypeOK'
  BY TypeNext DEF SessionInv
<1>2. HistoryInv' /\ JarInv' /\ OneSecret' /\ PageInv'
  BY <1>1, HistoryNext, JarNext, OneSecretNext, PageNext DEF SessionInv
<1>3. RedirectInv' /\ RedirectsEnd'
  BY <1>1, RedirectNext DEF SessionInv
<1> QED
  BY <1>1, <1>2, <1>3 DEF SessionInv

\* SessionInv holds of every state of every behaviour (the inductive invariant).
THEOREM SessionInvariantHolds == Spec => []SessionInv
BY InvInit, InvNext, PTL DEF Spec

\* Every variable keeps its type.
THEOREM SessionTypeCorrect == Spec => []TypeOK
<1>1. SessionInv => TypeOK
  BY DEF SessionInv
<1> QED
  BY <1>1, SessionInvariantHolds, PTL

\* What the dashboard's check of a token lets pass, the API's lets pass too, at
\* every instant at which both have one secret (verifyToken, decode_jwt).
THEOREM DashboardNeverOutlivesApi == Spec => []DashboardIsStricter
<1>1. TypeOK => DashboardIsStricter
  BY DEF TypeOK, DashboardIsStricter, DashAccepts, ApiAccepts
<1> QED
  BY <1>1, SessionTypeCorrect, PTL

\* Middleware shows each role the pages whose calls the API allows that role.
THEOREM RoutingAgreesWithRoles == Spec => []PagesFitRoles
<1>1. ASSUME SessionInv
      PROVE  PagesFitRoles
  <2>1. TypeOK /\ PageInv
    BY <1>1 DEF SessionInv
  <2>2. page.token \in Token \cup {NoToken}
    BY <2>1 DEF TypeOK, Page
  <2>3. ASSUME page.pc = "shown", page.path # "login", Carried = page.token
        PROVE  ActSays(page.path) # "403"
    <3>1. page.token # NoToken /\ page.path = RoleHome(page.token.role)
      BY <2>1, <2>3 DEF PageInv
    <3>2. page.token.role \in IF page.path = "console" THEN {"user"} ELSE {"dbre"}
      BY <2>2, <3>1 DEF Token, Role, RoleHome
    <3> QED
      BY <2>3, <3>1, <3>2 DEF ActSays, QuerySays, DiagnoseSays, OptionalDbre, ApiSays
  <2> QED
    BY <2>1, <2>3 DEF PageInv, PagesFitRoles
<1> QED
  BY <1>1, SessionInvariantHolds, PTL

\* A role that was taken away is accepted for no longer than the cookie of a
\* token lives that was signed for it while the account had it.
THEOREM RevocationIsBounded == Spec => []BoundedRevocation
<1>1. ASSUME SessionInv
      PROVE  BoundedRevocation
  <2>1. TypeOK /\ JarInv
    BY <1>1 DEF SessionInv
  <2>2. ASSUME ApiAccepts(jar.token)
        PROVE  NotAfter(jar.token.read, had[jar.token.sub][jar.token.role])
               /\ NotAfter(clock, jar.until)
    <3>1. jar.token # NoToken /\ jar.token \in Token
      BY <2>1, <2>2 DEF TypeOK, Jar, ApiAccepts
    <3> QED
      BY <2>1, <2>2, <3>1 DEF JarInv, ApiAccepts, NotAfter, TypeOK, Jar, Instant, Token
  <2> QED
    BY <2>2 DEF BoundedRevocation
<1> QED
  BY <1>1, SessionInvariantHolds, PTL

\* No visit is redirected for ever: three redirects at most.
THEOREM RedirectsAreBounded == Spec => []RedirectsEnd
<1>1. SessionInv => RedirectsEnd
  BY DEF SessionInv
<1> QED
  BY <1>1, SessionInvariantHolds, PTL
=============================================================================
