----------------------------- MODULE PanelSession -----------------------------
(***************************************************************************)
(* The signed-in browser tab: what App.jsx, ProtectedRoute, Layout,        *)
(* ForcePasswordChange and the transport of api.js show and remember,      *)
(* against the session the backend knows.                                  *)
(*                                                                         *)
(* A request is sent with the cookie of that moment, handled by the        *)
(* backend, and its answer is delivered later; several are under way at    *)
(* once and their answers arrive in any order.  A session is the           *)
(* generation of the account it was made for: a change of the password and *)
(* a revocation raise the generation of the account (the pwv claim), and   *)
(* older cookies are refused.  A hard navigation drops everything of the   *)
(* tab but the cookie.                                                     *)
(***************************************************************************)
EXTENDS Naturals, FiniteSets

CONSTANTS
    GenBound,   \* bound on the generations of the account
    LossBound,  \* bound on the answers the network loses
    NetBound    \* bound on the requests under way at once

ASSUME PanelSessionAssumption ==
    GenBound \in Nat /\ LossBound \in Nat /\ NetBound \in Nat

VARIABLES
    server,  \* the account: its generation and must_change_password
    cookie,  \* the generation of the cookie, or NoCookie
    cache,   \* the user cache of api.js
    path,    \* the route of the tab: /login, or one behind the login
    view,    \* what the tab shows
    net,     \* the requests under way, one slot per kind
    lost     \* answers lost so far

panelVars == <<server, cookie, cache, path, view, net, lost>>

NoCookie == GenBound + 1

\* boot: setup status; me: ProtectedRoute; ping: Layout; page: any request of
\* a page; own: the change of the own password, on the profile tab or in
\* ForcePasswordChange; again: getMe after it.
Kinds == {"boot", "login", "me", "ping", "page", "own", "again", "logout"}
Views == {"loading", "bootError", "login", "checking", "error", "force", "pages"}
Answers == {"ok", "flagged", "401", "403", "refused", "network"}

PanelTypeOK ==
    /\ server \in [gen : 0..GenBound, must : BOOLEAN]
    /\ cookie \in 0..NoCookie
    /\ cache \in {"none", "user", "flagged"}
    /\ path \in {"login", "panel"}
    /\ view \in Views
    /\ net \in [Kinds -> [phase : {"idle", "sent", "done"}, gen : 0..NoCookie,
                          answer : Answers]]
    /\ lost \in 0..LossBound

Idle == [phase |-> "idle", gen |-> NoCookie, answer |-> "ok"]

\* The cookie matters to the requests of a session; the public ones go
\* without a look at it.
Sent(k) ==
    [net EXCEPT ![k] = [Idle EXCEPT !.phase = "sent",
       !.gen = IF k \in {"boot", "login", "logout"} THEN NoCookie ELSE cookie]]

UnderWay == {k \in Kinds : net[k].phase # "idle"}

Freed(k) == [net EXCEPT ![k] = Idle]

\* A hard navigation, and what the tab does when it loads: App asks for the
\* setup status before it shows a route.
Loaded == [[k \in Kinds |-> Idle] EXCEPT
             !["boot"] = [Idle EXCEPT !.phase = "sent"]]

PanelInit ==
    /\ server = [gen |-> 0, must |-> FALSE]
    /\ cookie \in {0, NoCookie}
    /\ cache = "none"
    /\ path = "panel"
    /\ view = "loading"
    /\ net = Loaded
    /\ lost = 0

-----------------------------------------------------------------------------
\* The backend.

Valid(k) == net[k].gen = server.gen

\* get_current_user and its password gate: /auth/me, the change of the
\* password and the logout are open to a flagged account, pages are not.
AnswerTo(k) ==
    CASE k \in {"boot", "logout"} -> {"ok"}
      [] k = "login" -> {"refused", IF server.must THEN "flagged" ELSE "ok"}
      [] k \notin {"boot", "logout", "login"} /\ ~Valid(k) -> {"401"}
      [] k \in {"me", "ping", "again"} /\ Valid(k) ->
            {IF server.must THEN "flagged" ELSE "ok"}
      [] k = "page" /\ Valid(k) -> {IF server.must THEN "403" ELSE "ok"}
      [] k = "own" /\ Valid(k) -> {"refused"}
                                  \cup IF server.gen < GenBound THEN {"ok"} ELSE {}

Handle(k) ==
    /\ net[k].phase = "sent"
    /\ \E a \in AnswerTo(k) :
         LET changed == k = "own" /\ a = "ok"
             gen == IF changed THEN server.gen + 1 ELSE server.gen
             given == changed \/ (k = "login" /\ a # "refused")
         IN /\ net' = [net EXCEPT ![k] = [phase |-> "done", answer |-> a,
                                         gen |-> IF given THEN gen ELSE NoCookie]]
            /\ server' = [gen |-> gen, must |-> server.must /\ ~changed]
    /\ UNCHANGED <<cookie, cache, path, view, lost>>

\* The request or its answer is lost on the way.
Lose(k) ==
    /\ net[k].phase \in {"sent", "done"} /\ net[k].answer # "network"
    /\ lost < LossBound
    /\ lost' = lost + 1
    /\ net' = [net EXCEPT ![k] = [Idle EXCEPT !.phase = "done", !.answer = "network"]]
    /\ UNCHANGED <<server, cookie, cache, path, view>>

\* An administrator sets a temporary password (must_change_password) or ends
\* the sessions of the account; both raise the generation.
Revoke(must) ==
    /\ server.gen < GenBound
    /\ server' = [gen |-> server.gen + 1, must |-> server.must \/ must]
    /\ UNCHANGED <<cookie, cache, path, view, net, lost>>

\* An administrator demands a new password and leaves the session alone.
Demand ==
    /\ ~server.must
    /\ server' = [server EXCEPT !.must = TRUE]
    /\ UNCHANGED <<cookie, cache, path, view, net, lost>>

-----------------------------------------------------------------------------
\* The tab.

HardNav(to) ==
    /\ cache' = "none" /\ path' = to /\ view' = "loading" /\ net' = Loaded

\* ProtectedRoute mounts: with a cached user it shows the pages, or the
\* forced change, at once; without one it asks for the user first.
Mounted(free) ==
    /\ path' = "panel"
    /\ view' = CASE cache = "user" -> "pages"
                 [] cache = "flagged" -> "force"
                 [] cache = "none" -> "checking"
    /\ net' = IF cache = "none" /\ net["me"].phase = "idle"
              THEN [free EXCEPT !["me"] = [Idle EXCEPT !.phase = "sent", !.gen = cookie]]
              ELSE free

\* isExemptPath: the public pages.
Exempt == path = "login"

\* A 401 on a page behind the login drops the cached user and loads /login;
\* the path of a public page is exempt.  (Mutant: every path is exempt.)
Unauthorized_stays(k) ==
    cache' = "none" /\ net' = Freed(k) /\ UNCHANGED <<path, view>>

Unauthorized(k) ==
    IF Exempt
    THEN cache' = "none" /\ net' = Freed(k) /\ UNCHANGED <<path, view>>
    ELSE HardNav("login")

\* The 403 of the password gate marks the cached user and raises the gate,
\* which ProtectedRoute listens for as long as it is mounted.
GateRaised(k) ==
    /\ cache' = IF cache = "none" THEN "none" ELSE "flagged"
    /\ view' = IF view \in {"pages", "force"} THEN "force" ELSE view
    /\ net' = Freed(k)
    /\ UNCHANGED path

Stays(k) == net' = Freed(k) /\ UNCHANGED <<cache, path, view>>

CachedAs(a) == IF a = "flagged" THEN "flagged" ELSE "user"
ViewFor(a) == IF a = "flagged" THEN "force" ELSE "pages"

\* checkSetupStatus answers: the routes are mounted, or the error card.
DeliverBoot(a) ==
    /\ UNCHANGED <<cookie, cache>>
    /\ CASE a = "network" -> /\ view' = "bootError" /\ net' = Freed("boot")
                             /\ UNCHANGED path
         [] a # "network" /\ path = "login" -> /\ view' = "login" /\ net' = Freed("boot")
                                             /\ UNCHANGED path
         [] a # "network" /\ path # "login" -> Mounted(Freed("boot"))

RetryBoot ==
    /\ view = "bootError"
    /\ view' = "loading"
    /\ net' = Sent("boot")
    /\ UNCHANGED <<server, cookie, cache, path, lost>>

\* The answer of the login form or of a passkey sets the cookie and the
\* cached user, and LoginPage goes to /.
DeliverLogin(a) ==
    IF a \in {"ok", "flagged"}
    THEN /\ cookie' = net["login"].gen
         /\ cache' = CachedAs(a)
         /\ path' = "panel"
         /\ view' = ViewFor(a)
         /\ net' = Freed("login")
    ELSE cookie' = cookie /\ Stays("login")

\* (Mutant: only a 401 ends the check.)
DeliverMe_waits(a) ==
    /\ UNCHANGED cookie
    /\ CASE a = "401" -> Unauthorized("me")
         [] a = "network" -> Stays("me")
         [] OTHER -> /\ net' = Freed("me") /\ UNCHANGED path
                     /\ cache' = CachedAs(a)
                     /\ view' = IF view = "checking" THEN ViewFor(a) ELSE view

\* The first getMe of ProtectedRoute.  It fills the cache even if the route
\* was left meanwhile.  An error that is not a 401 keeps the tab at the error
\* card; the session is not given up.
DeliverMe(a) ==
    /\ UNCHANGED cookie
    /\ CASE a = "401" -> Unauthorized("me")
         [] a = "network" -> /\ net' = Freed("me") /\ UNCHANGED <<cache, path>>
                             /\ view' = IF view = "checking" THEN "error" ELSE view
         [] OTHER -> /\ net' = Freed("me") /\ UNCHANGED path
                     /\ cache' = CachedAs(a)
                     /\ view' = IF view = "checking" THEN ViewFor(a) ELSE view

\* Layout's ping drops the user it gets: only a 401 has an effect.  (Mutant:
\* the ping drops its errors before the transport sees them.)
DeliverQuietly_deaf(k, a) ==
    /\ cookie' = cookie
    /\ CASE a = "401" /\ k # "ping" -> Unauthorized(k)
         [] a = "403" -> GateRaised(k)
         [] OTHER -> Stays(k)

DeliverQuietly(k, a) ==
    /\ cookie' = cookie
    /\ CASE a = "401" -> Unauthorized(k)
         [] a = "403" -> GateRaised(k)
         [] OTHER -> Stays(k)

\* The change of the own password: its answer brings a new cookie.  On the
\* profile tab that is all.
OwnOnTab == Stays("own")

\* The forced change then asks for the user.
OwnForced(a) ==
    /\ UNCHANGED <<cache, path, view>>
    /\ net' = IF a = "ok"
              THEN [Freed("own") EXCEPT !["again"] =
                      [Idle EXCEPT !.phase = "sent", !.gen = net["own"].gen]]
              ELSE Freed("own")

DeliverOwn(a) ==
    /\ cookie' = IF a = "ok" THEN net["own"].gen ELSE cookie
    /\ CASE a = "401" -> Unauthorized("own")
         [] a # "401" /\ view = "force" -> OwnForced(a)
         [] a # "401" /\ view # "force" -> OwnOnTab

\* onDone: the gate falls with what the backend says now.
DeliverAgain(a) ==
    /\ cookie' = cookie
    /\ CASE a = "401" -> Unauthorized("again")
         [] a \in {"ok", "flagged"} -> /\ cache' = CachedAs(a)
                                       /\ net' = Freed("again") /\ UNCHANGED path
                                       /\ view' = IF view = "force" THEN ViewFor(a)
                                                  ELSE view
         [] OTHER -> Stays("again")

\* api.logout: whether the request arrived or not, the cached user is dropped
\* and /login loaded.  Its answer removes the cookie of that moment.
DeliverLogout(a) ==
    /\ cookie' = IF a = "ok" THEN NoCookie ELSE cookie
    /\ HardNav("login")

Deliver(k) ==
    LET a == net[k].answer
    IN /\ net[k].phase = "done"
       /\ CASE k = "boot" -> DeliverBoot(a)
            [] k = "login" -> DeliverLogin(a)
            [] k = "me" -> DeliverMe(a)
            [] k \in {"ping", "page"} -> DeliverQuietly(k, a)
            [] k = "own" -> DeliverOwn(a)
            [] k = "again" -> DeliverAgain(a)
            [] k = "logout" -> DeliverLogout(a)
       /\ UNCHANGED <<server, lost>>

\* The buttons of the forced change wait for a change under way.
ForceFree ==
    view = "force" /\ net["own"].phase = "idle" /\ net["again"].phase = "idle"

\* What the user and the timers of the tab start, and where.
Start(k) ==
    /\ net[k].phase = "idle"
    /\ Cardinality(UnderWay) < NetBound
    /\ CASE k = "login" -> view = "login"
         [] k \in {"ping", "page"} -> view = "pages"
         [] k \in {"own", "logout"} -> view = "pages" \/ ForceFree
         [] k \in {"boot", "me", "again"} -> FALSE
    /\ net' = Sent(k)
    /\ IF k = "logout" /\ view = "pages"
       THEN path' = "login" /\ view' = "login" ELSE UNCHANGED <<path, view>>
    /\ UNCHANGED <<server, cookie, cache, lost>>

\* The history of the browser: from the login back into the panel, and from
\* the panel back to the login, without a load.
GoPanel ==
    /\ view = "login"
    /\ Mounted(net)
    /\ UNCHANGED <<server, cookie, cache, lost>>

GoLogin ==
    /\ view \in {"checking", "error", "pages", "force"}
    /\ path' = "login" /\ view' = "login"
    /\ UNCHANGED <<server, cookie, cache, net, lost>>

Reload ==
    /\ view \in {"error", "pages", "force"}
    /\ HardNav(path)
    /\ UNCHANGED <<server, cookie, lost>>

-----------------------------------------------------------------------------
PanelNext ==
    \/ \E k \in Kinds : Handle(k) \/ Lose(k) \/ Deliver(k) \/ Start(k)
    \/ \E must \in BOOLEAN : Revoke(must)
    \/ Demand
    \/ RetryBoot \/ GoPanel \/ GoLogin \/ Reload

\* The browser and the backend go on, and Layout's timer fires.
PanelFairness ==
    /\ \A k \in Kinds : WF_panelVars(Handle(k)) /\ WF_panelVars(Deliver(k))
    /\ WF_panelVars(Start("ping"))

PanelSpec == PanelInit /\ [][PanelNext]_panelVars /\ PanelFairness

-----------------------------------------------------------------------------
\* Nothing behind the login is shown without a user: the pages and the forced
\* change read the cached user, which a late 401 or logout may take away.
PagesHaveUser == view \in {"pages", "force"} => cache # "none"

\* A session that was revoked or expired does not keep its pages: the tab
\* leaves them even if nobody touches it (Layout's ping).
DeadSessionLeaves ==
    (view = "pages" /\ cookie # server.gen)
        ~> (view # "pages" \/ cookie = server.gen)

\* The first checks of a tab end, in a page, the login or an error card with
\* a button.
ChecksEnd ==
    view \in {"loading", "checking"} ~> view \notin {"loading", "checking"}

=============================================================================
