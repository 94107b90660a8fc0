---------------------------- MODULE SessionProofs -----------------------------
(***************************************************************************)
(* Theorems about PanelSession, for any number of sessions, lost answers   *)
(* and requests under way, about LoginForm, for any number of captchas the *)
(* user solves, about Language, for any languages, about ProfileTab, and   *)
(* about MCSessions, where they stand side by side.                        *)
(***************************************************************************)
EXTENDS MCSessions, StepUpProofs

USE PanelSessionAssumption

(* Nothing behind the login is shown at the address of the login: a 401      *)
(* there drops the cached user and leaves the view alone.                    *)

ViewHasPath == view \in {"checking", "error", "force", "pages"} => path = "panel"

PanelInv == PanelTypeOK /\ ViewHasPath /\ PagesHaveUser

Requests == [phase : {"idle", "sent", "done"}, gen : 0..NoCookie, answer : Answers]

USE DEF Kinds, Views, Answers

-----------------------------------------------------------------------------
(* The slots of the requests.                                                *)

LEMMA Numbers == NoCookie \in 0..NoCookie /\ 0..GenBound \subseteq 0..NoCookie
BY DEF NoCookie

LEMMA PanelTyped ==
    ASSUME PanelInv
    PROVE  /\ server \in [gen : 0..GenBound, must : BOOLEAN]
           /\ cookie \in 0..NoCookie /\ cache \in {"none", "user", "flagged"}
           /\ path \in {"login", "panel"} /\ view \in Views
           /\ net \in [Kinds -> Requests] /\ lost \in 0..LossBound
BY DEF PanelInv, PanelTypeOK, Requests

LEMMA IdleType ==
    ASSUME NEW g \in 0..NoCookie
    PROVE  /\ Idle \in Requests
           /\ [Idle EXCEPT !.phase = "sent"] \in Requests
           /\ [Idle EXCEPT !.phase = "sent", !.gen = g] \in Requests
           /\ [Idle EXCEPT !.phase = "done", !.answer = "network"] \in Requests
<1>1. Idle \in Requests
      BY Numbers DEF Idle, Requests
<1> QED BY <1>1 DEF Requests

LEMMA SentType ==
    ASSUME PanelInv, NEW k \in Kinds
    PROVE  Sent(k) \in [Kinds -> Requests]
<1> DEFINE g == IF k \in {"boot", "login", "logout"} THEN NoCookie ELSE cookie
<1>1. g \in 0..NoCookie
      BY Numbers, PanelTyped
<1> HIDE DEF g
<1>2. [Idle EXCEPT !.phase = "sent", !.gen = g] \in Requests
      BY <1>1, IdleType
<1>3. Sent(k) = [net EXCEPT ![k] = [Idle EXCEPT !.phase = "sent", !.gen = g]]
      BY DEF Sent, g
<1> QED BY <1>2, <1>3, PanelTyped

LEMMA FreedType ==
    ASSUME PanelInv, NEW k \in Kinds
    PROVE  Freed(k) \in [Kinds -> Requests]
BY IdleType, Numbers, PanelTyped DEF Freed

LEMMA LoadedType == Loaded \in [Kinds -> Requests]
BY IdleType, Numbers DEF Loaded

LEMMA HardNavInv ==
    ASSUME PanelInv, NEW to \in {"login", "panel"}, HardNav(to),
           cookie' \in 0..NoCookie, UNCHANGED <<server, lost>>
    PROVE  PanelInv'
BY PanelTyped, LoadedType DEF HardNav, PanelInv, PanelTypeOK, ViewHasPath, PagesHaveUser, Requests

(* A step of the tab within the page.                                        *)

LEMMA WithinInv ==
    ASSUME PanelInv, net' \in [Kinds -> Requests], cookie' \in 0..NoCookie,
           cache' \in {"none", "user", "flagged"}, path' \in {"login", "panel"},
           view' \in Views, ViewHasPath', PagesHaveUser', UNCHANGED <<server, lost>>
    PROVE  PanelInv'
BY PanelTyped DEF PanelInv, PanelTypeOK, Requests

LEMMA UnauthorizedInv ==
    ASSUME PanelInv, NEW k \in Kinds, Unauthorized(k), UNCHANGED <<cookie, server, lost>>
    PROVE  PanelInv'
<1>1. CASE Exempt
  <2>1. /\ cache' = "none" /\ net' = Freed(k) /\ UNCHANGED <<path, view>>
        /\ path = "login"
        BY <1>1 DEF Unauthorized, Exempt
  <2>2. view \notin {"checking", "error", "force", "pages"}
        BY <2>1 DEF PanelInv, ViewHasPath
  <2>3. ViewHasPath' /\ PagesHaveUser'
        BY <2>1, <2>2 DEF ViewHasPath, PagesHaveUser
  <2>4. net' \in [Kinds -> Requests]
        BY <2>1, FreedType
  <2> QED BY <2>1, <2>3, <2>4, PanelTyped, WithinInv
<1>2. CASE ~Exempt
      BY <1>2, HardNavInv, PanelTyped DEF Unauthorized
<1> QED BY <1>1, <1>2

LEMMA StaysInv ==
    ASSUME PanelInv, NEW k \in Kinds, Stays(k), cookie' \in 0..NoCookie,
           UNCHANGED <<server, lost>>
    PROVE  PanelInv'
<1>1. net' \in [Kinds -> Requests] /\ UNCHANGED <<cache, path, view>>
      BY FreedType DEF Stays
<1>2. ViewHasPath' /\ PagesHaveUser'
      BY <1>1 DEF PanelInv, ViewHasPath, PagesHaveUser
<1> QED BY <1>1, <1>2, PanelTyped, WithinInv

LEMMA GateRaisedInv ==
    ASSUME PanelInv, NEW k \in Kinds, GateRaised(k), UNCHANGED <<cookie, server, lost>>
    PROVE  PanelInv'
<1>1. /\ cache' = IF cache = "none" THEN "none" ELSE "flagged"
      /\ view' = IF view \in {"pages", "force"} THEN "force" ELSE view
      /\ net' = Freed(k) /\ path' = path
      BY DEF GateRaised
<1>2. ViewHasPath' /\ PagesHaveUser'
      BY <1>1 DEF PanelInv, ViewHasPath, PagesHaveUser
<1>3. net' \in [Kinds -> Requests] /\ view' \in Views
      BY <1>1, FreedType, PanelTyped
<1> QED BY <1>1, <1>2, <1>3, PanelTyped, WithinInv

LEMMA MountedInv ==
    ASSUME PanelInv, NEW free \in [Kinds -> Requests], Mounted(free),
           UNCHANGED <<server, cookie, cache, lost>>
    PROVE  PanelInv'
<1>1. [Idle EXCEPT !.phase = "sent", !.gen = cookie] \in Requests
      BY IdleType, PanelTyped
<1>2. net' \in [Kinds -> Requests]
      BY <1>1 DEF Mounted
<1>3. /\ path' = "panel" /\ view' \in Views
      /\ view' \in {"pages", "force"} => cache # "none"
      BY PanelTyped DEF Mounted
<1>4. ViewHasPath' /\ PagesHaveUser'
      BY <1>3 DEF ViewHasPath, PagesHaveUser
<1> QED BY <1>2, <1>3, <1>4, PanelTyped, WithinInv

-----------------------------------------------------------------------------
(* The answers, one lemma per handler.                                       *)

LEMMA DeliverBootInv ==
    ASSUME PanelInv, NEW a \in Answers, DeliverBoot(a), UNCHANGED <<server, lost>>
    PROVE  PanelInv'
<1>1. UNCHANGED <<cookie, cache>> /\ Freed("boot") \in [Kinds -> Requests]
      BY FreedType DEF DeliverBoot
<1>2. CASE a = "network"
  <2>1. view' = "bootError" /\ net' = Freed("boot") /\ path' = path
        BY <1>2 DEF DeliverBoot
  <2>2. ViewHasPath' /\ PagesHaveUser'
        BY <2>1 DEF ViewHasPath, PagesHaveUser
  <2> QED BY <1>1, <2>1, <2>2, PanelTyped, WithinInv
<1>3. CASE a # "network" /\ path = "login"
  <2>1. view' = "login" /\ net' = Freed("boot") /\ path' = path
        BY <1>3 DEF DeliverBoot
  <2>2. ViewHasPath' /\ PagesHaveUser'
        BY <2>1 DEF ViewHasPath, PagesHaveUser
  <2> QED BY <1>1, <2>1, <2>2, PanelTyped, WithinInv
<1>4. CASE a # "network" /\ path # "login"
  <2>1. Mounted(Freed("boot"))
        BY <1>4 DEF DeliverBoot
  <2> QED BY <1>1, <2>1, MountedInv
<1> QED BY <1>2, <1>3, <1>4

LEMMA CachedUser ==
    ASSUME NEW a
    PROVE  CachedAs(a) \in {"user", "flagged"} /\ ViewFor(a) \in {"force", "pages"}
BY DEF CachedAs, ViewFor

LEMMA DeliverLoginInv ==
    ASSUME PanelInv, NEW a \in Answers, DeliverLogin(a), UNCHANGED <<server, lost>>
    PROVE  PanelInv'
<1>1. CASE a \in {"ok", "flagged"}
  <2>1. /\ cookie' = net["login"].gen /\ cache' = CachedAs(a) /\ path' = "panel"
        /\ view' = ViewFor(a) /\ net' = Freed("login")
        BY <1>1 DEF DeliverLogin
  <2>2. net["login"].gen \in 0..NoCookie
        BY PanelTyped DEF Requests
  <2>3. /\ cache' \in {"user", "flagged"} /\ view' \in {"force", "pages"}
        /\ net' \in [Kinds -> Requests]
        BY <2>1, CachedUser, FreedType
  <2>4. ViewHasPath' /\ PagesHaveUser'
        BY <2>1, <2>3 DEF ViewHasPath, PagesHaveUser
  <2> QED BY <2>1, <2>2, <2>3, <2>4, WithinInv
<1>2. CASE a \notin {"ok", "flagged"}
      BY <1>2, StaysInv, PanelTyped DEF DeliverLogin
<1> QED BY <1>1, <1>2

(* The user asked for while the tab waits behind the login or at the forced  *)
(* change.                                                                   *)

LEMMA UserArrivesInv ==
    ASSUME PanelInv, NEW a, NEW k \in Kinds, NEW waiting \in {"checking", "force"},
           cache' = CachedAs(a), net' = Freed(k), UNCHANGED <<path, cookie, server, lost>>,
           view' = IF view = waiting THEN ViewFor(a) ELSE view
    PROVE  PanelInv'
<1>1. cache' \in {"user", "flagged"} /\ net' \in [Kinds -> Requests]
      BY CachedUser, FreedType
<1>2. view' \in Views
      BY CachedUser, PanelTyped
<1>3. ViewHasPath'
      BY CachedUser DEF PanelInv, ViewHasPath
<1>4. PagesHaveUser'
      BY <1>1 DEF PagesHaveUser
<1> QED BY <1>1, <1>2, <1>3, <1>4, PanelTyped, WithinInv

LEMMA DeliverMeInv ==
    ASSUME PanelInv, NEW a \in Answers, DeliverMe(a), UNCHANGED <<server, lost>>
    PROVE  PanelInv'
<1>1. CASE a = "401"
      BY <1>1, UnauthorizedInv DEF DeliverMe
<1>2. CASE a = "network"
  <2>1. /\ net' = Freed("me") /\ UNCHANGED <<cookie, cache, path>>
        /\ view' = IF view = "checking" THEN "error" ELSE view
        BY <1>2 DEF DeliverMe
  <2>2. ViewHasPath' /\ PagesHaveUser'
        BY <2>1 DEF PanelInv, ViewHasPath, PagesHaveUser
  <2>3. net' \in [Kinds -> Requests] /\ view' \in Views
        BY <2>1, FreedType, PanelTyped
  <2> QED BY <2>1, <2>2, <2>3, PanelTyped, WithinInv
<1>3. CASE a \notin {"401", "network"}
  <2>1. /\ net' = Freed("me") /\ UNCHANGED <<cookie, path>> /\ cache' = CachedAs(a)
        /\ view' = IF view = "checking" THEN ViewFor(a) ELSE view
        BY <1>3 DEF DeliverMe
  <2> QED BY <2>1, UserArrivesInv
<1> QED BY <1>1, <1>2, <1>3

LEMMA DeliverQuietlyInv ==
    ASSUME PanelInv, NEW k \in Kinds, NEW a \in Answers, DeliverQuietly(k, a),
           UNCHANGED <<server, lost>>
    PROVE  PanelInv'
<1>1. CASE a = "401"
      BY <1>1, UnauthorizedInv DEF DeliverQuietly
<1>2. CASE a = "403"
      BY <1>2, GateRaisedInv DEF DeliverQuietly
<1>3. CASE a \notin {"401", "403"}
      BY <1>3, StaysInv, PanelTyped DEF DeliverQuietly
<1> QED BY <1>1, <1>2, <1>3

LEMMA DeliverOwnInv ==
    ASSUME PanelInv, NEW a \in Answers, DeliverOwn(a), UNCHANGED <<server, lost>>
    PROVE  PanelInv'
<1>1. cookie' \in 0..NoCookie /\ net["own"].gen \in 0..NoCookie
      BY PanelTyped DEF DeliverOwn, Requests
<1>2. CASE a = "401"
      BY <1>2, UnauthorizedInv DEF DeliverOwn
<1>3. CASE a # "401" /\ view = "force"
  <2>1. /\ UNCHANGED <<cache, path, view>>
        /\ net' = IF a = "ok"
                  THEN [Freed("own") EXCEPT !["again"] =
                          [Idle EXCEPT !.phase = "sent", !.gen = net["own"].gen]]
                  ELSE Freed("own")
        BY <1>3 DEF DeliverOwn, OwnForced
  <2>2. [Idle EXCEPT !.phase = "sent", !.gen = net["own"].gen] \in Requests
        BY <1>1, IdleType
  <2>3. net' \in [Kinds -> Requests]
        BY <2>1, <2>2, FreedType
  <2>4. ViewHasPath' /\ PagesHaveUser'
        BY <2>1 DEF PanelInv, ViewHasPath, PagesHaveUser
  <2> QED BY <1>1, <2>1, <2>3, <2>4, PanelTyped, WithinInv
<1>4. CASE a # "401" /\ view # "force"
      BY <1>1, <1>4, StaysInv DEF DeliverOwn, OwnOnTab
<1> QED BY <1>2, <1>3, <1>4

LEMMA DeliverAgainInv ==
    ASSUME PanelInv, NEW a \in Answers, DeliverAgain(a), UNCHANGED <<server, lost>>
    PROVE  PanelInv'
<1>1. CASE a = "401"
      BY <1>1, UnauthorizedInv DEF DeliverAgain
<1>2. CASE a \in {"ok", "flagged"}
      BY <1>2, UserArrivesInv DEF DeliverAgain
<1>3. CASE a \notin {"401", "ok", "flagged"}
      BY <1>3, StaysInv, PanelTyped DEF DeliverAgain
<1> QED BY <1>1, <1>2, <1>3

LEMMA DeliverLogoutInv ==
    ASSUME PanelInv, NEW a \in Answers, DeliverLogout(a), UNCHANGED <<server, lost>>
    PROVE  PanelInv'
<1>1. cookie' \in 0..NoCookie
      BY Numbers, PanelTyped DEF DeliverLogout
<1> QED BY <1>1, HardNavInv DEF DeliverLogout

LEMMA DeliverInv ==
    ASSUME PanelInv, NEW k \in Kinds, Deliver(k)
    PROVE  PanelInv'
<1> DEFINE a == net[k].answer
<1>1. a \in Answers /\ UNCHANGED <<server, lost>>
      BY PanelTyped DEF Deliver, Requests
<1> HIDE DEF a
<1>2. CASE k = "boot"
  <2>1. DeliverBoot(a)
        BY <1>2 DEF Deliver, a
  <2> QED BY <1>1, <2>1, DeliverBootInv
<1>3. CASE k = "login"
  <2>1. DeliverLogin(a)
        BY <1>3 DEF Deliver, a
  <2> QED BY <1>1, <2>1, DeliverLoginInv
<1>4. CASE k = "me"
  <2>1. DeliverMe(a)
        BY <1>4 DEF Deliver, a
  <2> QED BY <1>1, <2>1, DeliverMeInv
<1>5. CASE k \in {"ping", "page"}
  <2>1. DeliverQuietly(k, a)
        BY <1>5 DEF Deliver, a
  <2> QED BY <1>1, <2>1, DeliverQuietlyInv
<1>6. CASE k = "own"
  <2>1. DeliverOwn(a)
        BY <1>6 DEF Deliver, a
  <2> QED BY <1>1, <2>1, DeliverOwnInv
<1>7. CASE k = "again"
  <2>1. DeliverAgain(a)
        BY <1>7 DEF Deliver, a
  <2> QED BY <1>1, <2>1, DeliverAgainInv
<1>8. CASE k = "logout"
  <2>1. DeliverLogout(a)
        BY <1>8 DEF Deliver, a
  <2> QED BY <1>1, <2>1, DeliverLogoutInv
<1> QED BY <1>2, <1>3, <1>4, <1>5, <1>6, <1>7, <1>8

-----------------------------------------------------------------------------
(* The backend and the network leave the tab alone.                          *)

LEMMA OutsideInv ==
    ASSUME PanelInv, server' \in [gen : 0..GenBound, must : BOOLEAN],
           net' \in [Kinds -> Requests], lost' \in 0..LossBound,
           UNCHANGED <<cookie, cache, path, view>>
    PROVE  PanelInv'
BY PanelTyped DEF PanelInv, PanelTypeOK, Requests, ViewHasPath, PagesHaveUser

LEMMA AnswersFit ==
    ASSUME NEW k \in Kinds, NEW a \in AnswerTo(k)
    PROVE  a \in Answers /\ (k = "own" /\ a = "ok" => server.gen < GenBound)
<1>1. CASE k \in {"boot", "logout"}
      BY <1>1 DEF AnswerTo
<1>2. CASE k = "login"
      BY <1>2 DEF AnswerTo
<1>3. CASE k \notin {"boot", "logout", "login"} /\ ~Valid(k)
      BY <1>3 DEF AnswerTo
<1>4. CASE k \in {"me", "ping", "again"} /\ Valid(k)
      BY <1>4 DEF AnswerTo
<1>5. CASE k = "page" /\ Valid(k)
      BY <1>5 DEF AnswerTo
<1>6. CASE k = "own" /\ Valid(k)
      BY <1>6 DEF AnswerTo
<1> QED BY <1>1, <1>2, <1>3, <1>4, <1>5, <1>6

LEMMA HandleInv ==
    ASSUME PanelInv, NEW k \in Kinds, Handle(k)
    PROVE  PanelInv'
<1>1. PICK a \in AnswerTo(k) :
        LET changed == k = "own" /\ a = "ok"
            gen == IF changed THEN server.gen + 1 ELSE server.gen
            given == changed \/ (k = "login" /\ a # "refused")
        IN /\ net' = [net EXCEPT ![k] = [phase |-> "done", answer |-> a,
                                        gen |-> IF given THEN gen ELSE NoCookie]]
           /\ server' = [gen |-> gen, must |-> server.must /\ ~changed]
      BY DEF Handle
<1> DEFINE changed == k = "own" /\ a = "ok"
           gen == IF changed THEN server.gen + 1 ELSE server.gen
           given == changed \/ (k = "login" /\ a # "refused")
           g == IF given THEN gen ELSE NoCookie
<1>2. gen \in 0..GenBound
      BY AnswersFit, PanelTyped
<1>3. g \in 0..NoCookie /\ a \in Answers
      BY <1>2, AnswersFit, Numbers
<1>4. (server.must /\ ~changed) \in BOOLEAN
      BY PanelTyped
<1>5. server' = [gen |-> gen, must |-> server.must /\ ~changed]
      BY <1>1
<1>6. net' = [net EXCEPT ![k] = [phase |-> "done", answer |-> a, gen |-> g]]
      BY <1>1
<1>7. server' \in [gen : 0..GenBound, must : BOOLEAN]
  <2> HIDE DEF gen, changed
  <2> QED BY <1>2, <1>4, <1>5
<1>8. net' \in [Kinds -> Requests]
  <2> HIDE DEF g
  <2>1. [phase |-> "done", answer |-> a, gen |-> g] \in Requests
        BY <1>3 DEF Requests
  <2> QED BY <1>6, <2>1, PanelTyped
<1>9. UNCHANGED <<cookie, cache, path, view, lost>>
      BY DEF Handle
<1> QED BY <1>7, <1>8, <1>9, PanelTyped, OutsideInv

LEMMA LoseInv ==
    ASSUME PanelInv, NEW k \in Kinds, Lose(k)
    PROVE  PanelInv'
<1>1. lost' \in 0..LossBound
      BY PanelTyped DEF Lose
<1>2. net' \in [Kinds -> Requests]
  <2>1. [Idle EXCEPT !.phase = "done", !.answer = "network"] \in Requests
        BY IdleType, Numbers
  <2> QED BY <2>1, PanelTyped DEF Lose
<1> QED BY <1>1, <1>2, OutsideInv, PanelTyped DEF Lose

LEMMA AdministratorInv ==
    ASSUME PanelInv, (\E must \in BOOLEAN : Revoke(must)) \/ Demand
    PROVE  PanelInv'
<1>1. server' \in [gen : 0..GenBound, must : BOOLEAN]
  <2>1. ASSUME NEW must \in BOOLEAN, Revoke(must)
        PROVE  server' \in [gen : 0..GenBound, must : BOOLEAN]
    <3>1. server.gen + 1 \in 0..GenBound
          BY <2>1, PanelTyped DEF Revoke
    <3>2. (server.must \/ must) \in BOOLEAN
          BY PanelTyped
    <3>3. server' = [gen |-> server.gen + 1, must |-> server.must \/ must]
          BY <2>1 DEF Revoke
    <3> QED BY <3>1, <3>2, <3>3
  <2>2. CASE Demand
        BY <2>2, PanelTyped DEF Demand
  <2> QED BY <2>1, <2>2
<1> QED BY <1>1, OutsideInv, PanelTyped DEF Revoke, Demand

-----------------------------------------------------------------------------
(* The user and the timers.                                                  *)

LEMMA StartInv ==
    ASSUME PanelInv, NEW k \in Kinds, Start(k)
    PROVE  PanelInv'
<1>1. /\ net' = Sent(k) /\ UNCHANGED <<server, cookie, cache, lost>>
      /\ \/ path' = "login" /\ view' = "login"
         \/ UNCHANGED <<path, view>>
      BY DEF Start
<1>2. ViewHasPath' /\ PagesHaveUser'
      BY <1>1 DEF PanelInv, ViewHasPath, PagesHaveUser
<1>3. net' \in [Kinds -> Requests]
      BY <1>1, SentType
<1> QED BY <1>1, <1>2, <1>3, PanelTyped, WithinInv

LEMMA RetryBootInv ==
    ASSUME PanelInv, RetryBoot
    PROVE  PanelInv'
<1>1. net' \in [Kinds -> Requests] /\ view' = "loading"
      BY SentType DEF RetryBoot
<1>2. ViewHasPath' /\ PagesHaveUser'
      BY <1>1 DEF ViewHasPath, PagesHaveUser
<1> QED BY <1>1, <1>2, PanelTyped, WithinInv DEF RetryBoot

LEMMA NavigateInv ==
    ASSUME PanelInv, GoPanel \/ GoLogin \/ Reload
    PROVE  PanelInv'
<1>1. CASE GoPanel
      BY <1>1, PanelTyped, MountedInv DEF GoPanel
<1>2. CASE GoLogin
  <2>1. ViewHasPath' /\ PagesHaveUser'
        BY <1>2 DEF GoLogin, ViewHasPath, PagesHaveUser
  <2> QED BY <1>2, <2>1, PanelTyped, WithinInv DEF GoLogin
<1>3. CASE Reload
      BY <1>3, PanelTyped, HardNavInv DEF Reload
<1> QED BY <1>1, <1>2, <1>3

-----------------------------------------------------------------------------
LEMMA PanelInitInv == PanelInit => PanelInv
<1> SUFFICES ASSUME PanelInit PROVE PanelInv
    OBVIOUS
<1>1. PanelTypeOK
  <2>1. server \in [gen : 0..GenBound, must : BOOLEAN] /\ lost \in 0..LossBound
        BY DEF PanelInit
  <2>2. cookie \in 0..NoCookie
        BY DEF PanelInit, NoCookie
  <2> QED BY <2>1, <2>2, LoadedType DEF PanelInit, PanelTypeOK, Requests
<1>2. ViewHasPath /\ PagesHaveUser
      BY DEF PanelInit, ViewHasPath, PagesHaveUser
<1> QED BY <1>1, <1>2 DEF PanelInv

LEMMA PanelNextInv == PanelInv /\ [PanelNext]_panelVars => PanelInv'
<1> SUFFICES ASSUME PanelInv, [PanelNext]_panelVars
             PROVE  PanelInv'
    OBVIOUS
<1>1. ASSUME NEW k \in Kinds, Handle(k) \/ Lose(k)
      PROVE  PanelInv'
      BY <1>1, HandleInv, LoseInv
<1>2. ASSUME NEW k \in Kinds, Deliver(k)
      PROVE  PanelInv'
      BY <1>2, DeliverInv
<1>3. ASSUME NEW k \in Kinds, Start(k)
      PROVE  PanelInv'
      BY <1>3, StartInv
<1>4. CASE (\E must \in BOOLEAN : Revoke(must)) \/ Demand
      BY <1>4, AdministratorInv
<1>5. CASE RetryBoot
      BY <1>5, RetryBootInv
<1>6. CASE GoPanel \/ GoLogin \/ Reload
      BY <1>6, NavigateInv
<1>7. CASE UNCHANGED panelVars
      BY <1>7, OutsideInv, PanelTyped DEF panelVars
<1> QED BY <1>1, <1>2, <1>3, <1>4, <1>5, <1>6, <1>7 DEF PanelNext

LEMMA PanelInvariant == PanelSpec => []PanelInv
BY PanelInitInv, PanelNextInv, PTL DEF PanelSpec

(* Type correctness of the tab, the requests under way and the account.      *)

THEOREM PanelTypeCorrect == PanelSpec => []PanelTypeOK
BY PanelInvariant, PTL DEF PanelInv

(* The pages and the forced change never show without a cached user          *)
(* (ProtectedRoute, api.js), for any number of requests under way, lost       *)
(* answers, revocations and changes of the password.                         *)

THEOREM PagesAlwaysHaveUser == PanelSpec => []PagesHaveUser
BY PanelInvariant, PTL DEF PanelInv

-----------------------------------------------------------------------------
(* The forms of the login.                                                  *)

USE LoginFormAssumption

(* A token on the page or at the server is one the widget issued.           *)

TokensAreIssued ==
    /\ token <= issued
    /\ \A tk \in 1..TokenBound, u \in {"once", "again"} : <<tk, u>> \in sent => tk <= issued

(* A form holds a token only where it shows the widget; the second factor   *)
(* after a single sign-on and the reset by mail have none.                  *)

TokenWasAsked ==
    /\ token # 0 => shown.captcha
    /\ page = "reset" => token = 0
    /\ page = "login" /\ shown.sso2fa => token = 0

(* Where the page of a request under way can be.                            *)

RequestHasPage ==
    /\ loginForm.phase = "sent" =>
         \/ page = "panel"
         \/ page \in {"register", "forgot", "reset"} /\ loginForm.what \notin {"login", "2fa"}
         \/ page = "login" /\ (shown.form \/ shown.sso2fa)
    /\ loginForm.phase = "left" => ~shown.sso2fa
    /\ page = "sso" => loginForm.phase = "idle"

(* A token that was sent is on the page only while its request is under way, *)
(* at the second factor, which does not send it, or when the page is left.   *)

SentTokenIsSpent ==
    token # 0 /\ <<token, "once">> \in sent
      => \/ loginForm.phase = "sent"
         \/ loginForm.phase = "idle" /\ page \in {"panel", "sso"}
         \/ loginForm.phase = "idle" /\ page = "login" /\ step = "code"

LoginInv ==
    /\ LoginTypeOK
    /\ TokensAreIssued
    /\ TokenWasAsked
    /\ RequestHasPage
    /\ SentTokenIsSpent
    /\ CaptchaOnce

USE DEF Forms, Ends

-----------------------------------------------------------------------------
LEMMA FreeType ==
    Free \in [phase : {"idle", "sent", "left"}, token : 0..TokenBound,
              what : {"none", "login", "2fa", "register", "forgot", "reset"}]
    /\ Free.phase = "idle"
BY DEF Free

(* Recording a token that was not sent before.                              *)

LEMMA CountedOnce ==
    ASSUME LoginInv, NEW tk \in 0..TokenBound, tk <= issued,
           tk # 0 => <<tk, "once">> \notin sent
    PROVE  /\ Counted(tk) \subseteq ((1..TokenBound) \X {"once", "again"})
           /\ \A t \in 1..TokenBound, u \in {"once", "again"} :
                <<t, u>> \in Counted(tk) => t <= issued
           /\ \A t \in 1..TokenBound : <<t, "again">> \notin Counted(tk)
<1>1. CASE tk = 0
      BY <1>1 DEF LoginInv, LoginTypeOK, TokensAreIssued, CaptchaOnce, Counted
<1>2. CASE tk # 0
  <2>1. Counted(tk) = sent \cup {<<tk, "once">>}
        BY <1>2 DEF Counted
  <2>2. tk \in 1..TokenBound
        BY <1>2
  <2> QED BY <2>1, <2>2 DEF LoginInv, LoginTypeOK, TokensAreIssued, CaptchaOnce
<1> QED BY <1>1, <1>2

(* A form sends what it may: the token of the page, if it was not sent, or  *)
(* none.                                                                    *)

LEMMA SendInv ==
    ASSUME LoginInv, NEW what \in {"login", "2fa", "register", "forgot", "reset"},
           NEW tk \in {0, token}, Send(what, tk),
           tk # 0 => <<token, "once">> \notin sent,
           \/ page \in {"register", "forgot", "reset"} /\ what \notin {"login", "2fa"}
           \/ page = "login" /\ (shown.form \/ shown.sso2fa)
    PROVE  LoginInv'
<1>1. /\ loginForm' = [phase |-> "sent", what |-> what, token |-> tk]
      /\ sent' = Counted(tk)
      /\ UNCHANGED <<page, shown, token, widget, issued, step, passkey>>
      BY DEF Send
<1>2. tk \in 0..TokenBound /\ tk <= issued /\ (tk # 0 => <<tk, "once">> \notin sent)
      BY DEF LoginInv, LoginTypeOK, TokensAreIssued
<1>3. /\ sent' \subseteq ((1..TokenBound) \X {"once", "again"})
      /\ \A t \in 1..TokenBound, u \in {"once", "again"} : <<t, u>> \in sent' => t <= issued
      /\ \A t \in 1..TokenBound : <<t, "again">> \notin sent'
      BY <1>1, <1>2, CountedOnce
<1>4. LoginTypeOK'
      BY <1>1, <1>2, <1>3 DEF LoginInv, LoginTypeOK
<1>5. TokensAreIssued' /\ CaptchaOnce'
      BY <1>1, <1>3 DEF LoginInv, TokensAreIssued, CaptchaOnce
<1>6. TokenWasAsked' /\ RequestHasPage' /\ SentTokenIsSpent'
      BY <1>1 DEF LoginInv, TokenWasAsked, RequestHasPage, SentTokenIsSpent
<1> QED BY <1>4, <1>5, <1>6 DEF LoginInv

LEMMA LoginSubmitInv ==
    ASSUME LoginInv, LoginSubmit \/ RegisterSubmit \/ ForgotSubmit \/ ResetSubmit
    PROVE  LoginInv'
<1>1. CASE LoginSubmit /\ step = "code"
      BY <1>1, SendInv DEF LoginSubmit, LoginReady, Ready, SsoSecondFactor
<1>2. CASE LoginSubmit /\ step # "code"
  <2>1. /\ Send("login", token) /\ page = "login" /\ loginForm.phase = "idle"
        /\ shown.form \/ shown.sso2fa
        BY <1>2 DEF LoginSubmit, LoginReady, Ready, SsoSecondFactor
  <2>2. token # 0 => <<token, "once">> \notin sent
        BY <1>2, <2>1 DEF LoginInv, SentTokenIsSpent
  <2> QED BY <2>1, <2>2, SendInv
<1>3. CASE RegisterSubmit
  <2>1. Send("register", token) /\ page = "register" /\ loginForm.phase = "idle"
        BY <1>3 DEF RegisterSubmit, RegisterReady, Ready
  <2>2. token # 0 => <<token, "once">> \notin sent
        BY <2>1 DEF LoginInv, SentTokenIsSpent
  <2> QED BY <2>1, <2>2, SendInv
<1>4. CASE ForgotSubmit
  <2>1. Send("forgot", token) /\ page = "forgot" /\ loginForm.phase = "idle"
        BY <1>4 DEF ForgotSubmit, ForgotReady, Ready
  <2>2. token # 0 => <<token, "once">> \notin sent
        BY <2>1 DEF LoginInv, SentTokenIsSpent
  <2> QED BY <2>1, <2>2, SendInv
<1>5. CASE ResetSubmit
      BY <1>5, SendInv DEF ResetSubmit, ResetReady, Ready
<1> QED BY <1>1, <1>2, <1>3, <1>4, <1>5

(* Steps after which the form holds no token.                               *)

LEMMA NoTokenInv ==
    ASSUME LoginInv, token' = 0, UNCHANGED <<issued, sent>>,
           LoginTypeOK', RequestHasPage'
    PROVE  LoginInv'
<1>1. TokensAreIssued' /\ CaptchaOnce'
      BY DEF LoginInv, LoginTypeOK, TokensAreIssued, CaptchaOnce
<1>2. TokenWasAsked' /\ SentTokenIsSpent'
      BY DEF TokenWasAsked, SentTokenIsSpent
<1> QED BY <1>1, <1>2 DEF LoginInv

LEMMA WidgetInv ==
    ASSUME LoginInv, Solve \/ Expire \/ WidgetFails
    PROVE  LoginInv'
<1>1. CASE Solve
  <2>1. /\ issued < TokenBound /\ issued' = issued + 1 /\ token' = issued + 1
        /\ widget' = "solved" /\ CaptchaActive
        /\ UNCHANGED <<page, shown, step, loginForm, passkey, sent>>
        BY <1>1 DEF Solve
  <2>2. issued' \in 0..TokenBound /\ token' \in 1..TokenBound /\ token' = issued'
        BY <2>1 DEF LoginInv, LoginTypeOK
  <2>3. LoginTypeOK'
        BY <2>1, <2>2 DEF LoginInv, LoginTypeOK
  <2>4. TokensAreIssued' /\ CaptchaOnce' /\ <<token', "once">> \notin sent'
    <3>1. \A tk \in 1..TokenBound, u \in {"once", "again"} : <<tk, u>> \in sent => tk <= issued
          BY DEF LoginInv, TokensAreIssued
    <3>2. issued \in 0..TokenBound /\ issued' = issued + 1
          BY <2>1 DEF LoginInv, LoginTypeOK
    <3>3. \A tk \in 1..TokenBound, u \in {"once", "again"} :
            <<tk, u>> \in sent' => tk <= issued' /\ tk # issued'
      <4> SUFFICES ASSUME NEW tk \in 1..TokenBound, NEW u \in {"once", "again"},
                          <<tk, u>> \in sent
                   PROVE  tk <= issued' /\ tk # issued'
          BY <2>1
      <4>1. tk <= issued
            BY <3>1, Zenon
      <4>2. tk \in Nat /\ issued \in Nat
            BY <3>2
      <4> QED BY <3>2, <4>1, <4>2
    <3>4. token' <= issued'
          BY <2>2, <3>2
    <3>5. TokensAreIssued'
          BY <3>3, <3>4 DEF TokensAreIssued
    <3>6. CaptchaOnce'
          BY <2>1 DEF LoginInv, CaptchaOnce
    <3>7. <<token', "once">> \notin sent'
          BY <2>2, <3>3
    <3> QED BY <3>5, <3>6, <3>7
  <2>5. TokenWasAsked' /\ RequestHasPage' /\ SentTokenIsSpent'
        BY <2>1, <2>4 DEF LoginInv, TokenWasAsked, RequestHasPage, SentTokenIsSpent,
                          CaptchaActive
  <2> QED BY <2>3, <2>4, <2>5 DEF LoginInv
<1>2. CASE Expire \/ WidgetFails
  <2>1. /\ token' = 0 /\ widget' \in {"open", "failed"}
        /\ UNCHANGED <<page, shown, issued, step, loginForm, passkey, sent>>
        BY <1>2 DEF Expire, WidgetFails
  <2>2. LoginTypeOK' /\ RequestHasPage'
        BY <2>1 DEF LoginInv, LoginTypeOK, RequestHasPage
  <2> QED BY <2>1, <2>2, NoTokenInv
<1> QED BY <1>1, <1>2

LEMMA SubmitFailsInv ==
    ASSUME LoginInv, SubmitFails
    PROVE  LoginInv'
<1>1. /\ loginForm.phase = "sent" /\ loginForm' = Free /\ token' = Spent
      /\ widget' \in {"open", "solved", "failed"}
      /\ UNCHANGED <<page, shown, issued, step, passkey, sent>>
      BY DEF SubmitFails, LoginInv, LoginTypeOK
<1>2. LoginTypeOK' /\ RequestHasPage'
      BY <1>1, FreeType DEF LoginInv, LoginTypeOK, RequestHasPage, Spent
<1>3. CASE token' = 0
      BY <1>1, <1>2, <1>3, NoTokenInv
<1>4. CASE token' # 0
  <2>1. token' = token /\ ~CaptchaActive
        BY <1>1, <1>4 DEF Spent
  <2>2. page = "panel"
        BY <1>1, <1>4, <2>1 DEF LoginInv, TokenWasAsked, RequestHasPage, CaptchaActive
  <2>3. TokensAreIssued' /\ CaptchaOnce' /\ TokenWasAsked'
        BY <1>1, <2>1 DEF LoginInv, TokensAreIssued, CaptchaOnce, TokenWasAsked
  <2>4. SentTokenIsSpent'
        BY <1>1, <2>2, FreeType DEF SentTokenIsSpent
  <2> QED BY <1>2, <2>3, <2>4 DEF LoginInv
<1> QED BY <1>3, <1>4

LEMMA SecondFactorInv ==
    ASSUME LoginInv, SecondFactorDue
    PROVE  LoginInv'
<1>1. /\ loginForm.phase = "sent" /\ loginForm.what = "login"
      /\ loginForm' = Free /\ step' = "code"
      /\ UNCHANGED <<page, shown, token, widget, issued, passkey, sent>>
      BY DEF SecondFactorDue
<1>2. LoginTypeOK' /\ RequestHasPage'
      BY <1>1, FreeType DEF LoginInv, LoginTypeOK, RequestHasPage
<1>3. TokensAreIssued' /\ CaptchaOnce' /\ TokenWasAsked'
      BY <1>1 DEF LoginInv, TokensAreIssued, CaptchaOnce, TokenWasAsked
<1>4. SentTokenIsSpent'
      BY <1>1, FreeType DEF LoginInv, RequestHasPage, SentTokenIsSpent
<1> QED BY <1>2, <1>3, <1>4 DEF LoginInv

LEMMA LeaveInv ==
    ASSUME LoginInv, NEW to \in Forms \cup Ends, Leave(to), loginForm' = Free
    PROVE  LoginInv'
<1>1. /\ page' = to /\ token' = 0 /\ widget' = "open" /\ step' = "password"
      /\ shown' = [shown EXCEPT !.sso2fa = FALSE]
      /\ UNCHANGED <<issued, passkey, sent>>
      BY DEF Leave
<1>2. LoginTypeOK'
  <2>1. shown' \in LoginShown
        BY <1>1 DEF LoginInv, LoginTypeOK, LoginShown
  <2> QED BY <1>1, <2>1, FreeType DEF LoginInv, LoginTypeOK
<1>3. RequestHasPage'
      BY FreeType DEF RequestHasPage
<1> QED BY <1>1, <1>2, <1>3, NoTokenInv

LEMMA LeavesInv ==
    ASSUME LoginInv,
           LoginSucceeds \/ RegisterSucceeds \/ ForgotSucceeds \/ ResetSucceeds \/ TurnedAway
    PROVE  LoginInv'
BY LeaveInv DEF LoginSucceeds, RegisterSucceeds, ForgotSucceeds, ResetSucceeds, TurnedAway,
                Accepted

LEMMA PasskeyInv ==
    ASSUME LoginInv, PasskeyStart \/ PasskeyGoesOn \/ PasskeyEnds
    PROVE  LoginInv'
<1>1. /\ page' \in {page, "panel"} /\ passkey' \in {"idle", "begin", "asking", "complete"}
      /\ UNCHANGED <<shown, token, widget, issued, step, loginForm, sent>>
      BY DEF PasskeyStart, PasskeyGoesOn, PasskeyEnds
<1>2. LoginTypeOK'
      BY <1>1 DEF LoginInv, LoginTypeOK
<1>3. TokensAreIssued' /\ CaptchaOnce' /\ TokenWasAsked'
      BY <1>1 DEF LoginInv, TokensAreIssued, CaptchaOnce, TokenWasAsked
<1>4. RequestHasPage' /\ SentTokenIsSpent'
      BY <1>1 DEF LoginInv, RequestHasPage, SentTokenIsSpent
<1> QED BY <1>2, <1>3, <1>4 DEF LoginInv

LEMMA SsoStartInv ==
    ASSUME LoginInv, SsoStart
    PROVE  LoginInv'
<1>1. /\ page' = "sso" /\ loginForm.phase = "idle"
      /\ UNCHANGED <<shown, token, widget, issued, step, loginForm, passkey, sent>>
      BY DEF SsoStart
<1>2. LoginTypeOK'
      BY <1>1 DEF LoginInv, LoginTypeOK
<1>3. TokensAreIssued' /\ CaptchaOnce' /\ TokenWasAsked'
      BY <1>1 DEF LoginInv, TokensAreIssued, CaptchaOnce, TokenWasAsked
<1>4. RequestHasPage' /\ SentTokenIsSpent'
      BY <1>1 DEF RequestHasPage, SentTokenIsSpent
<1> QED BY <1>2, <1>3, <1>4 DEF LoginInv

LEMMA SsoReturnsInv ==
    ASSUME LoginInv, SsoReturns
    PROVE  LoginInv'
<1>1. /\ token' = 0 /\ widget' = "open" /\ loginForm' = Free
      /\ UNCHANGED <<issued, passkey, sent>>
      BY DEF SsoReturns
<1>2. page' \in Forms \cup Ends /\ step' \in {"password", "code"}
      BY DEF SsoReturns, LoginInv, LoginTypeOK
<1>3. shown' \in LoginShown
  <2>1. shown \in LoginShown
        BY DEF LoginInv, LoginTypeOK
  <2>2. \/ shown' = shown
        \/ \E f \in BOOLEAN : shown' = [shown EXCEPT !.sso2fa = f]
        BY DEF SsoReturns
  <2> QED BY <2>1, <2>2 DEF LoginShown
<1>4. LoginTypeOK'
      BY <1>1, <1>2, <1>3, FreeType DEF LoginInv, LoginTypeOK
<1>5. RequestHasPage'
      BY <1>1, FreeType DEF RequestHasPage
<1> QED BY <1>1, <1>4, <1>5, NoTokenInv

LEMMA FollowInv ==
    ASSUME LoginInv, NEW to \in Forms, Follow(to)
    PROVE  LoginInv'
<1>1. /\ page' = to /\ token' = 0 /\ widget' = "open" /\ step' = "password"
      /\ loginForm' = IF loginForm.phase = "idle" THEN Free
                      ELSE [loginForm EXCEPT !.phase = "left"]
      /\ UNCHANGED <<issued, passkey, sent>>
      BY DEF Follow
<1>2. shown' \in LoginShown /\ ~shown'.sso2fa
  <2>1. shown \in LoginShown
        BY DEF LoginInv, LoginTypeOK
  <2>2. PICK f \in {shown.form, TRUE} :
          shown' = [shown EXCEPT !.sso2fa = FALSE, !.form = f]
        BY DEF Follow
  <2>3. f \in BOOLEAN
        BY <2>1 DEF LoginShown
  <2> QED BY <2>1, <2>2, <2>3 DEF LoginShown
<1>3. LoginTypeOK'
      BY <1>1, <1>2, FreeType DEF LoginInv, LoginTypeOK
<1>4. RequestHasPage'
      BY <1>1, <1>2, FreeType DEF LoginInv, LoginTypeOK, RequestHasPage
<1> QED BY <1>1, <1>3, <1>4, NoTokenInv

LEMMA LeftAnsweredInv ==
    ASSUME LoginInv, LeftAnswered
    PROVE  LoginInv'
<1>1. /\ loginForm.phase = "left" /\ loginForm' = Free
      /\ page' \in {page, "panel", "login"}
      /\ UNCHANGED <<shown, token, widget, issued, step, passkey, sent>>
      BY DEF LeftAnswered
<1>2. LoginTypeOK'
      BY <1>1, FreeType DEF LoginInv, LoginTypeOK
<1>3. ~shown.sso2fa /\ page # "sso" /\ (token # 0 => <<token, "once">> \notin sent)
      BY <1>1 DEF LoginInv, RequestHasPage, SentTokenIsSpent
<1>4. TokensAreIssued' /\ CaptchaOnce' /\ TokenWasAsked'
      BY <1>1, <1>3 DEF LoginInv, TokensAreIssued, CaptchaOnce, TokenWasAsked
<1>5. RequestHasPage' /\ SentTokenIsSpent'
      BY <1>1, <1>3, FreeType DEF RequestHasPage, SentTokenIsSpent
<1> QED BY <1>2, <1>4, <1>5 DEF LoginInv

-----------------------------------------------------------------------------
LEMMA LoginInitInv == LoginInit => LoginInv
<1> SUFFICES ASSUME LoginInit PROVE LoginInv
    OBVIOUS
<1>1. LoginTypeOK
      BY FreeType DEF LoginInit, LoginTypeOK
<1>2. TokensAreIssued /\ CaptchaOnce /\ TokenWasAsked /\ RequestHasPage /\ SentTokenIsSpent
      BY FreeType DEF LoginInit, TokensAreIssued, CaptchaOnce, TokenWasAsked,
                      RequestHasPage, SentTokenIsSpent
<1> QED BY <1>1, <1>2 DEF LoginInv

LEMMA LoginNextInv == LoginInv /\ [LoginNext]_loginVars => LoginInv'
<1> SUFFICES ASSUME LoginInv, [LoginNext]_loginVars
             PROVE  LoginInv'
    OBVIOUS
<1>1. CASE Solve \/ Expire \/ WidgetFails
      BY <1>1, WidgetInv
<1>2. CASE LoginSubmit \/ RegisterSubmit \/ ForgotSubmit \/ ResetSubmit
      BY <1>2, LoginSubmitInv
<1>3. CASE LoginSucceeds \/ RegisterSucceeds \/ ForgotSucceeds \/ ResetSucceeds \/ TurnedAway
      BY <1>3, LeavesInv
<1>4. CASE SubmitFails \/ SecondFactorDue
      BY <1>4, SubmitFailsInv, SecondFactorInv
<1>5. CASE PasskeyStart \/ PasskeyGoesOn \/ PasskeyEnds
      BY <1>5, PasskeyInv
<1>6. CASE SsoStart \/ SsoReturns
      BY <1>6, SsoStartInv, SsoReturnsInv
<1>7. CASE LeftAnswered
      BY <1>7, LeftAnsweredInv
<1>8. ASSUME NEW to \in Forms, Follow(to)
      PROVE  LoginInv'
      BY <1>8, FollowInv
<1>9. CASE UNCHANGED loginVars
      BY <1>9 DEF loginVars, LoginInv, LoginTypeOK, TokensAreIssued, TokenWasAsked,
                  RequestHasPage, SentTokenIsSpent, CaptchaOnce
<1> QED BY <1>1, <1>2, <1>3, <1>4, <1>5, <1>6, <1>7, <1>8, <1>9 DEF LoginNext

LEMMA LoginInvariant == LoginSpec => []LoginInv
BY LoginInitInv, LoginNextInv, PTL DEF LoginSpec

(* Type correctness of the public forms.                                     *)

THEOREM LoginTypeCorrect == LoginSpec => []LoginTypeOK
BY LoginInvariant, PTL DEF LoginInv

(* No captcha token is sent twice by the four public forms (LoginPage and    *)
(* its siblings), however many the user solves and whichever way the user    *)
(* goes between the forms, the second factor, a passkey and the provider.    *)

THEOREM NoCaptchaTwice == LoginSpec => []CaptchaOnce
BY LoginInvariant, PTL DEF LoginInv

-----------------------------------------------------------------------------
(* The language of the interface.                                           *)

USE LanguageAssumption

(* A call that loads, saves or undoes knows its language and the one before. *)

TasksKnowTheirs ==
    \A c \in Callers : task[c].phase \in {"loading", "saving", "undoing"} =>
        task[c].code \in Languages /\ task[c].prev \in Languages

LangInv == LangTypeOK /\ TasksKnowTheirs /\ LanguageIsLoaded

LEMMA RestType == Rest \in Task /\ Rest.phase = "idle"
BY DEF Rest, Task, NoLanguage

LEMMA LangInitInv == LangInit => LangInv
<1> SUFFICES ASSUME LangInit PROVE LangInv
    OBVIOUS
<1>1. \A c \in Callers : /\ task[c] = IF c = "default" THEN [Rest EXCEPT !.phase = "waiting"] ELSE Rest
                         /\ task[c] \in Task /\ task[c].phase \in {"waiting", "idle"}
      BY RestType DEF LangInit, Callers, Task
<1>2. task \in [Callers -> Task]
  <2>1. [Rest EXCEPT !.phase = "waiting"] \in Task
        BY RestType DEF Task
  <2> QED BY <2>1, RestType DEF LangInit, Callers
<1>3. ui \in Languages /\ bundles \subseteq Languages /\ ui \in bundles
      BY DEF LangInit
<1> QED BY <1>1, <1>2, <1>3 DEF LangInit, LangInv, LangTypeOK, TasksKnowTheirs, LanguageIsLoaded

(* A step that leaves the language and the files, and changes one task.      *)

LEMMA TaskInv ==
    ASSUME LangInv, NEW c \in Callers, NEW t \in Task, task' = [task EXCEPT ![c] = t],
           t.phase \in {"loading", "saving", "undoing"} => t.code \in Languages /\ t.prev \in Languages,
           UNCHANGED <<ui, bundles, stored>>, layout' \in BOOLEAN, chosen' \in BOOLEAN,
           setting' \in [default : Languages \cup {NoLanguage}, profile : Languages \cup {NoLanguage}]
    PROVE  LangInv'
<1>1. task' \in [Callers -> Task] /\ \A d \in Callers : task'[d] = IF d = c THEN t ELSE task[d]
      BY DEF LangInv, LangTypeOK
<1>2. TasksKnowTheirs'
      BY <1>1 DEF LangInv, TasksKnowTheirs
<1> QED BY <1>1, <1>2 DEF LangInv, LangTypeOK, LanguageIsLoaded

LEMMA AsksInv ==
    ASSUME LangInv, NEW c \in Callers, NEW code \in Languages, task' = Asks(c, code),
           UNCHANGED <<ui, bundles, stored, setting>>, layout' \in BOOLEAN, chosen' \in BOOLEAN
    PROVE  LangInv'
<1> DEFINE t == [phase |-> "loading", code |-> code, prev |-> ui]
<1>1. t \in Task /\ t.code \in Languages /\ t.prev \in Languages
      BY DEF Task, LangInv, LangTypeOK
<1>2. task' = [task EXCEPT ![c] = t]
      BY DEF Asks
<1> HIDE DEF t
<1> QED BY <1>1, <1>2, TaskInv DEF LangInv, LangTypeOK

LEMMA LangNextInv == ASSUME LangInv, [LangNext]_langVars PROVE LangInv'
<1>0. /\ \A c \in Callers : task[c] \in Task
      /\ setting.default \in Languages \cup {NoLanguage} /\ setting.profile \in Languages \cup {NoLanguage}
      /\ layout \in BOOLEAN /\ chosen \in BOOLEAN /\ task \in [Callers -> Task]
      /\ setting \in [default : Languages \cup {NoLanguage}, profile : Languages \cup {NoLanguage}]
      BY DEF LangInv, LangTypeOK
<1>1. CASE DefaultArrives
  <2>1. "default" \in Callers
        BY DEF Callers
  <2>2. CASE task' = Asks("default", setting.default) /\ setting.default # NoLanguage
        BY <1>0, <1>1, <2>1, <2>2, AsksInv DEF DefaultArrives
  <2>3. CASE task' = [task EXCEPT !["default"] = Rest]
        BY <1>0, <1>1, <2>1, <2>3, TaskInv, RestType DEF DefaultArrives
  <2> QED BY <1>1, <2>2, <2>3 DEF DefaultArrives
<1>2. CASE LayoutMounts
  <2>1. "profile" \in Callers
        BY DEF Callers
  <2>2. CASE setting.profile # NoLanguage
        BY <1>0, <1>2, <2>1, <2>2, AsksInv DEF LayoutMounts
  <2>3. CASE setting.profile = NoLanguage
        BY <1>2, <2>3 DEF LayoutMounts, LangInv, LangTypeOK, TasksKnowTheirs, LanguageIsLoaded
  <2> QED BY <2>2, <2>3
<1>3. ASSUME NEW c \in Callers, NEW code \in Languages, Choose(c, code) PROVE LangInv'
      BY <1>0, <1>3, AsksInv DEF Choose
<1>4. ASSUME NEW c \in Callers, BundleFails(c) PROVE LangInv'
  <2>1. [task[c] EXCEPT !.phase = "undoing"] \in Task
        BY <1>0 DEF Task
  <2>2. /\ [task[c] EXCEPT !.phase = "undoing"].code = task[c].code
        /\ [task[c] EXCEPT !.phase = "undoing"].prev = task[c].prev
        BY <1>0 DEF Task
  <2>3. task[c].code \in Languages /\ task[c].prev \in Languages
        BY <1>4 DEF BundleFails, LangInv, TasksKnowTheirs
  <2>4. \/ task' = [task EXCEPT ![c] = [task[c] EXCEPT !.phase = "undoing"]]
        \/ task' = [task EXCEPT ![c] = Rest]
        BY <1>4 DEF BundleFails, LangInv, LangTypeOK
  <2> QED BY <1>0, <1>4, <2>1, <2>2, <2>3, <2>4, TaskInv, RestType DEF BundleFails
<1>5. ASSUME NEW c \in Callers, Saved(c) \/ LangSaveFails(c) PROVE LangInv'
  <2>1. task[c].code \in Languages /\ task[c].prev \in Languages
        BY <1>5 DEF Saved, LangSaveFails, LangInv, TasksKnowTheirs
  <2>2. [setting EXCEPT !.profile = task[c].code]
           \in [default : Languages \cup {NoLanguage}, profile : Languages \cup {NoLanguage}]
        BY <1>0, <2>1
  <2>3. [task[c] EXCEPT !.phase = "undoing"] \in Task
        BY <1>0 DEF Task
  <2>4. /\ [task[c] EXCEPT !.phase = "undoing"].code = task[c].code
        /\ [task[c] EXCEPT !.phase = "undoing"].prev = task[c].prev
        BY <1>0 DEF Task
  <2>5. \/ task' = [task EXCEPT ![c] = [task[c] EXCEPT !.phase = "undoing"]]
        \/ task' = [task EXCEPT ![c] = Rest]
        BY <1>5 DEF Saved, LangSaveFails
  <2>6. setting' \in [default : Languages \cup {NoLanguage}, profile : Languages \cup {NoLanguage}]
        BY <1>0, <1>5, <2>2 DEF Saved, LangSaveFails
  <2>7. UNCHANGED <<ui, bundles, stored, layout, chosen>>
        BY <1>5 DEF Saved, LangSaveFails
  <2>8. CASE task' = [task EXCEPT ![c] = [task[c] EXCEPT !.phase = "undoing"]]
        BY <1>0, <2>1, <2>3, <2>4, <2>6, <2>7, <2>8, TaskInv
  <2>9. CASE task' = [task EXCEPT ![c] = Rest]
        BY <1>0, <2>6, <2>7, <2>9, TaskInv, RestType
  <2> QED BY <2>5, <2>8, <2>9
<1>6. ASSUME NEW c \in Callers, Switch(c) PROVE LangInv'
  <2>1. task[c].phase \in {"loading", "undoing"} /\ Target(c) \in Languages
        BY <1>6 DEF Switch, Target, LangInv, TasksKnowTheirs
  <2>2. /\ ui' = Target(c) /\ bundles' = bundles \cup {Target(c)}
        /\ stored' \in {stored, Target(c)} /\ UNCHANGED <<setting, layout, chosen>>
        BY <1>6 DEF Switch, BundleNeeded
  <2> DEFINE t == IF c \in {"header", "tab"} /\ task[c].phase = "loading"
                  THEN [task[c] EXCEPT !.phase = "saving"] ELSE Rest
  <2>3. t \in Task /\ (t.phase = "idle" \/ (t.phase = "saving" /\ t.code = task[c].code /\ t.prev = task[c].prev))
        BY <1>0, RestType DEF Task
  <2>4. task' = [task EXCEPT ![c] = t]
        BY <1>0, <1>6 DEF Switch, After
  <2>5. task[c].code \in Languages /\ task[c].prev \in Languages
        BY <2>1 DEF LangInv, TasksKnowTheirs
  <2> HIDE DEF t
  <2>6. task' \in [Callers -> Task] /\ \A d \in Callers : task'[d] = IF d = c THEN t ELSE task[d]
        BY <1>0, <2>3, <2>4
  <2>7. TasksKnowTheirs'
        BY <2>3, <2>5, <2>6 DEF LangInv, TasksKnowTheirs
  <2>8. LangTypeOK'
        BY <2>1, <2>2, <2>6 DEF LangInv, LangTypeOK
  <2> QED BY <2>2, <2>7, <2>8 DEF LangInv, LanguageIsLoaded
<1>7. CASE UNCHANGED langVars
      BY <1>7 DEF langVars, LangInv, LangTypeOK, TasksKnowTheirs, LanguageIsLoaded
<1> QED BY <1>1, <1>2, <1>3, <1>4, <1>5, <1>6, <1>7 DEF LangNext, LangStep

-----------------------------------------------------------------------------
(* The profile tab.                                                         *)

(* A setting that was loaded is empty only if the user emptied it, and only  *)
(* what was loaded is saved.  The other two requests follow the first.       *)

TabIsLoaded ==
    /\ loaded["profile"] = "asked" => loaded["app"] = "no" /\ loaded["admin"] = "no"
    /\ loaded["app"] = "yes" /\ form["title"] = "empty" => "title" \in typed
    /\ loaded["admin"] = "yes" /\ form["base"] = "empty" => "base" \in typed
    /\ save = "app" => loaded["app"] = "yes"

TabInv == TabTypeOK /\ TabIsLoaded /\ NoFallbackSaved

LEMMA TabInitInv == TabInit => TabInv
BY DEF TabInit, TabInv, TabTypeOK, TabIsLoaded, NoFallbackSaved, Fields, AppFields, Values, Sources

LEMMA TabNextInv == ASSUME TabInv, [TabNext]_tabVars PROVE TabInv'
<1> USE DEF Fields, AppFields, Values, Sources
<1>0. /\ db \in [Fields -> Values] /\ form \in [Fields -> Values]
      /\ loaded \in [Sources -> {"no", "asked", "yes", "failed"}]
      BY DEF TabInv, TabTypeOK
<1>a. CASE ProfileArrives
      BY <1>0, <1>a DEF ProfileArrives, TabInv, TabTypeOK, TabIsLoaded, NoFallbackSaved
<1>b. CASE AdminArrives
      BY <1>0, <1>b DEF AdminArrives, TabInv, TabTypeOK, TabIsLoaded, NoFallbackSaved
<1>c. CASE AppArrives
  <2>1. form' = [form EXCEPT !["own"] = "stored", !["title"] = db["title"]]
        BY <1>c DEF AppArrives
  <2>2. form' \in [Fields -> Values] /\ form'["title"] = db["title"] /\ form'["base"] = form["base"]
        BY <1>0, <2>1
  <2> QED BY <1>0, <1>c, <2>2 DEF AppArrives, TabInv, TabTypeOK, TabIsLoaded, NoFallbackSaved
<1>2. ASSUME NEW s \in Sources, LoadFails(s) PROVE TabInv'
      BY <1>2 DEF LoadFails, TabInv, TabTypeOK, TabIsLoaded, NoFallbackSaved
<1>3. CASE TypeOwn \/ TypeApp
  <2>1. PICK f \in Fields, v \in {"typed", "empty"} : Type(f, v)
        BY <1>3 DEF TypeOwn, TypeApp
  <2> QED BY <2>1 DEF Type, TabInv, TabTypeOK, TabIsLoaded, NoFallbackSaved
<1>4. CASE SaveStarts \/ SaveFails
      BY <1>4 DEF SaveStarts, SaveFails, TabInv, TabTypeOK, TabIsLoaded, NoFallbackSaved
<1>5. CASE ProfileSaved
      BY <1>5 DEF ProfileSaved, AppSaved, TabInv, TabTypeOK, TabIsLoaded, NoFallbackSaved
<1>6. CASE ApplicationSaved
      BY <1>6 DEF ApplicationSaved, Payload, TabInv, TabTypeOK, TabIsLoaded, NoFallbackSaved
<1>7. CASE UploadLogo
      BY <1>7 DEF UploadLogo, TabInv, TabTypeOK, TabIsLoaded, NoFallbackSaved
<1>8. ASSUME NEW f \in AppFields, OthersSave(f) PROVE TabInv'
      BY <1>8 DEF OthersSave, TabInv, TabTypeOK, TabIsLoaded, NoFallbackSaved
<1>9. CASE UNCHANGED tabVars
      BY <1>9 DEF tabVars, TabInv, TabTypeOK, TabIsLoaded, NoFallbackSaved
<1> QED BY <1>a, <1>b, <1>c, <1>2, <1>3, <1>4, <1>5, <1>6, <1>7, <1>8, <1>9 DEF TabNext

(* The languages of the interface and the settings of the application, for   *)
(* themselves.                                                               *)

(* Whatever loads fail, and in whatever order the others arrive, the language *)
(* shown is one whose file is there (applyLanguage), for any languages.       *)

THEOREM OnlyLoadedLanguages == LangSpec => []LanguageIsLoaded
<1>1. LangInv => LanguageIsLoaded
      BY DEF LangInv
<1>2. LangInv /\ [LangNext]_langVars => LangInv'
      BY LangNextInv
<1> QED BY <1>1, <1>2, LangInitInv, PTL DEF LangSpec

-----------------------------------------------------------------------------
(* The components side by side.                                             *)

SessionsInv == part \in Parts /\ StepUpInv /\ PanelInv /\ LoginInv /\ LangInv /\ TabInv

LEMMA AtLoginInv == AtLogin => PanelInv
<1>1. Idle \in Requests
      BY Numbers DEF Idle, Requests
<1>2. NoCookie \in 0..NoCookie /\ 0 \in 0..GenBound /\ 0 \in 0..LossBound
      BY Numbers, PanelSessionAssumption
<1> QED BY <1>1, <1>2 DEF AtLogin, PanelInv, PanelTypeOK, ViewHasPath, PagesHaveUser, Requests

LEMMA SessionsInvariant == SessionsSpec => []SessionsInv
<1>1. SessionsInit => SessionsInv
      BY StepUpInitInv, PanelInitInv, AtLoginInv, LoginInitInv, LangInitInv, TabInitInv
         DEF SessionsInit, SessionsInv
<1>2. SessionsInv /\ [SessionsNext]_allVars => SessionsInv'
  <2> SUFFICES ASSUME SessionsInv, [SessionsNext]_allVars PROVE SessionsInv'
      OBVIOUS
  <2>1. /\ [StepUpNext]_stepVars /\ [PanelNext]_panelVars /\ [LoginNext]_loginVars
        /\ [LangNext]_langVars /\ [TabNext]_tabVars /\ part' = part
        BY DEF SessionsNext, allVars
  <2> QED BY <2>1, StepUpNextInv, PanelNextInv, LoginNextInv, LangNextInv, TabNextInv DEF SessionsInv
<1> QED BY <1>1, <1>2, PTL DEF SessionsSpec

(* Type correctness of the components around a session, side by side.        *)

THEOREM SessionsTypeCorrect == SessionsSpec => []SessionsTypeOK
<1>1. SessionsInv => SessionsTypeOK
      BY DEF SessionsInv, SessionsTypeOK, StepUpInv, PanelInv, LoginInv, LangInv, TabInv
<1> QED BY <1>1, SessionsInvariant, PTL

(* A load that failed does no harm: no language is shown whose file is       *)
(* missing, for any languages, and no setting of the application that was    *)
(* not loaded is saved as empty, in whatever order the requests answer.      *)

THEOREM NoHarmByFailedLoads == SessionsSpec => []FailedLoadsDoNoHarm
<1>1. SessionsInv => FailedLoadsDoNoHarm
      BY DEF SessionsInv, FailedLoadsDoNoHarm, LangInv, TabInv
<1> QED BY <1>1, SessionsInvariant, PTL

===============================================================================
