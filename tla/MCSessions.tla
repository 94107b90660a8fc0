------------------------------ MODULE MCSessions ------------------------------
(***************************************************************************)
(* The components around the session of a user, for TLC.  They share no    *)
(* state, so a behaviour runs one of them, the part, and leaves the others *)
(* in one initial state: the states are the sum of theirs.                 *)
(***************************************************************************)
EXTENDS StepUp, PanelSession, LoginForm, Language, ProfileTab

CONSTANTS c1, c2

VARIABLE part

Parts == {"stepup", "panel", "login", "language", "profile"}

allVars == <<stepVars, panelVars, loginVars, langVars, tabVars, part>>

\* A tab that waits at the login.
AtLogin ==
    /\ server = [gen |-> 0, must |-> FALSE] /\ cookie = NoCookie /\ cache = "none"
    /\ path = "login" /\ view = "login" /\ lost = 0
    /\ net = [k \in Kinds |-> Idle]

\* What a part may start with is chosen only where it runs.
SessionsInit ==
    /\ part \in Parts
    /\ StepUpInit
    /\ part # "stepup" => account = [external |-> FALSE, totp |-> FALSE, knownTotp |-> FALSE]
    /\ IF part = "panel" THEN PanelInit ELSE AtLogin
    /\ LoginInit
    /\ part # "login" => /\ page = "login"
                         /\ shown = CHOOSE s \in LoginShown : Visible(s)
    /\ LangInit
    /\ part # "language" =>
          /\ setting = [default |-> NoLanguage, profile |-> NoLanguage]
          /\ stored = NoLanguage /\ ui = Static
    /\ TabInit
    /\ part # "profile" => role = "user"

SessionsNext ==
    \/ /\ part = "stepup" /\ StepUpNext
       /\ UNCHANGED <<panelVars, loginVars, langVars, tabVars, part>>
    \/ /\ part = "panel" /\ PanelNext
       /\ UNCHANGED <<stepVars, loginVars, langVars, tabVars, part>>
    \/ /\ part = "login" /\ LoginNext
       /\ UNCHANGED <<stepVars, panelVars, langVars, tabVars, part>>
    \/ /\ part = "language" /\ LangNext
       /\ UNCHANGED <<stepVars, panelVars, loginVars, tabVars, part>>
    \/ /\ part = "profile" /\ TabNext
       /\ UNCHANGED <<stepVars, panelVars, loginVars, langVars, part>>

\* The fairness of the parts that are running (StepUpFairness, PanelFairness).
SessionsFairness ==
    /\ \A c \in Calls :
          /\ WF_stepVars(part = "stepup" /\ \E n, v \in BOOLEAN : HandleCall(c, n, v))
          /\ WF_stepVars(part = "stepup" /\ DeliverAnswer(c))
    /\ WF_stepVars(part = "stepup" /\ StepUpAnswer)
    /\ \A k \in Kinds : /\ WF_panelVars(part = "panel" /\ Handle(k))
                        /\ WF_panelVars(part = "panel" /\ Deliver(k))
    /\ WF_panelVars(part = "panel" /\ Start("ping"))

SessionsSpec == SessionsInit /\ [][SessionsNext]_allVars /\ SessionsFairness

\* Each part has the types of its module.
SessionsTypeOK ==
    part \in Parts /\ StepUpTypeOK /\ PanelTypeOK /\ LoginTypeOK /\ LangTypeOK /\ TabTypeOK

\* Whatever is asked for ends: a protected call (withStepUp), and the first
\* checks of a tab (App.jsx).
WaitsEnd == CallsEnd /\ ChecksEnd

\* A load that failed leaves no trace: no language is shown whose texts are
\* missing (i18n.js), and no empty start of the form is saved (profile tab).
FailedLoadsDoNoHarm == LanguageIsLoaded /\ NoFallbackSaved

===============================================================================
