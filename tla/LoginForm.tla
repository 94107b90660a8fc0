------------------------------ MODULE LoginForm ------------------------------
(***************************************************************************)
(* The public forms of the panel: LoginPage (password, second factor,      *)
(* passkey, single sign-on), RegisterPage, ForgotPasswordPage and          *)
(* ResetPasswordPage, with the captcha widget three of them show.  A       *)
(* captcha token is good for one request: the page must neither send one   *)
(* twice nor keep a form shut for want of one that cannot be had.          *)
(***************************************************************************)
EXTENDS Naturals

CONSTANT TokenBound  \* bound on the captchas the user solves

ASSUME LoginFormAssumption == TokenBound \in Nat

VARIABLES
    page,    \* the form shown, or where it led to
    shown,   \* what the settings of the server let the page show
    token,   \* captchaToken of the form, 0 when empty
    widget,  \* the captcha widget: waiting for the user, solved, or failed
    issued,  \* captchas solved so far
    step,    \* the login form: password or second factor (needTwoFactor)
    loginForm,    \* the submit of the form: idle, or the request under way
    passkey, \* handlePasskeyLogin
    sent     \* tokens the server has been sent (observer)

loginVars == <<page, shown, token, widget, issued, step, loginForm, passkey, sent>>

\* The forms, and the ends of a visit: the panel, the provider, a notice.
Forms == {"login", "register", "forgot", "reset"}
Ends == {"panel", "sso", "sent"}

\* loginVisibility: the password form is there for local accounts, in the
\* emergency mode or for LDAP; passkeys only where local accounts are.
LoginShown ==
    [captcha : BOOLEAN, form : BOOLEAN, passkey : BOOLEAN, sso : BOOLEAN,
     sso2fa : BOOLEAN]

Visible(s) == (s.passkey => s.form) /\ (s.form \/ s.sso)

\* The second factor after a single sign-on needs its code alone.
SsoSecondFactor == shown.sso2fa /\ step = "code" /\ page = "login"

\* captchaActive
CaptchaActive ==
    /\ shown.captcha
    /\ \/ page \in {"register", "forgot"}
       \/ page = "login" /\ shown.form /\ ~shown.sso2fa

Free == [phase |-> "idle", what |-> "none", token |-> 0]

LoginTypeOK ==
    /\ page \in Forms \cup Ends
    /\ shown \in LoginShown
    /\ token \in 0..TokenBound /\ issued \in 0..TokenBound
    /\ widget \in {"open", "solved", "failed"}
    /\ step \in {"password", "code"}
    /\ loginForm \in [phase : {"idle", "sent", "left"}, token : 0..TokenBound,
                 what : {"none", "login", "2fa", "register", "forgot", "reset"}]
    /\ passkey \in {"idle", "begin", "asking", "complete"}
    /\ sent \subseteq ((1..TokenBound) \X {"once", "again"})

LoginInit ==
    /\ page \in Forms
    /\ shown \in LoginShown /\ Visible(shown)
    /\ token = 0 /\ widget = "open" /\ issued = 0
    /\ step = IF shown.sso2fa THEN "code" ELSE "password"
    /\ loginForm = Free
    /\ passkey = "idle"
    /\ sent = {}

-----------------------------------------------------------------------------
\* CaptchaWidget.

Solve ==
    /\ CaptchaActive /\ widget = "open" /\ issued < TokenBound
    /\ issued' = issued + 1
    /\ token' = issued + 1
    /\ widget' = "solved"
    /\ UNCHANGED <<page, shown, step, loginForm, passkey, sent>>

\* expired-callback and error-callback empty the token.
Expire ==
    /\ CaptchaActive /\ widget = "solved"
    /\ token' = 0
    /\ widget' = "open"
    /\ UNCHANGED <<page, shown, issued, step, loginForm, passkey, sent>>

WidgetFails ==
    /\ CaptchaActive /\ widget = "open"
    /\ token' = 0
    /\ widget' = "failed"
    /\ UNCHANGED <<page, shown, issued, step, loginForm, passkey, sent>>

-----------------------------------------------------------------------------
\* The four forms.  A form is ready when its button can be pressed: nothing is
\* under way, and the captcha, where there is one, is solved.  What the user
\* types is left out: a form the page refuses before it sends stays as it is.

Ready(which) ==
    /\ page = which /\ loginForm.phase = "idle"
    /\ CaptchaActive => token # 0

LoginReady == Ready("login") /\ (shown.form \/ SsoSecondFactor)
RegisterReady == Ready("register")
ForgotReady == Ready("forgot")
ResetReady == Ready("reset")

Counted(tk) ==
    IF tk = 0 THEN sent
    ELSE sent \cup {<<tk, IF <<tk, "once">> \in sent THEN "again" ELSE "once">>}

Send(what, tk) ==
    /\ loginForm' = [phase |-> "sent", what |-> what, token |-> tk]
    /\ sent' = Counted(tk)
    /\ UNCHANGED <<page, shown, token, widget, issued, step, passkey>>

\* The code of the second factor goes without the captcha.
LoginSubmit ==
    /\ LoginReady
    /\ IF step = "code" THEN Send("2fa", 0) ELSE Send("login", token)

RegisterSubmit == RegisterReady /\ Send("register", token)
ForgotSubmit == ForgotReady /\ Send("forgot", token)
ResetSubmit == ResetReady /\ Send("reset", 0)

\* After an error the token is spent: the page drops it and resets the
\* widget.  (Mutant: it keeps the token.)
Spent_kept == token

Spent == IF CaptchaActive THEN 0 ELSE token

SubmitFails ==
    /\ loginForm.phase = "sent"
    /\ loginForm' = Free
    /\ token' = Spent
    /\ widget' = IF CaptchaActive /\ widget = "solved" THEN "open" ELSE widget
    /\ UNCHANGED <<page, shown, issued, step, passkey, sent>>

\* The password was right and a second factor is due: the page keeps its
\* token, which the code does not need.
SecondFactorDue ==
    /\ loginForm.phase = "sent" /\ loginForm.what = "login"
    /\ loginForm' = Free
    /\ step' = "code"
    /\ UNCHANGED <<page, shown, token, widget, issued, passkey, sent>>

Leave(to) ==
    /\ page' = to
    /\ token' = 0 /\ widget' = "open" /\ step' = "password"
    /\ shown' = [shown EXCEPT !.sso2fa = FALSE]
    /\ UNCHANGED <<issued, passkey, sent>>

Accepted(what, to) ==
    loginForm.phase = "sent" /\ loginForm.what \in what /\ loginForm' = Free /\ Leave(to)

LoginSucceeds == Accepted({"login", "2fa"}, "panel")
RegisterSucceeds == Accepted({"register"}, "login")
ForgotSucceeds == Accepted({"forgot"}, "sent")
ResetSucceeds == Accepted({"reset"}, "sent")

\* Registration or the reset by mail is switched off, or the settings of the
\* server cannot be read: the page sends the visitor to the login.
TurnedAway ==
    /\ page \in {"register", "forgot"} /\ loginForm.phase = "idle"
    /\ loginForm' = Free
    /\ Leave("login")

-----------------------------------------------------------------------------
\* handlePasskeyLogin: two requests with the browser's dialog between them.
\* Its button waits for the form, the form does not wait for it.

PasskeyShown ==
    page = "login" /\ shown.form /\ shown.passkey /\ ~shown.sso2fa /\ step = "password"

PasskeyStart ==
    /\ PasskeyShown /\ passkey = "idle" /\ loginForm.phase = "idle"
    /\ passkey' = "begin"
    /\ UNCHANGED <<page, shown, token, widget, issued, step, loginForm, sent>>

PasskeyGoesOn ==
    /\ passkey \in {"begin", "asking"}
    /\ passkey' = IF passkey = "begin" THEN "asking" ELSE "complete"
    /\ UNCHANGED <<page, shown, token, widget, issued, step, loginForm, sent>>

\* Refused, cancelled or signed in.
PasskeyEnds ==
    /\ passkey # "idle"
    /\ passkey' = "idle"
    /\ \/ UNCHANGED page
       \/ passkey = "complete" /\ page' = "panel"
    /\ UNCHANGED <<shown, token, widget, issued, step, loginForm, sent>>

\* handleSsoStart: the browser leaves for the provider.
SsoStart ==
    /\ page = "login" /\ shown.sso /\ ~shown.sso2fa
    /\ loginForm.phase = "idle" /\ passkey = "idle"
    /\ page' = "sso"
    /\ UNCHANGED <<shown, token, widget, issued, step, loginForm, passkey, sent>>

\* The provider sends the browser back: signed in, to the second factor, or
\* to the login with an error.
SsoReturns ==
    /\ page = "sso"
    /\ \/ page' = "panel" /\ UNCHANGED <<shown, step>>
       \/ \E f \in BOOLEAN : /\ page' = "login"
                            /\ shown' = [shown EXCEPT !.sso2fa = f]
                            /\ step' = IF f THEN "code" ELSE "password"
    /\ token' = 0 /\ widget' = "open" /\ loginForm' = Free
    /\ UNCHANGED <<issued, passkey, sent>>

\* A link to another form, the restart of this one, or the emergency mode
\* (?local=1): the page is mounted anew.  A request under way goes on.
Follow(to) ==
    /\ page \in Forms \cup {"sent"}
    /\ page' = to
    /\ token' = 0 /\ widget' = "open" /\ step' = "password"
    /\ loginForm' = IF loginForm.phase = "idle" THEN Free ELSE [loginForm EXCEPT !.phase = "left"]
    /\ shown' \in {[shown EXCEPT !.sso2fa = FALSE, !.form = f] : f \in {shown.form, TRUE}}
    /\ UNCHANGED <<issued, passkey, sent>>

\* The answer to the request of a form that was left can still navigate.
LeftAnswered ==
    /\ loginForm.phase = "left"
    /\ loginForm' = Free
    /\ page' \in {page} \cup CASE loginForm.what \in {"login", "2fa"} -> {"panel"}
                              [] loginForm.what = "register" -> {"login"}
                              [] OTHER -> {}
    /\ UNCHANGED <<shown, token, widget, issued, step, passkey, sent>>

-----------------------------------------------------------------------------
LoginNext ==
    \/ Solve \/ Expire \/ WidgetFails
    \/ LoginSubmit \/ RegisterSubmit \/ ForgotSubmit \/ ResetSubmit
    \/ LoginSucceeds \/ RegisterSucceeds \/ ForgotSucceeds \/ ResetSucceeds
    \/ SubmitFails \/ SecondFactorDue \/ TurnedAway
    \/ PasskeyStart \/ PasskeyGoesOn \/ PasskeyEnds
    \/ SsoStart \/ SsoReturns \/ LeftAnswered
    \/ \E to \in Forms : Follow(to)

LoginSpec == LoginInit /\ [][LoginNext]_loginVars

-----------------------------------------------------------------------------
\* A captcha token is sent once: "Token ist nach jedem Submit verbraucht"
\* (LoginPage), over repeated attempts, the second factor, an expiry while
\* the request is under way, and the way from one form to the next.
CaptchaOnce == \A tk \in 1..TokenBound : <<tk, "again">> \notin sent

=============================================================================
