------------------------------- MODULE Session -------------------------------
(***************************************************************************)
(* One browser tab and its session: the sign-in form (pages/Login.tsx),    *)
(* AuthProvider (hooks/useAuth.tsx), the cookie, the handlers of           *)
(* auth_handlers.go with the second factor of Mfa, and the live feed's     *)
(* socket (lib/live.tsx), which is there while somebody is signed in.      *)
(***************************************************************************)
EXTENDS Mfa, Naturals, FiniteSets

CONSTANTS Slots   \* bound: sockets at a time, those that are closing included

ASSUME SlotsAssumption == Slots \subseteq Nat /\ None \notin Slots

VARIABLES
  cookie,    \* whose token the browser has: "owner", "operator" or None
  ready,     \* AuthProvider has its answer to /auth/me; until then it is out
  as,        \* who the console takes the tab for: role, and None if not authed
  mode,      \* the form: owner or operator
  mfaStep,   \* the form asks for a code
  attempt,   \* the sign-in under way, or what became of the last one
  leaving    \* a sign-out is under way

tab == <<cookie, ready, as, mode, mfaStep, attempt, leaving>>

Roles == {"owner", "operator"}
NoAttempt == [pc |-> "none", mode |-> "owner", right |-> FALSE, code |-> None]
LostAttempt == [NoAttempt EXCEPT !.pc = "lost"]
Busy == attempt.pc \notin {"none", "lost"}

TabInit ==
  /\ cookie \in Roles \cup {None}
  /\ ready = FALSE
  /\ as = None
  /\ mode = "owner"
  /\ mfaStep = FALSE
  /\ attempt = NoAttempt
  /\ leaving = FALSE

-----------------------------------------------------------------------------
\* AuthProvider's effect: /auth/me tells whose token it was, if anybody's.
MeAnswered ==
  /\ ~ready
  /\ as' = cookie
  /\ ready' = TRUE
  /\ UNCHANGED <<cookie, mode, mfaStep, attempt, leaving>>

MeFails ==
  /\ ~ready
  /\ as' = None
  /\ ready' = TRUE
  /\ UNCHANGED <<cookie, mode, mfaStep, attempt, leaving>>

Asked == ready /\ as = None

\* The link under the form, busy or not.
SwitchMode ==
  /\ Asked
  /\ mode' = IF mode = "owner" THEN "operator" ELSE "owner"
  /\ mfaStep' = FALSE
  /\ UNCHANGED <<cookie, ready, as, attempt, leaving>>

\* right: the passcode, or the email and the password of an active operator.
SubmitLogin(right, code) ==
  /\ Asked
  /\ ~Busy
  /\ (code # None) => mode = "owner" /\ mfaStep
  /\ mode = "owner" /\ mfaStep /\ shown # {} => code # None
  /\ attempt' = [pc |-> "sent", mode |-> mode, right |-> right, code |-> code]
  /\ UNCHANGED <<cookie, ready, as, mode, mfaStep, leaving>>

\* login reads totp_enabled and, in a statement of its own, totp_secret.
LoginServed ==
  /\ attempt.pc = "sent"
  /\ attempt' = [attempt EXCEPT !.pc =
       IF ~attempt.right THEN "bad"
       ELSE IF attempt.mode = "operator" \/ ~enabled THEN "ok"
       ELSE IF attempt.code = None THEN "mfa_required"
       ELSE "check"]
  /\ UNCHANGED <<cookie, ready, as, mode, mfaStep, leaving>>

LoginVerified ==
  /\ attempt.pc = "check"
  /\ attempt' = [attempt EXCEPT !.pc = IF secret = attempt.code THEN "ok" ELSE "bad"]
  /\ UNCHANGED <<cookie, ready, as, mode, mfaStep, leaving>>

\* The answer comes, with the cookie if there is one in it.
LoginAnswered ==
  /\ attempt.pc = "ok"
  /\ cookie' = attempt.mode
  /\ as' = attempt.mode
  /\ attempt' = NoAttempt
  /\ UNCHANGED <<ready, mode, mfaStep, leaving>>

\* A bug to find: setBusy(false) is not in the finally.
StillBusyBug ==
  /\ attempt.pc \in {"bad", "mfa_required"}
  /\ mfaStep' = (mfaStep \/ attempt.pc = "mfa_required")
  /\ UNCHANGED <<cookie, ready, as, mode, attempt, leaving>>

\* A bug to find: the form does not notice that a code is wanted.
LoginRefusedBug ==
  /\ attempt.pc \in {"bad", "mfa_required"}
  /\ attempt' = NoAttempt
  /\ UNCHANGED <<cookie, ready, as, mode, mfaStep, leaving>>

LoginRefused ==
  /\ attempt.pc \in {"bad", "mfa_required"}
  /\ mfaStep' = (mfaStep \/ attempt.pc = "mfa_required")
  /\ attempt' = NoAttempt
  /\ UNCHANGED <<cookie, ready, as, mode, leaving>>

\* The request or its answer is lost, or the answer's body after its cookie.
LoginLost ==
  /\ Busy
  /\ cookie' \in {cookie} \cup (IF attempt.pc = "ok" THEN {attempt.mode} ELSE {})
  /\ attempt' = LostAttempt
  /\ UNCHANGED <<ready, as, mode, mfaStep, leaving>>

-----------------------------------------------------------------------------
PressSignOut ==
  /\ as # None
  /\ ~leaving
  /\ leaving' = TRUE
  /\ UNCHANGED <<cookie, ready, as, mode, mfaStep, attempt>>

\* A new form is mounted.
SignOut ==
  /\ as' = None
  /\ mode' = "owner"
  /\ mfaStep' = FALSE
  /\ leaving' = FALSE
  /\ UNCHANGED <<ready, attempt>>

\* logout clears the cookie; its finally signs out whatever became of it, so
\* a lost request leaves a cookie that the next F5 signs in with.
SignOutEnds ==
  /\ leaving
  /\ SignOut
  /\ cookie' \in {None, cookie}

\* The token's twelve hours are over, or the user clears the cookie.  The
\* console does not notice: its requests fail.
Expire ==
  /\ cookie # None
  /\ cookie' = None
  /\ UNCHANGED <<ready, as, mode, mfaStep, attempt, leaving>>

\* F5: everything the tab had is gone, but for the cookie.
F5 ==
  /\ ready' = FALSE
  /\ as' = None
  /\ mode' = "owner"
  /\ mfaStep' = FALSE
  /\ attempt' = NoAttempt
  /\ leaving' = FALSE
  /\ UNCHANGED cookie

TabStep ==
  \/ MeAnswered \/ MeFails \/ SwitchMode
  \/ \E right \in BOOLEAN : \E code \in shown \cup {None} : SubmitLogin(right, code)
  \/ LoginServed \/ LoginVerified \/ LoginAnswered \/ LoginRefused \/ LoginLost
  \/ PressSignOut \/ SignOutEnds \/ Expire

-----------------------------------------------------------------------------
VARIABLES
  mounted,    \* LiveProvider's effect is in force
  sockets,    \* WebSockets of this tab
  mine,       \* ws of the effect in force
  retry,      \* its timer is set
  connected   \* what the top bar's dot shows

feed == <<mounted, sockets, mine, retry, connected>>

FeedInit ==
  /\ mounted = FALSE
  /\ sockets = [s \in Slots |-> "none"]
  /\ mine = None
  /\ retry = FALSE
  /\ connected = FALSE

Live == {s \in Slots : sockets[s] \in {"connecting", "open"}}

Connect ==
  \E s \in Slots :
    /\ sockets[s] = "none"
    /\ \A t \in Slots : t < s => sockets[t] # "none"
    /\ sockets' = [sockets EXCEPT ![s] = "connecting"]
    /\ mine' = s

FeedMount ==
  /\ ready /\ as # None
  /\ ~mounted
  /\ mounted' = TRUE
  /\ Connect
  /\ UNCHANGED <<retry, connected>>

\* A bug to find: the timer is left to fire.
FeedUnmountBug ==
  /\ mounted
  /\ ~(ready /\ as # None)
  /\ mounted' = FALSE
  /\ sockets' = [s \in Slots |-> IF s = mine /\ s \in Live THEN "closing" ELSE sockets[s]]
  /\ mine' = None
  /\ connected' = FALSE
  /\ UNCHANGED retry

\* The cleanup: closed, the timer cleared, the socket told to close.
FeedUnmount ==
  /\ mounted
  /\ ~(ready /\ as # None)
  /\ mounted' = FALSE
  /\ sockets' = [s \in Slots |-> IF s = mine /\ s \in Live THEN "closing" ELSE sockets[s]]
  /\ mine' = None
  /\ retry' = FALSE
  /\ connected' = FALSE

\* /ws wants a token as well (router.go:132-141).
SocketOpens(s) ==
  /\ sockets[s] = "connecting"
  /\ cookie # None
  /\ sockets' = [sockets EXCEPT ![s] = "open"]
  /\ connected' = (connected \/ s = mine)
  /\ UNCHANGED <<mounted, mine, retry>>

\* onerror closes; onclose of the socket that counts sets the timer.
SocketErrors(s) ==
  /\ s \in Live
  /\ sockets' = [sockets EXCEPT ![s] = "closing"]
  /\ UNCHANGED <<mounted, mine, retry, connected>>

\* A bug to find: only a socket that was open is tried again.
SocketClosesBug(s) ==
  /\ sockets[s] # "none"
  /\ sockets' = [sockets EXCEPT ![s] = "none"]
  /\ IF s = mine THEN /\ connected' = FALSE
                      /\ retry' = connected
                      /\ mine' = None
                 ELSE UNCHANGED <<connected, retry, mine>>
  /\ UNCHANGED mounted

SocketCloses(s) ==
  /\ sockets[s] # "none"
  /\ sockets' = [sockets EXCEPT ![s] = "none"]
  /\ IF s = mine THEN /\ connected' = FALSE
                      /\ retry' = TRUE
                      /\ mine' = None
                 ELSE UNCHANGED <<connected, retry, mine>>
  /\ UNCHANGED mounted

RetryFires ==
  /\ retry
  /\ retry' = FALSE
  /\ Connect
  /\ UNCHANGED <<mounted, connected>>

FeedStep ==
  \/ FeedMount \/ FeedUnmount \/ RetryFires
  \/ \E s \in Slots : SocketOpens(s) \/ SocketErrors(s) \/ SocketCloses(s)

FeedGone ==
  /\ mounted' = FALSE
  /\ sockets' = [s \in Slots |-> "none"]
  /\ mine' = None
  /\ retry' = FALSE
  /\ connected' = FALSE

-----------------------------------------------------------------------------
\* The owner's factor and the tab (the feed apart), and the tab and its feed.
SignInNext ==
  \/ Next /\ UNCHANGED tab
  \/ (TabStep \/ F5) /\ UNCHANGED vars

FeedNext ==
  \/ TabStep /\ UNCHANGED feed
  \/ FeedStep /\ UNCHANGED tab
  \/ F5 /\ FeedGone

\* All three together.
SessionNext == (Next /\ UNCHANGED <<tab, feed>>) \/ (FeedNext /\ UNCHANGED vars)

SessionSpec == Init /\ TabInit /\ FeedInit /\ [][SessionNext]_<<vars, tab, feed>>

\* What is sent is answered or lost.
TabFairness ==
  /\ WF_tab(MeAnswered \/ MeFails)
  /\ WF_tab(LoginServed) /\ WF_tab(LoginVerified)
  /\ WF_tab(LoginAnswered) /\ WF_tab(LoginRefused)
  /\ WF_tab(SignOutEnds)

-----------------------------------------------------------------------------
\* What the owner types: the passcode, and the code of the secret there is when
\* the form asks for one.
RightSubmit ==
  /\ mode = "owner"
  /\ \E code \in shown \cup {None} :
       /\ mfaStep /\ secret # None => code = secret
       /\ SubmitLogin(TRUE, code)

\* An owner who keeps signing in rightly gets in, whoever sets up, activates and
\* disables the factor meanwhile, and whatever was answered or typed before, once
\* answers are no longer lost nor the form emptied (F5, the link under it); unless
\* an activation has raced with a setup or a disabling (Login.tsx:17-34,
\* auth_handlers.go:38-54, mfa_handlers.go).
OwnerGetsIn ==
  /\ [](~raced)
  /\ []<><<RightSubmit>>_tab
  /\ <>[](attempt.pc # "lost")
  /\ <>[][~F5 /\ ~SwitchMode]_tab
  => <>(as = "owner")

\* Neither the spinner nor a busy form stays for ever (useAuth.tsx:23-28,
\* Login.tsx:17-34).
ScreenMovesOn == (~ready \/ Busy) ~> (ready /\ ~Busy)

\* "LiveProvider keeps a single WebSocket": never two that are not closing, and
\* none once its effect is undone, however often the tab signs in and out while
\* sockets drop and timers are set (live.tsx:12, 22-47).
OneSocket == Cardinality(Live) <= IF mounted THEN 1 ELSE 0

\* "reconnecting automatically if it drops", or if it never opened
\* (live.tsx:13, 26-39).
FeedReturns ==
  mounted /\ cookie # None ~> connected \/ ~mounted \/ cookie = None
=============================================================================
