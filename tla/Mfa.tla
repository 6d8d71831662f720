--------------------------------- MODULE Mfa ---------------------------------
(***************************************************************************)
(* The owner's second factor: two settings, totp_enabled and totp_secret,  *)
(* which three handlers read and write in statements of their own, with    *)
(* nothing that keeps two of them apart.  Setup makes a secret and shows   *)
(* it, activation checks a code of it and turns the factor on, and         *)
(* disabling checks a code, turns it off and clears the secret.            *)
(*                                                                         *)
(* A code is the secret it was computed from (the 30 seconds it is valid   *)
(* for take no part); "" is None.                                          *)
(***************************************************************************)
CONSTANTS
  Requests,  \* requests at work at the same time
  Secrets,   \* secrets NewSecret can make (a bound)
  None

ASSUME NoneAssumption == None \notin Secrets

VARIABLES
  enabled,  \* setting totp_enabled
  secret,   \* setting totp_secret, opened
  shown,    \* secrets that a setup has returned: somebody's authenticator has them
  proved,   \* secrets of which an activation has seen a code
  pc,       \* the write each request comes to
  raced     \* whether an activation ever overlapped a setup or a disabling

vars == <<enabled, secret, shown, proved, pc, raced>>

Init ==
  /\ enabled = FALSE
  /\ secret = None
  /\ shown = {}
  /\ proved = {}
  /\ pc = [r \in Requests |-> "idle"]
  /\ raced = FALSE

Race ==
  \E q, r \in Requests : pc[q] = "activate" /\ pc[r] \in {"setup", "off", "clear"}

Goto(r, l) == pc' = [pc EXCEPT ![r] = l]

-----------------------------------------------------------------------------
\* mfaSetup: refused while the factor is on.
SetupRead(r) ==
  /\ pc[r] = "idle"
  /\ ~enabled
  /\ Goto(r, "setup")
  /\ UNCHANGED <<enabled, secret, shown, proved>>

\* A bug to find: what is returned is not what is stored.
SetupWriteBug(r) ==
  /\ pc[r] = "setup"
  /\ \E s, t \in Secrets \ shown : secret' = s /\ shown' = shown \cup {t}
  /\ Goto(r, "idle")
  /\ UNCHANGED <<enabled, proved>>

SetupWrite(r) ==
  /\ pc[r] = "setup"
  /\ \E s \in Secrets \ shown : secret' = s /\ shown' = shown \cup {s}
  /\ Goto(r, "idle")
  /\ UNCHANGED <<enabled, proved>>

\* A bug to find: a code of any secret that was ever shown will do.
ActivateReadBug(r, code) ==
  /\ pc[r] = "idle"
  /\ secret # None
  /\ code \in shown
  /\ proved' = proved \cup {code}
  /\ Goto(r, "activate")
  /\ UNCHANGED <<enabled, secret, shown>>

\* mfaActivate: "run setup first" without a secret, and then a code of it.
ActivateRead(r, code) ==
  /\ pc[r] = "idle"
  /\ code \in shown
  /\ secret = code
  /\ proved' = proved \cup {code}
  /\ Goto(r, "activate")
  /\ UNCHANGED <<enabled, secret, shown>>

ActivateWrite(r) ==
  /\ pc[r] = "activate"
  /\ enabled' = TRUE
  /\ Goto(r, "idle")
  /\ UNCHANGED <<secret, shown, proved>>

\* mfaDisable: a code is only asked for while there is a secret.
DisableRead(r, code) ==
  /\ pc[r] = "idle"
  /\ code \in shown \cup {None}
  /\ secret \in {None, code}
  /\ Goto(r, "off")
  /\ UNCHANGED <<enabled, secret, shown, proved>>

\* A bug to find: the secret is cleared first.
DisableOffBug(r) ==
  /\ pc[r] = "off"
  /\ secret' = None
  /\ Goto(r, "clear")
  /\ UNCHANGED <<enabled, shown, proved>>

DisableOff(r) ==
  /\ pc[r] = "off"
  /\ enabled' = FALSE
  /\ Goto(r, "clear")
  /\ UNCHANGED <<secret, shown, proved>>

DisableClear(r) ==
  /\ pc[r] = "clear"
  /\ secret' = None
  /\ Goto(r, "idle")
  /\ UNCHANGED <<enabled, shown, proved>>

\* The process stops and starts again.
Restart ==
  /\ pc' = [r \in Requests |-> "idle"]
  /\ UNCHANGED <<enabled, secret, shown, proved>>

Step(r) ==
  \/ SetupRead(r) \/ SetupWrite(r)
  \/ \E code \in Secrets : ActivateRead(r, code)
  \/ ActivateWrite(r)
  \/ \E code \in Secrets \cup {None} : DisableRead(r, code)
  \/ DisableOff(r) \/ DisableClear(r)

Next ==
  /\ \/ \E r \in Requests : Step(r)
     \/ Restart
  /\ raced' = (raced \/ Race')

Spec == Init /\ [][Next]_vars

-----------------------------------------------------------------------------
\* Every variable keeps its type; what is stored was shown to somebody.
TypeOK ==
  /\ enabled \in BOOLEAN
  /\ shown \subseteq Secrets
  /\ proved \subseteq shown
  /\ secret \in shown \cup {None}
  /\ pc \in [Requests -> {"idle", "setup", "activate", "off", "clear"}]
  /\ raced \in BOOLEAN

\* mfaActivate verifies a code so that the factor is never on with a secret
\* the owner has not got, which would lock the owner out.  It never is, over
\* any number of setups and disablings that overlap or are cut short by a
\* crash, as long as no activation overlaps one of them.  (If one does, the
\* factor may be on with a secret that was replaced, or with none.)
OwnerCanSignIn == ~raced /\ enabled => secret \in proved
=============================================================================
