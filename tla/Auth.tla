-------------------------------- MODULE Auth --------------------------------
(***************************************************************************)
(* Who gets to the menu: the password, the TOTP code and the self-service  *)
(* settings of one account, from doLogin, mfaGate, mfaVerify, mfaEnroll,   *)
(* confirmEnroll and userSettings of internal/server/session.go, Validate  *)
(* of internal/mfa/totp.go and the users row of internal/store/mfa.go,     *)
(* with administrators editing the row meanwhile (admin_users.go) and the  *)
(* backoff of Throttle.tla.                                                *)
(*                                                                         *)
(* Abstractions.  A secret is a number, never generated twice, and a code  *)
(* is the pair of a secret and a time step: two pairs never show the same  *)
(* six digits.  MFA is configured; sealing a secret is left out. Accepting *)
(* a code and storing its step are one step: the row it was checked        *)
(* against was read long before, which is where sessions interfere. Only   *)
(* names of Names are tried, and only User has an account.                 *)
(***************************************************************************)
EXTENDS Throttle

CONSTANTS
  Sessions,
  User,          \* the account's name, one of Names
  MaxIds,        \* bound on accounts created under that name
  MaxSecrets     \* bound on secrets generated

ASSUME AuthAssumption ==
  /\ User \in Names
  /\ MaxIds \in Nat \ {0} /\ MaxSecrets \in Nat

VARIABLES
  acct,      \* the users row of User; id 0 when there is none
  ses,       \* the sessions
  secrets,   \* secrets generated so far
  ids,       \* the highest row id given out so far
  top        \* history: the highest step accepted for the secret in the row

authVars == <<acct, ses, secrets, ids, top>>
vars == <<clock, entries, lastSweep, fails, acct, ses, secrets, ids, top>>

Secrets == 0 .. MaxSecrets    \* 0 is the empty mfa_secret
Steps == 0 .. MaxClock + 1
Row == [id : 0 .. MaxIds, secret : Secrets, floor : Steps, required : BOOLEAN, locked : BOOLEAN]

(* Where a session waits.  "gate" and "reload" are the loads of the row in *)
(* mfaGate and in userSettings' loop.                                      *)
PastGate == {"news", "menu", "reload", "settings", "stepEnroll", "stepDisable", "selfEnroll"}
Phases == {"login", "gate", "verify", "enroll"} \cup PastGate

Session ==
  [phase : Phases,
   u : Row,               \* the row as this session last loaded it
   fresh : Secrets,       \* the secret it is enrolling
   settings : BOOLEAN,    \* settingsLocked was not set at login
   before : Row,          \* the row when the password was accepted; its id is
                          \* identity.UserID, the rest is history
   touched : BOOLEAN,     \* history: an administrator has edited it since
   proved : Secrets]      \* history: the secret a code was accepted for

NoRow == [id |-> 0, secret |-> 0, floor |-> 0, required |-> FALSE, locked |-> FALSE]
NewRow(i) == [NoRow EXCEPT !.id = i]
AtLogin == [phase |-> "login", u |-> NoRow, fresh |-> 0, settings |-> FALSE,
            before |-> NoRow, touched |-> FALSE, proved |-> 0]

Init ==
  /\ ThrottleInit
  /\ acct = NewRow(1)
  /\ ses = [s \in Sessions |-> AtLogin]
  /\ secrets = 0
  /\ ids = 1
  /\ top = 0

-----------------------------------------------------------------------------
(* Codes *)

Codes == (1 .. secrets) \X Steps

(* Mutant: a code one step further ahead is accepted too. *)
Validate_Skewed(secret, code, lastStep) ==
  /\ code[1] = secret
  /\ code[2] \in {clock + 2, clock + 1, clock, clock - 1}
  /\ code[2] > lastStep

(* Validate: the step before, the current and the next one match; a match  *)
(* at or below the replay floor is refused.                                *)
Validate(secret, code, lastStep) ==
  /\ code[1] = secret
  /\ code[2] \in {clock + 1, clock, clock - 1}
  /\ code[2] > lastStep

-----------------------------------------------------------------------------
(* The users row.  Each update is by id, and fails when no row has it.     *)

(* Mutant: the floor is kept in the session only. *)
UpdateMFAStep_Lost(code) ==
  /\ top' = IF acct.secret = code[1] /\ code[2] > top THEN code[2] ELSE top
  /\ UNCHANGED acct

UpdateMFAStep(code) ==
  /\ acct' = [acct EXCEPT !.floor = code[2]]
  /\ top' = IF acct.secret = code[1] /\ code[2] > top THEN code[2] ELSE top

StoreMFAEnrollment(code) ==
  /\ acct' = [acct EXCEPT !.secret = code[1], !.floor = code[2]]
  /\ top' = code[2]

ClearMFA ==
  /\ acct' = [acct EXCEPT !.secret = 0, !.floor = 0]
  /\ top' = 0

-----------------------------------------------------------------------------
(* Session steps *)

Phase(s) == ses[s].phase
Goto(s, p) == ses' = [ses EXCEPT ![s].phase = p]
SameRow(s) == ses[s].u.id # 0 /\ acct.id = ses[s].u.id

(* An attempt fails: backoff, and the screen is shown again. *)
Failed(n) == Fail(n) /\ UNCHANGED <<clock, authVars>>

(* doLogin: wrong password, or no such user *)
LoginFails(s, n) ==
  /\ Phase(s) = "login"
  /\ Failed(n)

(* doLogin: the password is right. *)
LoginOk(s) ==
  /\ Phase(s) = "login"
  /\ acct.id # 0
  /\ ses' = [ses EXCEPT ![s] = [@ EXCEPT !.phase = "gate", !.before = acct]]
  /\ Reset(User)
  /\ UNCHANGED <<clock, acct, secrets, ids, top>>

(* Past the gate, to the MOTD *)
Admit(s, p) ==
  ses' = [ses EXCEPT ![s] = [@ EXCEPT !.phase = "news", !.u = NoRow, !.fresh = 0, !.proved = p]]

(* Mutant: only users an administrator has put under MFA are challenged. *)
Gate_RequiredFirst(s) ==
  /\ Phase(s) = "gate"
  /\ acct.id # 0
  /\ \/ /\ acct.required /\ acct.secret # 0
        /\ ses' = [ses EXCEPT ![s] = [@ EXCEPT !.phase = "verify", !.u = acct]]
        /\ UNCHANGED secrets
     \/ /\ acct.required /\ acct.secret = 0 /\ ~acct.locked
        /\ secrets < MaxSecrets
        /\ secrets' = secrets + 1
        /\ ses' = [ses EXCEPT ![s] = [@ EXCEPT !.phase = "enroll", !.u = acct, !.fresh = secrets']]
     \/ /\ ~acct.required \/ (acct.secret = 0 /\ acct.locked)
        /\ Admit(s, 0)
        /\ UNCHANGED secrets
  /\ UNCHANGED <<clock, throttleVars, acct, ids, top>>

(* mfaGate: a stored secret is always verified; a required one is enrolled *)
(* unless the account is locked.                                           *)
Gate(s) ==
  /\ Phase(s) = "gate"
  /\ acct.id # 0
  /\ \/ /\ acct.secret # 0
        /\ ses' = [ses EXCEPT ![s] = [@ EXCEPT !.phase = "verify", !.u = acct]]
        /\ UNCHANGED secrets
     \/ /\ acct.secret = 0 /\ acct.required /\ ~acct.locked
        /\ secrets < MaxSecrets
        /\ secrets' = secrets + 1
        /\ ses' = [ses EXCEPT ![s] = [@ EXCEPT !.phase = "enroll", !.u = acct, !.fresh = secrets']]
     \/ /\ acct.secret = 0 /\ (~acct.required \/ acct.locked)
        /\ Admit(s, 0)
        /\ UNCHANGED secrets
  /\ UNCHANGED <<clock, throttleVars, acct, ids, top>>

(* The session is over, by PF3, idling out, a lost connection or an error  *)
(* of the store: the next thing is a login screen.                         *)
Leave(s) ==
  /\ ses' = [ses EXCEPT ![s] = AtLogin]
  /\ UNCHANGED <<clock, throttleVars, acct, secrets, ids, top>>

(* mfaVerify: the code is accepted against the row loaded at the gate. *)
VerifyOk(s, code) ==
  /\ Phase(s) = "verify"
  /\ Validate(ses[s].u.secret, code, ses[s].u.floor)
  /\ SameRow(s)
  /\ UpdateMFAStep(code)
  /\ Admit(s, code[1])
  /\ Reset(User)
  /\ UNCHANGED <<clock, secrets, ids>>

VerifyFails(s) ==
  /\ Phase(s) = "verify"
  /\ Failed(User)

(* confirmEnroll: the code shows the new secret is in the authenticator. *)
ConfirmEnroll(s, code) ==
  /\ Validate(ses[s].fresh, code, 0)
  /\ SameRow(s)
  /\ StoreMFAEnrollment(code)
  /\ Reset(User)
  /\ UNCHANGED <<clock, secrets, ids>>

EnrollOk(s, code) ==
  /\ Phase(s) = "enroll"
  /\ ConfirmEnroll(s, code)
  /\ Admit(s, code[1])

EnrollFails(s) ==
  /\ Phase(s) \in {"enroll", "selfEnroll"}
  /\ Failed(User)

-----------------------------------------------------------------------------
(* The menu and user settings *)

(* settingsLocked is captured for the rest of the login; when the row      *)
(* cannot be loaded the account is taken for unlocked.                     *)
ToMenu(s) ==
  /\ Phase(s) = "news"
  /\ \E open \in {TRUE, ~acct.locked} :
       ses' = [ses EXCEPT ![s] = [@ EXCEPT !.phase = "menu", !.settings = open]]
  /\ UNCHANGED <<clock, throttleVars, acct, secrets, ids, top>>

OpenSettings(s) ==
  /\ Phase(s) = "menu"
  /\ ses[s].settings
  /\ Goto(s, "reload")
  /\ UNCHANGED <<clock, throttleVars, acct, secrets, ids, top>>

(* The row is loaded by name at the top of the loop. *)
Reload(s) ==
  /\ Phase(s) = "reload"
  /\ acct.id # 0
  /\ ses' = [ses EXCEPT ![s] = [@ EXCEPT !.phase = "settings", !.u = acct, !.fresh = 0]]
  /\ UNCHANGED <<clock, throttleVars, acct, secrets, ids, top>>

(* PF3 *)
SettingsBack(s) ==
  /\ Phase(s) = "settings"
  /\ ses' = [ses EXCEPT ![s] = [@ EXCEPT !.phase = "menu", !.u = NoRow]]
  /\ UNCHANGED <<clock, throttleVars, acct, secrets, ids, top>>

(* userSettingsActions offers disabling only to the voluntarily enrolled. *)
ChooseMFA(s) ==
  /\ Phase(s) = "settings"
  /\ \/ Goto(s, "stepEnroll")
     \/ /\ ses[s].u.secret # 0 /\ ~ses[s].u.required
        /\ Goto(s, "stepDisable")
  /\ UNCHANGED <<clock, throttleVars, acct, secrets, ids, top>>

(* changePassword: the current password is checked by name, the new one    *)
(* stored by id.                                                           *)
ChangePassword(s) ==
  /\ Phase(s) = "settings"
  /\ acct.id # 0 /\ acct.id = ses[s].before.id
  /\ Goto(s, "reload")
  /\ Reset(User)
  /\ UNCHANGED <<clock, acct, secrets, ids, top>>

(* A wrong current password, in changePassword or stepUpPassword *)
StepUpFails(s) ==
  /\ Phase(s) \in {"settings", "stepEnroll", "stepDisable"}
  /\ Failed(User)

(* PF3 in the step-up or in the enrollment *)
SelfCancel(s) ==
  /\ Phase(s) \in {"stepEnroll", "stepDisable", "selfEnroll"}
  /\ Goto(s, "reload")
  /\ UNCHANGED <<clock, throttleVars, acct, secrets, ids, top>>

(* selfMFAEnroll past the step-up: a fresh secret *)
StepUpEnroll(s) ==
  /\ Phase(s) = "stepEnroll"
  /\ acct.id # 0
  /\ secrets < MaxSecrets
  /\ secrets' = secrets + 1
  /\ ses' = [ses EXCEPT ![s] = [@ EXCEPT !.phase = "selfEnroll", !.fresh = secrets']]
  /\ Reset(User)
  /\ UNCHANGED <<clock, acct, ids, top>>

SelfEnrollOk(s, code) ==
  /\ Phase(s) = "selfEnroll"
  /\ ConfirmEnroll(s, code)
  /\ Goto(s, "reload")

(* selfMFADisable past the step-up: whatever the row now says, it is       *)
(* cleared; that it is gone ends the session.                              *)
StepUpDisable(s) ==
  /\ Phase(s) = "stepDisable"
  /\ acct.id # 0
  /\ \/ SameRow(s) /\ ClearMFA /\ Goto(s, "reload")
     \/ ~SameRow(s) /\ ses' = [ses EXCEPT ![s] = AtLogin] /\ UNCHANGED <<acct, top>>
  /\ Reset(User)
  /\ UNCHANGED <<clock, secrets, ids>>

-----------------------------------------------------------------------------
(* Administrators *)

Touch == ses' = [s \in Sessions |-> [ses[s] EXCEPT !.touched = Phase(s) # "login"]]

(* applyMFAEdit and applyLockEdit on the form of a row loaded earlier *)
AdminEdit ==
  /\ acct.id # 0
  /\ \/ \E b \in BOOLEAN : acct' = [acct EXCEPT !.required = b] /\ UNCHANGED top
     \/ \E b \in BOOLEAN : acct' = [acct EXCEPT !.locked = b] /\ UNCHANGED top
     \/ ClearMFA
  /\ Touch
  /\ UNCHANGED <<clock, throttleVars, secrets, ids>>

AdminDelete ==
  /\ acct.id # 0
  /\ acct' = NoRow
  /\ top' = 0
  /\ Touch
  /\ UNCHANGED <<clock, throttleVars, secrets, ids>>

(* The users table has no AUTOINCREMENT: unless other rows have higher     *)
(* ids, the id of the deleted row is given out again.                      *)
AdminCreate ==
  /\ acct.id = 0
  /\ ids' \in {ids, ids + 1} /\ ids' <= MaxIds
  /\ acct' = NewRow(ids')
  /\ Touch
  /\ UNCHANGED <<clock, throttleVars, secrets, top>>

Wait == Tick /\ UNCHANGED <<throttleVars, authVars>>

-----------------------------------------------------------------------------
Step(s) ==
  \/ \E n \in Names : LoginFails(s, n)
  \/ LoginOk(s) \/ Gate(s) \/ Leave(s)
  \/ \E c \in Codes : VerifyOk(s, c)
  \/ \E c \in Codes : EnrollOk(s, c)
  \/ \E c \in Codes : SelfEnrollOk(s, c)
  \/ VerifyFails(s) \/ EnrollFails(s)
  \/ ToMenu(s) \/ OpenSettings(s) \/ Reload(s) \/ SettingsBack(s) \/ ChooseMFA(s) \/ ChangePassword(s)
  \/ StepUpFails(s) \/ SelfCancel(s) \/ StepUpEnroll(s) \/ StepUpDisable(s)

Next ==
  \/ \E s \in Sessions : Step(s)
  \/ AdminEdit \/ AdminDelete \/ AdminCreate
  \/ Wait

Spec == Init /\ [][Next]_vars

-----------------------------------------------------------------------------
(* Properties *)

(* MfaEnforced: a session past the gate has shown a code for the secret in *)
(* the row if it was there before its password was accepted, whoever       *)
(* enrolled it; and if the row then required an enrollment and no          *)
(* administrator has touched it since, it has enrolled (mfaGate).          *)
MfaEnforced ==
  \A s \in Sessions :
    Phase(s) \in PastGate =>
      LET b == ses[s].before
      IN /\ b.secret # 0 /\ b.secret = acct.secret => ses[s].proved = b.secret
         /\ ~ses[s].touched /\ b.required /\ ~b.locked => ses[s].proved # 0

(* FloorNotAhead: the replay floor is at most one step in the future, so   *)
(* that an account is never shut out for longer than the skew Validate     *)
(* allows, whichever sessions and secrets wrote the floor.                 *)
FloorNotAhead == acct.floor <= clock + 1

(* FloorIsHighest: "replay floor: highest accepted TOTP step".  While a    *)
(* secret is stored, mfa_last_step is the highest step accepted for it, so *)
(* that no accepted code can be used again (User.MFALastStep, Validate).   *)
FloorIsHighest == acct.secret # 0 => acct.floor = top
=============================================================================
