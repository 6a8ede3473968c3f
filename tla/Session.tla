------------------------------ MODULE Session ------------------------------
(***************************************************************************)
(* The life of client sessions: Session.Run and the flows it calls         *)
(* (internal/server/session.go), the registry of live sessions they share  *)
(* (registry.go), the audit trail each keeps (auditor.go), and the         *)
(* administrator's Active Sessions screens, through which one session      *)
(* hard-closes another (admin_sessions.go, ui3270/detail.go).              *)
(*                                                                         *)
(* Abstractions.  A step runs from one blocking screen or bridge to the    *)
(* next.  What the store answers (privileges, MFA state, a MOTD) is edited *)
(* concurrently by administrators, so each answer is possible each time.   *)
(* Screens that only repaint (a wrong password or code, help, a requery)   *)
(* change nothing here; the throttle and the TOTP floor are other modules. *)
(* A slot is one connection goroutine; it is reused by later connections,  *)
(* at most MaxConnects of them in a behaviour.                             *)
(***************************************************************************)
EXTENDS Naturals

CONSTANTS
  Slots,             \* connection goroutines
  Users, NoUser,     \* user names; NoUser is ""
  Services, NoService,
  MaxConnects,       \* bound on connections in a behaviour
  BridgeIdleExempt   \* Limits.BridgeIdleExempt

ASSUME SessionAssumption ==
  /\ NoUser \notin Users /\ NoService \notin Services
  /\ MaxConnects \in Nat
  /\ BridgeIdleExempt \in BOOLEAN

VARIABLES
  ses,      \* the Session of each slot
  trail,    \* what the audit log says about the slot's connection
  view,     \* the SESSION DETAIL screen an administrator has open
  reg,      \* sessionRegistry.byID
  nextID,   \* sessionRegistry.nextID
  made      \* connections made so far; numbers the connections

vars == <<ses, trail, view, reg, nextID, made>>

Ids == 1..MaxConnects

(* Where a session stands: the screen or call it is blocked in. "ended" is *)
(* Run returned, "left" is deregistered but not yet closed by the server.  *)
PreAuth == {"negotiate", "login"}
Menus   == {"mfa", "news", "menu", "admin", "detail", "settings"}
Active  == PreAuth \cup Menus \cup {"gate", "bridge"}
Phases  == Active \cup {"none", "ended", "left"}

Regimes == {"none", "preAuth", "postAuth", "exempt"}
Rights  == {"admin", "settings"}

Session == [phase : Phases, conn : 0..MaxConnects, id : 0..MaxConnects,
            open : BOOLEAN, trusted : BOOLEAN, regime : Regimes,
            user : Users \cup {NoUser}, rights : SUBSET Rights]
Trail == [open : BOOLEAN, login : Users \cup {NoUser}, actor : Users \cup {NoUser},
          bridge : Services \cup {NoService}]
View == [st : {"none", "idle", "armed", "closing", "acted"},
         id : 0..MaxConnects, conn : 0..MaxConnects,  \* the session displayed
         target : 0..MaxConnects]                     \* the connection being closed
Entry == [live : BOOLEAN, conn : 0..MaxConnects, user : Users \cup {NoUser},
          service : Services \cup {NoService}]

NoSession == [phase |-> "none", conn |-> 0, id |-> 0, open |-> FALSE, trusted |-> FALSE,
              regime |-> "none", user |-> NoUser, rights |-> {}]
NoTrail == [open |-> FALSE, login |-> NoUser, actor |-> NoUser, bridge |-> NoService]
NoView  == [st |-> "none", id |-> 0, conn |-> 0, target |-> 0]
NoEntry == [live |-> FALSE, conn |-> 0, user |-> NoUser, service |-> NoService]

Init ==
  /\ ses = [s \in Slots |-> NoSession]
  /\ trail = [s \in Slots |-> NoTrail]
  /\ view = [s \in Slots |-> NoView]
  /\ reg = [i \in Ids |-> NoEntry]
  /\ nextID = 0
  /\ made = 0

-----------------------------------------------------------------------------
(* Helpers *)

Phase(s) == ses[s].phase

(* armPreAuth: trusted clients are exempt, others get the window and a     *)
(* fresh absolute ceiling.                                                 *)
PreAuthRegime(trusted) == IF trusted THEN "exempt" ELSE "preAuth"

(* armBridge *)
BridgeRegime == IF BridgeIdleExempt THEN "exempt" ELSE "postAuth"

(* Registry updates: no-ops on an entry that is gone. *)
SetLogin(i, u) == [reg EXCEPT ![i] = IF @.live THEN [@ EXCEPT !.user = u] ELSE @]
ClearLogin(i) ==
  [reg EXCEPT ![i] = IF @.live THEN [@ EXCEPT !.user = NoUser, !.service = NoService] ELSE @]
SetService(i, v) == [reg EXCEPT ![i] = IF @.live THEN [@ EXCEPT !.service = v] ELSE @]

(* Run returns: its locals are gone, and the deferred disconnect event     *)
(* closes whatever the log has open for this connection.                   *)
End(s) ==
  /\ ses' = [ses EXCEPT ![s] = [NoSession EXCEPT !.phase = "ended", !.conn = ses[s].conn,
                                                 !.id = ses[s].id, !.open = ses[s].open]]
  /\ trail' = [trail EXCEPT ![s] = NoTrail]
  /\ view' = [view EXCEPT ![s] = NoView]
  /\ UNCHANGED <<reg, nextID, made>>

(* Mutation of Relogin: the actor of the audit trail stays. *)
ReloginKeepsActor(s, login) ==
  /\ ses' = [ses EXCEPT ![s] = [@ EXCEPT !.phase = "login", !.user = NoUser, !.rights = {},
                                         !.regime = PreAuthRegime(ses[s].trusted)]]
  /\ trail' = [trail EXCEPT ![s].login = login]
  /\ view' = [view EXCEPT ![s] = NoView]
  /\ reg' = ClearLogin(ses[s].id)
  /\ UNCHANGED <<nextID, made>>

(* Back to the top of Run's loop: currentUser is dropped, armPreAuth,      *)
(* regClearLogin, and doLogin drops the actor.                             *)
Relogin(s, login) ==
  /\ ses' = [ses EXCEPT ![s] = [@ EXCEPT !.phase = "login", !.user = NoUser, !.rights = {},
                                         !.regime = PreAuthRegime(ses[s].trusted)]]
  /\ trail' = [trail EXCEPT ![s] = [@ EXCEPT !.login = login, !.actor = NoUser]]
  /\ view' = [view EXCEPT ![s] = NoView]
  /\ reg' = ClearLogin(ses[s].id)
  /\ UNCHANGED <<nextID, made>>

Goto(s, p) == ses' = [ses EXCEPT ![s].phase = p]

-----------------------------------------------------------------------------
(* Handle, and Run up to the login screen *)

(* Mutation of NewID: the lowest id that is free. *)
LowestFreeID == CHOOSE i \in Ids : ~reg[i].live /\ \A j \in Ids : j < i => reg[j].live

(* register's id. *)
NewID == nextID + 1

(* sessionFor decides trust, register allots an id, the regime is armed    *)
(* and the connect event recorded.                                         *)
Connect(s) ==
  /\ Phase(s) = "none"
  /\ made < MaxConnects
  /\ made' = made + 1
  /\ nextID' = NewID
  /\ \E t \in BOOLEAN :
       ses' = [ses EXCEPT ![s] = [phase |-> "negotiate", conn |-> made', id |-> nextID',
                                  open |-> TRUE, trusted |-> t, regime |-> PreAuthRegime(t),
                                  user |-> NoUser, rights |-> {}]]
  /\ reg' = [reg EXCEPT ![nextID'] = [live |-> TRUE, conn |-> made', user |-> NoUser,
                                      service |-> NoService]]
  /\ trail' = [trail EXCEPT ![s] = [NoTrail EXCEPT !.open = TRUE]]
  /\ UNCHANGED view

(* Negotiation succeeds; regClearLogin, then the login screen. *)
Negotiated(s) ==
  /\ Phase(s) = "negotiate" /\ ses[s].open
  /\ Goto(s, "login")
  /\ reg' = ClearLogin(ses[s].id)
  /\ UNCHANGED <<trail, view, nextID, made>>

(* Negotiation fails, or PF3 at the login screen. *)
Leave(s) ==
  /\ Phase(s) \in PreAuth /\ ses[s].open
  /\ End(s)

(* The idle window or the ceiling of the pre-auth regime runs out. *)
PreAuthTimeout(s) ==
  /\ Phase(s) \in PreAuth
  /\ ses[s].regime = "preAuth"
  /\ End(s)

(* Credentials accepted: auth_ok, regSetLogin, armPostAuth. *)
LoginOk(s, u) ==
  /\ Phase(s) = "login" /\ ses[s].open
  /\ ses' = [ses EXCEPT ![s] = [@ EXCEPT !.phase = "gate", !.user = u, !.regime = "postAuth"]]
  /\ trail' = [trail EXCEPT ![s] = [@ EXCEPT !.login = u, !.actor = u]]
  /\ reg' = SetLogin(ses[s].id, u)
  /\ UNCHANGED <<view, nextID, made>>

-----------------------------------------------------------------------------
(* Between login and menu *)

(* mfaGate loads the user and opens the verify or the enroll screen. *)
GateChallenge(s) ==
  /\ Phase(s) = "gate"
  /\ Goto(s, "mfa")
  /\ UNCHANGED <<trail, view, reg, nextID, made>>

(* MFA passed or not needed: maybeShowNews has pages to show. *)
ToNews(s) ==
  /\ Phase(s) = "gate" \/ (Phase(s) = "mfa" /\ ses[s].open)
  /\ Goto(s, "news")
  /\ UNCHANGED <<trail, view, reg, nextID, made>>

(* No MOTD, or it has been read: isAdmin and settingsLocked are captured   *)
(* for the rest of this login.                                             *)
ToMenu(s) ==
  /\ Phase(s) = "gate" \/ (Phase(s) \in {"mfa", "news"} /\ ses[s].open)
  /\ \E r \in SUBSET Rights :
       ses' = [ses EXCEPT ![s] = [@ EXCEPT !.phase = "menu", !.rights = r]]
  /\ UNCHANGED <<trail, view, reg, nextID, made>>

(* The user record cannot be loaded or written, a secret not be opened,    *)
(* sealed or generated: fatal in the MFA gate and in user settings.        *)
StoreFatal(s) ==
  /\ Phase(s) \in {"gate", "mfa", "settings"}
  /\ End(s)

(* PF3 at an MFA screen. *)
MfaCancel(s) ==
  /\ Phase(s) = "mfa" /\ ses[s].open
  /\ Relogin(s, trail[s].login)

(* Mutation of IdleLogout: the pre-auth regime is not armed again. *)
IdleLogoutKeepsWindow(s) ==
  /\ Phase(s) \in Menus /\ view[s].st # "closing"
  /\ ses[s].regime # "exempt"
  /\ ses' = [ses EXCEPT ![s] = [@ EXCEPT !.phase = "login", !.user = NoUser, !.rights = {}]]
  /\ trail' = [trail EXCEPT ![s] = [@ EXCEPT !.login = NoUser, !.actor = NoUser]]
  /\ view' = [view EXCEPT ![s] = NoView]
  /\ reg' = ClearLogin(ses[s].id)
  /\ UNCHANGED <<nextID, made>>

(* The idle window runs out on any screen after login: a logout event and  *)
(* back to the login screen.                                               *)
IdleLogout(s) ==
  /\ Phase(s) \in Menus /\ view[s].st # "closing"
  /\ ses[s].regime # "exempt"
  /\ Relogin(s, NoUser)

-----------------------------------------------------------------------------
(* The menu *)

MenuQuit(s) ==
  /\ Phase(s) = "menu" /\ ses[s].open
  /\ Relogin(s, NoUser)

(* A and 0 on the menu, guarded by what was captured at login. *)
MenuFlow(s, p) ==
  /\ Phase(s) = "menu" /\ ses[s].open
  /\ p \in ses[s].rights
  /\ Goto(s, p)
  /\ UNCHANGED <<trail, view, reg, nextID, made>>

(* PF3 in the administration or settings menu. *)
FlowBack(s) ==
  /\ Phase(s) \in Rights /\ ses[s].open
  /\ Goto(s, "menu")
  /\ UNCHANGED <<trail, view, reg, nextID, made>>

(* bridge_start, regSetService, armBridge, and Bridge is called. *)
BridgeStart(s, v) ==
  /\ Phase(s) = "menu" /\ ses[s].open
  /\ ses' = [ses EXCEPT ![s] = [@ EXCEPT !.phase = "bridge", !.regime = BridgeRegime]]
  /\ trail' = [trail EXCEPT ![s] = [@ EXCEPT !.bridge = v]]
  /\ reg' = SetService(ses[s].id, v)
  /\ UNCHANGED <<view, nextID, made>>

(* Mutation of BridgeReturn: only a clean end restores the window. *)
BridgeReturnKeepsRegime(s) ==
  /\ Phase(s) = "bridge"
  /\ Goto(s, "menu")
  /\ trail' = [trail EXCEPT ![s] = [@ EXCEPT !.bridge = NoService]]
  /\ reg' = SetService(ses[s].id, NoService)
  /\ UNCHANGED <<view, nextID, made>>

(* Mutation of BridgeReturn: regClearService is forgotten. *)
BridgeReturnKeepsService(s) ==
  /\ Phase(s) = "bridge"
  /\ ses' = [ses EXCEPT ![s] = [@ EXCEPT !.phase = "menu", !.regime = "postAuth"]]
  /\ trail' = [trail EXCEPT ![s] = [@ EXCEPT !.bridge = NoService]]
  /\ UNCHANGED <<view, reg, nextID, made>>

(* Backend closed, user escaped, or an error: bridge_end, back to the      *)
(* menu, regClearService, armPostAuth.                                     *)
BridgeReturn(s) ==
  /\ Phase(s) = "bridge"
  /\ ses' = [ses EXCEPT ![s] = [@ EXCEPT !.phase = "menu", !.regime = "postAuth"]]
  /\ trail' = [trail EXCEPT ![s] = [@ EXCEPT !.bridge = NoService]]
  /\ reg' = SetService(ses[s].id, NoService)
  /\ UNCHANGED <<view, nextID, made>>

(* The client closed, or idled out, during the bridge. *)
BridgeClientClosed(s) ==
  /\ Phase(s) = "bridge"
  /\ ~ses[s].open \/ ses[s].regime # "exempt"
  /\ End(s)

-----------------------------------------------------------------------------
(* Active Sessions *)

(* The list shows a snapshot of the registry; S opens the detail of one of *)
(* its rows, which is never refreshed.                                     *)
SelectSession(s, i) ==
  /\ Phase(s) = "admin" /\ ses[s].open
  /\ reg[i].live
  /\ Goto(s, "detail")
  /\ view' = [view EXCEPT ![s] = [st |-> "idle", id |-> i, conn |-> reg[i].conn, target |-> 0]]
  /\ UNCHANGED <<trail, reg, nextID, made>>

(* First PF11: Confirm vetoes one's own session. *)
ArmDisconnect(s) ==
  /\ Phase(s) = "detail" /\ ses[s].open
  /\ view[s].st = "idle"
  /\ view[s].id # ses[s].id
  /\ view' = [view EXCEPT ![s].st = "armed"]
  /\ UNCHANGED <<ses, trail, reg, nextID, made>>

(* Any other key withdraws the confirmation. *)
Disarm(s) ==
  /\ Phase(s) = "detail" /\ ses[s].open
  /\ view[s].st = "armed"
  /\ view' = [view EXCEPT ![s].st = "idle"]
  /\ UNCHANGED <<ses, trail, reg, nextID, made>>

(* Second PF11: Disconnect looks the id up under the lock; a session that  *)
(* has ended is reported as such. *)
DisconnectLookup(s) ==
  /\ Phase(s) = "detail" /\ ses[s].open
  /\ view[s].st = "armed"
  /\ view' = [view EXCEPT ![s] =
                IF reg[@.id].live
                THEN [@ EXCEPT !.st = "closing", !.target = reg[view[s].id].conn]
                ELSE [@ EXCEPT !.st = "acted"]]
  /\ UNCHANGED <<ses, trail, reg, nextID, made>>

(* ... and, the lock released, calls the entry's close function, which     *)
(* closes that very connection, if it still exists.                        *)
DisconnectClose(s) ==
  /\ view[s].st = "closing"
  /\ ses' = [t \in Slots |-> IF ses[t].conn = view[s].target
                             THEN [ses[t] EXCEPT !.open = FALSE] ELSE ses[t]]
  /\ view' = [view EXCEPT ![s].st = "acted"]
  /\ UNCHANGED <<trail, reg, nextID, made>>

(* PF3 on the detail screen. *)
DetailBack(s) ==
  /\ Phase(s) = "detail" /\ ses[s].open
  /\ view[s].st # "closing"
  /\ Goto(s, "admin")
  /\ view' = [view EXCEPT ![s] = NoView]
  /\ UNCHANGED <<trail, reg, nextID, made>>

-----------------------------------------------------------------------------
(* Failures and teardown *)

(* The client's end of the connection goes away. *)
PeerDrops(s) ==
  /\ Phase(s) \in Active \cup {"ended", "left"}
  /\ ses[s].open
  /\ ses' = [ses EXCEPT ![s].open = FALSE]
  /\ UNCHANGED <<trail, view, reg, nextID, made>>

(* Mutation of ScreenError: a menu that cannot be painted is painted again. *)
ScreenErrorRetriesMenu(s) ==
  /\ Phase(s) \in (PreAuth \cup Menus) \ {"menu"} /\ view[s].st # "closing"
  /\ ~ses[s].open
  /\ End(s)

(* A screen cannot be read or painted because the connection is gone. *)
ScreenError(s) ==
  /\ Phase(s) \in PreAuth \cup Menus /\ view[s].st # "closing"
  /\ ~ses[s].open
  /\ End(s)

(* A panic anywhere in the session runs the deferred functions and is      *)
(* recovered in Server.handle.                                             *)
Panic(s) ==
  /\ Phase(s) \in Active
  /\ End(s)

(* Handle's deferred deregister. *)
Deregister(s) ==
  /\ Phase(s) = "ended"
  /\ Goto(s, "left")
  /\ reg' = [reg EXCEPT ![ses[s].id] = NoEntry]
  /\ UNCHANGED <<trail, view, nextID, made>>

(* Server.handle closes the connection. *)
CloseConn(s) ==
  /\ Phase(s) = "left"
  /\ ses' = [ses EXCEPT ![s] = NoSession]
  /\ UNCHANGED <<trail, view, reg, nextID, made>>

(* The bound on connections is used up and all of them have ended. *)
Quiet ==
  /\ made = MaxConnects
  /\ \A s \in Slots : Phase(s) = "none"
  /\ UNCHANGED vars

-----------------------------------------------------------------------------
Step(s) ==
  \/ Connect(s) \/ Negotiated(s) \/ Leave(s) \/ PreAuthTimeout(s)
  \/ \E u \in Users : LoginOk(s, u)
  \/ GateChallenge(s) \/ ToNews(s) \/ ToMenu(s) \/ StoreFatal(s) \/ MfaCancel(s)
  \/ IdleLogout(s) \/ MenuQuit(s)
  \/ \E p \in Rights : MenuFlow(s, p)
  \/ FlowBack(s)
  \/ \E v \in Services : BridgeStart(s, v)
  \/ BridgeReturn(s) \/ BridgeClientClosed(s)
  \/ \E i \in Ids : SelectSession(s, i)
  \/ ArmDisconnect(s) \/ Disarm(s) \/ DisconnectLookup(s) \/ DisconnectClose(s)
  \/ DetailBack(s)
  \/ PeerDrops(s) \/ ScreenError(s) \/ Panic(s) \/ Deregister(s) \/ CloseConn(s)

Next == (\E s \in Slots : Step(s)) \/ Quiet

Spec == Init /\ [][Next]_vars

(* Scheduling.  A session goroutine that is not waiting for its client     *)
(* runs on: the MFA gate, teardown, the close of a chosen connection.  A   *)
(* read or write on a closed connection returns an error.  A bridge whose  *)
(* client is gone returns, as long as the backend takes what is written to *)
(* it.  The absolute ceiling of the pre-auth regime is a deadline that no  *)
(* activity moves, so it fires.  Nothing makes a user press a key.         *)
Running(s) == GateChallenge(s) \/ ToNews(s) \/ ToMenu(s) \/ StoreFatal(s)

Fairness ==
  \A s \in Slots :
    /\ WF_vars(Phase(s) = "gate" /\ Running(s))
    /\ WF_vars(ScreenError(s))
    /\ WF_vars(~ses[s].open /\ BridgeClientClosed(s))
    /\ WF_vars(DisconnectClose(s))
    /\ WF_vars(Deregister(s) \/ CloseConn(s))
    /\ WF_vars(PreAuthTimeout(s))

FairSpec == Spec /\ Fairness

-----------------------------------------------------------------------------
(* Properties *)

(* Every variable has its type, whatever the order of connections, logins  *)
(* and administrators' closes; ids never outrun connections (register).    *)
TypeOK ==
  /\ ses \in [Slots -> Session]
  /\ trail \in [Slots -> Trail]
  /\ view \in [Slots -> View]
  /\ reg \in [Ids -> Entry]
  /\ nextID \in 0..MaxConnects
  /\ made \in 0..MaxConnects

(* Whatever path led to a screen, the idle regime is the one meant for it: *)
(* an untrusted client that is not logged in is under the pre-auth ceiling *)
(* (also after logging off or idling out), a logged-in one under the plain *)
(* window (also after a bridge), and only bridges may be exempt.           *)
RegimeMatchesPhase ==
  \A s \in Slots :
    /\ Phase(s) \in PreAuth => ses[s].regime = PreAuthRegime(ses[s].trusted)
    /\ Phase(s) \in Menus \cup {"gate"} => ses[s].regime = "postAuth"
    /\ Phase(s) = "bridge" => ses[s].regime = BridgeRegime

(* The Active Sessions list is true: a session that runs is listed under   *)
(* its id with the user logged in and the service it is bridged to, and    *)
(* nothing is listed whose Handle has returned.                            *)
RegistryTruthful ==
  /\ TypeOK
  /\ \A s \in Slots :
       Phase(s) \in Active =>
         LET e == reg[ses[s].id] IN
         /\ e.live /\ e.conn = ses[s].conn
         /\ e.user = ses[s].user
         /\ e.service = trail[s].bridge
         /\ e.service # NoService <=> Phase(s) = "bridge"
  /\ \A i \in Ids :
       reg[i].live => \E s \in Slots : Phase(s) \in Active \cup {"ended"} /\ ses[s].id = i

(* The audit log is true: between auth_ok and the end of the login every   *)
(* event carries the logged-in user as actor, none does at the login       *)
(* screen, and bridge_start and bridge_end bracket the bridge.             *)
AuditTruthful ==
  \A s \in Slots :
    /\ trail[s].open <=> Phase(s) \in Active
    /\ trail[s].actor = ses[s].user
    /\ ses[s].user # NoUser => trail[s].login = ses[s].user
    /\ ses[s].user # NoUser <=> Phase(s) \in Active \ PreAuth
    /\ trail[s].bridge # NoService <=> Phase(s) = "bridge"

(* A confirmed disconnect closes the connection that was displayed when it *)
(* was chosen and never the administrator's own, although sessions come    *)
(* and go between the snapshot, the two key presses and the close.         *)
DisconnectHitsTarget ==
  \A s \in Slots :
    view[s].st = "closing" =>
      /\ view[s].target = view[s].conn
      /\ view[s].target # ses[s].conn

(* A connection that is gone, dropped by its peer or hard-closed by an     *)
(* administrator, takes its session with it: Run returns, the registry     *)
(* entry goes and the goroutine ends.                                      *)
ClosedSessionEnds == \A s \in Slots : (Phase(s) # "none" /\ ~ses[s].open) ~> Phase(s) = "none"

(* An untrusted client cannot stay on the login screen: neither failed     *)
(* logins nor key presses move the pre-auth ceiling.                       *)
PreAuthBounded ==
  \A s \in Slots :
    (Phase(s) \in PreAuth /\ ~ses[s].trusted) ~> ~(Phase(s) \in PreAuth /\ ~ses[s].trusted)
=============================================================================
