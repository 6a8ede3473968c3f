--------------------------- MODULE SessionProofs ---------------------------
(***************************************************************************)
(* What the registry, the audit log and the idle regimes say of sessions,  *)
(* proved for any number of goroutines, connections, users and services.   *)
(*                                                                         *)
(* The properties hold of each session on its own (SlotOK: its record x,   *)
(* its trail tr, its view v and its registry entry e).  What ties sessions *)
(* to one another is their numbers (Numbered): ids are never given out     *)
(* again, and an entry is live only while its own session is.  That makes  *)
(* the id an administrator has read name one connection for ever.          *)
(***************************************************************************)
EXTENDS Session, TLAPS

Alive == Active \cup {"ended"}

SlotOK(x, tr, v, e) ==
  /\ x.phase # "none" => x.conn = x.id
  /\ x.phase \in Alive => e.live /\ e.conn = x.conn
  /\ x.phase \in Active => e.user = x.user /\ e.service = tr.bridge
  /\ x.phase \in PreAuth => x.regime = PreAuthRegime(x.trusted)
  /\ x.phase \in Menus \cup {"gate"} => x.regime = "postAuth"
  /\ x.phase = "bridge" => x.regime = BridgeRegime
  /\ tr.open <=> x.phase \in Active
  /\ tr.actor = x.user
  /\ x.user # NoUser => tr.login = x.user
  /\ x.user # NoUser <=> x.phase \in Active \ PreAuth
  /\ tr.bridge # NoService <=> x.phase = "bridge"
  /\ v.st # "none" <=> x.phase = "detail"
  /\ v.st # "none" => v.conn = v.id /\ v.id \in Ids
  /\ v.st \in {"armed", "closing"} => v.id # x.id
  /\ v.st = "closing" => v.target = v.conn

Numbered ==
  /\ made = nextID
  /\ \A s \in Slots : Phase(s) # "none" => ses[s].id \in 1 .. made
  /\ \A s, t \in Slots :
       s # t /\ Phase(s) # "none" /\ Phase(t) # "none" => ses[s].id # ses[t].id
  /\ \A i \in Ids : reg[i].live =>
       /\ reg[i].conn = i
       /\ \E s \in Slots : Phase(s) \in Alive /\ ses[s].id = i

SessionInv ==
  /\ TypeOK
  /\ Numbered
  /\ \A s \in Slots : SlotOK(ses[s], trail[s], view[s], reg[ses[s].id])

-----------------------------------------------------------------------------
(* What a step may rely on of the session it is of                         *)
LEMMA Own ==
  ASSUME SessionInv, NEW s \in Slots
  PROVE  /\ ses[s] \in Session /\ trail[s] \in Trail /\ view[s] \in View
         /\ SlotOK(ses[s], trail[s], view[s], reg[ses[s].id])
         /\ Phase(s) # "none" => ses[s].id \in Ids /\ reg[ses[s].id] \in Entry
         /\ Phase(s) \in Alive => reg[ses[s].id].live
         /\ ses = [ses EXCEPT ![s] = ses[s]]
         /\ trail = [trail EXCEPT ![s] = trail[s]]
         /\ view = [view EXCEPT ![s] = view[s]]
         /\ reg = [reg EXCEPT ![ses[s].id] = reg[ses[s].id]]
<1>1. /\ ses \in [Slots -> Session] /\ trail \in [Slots -> Trail] /\ view \in [Slots -> View]
      /\ reg \in [Ids -> Entry] /\ made \in 0 .. MaxConnects /\ MaxConnects \in Nat
  BY SessionAssumption DEF SessionInv, TypeOK
<1>2. SlotOK(ses[s], trail[s], view[s], reg[ses[s].id])
  BY DEF SessionInv
<1>3. Phase(s) # "none" => ses[s].id \in Ids
  BY <1>1 DEF SessionInv, Numbered, Ids
<1>4. Phase(s) \in Alive => reg[ses[s].id].live
  BY <1>2 DEF SlotOK, Phase
<1>. QED
  BY <1>1, <1>2, <1>3, <1>4

(* A step of one live session that changes its record, its trail, its view *)
(* and its own registry entry, and keeps its number.                       *)
LEMMA OwnStep ==
  ASSUME SessionInv, NEW s \in Slots, Phase(s) \in Alive,
         NEW x \in Session, NEW tr \in Trail, NEW v \in View, NEW e \in Entry,
         ses' = [ses EXCEPT ![s] = x], trail' = [trail EXCEPT ![s] = tr],
         view' = [view EXCEPT ![s] = v], reg' = [reg EXCEPT ![ses[s].id] = e],
         UNCHANGED <<nextID, made>>,
         x.phase # "none", x.id = ses[s].id, x.conn = ses[s].conn,
         e.live <=> x.phase \in Alive, e.live => e.conn = ses[s].id,
         SlotOK(x, tr, v, e)
  PROVE  SessionInv'
<1>. DEFINE i == ses[s].id
<1>1. /\ ses \in [Slots -> Session] /\ trail \in [Slots -> Trail] /\ view \in [Slots -> View]
      /\ reg \in [Ids -> Entry] /\ i \in Ids /\ Phase(s) # "none"
  BY Own DEF SessionInv, TypeOK, Alive, Active, PreAuth, Menus
<1>2. TypeOK'
  BY <1>1 DEF SessionInv, TypeOK
<1>3. /\ ses'[s] = x /\ trail'[s] = tr /\ view'[s] = v /\ reg'[i] = e
      /\ \A t \in Slots \ {s} : ses'[t] = ses[t] /\ trail'[t] = trail[t] /\ view'[t] = view[t]
      /\ \A j \in Ids \ {i} : reg'[j] = reg[j]
  BY <1>1
<1>4. \A t \in Slots \ {s} : Phase(t) # "none" => ses[t].id \in Ids \ {i}
  BY <1>1, Own DEF SessionInv, Numbered
<1>5. ASSUME NEW t \in Slots PROVE SlotOK(ses[t], trail[t], view[t], reg[ses[t].id])'
  <2>1. CASE t = s
    BY <1>3, <2>1
  <2>2. CASE t # s /\ Phase(t) # "none"
    BY <1>3, <1>4, <2>2, Own
  <2>3. CASE t # s /\ Phase(t) = "none"
    <3>1. SlotOK(ses[t], trail[t], view[t], reg[ses[t].id])
      BY Own
    <3>2. ses[t].phase \notin Alive \cup Active
      BY <2>3 DEF Phase, Alive, Active, PreAuth, Menus
    <3>. QED
      BY <1>3, <2>3, <3>1, <3>2 DEF SlotOK
  <2>. QED
    BY <2>1, <2>2, <2>3
<1>6. Numbered'
  <2>1. made' = nextID'
    BY DEF SessionInv, Numbered
  <2>2. ASSUME NEW t \in Slots PROVE Phase(t)' # "none" => ses'[t].id \in 1 .. made'
    BY <1>1, <1>3 DEF SessionInv, Numbered, Phase
  <2>3. ASSUME NEW t \in Slots, NEW u \in Slots, t # u, Phase(t)' # "none", Phase(u)' # "none"
        PROVE  ses'[t].id # ses'[u].id
    BY <1>1, <1>3, <2>3 DEF SessionInv, Numbered, Phase
  <2>4. ASSUME NEW j \in Ids, reg'[j].live
        PROVE  reg'[j].conn = j /\ \E t \in Slots : Phase(t)' \in Alive /\ ses'[t].id = j
    <3>1. CASE j = i
      BY <1>3, <2>4, <3>1 DEF Phase
    <3>2. CASE j # i
      <4>1. reg[j].live /\ reg[j].conn = j
        BY <1>3, <2>4, <3>2 DEF SessionInv, Numbered
      <4>2. PICK t \in Slots : Phase(t) \in Alive /\ ses[t].id = j
        BY <4>1 DEF SessionInv, Numbered
      <4>3. t # s
        BY <3>2, <4>2
      <4>. QED
        BY <1>3, <3>2, <4>1, <4>2, <4>3 DEF Phase
    <3>. QED
      BY <3>1, <3>2
  <2>. QED
    BY <2>1, <2>2, <2>3, <2>4 DEF Numbered
<1>. QED
  BY <1>2, <1>5, <1>6 DEF SessionInv

(* The empty records *)
LEMMA Empty ==
  /\ NoSession \in Session /\ NoTrail \in Trail /\ NoView \in View /\ NoEntry \in Entry
  /\ {} \in SUBSET Rights /\ {"ended", "login"} \subseteq Phases
  /\ \A t : PreAuthRegime(t) \in Regimes
<1>1. 0 \in 0 .. MaxConnects
  BY SessionAssumption
<1>2. {"none", "ended", "login"} \subseteq Phases
  BY DEF Phases, Active, PreAuth
<1>3. NoSession \in Session
  BY <1>1, <1>2 DEF NoSession, Session, Regimes
<1>4. NoTrail \in Trail /\ NoView \in View /\ NoEntry \in Entry
  BY <1>1 DEF NoTrail, NoView, NoEntry, Trail, View, Entry
<1>. QED
  BY <1>2, <1>3, <1>4 DEF PreAuthRegime, Regimes

LEMMA InitSession == Init => SessionInv
<1>. SUFFICES ASSUME Init PROVE SessionInv
  OBVIOUS
<1>2. TypeOK
  BY Empty, SessionAssumption DEF Init, TypeOK
<1>3. Numbered
  BY DEF Init, Numbered, Phase, NoSession, NoEntry
<1>4. ASSUME NEW s \in Slots PROVE SlotOK(ses[s], trail[s], view[s], reg[ses[s].id])
  BY DEF Init, SlotOK, NoSession, NoTrail, NoView, Alive, Active, PreAuth, Menus
<1>. QED
  BY <1>2, <1>3, <1>4 DEF SessionInv

-----------------------------------------------------------------------------
(* The steps *)

LEMMA EndStep ==
  ASSUME SessionInv, NEW s \in Slots, Phase(s) \in Active, End(s)
  PROVE  SessionInv'
<1>. DEFINE x == [NoSession EXCEPT !.phase = "ended", !.conn = ses[s].conn,
                                   !.id = ses[s].id, !.open = ses[s].open]
            e == reg[ses[s].id]
<1>1. /\ ses' = [ses EXCEPT ![s] = x] /\ trail' = [trail EXCEPT ![s] = NoTrail]
      /\ view' = [view EXCEPT ![s] = NoView] /\ reg' = [reg EXCEPT ![ses[s].id] = e]
      /\ UNCHANGED <<nextID, made>>
  BY Own DEF End
<1>2. Phase(s) \in Alive /\ Phase(s) # "none"
  BY DEF Alive, Active, PreAuth, Menus
<1>3. /\ ses[s] \in Session /\ e \in Entry /\ e.live
      /\ e.conn = ses[s].conn /\ ses[s].conn = ses[s].id
  BY <1>2, Own DEF SlotOK, Phase
<1>4. x \in Session /\ NoTrail \in Trail /\ NoView \in View
  BY <1>3, Empty DEF Session
<1>5. x.phase = "ended" /\ x.id = ses[s].id /\ x.conn = ses[s].conn /\ x.user = NoUser
  BY DEF NoSession
<1>6. x.phase \in Alive /\ x.phase \notin Active /\ x.phase # "none"
  BY <1>5 DEF Alive, Active, PreAuth, Menus
<1>. HIDE DEF x, e
<1>7. SlotOK(x, NoTrail, NoView, e)
  BY <1>3, <1>5, <1>6 DEF SlotOK, NoTrail, NoView, Active, PreAuth, Menus
<1>. QED
  BY <1>1, <1>2, <1>3, <1>4, <1>5, <1>6, <1>7, OwnStep

LEMMA ReloginStep ==
  ASSUME SessionInv, NEW s \in Slots, Phase(s) \in Menus, NEW login \in Users \cup {NoUser},
         Relogin(s, login)
  PROVE  SessionInv'
<1>. DEFINE x == [ses[s] EXCEPT !.phase = "login", !.user = NoUser, !.rights = {},
                                !.regime = PreAuthRegime(ses[s].trusted)]
            tr == [trail[s] EXCEPT !.login = login, !.actor = NoUser]
            e == [reg[ses[s].id] EXCEPT !.user = NoUser, !.service = NoService]
<1>1. Phase(s) \in Alive /\ Phase(s) # "none" /\ Phase(s) \in Active /\ Phase(s) # "bridge"
  BY DEF Alive, Active, PreAuth, Menus
<1>2. /\ ses[s] \in Session /\ trail[s] \in Trail /\ reg[ses[s].id] \in Entry /\ reg[ses[s].id].live
      /\ reg[ses[s].id].conn = ses[s].conn /\ ses[s].conn = ses[s].id
      /\ SlotOK(ses[s], trail[s], view[s], reg[ses[s].id])
  BY <1>1, Own DEF SlotOK, Phase
<1>3. /\ ses' = [ses EXCEPT ![s] = x] /\ trail' = [trail EXCEPT ![s] = tr]
      /\ view' = [view EXCEPT ![s] = NoView] /\ reg' = [reg EXCEPT ![ses[s].id] = e]
      /\ UNCHANGED <<nextID, made>>
  BY <1>2 DEF Relogin, ClearLogin
<1>4. x \in Session /\ tr \in Trail /\ e \in Entry /\ NoView \in View
  <2>1. x \in Session
    BY <1>2, Empty DEF Session
  <2>2. tr \in Trail
    BY <1>2 DEF Trail
  <2>3. e \in Entry
    BY <1>2 DEF Entry
  <2>. QED
    BY <2>1, <2>2, <2>3, Empty
<1>5. /\ x.phase = "login" /\ x.id = ses[s].id /\ x.conn = ses[s].conn /\ x.user = NoUser
      /\ x.regime = PreAuthRegime(x.trusted)
      /\ tr.open = trail[s].open /\ tr.actor = NoUser /\ tr.bridge = trail[s].bridge
      /\ e.live /\ e.conn = ses[s].conn /\ e.user = NoUser /\ e.service = NoService
  BY <1>2 DEF Session, Trail, Entry
<1>6. trail[s].open /\ trail[s].bridge = NoService
  BY <1>1, <1>2 DEF SlotOK, Phase
<1>7. x.phase \in Alive /\ x.phase # "none"
  BY <1>5 DEF Alive, Active, PreAuth
<1>. HIDE DEF x, tr, e
<1>8. SlotOK(x, tr, NoView, e)
  BY <1>2, <1>5, <1>6 DEF SlotOK, NoView, Active, PreAuth, Menus, Alive
<1>. QED
  BY <1>1, <1>2, <1>3, <1>4, <1>5, <1>7, <1>8, OwnStep

(* A step that moves a session to phase p, with regime g, user u, rights r *)
(* and whatever goes with them; the connection may have gone.              *)
LEMMA MoveStep ==
  ASSUME SessionInv, NEW s \in Slots, Phase(s) \in Active,
         NEW x \in Session, NEW tr \in Trail, NEW v \in View, NEW e \in Entry,
         ses' = [ses EXCEPT ![s] = x], trail' = [trail EXCEPT ![s] = tr],
         view' = [view EXCEPT ![s] = v], reg' = [reg EXCEPT ![ses[s].id] = e],
         UNCHANGED <<nextID, made>>,
         x.phase \in Active, x.id = ses[s].id, x.conn = ses[s].conn,
         e.live, e.conn = reg[ses[s].id].conn,
         e.user = x.user, e.service = tr.bridge,
         x.phase \in PreAuth => x.regime = PreAuthRegime(x.trusted),
         x.phase \in Menus \cup {"gate"} => x.regime = "postAuth",
         x.phase = "bridge" => x.regime = BridgeRegime,
         tr.open = trail[s].open, tr.actor = x.user, x.user # NoUser => tr.login = x.user,
         x.user # NoUser <=> x.phase \in Active \ PreAuth,
         tr.bridge # NoService <=> x.phase = "bridge",
         v.st # "none" <=> x.phase = "detail",
         v.st # "none" => v.conn = v.id /\ v.id \in Ids,
         v.st \in {"armed", "closing"} => v.id # x.id,
         v.st = "closing" => v.target = v.conn
  PROVE  SessionInv'
<1>1. Phase(s) \in Alive /\ Phase(s) # "none" /\ x.phase \in Alive /\ x.phase # "none"
  BY DEF Alive, Active, PreAuth, Menus
<1>2. /\ ses[s].conn = ses[s].id /\ reg[ses[s].id].conn = ses[s].conn /\ trail[s].open
  BY <1>1, Own DEF SlotOK, Phase
<1>3. SlotOK(x, tr, v, e)
  BY <1>1, <1>2 DEF SlotOK
<1>. QED
  BY <1>1, <1>2, <1>3, OwnStep

(* What a running session may rely on                                      *)
LEMMA OfRunning ==
  ASSUME SessionInv, NEW s \in Slots, Phase(s) \in Active
  PROVE  /\ ses[s] \in Session /\ trail[s] \in Trail /\ view[s] \in View
         /\ ses[s].id \in Ids /\ reg[ses[s].id] \in Entry /\ reg[ses[s].id].live
         /\ SlotOK(ses[s], trail[s], view[s], reg[ses[s].id])
         /\ ses[s].phase = Phase(s) /\ Phase(s) \in Alive
         /\ reg[ses[s].id].user = ses[s].user /\ reg[ses[s].id].service = trail[s].bridge
         /\ trail[s].actor = ses[s].user
<1>1. Phase(s) \in Alive /\ Phase(s) # "none" /\ ses[s].phase = Phase(s)
  BY DEF Alive, Active, PreAuth, Menus, Phase
<1>. QED
  BY <1>1, Own DEF SlotOK

(* Between screens that need nothing but a phase and a view                *)
LEMMA ScreenStep ==
  ASSUME SessionInv, NEW s \in Slots, Phase(s) \in Menus \cup {"gate"}, NEW p \in Menus,
         NEW r \in SUBSET Rights, NEW v \in View,
         ses' = [ses EXCEPT ![s] = [ses[s] EXCEPT !.phase = p, !.rights = r]],
         view' = [view EXCEPT ![s] = v], UNCHANGED <<trail, reg, nextID, made>>,
         v.st # "none" <=> p = "detail",
         v.st # "none" => v.conn = v.id /\ v.id \in Ids,
         v.st \in {"armed", "closing"} => v.id # ses[s].id,
         v.st = "closing" => v.target = v.conn
  PROVE  SessionInv'
<1>. DEFINE x == [ses[s] EXCEPT !.phase = p, !.rights = r]
<1>1. Phase(s) \in Active /\ p \in Active /\ p # "bridge" /\ p \notin PreAuth /\ p \in Phases
  BY DEF Active, PreAuth, Menus, Phases
<1>2. /\ ses[s] \in Session /\ trail[s] \in Trail
      /\ reg[ses[s].id] \in Entry /\ reg[ses[s].id].live
      /\ SlotOK(ses[s], trail[s], view[s], reg[ses[s].id]) /\ ses[s].phase = Phase(s)
      /\ reg[ses[s].id].user = ses[s].user /\ reg[ses[s].id].service = trail[s].bridge
  BY <1>1, OfRunning
<1>3. /\ trail' = [trail EXCEPT ![s] = trail[s]]
      /\ reg' = [reg EXCEPT ![ses[s].id] = reg[ses[s].id]]
  BY Own
<1>4. x \in Session /\ x.phase = p /\ x.id = ses[s].id /\ x.conn = ses[s].conn
      /\ x.user = ses[s].user /\ x.regime = ses[s].regime /\ x.trusted = ses[s].trusted
  BY <1>1, <1>2 DEF Session
<1>5. /\ Phase(s) \in Active \ PreAuth /\ Phase(s) # "bridge"
  BY DEF Active, PreAuth, Menus
<1>6. /\ ses[s].regime = "postAuth" /\ ses[s].user # NoUser
      /\ trail[s].login = ses[s].user /\ trail[s].bridge = NoService /\ trail[s].actor = ses[s].user
  BY <1>2, <1>5 DEF SlotOK
<1>. DEFINE e == reg[ses[s].id]
            tr == trail[s]
<1>7. /\ ses' = [ses EXCEPT ![s] = x] /\ trail' = [trail EXCEPT ![s] = tr]
      /\ reg' = [reg EXCEPT ![ses[s].id] = e] /\ tr \in Trail /\ e \in Entry
  BY <1>2, <1>3
<1>8. /\ x.phase \in Active /\ x.phase # "bridge" /\ x.phase \notin PreAuth
      /\ x.regime = "postAuth" /\ x.user # NoUser
  BY <1>1, <1>4, <1>6
<1>9. /\ e.live /\ e.conn = reg[ses[s].id].conn /\ e.user = x.user /\ e.service = tr.bridge
      /\ tr.open = trail[s].open /\ tr.actor = x.user /\ tr.login = x.user /\ tr.bridge = NoService
  BY <1>2, <1>4, <1>6
<1>10. v.st # "none" <=> x.phase = "detail"
  BY <1>4
<1>. HIDE DEF x, e, tr
<1>. QED
  BY <1>1, <1>4, <1>7, <1>8, <1>9, <1>10, MoveStep

LEMMA MenuStep ==
  ASSUME SessionInv, NEW s \in Slots,
         \/ GateChallenge(s) \/ ToNews(s) \/ ToMenu(s) \/ \E p \in Rights : MenuFlow(s, p)
         \/ FlowBack(s) \/ (\E i \in Ids : SelectSession(s, i)) \/ ArmDisconnect(s) \/ Disarm(s)
         \/ DisconnectLookup(s) \/ DetailBack(s)
  PROVE  SessionInv'
<1>1. Phase(s) \in Menus \cup {"gate"} /\ Phase(s) \in Active
  BY DEF GateChallenge, ToNews, ToMenu, MenuFlow, FlowBack, SelectSession, ArmDisconnect, Disarm,
         DisconnectLookup, DetailBack, Menus, Rights, Active
<1>2. /\ ses[s] \in Session /\ view[s] \in View /\ ses[s].rights \in SUBSET Rights
      /\ SlotOK(ses[s], trail[s], view[s], reg[ses[s].id]) /\ ses[s].phase = Phase(s)
      /\ ses = [ses EXCEPT ![s] = ses[s]] /\ view = [view EXCEPT ![s] = view[s]]
      /\ ses \in [Slots -> Session] /\ view \in [Slots -> View] /\ reg \in [Ids -> Entry]
  BY <1>1, OfRunning, Own DEF Session, SessionInv, TypeOK
<1>3. ASSUME NEW p \in Menus PROVE
        [ses EXCEPT ![s].phase = p] = [ses EXCEPT ![s] = [ses[s] EXCEPT !.phase = p, !.rights = ses[s].rights]]
  <2>1. [ses[s] EXCEPT !.phase = p] = [ses[s] EXCEPT !.phase = p, !.rights = ses[s].rights]
    BY <1>2 DEF Session
  <2>. QED
    BY <2>1
<1>4. /\ view[s].st # "none" <=> Phase(s) = "detail"
      /\ view[s].st # "none" => view[s].conn = view[s].id /\ view[s].id \in Ids
  BY <1>2 DEF SlotOK
<1>5. CASE GateChallenge(s) \/ ToNews(s) \/ (\E p \in Rights : MenuFlow(s, p)) \/ FlowBack(s)
  <2>1. PICK p \in Menus \ {"detail"} : Goto(s, p) /\ UNCHANGED <<trail, view, reg, nextID, made>>
    BY <1>5 DEF GateChallenge, ToNews, MenuFlow, FlowBack, Menus, Rights
  <2>2. view[s].st = "none"
    BY <1>4, <1>5 DEF GateChallenge, ToNews, MenuFlow, FlowBack, Rights
  <2>3. ses' = [ses EXCEPT ![s] = [ses[s] EXCEPT !.phase = p, !.rights = ses[s].rights]]
    BY <1>3, <2>1 DEF Goto
  <2>4. view' = [view EXCEPT ![s] = view[s]] /\ UNCHANGED <<trail, reg, nextID, made>> /\ p # "detail"
    BY <1>2, <2>1
  <2>. QED
    BY <1>1, <1>2, <2>2, <2>3, <2>4, ScreenStep
<1>6. CASE ToMenu(s)
  <2>1. PICK r \in SUBSET Rights : ses' = [ses EXCEPT ![s] = [ses[s] EXCEPT !.phase = "menu", !.rights = r]]
    BY <1>6 DEF ToMenu
  <2>2. view[s].st = "none" /\ view' = [view EXCEPT ![s] = view[s]] /\ UNCHANGED <<trail, reg, nextID, made>>
    BY <1>2, <1>4, <1>6 DEF ToMenu
  <2>3. "menu" \in Menus
    BY DEF Menus
  <2>. QED
    BY <1>1, <1>2, <2>1, <2>2, <2>3, ScreenStep
<1>7. CASE \E i \in Ids : SelectSession(s, i)
  <2>1. PICK i \in Ids : SelectSession(s, i)
    BY <1>7
  <2>. DEFINE v == [st |-> "idle", id |-> i, conn |-> reg[i].conn, target |-> 0]
  <2>2. /\ Goto(s, "detail") /\ view' = [view EXCEPT ![s] = v] /\ reg[i].live
        /\ UNCHANGED <<trail, reg, nextID, made>>
    BY <2>1 DEF SelectSession
  <2>3. reg[i].conn = i /\ i \in 0 .. MaxConnects /\ 0 \in 0 .. MaxConnects
    BY <2>2, SessionAssumption DEF SessionInv, Numbered, Ids
  <2>4. v \in View /\ v.st = "idle" /\ v.conn = v.id /\ v.id \in Ids
    BY <2>3 DEF View
  <2>5. "detail" \in Menus
    BY DEF Menus
  <2>6. ses' = [ses EXCEPT ![s] = [ses[s] EXCEPT !.phase = "detail", !.rights = ses[s].rights]]
    BY <1>3, <2>2, <2>5 DEF Goto
  <2>. HIDE DEF v
  <2>. QED
    BY <1>1, <1>2, <2>2, <2>4, <2>5, <2>6, ScreenStep
<1>8. CASE DetailBack(s)
  <2>1. Goto(s, "admin") /\ view' = [view EXCEPT ![s] = NoView] /\ UNCHANGED <<trail, reg, nextID, made>>
    BY <1>8 DEF DetailBack
  <2>2. "admin" \in Menus /\ NoView.st = "none" /\ NoView \in View
    BY Empty DEF Menus, NoView
  <2>3. ses' = [ses EXCEPT ![s] = [ses[s] EXCEPT !.phase = "admin", !.rights = ses[s].rights]]
    BY <1>3, <2>1, <2>2 DEF Goto
  <2>. QED
    BY <1>1, <1>2, <2>1, <2>2, <2>3, ScreenStep
<1>9. CASE ArmDisconnect(s) \/ Disarm(s) \/ DisconnectLookup(s)
  <2>. DEFINE v == view'[s]
  <2>1. /\ Phase(s) = "detail" /\ view[s].conn = view[s].id /\ view[s].id \in Ids
        /\ reg[view[s].id].live => reg[view[s].id].conn = view[s].id
    BY <1>4, <1>9 DEF ArmDisconnect, Disarm, DisconnectLookup, SessionInv, Numbered
  <2>2. view[s].st = "armed" => view[s].id # ses[s].id
    BY <1>2 DEF SlotOK
  <2>3. /\ v \in View /\ v.st # "none" /\ v.conn = v.id /\ v.id \in Ids
        /\ v.st \in {"armed", "closing"} => v.id # ses[s].id
        /\ v.st = "closing" => v.target = v.conn
        /\ view' = [view EXCEPT ![s] = v]
    <3>1. CASE ArmDisconnect(s)
      BY <1>2, <2>1, <3>1 DEF ArmDisconnect, View
    <3>2. CASE Disarm(s)
      BY <1>2, <2>1, <3>2 DEF Disarm, View
    <3>3. CASE DisconnectLookup(s) /\ reg[view[s].id].live
      <4>1. view' = [view EXCEPT ![s] = [view[s] EXCEPT !.st = "closing", !.target = reg[view[s].id].conn]]
        BY <3>3 DEF DisconnectLookup
      <4>2. reg[view[s].id].conn \in 0 .. MaxConnects /\ view[s].st = "armed"
        BY <1>2, <2>1, <3>3 DEF Entry, DisconnectLookup
      <4>. QED
        BY <1>2, <2>1, <2>2, <3>3, <4>1, <4>2 DEF View
    <3>4. CASE DisconnectLookup(s) /\ ~reg[view[s].id].live
      <4>1. view' = [view EXCEPT ![s] = [view[s] EXCEPT !.st = "acted"]]
        BY <3>4 DEF DisconnectLookup
      <4>. QED
        BY <1>2, <2>1, <4>1 DEF View
    <3>. QED
      BY <1>9, <3>1, <3>2, <3>3, <3>4
  <2>4. UNCHANGED <<ses, trail, reg, nextID, made>>
    BY <1>9 DEF ArmDisconnect, Disarm, DisconnectLookup
  <2>5. "detail" \in Menus
    BY DEF Menus
  <2>6. ses' = [ses EXCEPT ![s] = [ses[s] EXCEPT !.phase = "detail", !.rights = ses[s].rights]]
    <3>1. [ses[s] EXCEPT !.phase = "detail", !.rights = ses[s].rights] = ses[s]
      BY <1>2, <2>1 DEF Session
    <3>. QED
      BY <1>2, <2>4, <3>1
  <2>. HIDE DEF v
  <2>. QED
    BY <1>1, <1>2, <2>3, <2>4, <2>5, <2>6, ScreenStep
<1>. QED
  BY <1>5, <1>6, <1>7, <1>8, <1>9

(* The other steps that stay at a screen or change to one                  *)
LEMMA NegotiatedStep ==
  ASSUME SessionInv, NEW s \in Slots, Negotiated(s)
  PROVE  SessionInv'
<1>. DEFINE x == [ses[s] EXCEPT !.phase = "login"]
            e == [reg[ses[s].id] EXCEPT !.user = NoUser, !.service = NoService]
            tr == trail[s]
            v == view[s]
<1>1. Phase(s) \in Active /\ Phase(s) \in PreAuth /\ Phase(s) # "detail" /\ Phase(s) # "bridge"
  BY DEF Negotiated, Active, PreAuth
<1>2. /\ ses[s] \in Session /\ tr \in Trail /\ v \in View
      /\ reg[ses[s].id] \in Entry /\ reg[ses[s].id].live
      /\ SlotOK(ses[s], trail[s], view[s], reg[ses[s].id]) /\ ses[s].phase = Phase(s)
  BY <1>1, OfRunning
<1>3. /\ ses' = [ses EXCEPT ![s] = x] /\ trail' = [trail EXCEPT ![s] = tr]
      /\ view' = [view EXCEPT ![s] = v] /\ reg' = [reg EXCEPT ![ses[s].id] = e]
      /\ UNCHANGED <<nextID, made>>
  BY <1>2, Own DEF Negotiated, ClearLogin, Goto
<1>4. x \in Session /\ e \in Entry
  BY <1>2, Empty DEF Session, Entry
<1>5. /\ x.phase = "login" /\ x.id = ses[s].id /\ x.conn = ses[s].conn /\ x.user = ses[s].user
      /\ x.regime = ses[s].regime /\ x.trusted = ses[s].trusted
      /\ e.live /\ e.conn = reg[ses[s].id].conn /\ e.user = NoUser /\ e.service = NoService
  BY <1>2 DEF Session, Entry
<1>6. /\ ses[s].regime = PreAuthRegime(ses[s].trusted) /\ ses[s].user = NoUser
      /\ tr.actor = NoUser /\ tr.bridge = NoService /\ v.st = "none"
  BY <1>1, <1>2 DEF SlotOK
<1>7. "login" \in Active /\ "login" \in PreAuth /\ "login" \notin Menus \cup {"gate"}
  BY DEF Active, PreAuth, Menus
<1>8. tr.open = trail[s].open
  OBVIOUS
<1>. HIDE DEF x, e, tr, v
<1>. QED
  BY <1>1, <1>2, <1>3, <1>4, <1>5, <1>6, <1>7, <1>8, MoveStep

LEMMA LoginStep ==
  ASSUME SessionInv, NEW s \in Slots, NEW u \in Users, LoginOk(s, u)
  PROVE  SessionInv'
<1>. DEFINE x == [ses[s] EXCEPT !.phase = "gate", !.user = u, !.regime = "postAuth"]
            e == [reg[ses[s].id] EXCEPT !.user = u]
            tr == [trail[s] EXCEPT !.login = u, !.actor = u]
            v == view[s]
<1>1. Phase(s) \in Active /\ Phase(s) \in PreAuth /\ Phase(s) # "detail" /\ Phase(s) # "bridge"
      /\ u # NoUser
  BY SessionAssumption DEF LoginOk, Active, PreAuth
<1>2. /\ ses[s] \in Session /\ trail[s] \in Trail /\ v \in View
      /\ reg[ses[s].id] \in Entry /\ reg[ses[s].id].live
      /\ SlotOK(ses[s], trail[s], view[s], reg[ses[s].id]) /\ ses[s].phase = Phase(s)
      /\ reg[ses[s].id].service = trail[s].bridge
  BY <1>1, OfRunning
<1>3. /\ ses' = [ses EXCEPT ![s] = x] /\ trail' = [trail EXCEPT ![s] = tr]
      /\ view' = [view EXCEPT ![s] = v] /\ reg' = [reg EXCEPT ![ses[s].id] = e]
      /\ UNCHANGED <<nextID, made>>
  BY <1>2, Own DEF LoginOk, SetLogin
<1>4. /\ x \in Session /\ e \in Entry /\ tr \in Trail
  BY <1>2 DEF Session, Entry, Trail, Phases, Active, Regimes
<1>5. /\ x.phase = "gate" /\ x.id = ses[s].id /\ x.conn = ses[s].conn /\ x.user = u
      /\ x.regime = "postAuth"
      /\ e.live /\ e.conn = reg[ses[s].id].conn /\ e.user = u /\ e.service = trail[s].bridge
      /\ tr.open = trail[s].open /\ tr.actor = u /\ tr.login = u /\ tr.bridge = trail[s].bridge
  BY <1>2 DEF Session, Entry, Trail
<1>6. trail[s].bridge = NoService /\ v.st = "none"
  BY <1>1, <1>2 DEF SlotOK
<1>7. "gate" \in Active \ PreAuth
  BY DEF Active, PreAuth
<1>. HIDE DEF x, e, tr, v
<1>. QED
  BY <1>1, <1>2, <1>3, <1>4, <1>5, <1>6, <1>7, MoveStep

LEMMA BridgeStartStep ==
  ASSUME SessionInv, NEW s \in Slots, NEW w \in Services, BridgeStart(s, w)
  PROVE  SessionInv'
<1>. DEFINE x == [ses[s] EXCEPT !.phase = "bridge", !.regime = BridgeRegime]
            e == [reg[ses[s].id] EXCEPT !.service = w]
            tr == [trail[s] EXCEPT !.bridge = w]
            v == view[s]
<1>1. /\ Phase(s) \in Active \ PreAuth /\ Phase(s) # "detail" /\ w # NoService
  BY SessionAssumption DEF BridgeStart, Active, PreAuth, Menus
<1>2. /\ ses[s] \in Session /\ trail[s] \in Trail /\ v \in View
      /\ reg[ses[s].id] \in Entry /\ reg[ses[s].id].live
      /\ SlotOK(ses[s], trail[s], view[s], reg[ses[s].id]) /\ ses[s].phase = Phase(s)
      /\ reg[ses[s].id].user = ses[s].user
  BY <1>1, OfRunning
<1>3. /\ ses' = [ses EXCEPT ![s] = x] /\ trail' = [trail EXCEPT ![s] = tr]
      /\ view' = [view EXCEPT ![s] = v] /\ reg' = [reg EXCEPT ![ses[s].id] = e]
      /\ UNCHANGED <<nextID, made>>
  BY <1>2, Own DEF BridgeStart, SetService
<1>4. x \in Session /\ e \in Entry /\ tr \in Trail
  BY <1>2 DEF Session, Entry, Trail, Phases, Active, Regimes, BridgeRegime
<1>5. /\ x.phase = "bridge" /\ x.id = ses[s].id /\ x.conn = ses[s].conn /\ x.user = ses[s].user
      /\ x.regime = BridgeRegime
      /\ e.live /\ e.conn = reg[ses[s].id].conn /\ e.user = ses[s].user /\ e.service = w
      /\ tr.open = trail[s].open /\ tr.actor = trail[s].actor /\ tr.login = trail[s].login
      /\ tr.bridge = w
  BY <1>2 DEF Session, Entry, Trail
<1>6. /\ ses[s].user # NoUser /\ trail[s].actor = ses[s].user /\ trail[s].login = ses[s].user
      /\ v.st = "none"
  BY <1>1, <1>2 DEF SlotOK
<1>7. "bridge" \in Active \ PreAuth /\ "bridge" \notin Menus \cup {"gate"}
  BY DEF Active, PreAuth, Menus
<1>. HIDE DEF x, e, tr, v
<1>. QED
  BY <1>1, <1>2, <1>3, <1>4, <1>5, <1>6, <1>7, MoveStep

LEMMA BridgeReturnStep ==
  ASSUME SessionInv, NEW s \in Slots, BridgeReturn(s)
  PROVE  SessionInv'
<1>. DEFINE x == [ses[s] EXCEPT !.phase = "menu", !.regime = "postAuth"]
            e == [reg[ses[s].id] EXCEPT !.service = NoService]
            tr == [trail[s] EXCEPT !.bridge = NoService]
            v == view[s]
<1>1. Phase(s) \in Active \ PreAuth /\ Phase(s) # "detail"
  BY DEF BridgeReturn, Active, PreAuth, Menus
<1>2. /\ ses[s] \in Session /\ trail[s] \in Trail /\ v \in View
      /\ reg[ses[s].id] \in Entry /\ reg[ses[s].id].live
      /\ SlotOK(ses[s], trail[s], view[s], reg[ses[s].id]) /\ ses[s].phase = Phase(s)
      /\ reg[ses[s].id].user = ses[s].user
  BY <1>1, OfRunning
<1>3. /\ ses' = [ses EXCEPT ![s] = x] /\ trail' = [trail EXCEPT ![s] = tr]
      /\ view' = [view EXCEPT ![s] = v] /\ reg' = [reg EXCEPT ![ses[s].id] = e]
      /\ UNCHANGED <<nextID, made>>
  BY <1>2, Own DEF BridgeReturn, SetService
<1>4. x \in Session /\ e \in Entry /\ tr \in Trail
  BY <1>2 DEF Session, Entry, Trail, Phases, Active, Menus, Regimes
<1>5. /\ x.phase = "menu" /\ x.id = ses[s].id /\ x.conn = ses[s].conn /\ x.user = ses[s].user
      /\ x.regime = "postAuth"
      /\ e.live /\ e.conn = reg[ses[s].id].conn /\ e.user = ses[s].user /\ e.service = NoService
      /\ tr.open = trail[s].open /\ tr.actor = trail[s].actor /\ tr.login = trail[s].login
      /\ tr.bridge = NoService
  BY <1>2 DEF Session, Entry, Trail
<1>6. /\ ses[s].user # NoUser /\ trail[s].actor = ses[s].user /\ trail[s].login = ses[s].user
      /\ v.st = "none"
  BY <1>1, <1>2 DEF SlotOK
<1>7. "menu" \in Active \ PreAuth
  BY DEF Active, PreAuth, Menus
<1>. HIDE DEF x, e, tr, v
<1>. QED
  BY <1>1, <1>2, <1>3, <1>4, <1>5, <1>6, <1>7, MoveStep

LEMMA DeregisterStep ==
  ASSUME SessionInv, NEW s \in Slots, Deregister(s)
  PROVE  SessionInv'
<1>. DEFINE x == [ses[s] EXCEPT !.phase = "left"]
            tr == trail[s]
            v == view[s]
<1>1. Phase(s) \in Alive /\ Phase(s) # "none" /\ Phase(s) = "ended"
  BY DEF Deregister, Alive
<1>2. /\ ses[s] \in Session /\ tr \in Trail /\ v \in View
      /\ SlotOK(ses[s], tr, v, reg[ses[s].id]) /\ ses[s].phase = "ended"
  BY <1>1, Own DEF Phase
<1>3. /\ ses' = [ses EXCEPT ![s] = x] /\ trail' = [trail EXCEPT ![s] = tr]
      /\ view' = [view EXCEPT ![s] = v] /\ reg' = [reg EXCEPT ![ses[s].id] = NoEntry]
      /\ UNCHANGED <<nextID, made>>
  BY <1>2, Own DEF Deregister, Goto
<1>4. x \in Session /\ NoEntry \in Entry
  BY <1>2, Empty DEF Session, Phases
<1>5. /\ x.phase = "left" /\ x.id = ses[s].id /\ x.conn = ses[s].conn /\ x.user = ses[s].user
      /\ ~NoEntry.live
  BY <1>2 DEF Session, NoEntry
<1>6. {"left", "ended"} \cap Active = {} /\ "left" \notin Alive
  BY DEF Alive, Active, PreAuth, Menus
<1>7. {"left", "ended"} \cap (PreAuth \cup Menus \cup {"gate", "bridge", "detail", "none"}) = {}
  BY DEF PreAuth, Menus
<1>8. SlotOK(x, tr, v, NoEntry)
  <2>. HIDE DEF x, tr, v
  <2>. QED
    BY <1>2, <1>5, <1>6, <1>7 DEF SlotOK
<1>9. x.phase # "none"
  BY <1>5
<1>. HIDE DEF x, tr, v
<1>. QED
  BY <1>1, <1>2, <1>3, <1>4, <1>5, <1>6, <1>8, <1>9, OwnStep

(* A step that numbers nobody anew: what is true of every session apart    *)
(* stays true of it, and so do the numbers.                                *)
LEMMA OpenStep ==
  ASSUME SessionInv, ses' \in [Slots -> Session], view' \in [Slots -> View],
         \A t \in Slots :
           /\ ses'[t].phase = ses[t].phase /\ ses'[t].id = ses[t].id
           /\ ses'[t].conn = ses[t].conn /\ ses'[t].user = ses[t].user
           /\ ses'[t].regime = ses[t].regime /\ ses'[t].trusted = ses[t].trusted,
         \A t \in Slots : SlotOK(ses[t], trail[t], view'[t], reg[ses[t].id]),
         UNCHANGED <<trail, reg, nextID, made>>
  PROVE  SessionInv'
<1>1. TypeOK'
  BY DEF SessionInv, TypeOK
<1>2. Numbered'
  BY DEF SessionInv, Numbered, Phase
<1>3. ASSUME NEW t \in Slots PROVE SlotOK(ses[t], trail[t], view[t], reg[ses[t].id])'
  <2>1. SlotOK(ses[t], trail[t], view'[t], reg[ses[t].id])
    OBVIOUS
  <2>2. /\ ses'[t].phase = ses[t].phase /\ ses'[t].id = ses[t].id
        /\ ses'[t].conn = ses[t].conn /\ ses'[t].user = ses[t].user
        /\ ses'[t].regime = ses[t].regime /\ ses'[t].trusted = ses[t].trusted
    OBVIOUS
  <2>3. trail'[t] = trail[t] /\ reg'[ses'[t].id] = reg[ses[t].id]
    BY <2>2
  <2>. QED
    BY <2>1, <2>2, <2>3 DEF SlotOK
<1>. QED
  BY <1>1, <1>2, <1>3 DEF SessionInv

LEMMA DropStep ==
  ASSUME SessionInv, NEW s \in Slots, PeerDrops(s)
  PROVE  SessionInv'
<1>1. ses \in [Slots -> Session] /\ view \in [Slots -> View] /\ ses' = [ses EXCEPT ![s].open = FALSE]
      /\ UNCHANGED <<trail, view, reg, nextID, made>>
  BY DEF PeerDrops, SessionInv, TypeOK
<1>2. ses' \in [Slots -> Session] /\ view' \in [Slots -> View]
  BY <1>1 DEF Session
<1>3. ASSUME NEW t \in Slots
      PROVE  /\ ses'[t].phase = ses[t].phase /\ ses'[t].id = ses[t].id
             /\ ses'[t].conn = ses[t].conn /\ ses'[t].user = ses[t].user
             /\ ses'[t].regime = ses[t].regime /\ ses'[t].trusted = ses[t].trusted
  BY <1>1 DEF Session
<1>4. ASSUME NEW t \in Slots PROVE SlotOK(ses[t], trail[t], view'[t], reg[ses[t].id])
  BY <1>1, Own
<1>. QED
  BY <1>1, <1>2, <1>3, <1>4, OpenStep

LEMMA CloseStep ==
  ASSUME SessionInv, NEW s \in Slots, DisconnectClose(s)
  PROVE  SessionInv'
<1>1. /\ ses \in [Slots -> Session] /\ view \in [Slots -> View] /\ view[s].st = "closing"
      /\ ses' = [t \in Slots |-> IF ses[t].conn = view[s].target
                                 THEN [ses[t] EXCEPT !.open = FALSE] ELSE ses[t]]
      /\ view' = [view EXCEPT ![s].st = "acted"]
      /\ UNCHANGED <<trail, reg, nextID, made>>
  BY DEF DisconnectClose, SessionInv, TypeOK
<1>2. ses' \in [Slots -> Session] /\ view' \in [Slots -> View]
  <2>1. ASSUME NEW t \in Slots PROVE ses'[t] \in Session
    BY <1>1 DEF Session
  <2>2. ses' \in [Slots -> Session]
    BY <1>1, <2>1
  <2>3. view' \in [Slots -> View]
    BY <1>1 DEF View
  <2>. QED
    BY <2>2, <2>3
<1>3. ASSUME NEW t \in Slots
      PROVE  /\ ses'[t].phase = ses[t].phase /\ ses'[t].id = ses[t].id
             /\ ses'[t].conn = ses[t].conn /\ ses'[t].user = ses[t].user
             /\ ses'[t].regime = ses[t].regime /\ ses'[t].trusted = ses[t].trusted
  BY <1>1 DEF Session
<1>4. ASSUME NEW t \in Slots PROVE SlotOK(ses[t], trail[t], view'[t], reg[ses[t].id])
  <2>1. SlotOK(ses[t], trail[t], view[t], reg[ses[t].id]) /\ view[t] \in View
    BY Own
  <2>2. CASE t # s
    BY <1>1, <2>1, <2>2
  <2>3. CASE t = s
    <3>1. /\ view'[t].st = "acted" /\ view'[t].id = view[t].id /\ view'[t].conn = view[t].conn
          /\ view[t].st = "closing"
      BY <1>1, <2>1, <2>3 DEF View
    <3>. QED
      BY <2>1, <3>1 DEF SlotOK
  <2>. QED
    BY <2>2, <2>3
<1>. QED
  BY <1>1, <1>2, <1>3, <1>4, OpenStep

LEMMA CloseConnStep ==
  ASSUME SessionInv, NEW s \in Slots, CloseConn(s)
  PROVE  SessionInv'
<1>1. /\ ses \in [Slots -> Session] /\ ses[s].phase = "left" /\ ses' = [ses EXCEPT ![s] = NoSession]
      /\ UNCHANGED <<trail, view, reg, nextID, made>>
  BY DEF CloseConn, SessionInv, TypeOK, Phase
<1>2. TypeOK'
  BY <1>1, Empty DEF SessionInv, TypeOK
<1>3. /\ NoSession.phase = "none" /\ NoSession.user = NoUser /\ "left" \notin Alive \cup Active
      /\ "left" \notin {"none", "bridge", "detail"} /\ "none" \notin Alive \cup Active
      /\ "none" \notin PreAuth \cup Menus \cup {"gate", "bridge", "detail"}
  BY DEF NoSession, Alive, Active, PreAuth, Menus
<1>4. ASSUME NEW t \in Slots PROVE SlotOK(ses[t], trail[t], view[t], reg[ses[t].id])'
  <2>1. SlotOK(ses[t], trail[t], view[t], reg[ses[t].id])
    BY Own
  <2>2. CASE t # s
    BY <1>1, <2>1, <2>2
  <2>3. CASE t = s
    <3>1. ses'[t] = NoSession /\ ses[t].phase = "left" /\ trail'[t] = trail[t] /\ view'[t] = view[t]
      BY <1>1, <2>3
    <3>2. ~trail[t].open /\ trail[t].actor = ses[t].user /\ ses[t].user = NoUser
          /\ trail[t].bridge = NoService /\ view[t].st = "none"
      BY <1>3, <2>1, <3>1 DEF SlotOK
    <3>. QED
      BY <1>3, <3>1, <3>2 DEF SlotOK
  <2>. QED
    BY <2>2, <2>3
<1>5. Numbered'
  <2>1. ASSUME NEW t \in Slots, Phase(t)' # "none" PROVE t # s /\ ses'[t] = ses[t]
    BY <1>1, <1>3, <2>1 DEF Phase
  <2>2. ASSUME NEW t \in Slots, Phase(t) \in Alive PROVE t # s /\ ses'[t] = ses[t]
    BY <1>1, <1>3, <2>2 DEF Phase
  <2>3. ASSUME NEW j \in Ids, reg'[j].live
        PROVE  reg'[j].conn = j /\ \E t \in Slots : Phase(t)' \in Alive /\ ses'[t].id = j
    <3>1. reg[j].live /\ reg[j].conn = j
      BY <1>1, <2>3 DEF SessionInv, Numbered
    <3>2. PICK t \in Slots : Phase(t) \in Alive /\ ses[t].id = j
      BY <3>1 DEF SessionInv, Numbered
    <3>. QED
      BY <1>1, <2>2, <3>1, <3>2 DEF Phase
  <2>4. ASSUME NEW t \in Slots PROVE Phase(t)' # "none" => ses'[t].id \in 1 .. made'
    BY <1>1, <2>1 DEF SessionInv, Numbered, Phase
  <2>5. ASSUME NEW t \in Slots, NEW u \in Slots, t # u, Phase(t)' # "none", Phase(u)' # "none"
        PROVE  ses'[t].id # ses'[u].id
    BY <1>1, <2>1, <2>5 DEF SessionInv, Numbered, Phase
  <2>6. made' = nextID'
    BY <1>1 DEF SessionInv, Numbered
  <2>. QED
    BY <2>3, <2>4, <2>5, <2>6 DEF Numbered
<1>. QED
  BY <1>2, <1>4, <1>5 DEF SessionInv

(* A new session's number is larger than every number given out before.    *)
LEMMA ConnectStep ==
  ASSUME SessionInv, NEW s \in Slots, Connect(s)
  PROVE  SessionInv'
<1>. DEFINE n == made + 1
            tr == [NoTrail EXCEPT !.open = TRUE]
            e == [live |-> TRUE, conn |-> n, user |-> NoUser, service |-> NoService]
            new(t) == [phase |-> "negotiate", conn |-> n, id |-> n, open |-> TRUE, trusted |-> t,
                       regime |-> PreAuthRegime(t), user |-> NoUser, rights |-> {}]
<1>1. /\ made' = n /\ nextID' = n /\ made < MaxConnects /\ made \in Nat /\ MaxConnects \in Nat
      /\ made = nextID /\ nextID' = nextID + 1
  BY SessionAssumption DEF Connect, NewID, SessionInv, Numbered, TypeOK
<1>2. n \in Ids /\ n \in 0 .. MaxConnects /\ n \notin 1 .. made /\ 1 .. made \subseteq 1 .. n
  BY <1>1 DEF Ids
<1>3. PICK p \in BOOLEAN : ses' = [ses EXCEPT ![s] = new(p)]
  BY <1>1 DEF Connect
<1>. DEFINE x == new(p)
<1>4. /\ ses' = [ses EXCEPT ![s] = x] /\ reg' = [reg EXCEPT ![n] = e]
      /\ trail' = [trail EXCEPT ![s] = tr] /\ view' = view /\ ses[s].phase = "none"
      /\ ses \in [Slots -> Session] /\ trail \in [Slots -> Trail] /\ view \in [Slots -> View]
      /\ reg \in [Ids -> Entry]
  BY <1>1, <1>3 DEF Connect, SessionInv, TypeOK, Phase
<1>5. x \in Session /\ tr \in Trail /\ e \in Entry
  <2>1. "negotiate" \in Phases /\ PreAuthRegime(p) \in Regimes
    BY Empty DEF Phases, Active, PreAuth
  <2>2. x \in Session
    BY <1>2, <2>1 DEF Session
  <2>3. tr \in Trail
    BY Empty DEF Trail
  <2>4. e \in Entry
    BY <1>2 DEF Entry
  <2>. QED
    BY <2>2, <2>3, <2>4
<1>6. /\ x.phase = "negotiate" /\ x.id = n /\ x.conn = n /\ x.user = NoUser
      /\ x.regime = PreAuthRegime(x.trusted)
      /\ e.live /\ e.conn = n /\ e.user = NoUser /\ e.service = NoService
      /\ tr.open /\ tr.actor = NoUser /\ tr.bridge = NoService
  BY DEF NoTrail
<1>7. /\ "negotiate" \in Active \cap PreAuth \cap Alive /\ "none" \notin Alive \cup Active
      /\ "negotiate" \notin Menus \cup {"gate", "bridge", "detail", "none"}
      /\ "none" \notin PreAuth \cup Menus \cup {"gate", "bridge", "detail"}
  BY DEF Active, PreAuth, Alive, Menus
<1>. HIDE DEF x, tr, e
<1>8. TypeOK'
  BY <1>1, <1>2, <1>4, <1>5 DEF TypeOK
<1>9. /\ ses'[s] = x /\ trail'[s] = tr /\ reg'[n] = e
      /\ \A t \in Slots \ {s} : ses'[t] = ses[t] /\ trail'[t] = trail[t]
      /\ \A j \in Ids \ {n} : reg'[j] = reg[j]
  BY <1>2, <1>4
<1>10. \A t \in Slots : ses[t].phase # "none" => ses[t].id \in Ids \ {n}
  BY <1>1, <1>2, Own DEF SessionInv, Numbered, Phase
<1>11. ASSUME NEW t \in Slots PROVE SlotOK(ses[t], trail[t], view[t], reg[ses[t].id])'
  <2>1. SlotOK(ses[t], trail[t], view[t], reg[ses[t].id])
    BY Own
  <2>2. CASE t = s
    <3>1. view'[s] = view[s] /\ view[s].st = "none"
      BY <1>4, <1>7, <2>1, <2>2 DEF SlotOK
    <3>2. ses'[t] = x /\ trail'[t] = tr /\ reg'[ses'[t].id] = e
      BY <1>6, <1>9, <2>2
    <3>. QED
      BY <1>6, <1>7, <2>2, <3>1, <3>2 DEF SlotOK
  <2>3. CASE t # s /\ ses[t].phase # "none"
    BY <1>4, <1>9, <1>10, <2>1, <2>3
  <2>4. CASE t # s /\ ses[t].phase = "none"
    BY <1>4, <1>7, <1>9, <2>1, <2>4 DEF SlotOK
  <2>. QED
    BY <2>2, <2>3, <2>4
<1>12. Numbered'
  <2>1. ASSUME NEW t \in Slots PROVE Phase(t)' # "none" => ses'[t].id \in 1 .. made'
    <3>1. CASE t = s
      BY <1>1, <1>6, <1>9, <3>1
    <3>2. CASE t # s
      BY <1>1, <1>2, <1>9, <3>2 DEF SessionInv, Numbered, Phase
    <3>. QED
      BY <3>1, <3>2
  <2>2. ASSUME NEW t \in Slots, NEW u \in Slots, t # u, Phase(t)' # "none", Phase(u)' # "none"
        PROVE  ses'[t].id # ses'[u].id
    <3>1. CASE t # s /\ u # s
      BY <1>9, <2>2, <3>1 DEF SessionInv, Numbered, Phase
    <3>2. CASE t = s
      BY <1>6, <1>9, <1>10, <2>2, <3>2 DEF Phase
    <3>3. CASE u = s
      BY <1>6, <1>9, <1>10, <2>2, <3>3 DEF Phase
    <3>. QED
      BY <3>1, <3>2, <3>3
  <2>3. ASSUME NEW j \in Ids, reg'[j].live
        PROVE  reg'[j].conn = j /\ \E t \in Slots : Phase(t)' \in Alive /\ ses'[t].id = j
    <3>1. CASE j = n
      BY <1>6, <1>7, <1>9, <3>1 DEF Phase
    <3>2. CASE j # n
      <4>1. reg[j].live /\ reg[j].conn = j /\ reg'[j] = reg[j]
        BY <1>9, <2>3, <3>2 DEF SessionInv, Numbered
      <4>2. PICK t \in Slots : Phase(t) \in Alive /\ ses[t].id = j
        BY <4>1 DEF SessionInv, Numbered
      <4>3. t # s
        BY <1>4, <1>7, <4>2 DEF Phase
      <4>. QED
        BY <1>9, <4>1, <4>2, <4>3 DEF Phase
    <3>. QED
      BY <3>1, <3>2
  <2>. QED
    BY <1>1, <2>1, <2>2, <2>3 DEF Numbered
<1>. QED
  BY <1>8, <1>11, <1>12 DEF SessionInv

(* Every operation of a session keeps what is true of all of them.         *)
LEMMA NextSession == SessionInv /\ [Next]_vars => SessionInv'
<1>. SUFFICES ASSUME SessionInv, [Next]_vars PROVE SessionInv'
  OBVIOUS
<1>1. CASE UNCHANGED vars
  BY <1>1 DEF vars, SessionInv, TypeOK, Numbered, Phase
<1>2. ASSUME NEW s \in Slots, Step(s) PROVE SessionInv'
  <2>1. CASE Connect(s)
    BY <2>1, ConnectStep
  <2>2. CASE Negotiated(s)
    BY <2>2, NegotiatedStep
  <2>3. CASE \E u \in Users : LoginOk(s, u)
    BY <2>3, LoginStep
  <2>4. CASE \/ GateChallenge(s) \/ ToNews(s) \/ ToMenu(s) \/ \E p \in Rights : MenuFlow(s, p)
             \/ FlowBack(s) \/ (\E i \in Ids : SelectSession(s, i)) \/ ArmDisconnect(s) \/ Disarm(s)
             \/ DisconnectLookup(s) \/ DetailBack(s)
    BY <2>4, MenuStep
  <2>5. CASE \/ Leave(s) \/ PreAuthTimeout(s) \/ StoreFatal(s) \/ BridgeClientClosed(s)
             \/ ScreenError(s) \/ Panic(s)
    <3>1. End(s) /\ Phase(s) \in Active
      BY <2>5 DEF Leave, PreAuthTimeout, StoreFatal, BridgeClientClosed, ScreenError, Panic,
                  Active, Menus
    <3>. QED
      BY <3>1, EndStep
  <2>6. CASE MfaCancel(s) \/ IdleLogout(s) \/ MenuQuit(s)
    <3>1. Phase(s) \in Menus
      BY <2>6 DEF MfaCancel, IdleLogout, MenuQuit, Menus
    <3>2. trail[s].login \in Users \cup {NoUser} /\ NoUser \in Users \cup {NoUser}
      BY Own DEF Trail
    <3>3. Relogin(s, trail[s].login) \/ Relogin(s, NoUser)
      BY <2>6 DEF MfaCancel, IdleLogout, MenuQuit
    <3>. QED
      BY <3>1, <3>2, <3>3, ReloginStep
  <2>7. CASE \E v \in Services : BridgeStart(s, v)
    BY <2>7, BridgeStartStep
  <2>8. CASE BridgeReturn(s)
    BY <2>8, BridgeReturnStep
  <2>9. CASE DisconnectClose(s)
    BY <2>9, CloseStep
  <2>10. CASE PeerDrops(s)
    BY <2>10, DropStep
  <2>11. CASE Deregister(s)
    BY <2>11, DeregisterStep
  <2>12. CASE CloseConn(s)
    BY <2>12, CloseConnStep
  <2>. QED
    BY <1>2, <2>1, <2>2, <2>3, <2>4, <2>5, <2>6, <2>7, <2>8, <2>9, <2>10, <2>11, <2>12 DEF Step
<1>3. CASE Quiet
  BY <1>1, <1>3 DEF Quiet
<1>. QED
  BY <1>1, <1>2, <1>3 DEF Next

(* In every reachable state every session satisfies SlotOK, and the        *)
(* numbers name one connection each.                                       *)
LEMMA SessionHolds == Spec => []SessionInv
<1>. QED
  BY InitSession, NextSession, PTL DEF Spec

-----------------------------------------------------------------------------
(* Whatever path through logins, logoffs, idling out and bridges led to a  *)
(* screen, it is under the idle regime session.go means for it.            *)
THEOREM RegimesMatch == Spec => []RegimeMatchesPhase
<1>1. SessionInv => RegimeMatchesPhase
  BY Own DEF SlotOK, RegimeMatchesPhase, Phase
<1>. QED
  BY <1>1, SessionHolds, PTL

(* The Active Sessions list, which registry.go builds from byID, lists the *)
(* running sessions with their users and services, and nobody else.        *)
THEOREM RegistryTells == Spec => []RegistryTruthful
<1>1. ASSUME SessionInv PROVE RegistryTruthful
  <2>1. TypeOK
    BY <1>1 DEF SessionInv
  <2>2. ASSUME NEW s \in Slots, Phase(s) \in Active
        PROVE  LET e == reg[ses[s].id] IN
               /\ e.live /\ e.conn = ses[s].conn /\ e.user = ses[s].user
               /\ e.service = trail[s].bridge /\ (e.service # NoService <=> Phase(s) = "bridge")
    <3>1. SlotOK(ses[s], trail[s], view[s], reg[ses[s].id]) /\ Phase(s) \in Alive
      BY <1>1, <2>2, Own DEF Alive
    <3>. QED
      BY <2>2, <3>1 DEF SlotOK, Phase
  <2>3. ASSUME NEW i \in Ids, reg[i].live
        PROVE  \E s \in Slots : Phase(s) \in Active \cup {"ended"} /\ ses[s].id = i
    BY <1>1, <2>3 DEF SessionInv, Numbered, Alive
  <2>. QED
    BY <2>1, <2>2, <2>3 DEF RegistryTruthful
<1>. QED
  BY <1>1, SessionHolds, PTL

(* The events of auditor.go carry the user who is logged in, between       *)
(* auth_ok and the end of that login.                                      *)
THEOREM AuditTells == Spec => []AuditTruthful
<1>1. SessionInv => AuditTruthful
  BY Own DEF SlotOK, AuditTruthful, Phase
<1>. QED
  BY <1>1, SessionHolds, PTL

(* The close function that admin_sessions.go calls with the lock released  *)
(* is that of the connection the administrator was shown, never his own.   *)
THEOREM TargetHit == Spec => []DisconnectHitsTarget
<1>1. ASSUME SessionInv, NEW s \in Slots, view[s].st = "closing"
      PROVE  view[s].target = view[s].conn /\ view[s].target # ses[s].conn
  <2>1. SlotOK(ses[s], trail[s], view[s], reg[ses[s].id])
    BY <1>1, Own
  <2>2. ses[s].phase = "detail" /\ ses[s].conn = ses[s].id /\ view[s].id # ses[s].id
    BY <1>1, <2>1 DEF SlotOK
  <2>. QED
    BY <1>1, <2>1, <2>2 DEF SlotOK
<1>2. SessionInv => DisconnectHitsTarget
  BY <1>1 DEF DisconnectHitsTarget
<1>. QED
  BY <1>2, SessionHolds, PTL
=============================================================================
