---------------------------- MODULE ServerProofs ----------------------------
(***************************************************************************)
(* Machine-checked proofs about Server.tla, for every set of listeners and *)
(* connections and every value of the two caps.                            *)
(*                                                                         *)
(* TypeOK alone is not inductive: that releaseGlobal never drives the      *)
(* semaphore below zero needs the slot accounting, which in turn needs to  *)
(* know that an accept loop about to dispatch really holds an accepted     *)
(* connection of its own.  IndInv adds exactly these facts.                *)
(***************************************************************************)
EXTENDS Server, FiniteSetTheorems, TLAPS

(* A loop between Accept and dispatch holds a connection of its own. *)
HeldOK ==
  /\ \A l \in Listeners :
       /\ lpc[l] = "admit" => held[l] \in Conns /\ conn[held[l]].st = "accepted"
       /\ lpc[l] # "admit" => held[l] = NoConn
  /\ \A l, m \in Listeners : held[l] = held[m] /\ held[l] # NoConn => l = m

(* Until the Once fires no listener is closed, so no loop has a "closed"   *)
(* error to report.                                                        *)
FailOK ==
  /\ RootCauseReported
  /\ once = "unfired" =>
       /\ open = Listeners
       /\ \A l \in Listeners : lerr[l] # "closed" /\ lpc[l] # "closeAll"
  /\ \A l \in Listeners : lpc[l] = "record" => lerr[l] # "none"

IndInv == TypeOK /\ HeldOK /\ FailOK /\ SlotAccounting /\ PerIPAccounting

-----------------------------------------------------------------------------
(* Finite sets *)

(* Adding a new element to a finite set adds one to its cardinality. *)
LEMMA CardAdd ==
  ASSUME NEW S, IsFiniteSet(S), NEW x, x \notin S
  PROVE  Cardinality(S \cup {x}) = Cardinality(S) + 1
BY FS_AddElement

(* Removing an element of a finite set, which therefore is not empty. *)
LEMMA CardRemove ==
  ASSUME NEW S, IsFiniteSet(S), NEW x \in S
  PROVE  /\ Cardinality(S \ {x}) = Cardinality(S) - 1
         /\ Cardinality(S) \in Nat \ {0}
<1>1. Cardinality(S) \in Nat
  BY FS_CardinalityType
<1>2. Cardinality(S) # 0
  BY FS_EmptySet
<1>. QED
  BY <1>1, <1>2, FS_RemoveElement

(* The holders of slots and the charged sessions are finite sets. *)
LEMMA HoldersFinite ==
  /\ IsFiniteSet(HolderLoops) /\ Cardinality(HolderLoops) \in Nat
  /\ IsFiniteSet(HolderConns) /\ Cardinality(HolderConns) \in Nat
  /\ \A a : IsFiniteSet(ChargedTo(a)) /\ Cardinality(ChargedTo(a)) \in Nat
<1>1. HolderLoops \subseteq Listeners /\ HolderConns \subseteq Conns
  BY DEF HolderLoops, HolderConns
<1>2. \A a : ChargedTo(a) \subseteq Conns
  BY DEF ChargedTo
<1>. QED
  BY <1>1, <1>2, FS_Subset, FS_CardinalityType, ServerAssumption

(* An unused connection identity is a well-formed record. *)
LEMMA FreeType == Free \in Conn /\ Free.st = "free"
<1>1. (CHOOSE l \in Listeners : TRUE) \in Listeners
  BY ServerAssumption
<1>. QED
  BY <1>1 DEF Free, Conn, ConnStates

-----------------------------------------------------------------------------
(* The invariant without the accounting *)

(* Types, apart from the semaphore. *)
ShapeOK ==
  /\ lpc \in [Listeners -> LoopStates]
  /\ held \in [Listeners -> Conns \cup {NoConn}]
  /\ lerr \in [Listeners -> Errors]
  /\ open \subseteq Listeners
  /\ perIP \in [IPs -> Nat]
  /\ conn \in [Conns -> Conn]
  /\ once \in {"unfired", "firing", "fired"}
  /\ first \in Errors

(* Every step of the server keeps the variables in their sets. *)
LEMMA ShapeStep == ShapeOK /\ HeldOK /\ [Next]_vars => ShapeOK'
<1> SUFFICES ASSUME ShapeOK, HeldOK, [Next]_vars PROVE ShapeOK'
  OBVIOUS
<1> USE FreeType, ServerAssumption DEF ShapeOK, LoopStates, Errors, loopVars, failVars
<1>1. ASSUME NEW c \in Conns, NEW l \in Listeners, NEW a \in IPs \cup {NoIP},
             Arrive(c, l, a)
      PROVE  ShapeOK'
  BY <1>1 DEF Arrive, Conn, ConnStates
<1>2. ASSUME NEW l \in Listeners, Acquire(l) PROVE ShapeOK'
  BY <1>2 DEF Acquire
<1>3. ASSUME NEW l \in Listeners, NEW c \in Conns, Accept(l, c) PROVE ShapeOK'
  <2>1. PICK t \in BOOLEAN :
          conn' = [conn EXCEPT ![c] = [@ EXCEPT !.st = "accepted", !.trusted = t]]
    BY <1>3 DEF Accept
  <2>2. [conn[c] EXCEPT !.st = "accepted", !.trusted = t] \in Conn
    BY DEF Conn, ConnStates
  <2>3. conn' \in [Conns -> Conn]
    BY <2>1, <2>2
  <2>. QED
    BY <1>3, <2>3 DEF Accept
<1>4. ASSUME NEW l \in Listeners, Admit(l) PROVE ShapeOK'
  <2>1. held[l] \in Conns /\ conn[held[l]] \in Conn
    BY <1>4 DEF Admit, HeldOK
  <2>2. conn' \in [Conns -> Conn]
    BY <1>4, <2>1 DEF Admit, Conn, ConnStates
  <2>3. perIP' \in [IPs -> Nat]
    BY <1>4, <2>1 DEF Admit, ChargeIP, Counted, Conn
  <2>. QED
    BY <1>4, <2>2, <2>3 DEF Admit
<1>5. ASSUME NEW l \in Listeners, Reject(l) PROVE ShapeOK'
  BY <1>5 DEF Reject
<1>6. ASSUME NEW l \in Listeners, RejectRelease(l) PROVE ShapeOK'
  BY <1>6 DEF RejectRelease
<1>7. ASSUME NEW l \in Listeners, AcceptError(l) PROVE ShapeOK'
  BY <1>7 DEF AcceptError
<1>8. ASSUME NEW l \in Listeners, RecordFirst(l) PROVE ShapeOK'
  BY <1>8 DEF RecordFirst
<1>9. ASSUME NEW l \in Listeners, NEW m \in Listeners, CloseListener(l, m) PROVE ShapeOK'
  BY <1>9 DEF CloseListener
<1>10. ASSUME NEW l \in Listeners, CloseAllDone(l) PROVE ShapeOK'
  BY <1>10 DEF CloseAllDone
<1>11. ASSUME NEW l \in Listeners, RecordLater(l) PROVE ShapeOK'
  BY <1>11 DEF RecordLater
<1>12. ASSUME NEW c \in Conns, SessionEnds(c) PROVE ShapeOK'
  BY <1>12 DEF SessionEnds, Conn, ConnStates
<1>13. ASSUME NEW c \in Conns, HandleReleaseIP(c) PROVE ShapeOK'
  <2>1. conn' \in [Conns -> Conn]
    BY <1>13 DEF HandleReleaseIP, Conn, ConnStates
  <2>2. perIP' \in [IPs -> Nat]
    BY <1>13 DEF HandleReleaseIP, ReleaseIP, Counted, Conn
  <2>. QED
    BY <1>13, <2>1, <2>2 DEF HandleReleaseIP
<1>14. ASSUME NEW c \in Conns, HandleReleaseGlobal(c) PROVE ShapeOK'
  BY <1>14 DEF HandleReleaseGlobal
<1>15. CASE UNCHANGED vars
  BY <1>15 DEF vars
<1>. QED
  BY <1>1, <1>2, <1>3, <1>4, <1>5, <1>6, <1>7, <1>8, <1>9, <1>10, <1>11, <1>12,
     <1>13, <1>14, <1>15 DEF Next, Loop, Handle, Exit

(* A loop takes a connection out of the backlog for itself alone, and      *)
(* nobody but the loop that holds it moves an accepted connection.         *)
LEMMA HeldStep == ShapeOK /\ HeldOK /\ [Next]_vars => HeldOK'
<1> SUFFICES ASSUME ShapeOK, HeldOK, [Next]_vars PROVE HeldOK'
  OBVIOUS
<1> USE FreeType, ServerAssumption DEF ShapeOK, HeldOK, loopVars, failVars, Conn
<1>1. ASSUME NEW c \in Conns, NEW l \in Listeners, NEW a \in IPs \cup {NoIP},
             Arrive(c, l, a)
      PROVE  HeldOK'
  BY <1>1 DEF Arrive
<1>2. ASSUME NEW l \in Listeners, Acquire(l) PROVE HeldOK'
  BY <1>2 DEF Acquire
<1>3. ASSUME NEW l \in Listeners, NEW c \in Conns, Accept(l, c) PROVE HeldOK'
  <2>1. conn'[c].st = "accepted" /\ \A d \in Conns \ {c} : conn'[d] = conn[d]
    BY <1>3 DEF Accept
  <2>2. \A m \in Listeners : held[m] # c
    BY <1>3 DEF Accept
  <2>. QED
    BY <1>3, <2>1, <2>2 DEF Accept
<1>4. ASSUME NEW l \in Listeners, Admit(l) \/ Reject(l) PROVE HeldOK'
  <2>1. held[l] \in Conns /\ held' = [held EXCEPT ![l] = NoConn] /\ lpc[l] = "admit"
    BY <1>4 DEF Admit, Reject
  <2>2. lpc'[l] # "admit" /\ \A m \in Listeners \ {l} : lpc'[m] = lpc[m]
    BY <1>4 DEF Admit, Reject
  <2>3. \A d \in Conns \ {held[l]} : conn'[d] = conn[d]
    BY <1>4, <2>1 DEF Admit, Reject
  <2>. QED
    BY <2>1, <2>2, <2>3
<1>5. ASSUME NEW l \in Listeners,
             RejectRelease(l) \/ AcceptError(l) \/ RecordFirst(l) \/ CloseAllDone(l)
               \/ RecordLater(l)
      PROVE  HeldOK'
  BY <1>5 DEF RejectRelease, AcceptError, RecordFirst, CloseAllDone, RecordLater
<1>6. ASSUME NEW l \in Listeners, NEW m \in Listeners, CloseListener(l, m) PROVE HeldOK'
  BY <1>6 DEF CloseListener
<1>7. ASSUME NEW c \in Conns, Handle(c) PROVE HeldOK'
  BY <1>7 DEF Handle, SessionEnds, HandleReleaseIP, HandleReleaseGlobal
<1>8. CASE UNCHANGED vars
  BY <1>8 DEF vars
<1>. QED
  BY <1>1, <1>2, <1>3, <1>4, <1>5, <1>6, <1>7, <1>8 DEF Next, Loop, Exit

(* Only the loop that fired the Once closes listeners. *)
LEMMA FailStep == ShapeOK /\ FailOK /\ [Next]_vars => FailOK'
<1> SUFFICES ASSUME ShapeOK, FailOK, [Next]_vars PROVE FailOK'
  OBVIOUS
<1> USE DEF ShapeOK, FailOK, RootCauseReported, loopVars, failVars, Errors
<1>1. ASSUME NEW c \in Conns, NEW l \in Listeners, NEW a \in IPs \cup {NoIP},
             Arrive(c, l, a)
      PROVE  FailOK'
  BY <1>1 DEF Arrive
<1>2. ASSUME NEW l \in Listeners, NEW c \in Conns, Accept(l, c) PROVE FailOK'
  BY <1>2 DEF Accept
<1>3. ASSUME NEW l \in Listeners,
             Acquire(l) \/ Admit(l) \/ Reject(l) \/ RejectRelease(l)
      PROVE  FailOK'
  BY <1>3 DEF Acquire, Admit, Reject, RejectRelease
<1>4. ASSUME NEW l \in Listeners, AcceptError(l) PROVE FailOK'
  BY <1>4 DEF AcceptError
<1>5. ASSUME NEW l \in Listeners, RecordFirst(l) PROVE FailOK'
  BY <1>5 DEF RecordFirst
<1>6. ASSUME NEW l \in Listeners, NEW m \in Listeners, CloseListener(l, m) PROVE FailOK'
  BY <1>6 DEF CloseListener
<1>7. ASSUME NEW l \in Listeners, CloseAllDone(l) \/ RecordLater(l) PROVE FailOK'
  BY <1>7 DEF CloseAllDone, RecordLater
<1>8. ASSUME NEW c \in Conns, Handle(c) PROVE FailOK'
  BY <1>8 DEF Handle, SessionEnds, HandleReleaseIP, HandleReleaseGlobal
<1>9. CASE UNCHANGED vars
  BY <1>9 DEF vars
<1>. QED
  BY <1>1, <1>2, <1>3, <1>4, <1>5, <1>6, <1>7, <1>8, <1>9 DEF Next, Loop, Exit
-----------------------------------------------------------------------------
(* The accounting *)

(* Every step that moves a holder moves the semaphore by as much: Admit    *)
(* hands the loop's token to the session, the others take or return one.   *)
LEMMA SlotStep ==
  ShapeOK /\ slots \in Nat /\ HeldOK /\ SlotAccounting /\ [Next]_vars
    => slots' \in Nat /\ SlotAccounting'
<1> SUFFICES ASSUME ShapeOK, slots \in Nat, HeldOK, SlotAccounting, [Next]_vars
             PROVE  slots' \in Nat /\ SlotAccounting'
  OBVIOUS
<1> USE HoldersFinite, FreeType, ServerAssumption
    DEF ShapeOK, SlotAccounting, loopVars, failVars, Conn
<1> DEFINE Same == HolderLoops' = HolderLoops /\ HolderConns' = HolderConns
<1>0. ASSUME Same, slots' = slots PROVE slots' \in Nat /\ SlotAccounting'
  BY <1>0
<1>1. ASSUME NEW c \in Conns, NEW l \in Listeners, NEW a \in IPs \cup {NoIP},
             Arrive(c, l, a)
      PROVE  Same /\ slots' = slots
  BY <1>1 DEF Arrive, HolderLoops, HolderConns
<1>2. ASSUME NEW l \in Listeners, Acquire(l)
      PROVE  slots' \in Nat /\ SlotAccounting'
  <2>1. l \notin HolderLoops /\ HolderLoops' = HolderLoops \cup {l}
    BY <1>2 DEF Acquire, HolderLoops
  <2>2. HolderConns' = HolderConns
    BY <1>2 DEF Acquire, HolderConns
  <2>3. slots' = slots + 1 /\ slots < MaxConns
    BY <1>2 DEF Acquire, AcquireSlot
  <2>4. Cardinality(HolderLoops') = Cardinality(HolderLoops) + 1
    BY <2>1, CardAdd
  <2>. QED
    BY <2>2, <2>3, <2>4
<1>3. ASSUME NEW l \in Listeners, NEW c \in Conns, Accept(l, c)
      PROVE  Same /\ slots' = slots
  <2>1. conn'[c].st = "accepted" /\ \A d \in Conns \ {c} : conn'[d] = conn[d]
    BY <1>3 DEF Accept
  <2>. QED
    BY <1>3, <2>1 DEF Accept, HolderLoops, HolderConns
<1>4. ASSUME NEW l \in Listeners, Admit(l)
      PROVE  slots' \in Nat /\ SlotAccounting'
  <2> DEFINE c == held[l]
  <2>1. c \in Conns /\ conn[c].st = "accepted"
    BY <1>4 DEF Admit, HeldOK
  <2>2. l \in HolderLoops /\ HolderLoops' = HolderLoops \ {l}
    BY <1>4 DEF Admit, HolderLoops
  <2>3. c \notin HolderConns /\ HolderConns' = HolderConns \cup {c}
    BY <1>4, <2>1 DEF Admit, HolderConns
  <2>4. /\ Cardinality(HolderLoops') = Cardinality(HolderLoops) - 1
        /\ Cardinality(HolderConns') = Cardinality(HolderConns) + 1
    BY <2>2, <2>3, CardAdd, CardRemove
  <2>5. slots' = slots
    BY <1>4 DEF Admit
  <2>. QED
    BY <2>4, <2>5
<1>5. ASSUME NEW l \in Listeners, Reject(l)
      PROVE  Same /\ slots' = slots
  <2>1. held[l] \in Conns /\ conn[held[l]].st = "accepted"
    BY <1>5 DEF Reject, HeldOK
  <2>2. HolderLoops' = HolderLoops
    BY <1>5 DEF Reject, HolderLoops
  <2>. QED
    BY <1>5, <2>1, <2>2 DEF Reject, HolderConns
<1>6. ASSUME NEW l \in Listeners, RejectRelease(l) \/ AcceptError(l)
      PROVE  slots' \in Nat /\ SlotAccounting'
  <2>1. l \in HolderLoops /\ HolderLoops' = HolderLoops \ {l}
    BY <1>6 DEF RejectRelease, AcceptError, HolderLoops
  <2>2. HolderConns' = HolderConns /\ slots' = slots - 1
    BY <1>6 DEF RejectRelease, AcceptError, HolderConns, ReleaseGlobal
  <2>3. Cardinality(HolderLoops') = Cardinality(HolderLoops) - 1
        /\ Cardinality(HolderLoops) \in Nat \ {0}
    BY <2>1, CardRemove
  <2>4. slots' \in Nat /\ slots' <= MaxConns
    <3> HIDE DEF ShapeOK
    <3>1. slots >= 1
      BY <2>3
    <3>. QED
      BY <2>2, <3>1
  <2>5. slots' = Cardinality(HolderLoops') + Cardinality(HolderConns')
    BY <2>2, <2>3
  <2>. QED
    BY <2>4, <2>5
<1>7. ASSUME NEW l \in Listeners, RecordFirst(l) \/ CloseAllDone(l) \/ RecordLater(l)
      PROVE  Same /\ slots' = slots
  BY <1>7 DEF RecordFirst, CloseAllDone, RecordLater, HolderLoops, HolderConns
<1>8. ASSUME NEW l \in Listeners, NEW m \in Listeners, CloseListener(l, m)
      PROVE  Same /\ slots' = slots
  BY <1>8 DEF CloseListener, HolderLoops, HolderConns
<1>9. ASSUME NEW c \in Conns, SessionEnds(c) \/ HandleReleaseIP(c)
      PROVE  Same /\ slots' = slots
  BY <1>9 DEF SessionEnds, HandleReleaseIP, HolderLoops, HolderConns
<1>10. ASSUME NEW c \in Conns, HandleReleaseGlobal(c)
       PROVE  slots' \in Nat /\ SlotAccounting'
  <2>1. c \in HolderConns /\ HolderConns' = HolderConns \ {c}
    BY <1>10 DEF HandleReleaseGlobal, HolderConns
  <2>2. HolderLoops' = HolderLoops /\ slots' = slots - 1
    BY <1>10 DEF HandleReleaseGlobal, HolderLoops, ReleaseGlobal
  <2>3. Cardinality(HolderConns') = Cardinality(HolderConns) - 1
        /\ Cardinality(HolderConns) \in Nat \ {0}
    BY <2>1, CardRemove
  <2>4. slots' \in Nat /\ slots' <= MaxConns
    <3> HIDE DEF ShapeOK
    <3>1. slots >= 1
      BY <2>3
    <3>. QED
      BY <2>2, <3>1
  <2>5. slots' = Cardinality(HolderLoops') + Cardinality(HolderConns')
    BY <2>2, <2>3
  <2>. QED
    BY <2>4, <2>5
<1>11. CASE UNCHANGED vars
  BY <1>11 DEF vars, HolderLoops, HolderConns
<1>. QED
  BY <1>0, <1>1, <1>2, <1>3, <1>4, <1>5, <1>6, <1>7, <1>8, <1>9, <1>10, <1>11
     DEF Next, Loop, Handle, Exit
(* admitIP and releaseIP charge and discharge the same address: the trust  *)
(* verdict and the address of a connection do not change in between.       *)
LEMMA PerIPStep ==
  ShapeOK /\ HeldOK /\ PerIPAccounting /\ [Next]_vars => PerIPAccounting'
<1> SUFFICES ASSUME ShapeOK, HeldOK, PerIPAccounting, [Next]_vars
             PROVE  PerIPAccounting'
  OBVIOUS
<1> USE FreeType, ServerAssumption DEF ShapeOK, Conn
<1> DEFINE Same == perIP' = perIP /\ \A a \in IPs : ChargedTo(a)' = ChargedTo(a)
<1>0. ASSUME Same PROVE PerIPAccounting'
  BY <1>0 DEF PerIPAccounting
<1>1. ASSUME NEW c \in Conns, NEW l \in Listeners, NEW a \in IPs \cup {NoIP},
             Arrive(c, l, a)
      PROVE  Same
  BY <1>1 DEF Arrive, ChargedTo, Counted
<1>2. ASSUME NEW l \in Listeners, NEW c \in Conns, Accept(l, c) PROVE Same
  <2>1. /\ conn[c].st = "backlog" /\ conn'[c].st = "accepted"
        /\ \A d \in Conns \ {c} : conn'[d] = conn[d]
    BY <1>2 DEF Accept
  <2>. QED
    BY <1>2, <2>1 DEF Accept, ChargedTo, Counted
<1>3. ASSUME NEW l \in Listeners, Admit(l) PROVE PerIPAccounting'
  <2> DEFINE c == held[l]
             a == conn[c].addr
  <2>1. c \in Conns /\ conn[c].st = "accepted"
    BY <1>3 DEF Admit, HeldOK
  <2>2. conn' = [conn EXCEPT ![c].st = "serving"]
    BY <1>3 DEF Admit
  <2>3. /\ \A d \in Conns \ {c} : conn'[d] = conn[d]
        /\ conn'[c].st = "serving" /\ conn'[c].addr = a
        /\ conn'[c].trusted = conn[c].trusted
    BY <2>1, <2>2
  <2>4. \A b \in IPs :
          ChargedTo(b)' = IF Counted(c) /\ b = a THEN ChargedTo(b) \cup {c} ELSE ChargedTo(b)
    BY <2>1, <2>3 DEF ChargedTo, Counted
  <2>5. \A b \in IPs : c \notin ChargedTo(b)
    BY <2>1 DEF ChargedTo
  <2>6. Counted(c) => a \in IPs
    BY <2>1 DEF Counted
  <2>7. \A b \in IPs : perIP'[b] = IF Counted(c) /\ b = a THEN perIP[b] + 1 ELSE perIP[b]
    BY <1>3, <2>6 DEF Admit, ChargeIP
  <2>8. \A b \in IPs :
          Cardinality(ChargedTo(b)') =
            IF Counted(c) /\ b = a THEN Cardinality(ChargedTo(b)) + 1
                                   ELSE Cardinality(ChargedTo(b))
    BY <2>4, <2>5, CardAdd, HoldersFinite
  <2>. QED
    BY <2>7, <2>8 DEF PerIPAccounting
<1>4. ASSUME NEW l \in Listeners, Reject(l) PROVE Same
  <2>1. held[l] \in Conns /\ conn[held[l]].st = "accepted"
    BY <1>4 DEF Reject, HeldOK
  <2>. QED
    BY <1>4, <2>1 DEF Reject, ChargedTo, Counted
<1>5. ASSUME NEW l \in Listeners,
             Acquire(l) \/ RejectRelease(l) \/ AcceptError(l) \/ RecordFirst(l)
               \/ CloseAllDone(l) \/ RecordLater(l)
      PROVE  Same
  BY <1>5 DEF Acquire, RejectRelease, AcceptError, RecordFirst, CloseAllDone, RecordLater,
              ChargedTo, Counted
<1>6. ASSUME NEW l \in Listeners, NEW m \in Listeners, CloseListener(l, m) PROVE Same
  BY <1>6 DEF CloseListener, ChargedTo, Counted
<1>7. ASSUME NEW c \in Conns, SessionEnds(c) PROVE Same
  BY <1>7 DEF SessionEnds, ChargedTo, Counted
<1>8. ASSUME NEW c \in Conns, HandleReleaseIP(c) PROVE PerIPAccounting'
  <2> DEFINE a == conn[c].addr
  <2>1. /\ \A d \in Conns \ {c} : conn'[d] = conn[d]
        /\ conn[c].st = "closed" /\ conn'[c].st = "ipReleased"
    BY <1>8 DEF HandleReleaseIP
  <2>2. \A b \in IPs :
          ChargedTo(b)' = IF Counted(c) /\ b = a THEN ChargedTo(b) \ {c} ELSE ChargedTo(b)
    BY <2>1 DEF ChargedTo, Counted
  <2>3. Counted(c) => a \in IPs /\ c \in ChargedTo(a)
    BY <2>1 DEF ChargedTo, Counted
  <2>4. \A b \in IPs :
          perIP'[b] = IF Counted(c) /\ b = a THEN (IF perIP[b] <= 1 THEN 0 ELSE perIP[b] - 1)
                                             ELSE perIP[b]
    BY <1>8, <2>3 DEF HandleReleaseIP, ReleaseIP
  <2>5. Counted(c) => /\ Cardinality(ChargedTo(a) \ {c}) = Cardinality(ChargedTo(a)) - 1
                      /\ Cardinality(ChargedTo(a)) \in Nat \ {0}
    BY <2>3, CardRemove, HoldersFinite
  <2>6. ASSUME NEW b \in IPs PROVE perIP'[b] = Cardinality(ChargedTo(b)')
    <3>1. CASE Counted(c) /\ b = a
      <4>1. perIP[b] = Cardinality(ChargedTo(b)) /\ perIP[b] >= 1
        BY <3>1, <2>5 DEF PerIPAccounting
      <4>2. perIP'[b] = perIP[b] - 1
        BY <3>1, <4>1, <2>4
      <4>. QED
        BY <3>1, <4>1, <4>2, <2>2, <2>5
    <3>2. CASE ~(Counted(c) /\ b = a)
      BY <3>2, <2>2, <2>4 DEF PerIPAccounting
    <3>. QED
      BY <3>1, <3>2
  <2>. QED
    BY <2>6 DEF PerIPAccounting
<1>9. ASSUME NEW c \in Conns, HandleReleaseGlobal(c) PROVE Same
  BY <1>9 DEF HandleReleaseGlobal, ChargedTo, Counted
<1>10. CASE UNCHANGED vars
  <2>1. UNCHANGED <<perIP, conn>>
    BY <1>10 DEF vars
  <2>2. \A a \in IPs : ChargedTo(a)' = ChargedTo(a)
    BY <2>1 DEF ChargedTo, Counted
  <2>. QED
    BY <2>1, <2>2 DEF PerIPAccounting
<1> HIDE DEF Same, ShapeOK, Conn
<1>. QED
  BY <1>0, <1>1, <1>2, <1>3, <1>4, <1>5, <1>6, <1>7, <1>8, <1>9, <1>10
     DEF Next, Loop, Handle, Exit

-----------------------------------------------------------------------------
(* The inductive invariant *)

(* The initial state satisfies the inductive invariant. *)
LEMMA InitInd == Init => IndInv
<1> SUFFICES ASSUME Init PROVE IndInv
  OBVIOUS
<1> USE ServerAssumption, FreeType DEF Init
<1>1. TypeOK
  BY DEF TypeOK, LoopStates, Errors
<1>2. HeldOK /\ FailOK
  BY DEF HeldOK, FailOK, RootCauseReported
<1>3. HolderLoops = {} /\ HolderConns = {} /\ \A a : ChargedTo(a) = {}
  BY DEF HolderLoops, HolderConns, ChargedTo
<1>4. Cardinality({}) = 0
  BY FS_EmptySet
<1>5. SlotAccounting /\ PerIPAccounting
  BY <1>3, <1>4 DEF SlotAccounting, PerIPAccounting
<1>. QED
  BY <1>1, <1>2, <1>5 DEF IndInv

(* Every step of the server preserves the inductive invariant. *)
LEMMA NextInd == IndInv /\ [Next]_vars => IndInv'
<1>1. TypeOK <=> ShapeOK /\ slots \in Nat
  BY DEF TypeOK, ShapeOK
<1>2. ShapeOK' /\ slots' \in Nat => TypeOK'
  BY DEF TypeOK, ShapeOK
<1>. QED
  BY <1>1, <1>2, ShapeStep, HeldStep, FailStep, SlotStep, PerIPStep DEF IndInv

(* The inductive invariant holds in every reachable state. *)
LEMMA IndInvHolds == Spec => []IndInv
BY InitInd, NextInd, PTL DEF Spec

(* The variables of Server.tla keep their types; in particular no path     *)
(* through Serve and handle returns a semaphore token it does not hold.    *)
THEOREM TypeCorrect == Spec => []TypeOK
<1>1. IndInv => TypeOK
  BY DEF IndInv
<1>. QED
  BY <1>1, IndInvHolds, PTL

(* The semaphore holds one token per accept loop past acquire and per      *)
(* session, and never more than MaxConns, for any number of listeners.     *)
THEOREM SlotsBalanced == Spec => []SlotAccounting
<1>1. IndInv => SlotAccounting
  BY DEF IndInv
<1>. QED
  BY <1>1, IndInvHolds, PTL

(* Each per-address counter equals the number of sessions charged to it.   *)
THEOREM PerIPBalanced == Spec => []PerIPAccounting
<1>1. IndInv => PerIPAccounting
  BY DEF IndInv
<1>. QED
  BY <1>1, IndInvHolds, PTL

(* The error ServeAll returns is the one that brought the listeners down.  *)
THEOREM RootCause == Spec => []RootCauseReported
<1>1. IndInv => RootCauseReported
  BY DEF IndInv, FailOK
<1>. QED
  BY <1>1, IndInvHolds, PTL
-----------------------------------------------------------------------------
(* Refinement *)

(* The record by which Admission knows connection c. *)
Rec(c) == [conn |-> c, addr |-> conn[c].addr, trusted |-> conn[c].trusted]

Serving == {c \in Conns : conn[c].st = "serving"}

(* A set of records of connections in S has no more elements than S. *)
LEMMA RecordsBounded ==
  ASSUME NEW S, IsFiniteSet(S), NEW R, R = {Rec(c) : c \in S}
  PROVE  IsFiniteSet(R) /\ Cardinality(R) <= Cardinality(S)
         /\ Cardinality(R) \in Nat /\ Cardinality(S) \in Nat
<1> DEFINE f == [c \in S |-> Rec(c)]
<1>1. f \in Surjection(S, R)
  BY DEF Surjection
<1>. QED
  BY <1>1, FS_Surjection, FS_CardinalityType

(* What Admission calls served, as an image. *)
LEMMA ServedImage == Served = {Rec(c) : c \in Serving}
BY DEF Served, Serving, Rec

(* A step that changes neither who is serving nor what is known about them *)
(* is invisible to Admission.                                              *)
LEMMA Invisible ==
  ASSUME Serving' = Serving, \A c \in Serving : Rec(c)' = Rec(c)
  PROVE  Served' = Served
BY DEF Served, Serving, Rec
(* Admission counts as the rest of the model does. *)
LEMMA SameCardinality == \A S : A!Cardinality(S) = Cardinality(S)
BY DEF A!Cardinality, Cardinality

(* A step of the server is a step of Admission or leaves Served alone. *)
LEMMA StepRefines == IndInv /\ [Next]_vars => [A!Next]_Served
<1> SUFFICES ASSUME IndInv, [Next]_vars PROVE A!Next \/ Served' = Served
  OBVIOUS
<1>0. ShapeOK /\ HeldOK /\ SlotAccounting /\ PerIPAccounting
  BY DEF IndInv, TypeOK, ShapeOK
<1> USE <1>0, FreeType, ServerAssumption DEF ShapeOK, Conn
<1>1. ASSUME NEW c \in Conns, NEW l \in Listeners, NEW a \in IPs \cup {NoIP},
             Arrive(c, l, a)
      PROVE  Served' = Served
  BY <1>1, Invisible DEF Arrive, Serving, Rec
<1>2. ASSUME NEW l \in Listeners, NEW c \in Conns, Accept(l, c) PROVE Served' = Served
  <2>1. /\ conn[c].st = "backlog" /\ conn'[c].st = "accepted"
        /\ \A d \in Conns \ {c} : conn'[d] = conn[d]
    BY <1>2 DEF Accept
  <2>. QED
    BY <2>1, Invisible DEF Serving, Rec
<1>3. ASSUME NEW l \in Listeners, Admit(l) PROVE A!Next
  <2> DEFINE c == held[l]
             a == conn[c].addr
             t == conn[c].trusted
  <2>1. c \in Conns /\ conn[c].st = "accepted" /\ a \in IPs \cup {NoIP} /\ t \in BOOLEAN
    BY <1>3 DEF Admit, HeldOK
  <2>2. \A r \in Served : r.conn # c
    BY <2>1 DEF Served
  <2>3. Cardinality(Served) < MaxConns
    <3>1. l \in HolderLoops
      BY <1>3 DEF Admit, HolderLoops
    <3>2. Cardinality(HolderLoops) \in Nat \ {0}
      BY <3>1, CardRemove, HoldersFinite
    <3>3. Cardinality(HolderConns) < MaxConns
      <4>1. Cardinality(HolderLoops) + Cardinality(HolderConns) <= MaxConns
        BY DEF SlotAccounting
      <4> HIDE <1>0 DEF ShapeOK, Conn
      <4>. QED
        BY <4>1, <3>2, HoldersFinite
    <3>4. Serving \subseteq HolderConns
      BY DEF Serving, HolderConns
    <3>5. IsFiniteSet(Serving) /\ Cardinality(Serving) <= Cardinality(HolderConns)
      BY <3>4, FS_Subset, HoldersFinite
    <3>6. Cardinality(Served) <= Cardinality(Serving)
          /\ Cardinality(Served) \in Nat /\ Cardinality(Serving) \in Nat
      BY <3>5, RecordsBounded, ServedImage
    <3>. QED
      BY <3>3, <3>5, <3>6, HoldersFinite
  <2>4. ASSUME MaxPerIP > 0, ~t, a # NoIP PROVE Cardinality(A!ServedFrom(a)) < MaxPerIP
    <3> DEFINE S == {d \in Serving : conn[d].addr = a /\ ~conn[d].trusted}
    <3>1. Counted(c) /\ a \in IPs
      BY <2>1, <2>4 DEF Counted
    <3>2. Cardinality(ChargedTo(a)) < MaxPerIP
      BY <1>3, <3>1 DEF Admit, AtIPCap, PerIPAccounting
    <3>3. S \subseteq ChargedTo(a)
      BY <2>4 DEF Serving, ChargedTo, Counted
    <3>4. IsFiniteSet(S) /\ Cardinality(S) <= Cardinality(ChargedTo(a))
      BY <3>3, FS_Subset, HoldersFinite
    <3>5. A!ServedFrom(a) = {Rec(d) : d \in S}
      BY ServedImage DEF A!ServedFrom, Rec
    <3> HIDE DEF S
    <3>6. Cardinality(A!ServedFrom(a)) <= Cardinality(S)
          /\ Cardinality(A!ServedFrom(a)) \in Nat /\ Cardinality(S) \in Nat
      BY <3>4, <3>5, RecordsBounded
    <3>. QED
      BY <3>2, <3>4, <3>6, HoldersFinite
  <2>5. Served' = Served \cup {[conn |-> c, addr |-> a, trusted |-> t]}
    <3>1. conn' = [conn EXCEPT ![c].st = "serving"]
      BY <1>3 DEF Admit
    <3>2. /\ \A d \in Conns \ {c} : conn'[d] = conn[d]
          /\ conn'[c].st = "serving" /\ conn'[c].addr = a /\ conn'[c].trusted = t
      BY <2>1, <3>1
    <3>3. Serving' = Serving \cup {c}
      BY <2>1, <3>2 DEF Serving
    <3>. QED
      BY <2>1, <3>2, <3>3 DEF Served, Serving
  <2> HIDE DEF c, a, t
  <2>6. A!Enter(c, a, t)
    BY <2>2, <2>3, <2>4, <2>5, SameCardinality, Zenon DEF A!Enter
  <2>. QED
    BY <2>1, <2>6 DEF A!Next
<1>4. ASSUME NEW l \in Listeners, Reject(l) PROVE Served' = Served
  <2>1. held[l] \in Conns /\ conn[held[l]].st = "accepted"
    BY <1>4 DEF Reject, HeldOK
  <2>2. Free \in Conn /\ conn' = [conn EXCEPT ![held[l]] = Free]
    BY <1>4 DEF Reject
  <2>3. Serving' = Serving /\ held[l] \notin Serving
    BY <2>1, <2>2 DEF Serving
  <2>4. \A c \in Serving : Rec(c)' = Rec(c)
    BY <2>2, <2>3 DEF Rec, Serving
  <2>. QED
    BY <2>3, <2>4, Invisible
<1>5. ASSUME NEW l \in Listeners,
             Acquire(l) \/ RejectRelease(l) \/ AcceptError(l) \/ RecordFirst(l)
               \/ CloseAllDone(l) \/ RecordLater(l)
      PROVE  Served' = Served
  BY <1>5 DEF Acquire, RejectRelease, AcceptError, RecordFirst, CloseAllDone, RecordLater,
              Served
<1>6. ASSUME NEW l \in Listeners, NEW m \in Listeners, CloseListener(l, m)
      PROVE  Served' = Served
  BY <1>6, Invisible DEF CloseListener, Serving, Rec
<1>7. ASSUME NEW c \in Conns, SessionEnds(c) PROVE A!Next
  <2>1. /\ conn[c].st = "serving" /\ conn'[c].st = "closed"
        /\ \A d \in Conns \ {c} : conn'[d] = conn[d]
    BY <1>7 DEF SessionEnds
  <2>2. Rec(c) \in Served /\ Rec(c).conn = c
    BY <2>1 DEF Served, Rec
  <2>3. Served' = {r \in Served : r.conn # c}
    BY <2>1 DEF Served
  <2>. QED
    BY <2>2, <2>3 DEF A!Next, A!Leave
<1>8. ASSUME NEW c \in Conns, HandleReleaseIP(c) \/ HandleReleaseGlobal(c)
      PROVE  Served' = Served
  BY <1>8, Invisible DEF HandleReleaseIP, HandleReleaseGlobal, Serving, Rec
<1>9. CASE UNCHANGED vars
  BY <1>9 DEF vars, Served
<1> HIDE DEF ShapeOK, Conn
<1>. QED
  BY <1>1, <1>2, <1>3, <1>4, <1>5, <1>6, <1>7, <1>8, <1>9 DEF Next, Loop, Handle, Exit

(* The accept loops, the limiter and the session goroutines implement the  *)
(* admission promise of Admission.tla.                                     *)
THEOREM Refinement == Spec => ImplementsAdmission
<1>1. Init => A!Init
  BY ServerAssumption, FreeType DEF Init, A!Init, Served
<1>. QED
  BY <1>1, IndInvHolds, StepRefines, PTL DEF Spec, ImplementsAdmission, A!Spec
=============================================================================
