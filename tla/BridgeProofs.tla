---------------------------- MODULE BridgeProofs ----------------------------
(***************************************************************************)
(* Theorems about internal/bridge: what a bridge hands back (Bridge.tla),  *)
(* for any number of chunks, any peers that stall and any number of        *)
(* bridges in a session; the escape, the data and the answers of the       *)
(* Telnet filter (Telnet.tla), for every peer, every payload and every cap;*)
(* and what the ends hear of the two relays (Relay.tla), for any streams,  *)
(* read in any pieces.                                                     *)
(*                                                                         *)
(* CleanHandback is not inductive: that nothing is left in the channel     *)
(* when Bridge returns needs the balance of the reports over the whole     *)
(* bridge (ReportsInv), that idle enforcement is on again needs to know    *)
(* when it was suspended (DeadlineInv), and that the first cause is a root *)
(* cause needs every report made before the interrupt to be one (CauseInv),*)
(* a timeout included (IdleInv).                                           *)
(*                                                                         *)
(* PayloadExact and AnswersExact speak of command boundaries; between them *)
(* FilterInv follows the parser through the command it is in (InPlace) and *)
(* holds the output to the commands already done (ForwardedUpTo,           *)
(* AnsweredUpTo).                                                          *)
(*                                                                         *)
(* HeardExact needs what the relays still hold: RelayInv balances what an  *)
(* end has heard and what is in a relay's hands against the commands read  *)
(* so far (DataBalance, AnswerBalance).  A write then adds what its bytes  *)
(* mean (PayloadHeard, AnswersHeard), since it starts and ends between two *)
(* commands (Whole).                                                       *)
(***************************************************************************)
EXTENDS Bridge, Relay, Recursion, FiniteSetTheorems

ConnType ==
  [open : BOOLEAN, inbox : Seq(SUBSET Effects), sent : 0..MaxChunks,
   stalled : BOOLEAN, dl : {"none", "window", "expired", "past"}]

Reports(d) == IF relay[d].pc = "over" THEN 1 ELSE 0

(* The reports Bridge has taken out of the channel *)
Taken ==
  IF main \in {"cutBackend", "cutClient", "drain"} THEN 1
  ELSE IF main = "restore" \/ (main = "returned" /\ relay["up"].pc = "over") THEN 2 ELSE 0

ReportsInv ==
  /\ main = "dial" => relay["up"].pc = "none" /\ relay["down"].pc = "none"
  /\ main \notin {"dial", "returned"} => relay["up"].pc # "none" /\ relay["down"].pc # "none"
  /\ main = "returned" =>
       \/ relay["up"].pc = "none" /\ relay["down"].pc = "none"
       \/ relay["up"].pc = "over" /\ relay["down"].pc = "over"
  /\ Reports("up") + Reports("down") = Len(results) + Taken

DeadlineInv ==
  /\ idle.manual <=> main \in {"drain", "restore"}
  /\ peer["client"].dl = "past" => idle.manual
  /\ main \in {"dial", "wait"} => peer["backend"].dl = "none"

(* Once this bridge has used the client, an expired window is its own. *)
IdleInv ==
  (main = "wait" /\ (relay["up"].pc \in {"read", "reply"} \/ relay["down"].pc = "forward"))
    => (peer["client"].dl = "expired" => idled)

EscapeInv ==
  /\ relay["down"].chunk \in Chunks("backend")
  /\ peer["backend"].inbox \in Seq(Chunks("backend"))

Root(cause) ==
  /\ cause = "clientClosed" => ~peer["client"].open \/ idled
  /\ cause = "backendClosed" => ~peer["backend"].open
  /\ cause = "userEscaped" => relay["up"].pc = "over" /\ "escape" \in relay["up"].chunk

CauseInv ==
  /\ main \in {"dial", "wait"} => first = "none"
  /\ Root(first)
  /\ main = "wait" => \A i \in 1 .. Len(results) : Root(results[i])

BridgeInv == TypeOK /\ ReportsInv /\ DeadlineInv /\ IdleInv /\ EscapeInv /\ CauseInv

-----------------------------------------------------------------------------
(* BridgeInv holds when Bridge is called.                                  *)
LEMMA BridgeInit == Init => BridgeInv
<1>. SUFFICES ASSUME Init PROVE BridgeInv
  OBVIOUS
<1>1. TypeOK
  <2>1. Fresh \in ConnType
    <3>1. <<>> \in Seq(SUBSET Effects) /\ 0 \in 0 .. MaxChunks
      BY BridgeAssumption
    <3>. QED
      BY <3>1 DEF Fresh, ConnType
  <2>2. relay \in [Dirs -> [pc : RelayStates, chunk : SUBSET Effects]]
    BY DEF Init, RelayStates
  <2>3. idle \in [window : BOOLEAN, manual : BOOLEAN] /\ idled \in BOOLEAN
    BY DEF Init
  <2>4. main \in MainStates /\ first \in Causes \cup {"none"} /\ results \in Seq(Causes) /\ Len(results) <= 2
    BY DEF Init, MainStates
  <2>. QED
    BY <2>1, <2>2, <2>3, <2>4 DEF Init, TypeOK, ConnType
<1>2. ReportsInv
  BY DEF Init, ReportsInv, Reports, Taken, Dirs
<1>3. DeadlineInv /\ IdleInv
  BY DEF Init, DeadlineInv, IdleInv, Fresh, Ends
<1>4. EscapeInv
  <2>1. {} \in Chunks("backend") /\ <<>> \in Seq(Chunks("backend"))
    BY DEF Chunks
  <2>. QED
    BY <2>1 DEF Init, EscapeInv, Fresh, Ends, Dirs
<1>5. CauseInv
  BY DEF Init, CauseInv, Root
<1>. QED
  BY <1>1, <1>2, <1>3, <1>4, <1>5 DEF BridgeInv

(* relay leaves on an escape only.                                         *)
LEMMA StageOK ==
  ASSUME NEW chunk \in SUBSET Effects, NEW done
  PROVE  /\ Stage(chunk, done) \in {"armReply", "armForward", "over", "arm"}
         /\ Stage(chunk, done) = "over" => "escape" \in chunk
BY DEF Stage

(* A relay moves on and keeps its chunk.                                   *)
LEMMA GotoKeepsChunk ==
  ASSUME BridgeInv, NEW d \in Dirs, NEW pc
  PROVE  [relay EXCEPT ![d].pc = pc] = [relay EXCEPT ![d] = [pc |-> pc, chunk |-> relay[d].chunk]]
<1>1. relay \in [Dirs -> [pc : RelayStates, chunk : SUBSET Effects]]
  BY DEF BridgeInv, TypeOK
<1>2. relay[d] \in [pc : RelayStates, chunk : SUBSET Effects]
  BY <1>1
<1>3. [relay[d] EXCEPT !.pc = pc] = [pc |-> pc, chunk |-> relay[d].chunk]
  BY <1>2
<1>. QED
  BY <1>1, <1>3

(* Arming the idle deadline, before a read or a write *)
LEMMA ArmStep ==
  ASSUME BridgeInv, NEW d \in Dirs, Arm(d)
  PROVE  BridgeInv'
<1>. DEFINE e == IF relay[d].pc = "armForward" THEN Dst(d) ELSE Src(d)
<1>1. /\ e \in Ends
      /\ ArmedDeadline(e) \in {"none", "window", "expired", "past"}
      /\ e = "client" /\ ArmedDeadline(e) \in {"past", "expired"} => idle.manual
      /\ e = "backend" => ArmedDeadline(e) = peer["backend"].dl
      /\ idle.manual => ArmedDeadline(e) = peer[e].dl
  BY DEF BridgeInv, TypeOK, ArmedDeadline, Ends, Dirs, Src, Dst
<1>2. /\ peer' = [peer EXCEPT ![e].dl = ArmedDeadline(e)]
      /\ UNCHANGED <<main, results, first, idle, idled>>
      /\ \/ relay[d].pc = "arm" /\ e = Src(d) /\ relay' = [relay EXCEPT ![d].pc = "read"]
         \/ relay[d].pc = "armReply" /\ e = Src(d) /\ relay' = [relay EXCEPT ![d].pc = "reply"]
         \/ relay[d].pc = "armForward" /\ e = Dst(d) /\ relay' = [relay EXCEPT ![d].pc = "forward"]
  BY DEF Arm, Goto
<1>. HIDE DEF e
<1>3. TypeOK'
  <2>1. peer' \in [Ends -> ConnType]
    <3>1. peer \in [Ends -> ConnType]
      BY DEF BridgeInv, TypeOK, ConnType
    <3>2. \A r \in ConnType, v \in {"none", "window", "expired", "past"} : [r EXCEPT !.dl = v] \in ConnType
      BY DEF ConnType
    <3>3. [peer[e] EXCEPT !.dl = ArmedDeadline(e)] \in ConnType
      BY <1>1, <3>1, <3>2
    <3>. QED
      BY <1>2, <3>1, <3>3
  <2>2. relay' \in [Dirs -> [pc : RelayStates, chunk : SUBSET Effects]]
    <3>1. relay \in [Dirs -> [pc : RelayStates, chunk : SUBSET Effects]]
      BY DEF BridgeInv, TypeOK
    <3>2. PICK pc \in RelayStates : relay' = [relay EXCEPT ![d] = [pc |-> pc, chunk |-> relay[d].chunk]]
      BY <1>2, GotoKeepsChunk DEF RelayStates
    <3>. QED
      BY <3>1, <3>2
  <2>. QED
    BY <1>2, <2>1, <2>2 DEF BridgeInv, TypeOK, ConnType
<1>4. ReportsInv'
  BY <1>2 DEF BridgeInv, TypeOK, ReportsInv, Reports, Taken, Dirs
<1>5. DeadlineInv'
  BY <1>1, <1>2 DEF BridgeInv, TypeOK, DeadlineInv, Ends
<1>6. IdleInv'
  <2>. SUFFICES ASSUME main = "wait", peer'["client"].dl = "expired",
                       relay'["up"].pc \in {"read", "reply"} \/ relay'["down"].pc = "forward"
                PROVE  idled
    BY <1>2 DEF IdleInv
  <2>1. ~idle.manual /\ peer \in [Ends -> ConnType] /\ relay \in [Dirs -> [pc : RelayStates, chunk : SUBSET Effects]]
    BY DEF BridgeInv, TypeOK, DeadlineInv, ConnType
  <2>2. CASE e = "client"
    <3>1. peer'["client"].dl = ArmedDeadline("client")
      BY <1>1, <1>2, <2>1, <2>2 DEF ConnType
    <3>. QED
      BY <1>1, <2>1, <2>2, <3>1
  <2>3. CASE e = "backend"
    <3>1. peer'["client"] = peer["client"]
      BY <1>2, <2>1, <2>3 DEF Ends
    <3>2. relay["up"].pc \in {"read", "reply"} \/ relay["down"].pc = "forward"
      BY <1>2, <2>1, <2>3 DEF Dirs, Src, Dst
    <3>. QED
      BY <1>2, <3>1, <3>2 DEF BridgeInv, IdleInv
  <2>. QED
    BY <1>1, <2>2, <2>3 DEF Ends
<1>7. EscapeInv'
  BY <1>1, <1>2 DEF BridgeInv, TypeOK, EscapeInv, Ends, Dirs
<1>8. CauseInv'
  BY <1>1, <1>2 DEF BridgeInv, TypeOK, CauseInv, Root, Ends, Dirs
<1>. QED
  BY <1>3, <1>4, <1>5, <1>6, <1>7, <1>8 DEF BridgeInv

(* A relay moves on, and reports if it is over; no connection changes but  *)
(* for the chunk it took.                                                  *)
LEMMA RelayMoves ==
  ASSUME BridgeInv, NEW d \in Dirs, NEW pc \in RelayStates \ {"none", "read", "reply", "forward"},
         NEW c \in Chunks(Src(d)), NEW cause \in Causes,
         relay[d].pc \notin {"none", "over"},
         relay' = [relay EXCEPT ![d] = [pc |-> pc, chunk |-> c]],
         results' = IF pc = "over" THEN Append(results, cause) ELSE results,
         pc = "over" /\ main = "wait" => Root(cause)',
         relay["up"].pc = "over" => relay'["up"] = relay["up"],
         UNCHANGED <<main, first, idle, idled>>,
         \/ UNCHANGED peer
         \/ peer[Src(d)].inbox # <<>> /\ peer' = [peer EXCEPT ![Src(d)].inbox = Tail(@)]
  PROVE  BridgeInv'
<1>1. /\ \A x \in Ends : /\ peer'[x].open = peer[x].open /\ peer'[x].dl = peer[x].dl
                         /\ peer'[x].sent = peer[x].sent /\ peer'[x].stalled = peer[x].stalled
      /\ peer'["backend"].inbox \in Seq(Chunks("backend"))
      /\ peer' \in [Ends -> ConnType]
  <2>1. CASE UNCHANGED peer
    BY <2>1 DEF BridgeInv, TypeOK, EscapeInv, ConnType
  <2>2. CASE peer[Src(d)].inbox # <<>> /\ peer' = [peer EXCEPT ![Src(d)].inbox = Tail(@)]
    <3>1. Src(d) \in Ends /\ peer \in [Ends -> ConnType] /\ peer["backend"].inbox \in Seq(Chunks("backend"))
      BY DEF BridgeInv, TypeOK, EscapeInv, ConnType, Src, Ends
    <3>2. Tail(peer[Src(d)].inbox) \in Seq(SUBSET Effects)
      BY <2>2, <3>1 DEF ConnType
    <3>3. peer["backend"].inbox # <<>> => Tail(peer["backend"].inbox) \in Seq(Chunks("backend"))
      BY <3>1
    <3>. QED
      BY <2>2, <3>1, <3>2, <3>3 DEF ConnType, Ends
  <2>. QED
    BY <2>1, <2>2
<1>2. c \in SUBSET Effects /\ (d = "down" => c \in Chunks("backend"))
  BY DEF Chunks, Src, Dirs
<1>3. ReportsInv' /\ results' \in Seq(Causes) /\ Len(results') <= 2
  <2>1. results \in Seq(Causes) /\ relay \in [Dirs -> [pc : RelayStates, chunk : SUBSET Effects]]
    BY DEF BridgeInv, TypeOK
  <2>2. results' \in Seq(Causes) /\ Len(results') = Len(results) + IF pc = "over" THEN 1 ELSE 0
    BY <2>1
  <2>3. main \notin {"dial", "returned"}
    BY DEF BridgeInv, ReportsInv, Dirs
  <2>4. Taken \in Nat /\ Taken' = Taken
    BY <2>3 DEF Taken
  <2>5. /\ relay'[d].pc = pc /\ \A x \in Dirs \ {d} : relay'[x] = relay[x]
        /\ relay[d].pc # "over" /\ pc # "none"
    BY <2>1
  <2>6. Reports("up")' + Reports("down")' = Reports("up") + Reports("down") + IF pc = "over" THEN 1 ELSE 0
    BY <2>5 DEF Reports, Dirs
  <2>7. Reports("up") \in 0 .. 1 /\ Reports("down") \in 0 .. 1
    BY DEF Reports
  <2>8. Reports("up")' \in 0 .. 1 /\ Reports("down")' \in 0 .. 1
    BY DEF Reports
  <2>9. Reports("up")' + Reports("down")' = Len(results') + Taken'
    BY <2>1, <2>2, <2>4, <2>6, <2>7 DEF BridgeInv, ReportsInv
  <2>10. Len(results') <= 2
    BY <2>2, <2>4, <2>8, <2>9
  <2>. QED
    BY <2>2, <2>3, <2>5, <2>9, <2>10 DEF BridgeInv, ReportsInv, Dirs
<1>4. TypeOK'
  BY <1>1, <1>2, <1>3 DEF BridgeInv, TypeOK, ConnType
<1>5. DeadlineInv'
  BY <1>1 DEF BridgeInv, DeadlineInv, Ends
<1>6. IdleInv'
  BY <1>1 DEF BridgeInv, TypeOK, IdleInv, Ends, Dirs
<1>7. EscapeInv'
  BY <1>1, <1>2 DEF BridgeInv, TypeOK, EscapeInv, Dirs
<1>8. ASSUME NEW x, Root(x) PROVE Root(x)'
  BY <1>1, <1>8 DEF Root, Ends
<1>9. CauseInv'
  <2>1. Root(first)' /\ (main' \in {"dial", "wait"} => first' = "none")
    BY <1>8 DEF BridgeInv, CauseInv, Root
  <2>2. ASSUME main' = "wait", NEW i \in 1 .. Len(results') PROVE Root(results[i])'
    <3>1. CASE i \in 1 .. Len(results) /\ results'[i] = results[i]
      BY <1>1, <2>2, <3>1 DEF BridgeInv, CauseInv, Root, Ends
    <3>2. CASE pc = "over" /\ results'[i] = cause
      BY <2>2, <3>2 DEF Root
    <3>. QED
      BY <2>2, <3>1, <3>2 DEF BridgeInv, TypeOK
  <2>. QED
    BY <2>1, <2>2 DEF CauseInv
<1>. QED
  BY <1>4, <1>3, <1>5, <1>6, <1>7, <1>9 DEF BridgeInv

(* The steps of a relay *)
LEMMA RelayStep ==
  ASSUME BridgeInv, NEW d \in Dirs, Relay(d)
  PROVE  BridgeInv'
<1>. USE DEF Dirs
<1>1. /\ relay[d] \in [pc : RelayStates, chunk : SUBSET Effects]
      /\ relay[d].chunk \in Chunks(Src(d))
      /\ relay[d] = [pc |-> relay[d].pc, chunk |-> relay[d].chunk]
      /\ relay \in [Dirs -> [pc : RelayStates, chunk : SUBSET Effects]]
  BY DEF BridgeInv, TypeOK, EscapeInv, Chunks, Src
<1>2. relay[d].pc \in {"read", "reply", "forward"} => main \notin {"dial", "returned"}
  BY DEF BridgeInv, ReportsInv
<1>3. CASE Arm(d)
  BY <1>3, ArmStep
<1>4. CASE ReadChunk(d)
  <2>. DEFINE chunk == Head(peer[Src(d)].inbox)
              next == Stage(chunk, {})
  <2>1. /\ relay[d].pc = "read" /\ peer[Src(d)].inbox # <<>>
        /\ peer' = [peer EXCEPT ![Src(d)].inbox = Tail(@)]
        /\ relay' = [relay EXCEPT ![d] = [pc |-> next, chunk |-> chunk]]
        /\ results' = IF next = "over" THEN Append(results, "userEscaped") ELSE results
        /\ UNCHANGED <<main, first, idle, idled>>
    BY <1>4 DEF ReadChunk
  <2>2. chunk \in Chunks(Src(d)) /\ chunk \in SUBSET Effects
    <3>1. peer[Src(d)].inbox \in Seq(Chunks(Src(d)))
      BY DEF BridgeInv, TypeOK, EscapeInv, Chunks, Src, Ends
    <3>. QED
      BY <2>1, <3>1 DEF Chunks
  <2>. HIDE DEF chunk
  <2>3. /\ next \in RelayStates \ {"none", "read", "reply", "forward"}
        /\ next = "over" => "escape" \in chunk
    BY <2>2, StageOK DEF RelayStates
  <2>. HIDE DEF next
  <2>4. next = "over" => Root("userEscaped")'
    BY <1>1, <2>1, <2>2, <2>3 DEF Root, Chunks, Src
  <2>. QED
    BY <1>1, <2>1, <2>2, <2>3, <2>4, RelayMoves DEF Causes
<1>5. CASE ReadFails(d)
  <2>. DEFINE cause == IF d = "up" THEN "clientClosed" ELSE "backendClosed"
  <2>1. /\ relay[d].pc = "read" /\ (~peer[Src(d)].open \/ TimedOut(Src(d)))
        /\ relay' = [relay EXCEPT ![d] = [pc |-> "over", chunk |-> relay[d].chunk]]
        /\ results' = Append(results, cause)
        /\ UNCHANGED <<main, first, peer, idle, idled>>
    BY <1>5, GotoKeepsChunk DEF ReadFails, Report, Goto
  <2>2. main = "wait" => Root(cause)'
    BY <2>1 DEF BridgeInv, IdleInv, DeadlineInv, Root, TimedOut, Src
  <2>. HIDE DEF cause
  <2>3. cause \in Causes
    BY DEF cause, Causes
  <2>. QED
    BY <1>1, <2>1, <2>2, <2>3, RelayMoves DEF RelayStates
<1>6. CASE WriteOk(d)
  <2>. DEFINE done == IF relay[d].pc = "reply" THEN {"reply"} ELSE {"reply", "forward"}
              next == Stage(relay[d].chunk, done)
  <2>1. /\ relay[d].pc \in {"reply", "forward"}
        /\ relay' = [relay EXCEPT ![d] = [pc |-> next, chunk |-> relay[d].chunk]]
        /\ results' = IF next = "over" THEN Append(results, "userEscaped") ELSE results
        /\ UNCHANGED <<main, first, peer, idle, idled>>
    BY <1>6, GotoKeepsChunk DEF WriteOk, Goto
  <2>2. /\ next \in RelayStates \ {"none", "read", "reply", "forward"}
        /\ next = "over" => "escape" \in relay[d].chunk
    BY <1>1, StageOK DEF RelayStates
  <2>. HIDE DEF next, done
  <2>3. next = "over" => Root("userEscaped")'
    BY <1>1, <2>1, <2>2 DEF Root, Chunks, Src
  <2>. QED
    BY <1>1, <2>1, <2>2, <2>3, RelayMoves DEF Causes
<1>7. CASE WriteFails(d)
  <2>1. /\ relay[d].pc \in {"reply", "forward"}
        /\ relay' = [relay EXCEPT ![d] = [pc |-> "over", chunk |-> relay[d].chunk]]
        /\ results' = Append(results, "error")
        /\ UNCHANGED <<main, first, peer, idle, idled>>
    BY <1>7, GotoKeepsChunk DEF WriteFails, Report, Goto
  <2>2. Root("error")'
    BY DEF Root
  <2>. QED
    BY <1>1, <2>1, <2>2, RelayMoves DEF RelayStates, Causes
<1>. QED
  BY <1>3, <1>4, <1>5, <1>6, <1>7 DEF Relay

(* The steps of Bridge: what it takes from the channel is accounted for,   *)
(* and idle enforcement is suspended from CutClient to Restore.            *)
LEMMA MainStep ==
  ASSUME BridgeInv, Main
  PROVE  BridgeInv'
<1>. USE DEF Dirs, Ends
<1>1. /\ results \in Seq(Causes) /\ peer \in [Ends -> ConnType]
      /\ Reports("up") \in 0 .. 1 /\ Reports("down") \in 0 .. 1
  BY DEF BridgeInv, TypeOK, ConnType, Reports
<1>2. CASE DialOk
  <2>1. relay' \in [Dirs -> [pc : RelayStates, chunk : SUBSET Effects]]
    BY <1>2 DEF DialOk, RelayStates
  <2>2. TypeOK'
    BY <1>2, <2>1 DEF DialOk, BridgeInv, TypeOK, MainStates
  <2>3. ReportsInv'
    BY <1>1, <1>2 DEF DialOk, BridgeInv, ReportsInv, Reports, Taken
  <2>4. DeadlineInv' /\ IdleInv'
    BY <1>2 DEF DialOk, BridgeInv, DeadlineInv, IdleInv
  <2>5. EscapeInv'
    BY <1>2 DEF DialOk, BridgeInv, EscapeInv, Chunks
  <2>6. results = <<>>
    BY <1>1, <1>2 DEF DialOk, BridgeInv, ReportsInv, Reports, Taken
  <2>7. CauseInv'
    BY <1>2, <2>6 DEF DialOk, BridgeInv, CauseInv, Root
  <2>. QED
    BY <2>2, <2>3, <2>4, <2>5, <2>7 DEF BridgeInv
<1>3. CASE DialFails
  <2>1. TypeOK'
    BY <1>3 DEF DialFails, BridgeInv, TypeOK, MainStates, Causes
  <2>2. ReportsInv' /\ DeadlineInv' /\ IdleInv' /\ EscapeInv'
    BY <1>1, <1>3 DEF DialFails, BridgeInv, ReportsInv, Reports, Taken, DeadlineInv, IdleInv, EscapeInv
  <2>3. CauseInv'
    BY <1>3 DEF DialFails, BridgeInv, CauseInv, Root
  <2>. QED
    BY <2>1, <2>2, <2>3 DEF BridgeInv
<1>4. CASE TakeFirst
  <2>1. /\ Head(results) = results[1] /\ 1 \in 1 .. Len(results) /\ results[1] \in Causes
        /\ Tail(results) \in Seq(Causes) /\ Len(Tail(results)) = Len(results) - 1
    BY <1>1, <1>4 DEF TakeFirst
  <2>2. TypeOK'
    BY <1>4, <2>1 DEF TakeFirst, BridgeInv, TypeOK, MainStates
  <2>3. ReportsInv'
    BY <1>1, <1>4, <2>1 DEF TakeFirst, BridgeInv, ReportsInv, Reports, Taken
  <2>4. DeadlineInv' /\ IdleInv' /\ EscapeInv'
    BY <1>4 DEF TakeFirst, BridgeInv, DeadlineInv, IdleInv, EscapeInv
  <2>5. Root(results[1])
    BY <1>4, <2>1 DEF TakeFirst, BridgeInv, CauseInv
  <2>6. CauseInv'
    BY <1>4, <2>1, <2>5 DEF TakeFirst, CauseInv, Root
  <2>. QED
    BY <2>2, <2>3, <2>4, <2>6 DEF BridgeInv
<1>5. CASE Drain
  <2>1. Tail(results) \in Seq(Causes) /\ Len(Tail(results)) = Len(results) - 1
    BY <1>1, <1>5 DEF Drain
  <2>2. TypeOK'
    BY <1>5, <2>1 DEF Drain, BridgeInv, TypeOK, MainStates
  <2>3. ReportsInv'
    BY <1>1, <1>5, <2>1 DEF Drain, BridgeInv, ReportsInv, Reports, Taken
  <2>4. DeadlineInv' /\ IdleInv' /\ EscapeInv'
    BY <1>5 DEF Drain, BridgeInv, DeadlineInv, IdleInv, EscapeInv
  <2>5. CauseInv'
    BY <1>5 DEF Drain, BridgeInv, CauseInv, Root
  <2>. QED
    BY <2>2, <2>3, <2>4, <2>5 DEF BridgeInv
<1>6. CASE CutBackend \/ CutClient \/ Restore
  <2>1. /\ peer' \in [Ends -> ConnType]
        /\ \A e \in Ends : peer'[e].open = peer[e].open /\ peer'[e].inbox = peer[e].inbox
    <3>1. CASE CutBackend
      BY <1>1, <3>1 DEF CutBackend, ConnType
    <3>2. CASE CutClient
      BY <1>1, <3>2 DEF CutClient, ConnType
    <3>3. CASE Restore
      BY <1>1, <3>3 DEF Restore, ConnType
    <3>. QED
      BY <1>6, <3>1, <3>2, <3>3
  <2>2. idle' \in [window : BOOLEAN, manual : BOOLEAN]
    BY <1>6 DEF CutBackend, CutClient, Restore, BridgeInv, TypeOK
  <2>3. main' \in MainStates /\ UNCHANGED <<relay, results, first, idled>>
    BY <1>6 DEF CutBackend, CutClient, Restore, MainStates
  <2>4. TypeOK'
    BY <2>1, <2>2, <2>3 DEF BridgeInv, TypeOK, ConnType
  <2>5. ReportsInv'
    BY <1>1, <1>6 DEF CutBackend, CutClient, Restore, BridgeInv, ReportsInv, Reports, Taken
  <2>6. DeadlineInv' /\ IdleInv'
    BY <1>1, <1>6 DEF CutBackend, CutClient, Restore, BridgeInv, TypeOK, DeadlineInv, IdleInv, ConnType
  <2>7. EscapeInv'
    BY <2>1, <2>3 DEF BridgeInv, EscapeInv
  <2>8. CauseInv'
    BY <1>6, <2>1, <2>3 DEF CutBackend, CutClient, Restore, BridgeInv, CauseInv, Root
  <2>. QED
    BY <2>4, <2>5, <2>6, <2>7, <2>8 DEF BridgeInv
<1>. QED
  BY <1>2, <1>3, <1>4, <1>5, <1>6 DEF Main

(* The user picks a service again: a fresh backend.                        *)
LEMMA AgainStep ==
  ASSUME BridgeInv, BridgeAgain
  PROVE  BridgeInv'
<1>. USE DEF Dirs, Ends
<1>1. <<>> \in Seq(Chunks("backend")) /\ {} \in Chunks("backend") /\ {} \in SUBSET Effects
  BY DEF Chunks
<1>2. Fresh \in ConnType /\ Fresh.dl = "none" /\ Fresh.inbox = <<>>
  <2>1. <<>> \in Seq(SUBSET Effects) /\ 0 \in 0 .. MaxChunks
    BY BridgeAssumption
  <2>. QED
    BY <2>1 DEF Fresh, ConnType
<1>3. /\ peer' \in [Ends -> ConnType] /\ peer'["client"] = peer["client"] /\ peer'["backend"] = Fresh
      /\ relay' \in [Dirs -> [pc : RelayStates, chunk : SUBSET Effects]]
      /\ relay'["up"].pc = "none" /\ relay'["down"].pc = "none" /\ relay'["down"].chunk = {}
  <2>1. peer \in [Ends -> ConnType]
    BY DEF BridgeInv, TypeOK, ConnType
  <2>. QED
    BY <1>1, <1>2, <2>1 DEF BridgeAgain, RelayStates
<1>4. main = "returned" /\ main' = "dial" /\ first' = "none" /\ idled' = FALSE /\ UNCHANGED <<results, idle>>
  BY DEF BridgeAgain
<1>5. TypeOK'
  BY <1>3, <1>4 DEF BridgeInv, TypeOK, MainStates, ConnType
<1>6. Len(results) = 0
  BY <1>4 DEF BridgeInv, TypeOK, ReportsInv, Reports, Taken
<1>7. ReportsInv'
  BY <1>3, <1>4, <1>6 DEF ReportsInv, Reports, Taken
<1>8. DeadlineInv' /\ IdleInv' /\ CauseInv'
  BY <1>2, <1>3, <1>4, <1>6 DEF BridgeInv, DeadlineInv, IdleInv, CauseInv, Root
<1>9. EscapeInv'
  BY <1>1, <1>2, <1>3 DEF EscapeInv
<1>. QED
  BY <1>5, <1>7, <1>8, <1>9 DEF BridgeInv

(* The peers send, close and stall, and the idle window runs out.          *)
LEMMA PeerStep ==
  ASSUME BridgeInv,
         WindowExpires \/ \E e \in Ends : Send(e) \/ Close(e) \/ Stall(e)
  PROVE  BridgeInv'
<1>. USE DEF Dirs, Ends
<1>1. peer \in [Ends -> ConnType] /\ MaxChunks \in Nat
  BY BridgeAssumption DEF BridgeInv, TypeOK, ConnType
<1>2. ASSUME NEW e \in Ends, Send(e) PROVE BridgeInv'
  <2>1. PICK c \in Chunks(e) :
          peer' = [peer EXCEPT ![e].inbox = Append(@, c), ![e].sent = @ + 1]
    BY <1>2 DEF Send
  <2>2. /\ Append(peer[e].inbox, c) \in Seq(SUBSET Effects)
        /\ e = "backend" => Append(peer[e].inbox, c) \in Seq(Chunks("backend"))
    BY <1>1 DEF Chunks, ConnType, BridgeInv, EscapeInv
  <2>3. peer[e].sent + 1 \in 0 .. MaxChunks
    <3>1. peer[e].sent \in 0 .. MaxChunks /\ peer[e].sent < MaxChunks
      BY <1>1, <1>2 DEF Send, ConnType
    <3>. QED
      BY <1>1, <3>1
  <2>4. UNCHANGED <<main, relay, results, first, idle, idled>>
    BY <1>2 DEF Send
  <2>5. /\ peer' \in [Ends -> ConnType]
        /\ \A x \in Ends : peer'[x].open = peer[x].open /\ peer'[x].dl = peer[x].dl
        /\ peer'["backend"].inbox \in Seq(Chunks("backend"))
    <3>1. [peer[e] EXCEPT !.inbox = Append(peer[e].inbox, c), !.sent = peer[e].sent + 1] \in ConnType
      BY <1>1, <2>2, <2>3 DEF ConnType
    <3>2. peer' = [peer EXCEPT ![e] =
                     [peer[e] EXCEPT !.inbox = Append(peer[e].inbox, c), !.sent = peer[e].sent + 1]]
      BY <1>1, <2>1
    <3>3. /\ peer'[e].open = peer[e].open /\ peer'[e].dl = peer[e].dl
          /\ peer'[e].inbox = Append(peer[e].inbox, c)
          /\ \A x \in Ends \ {e} : peer'[x] = peer[x]
      BY <1>1, <3>2 DEF ConnType
    <3>. QED
      BY <1>1, <2>2, <3>1, <3>2, <3>3 DEF BridgeInv, EscapeInv
  <2>6. TypeOK'
    BY <2>4, <2>5 DEF BridgeInv, TypeOK, ConnType
  <2>7. ReportsInv' /\ DeadlineInv' /\ IdleInv'
    BY <2>4, <2>5 DEF BridgeInv, ReportsInv, Reports, Taken, DeadlineInv, IdleInv
  <2>8. EscapeInv' /\ CauseInv'
    BY <2>4, <2>5 DEF BridgeInv, EscapeInv, CauseInv, Root
  <2>. QED
    BY <2>6, <2>7, <2>8 DEF BridgeInv
<1>3. ASSUME NEW e \in Ends, Close(e) \/ Stall(e) PROVE BridgeInv'
  <2>1. /\ peer' \in [Ends -> ConnType]
        /\ \A x \in Ends : /\ peer'[x].dl = peer[x].dl /\ peer'[x].inbox = peer[x].inbox
                           /\ ~peer[x].open => ~peer'[x].open
        /\ UNCHANGED <<main, relay, results, first, idle, idled>>
    <3>1. CASE Close(e)
      BY <1>1, <3>1 DEF Close, ConnType
    <3>2. CASE Stall(e)
      BY <1>1, <3>2 DEF Stall, ConnType
    <3>. QED
      BY <1>3, <3>1, <3>2
  <2>2. TypeOK'
    BY <2>1 DEF BridgeInv, TypeOK, ConnType
  <2>3. ReportsInv' /\ DeadlineInv' /\ IdleInv'
    BY <2>1 DEF BridgeInv, ReportsInv, Reports, Taken, DeadlineInv, IdleInv
  <2>4. EscapeInv' /\ CauseInv'
    BY <2>1 DEF BridgeInv, EscapeInv, CauseInv, Root
  <2>. QED
    BY <2>2, <2>3, <2>4 DEF BridgeInv
<1>4. CASE WindowExpires
  <2>1. /\ peer' \in [Ends -> ConnType] /\ idled'
        /\ \A x \in Ends : peer'[x].open = peer[x].open /\ peer'[x].inbox = peer[x].inbox
        /\ peer'["client"].dl = "expired" /\ peer'["backend"] = peer["backend"]
        /\ UNCHANGED <<main, relay, results, first, idle>>
    BY <1>1, <1>4 DEF WindowExpires, ConnType
  <2>2. TypeOK'
    BY <1>4, <2>1 DEF WindowExpires, BridgeInv, TypeOK, ConnType
  <2>3. ReportsInv' /\ DeadlineInv' /\ IdleInv'
    BY <2>1 DEF BridgeInv, ReportsInv, Reports, Taken, DeadlineInv, IdleInv
  <2>4. EscapeInv' /\ CauseInv'
    BY <2>1 DEF BridgeInv, EscapeInv, CauseInv, Root
  <2>. QED
    BY <2>2, <2>3, <2>4 DEF BridgeInv
<1>. QED
  BY <1>2, <1>3, <1>4

(* BridgeInv is inductive.                                                 *)
LEMMA BridgeStep == BridgeInv /\ [Next]_vars => BridgeInv'
<1>. SUFFICES ASSUME BridgeInv, [Next]_vars PROVE BridgeInv'
  OBVIOUS
<1>1. CASE UNCHANGED vars
  BY <1>1 DEF vars, BridgeInv, TypeOK, ReportsInv, Reports, Taken, DeadlineInv, IdleInv, EscapeInv,
              CauseInv, Root
<1>. QED
  BY <1>1, RelayStep, MainStep, AgainStep, PeerStep DEF Next, Rest

(* So it always holds.                                                     *)
LEMMA BridgeAlways == Spec => []BridgeInv
BY BridgeInit, BridgeStep, PTL DEF Spec

(* Whatever ended the bridge, the menu gets back a client that no relay    *)
(* uses and that idles out again (Bridge, relay, idleConn.SetDeadline).    *)
THEOREM Handback == Spec => []CleanHandback
<1>1. BridgeInv => CleanHandback
  <2>. SUFFICES ASSUME BridgeInv PROVE CleanHandback
    OBVIOUS
  <2>1. TypeOK
    BY DEF BridgeInv
  <2>2. ASSUME main = "returned" PROVE results = <<>>
    <3>1. Len(results) = 0
      BY <2>2 DEF BridgeInv, TypeOK, ReportsInv, Reports, Taken
    <3>. QED
      BY <3>1 DEF BridgeInv, TypeOK
  <2>3. ASSUME main = "returned", NEW d \in Dirs PROVE relay[d].pc \in {"none", "over"}
    BY <2>3 DEF BridgeInv, ReportsInv, Dirs
  <2>4. main = "returned" => ~idle.manual /\ peer["client"].dl # "past"
    BY DEF BridgeInv, DeadlineInv
  <2>. QED
    BY <2>1, <2>2, <2>3, <2>4 DEF CleanHandback
<1>. QED
  BY <1>1, BridgeAlways, PTL

(* The session is told why the bridge ended, not how its own interrupt     *)
(* looked to the other relay (Bridge, relay).                              *)
THEOREM FirstCause == Spec => []CauseIsRootCause
<1>1. BridgeInv => CauseIsRootCause
  BY DEF BridgeInv, CauseInv, Root, CauseIsRootCause
<1>. QED
  BY <1>1, BridgeAlways, PTL

-----------------------------------------------------------------------------
(* The Telnet filter *)

(* The forwarded stream as the parser sees it: until the escape, it is at  *)
(* the start of a record exactly when the last thing forwarded ended one.  *)
AtBoundary == forward = <<>> \/ forward[Len(forward)] = Framing(cEOR)

RecordStart == ~escaped => (atRecStart <=> AtBoundary)

ProcessorInv == ProcessorOK /\ RecordStart /\ EscapeContained

(* What a command is on the wire is a sequence of bytes. *)
LEMMA WireBytes == \A w \in Wire : w.bytes \in Seq(Byte)
<1>0. {cIAC, cDO, cWILL, cWONT, cNOP, cSB, cSE, cEOR} \subseteq Byte
  BY DEF Byte, cIAC, cDO, cWILL, cWONT, cNOP, cSB, cSE, cEOR
<1>1. \A b \in DataBytes : <<b>> \in Seq(Byte)
  BY TelnetAssumption
<1>2. \A b \in {cIAC, cEOR, cNOP} : <<cIAC, b>> \in Seq(Byte)
  BY <1>0
<1>3. \A c \in {cDO, cWILL, cWONT}, o \in Options : <<cIAC, c, o>> \in Seq(Byte)
  BY <1>0, TelnetAssumption
<1>4. \A s \in Payloads, b \in {cSE, cNOP} :
        <<cIAC, cSB>> \o s.wire \o <<cIAC, b>> \in Seq(Byte)
  <2> TAKE s \in Payloads, b \in {cSE, cNOP}
  <2>1. s.wire \in Seq(Byte)
    BY TelnetAssumption
  <2>2. <<cIAC, cSB>> \in Seq(Byte) /\ <<cIAC, b>> \in Seq(Byte)
    BY <1>0
  <2>3. <<cIAC, cSB>> \o s.wire \in Seq(Byte)
    BY <2>1, <2>2, ConcatProperties
  <2> QED
    BY <2>2, <2>3, ConcatProperties
<1>5. ASSUME NEW w \in Wire PROVE w.bytes \in Seq(Byte)
  <2>1. CASE w \in DataCommands
    <3>1. PICK b \in DataBytes : w = Command(<<b>>, <<Data(b)>>, <<>>)
      BY <2>1, Zenon DEF DataCommands
    <3>2. w.bytes = <<b>>
      BY <3>1 DEF Command
    <3> QED
      BY <1>1, <3>2
  <2>2. CASE w \in FramingCommands \cup IgnoredCommands
    BY <1>2, <2>2 DEF FramingCommands, IgnoredCommands, Command
  <2>3. CASE w \in Negotiations
    <3>1. PICK c \in {cDO, cWILL, cWONT} \X Options : w.bytes = <<cIAC, c[1], c[2]>>
      BY <2>3 DEF Negotiations, Command
    <3> QED
      BY <1>3, <3>1
  <2>4. CASE w \in Subnegotiations \cup BrokenSubnegotiations
    <3>1. PICK s \in Payloads, b \in {cSE, cNOP} :
            \E a : w = Command(<<cIAC, cSB>> \o s.wire \o <<cIAC, b>>, <<>>, a)
      BY <2>4, Zenon DEF Subnegotiations, BrokenSubnegotiations
    <3>2. w.bytes = <<cIAC, cSB>> \o s.wire \o <<cIAC, b>>
      BY <3>1 DEF Command
    <3> QED
      BY <1>4, <3>2
  <2> QED
    BY <2>1, <2>2, <2>3, <2>4 DEF Wire
<1> QED
  BY <1>5

(* A byte taken from the buffer is a byte, and a sequence of bytes is left. *)
LEMMA TakeByte ==
  ASSUME ProcessorOK, Consume
  PROVE  NextByte \in Byte /\ inbuf' \in Seq(Byte) /\ ~escaped
BY DEF ProcessorOK, Consume, NextByte

(* Appending one unit: the only facts about sequences the proof needs *)
LEMMA Extend ==
  ASSUME NEW S, NEW f \in Seq(S), NEW u \in S
  PROVE  /\ Append(f, u) \in Seq(S)
         /\ Append(f, u) # <<>>
         /\ Len(Append(f, u)) = Len(f) + 1
         /\ Append(f, u)[Len(f) + 1] = u
         /\ \A i \in 1 .. Len(f) : Append(f, u)[i] = f[i]
OBVIOUS

(* The unit forwarded decides the boundary and, on the user's leg, may not *)
(* be the escape AID when the stream is at one.                            *)
LEMMA ForwardUnit ==
  ASSUME ProcessorOK, EscapeContained, escaped' = FALSE, role' = role,
         NEW u \in {"data", "iac"} \X Byte,
         forward' = Append(forward, u),
         role = "roleServer" /\ AtBoundary => u # Data(aidPA3)
  PROVE  /\ forward' \in Seq({"data", "iac"} \X Byte)
         /\ AtBoundary' <=> (u = Framing(cEOR))
         /\ EscapeContained'
<1> DEFINE n == Len(forward)
<1>1. /\ forward' \in Seq({"data", "iac"} \X Byte)
      /\ forward' # <<>>
      /\ Len(forward') = n + 1
      /\ forward'[n + 1] = u
      /\ \A i \in 1 .. n : forward'[i] = forward[i]
      /\ n \in Nat
  <2> DEFINE S == {"data", "iac"} \X Byte
  <2>1. forward \in Seq(S) /\ u \in S
    BY DEF ProcessorOK
  <2> HIDE DEF S
  <2>2. /\ Append(forward, u) \in Seq(S)
        /\ Append(forward, u) # <<>>
        /\ Len(Append(forward, u)) = Len(forward) + 1
        /\ Append(forward, u)[Len(forward) + 1] = u
        /\ \A i \in 1 .. Len(forward) : Append(forward, u)[i] = forward[i]
        /\ Len(forward) \in Nat
    BY <2>1, Extend
  <2> QED
    BY <2>2 DEF S
<1>2. AtBoundary' <=> (u = Framing(cEOR))
  BY <1>1 DEF AtBoundary
<1>3. ASSUME role = "roleServer", NEW i \in 1 .. n + 1,
             forward'[i] = Data(aidPA3)
      PROVE  i > 1 /\ forward'[i - 1] # Framing(cEOR)
  <2>1. CASE i = n + 1
    BY <1>1, <1>3, <2>1 DEF AtBoundary, ProcessorOK
  <2>2. CASE i \in 1 .. n
    BY <1>1, <1>3, <2>2 DEF EscapeContained
  <2> QED
    BY <1>1, <2>1, <2>2
<1> QED
  BY <1>1, <1>2, <1>3 DEF EscapeContained

(* ProcessorInv holds before the first byte.                                     *)
LEMMA InitInd == ProcessorInit => ProcessorInv
<1> SUFFICES ASSUME ProcessorInit PROVE ProcessorInv
  OBVIOUS
<1>1. ProcessorOK
  <2>1. \A S : <<>> \in Seq(S)
    OBVIOUS
  <2>2. Len(<<>>) <= maxSubnegLen
    BY TelnetAssumption
  <2>3. 0 \in Byte
    BY DEF Byte
  <2> QED
    BY <2>1, <2>2, <2>3 DEF ProcessorInit, ProcessorOK, pstate
<1>2. RecordStart
  BY DEF ProcessorInit, RecordStart, AtBoundary
<1>3. EscapeContained
  BY DEF ProcessorInit, EscapeContained
<1> QED
  BY <1>1, <1>2, <1>3 DEF ProcessorInv

(* A byte in the data state                                                *)
LEMMA DataStep ==
  ASSUME ProcessorInv, StDataByte
  PROVE  ProcessorInv'
<1> USE DEF ProcessorInv
<1>0. NextByte \in Byte /\ inbuf' \in Seq(Byte) /\ ~escaped
  BY TakeByte DEF StDataByte
<1>1. UNCHANGED <<role, sent, optCmd, subneg, subnegOverflow, reply>>
  BY DEF StDataByte, Consume
<1>2. CASE NextByte = cIAC
  BY <1>0, <1>1, <1>2
  DEF StDataByte, ProcessorOK, RecordStart, AtBoundary, EscapeContained, pstate
<1>3. CASE NextByte # cIAC /\ escaped'
  BY <1>0, <1>1, <1>3
  DEF StDataByte, ProcessorOK, RecordStart, AtBoundary, EscapeContained, pstate
<1>4. CASE NextByte # cIAC /\ ~escaped'
  <2>1. /\ forward' = Append(forward, Data(NextByte))
        /\ atRecStart' = FALSE
        /\ state' = state
        /\ escaped' = FALSE
        /\ ~(atRecStart /\ escapeAID # 0 /\ NextByte = escapeAID)
    BY <1>4 DEF StDataByte
  <2>2. Data(NextByte) \in {"data", "iac"} \X Byte
    BY <1>0 DEF Data
  <2>3. role = "roleServer" /\ AtBoundary => Data(NextByte) # Data(aidPA3)
    BY <1>0, <2>1 DEF RecordStart, escapeAID, Data, aidPA3
  <2>4. Data(NextByte) # Framing(cEOR)
    BY DEF Data, Framing
  <2>5. /\ forward' \in Seq({"data", "iac"} \X Byte)
        /\ ~AtBoundary'
        /\ EscapeContained'
    BY ForwardUnit, <1>1, <2>1, <2>2, <2>3, <2>4
  <2> QED
    BY <1>0, <1>1, <2>1, <2>5 DEF ProcessorOK, RecordStart
<1> QED
  BY <1>2, <1>3, <1>4

(* A byte after an IAC                                                     *)
LEMMA IACStep ==
  ASSUME ProcessorInv, StIACByte
  PROVE  ProcessorInv'
<1> USE DEF ProcessorInv
<1>0. NextByte \in Byte /\ inbuf' \in Seq(Byte) /\ ~escaped
  BY TakeByte DEF StIACByte
<1>1. UNCHANGED <<role, sent, escaped, reply>>
  BY DEF StIACByte, Consume
<1>2. CASE NextByte \in {cIAC, cEOR}
  <2>1. /\ forward' = Append(forward, Framing(NextByte))
        /\ atRecStart' = (NextByte = cEOR)
        /\ state' = "stData"
        /\ UNCHANGED <<optCmd, subneg, subnegOverflow>>
    BY <1>2 DEF StIACByte, IACByte, cIAC, cEOR, cWILL, cWONT, cDO, cDONT, cSB
  <2>2. Framing(NextByte) \in {"data", "iac"} \X Byte
    BY <1>0 DEF Framing
  <2>3. Framing(NextByte) # Data(aidPA3)
    BY DEF Data, Framing
  <2>4. Framing(NextByte) = Framing(cEOR) <=> NextByte = cEOR
    BY DEF Framing
  <2>5. /\ forward' \in Seq({"data", "iac"} \X Byte)
        /\ AtBoundary' <=> NextByte = cEOR
        /\ EscapeContained'
    BY ForwardUnit, <1>0, <1>1, <2>1, <2>2, <2>3, <2>4 DEF ProcessorOK
  <2> QED
    BY <1>0, <1>1, <2>1, <2>5 DEF ProcessorOK, RecordStart, pstate
<1>3. CASE NextByte \notin {cIAC, cEOR}
  <2>1. /\ UNCHANGED <<atRecStart, forward>>
        /\ state' \in pstate
        /\ optCmd' \in {optCmd, NextByte}
        /\ subneg' \in {subneg, <<>>}
        /\ subnegOverflow' \in {subnegOverflow, FALSE}
    BY <1>3 DEF StIACByte, IACByte, pstate
  <2>2. subneg' \in Seq(Byte) /\ Len(subneg') <= maxSubnegLen
    <3>1. <<>> \in Seq(Byte) /\ Len(<<>>) <= maxSubnegLen
      BY TelnetAssumption
    <3> QED
      BY <2>1, <3>1 DEF ProcessorOK
  <2>3. ProcessorOK'
    BY <1>0, <1>1, <2>1, <2>2 DEF ProcessorOK
  <2> QED
    BY <1>1, <2>1, <2>3 DEF RecordStart, AtBoundary, EscapeContained
<1> QED
  BY <1>2, <1>3

(* No other step touches the forwarded stream. *)
LEMMA QuietStep ==
  ASSUME RecordStart, EscapeContained,
         UNCHANGED <<role, atRecStart, escaped, forward>>
  PROVE  RecordStart' /\ EscapeContained'
BY DEF RecordStart, AtBoundary, EscapeContained

(* A byte of a subnegotiation is kept, up to the cap.                        *)
LEMMA CollectType ==
  ASSUME ProcessorOK, NEW b \in Byte, Collect(b)
  PROVE  /\ subneg' \in Seq(Byte)
         /\ Len(subneg') <= maxSubnegLen
         /\ subnegOverflow' \in BOOLEAN
BY TelnetAssumption DEF ProcessorOK, Collect

(* The option byte of a negotiation                                        *)
LEMMA OptionStep ==
  ASSUME ProcessorInv, StOptionByte
  PROVE  ProcessorInv'
<1> USE DEF ProcessorInv
<1>0. NextByte \in Byte /\ inbuf' \in Seq(Byte)
  BY TakeByte DEF StOptionByte
<1>1. negotiate(role, optCmd, NextByte) \in Seq(Seq(Byte))
  <2>1. \A c \in {cWILL, cWONT, cDO, cDONT} : <<<<c, NextByte>>>> \in Seq(Seq(Byte))
    BY <1>0 DEF cWILL, cWONT, cDO, cDONT, Byte
  <2> QED
    BY <2>1 DEF negotiate
<1>2. reply' \in Seq(Seq(Byte))
  BY <1>1 DEF StOptionByte, ProcessorOK
<1> QED
  BY <1>0, <1>2, QuietStep DEF StOptionByte, Consume, ProcessorOK, pstate

(* A byte in a subnegotiation                                              *)
LEMMA SubDataStep ==
  ASSUME ProcessorInv, StSubDataByte
  PROVE  ProcessorInv'
<1> USE DEF ProcessorInv
<1>0. NextByte \in Byte /\ inbuf' \in Seq(Byte)
  BY TakeByte DEF StSubDataByte
<1>1. /\ subneg' \in Seq(Byte)
      /\ Len(subneg') <= maxSubnegLen
      /\ subnegOverflow' \in BOOLEAN
  BY <1>0, CollectType DEF StSubDataByte, ProcessorOK
<1> QED
  BY <1>0, <1>1, QuietStep DEF StSubDataByte, Consume, ProcessorOK, pstate

(* A byte after an IAC in a subnegotiation                                 *)
LEMMA SubIACStep ==
  ASSUME ProcessorInv, StSubIACByte
  PROVE  ProcessorInv'
<1> USE DEF ProcessorInv
<1>0. NextByte \in Byte /\ inbuf' \in Seq(Byte)
  BY TakeByte DEF StSubIACByte
<1>1. /\ subneg' \in Seq(Byte)
      /\ Len(subneg') <= maxSubnegLen
      /\ subnegOverflow' \in BOOLEAN
  BY <1>0, CollectType DEF StSubIACByte, ProcessorOK, cIAC, Byte
<1>2. subnegReply \in Seq(Seq(Byte))
  <2>1. <<<<cSB, optTERMTYPE, ttIS>>>> \in Seq(Seq(Byte))
    BY DEF cSB, optTERMTYPE, ttIS, Byte
  <2> QED
    BY <2>1 DEF subnegReply
<1>3. reply' \in Seq(Seq(Byte))
  <2>1. reply' = reply \/ reply' = reply \o subnegReply
    BY DEF StSubIACByte
  <2>2. reply \o subnegReply \in Seq(Seq(Byte))
    BY <1>2, ConcatProperties DEF ProcessorOK
  <2> QED
    BY <2>1, <2>2 DEF ProcessorOK
<1> QED
  BY <1>0, <1>1, <1>3, QuietStep DEF StSubIACByte, Consume, ProcessorOK, pstate

(* ProcessorInv is inductive.                                                    *)
LEMMA NextInd == ProcessorInv /\ [ProcessorNext]_processorVars => ProcessorInv'
<1> SUFFICES ASSUME ProcessorInv, [ProcessorNext]_processorVars PROVE ProcessorInv'
  OBVIOUS
<1>1. CASE Receive
  <2>1. inbuf' \in Seq(Byte) /\ sent' \in Seq(Wire)
    BY <1>1, WireBytes DEF Receive, ProcessorInv, ProcessorOK
  <2> QED
    BY <1>1, <2>1, QuietStep DEF Receive, parser, ProcessorInv, ProcessorOK
<1>2. CASE Finished \/ UNCHANGED processorVars
  BY <1>2
  DEF Finished, processorVars, parser, ProcessorInv, ProcessorOK, RecordStart, AtBoundary, EscapeContained
<1> QED
  BY <1>1, <1>2, DataStep, IACStep, OptionStep, SubDataStep, SubIACStep DEF ProcessorNext

(* Type correctness: in particular the payload buffer stays within         *)
(* maxSubnegLen however long a subnegotiation the peer sends.              *)
THEOREM ProcessorTyped == ProcessorSpec => []ProcessorOK
<1>1. ProcessorInv => ProcessorOK
  BY DEF ProcessorInv
<1> QED
  BY InitInd, NextInd, <1>1, PTL DEF ProcessorSpec

(* The escape record never reaches the backend, for every stream of        *)
(* commands the user's terminal may send.                                  *)
THEOREM EscapeSafe == ProcessorSpec => []EscapeContained
<1>1. ProcessorInv => EscapeContained
  BY DEF ProcessorInv
<1> QED
  BY InitInd, NextInd, <1>1, PTL DEF ProcessorSpec

-----------------------------------------------------------------------------
(* The data and the answers of the Telnet filter.                          *)

(* Which commands carry data, and which call for an answer *)
Carried == {k \in DOMAIN sent : sent[k].units # <<>>}
Asked == {k \in DOMAIN sent : CallsForAnswer(sent[k])}

ForwardedUpTo(d) ==
  /\ Len(forward) = UpTo(Carried, d)
  /\ \A k \in Carried : k <= d => sent[k].units = <<forward[UpTo(Carried, k)]>>

Answer(k, r) ==
  /\ r[2] = sent[k].ask[2]
  /\ r[1] = cSB => sent[k].ask[1] = cSB /\ role = "roleClient"

AnsweredUpTo(d) ==
  /\ Len(reply) = UpTo(Asked, d)
  /\ \A k \in Asked : k <= d => Answer(k, reply[UpTo(Asked, k)])

(* The commands that have had their effect *)
Done == IF inbuf = <<>> /\ ~escaped THEN Len(sent) ELSE Len(sent) - 1

TypeRequest == <<cSB, optTERMTYPE, ttSEND>>

(* Only the backend's leg offers a terminal type, so only it is asked for one. *)
OnlyClientOffers ==
  /\ \A i \in DOMAIN reply : reply[i] = <<cWILL, optTERMTYPE>> => role = "roleClient"
  /\ \A k \in DOMAIN sent : IsPrefix(TypeRequest, sent[k].ask) => role = "roleClient"

(* A subnegotiation of the payload s, whole or broken *)
Encloses(w, s, e) ==
  /\ w.bytes = <<cIAC, cSB>> \o s.wire \o <<cIAC, e>>
  /\ w.units = <<>>
  /\ w.ask = IF e = cSE THEN <<cSB>> \o s.text ELSE <<>>

(* The first i bytes of the text of s have been collected, up to the cap. *)
Collected(s, i) ==
  /\ Len(subneg) = IF i <= maxSubnegLen THEN i ELSE maxSubnegLen
  /\ \A j \in 1 .. Len(subneg) : subneg[j] = s.text[j]
  /\ subnegOverflow = (i > maxSubnegLen)

(* What is left of a command once the first p of its bytes are processed *)
Left(w, p) == SubSeq(w.bytes, p + 1, Len(w.bytes))

Places(s) == [1 .. Len(s.text) + 1 -> 1 .. Len(s.wire) + 1]

InPayload(w, s, e, at, i) ==
  /\ Encloses(w, s, e)
  /\ Doubles(s, at)
  /\ Collected(s, i)
  /\ \/ state = "stSubData" /\ inbuf = Left(w, at[i + 1] + 1)
     \/ /\ state = "stSubIAC" /\ inbuf = Left(w, at[i + 1] + 2)
        /\ i = Len(s.text) \/ s.text[i + 1] = cIAC

(* Where the parser stands in the command it is processing *)
InFlight(w) ==
  \/ state = "stData" /\ inbuf = w.bytes
  \/ state = "stIAC" /\ Len(w.bytes) >= 2 /\ w.bytes[1] = cIAC /\ inbuf = Left(w, 1)
  \/ state = "stOption" /\ w \in Negotiations /\ optCmd = w.bytes[2] /\ inbuf = Left(w, 2)
  \/ \E s \in Payloads, e \in {cSE, cNOP} : \E at \in Places(s), i \in 0 .. Len(s.text) :
       InPayload(w, s, e, at, i)

InPlace ==
  /\ escaped => inbuf = <<>> /\ sent # <<>> /\ ~CallsForAnswer(sent[Len(sent)])
  /\ inbuf = <<>> /\ ~escaped => state = "stData"
  /\ inbuf # <<>> => sent # <<>> /\ InFlight(sent[Len(sent)])

FilterInv ==
  /\ ProcessorInv
  /\ InPlace
  /\ OnlyClientOffers
  /\ ForwardedUpTo(Done)
  /\ AnsweredUpTo(Done)

(* Counting the elements of S, which go up to n, up to a place *)
Counts(S, n) ==
  /\ \A k \in Nat : UpTo(S, k) \in Nat
  /\ UpTo(S, 0) = 0
  /\ UpTo(S, n) = Cardinality(S)
  /\ \A k \in Nat : UpTo(S, k + 1) = IF k + 1 \in S THEN UpTo(S, k) + 1 ELSE UpTo(S, k)
  /\ \A k \in S, d \in Nat : k <= d => UpTo(S, k) \in 1 .. UpTo(S, d)

LEMMA Counting ==
  ASSUME NEW n \in Nat, NEW S \in SUBSET (1 .. n)
  PROVE  Counts(S, n)
<1> DEFINE T(k) == {j \in S : j <= k}
<1>1. \A k \in Nat : IsFiniteSet(T(k))
  <2>1. IsFiniteSet(1 .. n)
    BY FS_Interval
  <2> QED
    BY <2>1, FS_Subset
<1>2. \A k \in Nat : Cardinality(T(k)) \in Nat
  BY <1>1, FS_CardinalityType
<1>0. \A j \in S : j \in Nat /\ 1 <= j /\ j <= n
  OBVIOUS
<1>3. T(0) = {} /\ T(n) = S
  <2>1. T(0) = {}
    <3>1. \A j \in Nat : 1 <= j => ~(j <= 0)
      OBVIOUS
    <3> QED
      BY <1>0, <3>1
  <2>2. T(n) = S
    BY <1>0
  <2> QED
    BY <2>1, <2>2
<1>4. ASSUME NEW k \in Nat
      PROVE  UpTo(S, k + 1) = IF k + 1 \in S THEN UpTo(S, k) + 1 ELSE UpTo(S, k)
  <2>1. CASE k + 1 \in S
    <3>1. T(k + 1) = T(k) \cup {k + 1} /\ k + 1 \notin T(k)
      <4>1. \A j \in Nat : j <= k + 1 <=> j <= k \/ j = k + 1
        OBVIOUS
      <4>2. k + 1 \notin T(k)
        OBVIOUS
      <4>3. \A j : j \in T(k + 1) <=> j \in T(k) \/ j = k + 1
        BY <1>0, <2>1, <4>1
      <4> HIDE DEF T
      <4> QED
        BY <4>2, <4>3, Zenon
    <3> HIDE DEF T
    <3>2. Cardinality(T(k + 1)) = Cardinality(T(k)) + 1
      BY <1>1, <3>1, FS_AddElement
    <3> QED
      BY <2>1, <3>2 DEF UpTo, T
  <2>2. CASE k + 1 \notin S
    <3>1. T(k + 1) = T(k)
      <4>1. \A j \in Nat : j <= k + 1 <=> j <= k \/ j = k + 1
        OBVIOUS
      <4>2. \A j \in S : j # k + 1
        BY <2>2
      <4> QED
        BY <1>0, <4>1, <4>2
    <3> QED
      BY <2>2, <3>1 DEF UpTo
  <2> QED
    BY <2>1, <2>2
<1>5. ASSUME NEW k \in S, NEW d \in Nat, k <= d
      PROVE  UpTo(S, k) \in 1 .. UpTo(S, d)
  <2>1. k \in Nat /\ k \in T(k) /\ T(k) \subseteq T(d)
    <3>1. \A j \in Nat : j <= k => j <= d
      BY <1>0, <1>5
    <3>2. k \in Nat /\ k \in S /\ k <= k
      BY <1>0, <1>5
    <3>3. k \in T(k)
      BY <3>2
    <3>4. \A j \in S : j <= k => j <= d
      BY <1>0, <3>1
    <3>5. T(k) \subseteq T(d)
      BY <3>4
    <3> QED
      BY <3>2, <3>3, <3>5
  <2> HIDE DEF T
  <2>2. Cardinality(T(k)) <= Cardinality(T(d))
    BY <1>1, <2>1, FS_Subset
  <2>3. Cardinality(T(k)) # 0
    BY <1>1, <2>1, FS_EmptySet
  <2>4. Cardinality(T(k)) \in 1 .. Cardinality(T(d))
    BY <1>2, <2>1, <2>2, <2>3
  <2> QED
    BY <2>4 DEF UpTo, T
<1>6. UpTo(S, 0) = 0
  BY <1>3, FS_EmptySet DEF UpTo
<1>7. UpTo(S, n) = Cardinality(S)
  BY <1>3 DEF UpTo
<1>8. \A k \in Nat : UpTo(S, k) \in Nat
  BY <1>2 DEF UpTo
<1> HIDE DEF T
<1> QED
  BY <1>4, <1>5, <1>6, <1>7, <1>8 DEF Counts

(* A set that grows beyond d has as many elements up to d as before. *)
LEMMA SameCount ==
  ASSUME NEW d \in Nat, NEW S \in SUBSET Nat, NEW R \in SUBSET Nat,
         \A j \in Nat : j <= d => (j \in S <=> j \in R),
         NEW k \in Nat, k <= d
  PROVE  UpTo(S, k) = UpTo(R, k)
<1>0. (\A j \in S : j \in Nat) /\ (\A j \in R : j \in Nat)
  OBVIOUS
<1>1. {j \in S : j <= k} = {j \in R : j <= k}
  <2>1. \A j \in Nat : j <= k => j <= d
    OBVIOUS
  <2> QED
    BY <1>0, <2>1
<1> QED
  BY <1>1 DEF UpTo

(* What a payload is on the wire, byte by byte *)
Bytewise(b, s, e) ==
  /\ b \in Seq(Byte) /\ s.text \in Seq(Byte) /\ s.wire \in Seq(Byte)
  /\ Len(s.wire) \in Nat /\ Len(s.text) \in Nat
  /\ Len(b) = Len(s.wire) + 4
  /\ b[1] = cIAC /\ b[2] = cSB
  /\ \A j \in 1 .. Len(s.wire) : b[j + 2] = s.wire[j]
  /\ b[Len(s.wire) + 3] = cIAC /\ b[Len(s.wire) + 4] = e

LEMMA Enclosed ==
  ASSUME NEW s \in Payloads, NEW e \in {cSE, cNOP},
         NEW b, b = <<cIAC, cSB>> \o s.wire \o <<cIAC, e>>
  PROVE  Bytewise(b, s, e)
<1>1. {cIAC, cSB, cSE, cNOP} \subseteq Byte
  BY DEF Byte, cIAC, cSB, cSE, cNOP
<1>2. s.text \in Seq(Byte) /\ s.wire \in Seq(Byte)
  BY TelnetAssumption
<1> DEFINE f == <<cIAC, cSB>>
           l == <<cIAC, e>>
           w == s.wire
           n == Len(w)
<1>3. /\ f \in Seq(Byte) /\ Len(f) = 2 /\ f[1] = cIAC /\ f[2] = cSB
      /\ l \in Seq(Byte) /\ Len(l) = 2 /\ l[1] = cIAC /\ l[2] = e
  BY <1>1
<1>4. w \in Seq(Byte) /\ n \in Nat
  BY <1>2
<1> DEFINE g == f \o w
<1>5. b = g \o l
  OBVIOUS
<1> HIDE DEF f, l, w
<1>6. /\ g \in Seq(Byte) /\ Len(g) = Len(f) + Len(w)
      /\ \A i \in 1 .. Len(f) + Len(w) : g[i] = IF i <= Len(f) THEN f[i] ELSE w[i - Len(f)]
  BY <1>3, <1>4, ConcatProperties
<1> HIDE DEF g
<1>7. /\ g \o l \in Seq(Byte) /\ Len(g \o l) = Len(g) + Len(l)
      /\ \A i \in 1 .. Len(g) + Len(l) :
           (g \o l)[i] = IF i <= Len(g) THEN g[i] ELSE l[i - Len(g)]
  <2>1. g \in Seq(Byte) /\ l \in Seq(Byte)
    BY <1>3, <1>6
  <2> QED
    BY <2>1, ConcatProperties
<1> HIDE DEF n
<1>8. Len(w) = n /\ Len(g) = n + 2 /\ Len(b) = n + 4 /\ b \in Seq(Byte)
  <2>1. Len(w) = n
    BY DEF n
  <2>2. Len(g) = n + 2
    BY <1>3, <1>4, <1>6, <2>1
  <2>3. Len(b) = n + 4
    BY <1>3, <1>4, <1>5, <1>7, <2>2
  <2>4. b \in Seq(Byte)
    BY <1>5, <1>7
  <2> QED
    BY <2>1, <2>2, <2>3, <2>4
<1>9. \A i \in 1 .. n + 2 : b[i] = IF i <= 2 THEN f[i] ELSE w[i - 2]
  <2>1. \A i \in 1 .. n + 2 : i \in 1 .. 2 + n /\ i \in 1 .. (n + 2) + 2 /\ i <= n + 2
    BY <1>4
  <2>2. \A i \in 1 .. n + 2 : b[i] = g[i]
    BY <1>3, <1>5, <1>7, <1>8, <2>1
  <2> QED
    BY <1>3, <1>6, <1>8, <2>1, <2>2
<1>10. b[1] = cIAC /\ b[2] = cSB
  BY <1>3, <1>4, <1>9
<1>11. ASSUME NEW j \in 1 .. n PROVE b[j + 2] = w[j]
  <2>1. j + 2 \in 1 .. n + 2 /\ ~(j + 2 <= 2) /\ (j + 2) - 2 = j
    BY <1>4
  <2> QED
    BY <1>9, <2>1
<1>12. b[n + 3] = cIAC /\ b[n + 4] = e
  <2>1. /\ n + 3 \in 1 .. Len(g) + Len(l) /\ ~(n + 3 <= Len(g)) /\ (n + 3) - Len(g) = 1
        /\ n + 4 \in 1 .. Len(g) + Len(l) /\ ~(n + 4 <= Len(g)) /\ (n + 4) - Len(g) = 2
    BY <1>3, <1>4, <1>8
  <2>2. b[n + 3] = l[1] /\ b[n + 4] = l[2]
    BY <1>5, <1>7, <2>1
  <2> QED
    BY <1>3, <2>2
<1>13. /\ b \in Seq(Byte) /\ s.text \in Seq(Byte) /\ w \in Seq(Byte)
       /\ n \in Nat /\ Len(s.text) \in Nat
  BY <1>2, <1>4, <1>8
<1> QED
  BY <1>8, <1>10, <1>11, <1>12, <1>13 DEF n, w, Bytewise

(* Where the i-th byte of a text stands, and what stands there *)
LEMMA TextPlace ==
  ASSUME NEW s \in Payloads, NEW at \in Places(s), Doubles(s, at),
         NEW i \in 0 .. Len(s.text)
  PROVE  /\ at[i + 1] \in 1 .. Len(s.wire) + 1
         /\ i = 0 => at[i + 1] = 1
         /\ i = Len(s.text) => at[i + 1] = Len(s.wire) + 1
         /\ i < Len(s.text) =>
              /\ at[i + 1] <= Len(s.wire)
              /\ s.wire[at[i + 1]] = s.text[i + 1]
              /\ s.text[i + 1] # cIAC => at[i + 2] = at[i + 1] + 1
              /\ s.text[i + 1] = cIAC =>
                   /\ at[i + 2] = at[i + 1] + 2
                   /\ at[i + 1] + 1 <= Len(s.wire)
                   /\ s.wire[at[i + 1] + 1] = cIAC
<1>1. s.text \in Seq(Byte) /\ s.wire \in Seq(Byte)
  BY TelnetAssumption
<1>2. Len(s.text) \in Nat /\ Len(s.wire) \in Nat
  BY <1>1
<1>3. \A j \in 1 .. Len(s.text) + 1 : at[j] \in 1 .. Len(s.wire) + 1
  BY <1>2 DEF Places
<1>4. at[i + 1] \in 1 .. Len(s.wire) + 1
  BY <1>2, <1>3
<1>5. ASSUME i < Len(s.text)
      PROVE  /\ at[i + 2] \in 1 .. Len(s.wire) + 1
             /\ at[i + 2] = IF s.text[i + 1] = cIAC THEN at[i + 1] + 2 ELSE at[i + 1] + 1
             /\ \A j \in at[i + 1] .. at[i + 2] - 1 : s.wire[j] = s.text[i + 1]
  <2>1. i + 1 \in 1 .. Len(s.text) /\ (i + 1) + 1 = i + 2 /\ i + 2 \in 1 .. Len(s.text) + 1
    BY <1>2, <1>5
  <2> QED
    BY <1>3, <2>1 DEF Doubles
<1>6. ASSUME i < Len(s.text) PROVE s.wire[at[i + 1]] = s.text[i + 1]
  <2>1. at[i + 1] \in at[i + 1] .. at[i + 2] - 1
    BY <1>2, <1>4, <1>5, <1>6
  <2> QED
    BY <1>5, <1>6, <2>1
<1>7. ASSUME i < Len(s.text), s.text[i + 1] = cIAC PROVE s.wire[at[i + 1] + 1] = cIAC
  <2>1. at[i + 2] = at[i + 1] + 2
    BY <1>5, <1>7
  <2>2. at[i + 1] + 1 \in at[i + 1] .. at[i + 2] - 1
    BY <1>4, <2>1
  <2> QED
    BY <1>5, <1>7, <2>2
<1>8. i < Len(s.text) => at[i + 1] <= Len(s.wire)
  BY <1>2, <1>4, <1>5
<1>9. i < Len(s.text) /\ s.text[i + 1] = cIAC => at[i + 1] + 1 <= Len(s.wire)
  BY <1>2, <1>4, <1>5
<1> QED
  BY <1>2, <1>4, <1>5, <1>6, <1>7, <1>8, <1>9 DEF Doubles

(* Taking the next byte of a command of which p are processed *)
LEMMA NextOf ==
  ASSUME NEW w, w.bytes \in Seq(Byte), NEW p \in Nat, p < Len(w.bytes),
         inbuf = Left(w, p), Consume
  PROVE  /\ NextByte = w.bytes[p + 1]
         /\ inbuf' = Left(w, p + 1)
         /\ inbuf' = <<>> <=> p + 1 = Len(w.bytes)
<1> DEFINE b == w.bytes
           n == Len(b)
<1>1. n \in Nat /\ b \in Seq(Byte)
  OBVIOUS
<1>2. p + 1 \in 1 .. Len(b) /\ Len(b) \in p + 1 .. Len(b)
  BY <1>1
<1>3. /\ Head(SubSeq(b, p + 1, Len(b))) = b[p + 1]
      /\ Tail(SubSeq(b, p + 1, Len(b))) = SubSeq(b, (p + 1) + 1, Len(b))
  <2> HIDE DEF b, n
  <2> QED
    BY <1>1, <1>2, HeadTailOfSubSeq
<1>4. Len(SubSeq(b, p + 2, Len(b))) = n - (p + 2) + 1
  <2>1. \A i \in p + 2 .. Len(b) : b[i] \in Byte
    BY <1>1
  <2> HIDE DEF b
  <2> QED
    BY <1>1, <1>2, <2>1, SubSeqProperties
<1>5. inbuf' = SubSeq(b, (p + 1) + 1, Len(b))
  BY <1>3 DEF Consume, Left
<1>6. (p + 1) + 1 = p + 2
  OBVIOUS
<1>7. inbuf' = <<>> <=> p + 1 = Len(w.bytes)
  <2>1. CASE p + 1 = Len(b)
    <3>1. p + 2 \in Int /\ Len(b) \in Int /\ Len(b) < p + 2
      BY <1>1, <2>1
    <3>2. SubSeq(b, p + 2, Len(b)) = <<>>
      BY <3>1, SubSeqEmpty
    <3> QED
      BY <1>5, <1>6, <2>1, <3>2
  <2>2. CASE p + 1 # Len(b)
    <3>1. Len(SubSeq(b, p + 2, Len(b))) # 0
      BY <1>1, <1>2, <1>4, <2>2
    <3> QED
      BY <1>5, <1>6, <2>2, <3>1, EmptySeq
  <2> QED
    BY <2>1, <2>2
<1> QED
  BY <1>3, <1>5, <1>7 DEF NextByte, Left

(* When a sequence begins with two or three given bytes *)
LEMMA Begins ==
  ASSUME NEW t \in Seq(Byte)
  PROVE  /\ IsPrefix(<<optTERMTYPE, ttSEND>>, t) <=>
              Len(t) >= 2 /\ t[1] = optTERMTYPE /\ t[2] = ttSEND
         /\ IsPrefix(TypeRequest, t) <=>
              Len(t) >= 3 /\ t[1] = cSB /\ t[2] = optTERMTYPE /\ t[3] = ttSEND
<1> DEFINE a == cSB
           b == optTERMTYPE
           c == ttSEND
<1> HIDE DEF a, b, c
<1>0. Len(t) \in Nat
  OBVIOUS
<1>1. Len(<<b, c>>) = 2 /\ Len(<<a, b, c>>) = 3
  OBVIOUS
<1>2. SubSeq(<<b, c>>, 1, 2) = <<b, c>> /\ SubSeq(<<a, b, c>>, 1, 3) = <<a, b, c>>
  <2>1. <<b, c>> \in Seq({a, b, c}) /\ <<a, b, c>> \in Seq({a, b, c})
    OBVIOUS
  <2> QED
    BY <1>1, <2>1, SubSeqFull
<1>3. ASSUME Len(t) >= 2 PROVE SubSeq(t, 1, 2) = <<t[1], t[2]>>
  <2> DEFINE u == SubSeq(t, 1, 2)
             v == <<t[1], t[2]>>
  <2>1. \A i \in 1 .. 2 : t[i] \in Byte
    BY <1>0, <1>3
  <2>2. /\ u \in Seq(Byte) /\ Len(u) = 2
        /\ \A i \in 1 .. 2 : u[i] = t[i]
    <3>1. \A i \in 1 .. 2 - 1 + 1 : (1 + i) - 1 = i
      OBVIOUS
    <3> QED
      BY <2>1, <3>1, SubSeqProperties
  <2>3. /\ v \in Seq(Byte) /\ Len(v) = 2
        /\ v[1] = t[1] /\ v[2] = t[2] 
    BY <2>1
  <2> HIDE DEF u, v
  <2>4. \A i \in 1 .. 2 : u[i] = v[i]
    BY <2>2, <2>3
  <2>5. u = v
    BY <2>2, <2>3, <2>4, SeqEqual
  <2> QED
    BY <2>5 DEF u, v
<1>4. ASSUME Len(t) >= 3 PROVE SubSeq(t, 1, 3) = <<t[1], t[2], t[3]>>
  <2> DEFINE u == SubSeq(t, 1, 3)
             v == <<t[1], t[2], t[3]>>
  <2>1. \A i \in 1 .. 3 : t[i] \in Byte
    BY <1>0, <1>4
  <2>2. /\ u \in Seq(Byte) /\ Len(u) = 3
        /\ \A i \in 1 .. 3 : u[i] = t[i]
    <3>1. \A i \in 1 .. 3 - 1 + 1 : (1 + i) - 1 = i
      OBVIOUS
    <3> QED
      BY <2>1, <3>1, SubSeqProperties
  <2>3. /\ v \in Seq(Byte) /\ Len(v) = 3
        /\ v[1] = t[1] /\ v[2] = t[2] /\ v[3] = t[3] 
    BY <2>1
  <2> HIDE DEF u, v
  <2>4. \A i \in 1 .. 3 : u[i] = v[i]
    BY <2>2, <2>3
  <2>5. u = v
    BY <2>2, <2>3, <2>4, SeqEqual
  <2> QED
    BY <2>5 DEF u, v
<1>5. IsPrefix(<<b, c>>, t) <=> Len(t) >= 2 /\ t[1] = b /\ t[2] = c
  BY <1>0, <1>3, <1>1, <1>2 DEF IsPrefix
<1>6. IsPrefix(<<a, b, c>>, t) <=> Len(t) >= 3 /\ t[1] = a /\ t[2] = b /\ t[3] = c
  BY <1>0, <1>4, <1>1, <1>2 DEF IsPrefix
<1> QED
  BY <1>5, <1>6 DEF TypeRequest, a, b, c

(* The kinds of commands *)
IsDatum(w) == \E b \in DataBytes : w.bytes = <<b>> /\ w.units = <<Data(b)>> /\ w.ask = <<>>
IsFraming(w) ==
  \E b \in {cIAC, cEOR} : w.bytes = <<cIAC, b>> /\ w.units = <<Framing(b)>> /\ w.ask = <<>>
IsIgnored(w) == w.bytes = <<cIAC, cNOP>> /\ w.units = <<>> /\ w.ask = <<>>
IsNegotiation(w) ==
  \E c \in {cDO, cWILL, cWONT}, o \in Options :
    w.bytes = <<cIAC, c, o>> /\ w.units = <<>> /\ w.ask = <<c, o>>
IsEnclosed(w) == \E s \in Payloads, e \in {cSE, cNOP} : Encloses(w, s, e)

LEMMA NegotiationKind == \A w \in Negotiations : IsNegotiation(w)
<1> TAKE w \in Negotiations
<1>1. PICK c \in {cDO, cWILL, cWONT} \X Options :
        w = Command(<<cIAC, c[1], c[2]>>, <<>>, c)
  BY Zenon DEF Negotiations
<1>2. /\ c[1] \in {cDO, cWILL, cWONT} /\ c[2] \in Options /\ c = <<c[1], c[2]>>
      /\ w.bytes = <<cIAC, c[1], c[2]>> /\ w.units = <<>> /\ w.ask = c
  BY <1>1 DEF Command
<1> QED
  BY <1>2, Zenon DEF IsNegotiation

LEMMA Kinds ==
  ASSUME NEW w \in Wire
  PROVE  \/ IsDatum(w) \/ IsFraming(w) \/ IsIgnored(w)
         \/ w \in Negotiations /\ IsNegotiation(w)
         \/ IsEnclosed(w)
<1>1. CASE w \in DataCommands
  <2>1. PICK b \in DataBytes : w = Command(<<b>>, <<Data(b)>>, <<>>)
    BY <1>1, Zenon DEF DataCommands
  <2>2. w.bytes = <<b>> /\ w.units = <<Data(b)>> /\ w.ask = <<>>
    BY <2>1 DEF Command
  <2> QED
    BY <2>2 DEF IsDatum
<1>2. CASE w \in FramingCommands
  <2>1. PICK b \in {cIAC, cEOR} : w = Command(<<cIAC, b>>, <<Framing(b)>>, <<>>)
    BY <1>2, Zenon DEF FramingCommands
  <2>2. w.bytes = <<cIAC, b>> /\ w.units = <<Framing(b)>> /\ w.ask = <<>>
    BY <2>1 DEF Command
  <2> QED
    BY <2>2, Zenon DEF IsFraming
<1>3. CASE w \in IgnoredCommands
  BY <1>3 DEF IgnoredCommands, Command, IsIgnored
<1>4. CASE w \in Negotiations
  BY <1>4, NegotiationKind
<1>5. CASE w \in Subnegotiations
  <2>1. PICK s \in Payloads :
          w = Command(<<cIAC, cSB>> \o s.wire \o <<cIAC, cSE>>, <<>>, <<cSB>> \o s.text)
    BY <1>5, Zenon DEF Subnegotiations
  <2>2. Encloses(w, s, cSE)
    BY <2>1 DEF Command, Encloses
  <2> QED
    BY <2>2, Zenon DEF IsEnclosed
<1>6. CASE w \in BrokenSubnegotiations
  <2>1. PICK s \in Payloads :
          w = Command(<<cIAC, cSB>> \o s.wire \o <<cIAC, cNOP>>, <<>>, <<>>)
    BY <1>6, Zenon DEF BrokenSubnegotiations
  <2>2. Encloses(w, s, cNOP)
    BY <2>1 DEF Command, Encloses, cNOP, cSE
  <2> QED
    BY <2>2, Zenon DEF IsEnclosed
<1> QED
  BY <1>1, <1>2, <1>3, <1>4, <1>5, <1>6 DEF Wire

(* A command that asks for nothing calls for no answer. *)
LEMMA NoCall ==
  ASSUME NEW w, w.ask = <<>>
  PROVE  ~CallsForAnswer(w) /\ ~IsPrefix(TypeRequest, w.ask)
<1>0. <<>> \in Seq(Byte) /\ Len(<<>>) = 0 /\ ~(0 >= 3)
  OBVIOUS
<1>1. ~IsPrefix(TypeRequest, <<>>)
  BY <1>0, Begins
<1> QED
  BY <1>1 DEF CallsForAnswer, TypeRequest

(* What a negotiation calls for *)
LEMMA NegotiationCall ==
  ASSUME NEW w, NEW c \in {cDO, cWILL, cWONT}, NEW o \in Options, w.ask = <<c, o>>
  PROVE  CallsForAnswer(w) <=> c \in {cDO, cWILL}
<1>1. <<c, o>> \in Seq(Byte) /\ Len(<<c, o>>) = 2 /\ ~(2 >= 3)
  BY TelnetAssumption DEF cDO, cWILL, cWONT, Byte
<1>2. ~IsPrefix(<<cSB, optTERMTYPE, ttSEND>>, <<c, o>>)
  BY <1>1, Begins DEF TypeRequest
<1> QED
  BY <1>1, <1>2 DEF CallsForAnswer

(* What a subnegotiation calls for *)
LEMMA PayloadCall ==
  ASSUME NEW w, NEW s \in Payloads, w.ask = <<cSB>> \o s.text
  PROVE  /\ IsPrefix(TypeRequest, w.ask) <=> IsPrefix(<<optTERMTYPE, ttSEND>>, s.text)
         /\ CallsForAnswer(w) <=> /\ IsPrefix(<<optTERMTYPE, ttSEND>>, s.text)
                                  /\ Len(s.text) <= maxSubnegLen
         /\ w.ask[1] = cSB
         /\ IsPrefix(<<optTERMTYPE, ttSEND>>, s.text) => w.ask[2] = optTERMTYPE
<1> DEFINE t == s.text
           a == <<cSB>> \o t
<1>1. t \in Seq(Byte) /\ Len(t) \in Nat /\ <<cSB>> \in Seq(Byte)
      /\ Len(<<cSB>>) = 1 /\ <<cSB>>[1] = cSB
  BY TelnetAssumption DEF cSB, Byte
<1> HIDE DEF t
<1>2. /\ a \in Seq(Byte) /\ Len(a) = 1 + Len(t)
      /\ \A i \in 1 .. 1 + Len(t) : a[i] = IF i <= 1 THEN <<cSB>>[i] ELSE t[i - 1]
  BY <1>1, ConcatProperties
<1>3. w.ask = a
  BY DEF t
<1> HIDE DEF a
<1>4. a[1] = cSB
  BY <1>1, <1>2
<1>5. Len(t) >= 2 => a[2] = t[1] /\ a[3] = t[2]
  BY <1>1, <1>2
<1>6. IsPrefix(TypeRequest, a) <=> IsPrefix(<<optTERMTYPE, ttSEND>>, t)
  <2>1. IsPrefix(TypeRequest, a) <=>
          Len(a) >= 3 /\ a[1] = cSB /\ a[2] = optTERMTYPE /\ a[3] = ttSEND
    BY <1>2, Begins
  <2>2. IsPrefix(<<optTERMTYPE, ttSEND>>, t) <=>
          Len(t) >= 2 /\ t[1] = optTERMTYPE /\ t[2] = ttSEND
    BY <1>1, Begins
  <2>3. Len(a) >= 3 <=> Len(t) >= 2
    BY <1>1, <1>2
  <2> QED
    BY <1>4, <1>5, <2>1, <2>2, <2>3
<1>7. a # <<>> /\ ~(a[1] \in {cDO, cWILL})
  BY <1>1, <1>2, <1>4 DEF cSB, cDO, cWILL
<1>8. Len(a) - 1 <= maxSubnegLen <=> Len(t) <= maxSubnegLen
  BY <1>1, <1>2, TelnetAssumption
<1>9. IsPrefix(<<optTERMTYPE, ttSEND>>, t) => a[2] = optTERMTYPE
  BY <1>1, <1>5, Begins
<1> QED
  BY <1>3, <1>4, <1>6, <1>7, <1>8, <1>9 DEF CallsForAnswer, TypeRequest, t

(* A command that has had its effect: its data is forwarded. *)
LEMMA Forwards ==
  ASSUME ProcessorOK, sent' = sent, NEW d \in Nat, Len(sent) = d + 1, ForwardedUpTo(d),
         \/ sent[d + 1].units = <<>> /\ forward' = forward
         \/ \E u \in {"data", "iac"} \X Byte :
              sent[d + 1].units = <<u>> /\ forward' = Append(forward, u)
  PROVE  ForwardedUpTo(d + 1)'
<1> DEFINE S == Carried
<1>1. Len(sent) \in Nat /\ DOMAIN sent = 1 .. d + 1
  BY DEF ProcessorOK
<1>2. S \in SUBSET (1 .. d + 1) /\ S' = S
  BY <1>1 DEF Carried
<1>3. d + 1 \in S <=> sent[d + 1].units # <<>>
  BY <1>1 DEF Carried
<1>4. \A k \in S : k = d + 1 \/ (k \in Nat /\ k <= d)
  BY <1>2
<1>5. /\ Len(forward) = UpTo(S, d)
      /\ \A k \in S : k <= d => sent[k].units = <<forward[UpTo(S, k)]>>
  BY DEF ForwardedUpTo
<1> HIDE DEF S
<1>6. /\ \A k \in Nat : UpTo(S, k) \in Nat
      /\ UpTo(S, d + 1) = IF d + 1 \in S THEN UpTo(S, d) + 1 ELSE UpTo(S, d)
      /\ \A k \in S : k <= d => UpTo(S, k) \in 1 .. UpTo(S, d)
  <2>1. PICK n \in Nat : n = d + 1
    OBVIOUS
  <2>0. S \in SUBSET (1 .. n)
    BY <1>2, <2>1
  <2>2. Counts(S, n)
    BY <2>0, Counting
  <2> QED
    BY <2>2 DEF Counts
<1>7. CASE sent[d + 1].units = <<>> /\ forward' = forward
  <2>1. d + 1 \notin S
    BY <1>3, <1>7
  <2>2. \A k \in S : sent'[k].units = <<forward'[UpTo(S, k)]>>
    BY <1>4, <1>5, <1>7, <2>1
  <2>3. Len(forward') = UpTo(S, d + 1)
    BY <1>5, <1>6, <1>7, <2>1
  <2> QED
    BY <1>2, <2>2, <2>3 DEF ForwardedUpTo, S
<1>8. CASE \E u \in {"data", "iac"} \X Byte :
             sent[d + 1].units = <<u>> /\ forward' = Append(forward, u)
  <2> DEFINE U == {"data", "iac"} \X Byte
  <2>1. PICK u \in U : sent[d + 1].units = <<u>> /\ forward' = Append(forward, u)
    BY <1>8
  <2>2. forward \in Seq(U)
    BY DEF ProcessorOK
  <2> HIDE DEF U
  <2>3. /\ Len(forward) \in Nat
        /\ Len(forward') = Len(forward) + 1
        /\ forward'[Len(forward) + 1] = u
        /\ \A i \in 1 .. Len(forward) : forward'[i] = forward[i]
    BY <2>1, <2>2, Extend
  <2>4. d + 1 \in S
    BY <1>3, <2>1
  <2>5. Len(forward') = UpTo(S, d + 1)
    BY <1>5, <1>6, <2>3, <2>4
  <2>6. ASSUME NEW k \in S PROVE sent'[k].units = <<forward'[UpTo(S, k)]>>
    <3>1. CASE k = d + 1
      BY <1>5, <1>6, <2>1, <2>3, <2>4, <3>1
    <3>2. CASE k \in Nat /\ k <= d
      <4>1. UpTo(S, k) \in 1 .. Len(forward)
        BY <1>5, <1>6, <3>2
      <4> QED
        BY <1>5, <2>3, <3>2, <4>1
    <3> QED
      BY <1>4, <3>1, <3>2
  <2> QED
    BY <1>2, <2>5, <2>6 DEF ForwardedUpTo, S
<1> QED
  BY <1>7, <1>8

(* ... and it is answered, if it calls for an answer. *)
LEMMA Answers ==
  ASSUME ProcessorOK, sent' = sent, role' = role,
         NEW d \in Nat, Len(sent) = d + 1, AnsweredUpTo(d),
         \/ ~CallsForAnswer(sent[d + 1]) /\ reply' = reply
         \/ CallsForAnswer(sent[d + 1]) /\ \E r \in Seq(Byte) :
              Answer(d + 1, r) /\ reply' = Append(reply, r)
  PROVE  AnsweredUpTo(d + 1)'
<1> DEFINE S == Asked
<1>1. Len(sent) \in Nat /\ DOMAIN sent = 1 .. d + 1
  BY DEF ProcessorOK
<1>2. S \in SUBSET (1 .. d + 1) /\ S' = S
  BY <1>1 DEF Asked, CallsForAnswer
<1>3. d + 1 \in S <=> CallsForAnswer(sent[d + 1])
  BY <1>1 DEF Asked
<1>4. \A k \in S : k = d + 1 \/ (k \in Nat /\ k <= d)
  BY <1>2
<1>5. /\ Len(reply) = UpTo(S, d)
      /\ \A k \in S : k <= d => Answer(k, reply[UpTo(S, k)])
  BY DEF AnsweredUpTo
<1>0. ASSUME Len(reply') = UpTo(S, d + 1),
             \A k \in S : Answer(k, reply'[UpTo(S, k)])
      PROVE  AnsweredUpTo(d + 1)'
  BY <1>2, <1>0 DEF AnsweredUpTo, Answer
<1> HIDE DEF S
<1>6. /\ \A k \in Nat : UpTo(S, k) \in Nat
      /\ UpTo(S, d + 1) = IF d + 1 \in S THEN UpTo(S, d) + 1 ELSE UpTo(S, d)
      /\ \A k \in S : k <= d => UpTo(S, k) \in 1 .. UpTo(S, d)
  <2>1. PICK n \in Nat : n = d + 1
    OBVIOUS
  <2>0. S \in SUBSET (1 .. n)
    BY <1>2, <2>1
  <2>2. Counts(S, n)
    BY <2>0, Counting
  <2> QED
    BY <2>2 DEF Counts
<1>7. CASE ~CallsForAnswer(sent[d + 1]) /\ reply' = reply
  <2>1. d + 1 \notin S
    BY <1>3, <1>7
  <2>2. \A k \in S : Answer(k, reply'[UpTo(S, k)])
    BY <1>4, <1>5, <1>7, <2>1
  <2>3. Len(reply') = UpTo(S, d + 1)
    BY <1>5, <1>6, <1>7, <2>1
  <2> QED
    BY <1>0, <2>2, <2>3
<1>8. CASE CallsForAnswer(sent[d + 1]) /\ \E r \in Seq(Byte) :
             Answer(d + 1, r) /\ reply' = Append(reply, r)
  <2>1. PICK r \in Seq(Byte) : Answer(d + 1, r) /\ reply' = Append(reply, r)
    BY <1>8
  <2> DEFINE U == Seq(Byte)
  <2>2. reply \in Seq(U) /\ r \in U
    BY DEF ProcessorOK
  <2> HIDE DEF U
  <2>3. /\ Len(reply) \in Nat
        /\ Len(reply') = Len(reply) + 1
        /\ reply'[Len(reply) + 1] = r
        /\ \A i \in 1 .. Len(reply) : reply'[i] = reply[i]
    BY <2>1, <2>2, Extend
  <2>4. d + 1 \in S
    BY <1>3, <1>8
  <2>5. Len(reply') = UpTo(S, d + 1)
    BY <1>5, <1>6, <2>3, <2>4
  <2>6. ASSUME NEW k \in S PROVE Answer(k, reply'[UpTo(S, k)])
    <3>1. CASE k = d + 1
      BY <1>5, <1>6, <2>1, <2>3, <2>4, <3>1
    <3>2. CASE k \in Nat /\ k <= d
      <4>1. UpTo(S, k) \in 1 .. Len(reply)
        BY <1>5, <1>6, <3>2
      <4>2. reply'[UpTo(S, k)] = reply[UpTo(S, k)]
        BY <2>3, <4>1
      <4> QED
        BY <1>5, <3>2, <4>2
    <3> QED
      BY <1>4, <3>1, <3>2
  <2> QED
    BY <1>0, <2>5, <2>6
<1> QED
  BY <1>7, <1>8

(* A byte within a command *)
LEMMA Keeps ==
  ASSUME FilterInv, ProcessorInv', inbuf # <<>>, ~escaped, sent # <<>>,
         UNCHANGED <<role, sent, forward, reply, escaped>>,
         inbuf' # <<>>, InFlight(sent[Len(sent)])'
  PROVE  FilterInv'
<1>1. InPlace'
  BY DEF InPlace
<1>2. OnlyClientOffers'
  BY DEF FilterInv, OnlyClientOffers
<1>3. Done = Len(sent) - 1 /\ Done' = Done
  BY DEF Done
<1>4. Carried' = Carried /\ Asked' = Asked
  BY DEF Carried, Asked, CallsForAnswer
<1>5. ForwardedUpTo(Done)'
  BY <1>3, <1>4 DEF FilterInv, ForwardedUpTo
<1>6. AnsweredUpTo(Done)'
  BY <1>3, <1>4 DEF FilterInv, AnsweredUpTo, Answer
<1> QED
  BY <1>1, <1>2, <1>5, <1>6 DEF FilterInv

(* The last byte of a command *)
LEMMA Settles ==
  ASSUME FilterInv, ProcessorInv', inbuf # <<>>, ~escaped,
         UNCHANGED <<role, sent, escaped>>,
         inbuf' = <<>>, state' = "stData",
         NEW w, w = sent[Len(sent)],
         \/ w.units = <<>> /\ forward' = forward
         \/ \E u \in {"data", "iac"} \X Byte : w.units = <<u>> /\ forward' = Append(forward, u),
         \/ ~CallsForAnswer(w) /\ reply' = reply
         \/ CallsForAnswer(w) /\ \E r \in Seq(Byte) :
              /\ Answer(Len(sent), r) /\ reply' = Append(reply, r)
              /\ r = <<cWILL, optTERMTYPE>> => role = "roleClient"
  PROVE  FilterInv'
<1>0. ProcessorOK
  BY DEF FilterInv, ProcessorInv
<1>1. sent # <<>> /\ Len(sent) \in Nat /\ Len(sent) # 0
  <2>1. sent # <<>>
    BY DEF FilterInv, InPlace
  <2>2. sent \in Seq(Wire)
    BY <1>0 DEF ProcessorOK
  <2> QED
    BY <2>1, <2>2, EmptySeq, Zenon
<1>2. PICK d \in Nat : Len(sent) = d + 1 /\ Done = d /\ Done' = d + 1
  <2>1. Len(sent) - 1 \in Nat /\ Len(sent) = (Len(sent) - 1) + 1
    BY <1>1
  <2> QED
    BY <2>1 DEF Done
<1>3. InPlace'
  BY DEF InPlace
<1>4. OnlyClientOffers'
  <2>1. \A k \in DOMAIN sent' : IsPrefix(TypeRequest, sent'[k].ask) => role' = "roleClient"
    BY DEF FilterInv, OnlyClientOffers
  <2>2. CASE reply' = reply
    BY <2>1, <2>2 DEF FilterInv, OnlyClientOffers
  <2>3. CASE \E r \in Seq(Byte) :
               /\ reply' = Append(reply, r)
               /\ r = <<cWILL, optTERMTYPE>> => role = "roleClient"
    <3>1. PICK r \in Seq(Byte) :
            /\ reply' = Append(reply, r)
            /\ r = <<cWILL, optTERMTYPE>> => role = "roleClient"
      BY <2>3
    <3> DEFINE U == Seq(Byte)
    <3>2. reply \in Seq(U) /\ r \in U
      BY <1>0 DEF ProcessorOK
    <3> HIDE DEF U
    <3>3. /\ Len(reply) \in Nat
          /\ Append(reply, r) \in Seq(U)
          /\ Len(reply') = Len(reply) + 1
          /\ reply'[Len(reply) + 1] = r
          /\ \A i \in 1 .. Len(reply) : reply'[i] = reply[i]
      BY <3>1, <3>2, Extend
    <3>4. DOMAIN reply = 1 .. Len(reply) /\ DOMAIN reply' = 1 .. Len(reply) + 1
      BY <3>1, <3>2, <3>3
    <3>5. \A i \in DOMAIN reply' : i \in DOMAIN reply \/ i = Len(reply) + 1
      BY <3>3, <3>4
    <3>6. \A i \in DOMAIN reply' : reply'[i] = <<cWILL, optTERMTYPE>> => role = "roleClient"
      <4> TAKE i \in DOMAIN reply'
      <4>1. CASE i \in DOMAIN reply
        BY <3>3, <3>4, <4>1 DEF FilterInv, OnlyClientOffers
      <4>2. CASE i = Len(reply) + 1
        BY <3>1, <3>3, <4>2
      <4> QED
        BY <3>5, <4>1, <4>2
    <3> QED
      BY <2>1, <3>6 DEF OnlyClientOffers
  <2> QED
    BY <2>2, <2>3
<1>5. ForwardedUpTo(d) /\ AnsweredUpTo(d)
  BY <1>2 DEF FilterInv
<1>6. w = sent[d + 1]
  BY <1>2
<1>7. ForwardedUpTo(d + 1)'
  BY <1>0, <1>2, <1>5, <1>6, Forwards
<1>8. AnsweredUpTo(d + 1)'
  BY <1>0, <1>2, <1>5, <1>6, Answers
<1>9. ForwardedUpTo(Done)' /\ AnsweredUpTo(Done)'
  BY <1>2, <1>7, <1>8 DEF ForwardedUpTo, AnsweredUpTo
<1> QED
  BY <1>3, <1>4, <1>9 DEF FilterInv

LEMMA FilterInit == ProcessorInit => FilterInv
<1> SUFFICES ASSUME ProcessorInit PROVE FilterInv
  OBVIOUS
<1>1. /\ sent = <<>> /\ forward = <<>> /\ reply = <<>> /\ inbuf = <<>>
      /\ escaped = FALSE /\ state = "stData"
  BY DEF ProcessorInit
<1>2. Carried = {} /\ Asked = {} /\ Len(forward) = 0 /\ Len(reply) = 0
  BY <1>1 DEF Carried, Asked
<1>3. UpTo({}, 0) = 0
  BY Counting DEF Counts
<1>4. Done = 0
  BY <1>1 DEF Done
<1>5. ForwardedUpTo(Done) /\ AnsweredUpTo(Done)
  BY <1>2, <1>3, <1>4 DEF ForwardedUpTo, AnsweredUpTo
<1>6. InPlace /\ OnlyClientOffers
  BY <1>1 DEF InPlace, OnlyClientOffers
<1> QED
  BY InitInd, <1>5, <1>6 DEF FilterInv

(* A command arrives: what came before it counts as it did. *)
LEMMA ReceiveKeeps ==
  ASSUME FilterInv, ProcessorInv', Receive
  PROVE  FilterInv'
<1>0. ProcessorOK
  BY DEF FilterInv, ProcessorInv
<1>1. PICK w \in Wire : Permitted(w) /\ inbuf' = w.bytes /\ sent' = Append(sent, w)
  BY DEF Receive
<1>2. /\ inbuf = <<>> /\ ~escaped /\ state = "stData"
      /\ UNCHANGED <<role, state, escaped, forward, reply>>
  BY DEF Receive, parser, FilterInv, InPlace
<1>3. PICK d \in Nat : d = Len(sent)
  BY <1>0 DEF ProcessorOK
<1>4. /\ sent' # <<>> /\ Len(sent') = d + 1 /\ sent'[d + 1] = w
      /\ \A k \in 1 .. d : sent'[k] = sent[k]
      /\ DOMAIN sent = 1 .. d /\ DOMAIN sent' = 1 .. d + 1
  <2>1. sent \in Seq(Wire)
    BY <1>0 DEF ProcessorOK
  <2>2. /\ Append(sent, w) \in Seq(Wire)
        /\ Append(sent, w) # <<>>
        /\ Len(Append(sent, w)) = Len(sent) + 1
        /\ Append(sent, w)[Len(sent) + 1] = w
        /\ \A i \in 1 .. Len(sent) : Append(sent, w)[i] = sent[i]
    BY <2>1, Extend
  <2> HIDE DEF Wire
  <2>3. DOMAIN sent = 1 .. Len(sent) /\ DOMAIN Append(sent, w) = 1 .. Len(Append(sent, w))
    BY <2>1, <2>2, LenProperties
  <2> QED
    BY <1>1, <1>3, <2>2, <2>3
<1>5. inbuf' # <<>>
  <2>1. w.bytes # <<>>
    <3>1. ASSUME IsEnclosed(w) PROVE w.bytes # <<>>
      <4>1. PICK s \in Payloads, e \in {cSE, cNOP} : Encloses(w, s, e)
        BY <3>1 DEF IsEnclosed
      <4>2. Bytewise(w.bytes, s, e)
        BY <4>1, Enclosed DEF Encloses
      <4>3. Len(w.bytes) # 0
        BY <4>2 DEF Bytewise
      <4> QED
        BY <4>3, EmptySeq
    <3>2. \A b, c, e : <<b>> # <<>> /\ <<b, c>> # <<>> /\ <<b, c, e>> # <<>>
      OBVIOUS
    <3> QED
      BY <3>1, <3>2, Kinds DEF IsDatum, IsFraming, IsIgnored, IsNegotiation
  <2> QED
    BY <1>1, <2>1
<1>6. InPlace'
  <2>1. (sent[Len(sent)])' = w
    BY <1>3, <1>4
  <2> QED
    BY <1>1, <1>2, <1>4, <1>5, <2>1 DEF InPlace, InFlight
<1>7. OnlyClientOffers'
  <2>1. \A i \in DOMAIN reply' : reply'[i] = <<cWILL, optTERMTYPE>> => role' = "roleClient"
    BY <1>2 DEF FilterInv, OnlyClientOffers
  <2>2. IsPrefix(TypeRequest, w.ask) => role = "roleClient"
    BY <1>1 DEF Permitted, TypeRequest, FilterInv, OnlyClientOffers
  <2>3. ASSUME NEW k \in DOMAIN sent', IsPrefix(TypeRequest, sent'[k].ask)
        PROVE  role' = "roleClient"
    <3>1. CASE k = d + 1
      BY <1>2, <1>4, <2>2, <2>3, <3>1
    <3>2. CASE k \in 1 .. d
      BY <1>2, <1>4, <2>3, <3>2 DEF FilterInv, OnlyClientOffers
    <3> QED
      BY <1>4, <2>3, <3>1, <3>2
  <2> QED
    BY <2>1, <2>3 DEF OnlyClientOffers
<1>8. Done = d /\ Done' = d
  BY <1>2, <1>3, <1>4, <1>5 DEF Done
<1>9. /\ \A j \in Nat : j <= d => (j \in Carried <=> j \in Carried')
      /\ \A j \in Nat : j <= d => (j \in Asked <=> j \in Asked')
      /\ Carried \in SUBSET Nat /\ Carried' \in SUBSET Nat
      /\ Asked \in SUBSET Nat /\ Asked' \in SUBSET Nat
  <2>1. \A j \in Nat : j <= d => (j \in DOMAIN sent <=> j \in DOMAIN sent')
    BY <1>4
  <2>2. \A j \in DOMAIN sent : sent'[j] = sent[j]
    BY <1>4
  <2>3. DOMAIN sent \subseteq Nat /\ DOMAIN sent' \subseteq Nat
    BY <1>4
  <2>4. \A v : CallsForAnswer(v)' <=> CallsForAnswer(v)
    BY DEF CallsForAnswer
  <2> QED
    BY <2>1, <2>2, <2>3 DEF Carried, Asked, CallsForAnswer
<1>10. /\ \A k \in Nat : k <= d => UpTo(Carried, k) = UpTo(Carried', k)
       /\ \A k \in Nat : k <= d => UpTo(Asked, k) = UpTo(Asked', k)
  BY <1>9, SameCount
<1>11. ForwardedUpTo(d) /\ AnsweredUpTo(d)
  BY <1>8 DEF FilterInv
<1>12. ForwardedUpTo(d)'
  <2>1. ASSUME NEW k \in Carried', k <= d
        PROVE  sent'[k].units = <<forward'[UpTo(Carried', k)]>>
    <3>1. k \in Nat /\ k \in Carried
      BY <1>9, <2>1
    <3>2. k \in 1 .. d
      BY <1>4, <2>1, <3>1 DEF Carried
    <3> QED
      BY <1>2, <1>4, <1>10, <1>11, <2>1, <3>1, <3>2 DEF ForwardedUpTo
  <2>2. Len(forward') = UpTo(Carried', d)
    BY <1>2, <1>10, <1>11 DEF ForwardedUpTo
  <2> QED
    BY <2>1, <2>2 DEF ForwardedUpTo
<1>13. AnsweredUpTo(d)'
  <2>1. ASSUME NEW k \in Asked', k <= d
        PROVE  Answer(k, reply[UpTo(Asked, k)])'
    <3>1. k \in Nat /\ k \in Asked
      BY <1>9, <2>1
    <3>2. k \in 1 .. d
      BY <1>4, <2>1, <3>1 DEF Asked
    <3>3. Answer(k, reply[UpTo(Asked, k)])
      BY <1>11, <2>1, <3>1 DEF AnsweredUpTo
    <3> QED
      BY <1>2, <1>4, <1>10, <2>1, <3>1, <3>2, <3>3 DEF Answer
  <2>2. Len(reply') = UpTo(Asked', d)
    BY <1>2, <1>10, <1>11 DEF AnsweredUpTo
  <2> QED
    BY <2>1, <2>2 DEF AnsweredUpTo
<1> QED
  BY <1>6, <1>7, <1>8, <1>12, <1>13 DEF FilterInv, ForwardedUpTo, AnsweredUpTo

(* A byte in the data state *)
LEMMA DataExact ==
  ASSUME FilterInv, ProcessorInv', StDataByte
  PROVE  FilterInv'
<1> DEFINE w == sent[Len(sent)]
<1>0. ProcessorOK /\ sent # <<>> /\ inbuf # <<>> /\ ~escaped
  BY DEF FilterInv, ProcessorInv, InPlace, StDataByte, Consume
<1>1. w \in Wire
  <2>1. sent \in Seq(Wire) /\ Len(sent) \in Nat \ {0}
    BY <1>0 DEF ProcessorOK
  <2> QED
    BY <2>1
<1>2. inbuf = w.bytes /\ state = "stData" /\ Consume
  BY <1>0 DEF FilterInv, InPlace, InFlight, InPayload, StDataByte
<1>3. UNCHANGED <<role, sent, reply>>
  BY DEF StDataByte, Consume
<1>4. w.bytes \in Seq(Byte)
  BY <1>1, WireBytes
<1>5. w' = w
  BY <1>3
<1> HIDE DEF w
<1>6. /\ NextByte = w.bytes[1]
      /\ inbuf' = Left(w, 1)
      /\ inbuf' = <<>> <=> Len(w.bytes) = 1
      /\ Len(w.bytes) \in Nat \ {0}
  <2>1. Len(w.bytes) \in Nat \ {0}
    BY <1>0, <1>2, <1>4
  <2>2. Left(w, 0) = w.bytes
    <3>1. SubSeq(w.bytes, 1, Len(w.bytes)) = w.bytes
      BY <1>4, SubSeqFull
    <3> QED
      BY <3>1 DEF Left
  <2>3. 0 \in Nat /\ 0 < Len(w.bytes) /\ inbuf = Left(w, 0)
    BY <1>2, <2>1, <2>2
  <2>4. /\ NextByte = w.bytes[0 + 1]
        /\ inbuf' = Left(w, 0 + 1)
        /\ inbuf' = <<>> <=> 0 + 1 = Len(w.bytes)
    BY <1>2, <1>4, <2>3, NextOf
  <2> QED
    BY <2>1, <2>4
<1>7. CASE IsDatum(w)
  <2>1. PICK b \in DataBytes :
          w.bytes = <<b>> /\ w.units = <<Data(b)>> /\ w.ask = <<>>
    BY <1>7 DEF IsDatum
  <2>2. b \in Byte /\ b # cIAC
    BY TelnetAssumption
  <2>3. NextByte = b /\ inbuf' = <<>>
    BY <1>6, <2>1
  <2>4. ~CallsForAnswer(w) /\ ~IsPrefix(TypeRequest, w.ask)
    BY <2>1, NoCall
  <2>5. CASE ~escaped'
    <3>1. forward' = Append(forward, Data(b)) /\ state' = state /\ escaped' = escaped
      BY <1>0, <2>2, <2>3, <2>5 DEF StDataByte, ProcessorOK
    <3>2. Data(b) \in {"data", "iac"} \X Byte
      BY <2>2 DEF Data
    <3>3. \E u \in {"data", "iac"} \X Byte : w.units = <<u>> /\ forward' = Append(forward, u)
      BY <2>1, <3>1, <3>2
    <3> QED
      BY <1>0, <1>2, <1>3, <2>3, <2>4, <3>1, <3>3, Settles DEF w
  <2>6. CASE escaped'
    <3>1. forward' = forward
      BY <2>2, <2>3, <2>6 DEF StDataByte
    <3>2. Done = Len(sent) - 1 /\ Done' = Len(sent) - 1
      BY <1>0, <1>3, <2>6 DEF Done
    <3>3. InPlace'
      <4>1. ~CallsForAnswer(w)'
        BY <1>5, <2>4 DEF CallsForAnswer
      <4> QED
        BY <1>0, <1>3, <2>3, <2>6, <4>1 DEF InPlace, w
    <3>4. OnlyClientOffers'
      BY <1>3 DEF FilterInv, OnlyClientOffers
    <3>5. ForwardedUpTo(Done)' /\ AnsweredUpTo(Done)'
      BY <1>3, <3>1, <3>2
      DEF FilterInv, ForwardedUpTo, AnsweredUpTo, Carried, Asked, CallsForAnswer, Answer
    <3> QED
      BY <3>3, <3>4, <3>5 DEF FilterInv
  <2> QED
    BY <2>5, <2>6
<1>8. ASSUME w.bytes[1] = cIAC, Len(w.bytes) >= 2 PROVE FilterInv'
  <2>0. Len(w.bytes) # 1
    <3>1. \A n \in Nat : n >= 2 => n # 1
      OBVIOUS
    <3>2. Len(w.bytes) \in Nat
      BY <1>6
    <3> QED
      BY <1>8, <3>1, <3>2, Zenon
  <2>1. NextByte = cIAC /\ inbuf' # <<>>
    BY <1>6, <1>8, <2>0
  <2>2. state' = "stIAC" /\ UNCHANGED <<escaped, forward>>
    BY <2>1 DEF StDataByte
  <2>3. InFlight(w)'
    BY <1>5, <1>6, <1>8, <2>2 DEF InFlight, Left
  <2> QED
    BY <1>0, <1>3, <2>1, <2>2, <2>3, Keeps DEF w
<1>9. ASSUME ~IsDatum(w) PROVE w.bytes[1] = cIAC /\ Len(w.bytes) >= 2
  <2>1. CASE IsEnclosed(w)
    <3>1. PICK s \in Payloads, e \in {cSE, cNOP} : Encloses(w, s, e)
      BY <2>1 DEF IsEnclosed
    <3>2. Bytewise(w.bytes, s, e)
      BY <3>1, Enclosed DEF Encloses
    <3> QED
      BY <3>2 DEF Bytewise
  <2>2. \A b, c : /\ <<cIAC, b>>[1] = cIAC /\ Len(<<cIAC, b>>) = 2
                  /\ <<cIAC, b, c>>[1] = cIAC /\ Len(<<cIAC, b, c>>) = 3
    OBVIOUS
  <2>3. 2 >= 2 /\ 3 >= 2
    OBVIOUS
  <2> QED
    BY <1>1, <1>9, <2>1, <2>2, <2>3, Kinds DEF IsFraming, IsIgnored, IsNegotiation
<1> QED
  BY <1>7, <1>8, <1>9

(* A byte after an IAC *)
LEMMA IACExact ==
  ASSUME FilterInv, ProcessorInv', StIACByte
  PROVE  FilterInv'
<1> DEFINE w == sent[Len(sent)]
<1>0. ProcessorOK /\ sent # <<>> /\ inbuf # <<>> /\ ~escaped
  BY DEF FilterInv, ProcessorInv, InPlace, StIACByte, Consume
<1>1. w \in Wire
  <2>1. sent \in Seq(Wire) /\ Len(sent) \in Nat \ {0}
    BY <1>0 DEF ProcessorOK
  <2> QED
    BY <2>1
<1>2. /\ Len(w.bytes) >= 2 /\ w.bytes[1] = cIAC /\ inbuf = Left(w, 1)
      /\ state = "stIAC" /\ Consume
  BY <1>0 DEF FilterInv, InPlace, InFlight, InPayload, StIACByte
<1>3. UNCHANGED <<role, sent, reply, escaped>> /\ IACByte(NextByte)
  BY DEF StIACByte, Consume
<1>4. w.bytes \in Seq(Byte)
  BY <1>1, WireBytes
<1>5. w' = w
  BY <1>3
<1> HIDE DEF w
<1>6. /\ NextByte = w.bytes[2]
      /\ inbuf' = Left(w, 2)
      /\ inbuf' = <<>> <=> Len(w.bytes) = 2
  <2>1. 1 \in Nat /\ 1 < Len(w.bytes)
    BY <1>2, <1>4
  <2>2. /\ NextByte = w.bytes[1 + 1]
        /\ inbuf' = Left(w, 1 + 1)
        /\ inbuf' = <<>> <=> 1 + 1 = Len(w.bytes)
    BY <1>2, <1>4, <2>1, NextOf
  <2> QED
    BY <2>2
<1>7. CASE IsDatum(w)
  <2>1. PICK b \in DataBytes : w.bytes = <<b>>
    BY <1>7 DEF IsDatum
  <2>2. Len(<<b>>) = 1 /\ ~(1 >= 2)
    OBVIOUS
  <2> QED
    BY <1>2, <2>1, <2>2
<1>8. CASE IsFraming(w)
  <2>1. PICK b \in {cIAC, cEOR} :
          w.bytes = <<cIAC, b>> /\ w.units = <<Framing(b)>> /\ w.ask = <<>>
    BY <1>8 DEF IsFraming
  <2>2. NextByte = b /\ inbuf' = <<>>
    BY <1>6, <2>1
  <2>3. ~CallsForAnswer(w) /\ ~IsPrefix(TypeRequest, w.ask)
    BY <2>1, NoCall
  <2>4. forward' = Append(forward, Framing(b)) /\ state' = "stData"
    BY <1>3, <2>1, <2>2 DEF IACByte, cIAC, cEOR, cWILL, cWONT, cDO, cDONT, cSB
  <2>5. Framing(b) \in {"data", "iac"} \X Byte
    <3>1. b \in Byte
      BY <2>1 DEF Byte, cIAC, cEOR
    <3> QED
      BY <3>1 DEF Framing
  <2>6. \E u \in {"data", "iac"} \X Byte : w.units = <<u>> /\ forward' = Append(forward, u)
    BY <2>1, <2>4, <2>5
  <2> QED
    BY <1>0, <1>2, <1>3, <2>2, <2>3, <2>4, <2>6, Settles DEF w
<1>9. CASE IsIgnored(w)
  <2>1. w.bytes = <<cIAC, cNOP>> /\ w.units = <<>> /\ w.ask = <<>>
    BY <1>9 DEF IsIgnored
  <2>2. NextByte = cNOP /\ inbuf' = <<>>
    BY <1>6, <2>1
  <2>3. ~CallsForAnswer(w) /\ ~IsPrefix(TypeRequest, w.ask)
    BY <2>1, NoCall
  <2>4. forward' = forward /\ state' = "stData"
    BY <1>3, <2>2 DEF IACByte, cIAC, cEOR, cWILL, cWONT, cDO, cDONT, cSB, cNOP
  <2> QED
    BY <1>0, <1>2, <1>3, <2>1, <2>2, <2>3, <2>4, Settles DEF w
<1>10. CASE w \in Negotiations /\ IsNegotiation(w)
  <2>1. PICK c \in {cDO, cWILL, cWONT}, o \in Options : w.bytes = <<cIAC, c, o>>
    BY <1>10 DEF IsNegotiation
  <2>2. NextByte = c /\ inbuf' # <<>> /\ w.bytes[2] = c
    BY <1>6, <2>1
  <2>3. forward' = forward /\ state' = "stOption" /\ optCmd' = c
    BY <1>3, <2>1, <2>2 DEF IACByte, cIAC, cEOR, cWILL, cWONT, cDO, cDONT, cSB
  <2>4. InFlight(w)'
    <3>1. state' = "stOption" /\ w \in Negotiations /\ optCmd' = w.bytes[2] /\ inbuf' = Left(w, 2)
      BY <1>6, <1>10, <2>2, <2>3
    <3> QED
      BY <1>5, <3>1 DEF InFlight, Left
  <2> QED
    BY <1>0, <1>3, <2>2, <2>3, <2>4, Keeps DEF w
<1>11. CASE IsEnclosed(w)
  <2>1. PICK s \in Payloads, e \in {cSE, cNOP} : Encloses(w, s, e)
    BY <1>11 DEF IsEnclosed
  <2>2. Bytewise(w.bytes, s, e)
    BY <2>1, Enclosed DEF Encloses
  <2>3. w.bytes[2] = cSB /\ Len(w.bytes) # 2 /\ Len(s.text) \in Nat
    BY <2>2 DEF Bytewise
  <2>4. NextByte = cSB /\ inbuf' # <<>>
    BY <1>6, <2>3
  <2>5. /\ forward' = forward /\ state' = "stSubData" /\ subneg' = <<>>
        /\ subnegOverflow' = FALSE
    BY <1>3, <2>4 DEF IACByte, cIAC, cEOR, cWILL, cWONT, cDO, cDONT, cSB
  <2>6. PICK at \in Places(s) : Doubles(s, at)
    BY TelnetAssumption DEF Places
  <2>7. 0 \in 0 .. Len(s.text) /\ at[0 + 1] = 1
    BY <2>3, <2>6 DEF Doubles
  <2>8. Collected(s, 0)'
    <3>1. 0 <= maxSubnegLen /\ (0 > maxSubnegLen) = FALSE
      BY TelnetAssumption
    <3>2. Len(subneg') = 0
      BY <2>5
    <3>3. \A j \in 1 .. Len(subneg') : subneg'[j] = s.text[j]
      BY <3>2
    <3>4. Len(subneg') = IF 0 <= maxSubnegLen THEN 0 ELSE maxSubnegLen
      BY <3>1, <3>2
    <3>5. subnegOverflow' = (0 > maxSubnegLen)
      BY <2>5, <3>1, Zenon
    <3> QED
      BY <3>3, <3>4, <3>5, Zenon DEF Collected
  <2>9. inbuf' = Left(w, at[0 + 1] + 1)
    BY <1>6, <2>7
  <2>10. InPayload(w, s, e, at, 0)'
    BY <1>5, <2>1, <2>5, <2>6, <2>8, <2>9 DEF InPayload, Encloses, Doubles, Left
  <2>11. InFlight(w)'
    BY <2>6, <2>7, <2>10 DEF InFlight, Places
  <2> QED
    BY <1>0, <1>3, <2>4, <2>5, <2>11, Keeps DEF w
<1> QED
  BY <1>1, <1>7, <1>8, <1>9, <1>10, <1>11, Kinds

(* The option byte of a negotiation *)
LEMMA OptionExact ==
  ASSUME FilterInv, ProcessorInv', StOptionByte
  PROVE  FilterInv'
<1> DEFINE w == sent[Len(sent)]
<1>0. ProcessorOK /\ inbuf # <<>> /\ ~escaped
  BY DEF FilterInv, ProcessorInv, StOptionByte, Consume
<1>1. w \in Negotiations /\ optCmd = w.bytes[2] /\ inbuf = Left(w, 2) /\ Consume
  BY <1>0 DEF FilterInv, InPlace, InFlight, InPayload, StOptionByte
<1>2. /\ UNCHANGED <<role, sent, escaped, forward>> /\ state' = "stData"
      /\ reply' = reply \o negotiate(role, optCmd, NextByte)
  BY DEF StOptionByte, Consume
<1> HIDE DEF w
<1>3. PICK c \in {cDO, cWILL, cWONT}, o \in Options :
        w.bytes = <<cIAC, c, o>> /\ w.units = <<>> /\ w.ask = <<c, o>>
  BY <1>1, NegotiationKind DEF IsNegotiation
<1>4. o \in Byte /\ c \in Byte
  BY TelnetAssumption DEF Byte, cDO, cWILL, cWONT
<1>5. NextByte = o /\ inbuf' = <<>> /\ optCmd = c
  <2>1. w.bytes \in Seq(Byte) /\ 2 \in Nat /\ 2 < Len(w.bytes)
    BY <1>3, <1>4 DEF Byte, cIAC
  <2>2. /\ NextByte = w.bytes[2 + 1]
        /\ inbuf' = <<>> <=> 2 + 1 = Len(w.bytes)
    BY <1>1, <2>1, NextOf
  <2> QED
    BY <1>1, <1>3, <2>2
<1>6. ASSUME NEW a \in {cDO, cDONT, cWILL, cWONT}, negotiate(role, c, o) = <<<<a, o>>>>,
             c \in {cDO, cWILL}, a = cWILL /\ o = optTERMTYPE => role = "roleClient"
      PROVE  CallsForAnswer(w) /\ \E r \in Seq(Byte) :
               /\ Answer(Len(sent), r) /\ reply' = Append(reply, r)
               /\ r = <<cWILL, optTERMTYPE>> => role = "roleClient"
  <2> DEFINE r == <<a, o>>
  <2>1. r \in Seq(Byte) /\ r[1] = a /\ r[2] = o /\ a # cSB
    BY <1>4, <1>6 DEF Byte, cDO, cDONT, cWILL, cWONT, cSB
  <2>2. Answer(Len(sent), r)
    BY <1>3, <2>1 DEF Answer, w
  <2>3. reply' = Append(reply, r)
    <3> DEFINE U == Seq(Byte)
    <3>1. reply \in Seq(U) /\ r \in U
      BY <1>0, <2>1 DEF ProcessorOK
    <3>2. reply' = reply \o <<r>>
      BY <1>2, <1>5, <1>6
    <3> HIDE DEF U, r
    <3> QED
      BY <3>1, <3>2, AppendIsConcat
  <2>4. r = <<cWILL, optTERMTYPE>> => role = "roleClient"
    BY <1>6, <2>1
  <2>5. CallsForAnswer(w)
    BY <1>3, <1>6, NegotiationCall
  <2> HIDE DEF r
  <2> QED
    BY <2>1, <2>2, <2>3, <2>4, <2>5
<1>7. CASE c = cDO
  <2>1. c \in {cDO, cWILL}
    BY <1>7
  <2>0. negotiate(role, c, o) = <<<<IF agreeable(role, o) THEN cWILL ELSE cWONT, o>>>>
    BY <1>7 DEF negotiate, cDO, cWILL
  <2>2. CASE agreeable(role, o)
    <3>1. negotiate(role, c, o) = <<<<cWILL, o>>>>
      BY <1>7, <2>2 DEF negotiate
    <3>2. o = optTERMTYPE => role = "roleClient"
      BY <2>2 DEF agreeable, optTERMTYPE, optBINARY, optEOR, optSGA
    <3>3. CallsForAnswer(w) /\ \E r \in Seq(Byte) :
               /\ Answer(Len(sent), r) /\ reply' = Append(reply, r)
               /\ r = <<cWILL, optTERMTYPE>> => role = "roleClient"
      BY <1>6, <2>1, <3>1, <3>2
    <3> QED
      BY <1>0, <1>2, <1>3, <1>5, <3>3, Settles DEF w
  <2>3. CASE ~agreeable(role, o)
    <3>0. cWONT # cWILL
      BY DEF cWONT, cWILL
    <3>1. negotiate(role, c, o) = <<<<cWONT, o>>>>
      <4>1. (IF agreeable(role, o) THEN cWILL ELSE cWONT) = cWONT
        BY <2>3, Zenon
      <4> QED
        BY <2>0, <4>1, Zenon
    <3>2. CallsForAnswer(w) /\ \E r \in Seq(Byte) :
               /\ Answer(Len(sent), r) /\ reply' = Append(reply, r)
               /\ r = <<cWILL, optTERMTYPE>> => role = "roleClient"
      BY <1>6, <2>1, <3>0, <3>1
    <3> QED
      BY <1>0, <1>2, <1>3, <1>5, <3>2, Settles DEF w
  <2> QED
    BY <2>2, <2>3
<1>8. CASE c = cWILL
  <2>1. c \in {cDO, cWILL}
    BY <1>8
  <2>2. PICK a \in {cDO, cDONT} : negotiate(role, c, o) = <<<<a, o>>>>
    BY <1>8 DEF negotiate, cWILL, cDO
  <2>3. a # cWILL
    BY DEF cDO, cDONT, cWILL
  <2>4. CallsForAnswer(w) /\ \E r \in Seq(Byte) :
             /\ Answer(Len(sent), r) /\ reply' = Append(reply, r)
             /\ r = <<cWILL, optTERMTYPE>> => role = "roleClient"
    BY <1>6, <2>1, <2>2, <2>3
  <2> QED
    BY <1>0, <1>2, <1>3, <1>5, <2>4, Settles DEF w
<1>9. CASE c = cWONT
  <2>1. c \notin {cDO, cWILL} /\ negotiate(role, c, o) = <<>>
    BY <1>9 DEF negotiate, cWONT, cWILL, cDO
  <2>2. ~CallsForAnswer(w)
    BY <1>3, <2>1, NegotiationCall
  <2>3. reply' = reply
    BY <1>0, <1>2, <1>5, <2>1, ConcatEmptySeq DEF ProcessorOK
  <2> QED
    BY <1>0, <1>2, <1>3, <1>5, <2>2, <2>3, Settles DEF w
<1> QED
  BY <1>7, <1>8, <1>9

(* One more byte of the text is collected, or noted as too many. *)
LEMMA Collects ==
  ASSUME ProcessorOK, NEW s \in Payloads, NEW i \in 0 .. Len(s.text), i < Len(s.text),
         Collected(s, i), NEW b \in Byte, b = s.text[i + 1], Collect(b)
  PROVE  Collected(s, i + 1)'
<1>1. subneg \in Seq(Byte) /\ Len(subneg) \in Nat /\ maxSubnegLen \in Nat /\ i \in Nat
  BY TelnetAssumption DEF ProcessorOK
<1>2. /\ Len(subneg) = IF i <= maxSubnegLen THEN i ELSE maxSubnegLen
      /\ \A j \in 1 .. Len(subneg) : subneg[j] = s.text[j]
      /\ subnegOverflow = (i > maxSubnegLen)
  BY DEF Collected
<1>3. CASE i < maxSubnegLen
  <2>1. ~subnegOverflow /\ Len(subneg) < maxSubnegLen /\ Len(subneg) = i
    <3>1. ~(i > maxSubnegLen) /\ i <= maxSubnegLen
      BY <1>1, <1>3
    <3>2. ~subnegOverflow
      BY <1>2, <3>1, Zenon
    <3>3. Len(subneg) = i
      BY <1>2, <3>1
    <3> QED
      BY <1>3, <3>2, <3>3
  <2>2. subneg' = Append(subneg, b) /\ subnegOverflow' = FALSE
    BY <2>1 DEF Collect
  <2>3. /\ Len(subneg') = i + 1 /\ subneg'[i + 1] = b
        /\ \A j \in 1 .. i : subneg'[j] = subneg[j]
    BY <1>1, <2>1, <2>2, Extend
  <2>4. \A j \in 1 .. i + 1 : j \in 1 .. i \/ j = i + 1
    BY <1>1
  <2>5. \A j \in 1 .. i + 1 : subneg'[j] = s.text[j]
    BY <1>2, <2>1, <2>3, <2>4
  <2>6. i + 1 <= maxSubnegLen /\ (i + 1 > maxSubnegLen) = FALSE
    BY <1>1, <1>3
  <2>7. subnegOverflow' = (i + 1 > maxSubnegLen)
    BY <2>2, <2>6, Zenon
  <2> QED
    BY <2>3, <2>5, <2>6, <2>7 DEF Collected
<1>4. CASE ~(i < maxSubnegLen)
  <2>1. Len(subneg) = maxSubnegLen
    BY <1>1, <1>2, <1>4
  <2>2. subneg' = subneg /\ subnegOverflow' = TRUE
    <3>1. ~(Len(subneg) < maxSubnegLen)
      BY <1>1, <2>1
    <3> QED
      BY <3>1, Zenon DEF Collect
  <2>3. ~(i + 1 <= maxSubnegLen) /\ i + 1 > maxSubnegLen
    BY <1>1, <1>4
  <2>4. subnegOverflow' = (i + 1 > maxSubnegLen)
    BY <2>2, <2>3, Zenon
  <2> QED
    BY <1>2, <2>1, <2>2, <2>3, <2>4 DEF Collected
<1> QED
  BY <1>3, <1>4

(* Where in a subnegotiation the parser stands *)
LEMMA InSub ==
  ASSUME FilterInv, inbuf # <<>>, state \in {"stSubData", "stSubIAC"}
  PROVE  \E s \in Payloads, e \in {cSE, cNOP} : \E at \in Places(s), i \in 0 .. Len(s.text) :
           InPayload(sent[Len(sent)], s, e, at, i)
BY DEF FilterInv, InPlace, InFlight

(* A byte in a subnegotiation *)
LEMMA SubDataExact ==
  ASSUME FilterInv, ProcessorInv', StSubDataByte
  PROVE  FilterInv'
<1> DEFINE w == sent[Len(sent)]
<1>0. /\ ProcessorOK /\ sent # <<>> /\ inbuf # <<>> /\ ~escaped /\ Consume
      /\ state = "stSubData" /\ UNCHANGED <<role, sent, escaped, forward, reply>>
  BY DEF FilterInv, ProcessorInv, InPlace, StSubDataByte, Consume
<1>1. PICK s \in Payloads, e \in {cSE, cNOP} : \E at \in Places(s), i \in 0 .. Len(s.text) :
        InPayload(w, s, e, at, i)
  BY <1>0, InSub
<1>2. PICK at \in Places(s), i \in 0 .. Len(s.text) : InPayload(w, s, e, at, i)
  BY <1>1
<1>3. w' = w
  BY <1>0
<1> HIDE DEF w
<1>4. /\ Encloses(w, s, e) /\ Doubles(s, at) /\ Collected(s, i)
      /\ inbuf = Left(w, at[i + 1] + 1)
  BY <1>0, <1>2 DEF InPayload
<1>5. Bytewise(w.bytes, s, e)
  BY <1>4, Enclosed DEF Encloses
<1> DEFINE q == at[i + 1]
<1>6. /\ q \in 1 .. Len(s.wire) + 1
      /\ i = Len(s.text) => q = Len(s.wire) + 1
      /\ i < Len(s.text) =>
           /\ q <= Len(s.wire) /\ s.wire[q] = s.text[i + 1]
           /\ s.text[i + 1] # cIAC => at[i + 2] = q + 1
  BY <1>4, TextPlace
<1>7. /\ Len(w.bytes) = Len(s.wire) + 4 /\ Len(s.wire) \in Nat /\ Len(s.text) \in Nat
      /\ w.bytes \in Seq(Byte) /\ s.text \in Seq(Byte)
      /\ \A j \in 1 .. Len(s.wire) : w.bytes[j + 2] = s.wire[j]
      /\ w.bytes[Len(s.wire) + 3] = cIAC
  BY <1>5 DEF Bytewise
<1>8. q \in Nat /\ q + 1 \in Nat /\ q + 1 < Len(w.bytes) /\ (q + 1) + 1 = q + 2
      /\ q + 2 # Len(w.bytes)
  <2> HIDE DEF q
  <2> QED
    BY <1>6, <1>7
<1>9. /\ NextByte = w.bytes[q + 2] /\ inbuf' = Left(w, q + 2) /\ inbuf' # <<>>
  <2>1. inbuf = Left(w, q + 1)
    BY <1>4
  <2> HIDE DEF q
  <2>2. /\ NextByte = w.bytes[(q + 1) + 1]
        /\ inbuf' = Left(w, (q + 1) + 1)
        /\ inbuf' = <<>> <=> (q + 1) + 1 = Len(w.bytes)
    BY <1>0, <1>7, <1>8, <2>1, NextOf
  <2> QED
    BY <1>8, <2>2
<1>10. i < Len(s.text) => NextByte = s.text[i + 1]
  <2> HIDE DEF q
  <2> QED
    BY <1>6, <1>7, <1>8, <1>9
<1>11. i = Len(s.text) => NextByte = cIAC
  <2> HIDE DEF q
  <2>1. i = Len(s.text) => q + 2 = Len(s.wire) + 3
    BY <1>6, <1>7, <1>8
  <2> QED
    BY <1>7, <1>9, <2>1
<1>12. i < Len(s.text) \/ i = Len(s.text)
  BY <1>7
<1>13. CASE NextByte = cIAC
  <2>1. state' = "stSubIAC" /\ UNCHANGED <<subneg, subnegOverflow>>
    BY <1>13 DEF StSubDataByte
  <2>2. i = Len(s.text) \/ s.text[i + 1] = cIAC
    BY <1>10, <1>12, <1>13
  <2>3. Collected(s, i)' /\ Encloses(w, s, e)' /\ Doubles(s, at)'
    BY <1>3, <1>4, <2>1 DEF Collected, Encloses, Doubles
  <2>4. InPayload(w, s, e, at, i)'
    BY <1>3, <1>9, <2>1, <2>2, <2>3 DEF InPayload, Left
  <2>5. InFlight(w)'
    BY <2>4 DEF InFlight, Places
  <2> QED
    BY <1>0, <1>9, <2>5, Keeps DEF w
<1>14. CASE NextByte # cIAC
  <2>1. state' = state /\ Collect(NextByte)
    BY <1>14 DEF StSubDataByte
  <2>2. i < Len(s.text) /\ NextByte = s.text[i + 1] /\ NextByte \in Byte
    BY <1>10, <1>11, <1>12, <1>14, <1>7
  <2>3. Collected(s, i + 1)'
    BY <1>0, <1>4, <2>1, <2>2, Collects
  <2>4. i + 1 \in 0 .. Len(s.text) /\ (i + 1) + 1 = i + 2
    BY <1>7, <2>2
  <2>5. inbuf' = Left(w, at[(i + 1) + 1] + 1)
    <3>1. at[i + 2] = q + 1
      BY <1>6, <1>14, <2>2
    <3> HIDE DEF q
    <3> QED
      BY <1>8, <1>9, <2>4, <3>1
  <2>6. Encloses(w, s, e)' /\ Doubles(s, at)'
    BY <1>3, <1>4 DEF Encloses, Doubles
  <2>7. InPayload(w, s, e, at, i + 1)'
    BY <1>0, <1>3, <2>1, <2>3, <2>5, <2>6 DEF InPayload, Left
  <2>8. InFlight(w)'
    BY <2>4, <2>7 DEF InFlight, Places
  <2> QED
    BY <1>0, <1>9, <2>8, Keeps DEF w
<1> QED
  BY <1>13, <1>14

(* A byte after an IAC in a subnegotiation *)
LEMMA SubIACExact ==
  ASSUME FilterInv, ProcessorInv', StSubIACByte
  PROVE  FilterInv'
<1> DEFINE w == sent[Len(sent)]
<1>0. /\ ProcessorOK /\ sent # <<>> /\ inbuf # <<>> /\ ~escaped /\ Consume
      /\ state = "stSubIAC" /\ UNCHANGED <<role, sent, escaped, forward>>
      /\ Len(sent) \in DOMAIN sent
  BY DEF FilterInv, ProcessorInv, ProcessorOK, InPlace, StSubIACByte, Consume
<1>1. PICK s \in Payloads, e \in {cSE, cNOP} : \E at \in Places(s), i \in 0 .. Len(s.text) :
        InPayload(w, s, e, at, i)
  BY <1>0, InSub
<1>2. PICK at \in Places(s), i \in 0 .. Len(s.text) : InPayload(w, s, e, at, i)
  BY <1>1
<1>3. w' = w
  BY <1>0
<1> HIDE DEF w
<1>4. /\ Encloses(w, s, e) /\ Doubles(s, at) /\ Collected(s, i)
      /\ inbuf = Left(w, at[i + 1] + 2)
      /\ i = Len(s.text) \/ s.text[i + 1] = cIAC
  BY <1>0, <1>2 DEF InPayload
<1>5. Bytewise(w.bytes, s, e)
  BY <1>4, Enclosed DEF Encloses
<1> DEFINE q == at[i + 1]
<1>6. /\ q \in 1 .. Len(s.wire) + 1
      /\ i = Len(s.text) => q = Len(s.wire) + 1
      /\ i < Len(s.text) /\ s.text[i + 1] = cIAC =>
           q + 1 <= Len(s.wire) /\ s.wire[q + 1] = cIAC /\ at[i + 2] = q + 2
  BY <1>4, TextPlace
<1>7. /\ Len(w.bytes) = Len(s.wire) + 4 /\ Len(s.wire) \in Nat /\ Len(s.text) \in Nat
      /\ w.bytes \in Seq(Byte) /\ s.text \in Seq(Byte)
      /\ \A j \in 1 .. Len(s.wire) : w.bytes[j + 2] = s.wire[j]
      /\ w.bytes[Len(s.wire) + 4] = e
  BY <1>5 DEF Bytewise
<1>8. q \in Nat /\ q + 2 \in Nat /\ q + 2 < Len(w.bytes) /\ (q + 2) + 1 = q + 3
  <2> HIDE DEF q
  <2> QED
    BY <1>6, <1>7
<1>9. /\ NextByte = w.bytes[q + 3] /\ inbuf' = Left(w, q + 3)
      /\ inbuf' = <<>> <=> q + 3 = Len(w.bytes)
  <2>1. inbuf = Left(w, q + 2)
    BY <1>4
  <2> HIDE DEF q
  <2>2. /\ NextByte = w.bytes[(q + 2) + 1]
        /\ inbuf' = Left(w, (q + 2) + 1)
        /\ inbuf' = <<>> <=> (q + 2) + 1 = Len(w.bytes)
    BY <1>0, <1>7, <1>8, <2>1, NextOf
  <2> QED
    BY <1>8, <2>2
<1>10. i < Len(s.text) \/ i = Len(s.text)
  BY <1>7
<1>11. CASE i < Len(s.text)
  <2>1. s.text[i + 1] = cIAC /\ i # Len(s.text)
    BY <1>4, <1>7, <1>11
  <2>2. q + 1 <= Len(s.wire) /\ s.wire[q + 1] = cIAC /\ at[i + 2] = q + 2
    BY <1>6, <1>11, <2>1
  <2>3. NextByte = cIAC /\ inbuf' # <<>>
    <3> HIDE DEF q
    <3>1. q + 1 \in 1 .. Len(s.wire) /\ (q + 1) + 2 = q + 3 /\ q + 3 # Len(w.bytes)
      BY <1>7, <1>8, <2>2
    <3> QED
      BY <1>7, <1>9, <2>2, <3>1
  <2>4. state' = "stSubData" /\ Collect(cIAC) /\ reply' = reply
    BY <2>3 DEF StSubIACByte, cIAC, cSE
  <2>5. Collected(s, i + 1)'
    <3>1. cIAC \in Byte
      BY DEF cIAC, Byte
    <3> QED
      BY <1>0, <1>4, <1>11, <2>1, <2>4, <3>1, Collects
  <2>6. i + 1 \in 0 .. Len(s.text) /\ (i + 1) + 1 = i + 2
    BY <1>7, <1>11
  <2>7. inbuf' = Left(w, at[(i + 1) + 1] + 1)
    <3>1. at[i + 2] = q + 2
      BY <2>2
    <3> HIDE DEF q
    <3>2. (q + 2) + 1 = q + 3
      BY <1>8
    <3> QED
      BY <1>9, <2>6, <3>1, <3>2
  <2>8. Encloses(w, s, e)' /\ Doubles(s, at)'
    BY <1>3, <1>4 DEF Encloses, Doubles
  <2>9. InPayload(w, s, e, at, i + 1)'
    BY <1>3, <2>4, <2>5, <2>7, <2>8 DEF InPayload, Left
  <2>10. InFlight(w)'
    BY <2>6, <2>9 DEF InFlight, Places
  <2> QED
    BY <1>0, <2>3, <2>4, <2>10, Keeps DEF w
<1>12. CASE i = Len(s.text)
  <2>1. NextByte = e /\ inbuf' = <<>>
    <3>1. q = Len(s.wire) + 1
      BY <1>6, <1>12
    <3> HIDE DEF q
    <3>2. q + 3 = Len(s.wire) + 4
      BY <1>7, <3>1
    <3> QED
      BY <1>7, <1>9, <3>2
  <2>2. w.units = <<>>
    BY <1>4 DEF Encloses
  <2>3. CASE e = cNOP
    <3>1. state' = "stData" /\ reply' = reply
      BY <2>1, <2>3 DEF StSubIACByte, cIAC, cSE, cNOP
    <3>2. w.ask = <<>>
      BY <1>4, <2>3 DEF Encloses, cNOP, cSE
    <3>3. ~CallsForAnswer(w)
      BY <3>2, NoCall
    <3> QED
      BY <1>0, <2>1, <2>2, <3>1, <3>3, Settles DEF w
  <2>4. CASE e = cSE
    <3>1. /\ state' = "stData"
          /\ reply' = IF subnegOverflow THEN reply ELSE reply \o subnegReply
      BY <2>1, <2>4 DEF StSubIACByte, cIAC, cSE
    <3>2. w.ask = <<cSB>> \o s.text
      BY <1>4, <2>4 DEF Encloses
    <3> DEFINE typed == IsPrefix(<<optTERMTYPE, ttSEND>>, s.text)
    <3>3. /\ IsPrefix(TypeRequest, w.ask) <=> typed
          /\ CallsForAnswer(w) <=> typed /\ Len(s.text) <= maxSubnegLen
          /\ w.ask[1] = cSB
          /\ typed => w.ask[2] = optTERMTYPE
      BY <3>2, PayloadCall
    <3>4. maxSubnegLen \in Nat
      BY TelnetAssumption
    <3>5. CASE Len(s.text) <= maxSubnegLen
      <4>1. ~subnegOverflow /\ subneg = s.text
        <5>1. /\ Len(subneg) = Len(s.text)
              /\ \A j \in 1 .. Len(subneg) : subneg[j] = s.text[j]
          BY <1>4, <1>12, <3>5 DEF Collected
        <5>2. subneg \in Seq(Byte)
          BY <1>0 DEF ProcessorOK
        <5>3. subneg = s.text
          BY <1>7, <5>1, <5>2, SeqEqual
        <5>4. subnegOverflow = (i > maxSubnegLen)
          BY <1>4 DEF Collected
        <5>5. ~(i > maxSubnegLen)
          BY <1>7, <1>12, <3>4, <3>5
        <5>6. ~subnegOverflow
          BY <5>4, <5>5, Zenon
        <5> QED
          BY <5>3, <5>6
      <4>2. reply' = reply \o subnegReply
        BY <3>1, <4>1
      <4>3. CASE typed
        <5> DEFINE r == <<cSB, optTERMTYPE, ttIS>>
                   U == Seq(Byte)
        <5>1. subnegReply = <<r>>
          BY <4>1, <4>3 DEF subnegReply
        <5>2. r \in U /\ reply \in Seq(U) /\ r[1] = cSB /\ r[2] = optTERMTYPE
          BY <1>0 DEF ProcessorOK, Byte, cSB, optTERMTYPE, ttIS
        <5>3. r # <<cWILL, optTERMTYPE>>
          BY <5>2 DEF cSB, cWILL
        <5>4. role = "roleClient"
          BY <1>0, <3>3, <4>3 DEF FilterInv, OnlyClientOffers, w
        <5>5. CallsForAnswer(w)
          BY <3>3, <3>5, <4>3
        <5>6. Answer(Len(sent), r)
          BY <3>3, <4>3, <5>2, <5>4 DEF Answer, w
        <5> HIDE DEF r, U
        <5>7. reply' = Append(reply, r)
          BY <4>2, <5>1, <5>2, AppendIsConcat
        <5>8. CallsForAnswer(w) /\ \E x \in Seq(Byte) :
                 /\ Answer(Len(sent), x) /\ reply' = Append(reply, x)
                 /\ x = <<cWILL, optTERMTYPE>> => role = "roleClient"
          BY <5>2, <5>3, <5>5, <5>6, <5>7 DEF U
        <5> QED
          BY <1>0, <2>1, <2>2, <3>1, <5>8, Settles DEF w
      <4>4. CASE ~typed
        <5>1. subnegReply = <<>>
          BY <4>1, <4>4 DEF subnegReply
        <5>2. reply' = reply
          BY <1>0, <4>2, <5>1, ConcatEmptySeq DEF ProcessorOK
        <5>3. ~CallsForAnswer(w)
          BY <3>3, <4>4
        <5> QED
          BY <1>0, <2>1, <2>2, <3>1, <5>2, <5>3, Settles DEF w
      <4> QED
        BY <4>3, <4>4
    <3>6. CASE ~(Len(s.text) <= maxSubnegLen)
      <4>1. ~CallsForAnswer(w)
        BY <3>3, <3>6
      <4>2. i > maxSubnegLen
        BY <1>7, <1>12, <3>4, <3>6
      <4>3. subnegOverflow
        BY <1>4, <4>2, Zenon DEF Collected
      <4>4. reply' = reply
        BY <3>1, <4>3
      <4> QED
        BY <1>0, <2>1, <2>2, <3>1, <4>1, <4>4, Settles DEF w
    <3> QED
      BY <3>5, <3>6
  <2> QED
    BY <2>3, <2>4
<1> QED
  BY <1>10, <1>11, <1>12

(* FilterInv is inductive. *)
LEMMA FilterNext == FilterInv /\ [ProcessorNext]_processorVars => FilterInv'
<1> SUFFICES ASSUME FilterInv, [ProcessorNext]_processorVars PROVE FilterInv'
  OBVIOUS
<1>1. ProcessorInv'
  BY NextInd DEF FilterInv
<1>2. CASE Finished \/ UNCHANGED processorVars
  <2>1. UNCHANGED processorVars
    BY <1>2 DEF Finished
  <2>2. UNCHANGED <<role, state, optCmd, subneg, subnegOverflow, escaped, forward, reply, inbuf, sent>>
    BY <2>1 DEF processorVars, parser
  <2>3. InPlace'
    <3>0. ASSUME NEW w, NEW s, NEW e, NEW at, NEW i, InPayload(w, s, e, at, i)
          PROVE  InPayload(w, s, e, at, i)'
      <4>1. Encloses(w, s, e)' /\ Doubles(s, at)'
        BY <3>0 DEF InPayload, Encloses, Doubles
      <4>2. Collected(s, i)'
        BY <2>2, <3>0 DEF InPayload, Collected
      <4> QED
        BY <2>2, <3>0, <4>1, <4>2 DEF InPayload, Left
    <3>1. ASSUME NEW w, InFlight(w) PROVE InFlight(w)'
      <4>1. CASE \E s \in Payloads, e \in {cSE, cNOP} :
                   \E at \in Places(s), i \in 0 .. Len(s.text) : InPayload(w, s, e, at, i)
        BY <3>0, <4>1, Zenon DEF InFlight, Places
      <4>2. CASE \/ state = "stData" /\ inbuf = w.bytes
                 \/ /\ state = "stIAC" /\ Len(w.bytes) >= 2 /\ w.bytes[1] = cIAC
                    /\ inbuf = Left(w, 1)
                 \/ state = "stOption" /\ w \in Negotiations /\ optCmd = w.bytes[2] /\ inbuf = Left(w, 2)
        BY <2>2, <4>2 DEF InFlight, Left
      <4> QED
        BY <3>1, <4>1, <4>2, Zenon DEF InFlight
    <3> QED
      BY <2>2, <3>1 DEF FilterInv, InPlace, CallsForAnswer
  <2>4. OnlyClientOffers'
    BY <2>2 DEF FilterInv, OnlyClientOffers
  <2>5. ForwardedUpTo(Done)' /\ AnsweredUpTo(Done)'
    BY <2>2 DEF FilterInv, Done, ForwardedUpTo, AnsweredUpTo, Carried, Asked, CallsForAnswer,
                Answer
  <2> QED
    BY <1>1, <2>3, <2>4, <2>5 DEF FilterInv
<1> QED
  BY <1>1, <1>2, ReceiveKeeps, DataExact, IACExact, OptionExact, SubDataExact, SubIACExact
  DEF ProcessorNext

(* Nothing but the 3270 data reaches the other leg, all of it and in       *)
(* order, however the chunks are cut and whatever the subnegotiations.     *)
THEOREM PayloadKept == ProcessorSpec => []PayloadExact
<1>1. ASSUME FilterInv PROVE PayloadExact
  <2> SUFFICES ASSUME inbuf = <<>>,
                      NEW carried, carried = {k \in Processed : sent[k].units # <<>>}
               PROVE  /\ Len(forward) = Cardinality(carried)
                      /\ \A k \in carried : sent[k].units = <<forward[UpTo(carried, k)]>>
    BY DEF PayloadExact
  <2>1. ForwardedUpTo(Done) /\ ProcessorOK /\ InPlace
    BY <1>1 DEF FilterInv, ProcessorInv
  <2>2. PICK n \in Nat : n = Len(sent)
    BY <2>1 DEF ProcessorOK
  <2>3. PICK d \in Nat : d = Done /\ d <= n /\ Processed = 1 .. d
    <3>1. escaped => n - 1 \in Nat
      <4>1. escaped => n # 0
        BY <2>1, <2>2, EmptySeq DEF InPlace, ProcessorOK
      <4> QED
        BY <2>2, <4>1
    <3> QED
      BY <2>2, <3>1 DEF Done, Processed
  <2>4. DOMAIN sent = 1 .. n
    BY <2>1, <2>2 DEF ProcessorOK
  <2>5. \A j \in Nat : j <= d => (j \in Carried <=> j \in carried)
    BY <2>2, <2>3, <2>4 DEF Carried
  <2>6. Carried \in SUBSET Nat /\ carried \in SUBSET (1 .. d) /\ carried \in SUBSET Nat
    BY <2>3, <2>4 DEF Carried
  <2>7. \A k \in Nat : k <= d => UpTo(Carried, k) = UpTo(carried, k)
    BY <2>5, <2>6, SameCount
  <2>8. Counts(carried, d)
    BY <2>6, Counting
  <2>9. Len(forward) = Cardinality(carried)
    BY <2>1, <2>3, <2>7, <2>8 DEF ForwardedUpTo, Counts
  <2>10. ASSUME NEW k \in carried PROVE sent[k].units = <<forward[UpTo(carried, k)]>>
    <3>1. k \in Nat /\ k <= d
      BY <2>6
    <3> QED
      BY <2>1, <2>3, <2>5, <2>7, <3>1 DEF ForwardedUpTo
  <2> QED
    BY <2>9, <2>10
<1> QED
  BY FilterInit, FilterNext, <1>1, PTL DEF ProcessorSpec

(* Each request that calls for an answer gets one, about what it asked and *)
(* in the order asked; the rest, an oversized request included, get none.  *)
THEOREM AnswersMatch == ProcessorSpec => []AnswersExact
<1>1. ASSUME FilterInv PROVE AnswersExact
  <2> SUFFICES ASSUME inbuf = <<>>
               PROVE  /\ Len(reply) = Cardinality(Asked)
                      /\ \A k \in Asked : Answer(k, reply[UpTo(Asked, k)])
    BY Zenon DEF AnswersExact, Asked, Answer
  <2>1. AnsweredUpTo(Done) /\ ProcessorOK /\ InPlace
    BY <1>1 DEF FilterInv, ProcessorInv
  <2>2. PICK n \in Nat : n = Len(sent)
    BY <2>1 DEF ProcessorOK
  <2>3. DOMAIN sent = 1 .. n
    BY <2>1, <2>2 DEF ProcessorOK
  <2>4. Asked \in SUBSET (1 .. n)
    BY <2>3 DEF Asked
  <2>5. Counts(Asked, n)
    BY <2>4, Counting
  <2>6. AnsweredUpTo(n)
    <3>1. CASE ~escaped
      BY <2>1, <2>2, <3>1 DEF Done
    <3>2. CASE escaped
      <4>1. n \notin Asked /\ n # 0
        BY <2>1, <2>2, <3>2, EmptySeq DEF InPlace, Asked, ProcessorOK
      <4>2. PICK d \in Nat : n = d + 1 /\ d = Done
        <5>1. n - 1 \in Nat /\ n = (n - 1) + 1
          BY <4>1
        <5> QED
          BY <2>2, <3>2, <5>1 DEF Done
      <4>3. UpTo(Asked, n) = UpTo(Asked, d)
        BY <2>5, <4>1, <4>2 DEF Counts
      <4>4. \A k \in Asked : k <= d
        BY <2>4, <4>1, <4>2
      <4> QED
        BY <2>1, <4>2, <4>3, <4>4 DEF AnsweredUpTo
    <3> QED
      BY <3>1, <3>2
  <2>7. \A k \in Asked : k <= n
    BY <2>4
  <2> QED
    BY <2>5, <2>6, <2>7 DEF AnsweredUpTo, Counts
<1> QED
  BY FilterInit, FilterNext, <1>1, PTL DEF ProcessorSpec

-----------------------------------------------------------------------------
(* What an endpoint hears *)

HearAt == {"data", "iac", "option", "sub", "subIac"}
Hears == [at : HearAt, data : Seq({"data", "iac"} \X Byte), commands : Seq(Byte)]

LEMMA HearType ==
  ASSUME NEW r \in Hears, NEW b \in Byte
  PROVE  Hear(r, b) \in Hears
<1> DEFINE U == {"data", "iac"} \X Byte
<1>1. Data(b) \in U /\ Framing(b) \in U
  BY DEF Data, Framing
<1> HIDE DEF U
<1>2. /\ r = [at |-> r.at, data |-> r.data, commands |-> r.commands]
      /\ r.at \in HearAt /\ r.data \in Seq(U) /\ r.commands \in Seq(Byte)
  BY DEF Hears, U
<1>3. /\ Append(r.data, Data(b)) \in Seq(U) /\ Append(r.data, Framing(b)) \in Seq(U)
      /\ Append(r.commands, b) \in Seq(Byte)
  BY <1>1, <1>2
<1>4. \A x \in Seq(U), y \in Seq(Byte), p \in HearAt : [at |-> p, data |-> x, commands |-> y] \in Hears
  BY DEF Hears, U
<1>5. CASE r.at = "data"
  BY <1>2, <1>3, <1>4, <1>5 DEF Hear, HearAt
<1>6. CASE r.at = "iac"
  <2>1. CASE b \in {cIAC, cEOR}
    BY <1>2, <1>3, <1>4, <1>6, <2>1 DEF Hear, HearAt
  <2>2. CASE b \notin {cIAC, cEOR} /\ b \in {cDO, cDONT, cWILL, cWONT, cSB}
    <3>1. [at |-> "option", data |-> r.data, commands |-> Append(r.commands, b)] \in Hears
      BY <1>2, <1>3, <1>4 DEF HearAt
    <3>2. [at |-> "sub", data |-> r.data, commands |-> Append(r.commands, b)] \in Hears
      BY <1>2, <1>3, <1>4 DEF HearAt
    <3>3. Hear(r, b) \in {[at |-> "option", data |-> r.data, commands |-> Append(r.commands, b)],
                          [at |-> "sub", data |-> r.data, commands |-> Append(r.commands, b)]}
      BY <1>2, <1>6, <2>2 DEF Hear
    <3> QED
      BY <3>1, <3>2, <3>3
  <2>3. CASE b \notin {cIAC, cEOR} /\ b \notin {cDO, cDONT, cWILL, cWONT, cSB}
    BY <1>2, <1>4, <1>6, <2>3 DEF Hear, HearAt
  <2> QED
    BY <2>1, <2>2, <2>3
<1>7. CASE r.at = "option"
  BY <1>2, <1>3, <1>4, <1>7 DEF Hear, HearAt
<1>8. CASE r.at = "sub"
  BY <1>2, <1>3, <1>4, <1>8 DEF Hear, HearAt
<1>9. CASE r.at = "subIac"
  BY <1>2, <1>3, <1>4, <1>9 DEF Hear, HearAt
<1> QED
  BY <1>2, <1>5, <1>6, <1>7, <1>8, <1>9 DEF HearAt

LEMMA HeardType == Heard \in Hears
BY DEF Heard, Hears, HearAt

(* What is heard byte after byte *)
LEMMA HearEach ==
  ASSUME NEW w \in Seq(Byte)
  PROVE  \E f \in [0 .. Len(w) -> Hears] :
           f[0] = Heard /\ \A n \in 1 .. Len(w) : f[n] = Hear(f[n - 1], w[n])
<1> DEFINE N == Len(w)
           g == [p \in (1 .. N) \X Hears |-> Hear(p[2], w[p[1]])]
<1>1. g \in [(1 .. N) \X Hears -> Hears]
  <2>1. ASSUME NEW p \in (1 .. N) \X Hears PROVE Hear(p[2], w[p[1]]) \in Hears
    <3>1. p[2] \in Hears /\ w[p[1]] \in Byte
      OBVIOUS
    <3> QED
      BY <3>1, HearType
  <2> QED
    BY <2>1
<1>2. Heard \in Hears /\ N \in Nat
  BY HeardType
<1>3. PICK f \in [0 .. N -> Hears] : Recurrence(f, N, Heard, g)
  <2> HIDE DEF g, N
  <2> QED
    BY <1>1, <1>2, Recurs
<1>4. ASSUME NEW n \in 1 .. N PROVE f[n] = Hear(f[n - 1], w[n])
  <2>1. f[n - 1] \in Hears
    OBVIOUS
  <2>2. <<n, f[n - 1]>> \in (1 .. N) \X Hears
    BY <2>1
  <2> QED
    BY <1>3, <2>2 DEF Recurrence
<1> QED
  BY <1>3, <1>4 DEF Recurrence

LEMMA HearRun ==
  ASSUME NEW w \in Seq(Byte), NEW f \in [0 .. Len(w) -> Hears],
         f[0] = Heard, \A n \in 1 .. Len(w) : f[n] = Hear(f[n - 1], w[n])
  PROVE  HeardIn(w) = f[Len(w)]
<1> DEFINE N == Len(w)
           R(u) == [n \in 0 .. N |-> IF n = 0 THEN Heard ELSE Hear(u[n - 1], w[n])]
           hear == CHOOSE u : u = R(u)
<1>1. f = R(f)
  <2>1. ASSUME NEW n \in 0 .. N PROVE f[n] = IF n = 0 THEN Heard ELSE Hear(f[n - 1], w[n])
    OBVIOUS
  <2> QED
    BY <2>1
<1>2. hear = R(hear)
  BY <1>1
<1>3. HeardIn(w) = hear[N]
  BY DEF HeardIn
<1> HIDE DEF hear
<1>4. PICK u : u = hear
  OBVIOUS
<1>5. \A n \in 1 .. N : f[n - 1] = u[n - 1] => f[n] = u[n]
  <2> TAKE n \in 1 .. N
  <2>1. u[n] = IF n = 0 THEN Heard ELSE Hear(u[n - 1], w[n])
    BY <1>2, <1>4
  <2> QED
    BY <2>1
<1>6. N \in Nat /\ f[0] = u[0]
  BY <1>2, <1>4
<1>7. Same(f, u, N)
  BY <1>5, <1>6, Agree DEF InStep
<1> QED
  BY <1>3, <1>4, <1>6, <1>7 DEF Same

(* One byte more *)
LEMMA HearNext ==
  ASSUME NEW w \in Seq(Byte), NEW b \in Byte
  PROVE  HeardIn(w) \in Hears /\ HeardIn(Append(w, b)) = Hear(HeardIn(w), b)
<1> DEFINE t == Append(w, b)
           N == Len(w)
<1>1. /\ t \in Seq(Byte) /\ N \in Nat /\ Len(t) = N + 1 /\ t[N + 1] = b
      /\ \A i \in 1 .. N : t[i] = w[i]
  OBVIOUS
<1> HIDE DEF t
<1>2. PICK f \in [0 .. Len(t) -> Hears] :
        f[0] = Heard /\ \A n \in 1 .. Len(t) : f[n] = Hear(f[n - 1], t[n])
  BY <1>1, HearEach
<1>3. HeardIn(t) = f[Len(t)]
  BY <1>1, <1>2, HearRun
<1>4. PICK h : h = [n \in 0 .. N |-> f[n]]
  OBVIOUS
<1>5. h \in [0 .. N -> Hears]
  BY <1>1, <1>4
<1>6. h[0] = Heard /\ \A n \in 1 .. N : h[n] = Hear(h[n - 1], w[n])
  <2>1. h[0] = Heard
    BY <1>1, <1>2, <1>4
  <2>2. ASSUME NEW n \in 1 .. N PROVE h[n] = Hear(h[n - 1], w[n])
    <3>1. n \in 1 .. Len(t) /\ n \in 0 .. N /\ n - 1 \in 0 .. N
      BY <1>1
    <3>2. f[n] = Hear(f[n - 1], t[n]) /\ t[n] = w[n]
      BY <1>1, <1>2, <3>1
    <3>3. h[n] = f[n] /\ h[n - 1] = f[n - 1]
      BY <1>4, <3>1
    <3> QED
      BY <3>2, <3>3
  <2> QED
    BY <2>1, <2>2
<1>7. HeardIn(w) = h[N]
  BY <1>5, <1>6, HearRun
<1>8. PICK k \in 1 .. Len(t) : k = N + 1
  BY <1>1
<1>9. f[k] = Hear(f[k - 1], t[k]) /\ k - 1 = N
  BY <1>1, <1>2, <1>8
<1>10. h[N] = f[N] /\ f[N] \in Hears
  BY <1>1, <1>4
<1> QED
  BY <1>1, <1>3, <1>7, <1>8, <1>9, <1>10 DEF t

(* Two bytes more, and three *)
LEMMA HearPair ==
  ASSUME NEW w \in Seq(Byte), NEW b \in Byte, NEW c \in Byte
  PROVE  HeardIn(w \o <<b, c>>) = Hear(Hear(HeardIn(w), b), c)
<1> DEFINE v == Append(w, b)
<1>1. v \in Seq(Byte) /\ w \o <<b, c>> = Append(v, c)
  OBVIOUS
<1>2. HeardIn(v) = Hear(HeardIn(w), b)
  BY HearNext
<1> HIDE DEF v
<1> QED
  BY <1>1, <1>2, HearNext

LEMMA HearTriple ==
  ASSUME NEW w \in Seq(Byte), NEW b \in Byte, NEW c \in Byte, NEW d \in Byte
  PROVE  HeardIn(w \o <<b, c, d>>) = Hear(Hear(Hear(HeardIn(w), b), c), d)
<1> DEFINE v == Append(w, b)
<1>1. v \in Seq(Byte) /\ w \o <<b, c, d>> = v \o <<c, d>>
  OBVIOUS
<1>2. HeardIn(v) = Hear(HeardIn(w), b)
  BY HearNext
<1> HIDE DEF v
<1>3. HeardIn(v \o <<c, d>>) = Hear(Hear(HeardIn(v), c), d)
  BY <1>1, HearPair
<1> QED
  BY <1>1, <1>2, <1>3, Zenon

(* The effect of a whole command *)
Gains(r, data, commands) ==
  [at |-> "data", data |-> r.data \o data, commands |-> r.commands \o commands]

HearUnit == {"data", "iac"} \X Byte

(* The bytes of a data command add its unit.                               *)
LEMMA DataHeard ==
  ASSUME NEW w \in Seq(Byte), HeardIn(w).at = "data", NEW c \in Wire, IsData(c)
  PROVE  /\ c.bytes \in Seq(Byte) /\ c.units \in Seq(HearUnit)
         /\ HeardIn(w \o c.bytes) = Gains(HeardIn(w), c.units, <<>>)
<1>1. PICK r \in Hears : r = HeardIn(w)
  BY HearNext DEF Byte
<1>2. /\ r = [at |-> r.at, data |-> r.data, commands |-> r.commands] /\ r.at = "data"
      /\ r.data \in Seq(HearUnit) /\ r.commands \in Seq(Byte)
  BY <1>1 DEF Hears, HearUnit
<1>3. CASE IsDatum(c)
  <2>1. PICK b \in DataBytes : c.bytes = <<b>> /\ c.units = <<Data(b)>>
    BY <1>3 DEF IsDatum
  <2>2. b \in Byte /\ b # cIAC
    BY TelnetAssumption
  <2>3. Data(b) \in HearUnit
    BY <2>2 DEF Data, HearUnit
  <2>4. HeardIn(w \o <<b>>) = Hear(r, b)
    <3>1. w \o <<b>> = Append(w, b)
      BY <2>2
    <3> QED
      BY <1>1, <2>2, <3>1, HearNext
  <2>5. Hear(r, b) = [at |-> "data", data |-> Append(r.data, Data(b)), commands |-> r.commands]
    BY <1>2, <2>2 DEF Hear
  <2>6. Append(r.data, Data(b)) = r.data \o <<Data(b)>> /\ r.commands \o <<>> = r.commands
    BY <1>2, <2>3
  <2> QED
    BY <1>1, <2>1, <2>2, <2>3, <2>4, <2>5, <2>6 DEF Gains
<1>4. CASE IsFraming(c)
  <2>1. PICK b \in {cIAC, cEOR} : c.bytes = <<cIAC, b>> /\ c.units = <<Framing(b)>>
    BY <1>4, Zenon DEF IsFraming
  <2>2. b \in Byte /\ cIAC \in Byte
    BY DEF cIAC, cEOR, Byte
  <2>3. Framing(b) \in HearUnit
    BY <2>2 DEF Framing, HearUnit
  <2>4. HeardIn(w \o <<cIAC, b>>) = Hear(Hear(r, cIAC), b)
    BY <1>1, <2>2, HearPair
  <2>5. Hear(r, cIAC) = [at |-> "iac", data |-> r.data, commands |-> r.commands]
    BY <1>2 DEF Hear
  <2>6. Hear([at |-> "iac", data |-> r.data, commands |-> r.commands], b) =
          [at |-> "data", data |-> Append(r.data, Framing(b)), commands |-> r.commands]
    BY <1>2, <2>1 DEF Hear
  <2>7. Append(r.data, Framing(b)) = r.data \o <<Framing(b)>> /\ r.commands \o <<>> = r.commands
    BY <1>2, <2>3
  <2> QED
    BY <1>1, <2>1, <2>2, <2>3, <2>4, <2>5, <2>6, <2>7 DEF Gains
<1>5. IsDatum(c) \/ IsFraming(c)
  BY Kinds DEF IsData, IsIgnored, IsNegotiation, IsEnclosed, Encloses
<1> QED
  BY <1>3, <1>4, <1>5

(* What an answer can be *)
LEMMA AnswerKinds ==
  ASSUME NEW e, NEW c \in Wire
  PROVE  \/ AnswerTo(e, c) = <<>>
         \/ AnswerTo(e, c) = <<cSB, optTERMTYPE, ttIS>>
         \/ \E a \in {cWILL, cWONT, cDO, cDONT}, o \in Byte : AnswerTo(e, c) = <<a, o>>
<1>1. SUFFICES ASSUME CallsForAnswer(c), c.ask[1] # cSB
               PROVE  \E a \in {cWILL, cWONT, cDO, cDONT}, o \in Byte : AnswerTo(e, c) = <<a, o>>
  BY DEF AnswerTo
<1>2. c.ask # <<>>
  BY <1>1, NoCall
<1>3. IsNegotiation(c)
  <2>1. CASE IsEnclosed(c)
    <3>1. PICK s \in Payloads, x \in {cSE, cNOP} : Encloses(c, s, x)
      BY <2>1, Zenon DEF IsEnclosed
    <3>2. c.ask = <<cSB>> \o s.text
      BY <1>2, <3>1 DEF Encloses
    <3> QED
      BY <1>1, <3>2, PayloadCall
  <2> QED
    BY <1>2, <2>1, Kinds DEF IsDatum, IsFraming, IsIgnored
<1>4. PICK k \in {cDO, cWILL, cWONT}, o \in Options : c.ask = <<k, o>>
  BY <1>3, Zenon DEF IsNegotiation
<1>5. k \in {cDO, cWILL}
  BY <1>1, <1>4, NegotiationCall
<1>6. c.ask[1] = k /\ c.ask[2] = o /\ o \in Byte
  BY <1>4, TelnetAssumption
<1>7. ASSUME NEW r
      PROVE  \E a \in {cWILL, cWONT, cDO, cDONT} : negotiate(r, k, o)[1] = <<a, o>>
  BY <1>5 DEF negotiate, cDO, cWILL
<1> QED
  BY <1>1, <1>6, <1>7 DEF AnswerTo

(* An answer of two bytes behind its IAC                                   *)
LEMMA Led ==
  ASSUME NEW x \in Byte, NEW y \in Byte, NEW z \in Byte
  PROVE  <<x>> \o <<y, z>> = <<x, y, z>>
<1> DEFINE u == <<x>> \o <<y, z>>
           v == <<x, y, z>>
<1>1. u \in Seq(Byte) /\ v \in Seq(Byte) /\ Len(u) = 3 /\ Len(v) = 3
  OBVIOUS
<1>2. u[1] = x /\ u[2] = y /\ u[3] = z
  OBVIOUS
<1>3. v[1] = x /\ v[2] = y /\ v[3] = z
  OBVIOUS
<1> HIDE DEF u, v
<1>4. \A i \in 1 .. 3 : u[i] = v[i]
  BY <1>2, <1>3
<1> QED
  BY <1>1, <1>4, SeqEqual DEF u, v

(* The bytes of an answer add what it says.                                *)
LEMMA AnswerHeard ==
  ASSUME NEW w \in Seq(Byte), HeardIn(w).at = "data", NEW e, NEW c \in Wire
  PROVE  /\ Framed(AnswerTo(e, c)) \in Seq(Byte) /\ AnswerTo(e, c) \in Seq(Byte)
         /\ HeardIn(w \o Framed(AnswerTo(e, c))) = Gains(HeardIn(w), <<>>, AnswerTo(e, c))
<1>1. PICK r \in Hears : r = HeardIn(w)
  BY HearNext DEF Byte
<1>2. /\ r = [at |-> r.at, data |-> r.data, commands |-> r.commands] /\ r.at = "data"
      /\ r.data \in Seq(HearUnit) /\ r.commands \in Seq(Byte)
  BY <1>1 DEF Hears, HearUnit
<1>3. r.data \o <<>> = r.data /\ r.commands \o <<>> = r.commands /\ w \o <<>> = w
  BY <1>2, ConcatEmptySeq
<1>4. PICK answer : answer = AnswerTo(e, c)
  OBVIOUS
<1>5. CASE answer = <<>>
  <2>1. Framed(answer) = <<>> /\ <<>> \in Seq(Byte)
    BY <1>5 DEF Framed
  <2> QED
    BY <1>1, <1>2, <1>3, <1>4, <1>5, <2>1 DEF Gains
<1>6. ASSUME NEW a \in {cWILL, cWONT, cDO, cDONT}, NEW o \in Byte, answer = <<a, o>>
      PROVE  /\ Framed(answer) \in Seq(Byte) /\ answer \in Seq(Byte)
             /\ HeardIn(w \o Framed(answer)) = Gains(r, <<>>, answer)
  <2>1. a \in Byte /\ a # cSB /\ a # cIAC /\ a # cEOR /\ cIAC \in Byte
    BY DEF Byte, cWILL, cWONT, cDO, cDONT, cSB, cIAC, cEOR
  <2>2. Framed(answer) = <<cIAC, a, o>>
    <3>1. answer # <<>> /\ answer[1] = a
      BY <1>6
    <3>2. <<cIAC>> \o <<a, o>> = <<cIAC, a, o>>
      BY <2>1, Led
    <3> QED
      BY <1>6, <2>1, <3>1, <3>2 DEF Framed
  <2>3. HeardIn(w \o <<cIAC, a, o>>) = Hear(Hear(Hear(r, cIAC), a), o)
    BY <1>1, <2>1, HearTriple
  <2>4. Hear(r, cIAC) = [at |-> "iac", data |-> r.data, commands |-> r.commands]
    BY <1>2 DEF Hear
  <2>5. Hear([at |-> "iac", data |-> r.data, commands |-> r.commands], a) =
          [at |-> "option", data |-> r.data, commands |-> Append(r.commands, a)]
    BY <1>2, <2>1 DEF Hear
  <2>6. Hear([at |-> "option", data |-> r.data, commands |-> Append(r.commands, a)], o) =
          [at |-> "data", data |-> r.data, commands |-> Append(Append(r.commands, a), o)]
    BY <1>2, <2>1 DEF Hear
  <2>7. Append(Append(r.commands, a), o) = r.commands \o <<a, o>>
    BY <1>2, <2>1
  <2>8. <<cIAC, a, o>> \in Seq(Byte) /\ <<a, o>> \in Seq(Byte)
    BY <2>1
  <2> QED
    BY <1>3, <1>6, <2>2, <2>3, <2>4, <2>5, <2>6, <2>7, <2>8 DEF Gains
<1>7. CASE answer = <<cSB, optTERMTYPE, ttIS>>
  <2> DEFINE x == r.commands
             H(at, k) == [at |-> at, data |-> r.data, commands |-> k]
             one == Append(x, cSB)
             two == Append(one, optTERMTYPE)
             three == Append(two, ttIS)
  <2>1. /\ cSB \in Byte /\ optTERMTYPE \in Byte /\ ttIS \in Byte /\ cIAC \in Byte /\ cSE \in Byte
        /\ cSB \notin {cIAC, cEOR, cWILL, cWONT, cDO, cDONT} /\ optTERMTYPE # cIAC /\ ttIS # cIAC
    BY DEF Byte, cWILL, cWONT, cDO, cDONT, cSB, cIAC, cEOR, cSE, optTERMTYPE, ttIS
  <2>2. Framed(answer) = <<cIAC, cSB, optTERMTYPE>> \o <<ttIS, cIAC, cSE>>
    <3>1. answer # <<>> /\ answer[1] = cSB
      BY <1>7
    <3>2. <<cIAC>> \o <<cSB, optTERMTYPE, ttIS>> \o <<cIAC, cSE>> = <<cIAC, cSB, optTERMTYPE>> \o <<ttIS, cIAC, cSE>>
      BY <2>1
    <3> QED
      BY <1>7, <3>1, <3>2 DEF Framed
  <2>3. PICK v : v = w \o <<cIAC, cSB, optTERMTYPE>>
    OBVIOUS
  <2>4. v \in Seq(Byte) /\ w \o Framed(answer) = v \o <<ttIS, cIAC, cSE>>
    <3>1. /\ <<cIAC, cSB, optTERMTYPE>> \in Seq(Byte) /\ <<ttIS, cIAC, cSE>> \in Seq(Byte)
      BY <2>1
    <3> QED
      BY <2>2, <2>3, <3>1, ConcatAssociative, ConcatProperties
  <2>5. HeardIn(v) = H("sub", two)
    <3>1. HeardIn(v) = Hear(Hear(Hear(r, cIAC), cSB), optTERMTYPE)
      BY <1>1, <2>1, <2>3, HearTriple
    <3>2. Hear(r, cIAC) = H("iac", x)
      BY <1>2 DEF Hear
    <3>3. Hear(H("iac", x), cSB) = H("sub", one)
      BY <2>1 DEF Hear
    <3>4. Hear(H("sub", one), optTERMTYPE) = H("sub", two)
      BY <2>1 DEF Hear
    <3> QED
      BY <3>1, <3>2, <3>3, <3>4
  <2>6. HeardIn(v \o <<ttIS, cIAC, cSE>>) = H("data", three)
    <3>1. HeardIn(v \o <<ttIS, cIAC, cSE>>) = Hear(Hear(Hear(H("sub", two), ttIS), cIAC), cSE)
      <4> HIDE DEF two
      <4> QED
        BY <2>1, <2>4, <2>5, HearTriple
    <3>2. Hear(H("sub", two), ttIS) = H("sub", three)
      BY <2>1 DEF Hear
    <3>3. Hear(H("sub", three), cIAC) = H("subIac", three)
      BY DEF Hear
    <3>4. Hear(H("subIac", three), cSE) = H("data", three)
      BY DEF Hear
    <3> QED
      BY <3>1, <3>2, <3>3, <3>4
  <2>7. three = r.commands \o answer /\ answer \in Seq(Byte)
    BY <1>2, <1>7, <2>1
  <2>8. Framed(answer) \in Seq(Byte)
    <3>1. /\ <<cIAC, cSB, optTERMTYPE>> \in Seq(Byte) /\ <<ttIS, cIAC, cSE>> \in Seq(Byte)
      BY <2>1
    <3> QED
      BY <2>2, <3>1, ConcatProperties
  <2> HIDE DEF three
  <2> QED
    BY <1>1, <1>3, <1>4, <2>4, <2>6, <2>7, <2>8 DEF Gains
<1> QED
  BY <1>1, <1>4, <1>5, <1>6, <1>7, AnswerKinds

(* Nothing is heard of no bytes.                                           *)
LEMMA HeardNothing == HeardIn(<<>>) = Heard
<1>1. PICK f \in [0 .. 0 -> Hears] : f[0] = Heard
  <2> DEFINE h == [n \in 0 .. 0 |-> Heard]
  <2>1. h \in [0 .. 0 -> Hears] /\ h[0] = Heard
    BY HeardType
  <2> QED
    BY <2>1
<1>2. <<>> \in Seq(Byte) /\ Len(<<>>) = 0
  OBVIOUS
<1>3. \A n \in 1 .. Len(<<>>) : f[n] = Hear(f[n - 1], <<>>[n])
  BY <1>2
<1>4. PICK e : e = <<>>
  OBVIOUS
<1>5. /\ e \in Seq(Byte) /\ Len(e) = 0 /\ f \in [0 .. Len(e) -> Hears]
      /\ \A n \in 1 .. Len(e) : f[n] = Hear(f[n - 1], e[n])
  BY <1>2, <1>4
<1>6. HeardIn(e) = f[Len(e)]
  BY <1>1, <1>5, HearRun
<1> QED
  BY <1>1, <1>4, <1>5, <1>6

(* What the commands of a stream contribute, one after the other           *)
DataBytesOf(s) == [i \in DOMAIN s |-> IF IsData(s[i]) THEN s[i].bytes ELSE <<>>]
UnitsOf(s) == [i \in DOMAIN s |-> s[i].units]
FramedOf(e, s) == [i \in DOMAIN s |-> Framed(AnswerTo(e, s[i]))]
AnswersOf(e, s) == [i \in DOMAIN s |-> AnswerTo(e, s[i])]

LEMMA PartsType ==
  ASSUME NEW e, NEW s \in Seq(Wire)
  PROVE  /\ DataBytesOf(s) \in Seq(Seq(Byte)) /\ Len(DataBytesOf(s)) = Len(s)
         /\ UnitsOf(s) \in Seq(Seq(HearUnit)) /\ Len(UnitsOf(s)) = Len(s)
         /\ FramedOf(e, s) \in Seq(Seq(Byte)) /\ Len(FramedOf(e, s)) = Len(s)
         /\ AnswersOf(e, s) \in Seq(Seq(Byte)) /\ Len(AnswersOf(e, s)) = Len(s)
<1>1. HeardIn(<<>>).at = "data" /\ <<>> \in Seq(Byte)
  BY HeardNothing DEF Heard
<1>2. ASSUME NEW i \in DOMAIN s
      PROVE  /\ (IF IsData(s[i]) THEN s[i].bytes ELSE <<>>) \in Seq(Byte)
             /\ s[i].units \in Seq(HearUnit)
             /\ Framed(AnswerTo(e, s[i])) \in Seq(Byte) /\ AnswerTo(e, s[i]) \in Seq(Byte)
  <2>1. s[i] \in Wire
    OBVIOUS
  <2>2. Framed(AnswerTo(e, s[i])) \in Seq(Byte) /\ AnswerTo(e, s[i]) \in Seq(Byte)
    BY <1>1, <2>1, AnswerHeard
  <2>3. CASE IsData(s[i])
    BY <1>1, <2>1, <2>2, <2>3, DataHeard
  <2>4. CASE ~IsData(s[i])
    <3>1. s[i].units = <<>>
      BY <2>4 DEF IsData
    <3>2. <<>> \in Seq(HearUnit)
      OBVIOUS
    <3> QED
      BY <1>1, <2>2, <2>4, <3>1, <3>2
  <2> QED
    BY <2>3, <2>4
<1>3. PICK N \in Nat : N = Len(s) /\ DOMAIN s = 1 .. N
  OBVIOUS
<1>4. DataBytesOf(s) \in [1 .. N -> Seq(Byte)]
  BY <1>2, <1>3 DEF DataBytesOf
<1>5. UnitsOf(s) \in [1 .. N -> Seq(HearUnit)]
  BY <1>2, <1>3 DEF UnitsOf
<1>6. FramedOf(e, s) \in [1 .. N -> Seq(Byte)]
  BY <1>2, <1>3 DEF FramedOf
<1>7. AnswersOf(e, s) \in [1 .. N -> Seq(Byte)]
  BY <1>2, <1>3 DEF AnswersOf
<1>8. ASSUME NEW X, NEW q \in [1 .. N -> X]
      PROVE  q \in Seq(X) /\ Len(q) = N
  OBVIOUS
<1>9. DataBytesOf(s) \in Seq(Seq(Byte)) /\ Len(DataBytesOf(s)) = N
  BY <1>4, <1>8
<1>10. UnitsOf(s) \in Seq(Seq(HearUnit)) /\ Len(UnitsOf(s)) = N
  BY <1>5, <1>8
<1>11. FramedOf(e, s) \in Seq(Seq(Byte)) /\ Len(FramedOf(e, s)) = N
  BY <1>6, <1>8
<1>12. AnswersOf(e, s) \in Seq(Seq(Byte)) /\ Len(AnswersOf(e, s)) = N
  BY <1>7, <1>8
<1> QED
  BY <1>3, <1>9, <1>10, <1>11, <1>12

(* A sequence that is a piece of another                                   *)
Shifted(p, q, m, l) == Len(p) = l - m /\ \A i \in 1 .. l - m : p[i] = q[m + i]

LEMMA Piece ==
  ASSUME NEW X, NEW p \in Seq(X), NEW q \in Seq(X), NEW m \in Nat, NEW l \in Nat,
         m <= l, l <= Len(q), Shifted(p, q, m, l)
  PROVE  p = SubSeq(q, m + 1, l)
<1>1. PICK u : u = SubSeq(q, m + 1, l)
  OBVIOUS
<1>2. u \in Seq(X) /\ Len(u) = l - m /\ \A i \in 1 .. l - m : u[i] = q[m + i]
  BY <1>1
<1>3. p = u
  BY <1>2, SeqEqual DEF Shifted
<1> QED
  BY <1>1, <1>3

(* The parts of a piece are a piece of the parts.                          *)
LEMMA PartsOfPiece ==
  ASSUME NEW e, NEW s \in Seq(Wire), NEW m \in Nat, NEW l \in Nat, m <= l, l <= Len(s)
  PROVE  /\ DataBytesOf(SubSeq(s, m + 1, l)) = SubSeq(DataBytesOf(s), m + 1, l)
         /\ UnitsOf(SubSeq(s, m + 1, l)) = SubSeq(UnitsOf(s), m + 1, l)
         /\ FramedOf(e, SubSeq(s, m + 1, l)) = SubSeq(FramedOf(e, s), m + 1, l)
         /\ AnswersOf(e, SubSeq(s, m + 1, l)) = SubSeq(AnswersOf(e, s), m + 1, l)
<1>1. PICK t : t = SubSeq(s, m + 1, l)
  OBVIOUS
<1>2. /\ t \in Seq(Wire) /\ Len(t) = l - m /\ DOMAIN t = 1 .. l - m
      /\ \A i \in 1 .. l - m : t[i] = s[m + i] /\ m + i \in DOMAIN s
  BY <1>1
<1>4. DataBytesOf(t) = SubSeq(DataBytesOf(s), m + 1, l)
  <2>1. /\ DataBytesOf(t) \in Seq(Seq(Byte)) /\ Len(DataBytesOf(t)) = l - m
        /\ DataBytesOf(s) \in Seq(Seq(Byte)) /\ Len(DataBytesOf(s)) = Len(s)
    BY <1>2, PartsType
  <2>2. Shifted(DataBytesOf(t), DataBytesOf(s), m, l)
    BY <1>2, <2>1 DEF DataBytesOf, Shifted
  <2> QED
    BY <2>1, <2>2, Piece
<1>5. UnitsOf(t) = SubSeq(UnitsOf(s), m + 1, l)
  <2>1. /\ UnitsOf(t) \in Seq(Seq(HearUnit)) /\ Len(UnitsOf(t)) = l - m
        /\ UnitsOf(s) \in Seq(Seq(HearUnit)) /\ Len(UnitsOf(s)) = Len(s)
    BY <1>2, PartsType
  <2>2. Shifted(UnitsOf(t), UnitsOf(s), m, l)
    BY <1>2, <2>1 DEF UnitsOf, Shifted
  <2> QED
    BY <2>1, <2>2, Piece
<1>6. FramedOf(e, t) = SubSeq(FramedOf(e, s), m + 1, l)
  <2>1. /\ FramedOf(e, t) \in Seq(Seq(Byte)) /\ Len(FramedOf(e, t)) = l - m
        /\ FramedOf(e, s) \in Seq(Seq(Byte)) /\ Len(FramedOf(e, s)) = Len(s)
    BY <1>2, PartsType
  <2>2. Shifted(FramedOf(e, t), FramedOf(e, s), m, l)
    BY <1>2, <2>1 DEF FramedOf, Shifted
  <2> QED
    BY <2>1, <2>2, Piece
<1>7. AnswersOf(e, t) = SubSeq(AnswersOf(e, s), m + 1, l)
  <2>1. /\ AnswersOf(e, t) \in Seq(Seq(Byte)) /\ Len(AnswersOf(e, t)) = l - m
        /\ AnswersOf(e, s) \in Seq(Seq(Byte)) /\ Len(AnswersOf(e, s)) = Len(s)
    BY <1>2, PartsType
  <2>2. Shifted(AnswersOf(e, t), AnswersOf(e, s), m, l)
    BY <1>2, <2>1 DEF AnswersOf, Shifted
  <2> QED
    BY <2>1, <2>2, Piece
<1> QED
  BY <1>1, <1>4, <1>5, <1>6, <1>7

LEMMA AnswersOfPiece ==
  ASSUME NEW e, NEW s \in Seq(Wire), NEW m \in Nat, NEW l \in Nat, m <= l, l <= Len(s)
  PROVE  AnswersOf(e, SubSeq(s, m + 1, l)) = SubSeq(AnswersOf(e, s), m + 1, l)
BY PartsOfPiece

(* Gaining twice                                                           *)
LEMMA GainsTwice ==
  ASSUME NEW r \in Hears, NEW d \in Seq(HearUnit), NEW x \in Seq(Byte),
         NEW d2 \in Seq(HearUnit), NEW x2 \in Seq(Byte)
  PROVE  Gains(Gains(r, d, x), d2, x2) = Gains(r, d \o d2, x \o x2)
<1>1. r.data \in Seq(HearUnit) /\ r.commands \in Seq(Byte)
  BY DEF Hears, HearUnit
<1>2. (r.data \o d) \o d2 = r.data \o (d \o d2)
  <2>1. PICK y \in Seq(HearUnit) : y = r.data
    BY <1>1
  <2>2. (y \o d) \o d2 = y \o (d \o d2)
    BY ConcatAssociative
  <2> QED
    BY <2>1, <2>2
<1>3. (r.commands \o x) \o x2 = r.commands \o (x \o x2)
  <2>1. PICK y \in Seq(Byte) : y = r.commands
    BY <1>1
  <2>2. (y \o x) \o x2 = y \o (x \o x2)
    BY ConcatAssociative
  <2> QED
    BY <2>1, <2>2
<1> QED
  BY <1>2, <1>3 DEF Gains

LEMMA GainsData ==
  ASSUME NEW r \in Hears, NEW d \in Seq(HearUnit), NEW d2 \in Seq(HearUnit)
  PROVE  Gains(Gains(r, d, <<>>), d2, <<>>) = Gains(r, d \o d2, <<>>)
<1>1. PICK e \in Seq(Byte) : e = <<>> /\ e \o e = e
  <2>1. <<>> \in Seq(Byte) /\ <<>> \o <<>> = <<>>
    OBVIOUS
  <2> QED
    BY <2>1
<1>2. Gains(Gains(r, d, e), d2, e) = Gains(r, d \o d2, e \o e)
  BY GainsTwice
<1> QED
  BY <1>1, <1>2, Zenon

LEMMA GainsCommands ==
  ASSUME NEW r \in Hears, NEW x \in Seq(Byte), NEW x2 \in Seq(Byte)
  PROVE  Gains(Gains(r, <<>>, x), <<>>, x2) = Gains(r, <<>>, x \o x2)
<1>1. PICK e \in Seq(HearUnit) : e = <<>> /\ e \o e = e
  <2>1. <<>> \in Seq(HearUnit) /\ <<>> \o <<>> = <<>>
    OBVIOUS
  <2> QED
    BY <2>1
<1>2. Gains(Gains(r, e, x), e, x2) = Gains(r, e \o e, x \o x2)
  BY GainsTwice
<1> QED
  BY <1>1, <1>2, Zenon

LEMMA GainsNothing ==
  ASSUME NEW r \in Hears, r.at = "data"
  PROVE  Gains(r, <<>>, <<>>) = r
<1>1. r.data \in Seq(HearUnit) /\ r.commands \in Seq(Byte)
  BY DEF Hears, HearUnit
<1>2. r.data \o <<>> = r.data /\ r.commands \o <<>> = r.commands
  BY <1>1, ConcatEmptySeq
<1>3. r = [at |-> r.at, data |-> r.data, commands |-> r.commands]
  BY DEF Hears
<1> QED
  BY <1>2, <1>3 DEF Gains

(* The data of several commands, heard                                     *)
LEMMA PayloadHeard ==
  ASSUME NEW w \in Seq(Byte), HeardIn(w).at = "data", NEW s \in Seq(Wire),
         NEW m \in Nat, NEW l \in Nat, m <= l, l <= Len(s)
  PROVE  HeardIn(w \o Joined(DataBytesOf(s), m, l)) = Gains(HeardIn(w), Joined(UnitsOf(s), m, l), <<>>)
<1>1. PICK p \in Seq(Seq(Byte)) : p = DataBytesOf(s) /\ Len(p) = Len(s)
  BY PartsType
<1>2. PICK u \in Seq(Seq(HearUnit)) : u = UnitsOf(s) /\ Len(u) = Len(s)
  BY PartsType
<1>3. PICK r \in Hears : r = HeardIn(w) /\ r.at = "data"
  BY HearNext DEF Byte
<1> DEFINE S == {k \in 0 .. l - m : HeardIn(w \o Joined(p, m, m + k)) = Gains(r, Joined(u, m, m + k), <<>>)}
<1>4. 0 \in S
  <2>1. Joined(p, m, m) = <<>> /\ Joined(u, m, m) = <<>>
    BY JoinedNone
  <2>2. w \o <<>> = w
    BY ConcatEmptySeq
  <2>3. Gains(r, <<>>, <<>>) = r
    BY <1>3, GainsNothing
  <2>4. m + 0 = m /\ 0 \in 0 .. l - m
    OBVIOUS
  <2> QED
    BY <1>3, <2>1, <2>2, <2>3, <2>4
<1>5. ASSUME NEW k \in 1 .. l - m, k - 1 \in S PROVE k \in S
  <2>1. PICK n \in Nat : n = m + k
    OBVIOUS
  <2>2. n \in 1 .. Len(s) /\ m < n /\ n - 1 = m + (k - 1) /\ n - 1 \in Nat /\ n - 1 <= Len(s)
    BY <2>1
  <2>3. Joined(p, m, n) = Joined(p, m, n - 1) \o p[n] /\ Joined(p, m, n - 1) \in Seq(Byte)
    BY <1>1, <2>2, JoinedNext, JoinedType
  <2>4. Joined(u, m, n) = Joined(u, m, n - 1) \o u[n] /\ Joined(u, m, n - 1) \in Seq(HearUnit)
    BY <1>2, <2>2, JoinedNext, JoinedType
  <2>5. p[n] \in Seq(Byte) /\ u[n] \in Seq(HearUnit) /\ s[n] \in Wire
    BY <1>1, <1>2, <2>2
  <2>6. PICK v \in Seq(Byte) : v = w \o Joined(p, m, n - 1)
    BY <2>3, ConcatProperties, Zenon
  <2>7. HeardIn(v) = Gains(r, Joined(u, m, n - 1), <<>>) /\ HeardIn(v) \in Hears
    <3>1. HeardIn(v) \in Hears
      BY HearNext DEF Byte
    <3> QED
      BY <1>5, <2>2, <2>6, <3>1
  <2>8. HeardIn(v).at = "data"
    BY <2>7 DEF Gains
  <2>9. w \o Joined(p, m, n) = v \o p[n]
    <3>1. p \in Seq(Seq(Byte)) /\ n \in 1 .. Len(p) /\ m < n
      BY <1>1, <2>2
    <3>2. w \o Joined(p, m, n) = (w \o Joined(p, m, n - 1)) \o p[n]
      BY <3>1, JoinedOnto, Zenon
    <3> QED
      BY <2>6, <3>2
  <2>10. HeardIn(v \o p[n]) = Gains(HeardIn(v), u[n], <<>>)
    <3>1. p[n] = (IF IsData(s[n]) THEN s[n].bytes ELSE <<>>) /\ u[n] = s[n].units
      BY <1>1, <1>2, <2>2 DEF DataBytesOf, UnitsOf
    <3>2. CASE IsData(s[n])
      BY <2>5, <2>8, <3>1, <3>2, DataHeard
    <3>3. CASE ~IsData(s[n])
      <4>1. p[n] = <<>> /\ u[n] = <<>>
        BY <3>1, <3>3 DEF IsData
      <4>2. v \o <<>> = v /\ Gains(HeardIn(v), <<>>, <<>>) = HeardIn(v)
        BY <2>7, <2>8, ConcatEmptySeq, GainsNothing
      <4> QED
        BY <4>1, <4>2
    <3> QED
      BY <3>2, <3>3
  <2>11. Gains(HeardIn(v), u[n], <<>>) = Gains(r, Joined(u, m, n), <<>>)
    <3>1. Gains(Gains(r, Joined(u, m, n - 1), <<>>), u[n], <<>>) = Gains(r, Joined(u, m, n - 1) \o u[n], <<>>)
      BY <2>4, <2>5, GainsData
    <3> QED
      BY <2>4, <2>7, <3>1
  <2>12. HeardIn(w \o Joined(p, m, n)) = Gains(HeardIn(v), u[n], <<>>)
    BY <2>9, <2>10, Zenon
  <2> QED
    BY <2>1, <2>11, <2>12
<1>6. l - m \in S
  <2>1. l - m \in Nat
    OBVIOUS
  <2> HIDE DEF S
  <2>2. 0 .. l - m \subseteq S
    BY <1>4, <1>5, <2>1, Upward
  <2> QED
    BY <2>1, <2>2
<1>7. m + (l - m) = l
  OBVIOUS
<1> QED
  BY <1>1, <1>2, <1>3, <1>6, <1>7

(* Several answers, heard                                                  *)
LEMMA AnswersHeard ==
  ASSUME NEW e, NEW w \in Seq(Byte), HeardIn(w).at = "data", NEW s \in Seq(Wire),
         NEW m \in Nat, NEW l \in Nat, m <= l, l <= Len(s)
  PROVE  HeardIn(w \o Joined(FramedOf(e, s), m, l)) = Gains(HeardIn(w), <<>>, Joined(AnswersOf(e, s), m, l))
<1>1. PICK p \in Seq(Seq(Byte)) : p = FramedOf(e, s) /\ Len(p) = Len(s)
  BY PartsType
<1>2. PICK u \in Seq(Seq(Byte)) : u = AnswersOf(e, s) /\ Len(u) = Len(s)
  BY PartsType
<1>3. PICK r \in Hears : r = HeardIn(w) /\ r.at = "data"
  BY HearNext DEF Byte
<1> DEFINE S == {k \in 0 .. l - m : HeardIn(w \o Joined(p, m, m + k)) = Gains(r, <<>>, Joined(u, m, m + k))}
<1>4. 0 \in S
  <2>1. Joined(p, m, m) = <<>> /\ Joined(u, m, m) = <<>>
    BY JoinedNone
  <2>2. w \o <<>> = w
    BY ConcatEmptySeq
  <2>3. Gains(r, <<>>, <<>>) = r
    BY <1>3, GainsNothing
  <2>4. m + 0 = m /\ 0 \in 0 .. l - m
    OBVIOUS
  <2> QED
    BY <1>3, <2>1, <2>2, <2>3, <2>4
<1>5. ASSUME NEW k \in 1 .. l - m, k - 1 \in S PROVE k \in S
  <2>1. PICK n \in Nat : n = m + k
    OBVIOUS
  <2>2. n \in 1 .. Len(s) /\ m < n /\ n - 1 = m + (k - 1) /\ n - 1 \in Nat /\ n - 1 <= Len(s)
    BY <2>1
  <2>3. Joined(p, m, n) = Joined(p, m, n - 1) \o p[n] /\ Joined(p, m, n - 1) \in Seq(Byte)
    BY <1>1, <2>2, JoinedNext, JoinedType
  <2>4. Joined(u, m, n) = Joined(u, m, n - 1) \o u[n] /\ Joined(u, m, n - 1) \in Seq(Byte)
    BY <1>2, <2>2, JoinedNext, JoinedType
  <2>5. p[n] \in Seq(Byte) /\ u[n] \in Seq(Byte) /\ s[n] \in Wire
    BY <1>1, <1>2, <2>2
  <2>6. PICK v \in Seq(Byte) : v = w \o Joined(p, m, n - 1)
    BY <2>3, ConcatProperties, Zenon
  <2>7. HeardIn(v) = Gains(r, <<>>, Joined(u, m, n - 1)) /\ HeardIn(v) \in Hears
    <3>1. HeardIn(v) \in Hears
      BY HearNext DEF Byte
    <3> QED
      BY <1>5, <2>2, <2>6, <3>1
  <2>8. HeardIn(v).at = "data"
    BY <2>7 DEF Gains
  <2>9. w \o Joined(p, m, n) = v \o p[n]
    <3>1. p \in Seq(Seq(Byte)) /\ n \in 1 .. Len(p) /\ m < n
      BY <1>1, <2>2
    <3>2. w \o Joined(p, m, n) = (w \o Joined(p, m, n - 1)) \o p[n]
      BY <3>1, JoinedOnto, Zenon
    <3> QED
      BY <2>6, <3>2
  <2>10. HeardIn(v \o p[n]) = Gains(HeardIn(v), <<>>, u[n])
    <3>1. p[n] = Framed(AnswerTo(e, s[n])) /\ u[n] = AnswerTo(e, s[n])
      BY <1>1, <1>2, <2>2 DEF FramedOf, AnswersOf
    <3> QED
      BY <2>5, <2>8, <3>1, AnswerHeard
  <2>11. Gains(HeardIn(v), <<>>, u[n]) = Gains(r, <<>>, Joined(u, m, n))
    <3>1. Gains(Gains(r, <<>>, Joined(u, m, n - 1)), <<>>, u[n]) = Gains(r, <<>>, Joined(u, m, n - 1) \o u[n])
      BY <2>4, <2>5, GainsCommands
    <3> QED
      BY <2>4, <2>7, <3>1
  <2>12. HeardIn(w \o Joined(p, m, n)) = Gains(HeardIn(v), <<>>, u[n])
    BY <2>9, <2>10, Zenon
  <2> QED
    BY <2>1, <2>11, <2>12
<1>6. l - m \in S
  <2>1. l - m \in Nat
    OBVIOUS
  <2> HIDE DEF S
  <2>2. 0 .. l - m \subseteq S
    BY <1>4, <1>5, <2>1, Upward
  <2> QED
    BY <2>1, <2>2
<1>7. m + (l - m) = l
  OBVIOUS
<1> QED
  BY <1>1, <1>2, <1>3, <1>6, <1>7

(* Where the commands before an escape end                                 *)
Stops(e, s, m, n, l) ==
  /\ \A i \in m + 1 .. l : ~IsEscape(e, s, i)
  /\ l < n => IsEscape(e, s, l + 1)

LEMMA StopsOnce ==
  ASSUME NEW e, NEW s, NEW m \in Nat, NEW n \in Nat, NEW l \in m .. n, NEW k \in m .. n,
         Stops(e, s, m, n, l), Stops(e, s, m, n, k)
  PROVE  l = k
<1>1. ASSUME NEW i \in m .. n, NEW j \in m .. n, Stops(e, s, m, n, i), Stops(e, s, m, n, j)
      PROVE  ~ i < j
  <2>1. SUFFICES ASSUME i < j PROVE FALSE
    OBVIOUS
  <2>2. i + 1 \in m + 1 .. j /\ i < n
    BY <2>1
  <2> QED
    BY <1>1, <2>2 DEF Stops
<1>2. ~ l < k /\ ~ k < l
  BY <1>1
<1> QED
  BY <1>2

LEMMA StopsSomewhere ==
  ASSUME NEW e, NEW s, NEW m \in Nat, NEW n \in Nat, m <= n
  PROVE  UpToEscape(e, s, m, n) \in m .. n /\ Stops(e, s, m, n, UpToEscape(e, s, m, n))
<1> DEFINE S == {k \in 0 .. n - m : \E l \in m .. m + k : Stops(e, s, m, m + k, l)}
<1>1. 0 \in S
  <2>1. m \in m .. m + 0 /\ 0 \in 0 .. n - m
    OBVIOUS
  <2>2. Stops(e, s, m, m + 0, m)
    BY DEF Stops
  <2> QED
    BY <2>1, <2>2
<1>2. ASSUME NEW k \in 1 .. n - m, k - 1 \in S PROVE k \in S
  <2>1. PICK p \in Nat, q \in Nat : p = m + k /\ q = m + (k - 1)
    OBVIOUS
  <2>2. PICK l \in m .. q : Stops(e, s, m, q, l)
    BY <1>2, <2>1
  <2>3. p = q + 1
    BY <2>1
  <2>4. \E j \in m .. p : Stops(e, s, m, p, j)
    <3>1. CASE l < q \/ IsEscape(e, s, p)
      <4>1. IsEscape(e, s, l + 1)
        <5>1. CASE l < q
          BY <2>2, <5>1 DEF Stops
        <5>2. CASE ~ l < q
          <6>1. l + 1 = p
            BY <2>3, <5>2
          <6> QED
            BY <3>1, <5>2, <6>1
        <5> QED
          BY <5>1, <5>2
      <4>2. Stops(e, s, m, p, l)
        BY <2>2, <4>1 DEF Stops
      <4>3. l \in m .. p
        BY <2>3
      <4> QED
        BY <4>2, <4>3
    <3>2. CASE ~ l < q /\ ~IsEscape(e, s, p)
      <4>1. l = q
        BY <3>2
      <4>2. \A i \in m + 1 .. p : i \in m + 1 .. l \/ i = p
        BY <2>3, <4>1
      <4>3. Stops(e, s, m, p, p)
        <5>1. ~ p < p
          OBVIOUS
        <5> QED
          BY <2>2, <3>2, <4>2, <5>1 DEF Stops
      <4>4. p \in m .. p
        BY <2>3
      <4> QED
        BY <4>3, <4>4
    <3> QED
      BY <3>1, <3>2
  <2> QED
    BY <2>1, <2>4
<1>3. n - m \in S
  <2>1. n - m \in Nat
    OBVIOUS
  <2> HIDE DEF S
  <2>2. 0 .. n - m \subseteq S
    BY <1>1, <1>2, <2>1, Upward
  <2> QED
    BY <2>1, <2>2
<1>4. m + (n - m) = n
  OBVIOUS
<1>5. PICK l \in m .. n : Stops(e, s, m, n, l)
  BY <1>3, <1>4
<1>6. UpToEscape(e, s, m, n) = CHOOSE k \in m .. n : Stops(e, s, m, n, k)
  BY DEF UpToEscape, Stops
<1> QED
  BY <1>5, <1>6

(* What process makes of the commands it has yet to see is what it would   *)
(* make of them from the start.                                            *)
LEMMA StopsLater ==
  ASSUME NEW e, NEW s, NEW m \in Nat, NEW n \in Nat, m <= n, UpToEscape(e, s, 0, m) = m
  PROVE  UpToEscape(e, s, 0, n) = UpToEscape(e, s, m, n)
<1>1. PICK l : l = UpToEscape(e, s, m, n)
  OBVIOUS
<1>2. l \in m .. n /\ Stops(e, s, m, n, l)
  BY <1>1, StopsSomewhere
<1>3. Stops(e, s, 0, m, m)
  <2>1. 0 \in Nat /\ 0 <= m
    OBVIOUS
  <2> QED
    BY <2>1, StopsSomewhere
<1>4. \A i \in 0 + 1 .. l : i \in 0 + 1 .. m \/ i \in m + 1 .. l
  BY <1>2
<1>5. Stops(e, s, 0, n, l)
  BY <1>2, <1>3, <1>4 DEF Stops
<1>6. /\ 0 \in Nat /\ 0 <= n /\ l \in 0 .. n
  BY <1>2
<1>7. UpToEscape(e, s, 0, n) \in 0 .. n /\ Stops(e, s, 0, n, UpToEscape(e, s, 0, n))
  BY <1>6, StopsSomewhere
<1>8. UpToEscape(e, s, 0, n) = l
  BY <1>5, <1>6, <1>7, StopsOnce
<1> QED
  BY <1>1, <1>8

-----------------------------------------------------------------------------
(* What is still to come, and what has been heard                          *)

Reach(e) == UpToEscape(e, stream[e], 0, taken[e])

RelayType ==
  /\ stream \in [Peers -> Seq(Wire)]
  /\ taken \in [Peers -> Nat]
  /\ \A e \in Peers : taken[e] <= Len(stream[e])
  /\ leg \in [Peers -> [pc : {"read", "answer", "forward", "over"}, answers : Seq(Byte),
                        payload : Seq(Byte), escaped : BOOLEAN]]
  /\ wire \in [Peers -> Seq(Byte)]

(* A relay reads on only while it has met no escape.                       *)
EscapeNoted(e) ==
  /\ leg[e].pc = "read" => Reach(e) = taken[e]
  /\ leg[e].pc \in {"answer", "forward"} => (leg[e].escaped = (Reach(e) < taken[e]))

Whole(e) == HeardIn(wire[e]).at = "data"

(* The data the other end has heard, and what is in the relay's hands      *)
DataBalance(e) ==
  \E m \in 0 .. Reach(e) :
    /\ HeardIn(wire[Other(e)]).data = Joined(UnitsOf(stream[e]), 0, m)
    /\ leg[e].pc = "read" => m = Reach(e)
    /\ leg[e].pc \in {"answer", "forward"} =>
         leg[e].payload = Joined(DataBytesOf(stream[e]), m, Reach(e))

(* The answers this end has heard, and those in the relay's hands          *)
AnswerBalance(e) ==
  \E k \in 0 .. Reach(e) :
    /\ HeardIn(wire[e]).commands = Joined(AnswersOf(e, stream[e]), 0, k)
    /\ leg[e].pc \in {"read", "forward"} => k = Reach(e)
    /\ leg[e].pc = "answer" => leg[e].answers = Joined(FramedOf(e, stream[e]), k, Reach(e))

RelayInv ==
  /\ RelayType
  /\ \A e \in Peers : EscapeNoted(e)
  /\ \A e \in Peers : e \notin cut => Whole(e)
  /\ \A e \in Peers : Other(e) \notin cut => DataBalance(e)
  /\ \A e \in Peers : e \notin cut => AnswerBalance(e)

LEMMA ReachType ==
  ASSUME RelayType, NEW e \in Peers
  PROVE  Reach(e) \in 0 .. taken[e] /\ Reach(e) \in Nat /\ Reach(e) <= Len(stream[e])
<1>1. taken[e] \in Nat /\ 0 \in Nat /\ 0 <= taken[e] /\ taken[e] <= Len(stream[e])
  BY DEF RelayType
<1>2. Len(stream[e]) \in Nat
  BY DEF RelayType
<1>3. Reach(e) \in 0 .. taken[e]
  BY <1>1, StopsSomewhere DEF Reach
<1> QED
  BY <1>1, <1>2, <1>3

LEMMA Peer ==
  ASSUME NEW e \in Peers
  PROVE  Other(e) \in Peers /\ Other(e) # e /\ Other(Other(e)) = e
BY DEF Peers, Other

LEMMA RelayInitInv ==
  ASSUME RelayInit
  PROVE  RelayInv
<1>1. RelayType
  <2>1. ASSUME NEW e \in Peers PROVE stream[e] \in Seq(Wire)
    <3>1. PICK n \in 0 .. MaxTraffic : stream[e] \in [1 .. n -> Traffic]
      BY DEF RelayInit
    <3> QED
      BY <3>1, RelayAssumption
  <2>2. stream = [e \in Peers |-> stream[e]]
    BY DEF RelayInit
  <2>3. stream \in [Peers -> Seq(Wire)]
    BY <2>1, <2>2
  <2>4. \A e \in Peers : taken[e] = 0 /\ Len(stream[e]) \in Nat
    BY <2>3 DEF RelayInit
  <2>5. <<>> \in Seq(Byte)
    OBVIOUS
  <2>6. leg \in [Peers -> [pc : {"read", "answer", "forward", "over"}, answers : Seq(Byte),
                           payload : Seq(Byte), escaped : BOOLEAN]]
    BY <2>5 DEF RelayInit, Reading
  <2> QED
    BY <2>3, <2>4, <2>5, <2>6 DEF RelayInit, RelayType
<1>2. ASSUME NEW e \in Peers
      PROVE  EscapeNoted(e) /\ Whole(e) /\ DataBalance(e) /\ AnswerBalance(e)
  <2>1. taken[e] = 0 /\ leg[e].pc = "read" /\ wire[e] = <<>> /\ wire[Other(e)] = <<>>
    BY Peer DEF RelayInit, Reading
  <2>2. Reach(e) = 0
    BY <1>1, <2>1, ReachType
  <2>3. /\ HeardIn(wire[e]) = Heard /\ HeardIn(wire[Other(e)]) = Heard
    BY <2>1, HeardNothing
  <2>4. Joined(UnitsOf(stream[e]), 0, 0) = <<>> /\ Joined(AnswersOf(e, stream[e]), 0, 0) = <<>>
    BY JoinedNone
  <2>5. 0 \in 0 .. Reach(e) /\ leg[e].pc \notin {"answer", "forward"}
    BY <2>1, <2>2
  <2>6. EscapeNoted(e)
    BY <2>1, <2>2, <2>5 DEF EscapeNoted
  <2>7. Whole(e)
    BY <2>3 DEF Whole, Heard
  <2>8. DataBalance(e)
    BY <2>1, <2>2, <2>3, <2>4, <2>5 DEF DataBalance, Heard
  <2>9. AnswerBalance(e)
    BY <2>1, <2>2, <2>3, <2>4, <2>5 DEF AnswerBalance, Heard
  <2> QED
    BY <2>6, <2>7, <2>8, <2>9
<1> QED
  BY <1>1, <1>2 DEF RelayInv

(* What process returns, in these terms                                    *)
LEMMA ProcessYields ==
  ASSUME NEW e, stream[e] \in Seq(Wire), NEW m \in Nat, NEW n \in Nat, m <= n, n <= Len(stream[e])
  PROVE  LET upto == UpToEscape(e, stream[e], m, n)
         IN /\ upto \in m .. n
            /\ process(e, m, n) =
                 [answers |-> Joined(FramedOf(e, stream[e]), m, upto),
                  payload |-> Joined(DataBytesOf(stream[e]), m, upto),
                  escaped |-> upto < n]
            /\ Joined(FramedOf(e, stream[e]), m, upto) \in Seq(Byte)
            /\ Joined(DataBytesOf(stream[e]), m, upto) \in Seq(Byte)
<1> DEFINE upto == UpToEscape(e, stream[e], m, n)
           heard == SubSeq(stream[e], m + 1, upto)
<1>1. upto \in m .. n
  BY StopsSomewhere
<1>2. upto \in Nat /\ m <= upto /\ upto <= Len(stream[e])
  BY <1>1
<1> HIDE DEF upto
<1>3. /\ DataBytesOf(heard) = SubSeq(DataBytesOf(stream[e]), m + 1, upto)
      /\ FramedOf(e, heard) = SubSeq(FramedOf(e, stream[e]), m + 1, upto)
  BY <1>2, PartsOfPiece
<1> HIDE DEF heard
<1>4. process(e, m, n) = [answers |-> FlattenSeq(FramedOf(e, heard)),
                          payload |-> FlattenSeq(DataBytesOf(heard)), escaped |-> upto < n]
  BY Zenon DEF process, FramedOf, DataBytesOf, upto, heard
<1>5. /\ Joined(FramedOf(e, stream[e]), m, upto) \in Seq(Byte)
      /\ Joined(DataBytesOf(stream[e]), m, upto) \in Seq(Byte)
  BY <1>2, PartsType, JoinedType
<1> QED
  BY <1>1, <1>3, <1>4, <1>5 DEF Joined, upto

(* An end whose relay does not move                                        *)
LEMMA ReachKept ==
  ASSUME NEW e \in Peers, stream'[e] = stream[e], taken'[e] = taken[e]
  PROVE  Reach(e)' = Reach(e)
BY DEF Reach

LEMMA EscapeKept ==
  ASSUME NEW e \in Peers, stream'[e] = stream[e], taken'[e] = taken[e], EscapeNoted(e),
         \/ leg'[e].pc = "over"
         \/ leg'[e].pc = leg[e].pc /\ leg'[e].escaped = leg[e].escaped
         \/ /\ leg[e].pc = "answer" /\ leg'[e].pc = "forward"
            /\ leg'[e].escaped = leg[e].escaped
  PROVE  EscapeNoted(e)'
BY ReachKept DEF EscapeNoted

LEMMA DataKept ==
  ASSUME NEW e \in Peers, stream'[e] = stream[e], taken'[e] = taken[e],
         HeardIn(wire'[Other(e)]).data = HeardIn(wire[Other(e)]).data, DataBalance(e),
         \/ leg'[e].pc = "over"
         \/ leg'[e].pc = leg[e].pc /\ leg'[e].payload = leg[e].payload
         \/ /\ leg[e].pc = "answer" /\ leg'[e].pc = "forward"
            /\ leg'[e].payload = leg[e].payload
  PROVE  DataBalance(e)'
<1>1. PICK m \in 0 .. Reach(e) :
        /\ HeardIn(wire[Other(e)]).data = Joined(UnitsOf(stream[e]), 0, m)
        /\ leg[e].pc = "read" => m = Reach(e)
        /\ leg[e].pc \in {"answer", "forward"} =>
             leg[e].payload = Joined(DataBytesOf(stream[e]), m, Reach(e))
  BY DEF DataBalance
<1>2. m \in 0 .. Reach(e)' /\ Reach(e)' = Reach(e)
  BY ReachKept
<1>3. HeardIn(wire'[Other(e)]).data = Joined(UnitsOf(stream'[e]), 0, m)
  BY <1>1
<1>4. leg'[e].pc = "read" => m = Reach(e)'
  BY <1>1, <1>2
<1>5. leg'[e].pc \in {"answer", "forward"} =>
        leg'[e].payload = Joined(DataBytesOf(stream'[e]), m, Reach(e)')
  BY <1>1, <1>2
<1> QED
  BY <1>2, <1>3, <1>4, <1>5 DEF DataBalance

LEMMA AnswersKept ==
  ASSUME NEW e \in Peers, stream'[e] = stream[e], taken'[e] = taken[e],
         HeardIn(wire'[e]).commands = HeardIn(wire[e]).commands, AnswerBalance(e),
         \/ leg'[e].pc = "over"
         \/ leg'[e].pc = leg[e].pc /\ leg'[e].answers = leg[e].answers
         \/ leg[e].pc = "forward" /\ leg'[e].pc = "read"
  PROVE  AnswerBalance(e)'
<1>1. PICK k \in 0 .. Reach(e) :
        /\ HeardIn(wire[e]).commands = Joined(AnswersOf(e, stream[e]), 0, k)
        /\ leg[e].pc \in {"read", "forward"} => k = Reach(e)
        /\ leg[e].pc = "answer" => leg[e].answers = Joined(FramedOf(e, stream[e]), k, Reach(e))
  BY DEF AnswerBalance
<1>2. k \in 0 .. Reach(e)' /\ Reach(e)' = Reach(e)
  BY ReachKept
<1>3. HeardIn(wire'[e]).commands = Joined(AnswersOf(e, stream'[e]), 0, k)
  BY <1>1
<1>4. leg'[e].pc \in {"read", "forward"} => k = Reach(e)'
  BY <1>1, <1>2
<1>5. leg'[e].pc = "answer" => leg'[e].answers = Joined(FramedOf(e, stream'[e]), k, Reach(e)')
  BY <1>1, <1>2
<1> QED
  BY <1>2, <1>3, <1>4, <1>5 DEF AnswerBalance

LEMMA ReadInv ==
  ASSUME RelayInv, NEW e \in Peers, Read(e)
  PROVE  RelayInv'
<1>1. PICK o \in Peers : o = Other(e) /\ o # e /\ Other(o) = e /\ \A x \in Peers : x = e \/ x = o
  BY Peer DEF Peers, Other
<1>2. PICK n \in taken[e] + 1 .. Len(stream[e]) :
        /\ leg' = [leg EXCEPT ![e] = [pc |-> "answer", answers |-> process(e, taken[e], n).answers,
                                      payload |-> process(e, taken[e], n).payload,
                                      escaped |-> process(e, taken[e], n).escaped]]
        /\ taken' = [taken EXCEPT ![e] = n]
  BY DEF Read
<1>3. PICK m \in Nat : m = taken[e] /\ m <= n /\ n \in Nat /\ n <= Len(stream[e]) /\ stream[e] \in Seq(Wire)
  BY DEF RelayInv, RelayType
<1>4. PICK r : r = UpToEscape(e, stream[e], m, n)
  OBVIOUS
<1>5. /\ r \in m .. n
      /\ process(e, m, n) = [answers |-> Joined(FramedOf(e, stream[e]), m, r),
                             payload |-> Joined(DataBytesOf(stream[e]), m, r),
                             escaped |-> r < n]
      /\ Joined(FramedOf(e, stream[e]), m, r) \in Seq(Byte)
      /\ Joined(DataBytesOf(stream[e]), m, r) \in Seq(Byte)
  BY <1>3, <1>4, ProcessYields
<1>6. leg[e].pc = "read" /\ UNCHANGED <<stream, wire, cut>>
  BY DEF Read
<1>7. /\ leg'[e] = [pc |-> "answer", answers |-> Joined(FramedOf(e, stream[e]), m, r),
                    payload |-> Joined(DataBytesOf(stream[e]), m, r), escaped |-> (r < n)]
      /\ leg'[o] = leg[o] /\ taken'[e] = n /\ taken'[o] = taken[o]
  BY <1>1, <1>2, <1>3, <1>5 DEF RelayInv, RelayType
<1>8. Reach(e) = m
  BY <1>3, <1>6 DEF RelayInv, EscapeNoted
<1>9. Reach(e)' = r
  <2>1. UpToEscape(e, stream[e], 0, m) = m
    BY <1>3, <1>8 DEF Reach
  <2>2. UpToEscape(e, stream[e], 0, n) = r
    BY <1>3, <1>4, <2>1, StopsLater
  <2> QED
    BY <1>6, <1>7, <2>2 DEF Reach
<1>10. RelayType'
  <2>1. leg'[e] \in [pc : {"read", "answer", "forward", "over"}, answers : Seq(Byte),
                     payload : Seq(Byte), escaped : BOOLEAN]
    BY <1>5, <1>7
  <2>2. leg' \in [Peers -> [pc : {"read", "answer", "forward", "over"}, answers : Seq(Byte),
                            payload : Seq(Byte), escaped : BOOLEAN]]
    BY <1>2, <2>1 DEF RelayInv, RelayType
  <2>3. taken' \in [Peers -> Nat] /\ \A x \in Peers : taken'[x] <= Len(stream'[x])
    BY <1>2, <1>3, <1>6 DEF RelayInv, RelayType
  <2> QED
    BY <1>6, <2>2, <2>3 DEF RelayInv, RelayType
<1>11. EscapeNoted(e)' /\ EscapeNoted(o)'
  <2>1. EscapeNoted(e)'
    BY <1>7, <1>9 DEF EscapeNoted
  <2>2. EscapeNoted(o)'
    BY <1>6, <1>7, EscapeKept DEF RelayInv
  <2> QED
    BY <2>1, <2>2
<1>12. ASSUME o \notin cut PROVE DataBalance(e)'
  <2>1. HeardIn(wire[o]).data = Joined(UnitsOf(stream[e]), 0, m)
    BY <1>1, <1>6, <1>8, <1>12 DEF RelayInv, DataBalance
  <2>2. m \in 0 .. Reach(e)'
    BY <1>5, <1>9
  <2> QED
    BY <1>1, <1>6, <1>7, <1>9, <2>1, <2>2 DEF DataBalance
<1>13. ASSUME e \notin cut PROVE AnswerBalance(e)'
  <2>1. HeardIn(wire[e]).commands = Joined(AnswersOf(e, stream[e]), 0, m)
    BY <1>6, <1>8, <1>13 DEF RelayInv, AnswerBalance
  <2>2. m \in 0 .. Reach(e)'
    BY <1>5, <1>9
  <2> QED
    BY <1>6, <1>7, <1>9, <2>1, <2>2 DEF AnswerBalance
<1>14. ASSUME e \notin cut PROVE DataBalance(o)'
  BY <1>1, <1>6, <1>7, <1>14, DataKept DEF RelayInv
<1>15. ASSUME o \notin cut PROVE AnswerBalance(o)'
  BY <1>1, <1>6, <1>7, <1>15, AnswersKept DEF RelayInv
<1>16. \A x \in Peers : x \notin cut' => Whole(x)'
  BY <1>6 DEF RelayInv, Whole
<1> QED
  BY <1>1, <1>6, <1>10, <1>11, <1>12, <1>13, <1>14, <1>15, <1>16 DEF RelayInv

(* A relay that is done, whatever it had in its hands                      *)
LEMMA LegOver ==
  ASSUME RelayInv, NEW e \in Peers, leg' = [leg EXCEPT ![e] = Over],
         UNCHANGED <<stream, taken>>, wire' \in [Peers -> Seq(Byte)], cut \subseteq cut',
         \A x \in Peers : x \notin cut' => wire'[x] = wire[x]
  PROVE  RelayInv'
<1>1. PICK o \in Peers : o = Other(e) /\ o # e /\ Other(o) = e /\ \A x \in Peers : x = e \/ x = o
  BY Peer DEF Peers, Other
<1>2. leg'[e].pc = "over" /\ leg'[o] = leg[o]
  BY <1>1 DEF Over, Reading, RelayInv, RelayType
<1>3. RelayType'
  <2>1. Over \in [pc : {"read", "answer", "forward", "over"}, answers : Seq(Byte),
                  payload : Seq(Byte), escaped : BOOLEAN]
    <3>1. <<>> \in Seq(Byte)
      OBVIOUS
    <3> QED
      BY <3>1 DEF Over, Reading
  <2>2. leg' \in [Peers -> [pc : {"read", "answer", "forward", "over"}, answers : Seq(Byte),
                            payload : Seq(Byte), escaped : BOOLEAN]]
    BY <2>1 DEF RelayInv, RelayType
  <2> QED
    BY <2>2 DEF RelayInv, RelayType
<1>4. EscapeNoted(e)' /\ EscapeNoted(o)'
  BY <1>2, EscapeKept DEF RelayInv
<1>5. ASSUME NEW x \in Peers, Other(x) \notin cut' PROVE DataBalance(x)'
  <2>1. wire'[Other(x)] = wire[Other(x)] /\ Other(x) \notin cut
    BY <1>5, Peer
  <2>2. leg'[x].pc = "over" \/ leg'[x] = leg[x]
    BY <1>1, <1>2
  <2> QED
    BY <2>1, <2>2, DataKept DEF RelayInv
<1>6. ASSUME NEW x \in Peers, x \notin cut' PROVE AnswerBalance(x)' /\ Whole(x)'
  <2>1. wire'[x] = wire[x] /\ x \notin cut
    BY <1>6
  <2>2. leg'[x].pc = "over" \/ leg'[x] = leg[x]
    BY <1>1, <1>2
  <2>3. AnswerBalance(x)'
    BY <2>1, <2>2, AnswersKept DEF RelayInv
  <2>4. Whole(x)'
    BY <2>1 DEF RelayInv, Whole
  <2> QED
    BY <2>3, <2>4
<1> QED
  BY <1>1, <1>3, <1>4, <1>5, <1>6 DEF RelayInv

LEMMA WriteAnswersInv ==
  ASSUME RelayInv, NEW e \in Peers, WriteAnswers(e)
  PROVE  RelayInv'
<1>1. PICK o \in Peers : o = Other(e) /\ o # e /\ Other(o) = e /\ \A x \in Peers : x = e \/ x = o
  BY Peer DEF Peers, Other
<1>2. /\ wire' = [wire EXCEPT ![e] = wire[e] \o leg[e].answers]
      /\ leg' = [leg EXCEPT ![e].pc = "forward", ![e].answers = <<>>]
      /\ leg[e].pc = "answer" /\ UNCHANGED <<stream, taken, cut>>
  BY DEF WriteAnswers
<1>3. /\ leg'[e].pc = "forward" /\ leg'[e].payload = leg[e].payload
      /\ leg'[e].escaped = leg[e].escaped /\ leg'[o] = leg[o]
      /\ wire'[e] = wire[e] \o leg[e].answers /\ wire'[o] = wire[o]
  BY <1>1, <1>2 DEF RelayInv, RelayType
<1>4. RelayType'
  <2>1. /\ leg[e] \in [pc : {"read", "answer", "forward", "over"}, answers : Seq(Byte),
                       payload : Seq(Byte), escaped : BOOLEAN]
        /\ wire[e] \in Seq(Byte) /\ <<>> \in Seq(Byte)
    BY DEF RelayInv, RelayType
  <2>2. wire[e] \o leg[e].answers \in Seq(Byte)
    <3>1. PICK x \in Seq(Byte), y \in Seq(Byte) : x = wire[e] /\ y = leg[e].answers
      BY <2>1
    <3>2. x \o y \in Seq(Byte)
      OBVIOUS
    <3> QED
      BY <3>1, <3>2
  <2>3. wire' \in [Peers -> Seq(Byte)]
    BY <1>2, <2>2 DEF RelayInv, RelayType
  <2>4. [leg[e] EXCEPT !.pc = "forward", !.answers = <<>>] \in
          [pc : {"read", "answer", "forward", "over"}, answers : Seq(Byte),
           payload : Seq(Byte), escaped : BOOLEAN]
    BY <2>1
  <2>5. leg' = [leg EXCEPT ![e] = [leg[e] EXCEPT !.pc = "forward", !.answers = <<>>]]
    BY <1>2 DEF RelayInv, RelayType
  <2>6. leg' \in [Peers -> [pc : {"read", "answer", "forward", "over"}, answers : Seq(Byte),
                            payload : Seq(Byte), escaped : BOOLEAN]]
    BY <2>4, <2>5 DEF RelayInv, RelayType
  <2> QED
    BY <1>2, <2>3, <2>6 DEF RelayInv, RelayType
<1>5. EscapeNoted(e)' /\ EscapeNoted(o)'
  BY <1>2, <1>3, EscapeKept DEF RelayInv
<1>6. ASSUME e \notin cut PROVE Whole(e)' /\ DataBalance(o)' /\ AnswerBalance(e)'
  <2>1. PICK k \in 0 .. Reach(e) :
          /\ HeardIn(wire[e]).commands = Joined(AnswersOf(e, stream[e]), 0, k)
          /\ leg[e].answers = Joined(FramedOf(e, stream[e]), k, Reach(e))
    BY <1>2, <1>6 DEF RelayInv, AnswerBalance
  <2>2. PICK s \in Seq(Wire) : s = stream[e]
    BY DEF RelayInv, RelayType
  <2>3. PICK r \in Nat : r = Reach(e) /\ r <= Len(s) /\ k <= r /\ k \in Nat
    BY <2>2, ReachType DEF RelayInv
  <2>4. PICK w \in Seq(Byte) : w = wire[e] /\ HeardIn(w).at = "data" /\ HeardIn(w) \in Hears
    <3>1. wire[e] \in Seq(Byte) /\ HeardIn(wire[e]).at = "data"
      BY <1>6 DEF RelayInv, RelayType, Whole
    <3>2. cIAC \in Byte
      BY DEF cIAC, Byte
    <3>3. HeardIn(wire[e]) \in Hears
      BY <3>1, <3>2, HearNext
    <3> QED
      BY <3>1, <3>3
  <2>5. HeardIn(w \o Joined(FramedOf(e, s), k, r)) = Gains(HeardIn(w), <<>>, Joined(AnswersOf(e, s), k, r))
    BY <2>2, <2>3, <2>4, AnswersHeard
  <2>6. HeardIn(wire'[e]) = Gains(HeardIn(w), <<>>, Joined(AnswersOf(e, s), k, r))
    BY <1>3, <2>1, <2>2, <2>3, <2>4, <2>5
  <2>7. HeardIn(w).data \o <<>> = HeardIn(w).data
    BY <2>4, ConcatEmptySeq DEF Hears
  <2>8. HeardIn(wire'[e]).at = "data" /\ HeardIn(wire'[e]).data = HeardIn(wire[e]).data
    BY <2>4, <2>6, <2>7 DEF Gains
  <2>9. HeardIn(wire'[e]).commands = Joined(AnswersOf(e, s), 0, r)
    <3>1. AnswersOf(e, s) \in Seq(Seq(Byte)) /\ Len(AnswersOf(e, s)) = Len(s)
      BY PartsType
    <3>2. Joined(AnswersOf(e, s), 0, r) = Joined(AnswersOf(e, s), 0, k) \o Joined(AnswersOf(e, s), k, r)
      BY <2>3, <3>1, JoinedSplit
    <3> QED
      BY <2>1, <2>2, <2>4, <2>6, <3>2 DEF Gains
  <2>10. Whole(e)'
    BY <2>8 DEF Whole
  <2>11. DataBalance(o)'
    BY <1>1, <1>2, <1>3, <1>6, <2>8, DataKept DEF RelayInv
  <2>12. AnswerBalance(e)'
    <3>1. Reach(e)' = r /\ r \in 0 .. r
      BY <1>2, <2>3, ReachKept
    <3> QED
      BY <1>2, <1>3, <2>2, <2>9, <3>1 DEF AnswerBalance
  <2> QED
    BY <2>10, <2>11, <2>12
<1>7. ASSUME o \notin cut PROVE Whole(o)' /\ DataBalance(e)' /\ AnswerBalance(o)'
  <2>1. Whole(o)'
    BY <1>3, <1>7 DEF RelayInv, Whole
  <2>2. DataBalance(e)'
    BY <1>1, <1>2, <1>3, <1>7, DataKept DEF RelayInv
  <2>3. AnswerBalance(o)'
    BY <1>1, <1>2, <1>3, <1>7, AnswersKept DEF RelayInv
  <2> QED
    BY <2>1, <2>2, <2>3
<1> QED
  BY <1>1, <1>2, <1>4, <1>5, <1>6, <1>7 DEF RelayInv

LEMMA WritePayloadInv ==
  ASSUME RelayInv, NEW e \in Peers, WritePayload(e)
  PROVE  RelayInv'
<1>1. PICK o \in Peers : o = Other(e) /\ o # e /\ Other(o) = e /\ \A x \in Peers : x = e \/ x = o
  BY Peer DEF Peers, Other
<1>2. /\ wire' = [wire EXCEPT ![o] = wire[o] \o leg[e].payload]
      /\ leg' = [leg EXCEPT ![e] = IF leg[e].escaped THEN Over ELSE Reading]
      /\ leg[e].pc = "forward" /\ UNCHANGED <<stream, taken, cut>>
  BY <1>1 DEF WritePayload
<1>3. /\ leg'[e] = (IF leg[e].escaped THEN Over ELSE Reading) /\ leg'[o] = leg[o]
      /\ wire'[o] = wire[o] \o leg[e].payload /\ wire'[e] = wire[e]
      /\ leg[e].escaped \in BOOLEAN
  BY <1>1, <1>2 DEF RelayInv, RelayType
<1>4. /\ Over.pc = "over" /\ Reading.pc = "read"
      /\ Over \in [pc : {"read", "answer", "forward", "over"}, answers : Seq(Byte),
                   payload : Seq(Byte), escaped : BOOLEAN]
      /\ Reading \in [pc : {"read", "answer", "forward", "over"}, answers : Seq(Byte),
                      payload : Seq(Byte), escaped : BOOLEAN]
  <2>1. <<>> \in Seq(Byte)
    OBVIOUS
  <2> QED
    BY <2>1 DEF Over, Reading
<1>5. PICK s \in Seq(Wire) : s = stream[e]
  BY DEF RelayInv, RelayType
<1>6. PICK r \in Nat : r = Reach(e) /\ r <= Len(s) /\ r <= taken[e] /\ taken[e] \in Nat
  BY <1>5, ReachType DEF RelayInv, RelayType
<1>7. Reach(e)' = r
  BY <1>2, <1>6, ReachKept
<1>8. leg'[e].pc \in {"read", "over"} /\ (leg'[e].pc = "read" => r = taken[e])
  <2>1. leg[e].escaped = (Reach(e) < taken[e])
    BY <1>2 DEF RelayInv, EscapeNoted
  <2>2. CASE leg[e].escaped
    BY <1>3, <1>4, <2>2
  <2>3. CASE ~leg[e].escaped
    <3>1. leg'[e].pc = "read"
      BY <1>3, <1>4, <2>3
    <3>2. ~(r < taken[e])
      BY <1>6, <2>1, <2>3
    <3>3. r = taken[e]
      BY <1>6, <3>2
    <3> QED
      BY <3>1, <3>3
  <2> QED
    BY <2>2, <2>3
<1>9. RelayType'
  <2>1. leg[e] \in [pc : {"read", "answer", "forward", "over"}, answers : Seq(Byte),
                    payload : Seq(Byte), escaped : BOOLEAN]
        /\ wire[o] \in Seq(Byte)
    BY DEF RelayInv, RelayType
  <2>2. wire[o] \o leg[e].payload \in Seq(Byte)
    <3>1. PICK x \in Seq(Byte), y \in Seq(Byte) : x = wire[o] /\ y = leg[e].payload
      BY <2>1
    <3>2. x \o y \in Seq(Byte)
      OBVIOUS
    <3> QED
      BY <3>1, <3>2
  <2>3. wire' \in [Peers -> Seq(Byte)]
    BY <1>2, <2>2 DEF RelayInv, RelayType
  <2>4. leg' \in [Peers -> [pc : {"read", "answer", "forward", "over"}, answers : Seq(Byte),
                            payload : Seq(Byte), escaped : BOOLEAN]]
    BY <1>2, <1>4 DEF RelayInv, RelayType
  <2> QED
    BY <1>2, <2>3, <2>4 DEF RelayInv, RelayType
<1>10. EscapeNoted(e)' /\ EscapeNoted(o)'
  <2>1. EscapeNoted(e)'
    BY <1>2, <1>7, <1>8 DEF EscapeNoted
  <2>2. EscapeNoted(o)'
    BY <1>2, <1>3, EscapeKept DEF RelayInv
  <2> QED
    BY <2>1, <2>2
<1>11. ASSUME o \notin cut PROVE Whole(o)' /\ DataBalance(e)' /\ AnswerBalance(o)'
  <2>1. PICK m \in 0 .. Reach(e) :
          /\ HeardIn(wire[o]).data = Joined(UnitsOf(stream[e]), 0, m)
          /\ leg[e].payload = Joined(DataBytesOf(stream[e]), m, Reach(e))
    BY <1>1, <1>2, <1>11 DEF RelayInv, DataBalance
  <2>2. m \in Nat /\ m <= r
    BY <1>6
  <2>3. PICK w \in Seq(Byte) : w = wire[o] /\ HeardIn(w).at = "data" /\ HeardIn(w) \in Hears
    <3>1. wire[o] \in Seq(Byte) /\ HeardIn(wire[o]).at = "data"
      BY <1>11 DEF RelayInv, RelayType, Whole
    <3>2. cIAC \in Byte
      BY DEF cIAC, Byte
    <3>3. HeardIn(wire[o]) \in Hears
      BY <3>1, <3>2, HearNext
    <3> QED
      BY <3>1, <3>3
  <2>4. HeardIn(w \o Joined(DataBytesOf(s), m, r)) = Gains(HeardIn(w), Joined(UnitsOf(s), m, r), <<>>)
    BY <1>6, <2>2, <2>3, PayloadHeard
  <2>5. HeardIn(wire'[o]) = Gains(HeardIn(w), Joined(UnitsOf(s), m, r), <<>>)
    BY <1>3, <1>5, <1>6, <2>1, <2>3, <2>4
  <2>6. HeardIn(w).commands \o <<>> = HeardIn(w).commands
    BY <2>3, ConcatEmptySeq DEF Hears
  <2>7. HeardIn(wire'[o]).at = "data" /\ HeardIn(wire'[o]).commands = HeardIn(wire[o]).commands
    BY <2>3, <2>5, <2>6 DEF Gains
  <2>8. HeardIn(wire'[o]).data = Joined(UnitsOf(s), 0, r)
    <3>1. UnitsOf(s) \in Seq(Seq(HearUnit)) /\ Len(UnitsOf(s)) = Len(s)
      BY PartsType
    <3>2. Joined(UnitsOf(s), 0, r) = Joined(UnitsOf(s), 0, m) \o Joined(UnitsOf(s), m, r)
      BY <1>6, <2>2, <3>1, JoinedSplit
    <3> QED
      BY <1>5, <2>1, <2>3, <2>5, <3>2 DEF Gains
  <2>9. Whole(o)'
    BY <2>7 DEF Whole
  <2>10. AnswerBalance(o)'
    BY <1>2, <1>3, <1>11, <2>7, AnswersKept DEF RelayInv
  <2>11. DataBalance(e)'
    <3>1. r \in 0 .. r
      OBVIOUS
    <3> QED
      BY <1>1, <1>2, <1>5, <1>7, <1>8, <2>8, <3>1 DEF DataBalance
  <2> QED
    BY <2>9, <2>10, <2>11
<1>12. ASSUME e \notin cut PROVE Whole(e)' /\ DataBalance(o)' /\ AnswerBalance(e)'
  <2>1. Whole(e)'
    BY <1>3, <1>12 DEF RelayInv, Whole
  <2>2. DataBalance(o)'
    BY <1>1, <1>2, <1>3, <1>12, DataKept DEF RelayInv
  <2>3. AnswerBalance(e)'
    BY <1>1, <1>2, <1>3, <1>8, <1>12, AnswersKept DEF RelayInv
  <2> QED
    BY <2>1, <2>2, <2>3
<1> QED
  BY <1>1, <1>2, <1>9, <1>10, <1>11, <1>12 DEF RelayInv

LEMMA WriteCutInv ==
  ASSUME RelayInv, NEW e \in Peers, WriteCut(e)
  PROVE  RelayInv'
<1> DEFINE bytes == IF leg[e].pc = "answer" THEN leg[e].answers ELSE leg[e].payload
           to == IF leg[e].pc = "answer" THEN e ELSE Other(e)
<1>1. PICK n \in 0 .. Len(bytes) - 1 : wire' = [wire EXCEPT ![to] = wire[to] \o SubSeq(bytes, 1, n)]
  BY DEF WriteCut
<1>2. cut' = cut \cup {to} /\ leg' = [leg EXCEPT ![e] = Over] /\ UNCHANGED <<stream, taken>>
  BY DEF WriteCut
<1>3. bytes \in Seq(Byte) /\ to \in Peers
  BY Peer DEF RelayInv, RelayType
<1> HIDE DEF bytes, to
<1>4. PICK x \in Seq(Byte), y \in Seq(Byte) : x = wire[to] /\ y = SubSeq(bytes, 1, n)
  <2>1. PICK b \in Seq(Byte) : b = bytes
    BY <1>3
  <2>2. SubSeq(b, 1, n) \in Seq(Byte)
    BY <2>1
  <2>3. wire[to] \in Seq(Byte)
    BY <1>3 DEF RelayInv, RelayType
  <2> QED
    BY <2>1, <2>2, <2>3
<1>5. x \o y \in Seq(Byte)
  OBVIOUS
<1>6. wire' \in [Peers -> Seq(Byte)]
  BY <1>1, <1>4, <1>5 DEF RelayInv, RelayType
<1>7. \A p \in Peers : p \notin cut' => wire'[p] = wire[p]
  BY <1>1, <1>2 DEF RelayInv, RelayType
<1> QED
  BY <1>2, <1>6, <1>7, LegOver

LEMMA RelayNextInv ==
  ASSUME RelayInv, [RelayNext]_relayVars
  PROVE  RelayInv'
<1>1. CASE UNCHANGED relayVars
  BY <1>1 DEF relayVars, RelayInv, RelayType, EscapeNoted, Whole, DataBalance, AnswerBalance, Reach
<1>2. ASSUME NEW e \in Peers, Read(e) PROVE RelayInv'
  BY <1>2, ReadInv
<1>3. ASSUME NEW e \in Peers, WriteAnswers(e) PROVE RelayInv'
  BY <1>3, WriteAnswersInv
<1>4. ASSUME NEW e \in Peers, WritePayload(e) PROVE RelayInv'
  BY <1>4, WritePayloadInv
<1>5. ASSUME NEW e \in Peers, ReadEnds(e) PROVE RelayInv'
  <2>1. leg' = [leg EXCEPT ![e] = Over] /\ UNCHANGED <<stream, taken, wire, cut>>
    BY <1>5 DEF ReadEnds
  <2>2. wire' \in [Peers -> Seq(Byte)]
    BY <2>1 DEF RelayInv, RelayType
  <2> QED
    BY <2>1, <2>2, LegOver
<1>6. ASSUME NEW e \in Peers, WriteCut(e) PROVE RelayInv'
  BY <1>6, WriteCutInv
<1> QED
  BY <1>1, <1>2, <1>3, <1>4, <1>5, <1>6 DEF RelayNext, RelaysOver

(* What comes first is a prefix.                                           *)
LEMMA Beginning ==
  ASSUME NEW X, NEW s \in Seq(X), NEW t \in Seq(X)
  PROVE  IsPrefix(s, s \o t)
<1>1. PICK u \in Seq(X) : u = s \o t
  BY ConcatProperties
<1>2. Len(u) = Len(s) + Len(t) /\ \A i \in 1 .. Len(s) : u[i] = s[i]
  BY <1>1
<1>3. Len(s) \in Nat /\ Len(t) \in Nat /\ Len(s) <= Len(u)
  BY <1>2
<1>4. SubSeq(s, 1, Len(s)) = s
  OBVIOUS
<1>5. PICK v \in Seq(X) : v = SubSeq(u, 1, Len(s)) /\ Len(v) = Len(s) /\ \A i \in 1 .. Len(s) : v[i] = u[i]
  <2>1. PICK L \in Nat : L = Len(s) /\ L <= Len(u)
    BY <1>3
  <2>2. /\ SubSeq(u, 1, L) \in Seq(X) /\ Len(SubSeq(u, 1, L)) = L
        /\ \A i \in 1 .. L : SubSeq(u, 1, L)[i] = u[i]
    BY <2>1
  <2> QED
    BY <2>1, <2>2
<1>6. v = s
  BY <1>2, <1>5, SeqEqual
<1> QED
  BY <1>1, <1>3, <1>4, <1>5, <1>6 DEF IsPrefix

LEMMA DueOf ==
  ASSUME RelayType, NEW e \in Peers
  PROVE  /\ DataDue(e) = Joined(UnitsOf(stream[Other(e)]), 0, Reach(Other(e)))
         /\ AnswersDue(e) = Joined(AnswersOf(e, stream[e]), 0, Reach(e))
<1>1. ASSUME NEW x \in Peers
      PROVE  /\ UnitsOf(BeforeEscape(x)) = SubSeq(UnitsOf(stream[x]), 0 + 1, Reach(x))
             /\ AnswersOf(x, BeforeEscape(x)) = SubSeq(AnswersOf(x, stream[x]), 0 + 1, Reach(x))
  <2>1. BeforeEscape(x) = SubSeq(stream[x], 0 + 1, Reach(x))
    BY DEF BeforeEscape, Reach
  <2>2. stream[x] \in Seq(Wire) /\ Reach(x) \in Nat /\ 0 \in Nat /\ 0 <= Reach(x) /\ Reach(x) <= Len(stream[x])
    BY ReachType DEF RelayType
  <2>3. PICK z \in Nat, r \in Nat, q \in Seq(Wire) :
          z = 0 /\ r = Reach(x) /\ q = stream[x] /\ z <= r /\ r <= Len(q)
    BY <2>2
  <2>4. UnitsOf(SubSeq(q, z + 1, r)) = SubSeq(UnitsOf(q), z + 1, r)
    BY <2>3, PartsOfPiece
  <2>5. AnswersOf(x, SubSeq(q, z + 1, r)) = SubSeq(AnswersOf(x, q), z + 1, r)
    BY <2>3, AnswersOfPiece
  <2> QED
    BY <2>1, <2>3, <2>4, <2>5
<1>2. DataDue(e) = FlattenSeq(UnitsOf(BeforeEscape(Other(e))))
  BY Zenon DEF DataDue, UnitsOf
<1>3. AnswersDue(e) = FlattenSeq(AnswersOf(e, BeforeEscape(e)))
  BY Zenon DEF AnswersDue, AnswersOf
<1> QED
  BY <1>1, <1>2, <1>3, Peer DEF Joined

LEMMA RelayInvExact ==
  ASSUME RelayInv
  PROVE  HeardExact
<1> SUFFICES ASSUME NEW e \in Peers, e \notin cut
             PROVE  LET heard == HeardIn(wire[e])
                    IN /\ heard.at = "data"
                       /\ IsPrefix(heard.data, DataDue(e))
                       /\ IsPrefix(heard.commands, AnswersDue(e))
                       /\ leg[Other(e)].pc = "read" => heard.data = DataDue(e)
                       /\ leg[e].pc \in {"read", "forward"} => heard.commands = AnswersDue(e)
  BY Zenon DEF HeardExact
<1>1. PICK o \in Peers : o = Other(e) /\ Other(o) = e
  BY Peer
<1>2. /\ DataDue(e) = Joined(UnitsOf(stream[o]), 0, Reach(o))
      /\ AnswersDue(e) = Joined(AnswersOf(e, stream[e]), 0, Reach(e))
  BY <1>1, DueOf DEF RelayInv
<1>3. HeardIn(wire[e]).at = "data"
  BY DEF RelayInv, Whole
<1>4. /\ IsPrefix(HeardIn(wire[e]).data, DataDue(e))
      /\ leg[o].pc = "read" => HeardIn(wire[e]).data = DataDue(e)
  <2>1. PICK m \in 0 .. Reach(o) :
          /\ HeardIn(wire[e]).data = Joined(UnitsOf(stream[o]), 0, m)
          /\ leg[o].pc = "read" => m = Reach(o)
    BY <1>1 DEF RelayInv, DataBalance
  <2>2. PICK u \in Seq(Seq(HearUnit)) : u = UnitsOf(stream[o]) /\ Len(u) = Len(stream[o])
    BY PartsType DEF RelayInv, RelayType
  <2>3. PICK r \in Nat : r = Reach(o) /\ r <= Len(u) /\ m \in Nat /\ m <= r /\ m <= Len(u) /\ 0 \in Nat
    BY <2>2, ReachType DEF RelayInv
  <2>4. Joined(u, 0, r) = Joined(u, 0, m) \o Joined(u, m, r)
    BY <2>3, JoinedSplit
  <2>5. Joined(u, 0, m) \in Seq(HearUnit) /\ Joined(u, m, r) \in Seq(HearUnit)
    BY <2>3, JoinedType
  <2>6. IsPrefix(Joined(u, 0, m), Joined(u, 0, r))
    BY <2>4, <2>5, Beginning
  <2> QED
    BY <1>2, <2>1, <2>2, <2>3, <2>6
<1>5. /\ IsPrefix(HeardIn(wire[e]).commands, AnswersDue(e))
      /\ leg[e].pc \in {"read", "forward"} => HeardIn(wire[e]).commands = AnswersDue(e)
  <2>1. PICK k \in 0 .. Reach(e) :
          /\ HeardIn(wire[e]).commands = Joined(AnswersOf(e, stream[e]), 0, k)
          /\ leg[e].pc \in {"read", "forward"} => k = Reach(e)
    BY DEF RelayInv, AnswerBalance
  <2>2. PICK u \in Seq(Seq(Byte)) : u = AnswersOf(e, stream[e]) /\ Len(u) = Len(stream[e])
    BY PartsType DEF RelayInv, RelayType
  <2>3. PICK r \in Nat : r = Reach(e) /\ r <= Len(u) /\ k \in Nat /\ k <= r /\ k <= Len(u) /\ 0 \in Nat
    BY <2>2, ReachType DEF RelayInv
  <2>4. Joined(u, 0, r) = Joined(u, 0, k) \o Joined(u, k, r)
    BY <2>3, JoinedSplit
  <2>5. Joined(u, 0, k) \in Seq(Byte) /\ Joined(u, k, r) \in Seq(Byte)
    BY <2>3, JoinedType
  <2>6. IsPrefix(Joined(u, 0, k), Joined(u, 0, r))
    BY <2>4, <2>5, Beginning
  <2> QED
    BY <1>2, <2>1, <2>2, <2>3, <2>6
<1> QED
  BY <1>1, <1>3, <1>4, <1>5

(* However the writes of the two relays interleave, whatever the ends send *)
(* and in whatever pieces it is read, each end makes of its bytes exactly  *)
(* the other's data and the answers it asked for (relay in bridge.go,      *)
(* process in telnet.go).                                                  *)
THEOREM RelaysHeard == RelaySpec => []HeardExact
<1>1. RelayInit => RelayInv
  BY RelayInitInv
<1>2. RelayInv /\ [RelayNext]_relayVars => RelayInv'
  BY RelayNextInv
<1>3. RelayInv => HeardExact
  BY RelayInvExact
<1> QED
  BY <1>1, <1>2, <1>3, PTL DEF RelaySpec
=============================================================================
