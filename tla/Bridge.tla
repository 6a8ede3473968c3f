------------------------------- MODULE Bridge -------------------------------
(***************************************************************************)
(* A bridged session: Bridge and relay of internal/bridge/bridge.go, over  *)
(* the client connection as internal/server/idleconn.go wraps it.          *)
(*                                                                         *)
(* Two relay goroutines copy in opposite directions and report through a   *)
(* buffered channel.  The first report ends the bridge: Bridge interrupts  *)
(* the other relay with a deadline in the past, waits for it, and hands    *)
(* the client back to the menu.  Every read and write of the client arms   *)
(* the idle deadline, unless an explicit deadline is in force.             *)
(*                                                                         *)
(* Abstractions.  A chunk is the set of things relay does with it: a reply *)
(* to its sender, data to forward, an escape (Telnet.tla says which).  A   *)
(* peer that stops reading is stalled: writes to it block.  Time is the    *)
(* idle window running out.  Each peer sends at most MaxChunks chunks.     *)
(***************************************************************************)
EXTENDS Naturals, Sequences

CONSTANTS
  MaxChunks,   \* bound on the chunks each peer sends
  Stallable    \* peers that may stop reading

Ends == {"client", "backend"}
Dirs == {"up", "down"}       \* client to backend, backend to client

ASSUME BridgeAssumption ==
  MaxChunks \in Nat /\ Stallable \subseteq Ends

VARIABLES
  main,      \* where Bridge stands
  relay,     \* where each relay stands, and the chunk it is working on
  results,   \* the channel of causes
  first,     \* the cause Bridge returns
  peer,      \* each connection: the far end, what it has sent, its deadline
  idle,      \* the client's idleConn: a window is set (bridge_idle is not
             \* exempt), and an explicit deadline is in force (manual)
  idled      \* history: the idle window has run out during this bridge

vars == <<main, relay, results, first, peer, idle, idled>>

Src(d) == IF d = "up" THEN "client" ELSE "backend"
Dst(d) == IF d = "up" THEN "backend" ELSE "client"

Effects == {"reply", "forward", "escape"}
Chunks(e) == IF e = "client" THEN SUBSET Effects ELSE SUBSET (Effects \ {"escape"})
Causes == {"error", "backendClosed", "clientClosed", "userEscaped"}
MainStates == {"dial", "wait", "cutBackend", "cutClient", "drain", "restore", "returned"}
RelayStates == {"none", "arm", "read", "armReply", "reply", "armForward", "forward", "over"}

Fresh == [open |-> TRUE, inbox |-> <<>>, sent |-> 0, stalled |-> FALSE, dl |-> "none"]

(* Bridge is called with the client as the menu left it. *)
Init ==
  /\ main = "dial"
  /\ relay = [d \in Dirs |-> [pc |-> "none", chunk |-> {}]]
  /\ results = <<>>
  /\ first = "none"
  /\ peer = [e \in Ends |-> Fresh]
  /\ idle \in [window : BOOLEAN, manual : {FALSE}]
  /\ idled = FALSE

-----------------------------------------------------------------------------
(* Deadlines *)

(* The poller refuses reads and writes once the deadline has passed. *)
TimedOut(e) == peer[e].dl \in {"expired", "past"}

(* Mutation of ArmedDeadline: an explicit deadline is armed over. *)
ArmedDeadlineAlways(e) ==
  IF e = "backend" THEN peer[e].dl ELSE IF idle.window THEN "window" ELSE "none"

(* idleConn.arm, under its mutex; the backend connection is a plain one. *)
ArmedDeadline(e) ==
  IF e = "backend" \/ idle.manual THEN peer[e].dl ELSE IF idle.window THEN "window" ELSE "none"

-----------------------------------------------------------------------------
(* relay, direction d *)

Goto(d, pc) == relay' = [relay EXCEPT ![d].pc = pc]

(* What relay does after reading a chunk: reply, then forward, then leave  *)
(* on an escape, else read on.                                             *)
Stage(chunk, done) ==
  IF "reply" \in chunk \ done THEN "armReply"
  ELSE IF "forward" \in chunk \ done THEN "armForward"
  ELSE IF "escape" \in chunk THEN "over" ELSE "arm"

(* relay returns cause. *)
Report(d, cause) ==
  /\ Goto(d, "over")
  /\ results' = Append(results, cause)

(* Before a Read or Write: arm. *)
Arm(d) ==
  LET e == IF relay[d].pc = "armForward" THEN Dst(d) ELSE Src(d) IN
  /\ \/ relay[d].pc = "arm" /\ Goto(d, "read")
     \/ relay[d].pc = "armReply" /\ Goto(d, "reply")
     \/ relay[d].pc = "armForward" /\ Goto(d, "forward")
  /\ peer' = [peer EXCEPT ![e].dl = ArmedDeadline(e)]
  /\ UNCHANGED <<main, results, first, idle, idled>>

(* src.Read returns a chunk. *)
ReadChunk(d) ==
  LET e == Src(d)
      chunk == Head(peer[e].inbox)
      next == Stage(chunk, {})
  IN
  /\ relay[d].pc = "read"
  /\ peer[e].inbox # <<>> /\ ~TimedOut(e)
  /\ peer' = [peer EXCEPT ![e].inbox = Tail(@)]
  /\ relay' = [relay EXCEPT ![d] = [pc |-> next, chunk |-> chunk]]
  /\ results' = IF next = "over" THEN Append(results, "userEscaped") ELSE results
  /\ UNCHANGED <<main, first, idle, idled>>

(* Mutation of ReadFails: a failing client read is retried. *)
ReadFailsOnlyDown(d) ==
  /\ relay[d].pc = "read" /\ d = "down"
  /\ ~peer[Src(d)].open \/ TimedOut(Src(d))
  /\ Report(d, "backendClosed")
  /\ UNCHANGED <<main, first, peer, idle, idled>>

(* src.Read returns an error: end of stream, closed, or deadline. *)
ReadFails(d) ==
  /\ relay[d].pc = "read"
  /\ ~peer[Src(d)].open \/ TimedOut(Src(d))
  /\ Report(d, IF d = "up" THEN "clientClosed" ELSE "backendClosed")
  /\ UNCHANGED <<main, first, peer, idle, idled>>

(* The connection a relay is writing to. *)
Target(d) == IF relay[d].pc = "reply" THEN Src(d) ELSE Dst(d)

(* A write is taken by the peer. *)
WriteOk(d) ==
  LET done == IF relay[d].pc = "reply" THEN {"reply"} ELSE {"reply", "forward"}
      next == Stage(relay[d].chunk, done)
  IN
  /\ relay[d].pc \in {"reply", "forward"}
  /\ peer[Target(d)].open /\ ~peer[Target(d)].stalled /\ ~TimedOut(Target(d))
  /\ Goto(d, next)
  /\ results' = IF next = "over" THEN Append(results, "userEscaped") ELSE results
  /\ UNCHANGED <<main, first, peer, idle, idled>>

(* A write fails: closed, or deadline. *)
WriteFails(d) ==
  /\ relay[d].pc \in {"reply", "forward"}
  /\ ~peer[Target(d)].open \/ TimedOut(Target(d))
  /\ Report(d, "error")
  /\ UNCHANGED <<main, first, peer, idle, idled>>

-----------------------------------------------------------------------------
(* Bridge *)

(* The backend answers within dialTimeout: both relays start. *)
DialOk ==
  /\ main = "dial"
  /\ main' = "wait"
  /\ relay' = [d \in Dirs |-> [pc |-> "arm", chunk |-> {}]]
  /\ UNCHANGED <<results, first, peer, idle, idled>>

DialFails ==
  /\ main = "dial"
  /\ main' = "returned"
  /\ first' = "error"
  /\ UNCHANGED <<relay, results, peer, idle, idled>>

(* first := <-results *)
TakeFirst ==
  /\ main = "wait" /\ results # <<>>
  /\ main' = "cutBackend"
  /\ first' = Head(results)
  /\ results' = Tail(results)
  /\ UNCHANGED <<relay, peer, idle, idled>>

(* backend.SetDeadline(pastDeadline) *)
CutBackend ==
  /\ main = "cutBackend"
  /\ main' = "cutClient"
  /\ peer' = [peer EXCEPT !["backend"].dl = "past"]
  /\ UNCHANGED <<relay, results, first, idle, idled>>

(* client.SetDeadline(pastDeadline): suspends arming. *)
CutClient ==
  /\ main = "cutClient"
  /\ main' = "drain"
  /\ peer' = [peer EXCEPT !["client"].dl = "past"]
  /\ idle' = [idle EXCEPT !.manual = TRUE]
  /\ UNCHANGED <<relay, results, first, idled>>

(* Mutation of Drain: the later cause is returned. *)
DrainTakesLast ==
  /\ main = "drain" /\ results # <<>>
  /\ main' = "restore"
  /\ first' = Head(results)
  /\ results' = Tail(results)
  /\ UNCHANGED <<relay, peer, idle, idled>>

(* <-results: wait for the other relay. *)
Drain ==
  /\ main = "drain" /\ results # <<>>
  /\ main' = "restore"
  /\ results' = Tail(results)
  /\ UNCHANGED <<relay, first, peer, idle, idled>>

(* Mutation of Restore: the client's deadline is not reset. *)
RestoreForgets ==
  /\ main = "restore"
  /\ main' = "returned"
  /\ UNCHANGED <<relay, results, first, peer, idle, idled>>

(* client.SetDeadline(zero) resumes arming; Bridge returns. *)
Restore ==
  /\ main = "restore"
  /\ main' = "returned"
  /\ peer' = [peer EXCEPT !["client"].dl = "none"]
  /\ idle' = [idle EXCEPT !.manual = FALSE]
  /\ UNCHANGED <<relay, results, first, idled>>

(* Back at the menu the user picks a service again: a fresh backend. *)
BridgeAgain ==
  /\ main = "returned" /\ first # "clientClosed" /\ peer["client"].open
  /\ main' = "dial"
  /\ first' = "none"
  /\ relay' = [d \in Dirs |-> [pc |-> "none", chunk |-> {}]]
  /\ peer' = [peer EXCEPT !["backend"] = Fresh]
  /\ idled' = FALSE
  /\ UNCHANGED <<results, idle>>

(* The session has ended, or the user stays at the menu. *)
Rest == main = "returned" /\ UNCHANGED vars

-----------------------------------------------------------------------------
(* The peers and the clock *)

Send(e) ==
  /\ peer[e].open /\ peer[e].sent < MaxChunks /\ main # "returned"
  /\ \E c \in Chunks(e) :
       peer' = [peer EXCEPT ![e].inbox = Append(@, c), ![e].sent = @ + 1]
  /\ UNCHANGED <<main, relay, results, first, idle, idled>>

(* The far end closes, or an administrator hard-closes the client. *)
Close(e) ==
  /\ peer[e].open
  /\ peer' = [peer EXCEPT ![e].open = FALSE]
  /\ UNCHANGED <<main, relay, results, first, idle, idled>>

Stall(e) ==
  /\ e \in Stallable /\ ~peer[e].stalled
  /\ peer' = [peer EXCEPT ![e].stalled = TRUE]
  /\ UNCHANGED <<main, relay, results, first, idle, idled>>

(* The client's idle window runs out. *)
WindowExpires ==
  /\ peer["client"].dl = "window"
  /\ peer' = [peer EXCEPT !["client"].dl = "expired"]
  /\ idled' = TRUE
  /\ UNCHANGED <<main, relay, results, first, idle>>

-----------------------------------------------------------------------------
Relay(d) == Arm(d) \/ ReadChunk(d) \/ ReadFails(d) \/ WriteOk(d) \/ WriteFails(d)

Main == DialOk \/ DialFails \/ TakeFirst \/ CutBackend \/ CutClient \/ Drain \/ Restore

Next ==
  \/ \E d \in Dirs : Relay(d)
  \/ Main \/ BridgeAgain \/ Rest
  \/ \E e \in Ends : Send(e) \/ Close(e) \/ Stall(e)
  \/ WindowExpires

Spec == Init /\ [][Next]_vars

(* Goroutines that can run do; a dial ends within dialTimeout; time passes. *)
FairSpec ==
  /\ Spec
  /\ \A d \in Dirs : WF_vars(Relay(d))
  /\ WF_vars(Main)
  /\ WF_vars(WindowExpires)

-----------------------------------------------------------------------------
(* Properties *)

(* Every variable has its type; the channel of Bridge never holds more     *)
(* results than its buffer of two, so no relay blocks reporting.           *)
TypeOK ==
  /\ main \in MainStates
  /\ relay \in [Dirs -> [pc : RelayStates, chunk : SUBSET Effects]]
  /\ results \in Seq(Causes) /\ Len(results) <= 2
  /\ first \in Causes \cup {"none"}
  /\ peer \in [Ends -> [open : BOOLEAN, inbox : Seq(SUBSET Effects), sent : 0..MaxChunks,
                        stalled : BOOLEAN, dl : {"none", "window", "expired", "past"}]]
  /\ idle \in [window : BOOLEAN, manual : BOOLEAN] /\ idled \in BOOLEAN

(* When Bridge returns, the client is the menu's alone and usable: neither *)
(* relay is still reading or writing it, no result is left behind, and     *)
(* idle enforcement is on again with no deadline left over.                *)
CleanHandback ==
  /\ TypeOK
  /\ main = "returned" =>
       /\ \A d \in Dirs : relay[d].pc \in {"none", "over"}
       /\ results = <<>>
       /\ ~idle.manual /\ peer["client"].dl # "past"

(* The cause Bridge returns is the event that ended the bridge, never the  *)
(* timeout its own interrupt provoked in the other relay.                  *)
CauseIsRootCause ==
  /\ first = "clientClosed" => ~peer["client"].open \/ idled
  /\ first = "backendClosed" => ~peer["backend"].open
  /\ first = "userEscaped" => "escape" \in relay["up"].chunk

(* Once one relay has ended the other is interrupted wherever it blocks,   *)
(* a write to a stalled peer included, and Bridge returns.                 *)
TeardownCompletes == (main = "cutBackend") ~> (main = "returned")

(* A client that is gone, or idle for a whole window, ends the bridge, as  *)
(* long as the backend reads: a write to it has no deadline (relay).       *)
ClientGoneEndsBridge ==
  (main = "wait" /\ (~peer["client"].open \/ peer["client"].dl = "expired"))
    ~> (main = "returned" \/ peer["backend"].stalled)
=============================================================================
