------------------------------- MODULE Server -------------------------------
(***************************************************************************)
(* The accept side of the proxy: internal/server/server.go (Serve, handle, *)
(* ServeAll) with the connection limiter of internal/server/limiter.go.    *)
(*                                                                         *)
(* One accept loop runs per listener.  All loops share one counting        *)
(* semaphore (the global cap, claimed BEFORE Accept) and one map of        *)
(* per-address counts.  The first loop to fail records its error and       *)
(* closes every listener; ServeAll returns when every loop has returned.   *)
(*                                                                         *)
(* Abstractions.  A session is a connection in state "serving" (its life   *)
(* is Session.tla).  The trust verdict is read from the database, which an *)
(* administrator edits and which may fail (fail-closed), so at any accept  *)
(* it may be either value for an attributable address.  A connection       *)
(* identity is reused once it is free, so that behaviours are unbounded.   *)
(***************************************************************************)
EXTENDS Naturals, FiniteSets

CONSTANTS
  Listeners,  \* the listeners handed to ServeAll
  Conns,      \* connection identities
  NoConn,     \* not a connection
  IPs,        \* client addresses for which ipKey is not ""
  NoIP,       \* stands for an address for which ipKey is ""
  MaxConns,   \* Limits.MaxConns
  MaxPerIP    \* Limits.MaxPerIP; 0 disables the per-address cap

ASSUME ServerAssumption ==
  /\ IsFiniteSet(Listeners) /\ Listeners # {}
  /\ IsFiniteSet(Conns) /\ NoConn \notin Conns
  /\ Listeners \cap Conns = {}
  /\ NoIP \notin IPs
  /\ MaxConns \in Nat \ {0}
  /\ MaxPerIP \in Nat

VARIABLES
  lpc,      \* where each accept loop stands
  held,     \* the connection each loop has accepted and not yet dispatched
  lerr,     \* the error each loop is returning
  open,     \* listeners not yet closed
  slots,    \* occupied places of the semaphore channel connLimiter.sem
  perIP,    \* connLimiter.perIP; an absent key is 0
  conn,     \* life of each connection, its listener, its RemoteAddr and the
            \* trust verdict Serve captured and passed to handle
  once,     \* state of the sync.Once guarding record
  first     \* the error ServeAll will return

loopVars == <<lpc, held, lerr>>
failVars == <<open, once, first>>
vars == <<lpc, held, lerr, open, slots, perIP, conn, once, first>>

LoopStates == {"acquire", "accept", "admit", "reject", "record", "closeAll", "done"}
ConnStates == {"free", "backlog", "accepted", "serving", "closed", "ipReleased"}
Errors == {"none", "fault", "closed"}
Conn == [st : ConnStates, home : Listeners, addr : IPs \cup {NoIP}, trusted : BOOLEAN]

(* A connection identity that is not in use. *)
Free == [st |-> "free", home |-> CHOOSE l \in Listeners : TRUE,
         addr |-> NoIP, trusted |-> FALSE]

Init ==
  /\ lpc = [l \in Listeners |-> "acquire"]
  /\ held = [l \in Listeners |-> NoConn]
  /\ lerr = [l \in Listeners |-> "none"]
  /\ open = Listeners
  /\ slots = 0
  /\ perIP = [a \in IPs |-> 0]
  /\ conn = [c \in Conns |-> Free]
  /\ once = "unfired"
  /\ first = "none"

-----------------------------------------------------------------------------
(* The limiter *)

(* Early returns of admitIP and releaseIP: is c charged to its address?    *)
Counted(c) == MaxPerIP > 0 /\ ~conn[c].trusted /\ conn[c].addr # NoIP

(* Mutation of AtIPCap: > for >=. *)
AtIPCapLate(c) == Counted(c) /\ perIP[conn[c].addr] > MaxPerIP

(* admitIP refuses. *)
AtIPCap(c) == Counted(c) /\ perIP[conn[c].addr] >= MaxPerIP

(* admitIP admits, charging the address. *)
ChargeIP(c) ==
  perIP' = IF Counted(c) THEN [perIP EXCEPT ![conn[c].addr] = @ + 1] ELSE perIP

(* Mutation of ReleaseIP: asks for the trust verdict again. *)
ReleaseIPRechecked(c) ==
  \E t \in BOOLEAN :
    perIP' = IF MaxPerIP > 0 /\ ~t /\ conn[c].addr # NoIP
             THEN [perIP EXCEPT ![conn[c].addr] = IF @ <= 1 THEN 0 ELSE @ - 1]
             ELSE perIP

(* releaseIP; deleting the key is returning to 0. *)
ReleaseIP(c) ==
  perIP' = IF Counted(c)
           THEN [perIP EXCEPT ![conn[c].addr] = IF @ <= 1 THEN 0 ELSE @ - 1]
           ELSE perIP

(* acquire blocks while the channel is full. *)
AcquireSlot == slots < MaxConns /\ slots' = slots + 1

ReleaseGlobal == slots' = slots - 1

-----------------------------------------------------------------------------
(* Clients *)

(* The kernel completes a handshake and queues c on an open listener. *)
Arrive(c, l, a) ==
  /\ conn[c].st = "free"
  /\ l \in open
  /\ conn' = [conn EXCEPT ![c] = [st |-> "backlog", home |-> l,
                                 addr |-> a, trusted |-> FALSE]]
  /\ UNCHANGED <<loopVars, failVars, slots, perIP>>

-----------------------------------------------------------------------------
(* Server.Serve: the accept loop of listener l *)

Acquire(l) ==
  /\ lpc[l] = "acquire"
  /\ AcquireSlot
  /\ lpc' = [lpc EXCEPT ![l] = "accept"]
  /\ UNCHANGED <<held, lerr, failVars, perIP, conn>>

(* Accept succeeds and IsTrusted is evaluated. *)
Accept(l, c) ==
  /\ lpc[l] = "accept"
  /\ l \in open
  /\ conn[c].st = "backlog" /\ conn[c].home = l
  /\ \E t \in BOOLEAN :
       /\ conn[c].addr = NoIP => ~t
       /\ conn' = [conn EXCEPT ![c] = [@ EXCEPT !.st = "accepted", !.trusted = t]]
  /\ held' = [held EXCEPT ![l] = c]
  /\ lpc' = [lpc EXCEPT ![l] = "admit"]
  /\ UNCHANGED <<lerr, failVars, slots, perIP>>

(* admitIP answers true: go s.handle(conn, trusted). *)
Admit(l) ==
  LET c == held[l] IN
  /\ lpc[l] = "admit"
  /\ ~AtIPCap(c)
  /\ ChargeIP(c)
  /\ conn' = [conn EXCEPT ![c].st = "serving"]
  /\ held' = [held EXCEPT ![l] = NoConn]
  /\ lpc' = [lpc EXCEPT ![l] = "acquire"]
  /\ UNCHANGED <<lerr, failVars, slots>>

(* admitIP answers false: the connection is closed, ... *)
Reject(l) ==
  LET c == held[l] IN
  /\ lpc[l] = "admit"
  /\ AtIPCap(c)
  /\ conn' = [conn EXCEPT ![c] = Free]
  /\ held' = [held EXCEPT ![l] = NoConn]
  /\ lpc' = [lpc EXCEPT ![l] = "reject"]
  /\ UNCHANGED <<lerr, failVars, slots, perIP>>

(* Mutation of RejectRelease: the refused connection keeps its slot. *)
RejectReleaseLeaks(l) ==
  /\ lpc[l] = "reject"
  /\ lpc' = [lpc EXCEPT ![l] = "acquire"]
  /\ UNCHANGED <<held, lerr, failVars, slots, perIP, conn>>

(* ... the slot given back, and the loop continues. *)
RejectRelease(l) ==
  /\ lpc[l] = "reject"
  /\ ReleaseGlobal
  /\ lpc' = [lpc EXCEPT ![l] = "acquire"]
  /\ UNCHANGED <<held, lerr, failVars, perIP, conn>>

(* Mutation of AcceptError: the loop returns with its slot. *)
AcceptErrorLeaks(l) ==
  /\ lpc[l] = "accept"
  /\ lerr' = [lerr EXCEPT ![l] = IF l \in open THEN "fault" ELSE "closed"]
  /\ lpc' = [lpc EXCEPT ![l] = "record"]
  /\ UNCHANGED <<held, failVars, slots, perIP, conn>>

(* Mutation of AcceptError: gives the slot back and calls Accept again. *)
AcceptErrorRetries(l) ==
  /\ lpc[l] = "accept"
  /\ ReleaseGlobal
  /\ UNCHANGED <<loopVars, failVars, perIP, conn>>

(* Accept fails: the slot is given back and the loop returns the error.    *)
(* An open listener fails for a reason of its own; a closed one reports    *)
(* "use of closed network connection".                                     *)
AcceptError(l) ==
  /\ lpc[l] = "accept"
  /\ ReleaseGlobal
  /\ lerr' = [lerr EXCEPT ![l] = IF l \in open THEN "fault" ELSE "closed"]
  /\ lpc' = [lpc EXCEPT ![l] = "record"]
  /\ UNCHANGED <<held, failVars, perIP, conn>>

-----------------------------------------------------------------------------
(* ServeAll: record(srv.Serve()) under sync.Once *)

(* The first caller of record stores its error and starts closeAll. *)
RecordFirst(l) ==
  /\ lpc[l] = "record"
  /\ once = "unfired"
  /\ once' = "firing"
  /\ first' = lerr[l]
  /\ lpc' = [lpc EXCEPT ![l] = "closeAll"]
  /\ UNCHANGED <<held, lerr, open, slots, perIP, conn>>

(* closeAll closes one listener; the kernel resets its backlog. *)
CloseListener(l, m) ==
  /\ lpc[l] = "closeAll"
  /\ m \in open
  /\ open' = open \ {m}
  /\ conn' = [c \in Conns |->
                IF conn[c].st = "backlog" /\ conn[c].home = m THEN Free ELSE conn[c]]
  /\ UNCHANGED <<loopVars, slots, perIP, once, first>>

(* Mutation of CloseAllDone: content with its own listener. *)
CloseAllOwnOnly(l) ==
  /\ lpc[l] = "closeAll"
  /\ l \notin open
  /\ once' = "fired"
  /\ lpc' = [lpc EXCEPT ![l] = "done"]
  /\ UNCHANGED <<held, lerr, open, slots, perIP, conn, first>>

(* Every listener is closed: once.Do returns. *)
CloseAllDone(l) ==
  /\ lpc[l] = "closeAll"
  /\ open = {}
  /\ once' = "fired"
  /\ lpc' = [lpc EXCEPT ![l] = "done"]
  /\ UNCHANGED <<held, lerr, open, slots, perIP, conn, first>>

(* Mutation of RecordLater: record without the Once. *)
RecordLaterOverwrites(l) ==
  /\ lpc[l] = "record"
  /\ once = "fired"
  /\ first' = lerr[l]
  /\ lpc' = [lpc EXCEPT ![l] = "done"]
  /\ UNCHANGED <<held, lerr, open, once, slots, perIP, conn>>

(* Later callers of once.Do wait for the first and do nothing. *)
RecordLater(l) ==
  /\ lpc[l] = "record"
  /\ once = "fired"
  /\ lpc' = [lpc EXCEPT ![l] = "done"]
  /\ UNCHANGED <<held, lerr, failVars, slots, perIP, conn>>

(* wg.Wait has returned. *)
Returned == \A l \in Listeners : lpc[l] = "done"

(* ServeAll has returned: nothing is left to do here. *)
Exit == Returned /\ UNCHANGED vars

-----------------------------------------------------------------------------
(* Server.handle: the session goroutine of c *)

(* Handler.Handle returns, or panics and is recovered; conn.Close. *)
SessionEnds(c) ==
  /\ conn[c].st = "serving"
  /\ conn' = [conn EXCEPT ![c].st = "closed"]
  /\ UNCHANGED <<loopVars, failVars, slots, perIP>>

HandleReleaseIP(c) ==
  /\ conn[c].st = "closed"
  /\ ReleaseIP(c)
  /\ conn' = [conn EXCEPT ![c].st = "ipReleased"]
  /\ UNCHANGED <<loopVars, failVars, slots>>

HandleReleaseGlobal(c) ==
  /\ conn[c].st = "ipReleased"
  /\ ReleaseGlobal
  /\ conn' = [conn EXCEPT ![c] = Free]
  /\ UNCHANGED <<loopVars, failVars, perIP>>

-----------------------------------------------------------------------------
Loop(l) ==
  \/ Acquire(l)
  \/ \E c \in Conns : Accept(l, c)
  \/ Admit(l)
  \/ Reject(l)
  \/ RejectRelease(l)
  \/ AcceptError(l)
  \/ RecordFirst(l)
  \/ \E m \in Listeners : CloseListener(l, m)
  \/ CloseAllDone(l)
  \/ RecordLater(l)

Handle(c) ==
  \/ SessionEnds(c)
  \/ HandleReleaseIP(c)
  \/ HandleReleaseGlobal(c)

Next ==
  \/ \E c \in Conns, l \in Listeners, a \in IPs \cup {NoIP} : Arrive(c, l, a)
  \/ \E l \in Listeners : Loop(l)
  \/ \E c \in Conns : Handle(c)
  \/ Exit

Spec == Init /\ [][Next]_vars

(* Scheduling.  A running goroutine takes its next step.  Blocked senders  *)
(* on a Go channel are served in order and the kernel's accept queue is    *)
(* FIFO, so Acquire and Accept are strongly fair.  Nothing makes a client  *)
(* arrive or an open listener fail.                                        *)
Scheduling ==
  /\ \A l \in Listeners :
       /\ SF_vars(Acquire(l))
       /\ \A c \in Conns : SF_vars(Accept(l, c))
       /\ WF_vars(Admit(l) \/ Reject(l) \/ RejectRelease(l))
       /\ WF_vars(l \notin open /\ AcceptError(l))
       /\ WF_vars(RecordFirst(l) \/ CloseAllDone(l) \/ RecordLater(l))
       /\ WF_vars(\E m \in Listeners : CloseListener(l, m))
  /\ \A c \in Conns : WF_vars(HandleReleaseIP(c) \/ HandleReleaseGlobal(c))

(* A session may stay for as long as its user likes. *)
OpenEndedSpec == Spec /\ Scheduling

(* Every session ends some day. *)
FairSpec == OpenEndedSpec /\ \A c \in Conns : WF_vars(SessionEnds(c))
-----------------------------------------------------------------------------
(* Properties *)

(* Every variable has its type: no path of Serve and handle takes the      *)
(* semaphore below zero.                                                   *)
TypeOK ==
  /\ lpc \in [Listeners -> LoopStates]
  /\ held \in [Listeners -> Conns \cup {NoConn}]
  /\ lerr \in [Listeners -> Errors]
  /\ open \subseteq Listeners
  /\ slots \in Nat
  /\ perIP \in [IPs -> Nat]
  /\ conn \in [Conns -> Conn]
  /\ once \in {"unfired", "firing", "fired"}
  /\ first \in Errors

(* Who occupies a place of the semaphore: a loop from acquire until it     *)
(* gives the place back or hands it to a session, and a session until its  *)
(* deferred releaseGlobal.                                                 *)
HolderLoops == {l \in Listeners : lpc[l] \in {"accept", "admit", "reject"}}
HolderConns == {c \in Conns : conn[c].st \in {"serving", "closed", "ipReleased"}}

(* connLimiter.sem holds exactly one token for every holder: no path of    *)
(* Serve or handle (refusal, accept error, panic) leaks a token or returns *)
(* one twice, and the cap bounds loops and sessions together.              *)
SlotAccounting ==
  /\ slots = Cardinality(HolderLoops) + Cardinality(HolderConns)
  /\ slots <= MaxConns

(* The sessions charged to address a. *)
ChargedTo(a) ==
  {c \in Conns : conn[c].st \in {"serving", "closed"} /\ conn[c].addr = a /\ Counted(c)}

(* connLimiter.perIP counts, for every address, the admitted sessions that *)
(* have not yet run releaseIP: admission and release agree on trust and on *)
(* the key although the trust list may change in between.                  *)
PerIPAccounting == \A a \in IPs : perIP[a] = Cardinality(ChargedTo(a))

(* ServeAll reports the failure that brought the listeners down, never the *)
(* "use of closed network connection" that closeAll itself provokes.       *)
RootCauseReported ==
  /\ once = "unfired" <=> first = "none"
  /\ first # "closed"

(* The connections being served, as Admission sees them. *)
Served ==
  {[conn |-> c, addr |-> conn[c].addr, trusted |-> conn[c].trusted] :
     c \in {d \in Conns : conn[d].st = "serving"}}

A == INSTANCE Admission WITH served <- Served

(* Serve, handle and the limiter together implement the admission promise: *)
(* never more than MaxConns sessions, never more than MaxPerIP untrusted   *)
(* sessions of one address.                                                *)
ImplementsAdmission == A!Spec

(* A connection queued in a kernel backlog is accepted once load subsides, *)
(* or is reset because its listener was closed.                            *)
BacklogServed ==
  \A c \in Conns : conn[c].st = "backlog" ~> conn[c].st # "backlog"

(* After the first listener error ServeAll returns. *)
ServeAllReturns == (once # "unfired") ~> Returned
=============================================================================
