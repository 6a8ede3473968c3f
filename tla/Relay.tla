-------------------------------- MODULE Relay -------------------------------
(***************************************************************************)
(* The two relays of a bridge and the bytes on its two connections: relay  *)
(* of internal/bridge/bridge.go with a telnetProcessor on each leg.        *)
(*                                                                         *)
(* Each connection is written by both goroutines: the relay that reads it  *)
(* writes its answers there, the other one the data it forwards.  A Write  *)
(* is atomic, but nothing orders the writes of the two, and the comment in *)
(* Bridge calls their interleaving "a real hazard to revisit".             *)
(*                                                                         *)
(* Abstractions.  What process makes of a stream is what Telnet.tla shows  *)
(* of it (PayloadExact, AnswersExact): a command has its effect when its   *)
(* last byte is read, so a chunk is the commands it completes.  What an    *)
(* end sends is fixed at the start; how late it arrives, and in which      *)
(* pieces, is for Read to say.                                             *)
(***************************************************************************)
EXTENDS Telnet

CONSTANTS
  Traffic,     \* the commands the ends send
  MaxTraffic   \* bound on how many each of them sends

ASSUME RelayAssumption == Traffic \subseteq Wire /\ MaxTraffic \in Nat

Peers == {"client", "backend"}
Other(e) == IF e = "client" THEN "backend" ELSE "client"

VARIABLES
  stream,  \* the commands each end sends
  taken,   \* how many of them its relay has read
  leg,     \* per end: where the relay that reads it stands, and what it has
           \* still to write, back to that end and on to the other one
  wire,    \* the bytes written on the connection to each end
  cut      \* the ends a write to which was cut short

relayVars == <<stream, taken, leg, wire, cut>>

Reading == [pc |-> "read", answers |-> <<>>, payload |-> <<>>, escaped |-> FALSE]
Over == [Reading EXCEPT !.pc = "over"]

RelayInit ==
  /\ stream \in [Peers -> UNION {[1 .. n -> Traffic] : n \in 0 .. MaxTraffic}]
  /\ taken = [e \in Peers |-> 0]
  /\ leg = [e \in Peers |-> Reading]
  /\ wire = [e \in Peers |-> <<>>]
  /\ cut = {}

-----------------------------------------------------------------------------
(* process *)

IsData(w) == w.units # <<>>

(* What the processor that reads this end answers to a request, but for    *)
(* the framing; the terminal type's name is left out.                      *)
AnswerTo(e, w) ==
  IF ~CallsForAnswer(w) THEN <<>>
  ELSE IF w.ask[1] = cSB THEN <<cSB, optTERMTYPE, ttIS>>
  ELSE negotiate(IF e = "backend" THEN "roleClient" ELSE "roleServer", w.ask[1], w.ask[2])[1]

Framed(answer) ==
  IF answer = <<>> THEN <<>>
  ELSE IF answer[1] = cSB THEN <<cIAC>> \o answer \o <<cIAC, cSE>>
  ELSE <<cIAC>> \o answer

(* The escape AID at the start of a record: only the client's relay looks, *)
(* and a record starts where no data came before or an IAC EOR came last.  *)
IsEscape(e, commands, i) ==
  /\ e = "client"
  /\ commands[i].units = <<Data(aidPA3)>>
  /\ \A j \in 1 .. i - 1 :
       IsData(commands[j]) /\ (\A k \in j + 1 .. i - 1 : ~IsData(commands[k])) =>
         commands[j].units = <<Framing(cEOR)>>

(* The last of the commands after the first m and up to the n-th that      *)
(* comes before an escape                                                  *)
UpToEscape(e, commands, m, n) ==
  CHOOSE l \in m .. n :
    /\ \A i \in m + 1 .. l : ~IsEscape(e, commands, i)
    /\ l < n => IsEscape(e, commands, l + 1)

(* What process returns for the commands after the first m, up to the n-th *)
process(e, m, n) ==
  LET upto == UpToEscape(e, stream[e], m, n)
      heard == SubSeq(stream[e], m + 1, upto)
  IN [answers |-> FlattenSeq([i \in DOMAIN heard |-> Framed(AnswerTo(e, heard[i]))]),
      payload |-> FlattenSeq([i \in DOMAIN heard |-> IF IsData(heard[i]) THEN heard[i].bytes ELSE <<>>]),
      escaped |-> upto < n]

-----------------------------------------------------------------------------
(* relay *)

(* src.Read returns, and process has its results. *)
Read(e) ==
  /\ leg[e].pc = "read"
  /\ \E n \in taken[e] + 1 .. Len(stream[e]) :
       LET got == process(e, taken[e], n)
       IN /\ leg' = [leg EXCEPT ![e] =
                         [pc |-> "answer", answers |-> got.answers,
                          payload |-> got.payload, escaped |-> got.escaped]]
          /\ taken' = [taken EXCEPT ![e] = n]
  /\ UNCHANGED <<stream, wire, cut>>

(* src.Write(reply) *)
WriteAnswers(e) ==
  /\ leg[e].pc = "answer"
  /\ wire' = [wire EXCEPT ![e] = @ \o leg[e].answers]
  /\ leg' = [leg EXCEPT ![e].pc = "forward", ![e].answers = <<>>]
  /\ UNCHANGED <<stream, taken, cut>>

(* Mutant: the data is copied on in pieces, as an io.Copy would. *)
WritePayload_Piecewise(e) ==
  /\ leg[e].pc = "forward"
  /\ \E n \in 0 .. Len(leg[e].payload) :
       LET rest == SubSeq(leg[e].payload, n + 1, Len(leg[e].payload))
       IN /\ wire' = [wire EXCEPT ![Other(e)] = @ \o SubSeq(leg[e].payload, 1, n)]
          /\ leg' = [leg EXCEPT ![e] =
                         IF rest # <<>> THEN [@ EXCEPT !.payload = rest]
                         ELSE IF @.escaped THEN Over ELSE Reading]
  /\ UNCHANGED <<stream, taken, cut>>

(* dst.Write(fwd), and the end of the loop's body *)
WritePayload(e) ==
  /\ leg[e].pc = "forward"
  /\ wire' = [wire EXCEPT ![Other(e)] = @ \o leg[e].payload]
  /\ leg' = [leg EXCEPT ![e] = IF @.escaped THEN Over ELSE Reading]
  /\ UNCHANGED <<stream, taken, cut>>

(* The source is closed, or Bridge, once a relay is over, has put the      *)
(* deadlines of both connections in the past.                              *)
ReadEnds(e) ==
  /\ leg[e].pc = "read"
  /\ leg' = [leg EXCEPT ![e] = Over]
  /\ UNCHANGED <<stream, taken, wire, cut>>

(* A Write that the deadline catches half way has put a part of its bytes  *)
(* on the wire.                                                            *)
WriteCut(e) ==
  /\ leg[Other(e)].pc = "over"
  /\ leg[e].pc \in {"answer", "forward"}
  /\ LET bytes == IF leg[e].pc = "answer" THEN leg[e].answers ELSE leg[e].payload
         to == IF leg[e].pc = "answer" THEN e ELSE Other(e)
     IN /\ \E n \in 0 .. Len(bytes) - 1 : wire' = [wire EXCEPT ![to] = @ \o SubSeq(bytes, 1, n)]
        /\ cut' = cut \cup {to}
  /\ leg' = [leg EXCEPT ![e] = Over]
  /\ UNCHANGED <<stream, taken>>

RelaysOver == (\A e \in Peers : leg[e].pc = "over") /\ UNCHANGED relayVars

RelayNext ==
  \/ \E e \in Peers : Read(e) \/ WriteAnswers(e) \/ WritePayload(e) \/ ReadEnds(e) \/ WriteCut(e)
  \/ RelaysOver

RelaySpec == RelayInit /\ [][RelayNext]_relayVars

-----------------------------------------------------------------------------
(* The reference: what a Telnet endpoint makes of the bytes it receives.   *)

Heard == [at |-> "data", data |-> <<>>, commands |-> <<>>]

Hear(r, b) ==
  LET command == [r EXCEPT !.commands = Append(@, b)]
  IN CASE r.at = "data" ->
            IF b = cIAC THEN [r EXCEPT !.at = "iac"] ELSE [r EXCEPT !.data = Append(@, Data(b))]
       [] r.at = "iac" ->
            IF b \in {cIAC, cEOR} THEN [r EXCEPT !.at = "data", !.data = Append(@, Framing(b))]
            ELSE IF b \in {cDO, cDONT, cWILL, cWONT} THEN [command EXCEPT !.at = "option"]
            ELSE IF b = cSB THEN [command EXCEPT !.at = "sub"]
            ELSE [r EXCEPT !.at = "data"]
       [] r.at = "option" -> [command EXCEPT !.at = "data"]
       [] r.at = "sub" -> IF b = cIAC THEN [r EXCEPT !.at = "subIac"] ELSE command
       [] r.at = "subIac" ->
            IF b = cSE THEN [r EXCEPT !.at = "data"] ELSE [command EXCEPT !.at = "sub"]

HeardIn(bytes) ==
  LET hear[n \in 0 .. Len(bytes)] == IF n = 0 THEN Heard ELSE Hear(hear[n - 1], bytes[n])
  IN hear[Len(bytes)]

(* The commands of an end that come before its first escape *)
BeforeEscape(e) == SubSeq(stream[e], 1, UpToEscape(e, stream[e], 0, taken[e]))

(* What is due to an end: the other's data, and the answers it asked for   *)
DataDue(e) ==
  LET commands == BeforeEscape(Other(e))
  IN FlattenSeq([i \in DOMAIN commands |-> commands[i].units])

AnswersDue(e) ==
  LET commands == BeforeEscape(e)
  IN FlattenSeq([i \in DOMAIN commands |-> AnswerTo(e, commands[i])])

(* HeardExact: however the writes of the two relays interleave on a        *)
(* connection, the endpoint there makes out of its bytes exactly the data  *)
(* of the other end and exactly the answers it asked for, each in order,   *)
(* as far as they have been written, and never stands inside a command:    *)
(* no answer splits a record's framing and no data byte is taken for an    *)
(* option (relay writes what process returns in one Write, and process     *)
(* always appends whole commands).  It holds until a deadline cuts a       *)
(* write to that end short, which ends the bridge.                         *)
HeardExact ==
  \A e \in Peers \ cut :
    LET heard == HeardIn(wire[e])
    IN /\ heard.at = "data"
       /\ IsPrefix(heard.data, DataDue(e))
       /\ IsPrefix(heard.commands, AnswersDue(e))
       /\ leg[Other(e)].pc = "read" => heard.data = DataDue(e)
       /\ leg[e].pc \in {"read", "forward"} => heard.commands = AnswersDue(e)
=============================================================================
