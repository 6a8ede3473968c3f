------------------------------- MODULE Telnet -------------------------------
(***************************************************************************)
(* The Telnet processor of one direction of a bridge: telnetProcessor of   *)
(* internal/bridge/telnet.go.  It splits the bytes a peer sends into 3270  *)
(* data, forwarded to the other leg, and Telnet negotiation, answered on   *)
(* this leg; towards the user it also watches for the escape key.          *)
(*                                                                         *)
(* The peer sends whole Telnet commands.  The processor takes them one     *)
(* byte a step, so a chunk may end anywhere: all state that process keeps  *)
(* between two calls is in the variables.  Bytes have the values of the    *)
(* source.  The two-byte framings IAC IAC and IAC EOR, which process       *)
(* always appends whole, are one unit of the forwarded stream; the         *)
(* terminal type's name is left out of an IS reply.                        *)
(***************************************************************************)
EXTENDS Naturals, FiniteSets, Sequences, SequencesExt

CONSTANTS
  DataBytes,      \* 3270 data bytes the peer sends
  Options,        \* Telnet options it negotiates
  Payloads,       \* subnegotiation payloads it sends: the text, and the text
                  \* as it is on the wire, every IAC doubled
  maxSubnegLen,   \* cap on a collected payload (1024 in the code)
  MaxCommands     \* bound on the commands it sends

cIAC  == 255
cDONT == 254
cDO   == 253
cWONT == 252
cWILL == 251
cSB   == 250
cSE   == 240
cEOR  == 239
cNOP  == 241    \* stands for every command process ignores

optBINARY   == 0
optSGA      == 3
optTERMTYPE == 24
optEOR      == 25

ttIS   == 0
ttSEND == 1
aidPA3 == 107

Byte == 0 .. 255
pstate == {"stData", "stIAC", "stOption", "stSubData", "stSubIAC"}

(* s.wire is s.text with every IAC doubled, the i-th byte of the text at   *)
(* place at[i] of the wire.                                                *)
Doubles(s, at) ==
  /\ at[1] = 1 /\ at[Len(s.text) + 1] = Len(s.wire) + 1
  /\ \A i \in 1 .. Len(s.text) :
       /\ at[i + 1] = IF s.text[i] = cIAC THEN at[i] + 2 ELSE at[i] + 1
       /\ \A j \in at[i] .. at[i + 1] - 1 : s.wire[j] = s.text[i]

ASSUME TelnetAssumption ==
  /\ DataBytes \subseteq Byte \ {cIAC}
  /\ Options \subseteq Byte
  /\ Payloads \subseteq [text : Seq(Byte), wire : Seq(Byte)]
  /\ \A s \in Payloads :
       \E at \in [1 .. Len(s.text) + 1 -> 1 .. Len(s.wire) + 1] : Doubles(s, at)
  /\ maxSubnegLen \in Nat
  /\ MaxCommands \in Nat

VARIABLES
  role,            \* "roleClient" towards the backend, "roleServer" towards the user
  state,           \* the parser's state
  optCmd,          \* pending WILL, WONT, DO or DONT
  subneg,          \* collected subnegotiation payload
  subnegOverflow,  \* the payload exceeded maxSubnegLen
  atRecStart,      \* the next data byte begins a 3270 record
  escaped,         \* process has reported the escape: the processor is done
  forward,         \* units written to the other leg
  reply,           \* answers written on this leg
  inbuf,           \* bytes sent and not yet processed
  sent             \* the commands the peer has sent

parser == <<state, optCmd, subneg, subnegOverflow, atRecStart>>
processorVars == <<role, parser, escaped, forward, reply, inbuf, sent>>

-----------------------------------------------------------------------------
(* The peer: what each command is on the wire, what of it is 3270 data,    *)
(* and what it asks for.                                                   *)

Data(b) == <<"data", b>>
Framing(b) == <<"iac", b>>

Command(bytes, units, ask) == [bytes |-> bytes, units |-> units, ask |-> ask]

DataCommands == {Command(<<b>>, <<Data(b)>>, <<>>) : b \in DataBytes}
FramingCommands == {Command(<<cIAC, b>>, <<Framing(b)>>, <<>>) : b \in {cIAC, cEOR}}
IgnoredCommands == {Command(<<cIAC, cNOP>>, <<>>, <<>>)}
Negotiations == {Command(<<cIAC, c[1], c[2]>>, <<>>, c) : c \in {cDO, cWILL, cWONT} \X Options}
Subnegotiations ==
  {Command(<<cIAC, cSB>> \o s.wire \o <<cIAC, cSE>>, <<>>, <<cSB>> \o s.text) : s \in Payloads}
BrokenSubnegotiations ==
  {Command(<<cIAC, cSB>> \o s.wire \o <<cIAC, cNOP>>, <<>>, <<>>) : s \in Payloads}

Wire == DataCommands \cup FramingCommands \cup IgnoredCommands \cup Negotiations
          \cup Subnegotiations \cup BrokenSubnegotiations

(* A peer asks for the terminal type only once this leg has offered it. *)
Permitted(w) ==
  IsPrefix(<<cSB, optTERMTYPE, ttSEND>>, w.ask) =>
    \E i \in DOMAIN reply : reply[i] = <<cWILL, optTERMTYPE>>

-----------------------------------------------------------------------------
(* newProcessor, as Bridge makes one for each direction *)
ProcessorInit ==
  /\ role \in {"roleClient", "roleServer"}
  /\ state = "stData"
  /\ optCmd = 0
  /\ subneg = <<>>
  /\ subnegOverflow = FALSE
  /\ atRecStart = TRUE
  /\ escaped = FALSE
  /\ forward = <<>>
  /\ reply = <<>>
  /\ inbuf = <<>>
  /\ sent = <<>>

(* Only the processor of the user's leg is given an escape AID. *)
escapeAID == IF role = "roleServer" THEN aidPA3 ELSE 0

(* A Read delivers the next command, whole or in pieces. *)
Receive ==
  /\ inbuf = <<>>
  /\ ~escaped
  /\ Len(sent) < MaxCommands
  /\ \E w \in Wire :
       /\ Permitted(w)
       /\ inbuf' = w.bytes
       /\ sent' = Append(sent, w)
  /\ UNCHANGED <<role, parser, escaped, forward, reply>>

(* The byte process's loop looks at *)
NextByte == Head(inbuf)

Consume ==
  /\ ~escaped
  /\ inbuf # <<>>
  /\ inbuf' = Tail(inbuf)
  /\ UNCHANGED <<role, sent>>

(* Mutant: the escape AID is looked for in every byte of a record. *)
StDataByte_Anywhere ==
  /\ Consume
  /\ state = "stData"
  /\ \/ NextByte = cIAC /\ state' = "stIAC" /\ UNCHANGED <<atRecStart, escaped, forward>>
     \/ /\ NextByte # cIAC
        /\ atRecStart' = FALSE
        /\ escaped' = (NextByte = escapeAID)
        /\ forward' = IF escaped' THEN forward ELSE Append(forward, Data(NextByte))
        /\ UNCHANGED state
  /\ UNCHANGED <<optCmd, subneg, subnegOverflow, reply>>

(* case stData: an AID at the start of a record is what the escape key     *)
(* sends; process returns at once, and what is left of the chunk is lost.  *)
StDataByte ==
  /\ Consume
  /\ state = "stData"
  /\ LET b == NextByte
         isEscape == atRecStart /\ escapeAID # 0 /\ b = escapeAID
     IN \/ /\ b = cIAC
           /\ state' = "stIAC"
           /\ UNCHANGED <<atRecStart, escaped, forward>>
        \/ /\ b # cIAC
           /\ atRecStart' = FALSE
           /\ escaped' = isEscape
           /\ forward' = IF isEscape THEN forward ELSE Append(forward, Data(b))
           /\ UNCHANGED state
  /\ UNCHANGED <<optCmd, subneg, subnegOverflow, reply>>

(* Mutant: a new subnegotiation inherits the overflow of an earlier one.   *)
IACByte_Stale(b) ==
  /\ state' = CASE b = cSB -> "stSubData"
                 [] b \in {cWILL, cWONT, cDO, cDONT} -> "stOption"
                 [] OTHER -> "stData"
  /\ optCmd' = IF b \in {cWILL, cWONT, cDO, cDONT} THEN b ELSE optCmd
  /\ subneg' = IF b = cSB THEN <<>> ELSE subneg
  /\ atRecStart' = (b = cEOR \/ (atRecStart /\ b # cIAC))
  /\ forward' = IF b \in {cIAC, cEOR} THEN Append(forward, Framing(b)) ELSE forward
  /\ UNCHANGED subnegOverflow

(* case stIAC: a literal 0xFF and an end of record are forwarded, a        *)
(* negotiation and a subnegotiation begin, other commands are ignored.     *)
IACByte(b) ==
  \/ /\ b \in {cIAC, cEOR}
     /\ atRecStart' = (b = cEOR)
     /\ forward' = Append(forward, Framing(b))
     /\ state' = "stData"
     /\ UNCHANGED <<optCmd, subneg, subnegOverflow>>
  \/ /\ b \in {cWILL, cWONT, cDO, cDONT}
     /\ optCmd' = b
     /\ state' = "stOption"
     /\ UNCHANGED <<subneg, subnegOverflow, atRecStart, forward>>
  \/ /\ b = cSB
     /\ subneg' = <<>>
     /\ subnegOverflow' = FALSE
     /\ state' = "stSubData"
     /\ UNCHANGED <<optCmd, atRecStart, forward>>
  \/ /\ b \notin {cIAC, cEOR, cWILL, cWONT, cDO, cDONT, cSB}
     /\ state' = "stData"
     /\ UNCHANGED <<optCmd, subneg, subnegOverflow, atRecStart, forward>>

StIACByte ==
  /\ Consume
  /\ state = "stIAC"
  /\ IACByte(NextByte)
  /\ UNCHANGED <<escaped, reply>>

agreeable(r, opt) ==
  \/ opt \in {optBINARY, optEOR, optSGA}
  \/ opt = optTERMTYPE /\ r = "roleClient"

(* A refusal is accepted silently; nothing remembers what was agreed. *)
negotiate(r, cmd, opt) ==
  CASE cmd = cDO   -> <<<<IF agreeable(r, opt) THEN cWILL ELSE cWONT, opt>>>>
    [] cmd = cWILL -> <<<<IF agreeable(r, opt) THEN cDO ELSE cDONT, opt>>>>
    [] OTHER       -> <<>>

(* case stOption *)
StOptionByte ==
  /\ Consume
  /\ state = "stOption"
  /\ reply' = reply \o negotiate(role, optCmd, NextByte)
  /\ state' = "stData"
  /\ UNCHANGED <<optCmd, subneg, subnegOverflow, atRecStart, escaped, forward>>

(* Mutant: the length is checked after the byte is appended. *)
Collect_OffByOne(b) ==
  LET room == ~subnegOverflow /\ Len(subneg) <= maxSubnegLen
  IN /\ subneg' = IF room THEN Append(subneg, b) ELSE subneg
     /\ subnegOverflow' = ~room

(* Appending a payload byte, or noting that there is no room for it *)
Collect(b) ==
  LET room == ~subnegOverflow /\ Len(subneg) < maxSubnegLen
  IN /\ subneg' = IF room THEN Append(subneg, b) ELSE subneg
     /\ subnegOverflow' = ~room

(* case stSubData *)
StSubDataByte ==
  /\ Consume
  /\ state = "stSubData"
  /\ IF NextByte = cIAC
     THEN state' = "stSubIAC" /\ UNCHANGED <<subneg, subnegOverflow>>
     ELSE Collect(NextByte) /\ UNCHANGED state
  /\ UNCHANGED <<optCmd, atRecStart, escaped, forward, reply>>

subnegReply ==
  IF IsPrefix(<<optTERMTYPE, ttSEND>>, subneg)
  THEN <<<<cSB, optTERMTYPE, ttIS>>>>
  ELSE <<>>

(* Mutant: any command inside a subnegotiation is taken for more payload. *)
StSubIACByte_Sticky ==
  /\ Consume
  /\ state = "stSubIAC"
  /\ \/ /\ NextByte = cSE
        /\ reply' = IF subnegOverflow THEN reply ELSE reply \o subnegReply
        /\ state' = "stData"
        /\ UNCHANGED <<subneg, subnegOverflow>>
     \/ /\ NextByte # cSE
        /\ Collect(NextByte)
        /\ state' = "stSubData"
        /\ UNCHANGED reply
  /\ UNCHANGED <<optCmd, atRecStart, escaped, forward>>

(* case stSubIAC *)
StSubIACByte ==
  /\ Consume
  /\ state = "stSubIAC"
  /\ \/ /\ NextByte = cSE
        /\ reply' = IF subnegOverflow THEN reply ELSE reply \o subnegReply
        /\ state' = "stData"
        /\ UNCHANGED <<subneg, subnegOverflow>>
     \/ /\ NextByte = cIAC
        /\ Collect(cIAC)
        /\ state' = "stSubData"
        /\ UNCHANGED reply
     \/ /\ NextByte \notin {cSE, cIAC}
        /\ state' = "stData"
        /\ UNCHANGED <<subneg, subnegOverflow, reply>>
  /\ UNCHANGED <<optCmd, atRecStart, escaped, forward>>

(* The escape ends the processor; so does a peer with no more to send. *)
Finished ==
  /\ escaped \/ (inbuf = <<>> /\ Len(sent) = MaxCommands)
  /\ UNCHANGED processorVars

ProcessorNext ==
  \/ Receive
  \/ StDataByte \/ StIACByte \/ StOptionByte \/ StSubDataByte \/ StSubIACByte
  \/ Finished

ProcessorSpec == ProcessorInit /\ [][ProcessorNext]_processorVars

-----------------------------------------------------------------------------
(* Properties *)

(* ProcessorOK: the variables hold values of their types, and the          *)
(* collected subnegotiation payload never outgrows maxSubnegLen.           *)
ProcessorOK ==
  /\ role \in {"roleClient", "roleServer"}
  /\ state \in pstate
  /\ optCmd \in Byte
  /\ subneg \in Seq(Byte)
  /\ Len(subneg) <= maxSubnegLen
  /\ subnegOverflow \in BOOLEAN
  /\ atRecStart \in BOOLEAN
  /\ escaped \in BOOLEAN
  /\ forward \in Seq({"data", "iac"} \X Byte)
  /\ reply \in Seq(Seq(Byte))
  /\ inbuf \in Seq(Byte)
  /\ sent \in Seq(Wire)

(* EscapeContained: on the user's leg no record the backend receives       *)
(* begins with the escape AID, and when the escape ends the processor the  *)
(* backend is left at a record boundary: nothing of the escape record, and *)
(* no truncated record, reaches it (process, case stData).                 *)
EscapeContained ==
  role = "roleServer" =>
    /\ \A i \in 1 .. Len(forward) :
         forward[i] = Data(aidPA3) => i > 1 /\ forward[i - 1] # Framing(cEOR)
    /\ escaped => forward = <<>> \/ forward[Len(forward)] = Framing(cEOR)

(* How many of the elements of S come up to the k-th place *)
UpTo(S, k) == Cardinality({j \in S : j <= k})

(* The commands whose bytes have all been processed, the one that was the  *)
(* escape left out                                                         *)
Processed == 1 .. (IF escaped THEN Len(sent) - 1 ELSE Len(sent))

(* PayloadExact: at every command boundary the backend has been sent the   *)
(* 3270 data of the commands so far, all of it, in order, and not a byte   *)
(* of a negotiation or subnegotiation, wherever the chunks were cut and    *)
(* even after an oversized or broken subnegotiation.                       *)
PayloadExact ==
  inbuf = <<>> =>
    LET carried == {k \in Processed : sent[k].units # <<>>}
    IN /\ Len(forward) = Cardinality(carried)
       /\ \A k \in carried : sent[k].units = <<forward[UpTo(carried, k)]>>

(* The requests that call for an answer *)
CallsForAnswer(w) ==
  \/ w.ask # <<>> /\ w.ask[1] \in {cDO, cWILL}
  \/ /\ IsPrefix(<<cSB, optTERMTYPE, ttSEND>>, w.ask)
     /\ Len(w.ask) - 1 <= maxSubnegLen

(* AnswersExact: at every command boundary each DO, WILL and terminal-type *)
(* request has got one answer, about the option it asked for and in the    *)
(* order asked, an oversized request none; and the user's leg, which has   *)
(* no terminal type, never sends one (agreeable).                          *)
AnswersExact ==
  inbuf = <<>> =>
    LET asked == {k \in DOMAIN sent : CallsForAnswer(sent[k])}
    IN /\ Len(reply) = Cardinality(asked)
       /\ \A k \in asked :
            LET answer == reply[UpTo(asked, k)]
            IN /\ answer[2] = sent[k].ask[2]
               /\ answer[1] = cSB => sent[k].ask[1] = cSB /\ role = "roleClient"
=============================================================================
