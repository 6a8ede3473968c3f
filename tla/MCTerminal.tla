------------------------------ MODULE MCTerminal -----------------------------
(***************************************************************************)
(* What a terminal sends and is sent, on small instances: the Telnet       *)
(* processor, the two relays that use it, and the panels.  They share no   *)
(* variable: a behaviour follows one of them while the others rest.        *)
(*                                                                         *)
(* Processor: a peer that sends every kind of command, terminal-type       *)
(* requests below, at and above a cap of three bytes included.             *)
(* Relays: ends that send each a mixture of data, framing and requests,    *)
(* with the escape AID at the start of a record and inside one.            *)
(* Panels: those of MCPanels.                                              *)
(***************************************************************************)
EXTENDS Relay, MCPanels

VARIABLE subject   \* what this behaviour follows

Doubled(s) == FlattenSeq([i \in DOMAIN s |->
                IF s[i] = cIAC THEN <<cIAC, cIAC>> ELSE <<s[i]>>])

MCPayloads ==
  {[text |-> s, wire |-> Doubled(s)] :
     s \in {<<optTERMTYPE, ttSEND>>,
            <<optTERMTYPE, ttSEND, cIAC>>,
            <<optTERMTYPE, ttSEND, aidPA3, cIAC>>,
            <<aidPA3, cEOR>>}}

MCTraffic ==
  {w \in Wire : w.bytes \in {<<aidPA3>>, <<cIAC, cIAC>>, <<cIAC, cEOR>>, <<cIAC, cDO, optTERMTYPE>>,
                             <<cIAC, cWILL, aidPA3>>, <<cIAC, cWONT, optBINARY>>,
                             <<cIAC, cSB, optTERMTYPE, ttSEND, cIAC, cSE>>}}

ProcessorRests == role = "roleClient" /\ ProcessorInit

RelaysRest == stream = [e \in Peers |-> <<>>] /\ RelayInit

TerminalInit ==
  \/ subject = "processor" /\ ProcessorInit /\ RelaysRest /\ Init
  \/ subject = "relays" /\ ProcessorRests /\ RelayInit /\ Init
  \/ subject = "panels" /\ ProcessorRests /\ RelaysRest /\ Init

TerminalNext ==
  /\ UNCHANGED subject
  /\ \/ subject = "processor" /\ ProcessorNext /\ UNCHANGED <<relayVars, vars>>
     \/ subject = "relays" /\ RelayNext /\ UNCHANGED <<processorVars, vars>>
     \/ subject = "panels" /\ Next /\ UNCHANGED <<processorVars, relayVars>>

TerminalSpec == TerminalInit /\ [][TerminalNext]_<<subject, processorVars, relayVars, vars>>
=============================================================================
