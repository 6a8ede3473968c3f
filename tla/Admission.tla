----------------------------- MODULE Admission -----------------------------
(***************************************************************************)
(* What connection limiting promises to the outside, with none of its      *)
(* mechanism: the set of connections being served, each with its client    *)
(* address and the trust verdict it was admitted under.  Connections enter *)
(* one at a time, only while the global cap and, for untrusted clients     *)
(* with a known address, the per-address cap leave room; they leave at any *)
(* time.  Server.tla is shown to implement this module.                    *)
(***************************************************************************)
EXTENDS Naturals, FiniteSets

CONSTANTS
  Conns,      \* connection identities
  IPs,        \* client addresses the limiter can attribute
  NoIP,       \* stands for an address with no host:port shape
  MaxConns,   \* global cap
  MaxPerIP    \* per-address cap; 0 disables it

VARIABLE served   \* the records [conn, addr, trusted] being served

(* The connections served to address a that count against its cap. *)
ServedFrom(a) == {r \in served : r.addr = a /\ ~r.trusted}

Init == served = {}

Enter(c, a, t) ==
  /\ \A r \in served : r.conn # c
  /\ Cardinality(served) < MaxConns
  /\ (MaxPerIP > 0 /\ ~t /\ a # NoIP) => Cardinality(ServedFrom(a)) < MaxPerIP
  /\ served' = served \cup {[conn |-> c, addr |-> a, trusted |-> t]}

Leave(c) ==
  /\ \E r \in served : r.conn = c
  /\ served' = {r \in served : r.conn # c}

Next ==
  \E c \in Conns :
    \/ \E a \in IPs \cup {NoIP}, t \in BOOLEAN : Enter(c, a, t)
    \/ Leave(c)

Spec == Init /\ [][Next]_served
=============================================================================
