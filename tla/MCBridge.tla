------------------------------ MODULE MCBridge ------------------------------
(* Bridge.tla on small instances.  One chunk from each peer is enough for  *)
(* every relay to be found, by the other's end, before, in or after each   *)
(* of its reads and writes.                                                *)
EXTENDS Bridge
=============================================================================
