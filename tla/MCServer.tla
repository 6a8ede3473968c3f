------------------------------ MODULE MCServer ------------------------------
(* Server.tla on the instance of MCServer.cfg: two listeners and two       *)
(* connections compete for two slots, one attributable address, at most    *)
(* one untrusted session from it.                                          *)
EXTENDS Server
=============================================================================
