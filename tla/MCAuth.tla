------------------------------- MODULE MCAuth -------------------------------
(* Auth.tla on small instances. *)
EXTENDS Auth
=============================================================================
