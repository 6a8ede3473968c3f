------------------------------ MODULE MCAdmin ------------------------------
(* Admin.tla with two administrators, three names for two account ids, an  *)
(* ordinary and two reserved group names, and a service.                   *)
EXTENDS Admin, TLC

(* The administrators are alike, and all user names but the first one's. *)
Symmetric == Permutations(Flows) \cup Permutations(UserNames \ {FirstAdmin})
=============================================================================
