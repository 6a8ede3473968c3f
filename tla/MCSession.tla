----------------------------- MODULE MCSession -----------------------------
(***************************************************************************)
(* The life of a session and what its terminal shows at the menu, on small *)
(* instances.  The two share no variable: a behaviour follows one of them  *)
(* while the other rests.                                                  *)
(*                                                                         *)
(* Session: two concurrent sessions and three connections in all, so that  *)
(* a connection can end and another take its place while an administrator  *)
(* still looks at the first; two users, so that a connection can be logged *)
(* on by one after the other.  MCSessionLive.cfg checks the liveness of    *)
(* Session.tla by itself with one user, and no symmetry.                   *)
(* Menu: terminals of three sizes, one too small to be used as it is; two  *)
(* groups whose services fill a page of the menu less one, exactly and     *)
(* more than twice; documents of a full page of news, and of more than one *)
(* page on every terminal; the forms and details with the most fields.     *)
(***************************************************************************)
EXTENDS Session, Menu, TLC

VARIABLE subject   \* what this behaviour follows

(* The goroutines are alike, the users, and the groups with services. *)
Symmetric == Permutations(Slots) \cup Permutations(Users) \cup Permutations(Groups)

MCTerminals == {<<24, 80>>, <<43, 80>>, <<20, 132>>}
MCCatalogues == {{}, 1 .. 17, 1 .. 18, 2 .. 40}

Text(n) == [i \in 1 .. n |-> "text"]
MCDocuments == {<<>>, <<"blank">>, Text(22) \o <<"blank">>, <<"blank">> \o Text(41)}

MCCompactForms ==
  {[intro |-> FALSE, fields |-> <<"primary", "section", "primary", "section", "primary", "primary",
                                  "second", "section", "section", "primary", "primary">>],
   [intro |-> FALSE, fields |-> <<"section", "primary", "section", "primary", "primary", "primary">>],
   [intro |-> FALSE, fields |-> <<"primary", "gap", "primary", "primary">>],
   [intro |-> TRUE, fields |-> <<"primary">>]}

MCDetails == {<<8, TRUE, 40>>, <<7, FALSE, 0>>}

MenuRests == term = <<24, 80>> /\ grants = [g \in Groups |-> {}] /\ MenuInit

SessionsInit ==
  \/ subject = "sessions" /\ Init /\ MenuRests
  \/ subject = "menu" /\ Init /\ MenuInit

SessionsNext ==
  /\ UNCHANGED subject
  /\ \/ subject = "sessions" /\ Next /\ UNCHANGED menuVars
     \/ subject = "menu" /\ MenuNext /\ UNCHANGED vars

SessionsSpec == SessionsInit /\ [][SessionsNext]_<<subject, vars, menuVars>>
=============================================================================
