------------------------------- MODULE Admin -------------------------------
(***************************************************************************)
(* Several administrators at work in the admin screens on one database:    *)
(* accounts, groups, services, memberships and access grants, from         *)
(* adminFlow (internal/server/admin*.go) driving ui3270.RunList and        *)
(* RunForm, over the tables of internal/store (store.go, admin.go).        *)
(*                                                                         *)
(* Abstractions.  One step is one store call, with what the code does up   *)
(* to the next one or the next screen: other administrators act between.   *)
(* A screen keeps the row the operator is going to act on, as it was when  *)
(* the list was fetched; the other rows of the list are left out.  Names   *)
(* are in canonical case.  Of a row only its id and its name are kept:     *)
(* editing a user changes neither, and its MFA side is in Auth.tla.        *)
(* Trusted networks are a table without relations and are left out.        *)
(***************************************************************************)
EXTENDS Naturals, FiniteSetsExt

CONSTANTS
  Flows,             \* admin sessions
  UserNames, GroupNames, ServiceNames,
  Reserved,          \* the group names that start with ZZ
  ZZADMIN,           \* AdminGroup, one of Reserved
  FirstAdmin,        \* the account that exists at the start
  Absent,            \* no row has this id
  MaxUsers, MaxGroups, MaxServices   \* bounds on row ids

ASSUME AdminAssumption ==
  /\ Reserved \subseteq GroupNames /\ ZZADMIN \in Reserved
  /\ FirstAdmin \in UserNames
  /\ Absent \notin UserNames \cup GroupNames \cup ServiceNames
  /\ MaxUsers \in Nat \ {0} /\ MaxGroups \in Nat \ {0} /\ MaxServices \in Nat

VARIABLES
  tab,       \* the tables users, groups and services: id to name
  members,   \* user_groups: pairs of a user id and a group id
  links,     \* group_services: pairs of a group id and a service id
  flow,      \* where each admin session stands
  crossed    \* history: ZZADMIN changed between a guard and its removal

vars == <<tab, members, links, flow, crossed>>

Kinds == {"user", "group", "service"}
MaxOf == [user |-> MaxUsers, group |-> MaxGroups, service |-> MaxServices]
NamesOf == [user |-> UserNames, group |-> GroupNames, service |-> ServiceNames]
Ids(k) == 1 .. MaxOf[k]

NoRow == [id |-> 0, name |-> Absent]
RowsOf(k) == {[id |-> i, name |-> tab[k][i]] : i \in {j \in Ids(k) : tab[k][j] # Absent}}

(* out: not in the admin screens; list: a list about to be fetched; row: a *)
(* command pending on a row; confirm: D was pressed; join: the membership  *)
(* or access list of a row; pair: a command pending in it; guard, act: in  *)
(* the middle of a delete or a removal; checked: a form's name was free.   *)
Places == {"out", "list", "row", "confirm", "join", "pair", "guard", "act", "checked"}

NoFlow == [at |-> "out", me |-> 0, kind |-> "user", item |-> NoRow, other |-> NoRow,
           op |-> "none", name |-> Absent]

Init ==
  /\ tab = [user |-> [i \in Ids("user") |-> IF i = 1 THEN FirstAdmin ELSE Absent],
            group |-> [i \in Ids("group") |-> IF i = 1 THEN ZZADMIN ELSE Absent],
            service |-> [i \in Ids("service") |-> Absent]]
  /\ members = {<<1, 1>>}
  /\ links = {}
  /\ flow = [a \in Flows |-> NoFlow]
  /\ crossed = FALSE

-----------------------------------------------------------------------------
(* The store *)

Admins == {u \in Ids("user") : \E g \in Ids("group") : tab["group"][g] = ZZADMIN /\ <<u, g>> \in members}

Has(k, n) == \E i \in Ids(k) : tab[k][i] = n

(* An INTEGER PRIMARY KEY without AUTOINCREMENT: one more than the highest *)
(* id in the table, so that the highest ids are given out again.           *)
NewId(k) == Max({0} \cup {i \in Ids(k) : tab[k][i] # Absent}) + 1

(* insertOrGet: INSERT OR IGNORE on a table whose names are UNIQUE *)
InsertOrGet(k, n) ==
  \/ Has(k, n) /\ UNCHANGED tab
  \/ ~Has(k, n) /\ NewId(k) <= MaxOf[k] /\ tab' = [tab EXCEPT ![k] = [@ EXCEPT ![NewId(k)] = n]]

(* deleteCascade: the row with the links to it, in one transaction; an id  *)
(* that is gone is no error.                                               *)
DeleteRow(k, i) ==
  /\ tab' = [tab EXCEPT ![k] = [@ EXCEPT ![i] = Absent]]
  /\ members' = {p \in members : ~(k = "user" /\ p[1] = i) /\ ~(k = "group" /\ p[2] = i)}
  /\ links' = {p \in links : ~(k = "group" /\ p[1] = i) /\ ~(k = "service" /\ p[2] = i)}

(* Mutant: the connections are opened without foreign_keys(1). *)
References_Off(j, p) == TRUE

(* REFERENCES, enforced on every connection of the pool *)
References(j, p) ==
  IF j = "member" THEN tab["user"][p[1]] # Absent /\ tab["group"][p[2]] # Absent
                  ELSE tab["group"][p[1]] # Absent /\ tab["service"][p[2]] # Absent

(* AddUserToGroup, LinkGroupService: INSERT OR IGNORE; a foreign key that  *)
(* fails is an error and nothing is inserted.                              *)
InsertPair(j, p) ==
  LET new == IF References(j, p) THEN {p} ELSE {}
  IN /\ members' = IF j = "member" THEN members \cup new ELSE members
     /\ links' = IF j = "link" THEN links \cup new ELSE links
     /\ UNCHANGED tab

(* RemoveUserFromGroup, UnlinkGroupService: no-ops on an absent pair *)
DeletePair(j, p) ==
  /\ members' = IF j = "member" THEN members \ {p} ELSE members
  /\ links' = IF j = "link" THEN links \ {p} ELSE links
  /\ UNCHANGED tab

Unstored == UNCHANGED <<tab, members, links>>

-----------------------------------------------------------------------------
(* The screens *)

At(a) == flow[a].at

Moves(a, f) == flow' = [flow EXCEPT ![a] = f]

(* Back at a list that is fetched again, the membership list or the first. *)
ToList(a) == [NoFlow EXCEPT !.at = "list", !.me = flow[a].me]
ToJoin(a) == [flow[a] EXCEPT !.at = "join", !.other = NoRow, !.op = "none"]

(* Login as a member of ZZADMIN: isAdmin is not looked at again. *)
LogIn(a) ==
  /\ At(a) = "out"
  /\ \E u \in Admins : Moves(a, [NoFlow EXCEPT !.at = "list", !.me = u])
  /\ Unstored

(* PF3 at the admin menu *)
LogOut(a) == At(a) = "list" /\ Moves(a, NoFlow) /\ Unstored

(* The users, groups or services list: the row a command will be put on *)
Select(a) ==
  /\ At(a) = "list"
  /\ \E k \in Kinds : \E r \in RowsOf(k) :
       Moves(a, [flow[a] EXCEPT !.at = "row", !.kind = k, !.item = r])
  /\ Unstored

(* PF3, or a store call that fails and leaves a message *)
Back(a) ==
  /\ At(a) \notin {"out", "list"}
  /\ Moves(a, ToList(a))
  /\ Unstored

(* D: Confirm vetoes reserved groups, otherwise Enter will commit. *)
PressD(a) ==
  /\ At(a) = "row"
  /\ IF flow[a].kind = "group" /\ flow[a].item.name \in Reserved
     THEN Moves(a, ToList(a))
     ELSE Moves(a, [flow[a] EXCEPT !.at = "confirm"])
  /\ Unstored

(* Enter on a pending D: groups and services are deleted by id. *)
CommitDelete(a) ==
  /\ At(a) = "confirm" /\ flow[a].kind # "user"
  /\ DeleteRow(flow[a].kind, flow[a].item.id)
  /\ Moves(a, ToList(a))

(* deleteUser: not one's own account; GetUserGroups decides whether the    *)
(* last-admin guard is asked.                                              *)
CheckDelete(a) ==
  /\ At(a) = "confirm" /\ flow[a].kind = "user"
  /\ IF flow[a].item.id = flow[a].me
     THEN Moves(a, ToList(a))
     ELSE Moves(a, [flow[a] EXCEPT !.at = IF flow[a].item.id \in Admins THEN "guard" ELSE "act",
                                   !.op = "delete"])
  /\ Unstored

(* A or R in a membership or access list: from the user's side, from the   *)
(* group's side, or a service's groups.                                    *)
OpenJoin(a) == At(a) = "row" /\ Moves(a, [flow[a] EXCEPT !.at = "join"]) /\ Unstored

SelectOther(a) ==
  /\ At(a) = "join"
  /\ \E r \in RowsOf(IF flow[a].kind = "group" THEN "user" ELSE "group") :
       Moves(a, [flow[a] EXCEPT !.at = "pair", !.other = r])
  /\ Unstored

Join(f) == IF f.kind = "service" THEN "link" ELSE "member"
Pair(f) == IF f.kind = "user" THEN <<f.item.id, f.other.id>> ELSE <<f.other.id, f.item.id>>
GroupRow(f) == IF f.kind = "group" THEN f.item ELSE f.other
UserRow(f) == IF f.kind = "user" THEN f.item ELSE f.other

PressA(a) ==
  /\ At(a) = "pair"
  /\ InsertPair(Join(flow[a]), Pair(flow[a]))
  /\ Moves(a, ToJoin(a))

(* R: leaving ZZADMIN is guarded, anything else is not. *)
PressR(a) ==
  /\ At(a) = "pair"
  /\ IF Join(flow[a]) = "member" /\ GroupRow(flow[a]).name = ZZADMIN
     THEN Moves(a, [flow[a] EXCEPT !.at = "guard", !.op = "remove"]) /\ Unstored
     ELSE DeletePair(Join(flow[a]), Pair(flow[a])) /\ Moves(a, ToJoin(a))

(* Mutant: off by one. *)
LastAdmin_OffByOne == Has("group", ZZADMIN) /\ Cardinality(Admins) < 1

(* guardLastAdmin blocks; ZZADMIN keeps its id, so finding it and counting *)
(* its members are one read.                                               *)
LastAdmin == Has("group", ZZADMIN) /\ Cardinality(Admins) <= 1

(* The guard, and for a removal the check that it is not one's own *)
Guard(a) ==
  /\ At(a) = "guard"
  /\ Moves(a, IF LastAdmin \/ (flow[a].op = "remove" /\ UserRow(flow[a]).id = flow[a].me)
              THEN IF flow[a].op = "remove" THEN ToJoin(a) ELSE ToList(a)
              ELSE [flow[a] EXCEPT !.at = "act"])
  /\ Unstored

(* What the guard allowed is done, by id. *)
Act(a) ==
  /\ At(a) = "act"
  /\ \/ flow[a].op = "delete" /\ DeleteRow("user", flow[a].item.id) /\ Moves(a, ToList(a))
     \/ flow[a].op = "remove" /\ DeletePair("member", Pair(flow[a])) /\ Moves(a, ToJoin(a))

(* What a form accepts as the name of a new row *)
NewName(k, n) == ~Has(k, n) /\ ~(k = "group" /\ n \in Reserved)

(* PF4 and its form *)
SubmitAdd(a) ==
  /\ At(a) = "list"
  /\ \E k \in Kinds : \E n \in NamesOf[k] :
       /\ NewName(k, n)
       /\ Moves(a, [flow[a] EXCEPT !.at = "checked", !.kind = k, !.op = "create", !.name = n])
  /\ Unstored

(* S on a service and its form: checkServiceNameFree skips the row itself. *)
SubmitEdit(a) ==
  /\ At(a) = "row" /\ flow[a].kind = "service"
  /\ \E n \in ServiceNames :
       /\ \A i \in Ids("service") : tab["service"][i] = n => i = flow[a].item.id
       /\ Moves(a, [flow[a] EXCEPT !.at = "checked", !.op = "update", !.name = n])
  /\ Unstored

(* CreateUser, CreateGroup, CreateService *)
Create(a) ==
  /\ At(a) = "checked" /\ flow[a].op = "create"
  /\ InsertOrGet(flow[a].kind, flow[a].name)
  /\ UNCHANGED <<members, links>>
  /\ Moves(a, ToList(a))

(* UpdateService: an unknown id and a name taken meanwhile are errors that *)
(* leave the form up, as Back does.                                        *)
Update(a) ==
  LET i == flow[a].item.id
  IN /\ At(a) = "checked" /\ flow[a].op = "update"
     /\ tab["service"][i] # Absent
     /\ \A j \in Ids("service") : tab["service"][j] = flow[a].name => j = i
     /\ tab' = [tab EXCEPT !["service"] = [@ EXCEPT ![i] = flow[a].name]]
     /\ UNCHANGED <<members, links>>
     /\ Moves(a, ToList(a))

Step(a) ==
  \/ LogIn(a) \/ LogOut(a) \/ Select(a) \/ Back(a)
  \/ PressD(a) \/ CommitDelete(a) \/ CheckDelete(a)
  \/ OpenJoin(a) \/ SelectOther(a) \/ PressA(a) \/ PressR(a)
  \/ Guard(a) \/ Act(a)
  \/ SubmitAdd(a) \/ SubmitEdit(a) \/ Create(a) \/ Update(a)

(* What a just did to the store crossed another's guard if that guard has  *)
(* passed and its removal is still to come.                                *)
Crosses(a) == Admins' # Admins /\ \E b \in Flows \ {a} : At(b) = "act"

Next == \E a \in Flows : Step(a) /\ crossed' = (crossed \/ Crosses(a))

Spec == Init /\ [][Next]_vars

-----------------------------------------------------------------------------
Row(k) == {NoRow} \cup [id : Ids(k), name : NamesOf[k]]
AnyRow == Row("user") \cup Row("group") \cup Row("service")

(* TypeOK: the variables hold values of their types, and no two rows of a  *)
(* table have the same name (UNIQUE, insertOrGet, UpdateService).          *)
TypeOK ==
  /\ DOMAIN tab = Kinds
  /\ \A k \in Kinds :
       /\ tab[k] \in [Ids(k) -> NamesOf[k] \cup {Absent}]
       /\ \A i, j \in Ids(k) : i # j => tab[k][i] = Absent \/ tab[k][i] # tab[k][j]
  /\ members \subseteq Ids("user") \X Ids("group")
  /\ links \subseteq Ids("group") \X Ids("service")
  /\ \A a \in Flows :
       /\ flow[a].at \in Places /\ flow[a].me \in 0 .. MaxUsers /\ flow[a].kind \in Kinds
       /\ flow[a].item \in AnyRow /\ flow[a].other \in AnyRow
       /\ flow[a].op \in {"none", "delete", "remove", "create", "update"}
  /\ crossed \in BOOLEAN

(* NoDanglingGrants: every membership and every access grant is between    *)
(* rows that exist, although screens act on ids they read long before.     *)
(* Ids are given out again: a membership left behind by a deleted account  *)
(* would be inherited by the next account created.                         *)
NoDanglingGrants ==
  /\ TypeOK
  /\ \A p \in members : tab["user"][p[1]] # Absent /\ tab["group"][p[2]] # Absent
  /\ \A p \in links : tab["group"][p[1]] # Absent /\ tab["service"][p[2]] # Absent

(* LastAdminUnlessCrossed: whatever stale rows are confirmed and whichever *)
(* ids come back, ZZADMIN is the one reserved group there is, and it loses *)
(* its last member only when another administrator changed it between a    *)
(* guard and the removal it allowed; guardLastAdmin catches every sequence *)
(* of complete operations (Confirm, groupAdd, guardLastAdmin).             *)
LastAdminUnlessCrossed ==
  /\ {n \in Reserved : Has("group", n)} = {ZZADMIN}
  /\ Admins = {} => crossed
=============================================================================
